---------------------- MODULE ServiceSubscriptionProofs ----------------------
(***************************************************************************)
(* ServiceSubscription implements ReplicatedState and its replicas never   *)
(* meet a gap, for any number of changes, rebindings and lost connections. *)
(***************************************************************************)
EXTENDS ServiceSubscription, SequenceTheorems, FiniteSetTheorems, TLAPS

-----------------------------------------------------------------------------
(***************************************************************************)
(* The inductive invariant.                                                *)
(***************************************************************************)
Pairs == Nat \X Nat
Frames == [sub: Nat, type: UpdateTypes \cup {"snapshot", "failed", "closed"}, val: Pairs]
Subscriptions ==
  [rev: Nat, srv: Subscribers \cup {"asked", "closed"}, pending: Seq(Frames), snap: Pairs,
   cli: {"asking", "answered", "open", "disposing", "drained", "failed", "gone"},
   listening: BOOLEAN, queued: Seq(Frames), tail: Seq(Frames)]

Typed ==
  /\ source \in [inst: Nat \ {0}, provided: BOOLEAN, seq: Nat, dirty: BOOLEAN]
  /\ had \in Seq(Pairs)
  /\ up \in BOOLEAN /\ wire \in Seq(Frames) /\ sub \in Seq(Subscriptions)
  /\ binding \in [rev: Nat, bound: BOOLEAN, sub: Subs \cup {0}]
  /\ starts \subseteq [rev: Nat, after: Subs \cup {0}]
  /\ view \in [seq: Nat, val: Pairs] /\ seen \in Nat /\ faulty \in BOOLEAN
  /\ changes \in 0..MaxChanges
  /\ \A k \in DOMAIN wire : wire[k].sub \in Subs

\* Every change is published once at most.
Counted ==
  /\ source.inst <= changes + 1 /\ source.seq <= changes
  /\ source.dirty => source.seq < changes

\* The history grows, a value that is not the first of its instance follows
\* the one before it, and only an instance that had a value is withdrawn.
Before(v, w) == v[1] < w[1] \/ (v[1] = w[1] /\ v[2] < w[2])
Rises(h) == \A j, k \in DOMAIN h : j < k => Before(h[j], h[k])
Ascends ==
  /\ \A k \in DOMAIN had : had[k][1] # 0 /\ had[k][2] <= Withdrawn
  /\ Rises(had)
  /\ \A k \in DOMAIN had : had[k][2] = Withdrawn =>
       k - 1 \in DOMAIN had /\ had[k - 1][1] = had[k][1]
  /\ \A k \in DOMAIN had : had[k][2] \notin {0, Withdrawn} =>
       k - 1 \in DOMAIN had /\ had[k - 1] = <<had[k][1], had[k][2] - 1>>
  /\ had # <<>>
  /\ had[Len(had)] = IF source.provided THEN Value ELSE <<source.inst, Withdrawn>>

\* What frame `f` carries: the update that made position `p` of the history.
Kind(v) == IF v[2] = Withdrawn THEN "unavailable" ELSE IF v[2] = 0 THEN "replaced" ELSE "state"
Carries(f, p) == p \in DOMAIN had /\ f.val = had[p] /\ f.type = Kind(had[p])
Run(q, from) == \A k \in DOMAIN q : Carries(q[k], from + k)

\* The revisions: one start or subscription each.
Revisions ==
  /\ \A i \in Subs : sub[i].rev <= binding.rev
  /\ \A i, j \in Subs : sub[i].rev = sub[j].rev => i = j
  /\ \A t \in starts : t.rev <= binding.rev /\ \A i \in Subs : sub[i].rev # t.rev
  /\ \A t, u \in starts : t.rev = u.rev => t = u

\* How the two halves of a subscription stand to each other, and the frames
\* that move them.
Halves(r) ==
  /\ r.listening => r.cli \in {"asking", "answered", "open"}
  /\ r.cli = "asking" => r.listening
  /\ r.srv \in {"asked", "subscribed"} => r.cli = "asking"
  /\ r.listening /\ r.srv = "closed" => r.cli = "asking"
  /\ r.srv = "asked" \/ (r.listening /\ r.srv = "closed") => r.queued = <<>>
  /\ r.cli \in {"asking", "answered"} => r.tail = <<>>
  /\ r.srv \notin Holding => r.pending = <<>>
Control(f, r) ==
  /\ r.srv # "asked"
  /\ f.type = "snapshot" => r.srv \in {"flushing", "ready"} /\ r.cli = "asking"
  /\ f.type = "failed" => r.srv = "closed" /\ r.cli = "asking"
  /\ f.type = "closed" => r.srv = "closed" /\ r.cli = "disposing"
  /\ f.type \in UpdateTypes => r.srv # "closed" \/ ~r.listening
Joint ==
  /\ \A i \in Subs : Halves(sub[i])
  /\ \A k \in DOMAIN wire : Control(wire[k], sub[wire[k].sub])
  /\ \A j, k \in DOMAIN wire :
       wire[j].type \notin UpdateTypes /\ wire[j].type = wire[k].type /\ wire[j].sub = wire[k].sub
         => j = k
  /\ ~up => wire = <<>> /\ \A i \in Subs : sub[i].srv = "closed"

\* The binding's own subscription continues what the view shows.
Base == IF view = Cold THEN seen + 1 ELSE seen
Continues(r) ==
  /\ r.cli = "open" /\ r.rev = binding.rev
  /\ Base \in DOMAIN had
  /\ IF view = Cold THEN had[Base][2] = Withdrawn ELSE view = At(had[Base])
  /\ Base + Len(r.tail) <= Len(had) /\ Run(r.tail, Base)
Bound ==
  /\ seen <= Len(had)
  /\ \A i \in Subs : sub[i].cli = "open" => binding.sub = i
  /\ \A i \in Subs : sub[i].tail # <<>> /\ sub[i].rev = binding.rev => binding.sub = i
  /\ IF binding.sub = 0 THEN view = Cold ELSE Continues(sub[binding.sub])

\* What the server holds back is the end of the history.
Ending(q) == Len(q) < Len(had) /\ Run(q, Len(had) - Len(q))
HeldBack == \A i \in Subs : Ending(sub[i].pending)

\* A client that listens has what there was up to position `lo`: it shows it,
\* or keeps it behind the snapshot it was sent, which is none older than what
\* a view of its revision showed.
Streaming(r) == r.listening /\ r.srv \in Subscribers
Behind(r, p) ==
  /\ p \in DOMAIN had /\ had[p] = r.snap /\ had[p][2] # Withdrawn
  /\ Run(r.queued, p)
  /\ r.rev = binding.rev => seen <= p
Has(r, lo) == IF r.cli = "open" THEN lo = Base + Len(r.tail)
              ELSE \E p \in DOMAIN had : Behind(r, p) /\ lo = p + Len(r.queued)

\* The wire brings it the rest up to `hi`, each update once and in order.
Brings(k, i) == k \in DOMAIN wire /\ wire[k].sub = i /\ wire[k].type \in UpdateTypes
Flows(i, lo, hi) ==
  /\ lo <= hi
  /\ \A k \in DOMAIN wire : Brings(k, i) => \E p \in (lo + 1)..hi : Carries(wire[k], p)
  /\ \A p \in (lo + 1)..hi : \E k \in DOMAIN wire : Brings(k, i) /\ Carries(wire[k], p)
  /\ \A j, k \in DOMAIN wire : j < k /\ Brings(j, i) /\ Brings(k, i) =>
       \A p, q \in DOMAIN had : Carries(wire[j], p) /\ Carries(wire[k], q) => p < q
Hi(r) == Len(had) - Len(r.pending)
Streams == \A i \in Subs : Streaming(sub[i]) =>
  \E lo \in Nat : Has(sub[i], lo) /\ Flows(i, lo, Hi(sub[i]))

IInv == /\ Typed /\ Counted /\ Ascends /\ Revisions /\ Joint /\ Bound
        /\ HeldBack /\ Streams /\ ~faulty
-----------------------------------------------------------------------------
(***************************************************************************)
(* Sequences that grow and shrink.                                         *)
(***************************************************************************)
\* `r` is `q` with something behind it.
Longer(q, r) == /\ \A k \in DOMAIN q : k \in DOMAIN r /\ r[k] = q[k]
                /\ \A j \in DOMAIN q, k \in DOMAIN r : k \notin DOMAIN q => j < k

\* One element joins.
LEMMA AppendLonger ==
  ASSUME NEW S, NEW q \in Seq(S), NEW e \in S
  PROVE  /\ Append(q, e) \in Seq(S) /\ Longer(q, Append(q, e))
         /\ Len(q) \in Nat /\ Len(Append(q, e)) = Len(q) + 1
         /\ DOMAIN Append(q, e) = DOMAIN q \cup {Len(q) + 1} /\ Len(q) + 1 \notin DOMAIN q
         /\ Append(q, e)[Len(q) + 1] = e
         /\ DOMAIN q = 1..Len(q)
<1>1. DOMAIN q = 1..Len(q) /\ Len(q) \in Nat
  BY LenProperties
<1>2. /\ Append(q, e) \in Seq(S) /\ Len(Append(q, e)) = Len(q) + 1
      /\ \A k \in 1..Len(q) : Append(q, e)[k] = q[k]
      /\ Append(q, e)[Len(q) + 1] = e
  BY AppendProperties
<1>3. DOMAIN Append(q, e) = 1..Len(q) + 1
  BY <1>2, LenProperties
<1>. QED BY <1>1, <1>2, <1>3 DEF Longer

\* A sequence joins.
LEMMA ConcatLonger ==
  ASSUME NEW S, NEW q \in Seq(S), NEW r \in Seq(S)
  PROVE  /\ q \o r \in Seq(S) /\ Longer(q, q \o r)
         /\ \A k \in DOMAIN r : /\ Len(q) + k \in DOMAIN (q \o r) /\ Len(q) + k \notin DOMAIN q
                                /\ (q \o r)[Len(q) + k] = r[k] /\ k \in Nat
         /\ \A k \in DOMAIN (q \o r) : k \notin DOMAIN q => k \in Nat /\ k - Len(q) \in DOMAIN r
         /\ Len(q) \in Nat
<1>1. /\ DOMAIN q = 1..Len(q) /\ Len(q) \in Nat
      /\ DOMAIN r = 1..Len(r) /\ Len(r) \in Nat
  BY LenProperties
<1>2. /\ q \o r \in Seq(S) /\ Len(q \o r) = Len(q) + Len(r)
      /\ \A k \in 1..Len(q) + Len(r) : (q \o r)[k] = IF k <= Len(q) THEN q[k] ELSE r[k - Len(q)]
  BY ConcatProperties
<1>3. DOMAIN (q \o r) = 1..Len(q) + Len(r)
  BY <1>2, LenProperties
<1>. QED BY <1>1, <1>2, <1>3 DEF Longer

\* The first element leaves.
LEMMA TailShifts ==
  ASSUME NEW S, NEW q \in Seq(S), q # <<>>
  PROVE  /\ Tail(q) \in Seq(S) /\ Head(q) = q[1] /\ 1 \in DOMAIN q /\ Head(q) \in S
         /\ Len(q) \in Nat /\ Len(Tail(q)) = Len(q) - 1 /\ Len(q) # 0
         /\ DOMAIN q = 1..Len(q)
         /\ \A k \in DOMAIN Tail(q) : k \in Nat /\ k # 0 /\ k + 1 \in DOMAIN q /\ Tail(q)[k] = q[k + 1]
         /\ \A k \in DOMAIN q : k \in Nat /\ (k # 1 => k - 1 \in DOMAIN Tail(q) /\ Tail(q)[k - 1] = q[k])
<1>1. DOMAIN q = 1..Len(q) /\ Len(q) \in Nat /\ Len(q) # 0
  BY LenProperties, EmptySeq
<1>2. /\ Tail(q) \in Seq(S) /\ Len(Tail(q)) = Len(q) - 1
      /\ \A i \in 1..Len(Tail(q)) : Tail(q)[i] = q[i + 1]
      /\ Head(q) \in S /\ Head(q) = q[1]
  BY HeadTailProperties
<1>3. DOMAIN Tail(q) = 1..Len(q) - 1
  BY <1>2, LenProperties
<1>. QED BY <1>1, <1>2, <1>3

-----------------------------------------------------------------------------
(***************************************************************************)
(* The history.                                                            *)
(***************************************************************************)
\* Nothing occurs in it twice.
LEMMA Once ==
  ASSUME NEW h \in Seq(Pairs), Rises(h), NEW p \in DOMAIN h, NEW q \in DOMAIN h, h[p] = h[q]
  PROVE  p = q
<1>1. DOMAIN h \subseteq Nat
  BY LenProperties
<1>2. h[p] \in Pairs
  BY <1>1, ElementOfSeq, LenProperties
<1>3. ~(p < q) /\ ~(q < p)
  <2>1. PICK v \in Pairs : v = h[p] /\ v = h[q]
    BY <1>2
  <2>2. ~Before(v, v)
    BY DEF Before, Pairs
  <2>3. /\ p < q => Before(h[p], h[q])
        /\ q < p => Before(h[q], h[p])
    BY DEF Rises
  <2>. QED BY ONLY <2>1, <2>2, <2>3
<1>. QED BY <1>1, <1>3

\* So a value has one position.
LEMMA PositionIs ==
  ASSUME had \in Seq(Pairs), Rises(had), NEW v, NEW p \in DOMAIN had, had[p] = v
  PROVE  Position(v) = p
BY Once DEF Position

\* A frame goes on carrying what it carried.
LEMMA CarriesStill ==
  ASSUME Longer(had, had'), NEW f, NEW p, Carries(f, p)
  PROVE  Carries(f, p)'
BY DEF Carries, Longer

\* And so does a run of frames.
LEMMA RunStill ==
  ASSUME Longer(had, had'), NEW q, NEW from, Run(q, from)
  PROVE  Run(q, from)'
BY CarriesStill DEF Run

-----------------------------------------------------------------------------
(***************************************************************************)
(* What the wire brings to one client.                                     *)
(***************************************************************************)
\* Nothing for it joins the wire.
LEMMA FlowsStill ==
  ASSUME had' \in Seq(Pairs), Rises(had'), Longer(had, had'), Longer(wire, wire'),
         NEW i, NEW lo \in Nat, NEW hi \in Nat, hi <= Len(had), Flows(i, lo, hi),
         \A k \in DOMAIN wire' : k \notin DOMAIN wire => ~Brings(k, i)'
  PROVE  Flows(i, lo, hi)'
<1>1. \A k \in DOMAIN wire' : Brings(k, i)' => Brings(k, i) /\ wire'[k] = wire[k]
  BY DEF Brings, Longer
<1>2. \A k \in DOMAIN wire : Brings(k, i) => Brings(k, i)' /\ wire'[k] = wire[k]
  BY DEF Brings, Longer
<1>3. \A k \in DOMAIN wire' : Brings(k, i)' => \E p \in (lo + 1)..hi : Carries(wire[k], p)'
  <2>. SUFFICES ASSUME NEW k \in DOMAIN wire', Brings(k, i)'
                PROVE  \E p \in (lo + 1)..hi : Carries(wire[k], p)'
    OBVIOUS
  <2>1. PICK f : f = wire'[k]
    OBVIOUS
  <2>2. PICK p \in (lo + 1)..hi : Carries(f, p)
    BY <1>1, <2>1 DEF Flows, Brings
  <2>3. Carries(f, p)'
    BY <2>2, CarriesStill
  <2>. QED BY <2>1, <2>3
<1>4. \A p \in (lo + 1)..hi : \E k \in DOMAIN wire' : Brings(k, i)' /\ Carries(wire[k], p)'
  <2>. SUFFICES ASSUME NEW p \in (lo + 1)..hi
                PROVE  \E k \in DOMAIN wire' : Brings(k, i)' /\ Carries(wire[k], p)'
    OBVIOUS
  <2>1. PICK k \in DOMAIN wire : Brings(k, i) /\ Carries(wire[k], p)
    BY DEF Flows
  <2>2. PICK f : f = wire[k] /\ wire'[k] = f /\ Carries(f, p)
    BY <1>2, <2>1
  <2>3. Carries(f, p)'
    BY <2>2, CarriesStill
  <2>. QED BY <1>2, <2>1, <2>2, <2>3 DEF Brings
<1>5. ASSUME NEW j \in DOMAIN wire', NEW k \in DOMAIN wire', j < k, Brings(j, i)', Brings(k, i)',
             NEW p \in DOMAIN had', NEW q \in DOMAIN had', Carries(wire[j], p)', Carries(wire[k], q)'
      PROVE  p < q
  <2>1. PICK f, g : f = wire'[j] /\ g = wire'[k] /\ f = wire[j] /\ g = wire[k]
    BY <1>1, <1>5
  <2>2. /\ j \in DOMAIN wire /\ Brings(j, i) /\ wire[j] = f
        /\ k \in DOMAIN wire /\ Brings(k, i) /\ wire[k] = g
    BY <1>1, <1>5, <2>1 DEF Brings
  <2>7. PICK x \in (lo + 1)..hi : Carries(f, x)
    BY <2>2 DEF Flows
  <2>8. PICK y \in (lo + 1)..hi : Carries(g, y)
    BY <2>2 DEF Flows
  <2>3. x < y
    <3>1. \A a, b \in DOMAIN had : Carries(wire[j], a) /\ Carries(wire[k], b) => a < b
      BY <1>5, <2>2 DEF Flows
    <3>2. x \in DOMAIN had /\ y \in DOMAIN had
      BY <2>7, <2>8 DEF Carries
    <3>. QED BY ONLY <2>2, <2>7, <2>8, <3>1, <3>2
  <2>4. Carries(f, x)' /\ Carries(g, y)'
    BY <2>7, <2>8, CarriesStill
  <2>5. Carries(f, p)' /\ Carries(g, q)'
    BY <1>5, <2>1
  <2>6. p = x /\ q = y
    BY <2>4, <2>5, Once DEF Carries
  <2>. QED BY <2>3, <2>6
<1>6. lo <= hi
  BY DEF Flows
<1>. QED BY <1>3, <1>4, <1>5, <1>6 DEF Flows

\* The next update joins.
LEMMA FlowsGain ==
  ASSUME had' \in Seq(Pairs), Rises(had'), Longer(had, had'), Longer(wire, wire'),
         wire' \in Seq(Frames),
         NEW i, NEW lo \in Nat, NEW hi \in Nat, hi <= Len(had), Flows(i, lo, hi),
         NEW n \in DOMAIN wire', n \notin DOMAIN wire, Brings(n, i)', Carries(wire[n], hi + 1)',
         \A k \in DOMAIN wire' : k \notin DOMAIN wire /\ Brings(k, i)' => k = n
  PROVE  Flows(i, lo, hi + 1)'
<1>0. DOMAIN wire' \subseteq Nat
  BY LenProperties
<1>1. \A k \in DOMAIN wire' : Brings(k, i)' /\ k # n =>
        k \in DOMAIN wire /\ Brings(k, i) /\ wire'[k] = wire[k] /\ k < n
  BY DEF Brings, Longer
<1>2. \A k \in DOMAIN wire : Brings(k, i) => Brings(k, i)' /\ wire'[k] = wire[k]
  BY DEF Brings, Longer
<1>3. ASSUME NEW k \in DOMAIN wire', Brings(k, i)', k # n
      PROVE  \E p \in (lo + 1)..hi : Carries(wire[k], p)'
  <2>1. PICK f : f = wire'[k] /\ f = wire[k]
    BY <1>1, <1>3
  <2>2. PICK p \in (lo + 1)..hi : Carries(f, p)
    BY <1>1, <1>3, <2>1 DEF Flows
  <2>3. Carries(f, p)'
    BY <2>2, CarriesStill
  <2>. QED BY <2>1, <2>3
<1>4. ASSUME NEW p \in (lo + 1)..hi
      PROVE  \E k \in DOMAIN wire' : Brings(k, i)' /\ Carries(wire[k], p)'
  <2>1. PICK k \in DOMAIN wire : Brings(k, i) /\ Carries(wire[k], p)
    BY DEF Flows
  <2>2. PICK f : f = wire[k] /\ wire'[k] = f /\ Carries(f, p)
    BY <1>2, <2>1
  <2>3. Carries(f, p)'
    BY <2>2, CarriesStill
  <2>. QED BY <1>2, <2>1, <2>2, <2>3 DEF Brings
<1>5. ASSUME NEW j \in DOMAIN wire', NEW k \in DOMAIN wire', j < k, Brings(j, i)', Brings(k, i)',
             NEW p \in DOMAIN had', NEW q \in DOMAIN had', Carries(wire[j], p)', Carries(wire[k], q)'
      PROVE  p < q
  <2>0. j # n
    BY <1>0, <1>1, <1>5
  <2>1. PICK f, g : f = wire'[j] /\ g = wire'[k]
    OBVIOUS
  <2>2. j \in DOMAIN wire /\ Brings(j, i) /\ wire[j] = f
    BY <1>1, <1>5, <2>0, <2>1
  <2>3. PICK x \in (lo + 1)..hi : Carries(f, x)
    BY <2>2 DEF Flows
  <2>4. Carries(f, x)' /\ Carries(f, p)' /\ Carries(g, q)'
    BY <1>5, <2>1, <2>3, CarriesStill
  <2>5. p = x
    BY <2>4, Once DEF Carries
  <2>6. CASE k = n
    <3>1. q = hi + 1
      BY <1>5, <2>4, <2>6, Once DEF Carries
    <3>. QED BY <2>5, <3>1
  <2>7. CASE k # n
    <3>1. k \in DOMAIN wire /\ Brings(k, i) /\ wire[k] = g
      BY <1>1, <1>5, <2>1, <2>7
    <3>2. PICK y \in (lo + 1)..hi : Carries(g, y)
      BY <3>1 DEF Flows
    <3>3. x < y
      BY <1>5, <2>2, <2>3, <3>1, <3>2 DEF Flows, Carries
    <3>4. Carries(g, y)'
      BY <3>2, CarriesStill
    <3>5. q = y
      BY <2>4, <3>4, Once DEF Carries
    <3>. QED BY <2>5, <3>3, <3>5
  <2>. QED BY <2>6, <2>7
<1>6. lo <= hi + 1
  BY DEF Flows
<1>7. \A k \in DOMAIN wire' : Brings(k, i)' => \E p \in (lo + 1)..(hi + 1) : Carries(wire[k], p)'
  <2>1. hi + 1 \in (lo + 1)..(hi + 1) /\ (lo + 1)..hi \subseteq (lo + 1)..(hi + 1)
    BY DEF Flows
  <2>. QED BY <1>3, <2>1
<1>8. \A p \in (lo + 1)..(hi + 1) : \E k \in DOMAIN wire' : Brings(k, i)' /\ Carries(wire[k], p)'
  <2>1. \A p \in (lo + 1)..(hi + 1) : p = hi + 1 \/ p \in (lo + 1)..hi
    OBVIOUS
  <2>. QED BY <1>4, <2>1
<1>. QED BY <1>5, <1>6, <1>7, <1>8 DEF Flows

\* The oldest frame leaves.
LEMMA FlowsShift ==
  ASSUME had \in Seq(Pairs), Rises(had), had' = had, wire \in Seq(Frames), wire # <<>>,
         wire' = Tail(wire), NEW i, NEW lo \in Nat, NEW hi \in Nat, Flows(i, lo, hi)
  PROVE  /\ ~Brings(1, i) => Flows(i, lo, hi)'
         /\ Brings(1, i) => Carries(wire[1], lo + 1) /\ lo < hi /\ Flows(i, lo + 1, hi)'
<1>0. /\ 1 \in DOMAIN wire
      /\ \A k \in DOMAIN wire' : k \in Nat /\ k # 0 /\ k + 1 \in DOMAIN wire /\ wire'[k] = wire[k + 1]
      /\ \A k \in DOMAIN wire : k \in Nat /\ (k # 1 => k - 1 \in DOMAIN wire' /\ wire'[k - 1] = wire[k])
  BY TailShifts
<1>1. \A f, p : Carries(f, p)' <=> Carries(f, p)
  BY DEF Carries
<1>2. \A k \in DOMAIN wire' : Brings(k, i)' <=> Brings(k + 1, i)
  BY <1>0 DEF Brings
<1>3. \A j \in DOMAIN wire', k \in DOMAIN wire' : j < k /\ Brings(j, i)' /\ Brings(k, i)' =>
        \A p, q \in DOMAIN had' : Carries(wire[j], p)' /\ Carries(wire[k], q)' => p < q
  <2>. SUFFICES ASSUME NEW j \in DOMAIN wire', NEW k \in DOMAIN wire', j < k, Brings(j, i)',
                       Brings(k, i)', NEW p \in DOMAIN had', NEW q \in DOMAIN had',
                       Carries(wire[j], p)', Carries(wire[k], q)'
                PROVE  p < q
    OBVIOUS
  <2>1. PICK f, g : f = wire'[j] /\ g = wire'[k] /\ f = wire[j + 1] /\ g = wire[k + 1]
    BY <1>0
  <2>2. Carries(f, p) /\ Carries(g, q) /\ j + 1 < k + 1 /\ p \in DOMAIN had /\ q \in DOMAIN had
    BY <1>0, <1>1, <2>1
  <2>3. Brings(j + 1, i) /\ Brings(k + 1, i) /\ j + 1 \in DOMAIN wire /\ k + 1 \in DOMAIN wire
    BY <1>0, <1>2
  <2>. QED BY <2>1, <2>2, <2>3 DEF Flows
<1>4. CASE ~Brings(1, i)
  <2>1. ASSUME NEW k \in DOMAIN wire', Brings(k, i)'
        PROVE  \E p \in (lo + 1)..hi : Carries(wire[k], p)'
    <3>1. PICK f : f = wire'[k] /\ f = wire[k + 1]
      BY <1>0
    <3>2. PICK p \in (lo + 1)..hi : Carries(f, p)
      BY <1>0, <1>2, <2>1, <3>1 DEF Flows
    <3>. QED BY <1>1, <3>1, <3>2
  <2>2. ASSUME NEW p \in (lo + 1)..hi
        PROVE  \E k \in DOMAIN wire' : Brings(k, i)' /\ Carries(wire[k], p)'
    <3>1. PICK k \in DOMAIN wire : Brings(k, i) /\ Carries(wire[k], p)
      BY DEF Flows
    <3>2. k # 1 /\ k \in Nat
      BY <1>0, <1>4, <3>1
    <3>3. PICK n \in DOMAIN wire' : n + 1 = k /\ wire'[n] = wire[k]
      BY <1>0, <3>2
    <3>4. PICK f : f = wire[k] /\ wire'[n] = f /\ Carries(f, p)
      BY <3>1, <3>3
    <3>. QED BY <1>1, <1>2, <3>1, <3>3, <3>4
  <2>3. lo <= hi
    BY DEF Flows
  <2>. QED BY <1>3, <1>4, <2>1, <2>2, <2>3 DEF Flows
<1>5. CASE Brings(1, i)
  <2>1. PICK x \in (lo + 1)..hi : Carries(wire[1], x)
    BY <1>0, <1>5 DEF Flows
  <2>2. lo + 1 \in (lo + 1)..hi
    BY <2>1
  <2>3. PICK k \in DOMAIN wire : Brings(k, i) /\ Carries(wire[k], lo + 1)
    BY <2>2 DEF Flows
  <2>4. k = 1
    <3>1. SUFFICES ASSUME 1 < k PROVE FALSE
      BY <1>0 DEF Frames
    <3>a. \A p, q \in DOMAIN had : Carries(wire[1], p) /\ Carries(wire[k], q) => p < q
      BY <1>0, <1>5, <2>3, <3>1 DEF Flows
    <3>b. x \in DOMAIN had /\ lo + 1 \in DOMAIN had
      BY <2>1, <2>3 DEF Carries
    <3>2. x < lo + 1
      BY ONLY <2>1, <2>3, <3>a, <3>b
    <3>. QED BY <2>1, <3>2
  <2>5. Carries(wire[1], lo + 1) /\ lo < hi
    BY <2>2, <2>3, <2>4
  <2>6. ASSUME NEW m \in DOMAIN wire', Brings(m, i)'
        PROVE  \E p \in (lo + 2)..hi : Carries(wire[m], p)'
    <3>1. PICK f : f = wire'[m] /\ f = wire[m + 1]
      BY <1>0
    <3>2. /\ m + 1 \in DOMAIN wire /\ Brings(m + 1, i) /\ 1 < m + 1 /\ m \in Nat
      BY <1>0, <1>2, <2>6
    <3>3. PICK p \in (lo + 1)..hi : Carries(f, p)
      BY <3>1, <3>2 DEF Flows
    <3>5. Carries(wire[m + 1], p) /\ p \in DOMAIN had /\ lo + 1 \in DOMAIN had
      BY <2>5, <3>1, <3>3 DEF Carries
    <3>4. lo + 1 < p
      BY <1>0, <1>5, <2>5, <3>2, <3>5 DEF Flows
    <3>. QED BY <1>1, <3>1, <3>3, <3>4
  <2>7. ASSUME NEW p \in (lo + 2)..hi
        PROVE  \E m \in DOMAIN wire' : Brings(m, i)' /\ Carries(wire[m], p)'
    <3>0. p \in (lo + 1)..hi
      OBVIOUS
    <3>1. PICK m \in DOMAIN wire : Brings(m, i) /\ Carries(wire[m], p)
      BY <3>0 DEF Flows
    <3>2. m # 1 /\ m \in Nat
      <4>1. SUFFICES ASSUME m = 1 PROVE FALSE
        BY <1>0
      <4>2. p = lo + 1
        BY <2>5, <3>1, <4>1, Once DEF Carries
      <4>. QED BY <4>2
    <3>3. PICK n \in DOMAIN wire' : n + 1 = m /\ wire'[n] = wire[m]
      BY <1>0, <3>2
    <3>4. PICK f : f = wire[m] /\ wire'[n] = f /\ Carries(f, p)
      BY <3>1, <3>3
    <3>. QED BY <1>1, <1>2, <3>1, <3>3, <3>4
  <2>8. lo + 1 <= hi /\ (lo + 1) + 1 = lo + 2
    BY <2>2
  <2>. QED BY <1>3, <1>5, <2>5, <2>6, <2>7, <2>8 DEF Flows
<1>. QED BY <1>4, <1>5

-----------------------------------------------------------------------------
(***************************************************************************)
(* Steps of one subscription that leave the history and the view alone.    *)
(***************************************************************************)
\* One record is replaced.
LEMMA Replaced ==
  ASSUME sub \in Seq(Subscriptions), NEW i \in Subs, NEW r \in Subscriptions,
         sub' = [sub EXCEPT ![i] = r]
  PROVE  /\ sub' \in Seq(Subscriptions) /\ Subs' = Subs /\ sub'[i] = r
         /\ \A j \in Subs : j # i => sub'[j] = sub[j]
         /\ sub[i] \in Subscriptions /\ Subs \subseteq Nat
<1>1. Subs = 1..Len(sub) /\ Len(sub) \in Nat /\ \A j \in Subs : sub[j] \in Subscriptions
  BY LenProperties, ElementOfSeq DEF Subs
<1>2. /\ DOMAIN sub' = Subs /\ sub'[i] = r
      /\ \A j \in Subs : j # i => sub'[j] = sub[j]
  BY <1>1 DEF Subs
<1>3. sub' \in [1..Len(sub) -> Subscriptions]
  BY <1>1
<1>4. sub' \in Seq(Subscriptions)
  BY <1>1, <1>3, SeqDef
<1>. QED BY <1>1, <1>2, <1>4 DEF Subs

\* The others do not notice.
LEMMA LocalKeeps ==
  ASSUME Typed, Revisions, Bound, HeldBack, Streams,
         NEW i \in Subs, NEW r \in Subscriptions, sub' = [sub EXCEPT ![i] = r],
         UNCHANGED <<had, binding, starts, view, seen>>,
         \A j \in Subs, lo, hi \in Nat :
           j # i /\ hi <= Len(had) /\ Flows(j, lo, hi) => Flows(j, lo, hi)',
         r.rev = sub[i].rev, r.cli = "open" <=> sub[i].cli = "open",
         r.tail # <<>> /\ r.rev = binding.rev => binding.sub = i,
         binding.sub = i => Continues(r),
         Ending(r.pending),
         Streaming(r) => \E lo \in Nat : Has(r, lo) /\ Flows(i, lo, Hi(r))'
  PROVE  Revisions' /\ Bound' /\ HeldBack' /\ Streams'
<1>0. /\ Subs' = Subs /\ sub'[i] = r /\ \A j \in Subs : j # i => sub'[j] = sub[j]
  BY Replaced DEF Typed
<1>1. \A j \in Subs : sub'[j].rev = sub[j].rev
  BY <1>0
<1>2. Revisions'
  BY <1>0, <1>1 DEF Revisions
<1>3. /\ \A x : Continues(x)' <=> Continues(x)
      /\ \A q : Ending(q)' <=> Ending(q)
      /\ \A x, lo : Has(x, lo)' <=> Has(x, lo)
      /\ \A x : Hi(x)' = Hi(x)
  <2>1. Base' = Base
    BY DEF Base
  <2>2. \A q, from : Run(q, from)' <=> Run(q, from)
    BY DEF Run, Carries
  <2>3. \A x, p : Behind(x, p)' <=> Behind(x, p)
    BY <2>2 DEF Behind
  <2>4. \A x : Continues(x)' <=> Continues(x)
    BY <2>1, <2>2 DEF Continues
  <2>. QED BY <2>1, <2>2, <2>3, <2>4 DEF Ending, Has, Hi
<1>4. Bound'
  <2>1. seen' <= Len(had')
    BY DEF Bound
  <2>2. ASSUME NEW j \in Subs PROVE sub'[j].cli = "open" => binding.sub = j
    BY <1>0 DEF Bound
  <2>3. ASSUME NEW j \in Subs PROVE sub'[j].tail # <<>> /\ sub'[j].rev = binding.rev => binding.sub = j
    BY <1>0 DEF Bound
  <2>4. CASE binding.sub = 0
    BY <1>0, <2>1, <2>2, <2>3, <2>4 DEF Bound
  <2>5. CASE binding.sub # 0
    <3>1. binding.sub \in Subs
      BY <2>5 DEF Typed
    <3>2. PICK b : b = binding.sub
      OBVIOUS
    <3>3. Continues(sub'[b])
      <4>1. CASE b = i
        BY <1>0, <3>2, <4>1
      <4>2. CASE b # i
        <5>1. Continues(sub[b])
          BY <2>5, <3>2 DEF Bound
        <5>. QED BY <1>0, <3>1, <3>2, <4>2, <5>1
      <4>. QED BY <4>1, <4>2
    <3>4. PICK x : x = sub'[b] /\ Continues(x)
      BY <3>3
    <3>5. Continues(x)'
      BY <1>3, <3>4
    <3>. QED BY <1>0, <2>1, <2>2, <2>3, <2>5, <3>2, <3>4, <3>5 DEF Bound
  <2>. QED BY <2>4, <2>5
<1>5. HeldBack'
  <2>1. ASSUME NEW j \in Subs PROVE Ending(sub'[j].pending)
    <3>1. CASE j = i
      BY <1>0, <3>1
    <3>2. CASE j # i
      BY <1>0, <3>2 DEF HeldBack
    <3>. QED BY <3>1, <3>2
  <2>2. ASSUME NEW j \in Subs PROVE Ending(sub[j].pending)'
    <3>1. PICK q : q = sub'[j].pending /\ Ending(q)
      BY <2>1
    <3>. QED BY <1>3, <3>1
  <2>. QED BY <1>0, <2>2 DEF HeldBack
<1>6. Streams'
  <2>. SUFFICES ASSUME NEW j \in Subs, Streaming(sub[j])'
                PROVE  (\E lo \in Nat : Has(sub[j], lo) /\ Flows(j, lo, Hi(sub[j])))'
    BY <1>0 DEF Streams
  <2>1. PICK x : x = sub'[j] /\ Streaming(x)
    BY DEF Streaming
  <2>2. \E lo \in Nat : Has(x, lo) /\ Flows(j, lo, Hi(x))'
    <3>1. CASE j = i
      BY <1>0, <2>1, <3>1
    <3>2. CASE j # i
      <4>1. x = sub[j]
        BY <1>0, <2>1, <3>2
      <4>2. PICK lo \in Nat : Has(x, lo) /\ Flows(j, lo, Hi(x))
        BY <2>1, <4>1 DEF Streams
      <4>3. Hi(x) \in Nat /\ Hi(x) <= Len(had)
        <5>1. Ending(x.pending) /\ x \in Subscriptions
          BY <4>1, ElementOfSeq, LenProperties DEF HeldBack, Typed, Subs
        <5>2. Len(x.pending) \in Nat /\ Len(had) \in Nat
          BY <5>1, LenProperties DEF Typed, Subscriptions
        <5>. QED BY <5>1, <5>2 DEF Ending, Hi
      <4>4. PICK hi \in Nat : hi = Hi(x)
        BY <4>3
      <4>5. Flows(j, lo, hi)'
        BY <3>2, <4>2, <4>3, <4>4
      <4>6. Flows(j, lo, Hi(x))'
        BY <1>3, <4>4, <4>5
      <4>. QED BY <4>2, <4>6
    <3>. QED BY <3>1, <3>2
  <2>3. PICK lo \in Nat : Has(x, lo) /\ Flows(j, lo, Hi(x))'
    BY <2>2
  <2>4. Has(x, lo)'
    BY <1>3, <2>3
  <2>. QED BY <2>1, <2>3, <2>4
<1>. QED BY <1>2, <1>4, <1>5, <1>6

\* A reply of the server is behind everything it sent.
LEMMA Replies ==
  ASSUME wire \in Seq(Frames), up, NEW f \in Frames, Reply(f)
  PROVE  /\ wire' \in Seq(Frames) /\ Longer(wire, wire') /\ wire' = Append(wire, f)
         /\ \E n \in DOMAIN wire' : /\ n \notin DOMAIN wire /\ wire'[n] = f
                                    /\ DOMAIN wire' = DOMAIN wire \cup {n}
<1>1. wire' = Append(wire, f)
  BY DEF Reply
<1>. QED BY <1>1, AppendLonger

\* So it changes what reaches the client it is for, and nobody else.
LEMMA OthersFlow ==
  ASSUME Typed, Ascends, had' = had, wire' \in Seq(Frames), Longer(wire, wire'), NEW i,
         \A k \in DOMAIN wire' : k \notin DOMAIN wire => wire'[k].sub = i
  PROVE  \A j \in Subs, lo, hi \in Nat :
           j # i /\ hi <= Len(had) /\ Flows(j, lo, hi) => Flows(j, lo, hi)'
<1>1. had' \in Seq(Pairs) /\ Rises(had') /\ Longer(had, had')
  <2>1. DOMAIN had \subseteq Nat
    BY LenProperties DEF Typed
  <2>. QED BY <2>1 DEF Typed, Ascends, Longer
<1>2. ASSUME NEW j \in Subs, NEW lo \in Nat, NEW hi \in Nat, j # i, hi <= Len(had), Flows(j, lo, hi)
      PROVE  Flows(j, lo, hi)'
  <2>1. \A k \in DOMAIN wire' : k \notin DOMAIN wire => ~Brings(k, j)'
    BY <1>2 DEF Brings
  <2>. QED BY <1>1, <1>2, <2>1, FlowsStill
<1>. QED BY <1>2

\* The two halves after a step of one subscription and its frames.
LEMMA JointGrows ==
  ASSUME Typed, Joint, up' = up, NEW i \in Subs, NEW r \in Subscriptions,
         sub' = [sub EXCEPT ![i] = r], wire' \in Seq(Frames), Longer(wire, wire'),
         Halves(r), ~up => r.srv = "closed" /\ wire' = wire,
         \A k \in DOMAIN wire : wire[k].sub = i => Control(wire[k], r),
         \A n \in DOMAIN wire' : n \notin DOMAIN wire =>
           /\ wire'[n].sub = i /\ Control(wire'[n], r)
           /\ wire'[n].type \in UpdateTypes \/
                \A k \in DOMAIN wire' : k # n => ~(wire'[k].sub = i /\ wire'[k].type = wire'[n].type)
  PROVE  Joint'
<1>0. /\ Subs' = Subs /\ sub'[i] = r /\ \A j \in Subs : j # i => sub'[j] = sub[j]
  BY Replaced DEF Typed
<1>1. \A j \in Subs' : Halves(sub'[j])
  BY <1>0 DEF Joint
<1>2. \A k \in DOMAIN wire' : Control(wire'[k], sub'[wire'[k].sub])
  <2>. SUFFICES ASSUME NEW k \in DOMAIN wire' PROVE Control(wire'[k], sub'[wire'[k].sub])
    OBVIOUS
  <2>1. CASE k \notin DOMAIN wire
    BY <1>0, <2>1
  <2>2. CASE k \in DOMAIN wire
    <3>1. wire'[k] = wire[k] /\ wire[k].sub \in Subs
      BY <2>2 DEF Longer, Typed
    <3>2. Control(wire[k], sub[wire[k].sub])
      BY <2>2 DEF Joint
    <3>. QED BY <1>0, <2>2, <3>1, <3>2
  <2>. QED BY <2>1, <2>2
<1>3. ASSUME NEW j \in DOMAIN wire', NEW k \in DOMAIN wire',
             wire'[j].type \notin UpdateTypes, wire'[j].type = wire'[k].type,
             wire'[j].sub = wire'[k].sub
      PROVE  j = k
  <2>1. CASE j \in DOMAIN wire /\ k \in DOMAIN wire
    BY <1>3, <2>1 DEF Joint, Longer
  <2>2. CASE j \notin DOMAIN wire \/ k \notin DOMAIN wire
    BY <1>3, <2>2
  <2>. QED BY <2>1, <2>2
<1>4. ~up' => wire' = <<>> /\ \A j \in Subs' : sub'[j].srv = "closed"
  BY <1>0 DEF Joint
<1>5. /\ \A j \in Subs' : Halves(sub[j])'
      /\ \A k \in DOMAIN wire' : Control(wire[k], sub[wire[k].sub])'
  BY <1>1, <1>2 DEF Halves, Control
<1>. QED BY <1>3, <1>4, <1>5 DEF Joint

-----------------------------------------------------------------------------
(***************************************************************************)
(* One subscription moves, and may be sent a frame.                        *)
(***************************************************************************)
\* Its fields.
LEMMA SubFields ==
  ASSUME Typed, NEW i \in Subs
  PROVE  /\ sub[i] \in Subscriptions /\ i \in Nat
         /\ sub[i].rev \in Nat /\ sub[i].srv \in Subscribers \cup {"asked", "closed"}
         /\ sub[i].pending \in Seq(Frames) /\ sub[i].queued \in Seq(Frames)
         /\ sub[i].tail \in Seq(Frames) /\ sub[i].snap \in Pairs /\ sub[i].listening \in BOOLEAN
         /\ Len(sub[i].pending) \in Nat /\ Len(sub[i].queued) \in Nat /\ Len(sub[i].tail) \in Nat
<1>1. sub \in Seq(Subscriptions)
  BY DEF Typed
<1>2. Subs = 1..Len(sub) /\ \A j \in Subs : sub[j] \in Subscriptions
  BY <1>1, LenProperties, ElementOfSeq DEF Subs
<1>3. sub[i] \in Subscriptions /\ i \in Nat
  BY <1>2
<1>4. /\ sub[i].rev \in Nat /\ sub[i].srv \in Subscribers \cup {"asked", "closed"}
      /\ sub[i].pending \in Seq(Frames) /\ sub[i].queued \in Seq(Frames)
      /\ sub[i].tail \in Seq(Frames) /\ sub[i].snap \in Pairs /\ sub[i].listening \in BOOLEAN
  BY <1>3 DEF Subscriptions
<1>. QED BY <1>3, <1>4, LenProperties

\* A step of one subscription: it moves, and sends at most one frame.
LEMMA OneMoves ==
  ASSUME IInv, UNCHANGED <<source, had, up, clientVars, changes>>,
         NEW i \in Subs, NEW r \in Subscriptions, sub' = [sub EXCEPT ![i] = r],
         \/ wire' = wire
         \/ /\ up
            /\ \E f \in Frames :
                 /\ wire' = Append(wire, f) /\ f.sub = i /\ Control(f, r)
                 /\ f.type \in UpdateTypes \/
                      \A k \in DOMAIN wire : ~(wire[k].sub = i /\ wire[k].type = f.type),
         Halves(r), ~up => r.srv = "closed",
         \A k \in DOMAIN wire : wire[k].sub = i => Control(wire[k], r),
         r.rev = sub[i].rev, r.cli = "open" <=> sub[i].cli = "open",
         r.tail # <<>> /\ r.rev = binding.rev => binding.sub = i,
         binding.sub = i => Continues(r),
         Ending(r.pending),
         Streaming(r) => \E lo \in Nat : Has(r, lo) /\ Flows(i, lo, Hi(r))'
  PROVE  IInv'
<1>0. Typed /\ Ascends /\ Revisions /\ Joint /\ Bound /\ HeldBack /\ Streams /\ Counted /\ ~faulty
  BY DEF IInv
<1>a. UNCHANGED <<binding, starts, view, seen, faulty>> /\ had' = had
  BY DEF clientVars
<1>1. /\ sub' \in Seq(Subscriptions) /\ Subs' = Subs /\ sub'[i] = r
      /\ \A j \in Subs : j # i => sub'[j] = sub[j]
  BY <1>0, Replaced DEF Typed
<1>2. wire \in Seq(Frames) /\ DOMAIN wire \subseteq Nat
  BY <1>0, LenProperties DEF Typed
<1>3. /\ wire' \in Seq(Frames) /\ Longer(wire, wire')
      /\ \A n \in DOMAIN wire' : n \notin DOMAIN wire =>
           /\ wire'[n].sub = i /\ Control(wire'[n], r)
           /\ wire'[n].type \in UpdateTypes \/
                \A k \in DOMAIN wire' : k # n => ~(wire'[k].sub = i /\ wire'[k].type = wire'[n].type)
      /\ ~up => wire' = wire
  <2>1. CASE wire' = wire
    BY <1>2, <2>1 DEF Longer
  <2>2. CASE wire' # wire
    <3>1. PICK f \in Frames :
                 /\ wire' = Append(wire, f) /\ f.sub = i /\ Control(f, r)
                 /\ f.type \in UpdateTypes \/
                      \A k \in DOMAIN wire : ~(wire[k].sub = i /\ wire[k].type = f.type)
      BY <2>2
    <3>2. /\ wire' \in Seq(Frames) /\ Longer(wire, wire')
          /\ DOMAIN wire' = DOMAIN wire \cup {Len(wire) + 1} /\ Len(wire) + 1 \notin DOMAIN wire
          /\ wire'[Len(wire) + 1] = f
      BY <1>2, <3>1, AppendLonger
    <3>3. \A k \in DOMAIN wire' : k # Len(wire) + 1 => k \in DOMAIN wire /\ wire'[k] = wire[k]
      BY <3>2 DEF Longer
    <3>. QED BY <2>2, <3>1, <3>2, <3>3
  <2>. QED BY <2>1, <2>2
<1>4. Typed'
  <2>1. \A k \in DOMAIN wire' : wire'[k].sub \in Subs
    BY <1>0, <1>3 DEF Typed, Longer
  <2>. QED BY <1>0, <1>a, <1>1, <1>3, <2>1 DEF Typed
<1>5. Counted' /\ Ascends' /\ ~faulty'
  BY <1>0, <1>a DEF Counted, Ascends, Value
<1>6. Joint'
  BY <1>0, <1>3, JointGrows
<1>7. \A j \in Subs, lo, hi \in Nat :
        j # i /\ hi <= Len(had) /\ Flows(j, lo, hi) => Flows(j, lo, hi)'
  <2>1. \A k \in DOMAIN wire' : k \notin DOMAIN wire => wire'[k].sub = i
    BY <1>3
  <2>2. wire' \in Seq(Frames) /\ Longer(wire, wire')
    BY <1>3
  <2>. QED BY ONLY <1>0, <1>a, <2>1, <2>2, OthersFlow
<1>8. Revisions' /\ Bound' /\ HeldBack' /\ Streams'
  BY <1>0, <1>a, <1>7, LocalKeeps
<1>. QED BY <1>4, <1>5, <1>6, <1>8 DEF IInv

\* What reaches a client without a new update for it.
LEMMA StillFlows ==
  ASSUME Typed, Ascends, had' = had, NEW i, NEW lo \in Nat, NEW hi \in Nat, hi <= Len(had),
         Flows(i, lo, hi),
         wire' = wire \/ \E f \in Frames : f.type \notin UpdateTypes /\ wire' = Append(wire, f)
  PROVE  Flows(i, lo, hi)'
<1>1. had' \in Seq(Pairs) /\ Rises(had') /\ Longer(had, had')
  <2>1. DOMAIN had \subseteq Nat
    BY LenProperties DEF Typed
  <2>. QED BY <2>1 DEF Typed, Ascends, Longer
<1>2. wire \in Seq(Frames) /\ DOMAIN wire \subseteq Nat
  BY LenProperties DEF Typed
<1>3. CASE wire' = wire
  <2>1. Longer(wire, wire')
    BY <1>2, <1>3 DEF Longer
  <2>2. \A k \in DOMAIN wire' : k \notin DOMAIN wire => ~Brings(k, i)'
    BY <1>3
  <2>. QED BY ONLY <1>1, <2>1, <2>2, FlowsStill, Flows(i, lo, hi), hi <= Len(had), lo \in Nat, hi \in Nat
<1>4. CASE \E f \in Frames : f.type \notin UpdateTypes /\ wire' = Append(wire, f)
  <2>0. PICK f \in Frames : f.type \notin UpdateTypes /\ wire' = Append(wire, f)
    BY <1>4
  <2>1. /\ Longer(wire, wire') /\ DOMAIN wire' = DOMAIN wire \cup {Len(wire) + 1}
        /\ wire'[Len(wire) + 1] = f
    BY <1>2, <2>0, AppendLonger
  <2>2. \A k \in DOMAIN wire' : k \notin DOMAIN wire => ~Brings(k, i)'
    BY <2>0, <2>1 DEF Brings
  <2>. QED BY ONLY <1>1, <2>1, <2>2, FlowsStill, Flows(i, lo, hi), hi <= Len(had), lo \in Nat, hi \in Nat
<1>. QED BY <1>3, <1>4

\* What streams to one that listens.
LEMMA StreamOf ==
  ASSUME Typed, HeldBack, Streams, NEW i \in Subs
  PROVE  /\ Hi(sub[i]) \in Nat /\ Hi(sub[i]) <= Len(had) /\ Hi(sub[i]) # 0 /\ Len(had) \in Nat
         /\ Streaming(sub[i]) => \E lo \in Nat : Has(sub[i], lo) /\ Flows(i, lo, Hi(sub[i]))
<1>1. Len(sub[i].pending) \in Nat
  BY SubFields
<1>2. Len(had) \in Nat
  BY LenProperties DEF Typed
<1>3. Ending(sub[i].pending)
  BY DEF HeldBack
<1>. QED BY <1>1, <1>2, <1>3 DEF Ending, Hi, Streams

-----------------------------------------------------------------------------
(***************************************************************************)
(* The server's half.                                                      *)
(***************************************************************************)
LEMMA SubscribeKeeps ==
  ASSUME IInv, NEW i \in Subs, sub[i].srv = "asked", source.provided,
         sub' = [sub EXCEPT ![i].srv = "subscribed", ![i].snap = Value],
         UNCHANGED <<source, had, wire, up, clientVars, changes>>
  PROVE  IInv'
<1>0. Typed /\ Ascends /\ Revisions /\ Joint /\ Bound /\ HeldBack /\ Streams /\ Counted
  BY DEF IInv
<1>1. sub \in Seq(Subscriptions) /\ sub[i] \in Subscriptions /\ wire \in Seq(Frames)
  BY <1>0, SubFields DEF Typed
<1>2. Value \in Pairs /\ had \in Seq(Pairs) /\ had # <<>> /\ Len(had) \in Nat /\ Len(had) \in DOMAIN had
  <2>1. Value \in Pairs
    BY <1>0 DEF Typed, Value, Pairs
  <2>. QED BY <1>0, <2>1, LenProperties, EmptySeq DEF Typed, Ascends
<1>3. PICK r \in Subscriptions : r = [sub[i] EXCEPT !.srv = "subscribed", !.snap = Value]
  BY <1>1, <1>2 DEF Subscriptions, Subscribers, Holding
<1>4. sub' = [sub EXCEPT ![i] = r]
  BY <1>1, <1>3 DEF Subs
<1>5. /\ r.srv = "subscribed" /\ r.snap = Value /\ r.cli = sub[i].cli /\ r.listening = sub[i].listening
      /\ r.rev = sub[i].rev /\ r.tail = sub[i].tail /\ r.queued = sub[i].queued
      /\ r.pending = sub[i].pending
  BY <1>1, <1>3 DEF Subscriptions
<1>6. /\ Halves(sub[i]) /\ sub[i].cli = "asking" /\ sub[i].queued = <<>> /\ sub[i].pending = <<>>
      /\ sub[i].tail = <<>> /\ sub[i].listening /\ up
  BY <1>0 DEF Joint, Halves, Holding
<1>7. \A k \in DOMAIN wire : wire[k].sub # i
  BY <1>0 DEF Joint, Control
<1>8. Halves(r)
  BY <1>5, <1>6 DEF Halves, Holding
<1>9. binding.sub # i
  BY <1>0, <1>6 DEF Bound, Continues, Typed, Subs
<1>10. Ending(r.pending)
  BY <1>0, <1>5 DEF HeldBack
<1>11. \E lo \in Nat : Has(r, lo) /\ Flows(i, lo, Hi(r))'
  <2>1. Len(<<>>) = 0
    BY EmptySeq
  <2>2. had[Len(had)] = Value /\ Value[2] # Withdrawn
    BY <1>0, SubscriptionAssumption DEF Ascends, Counted, Value, Withdrawn, Typed
  <2>3. Behind(r, Len(had))
    BY <1>0, <1>2, <1>5, <1>6, <2>2 DEF Behind, Run, Bound
  <2>4. Has(r, Len(had))
    BY <1>2, <1>5, <1>6, <2>1, <2>3 DEF Has
  <2>5. Hi(r)' = Len(had)
    BY <1>2, <1>5, <1>6, <2>1 DEF Hi
  <2>6. Flows(i, Len(had), Len(had))
    BY <1>2, <1>7 DEF Flows, Brings
  <2>7. Flows(i, Len(had), Len(had))'
    BY <1>0, <1>2, <2>6, StillFlows
  <2>. QED BY <1>2, <2>4, <2>5, <2>7
<1>12. UNCHANGED <<source, had, up, clientVars, changes>> /\ wire' = wire
  OBVIOUS
<1>. QED BY ONLY <1>1, <1>4, <1>5, <1>6, <1>7, <1>8, <1>9, <1>10, <1>11, <1>12, OneMoves, IInv,
                 i \in Subs, r \in Subscriptions

\* A subscribe to a service that is not provided.
LEMMA RefuseKeeps ==
  ASSUME IInv, NEW i \in Subs, sub[i].srv = "asked",
         sub' = [sub EXCEPT ![i].srv = "closed"], Reply(Frame(i, "failed", <<0, 0>>)),
         UNCHANGED <<source, had, up, clientVars, changes>>
  PROVE  IInv'
<1>0. Typed /\ Ascends /\ Revisions /\ Joint /\ Bound /\ HeldBack /\ Streams /\ Counted
  BY DEF IInv
<1>1. sub \in Seq(Subscriptions) /\ sub[i] \in Subscriptions /\ wire \in Seq(Frames) /\ i \in Nat
  BY <1>0, SubFields DEF Typed
<1>3. PICK r \in Subscriptions : r = [sub[i] EXCEPT !.srv = "closed"]
  BY <1>1 DEF Subscriptions
<1>4. sub' = [sub EXCEPT ![i] = r]
  BY <1>1, <1>3 DEF Subs
<1>5. /\ r.srv = "closed" /\ r.snap = sub[i].snap /\ r.cli = sub[i].cli /\ r.listening = sub[i].listening
      /\ r.rev = sub[i].rev /\ r.tail = sub[i].tail /\ r.queued = sub[i].queued
      /\ r.pending = sub[i].pending
  BY <1>1, <1>3 DEF Subscriptions
<1>6. /\ Halves(sub[i]) /\ sub[i].cli = "asking" /\ sub[i].queued = <<>> /\ sub[i].pending = <<>>
      /\ sub[i].tail = <<>> /\ sub[i].listening /\ up
  BY <1>0 DEF Joint, Halves, Holding
<1>7. \A k \in DOMAIN wire : wire[k].sub # i
  BY <1>0 DEF Joint, Control
<1>8. Halves(r)
  BY <1>5, <1>6 DEF Halves, Holding
<1>9. binding.sub # i
  BY <1>0, <1>6 DEF Bound, Continues, Typed, Subs
<1>10. Ending(r.pending)
  BY <1>0, <1>5 DEF HeldBack
<1>11. PICK f \in Frames : f = Frame(i, "failed", <<0, 0>>) /\ wire' = Append(wire, f)
  <2>1. Frame(i, "failed", <<0, 0>>) \in Frames
    BY <1>1 DEF Frame, Frames, Pairs
  <2>. QED BY <1>6, <2>1 DEF Reply
<1>12. /\ f.sub = i /\ f.type = "failed"
  BY <1>11 DEF Frame
<1>13. Control(f, r)
  BY <1>5, <1>6, <1>12 DEF Control, UpdateTypes
<1>14. ~Streaming(r)
  BY <1>5 DEF Streaming, Subscribers, Holding
<1>15. UNCHANGED <<source, had, up, clientVars, changes>>
  OBVIOUS
<1>. QED BY ONLY <1>1, <1>4, <1>5, <1>6, <1>7, <1>8, <1>9, <1>10, <1>11, <1>12, <1>13, <1>14, <1>15,
                 OneMoves, IInv, i \in Subs, r \in Subscriptions, f \in Frames

\* The response carries the snapshot that was taken.
LEMMA RespondKeeps ==
  ASSUME IInv, NEW i \in Subs, Respond(i)
  PROVE  IInv'
<1>0. Typed /\ Ascends /\ Revisions /\ Joint /\ Bound /\ HeldBack /\ Streams /\ Counted
  BY DEF IInv
<1>1. /\ sub \in Seq(Subscriptions) /\ sub[i] \in Subscriptions /\ wire \in Seq(Frames) /\ i \in Nat
      /\ sub[i].snap \in Pairs
  BY <1>0, SubFields DEF Typed
<1>2. /\ sub[i].srv = "subscribed" /\ sub' = [sub EXCEPT ![i].srv = "flushing"]
      /\ Reply(Frame(i, "snapshot", sub[i].snap)) /\ UNCHANGED <<source, had, up, clientVars, changes>>
  BY DEF Respond
<1>3. PICK r \in Subscriptions : r = [sub[i] EXCEPT !.srv = "flushing"]
  BY <1>1 DEF Subscriptions, Subscribers, Holding
<1>4. sub' = [sub EXCEPT ![i] = r]
  BY <1>1, <1>2, <1>3 DEF Subs
<1>5. /\ r.srv = "flushing" /\ r.snap = sub[i].snap /\ r.cli = sub[i].cli /\ r.listening = sub[i].listening
      /\ r.rev = sub[i].rev /\ r.tail = sub[i].tail /\ r.queued = sub[i].queued
      /\ r.pending = sub[i].pending
  BY <1>1, <1>3 DEF Subscriptions
<1>6. Halves(sub[i]) /\ sub[i].cli = "asking" /\ sub[i].tail = <<>> /\ up
  BY <1>0, <1>2 DEF Joint, Halves
<1>7. \A k \in DOMAIN wire : wire[k].sub = i => wire[k].type \in UpdateTypes
  <2>1. \A k \in DOMAIN wire : wire[k] \in Frames
    BY <1>1, ElementOfSeq, LenProperties
  <2>2. \A k \in DOMAIN wire : wire[k].sub = i => Control(wire[k], sub[i])
    BY <1>0 DEF Joint
  <2>. QED BY <1>2, <2>1, <2>2 DEF Control, Frames
<1>8. Halves(r)
  BY <1>2, <1>5, <1>6 DEF Halves, Holding
<1>9. binding.sub # i
  BY <1>0, <1>6 DEF Bound, Continues, Typed, Subs
<1>10. Ending(r.pending)
  BY <1>0, <1>5 DEF HeldBack
<1>11. PICK f \in Frames : f = Frame(i, "snapshot", sub[i].snap) /\ wire' = Append(wire, f)
  <2>1. Frame(i, "snapshot", sub[i].snap) \in Frames
    BY <1>1 DEF Frame, Frames
  <2>. QED BY <1>2, <1>6, <2>1 DEF Reply
<1>12. /\ f.sub = i /\ f.type = "snapshot" /\ "snapshot" \notin UpdateTypes
  BY <1>11 DEF Frame, UpdateTypes
<1>13. Control(f, r) /\ \A k \in DOMAIN wire : wire[k].sub = i => Control(wire[k], r)
  BY <1>5, <1>6, <1>7, <1>12 DEF Control, UpdateTypes
<1>14. Streaming(r) => \E lo \in Nat : Has(r, lo) /\ Flows(i, lo, Hi(r))'
  <2>. SUFFICES ASSUME Streaming(r) PROVE \E lo \in Nat : Has(r, lo) /\ Flows(i, lo, Hi(r))'
    OBVIOUS
  <2>1. Streaming(sub[i])
    BY <1>2, <1>5 DEF Streaming, Subscribers, Holding
  <2>2. PICK lo \in Nat : Has(sub[i], lo) /\ Flows(i, lo, Hi(sub[i]))
    BY <1>0, <2>1, StreamOf
  <2>3. Has(r, lo)
    BY <1>5, <2>2 DEF Has, Behind
  <2>4. PICK hi \in Nat : hi = Hi(sub[i]) /\ hi <= Len(had)
    BY <1>0, StreamOf
  <2>5. Flows(i, lo, hi)'
    BY <1>0, <1>2, <1>11, <1>12, <2>2, <2>4, StillFlows
  <2>6. Hi(r)' = hi
    BY <1>2, <1>5, <2>4 DEF Hi
  <2>. QED BY <2>3, <2>5, <2>6
<1>15. \A k \in DOMAIN wire : ~(wire[k].sub = i /\ wire[k].type = f.type)
  BY <1>7, <1>12
<1>16. UNCHANGED <<source, had, up, clientVars, changes>>
  BY <1>2
<1>17. ~up => r.srv = "closed"
  BY <1>6
<1>. QED BY ONLY <1>1, <1>4, <1>5, <1>6, <1>8, <1>9, <1>10, <1>11, <1>12, <1>13, <1>14, <1>15, <1>16, <1>17,
                 OneMoves, IInv, i \in Subs, r \in Subscriptions, f \in Frames

\* The server forgets the subscription, then says so.
LEMMA UnsubscribeKeeps ==
  ASSUME IInv, NEW i \in Subs, Unsubscribe(i)
  PROVE  IInv'
<1>0. Typed /\ Ascends /\ Revisions /\ Joint /\ Bound /\ HeldBack /\ Streams /\ Counted
  BY DEF IInv
<1>1. sub \in Seq(Subscriptions) /\ sub[i] \in Subscriptions /\ wire \in Seq(Frames) /\ i \in Nat
  BY <1>0, SubFields DEF Typed
<1>2. /\ sub[i].cli = "disposing" /\ sub[i].srv \in Subscribers /\ sub' = [sub EXCEPT ![i] = Closed(@)]
      /\ Reply(Frame(i, "closed", <<0, 0>>)) /\ UNCHANGED <<source, had, up, clientVars, changes>>
  BY DEF Unsubscribe
<1>3. PICK r \in Subscriptions : r = Closed(sub[i])
  <2>1. <<>> \in Seq(Frames)
    BY EmptySeq
  <2>. QED BY <1>1, <2>1 DEF Subscriptions, Closed
<1>4. sub' = [sub EXCEPT ![i] = r]
  BY <1>1, <1>2, <1>3 DEF Subs
<1>5. /\ r.srv = "closed" /\ r.cli = "disposing" /\ r.listening = sub[i].listening
      /\ r.rev = sub[i].rev /\ r.tail = sub[i].tail /\ r.queued = sub[i].queued
      /\ r.pending = <<>>
  BY <1>1, <1>2, <1>3 DEF Subscriptions, Closed
<1>6. Halves(sub[i]) /\ ~sub[i].listening /\ up
  BY <1>0, <1>2 DEF Joint, Halves, Subscribers, Holding
<1>7. \A k \in DOMAIN wire : wire[k].sub = i => Control(wire[k], sub[i])
  BY <1>0 DEF Joint
<1>8. Halves(r)
  BY <1>2, <1>5, <1>6 DEF Halves, Holding
<1>9. binding.sub # i
  BY <1>0, <1>2 DEF Bound, Continues, Typed, Subs
<1>10. Ending(r.pending)
  <2>1. Len(<<>>) = 0 /\ Len(had) # 0 /\ Len(had) \in Nat /\ DOMAIN <<>> = {}
    BY <1>0, EmptySeq, LenProperties DEF Typed, Ascends
  <2>. QED BY <1>5, <2>1 DEF Ending, Run
<1>11. PICK f \in Frames : f = Frame(i, "closed", <<0, 0>>) /\ wire' = Append(wire, f)
  <2>1. Frame(i, "closed", <<0, 0>>) \in Frames
    BY <1>1 DEF Frame, Frames, Pairs
  <2>. QED BY <1>2, <1>6, <2>1 DEF Reply
<1>12. /\ f.sub = i /\ f.type = "closed"
  BY <1>11 DEF Frame
<1>13. /\ Control(f, r)
       /\ \A k \in DOMAIN wire : wire[k].sub = i => Control(wire[k], r) /\ wire[k].type # "closed"
  BY <1>2, <1>5, <1>6, <1>7, <1>12 DEF Control, UpdateTypes, Subscribers, Holding
<1>14. ~Streaming(r)
  BY <1>5 DEF Streaming, Subscribers, Holding
<1>15. r.tail # <<>> /\ r.rev = binding.rev => binding.sub = i
  BY <1>0, <1>5 DEF Bound
<1>16. UNCHANGED <<source, had, up, clientVars, changes>>
  BY <1>2
<1>17. r.cli = "open" <=> sub[i].cli = "open"
  BY <1>2, <1>5
<1>18. \A k \in DOMAIN wire : ~(wire[k].sub = i /\ wire[k].type = f.type)
  BY <1>12, <1>13
<1>19. /\ \A k \in DOMAIN wire : wire[k].sub = i => Control(wire[k], r)
       /\ Control(f, r) /\ f.sub = i
  BY <1>12, <1>13
<1>. QED BY ONLY <1>1, <1>4, <1>5, <1>6, <1>16, <1>17, <1>8, <1>9, <1>10, <1>11, <1>14, <1>15, <1>18, <1>19,
                 OneMoves, IInv, i \in Subs, r \in Subscriptions, f \in Frames

\* The updates held back have been sent.
LEMMA FlushedKeeps ==
  ASSUME IInv, NEW i \in Subs, sub[i].srv = "flushing", sub[i].pending = <<>>,
         sub' = [sub EXCEPT ![i].srv = "ready"],
         UNCHANGED <<source, had, wire, up, clientVars, changes>>
  PROVE  IInv'
<1>0. Typed /\ Ascends /\ Revisions /\ Joint /\ Bound /\ HeldBack /\ Streams /\ Counted
  BY DEF IInv
<1>1. sub \in Seq(Subscriptions) /\ sub[i] \in Subscriptions /\ wire \in Seq(Frames)
  BY <1>0, SubFields DEF Typed
<1>3. PICK r \in Subscriptions : r = [sub[i] EXCEPT !.srv = "ready"]
  BY <1>1 DEF Subscriptions, Subscribers
<1>4. sub' = [sub EXCEPT ![i] = r]
  BY <1>1, <1>3 DEF Subs
<1>5. /\ r.srv = "ready" /\ r.snap = sub[i].snap /\ r.cli = sub[i].cli /\ r.listening = sub[i].listening
      /\ r.rev = sub[i].rev /\ r.tail = sub[i].tail /\ r.queued = sub[i].queued
      /\ r.pending = <<>> /\ r.pending = sub[i].pending
  BY <1>1, <1>3 DEF Subscriptions
<1>6. Halves(sub[i]) /\ up
  BY <1>0 DEF Joint
<1>7. \A k \in DOMAIN wire : wire[k].sub = i => Control(wire[k], r)
  <2>1. \A k \in DOMAIN wire : wire[k].sub = i => Control(wire[k], sub[i])
    BY <1>0 DEF Joint
  <2>. QED BY <1>5, <2>1 DEF Control
<1>8. Halves(r)
  BY <1>5, <1>6 DEF Halves, Holding
<1>9. binding.sub = i => Continues(r)
  BY <1>0, <1>5 DEF Bound, Continues, Typed, Subs
<1>10. Ending(r.pending)
  BY <1>0, <1>5 DEF HeldBack
<1>11. Streaming(r) => \E lo \in Nat : Has(r, lo) /\ Flows(i, lo, Hi(r))'
  <2>. SUFFICES ASSUME Streaming(r) PROVE \E lo \in Nat : Has(r, lo) /\ Flows(i, lo, Hi(r))'
    OBVIOUS
  <2>1. Streaming(sub[i])
    BY <1>5 DEF Streaming, Subscribers, Holding
  <2>2. PICK lo \in Nat : Has(sub[i], lo) /\ Flows(i, lo, Hi(sub[i]))
    BY <1>0, <2>1, StreamOf
  <2>3. Has(r, lo)
    BY <1>5, <2>2 DEF Has, Behind
  <2>4. PICK hi \in Nat : hi = Hi(sub[i]) /\ hi <= Len(had)
    BY <1>0, StreamOf
  <2>5. Flows(i, lo, hi)'
    BY <1>0, <2>2, <2>4, StillFlows
  <2>6. Hi(r)' = hi
    BY <1>5, <2>4 DEF Hi
  <2>. QED BY <2>3, <2>5, <2>6
<1>12. UNCHANGED <<source, had, up, clientVars, changes>> /\ wire' = wire
  OBVIOUS
<1>13. r.tail # <<>> /\ r.rev = binding.rev => binding.sub = i
  BY <1>0, <1>5 DEF Bound
<1>. QED BY ONLY <1>1, <1>4, <1>5, <1>6, <1>7, <1>8, <1>9, <1>10, <1>11, <1>12, <1>13, OneMoves, IInv,
                 i \in Subs, r \in Subscriptions

\* The first of the updates held back is sent.
LEMMA FlushKeeps ==
  ASSUME IInv, NEW i \in Subs, sub[i].srv = "flushing", sub[i].pending # <<>>,
         sub' = [sub EXCEPT ![i].pending = Tail(@)],
         Reply([Head(sub[i].pending) EXCEPT !.sub = i]),
         UNCHANGED <<source, had, up, clientVars, changes>>
  PROVE  IInv'
<1>0. Typed /\ Ascends /\ Revisions /\ Joint /\ Bound /\ HeldBack /\ Streams /\ Counted
  BY DEF IInv
<1>1. /\ sub \in Seq(Subscriptions) /\ sub[i] \in Subscriptions /\ wire \in Seq(Frames) /\ i \in Nat
      /\ sub[i].pending \in Seq(Frames)
  BY <1>0, SubFields DEF Typed
<1>2. PICK q \in Seq(Frames) : q = sub[i].pending
  BY <1>1
<1>a. /\ Tail(q) \in Seq(Frames) /\ Head(q) = q[1] /\ 1 \in DOMAIN q /\ Head(q) \in Frames
      /\ Len(q) \in Nat /\ Len(Tail(q)) = Len(q) - 1 /\ Len(q) # 0
      /\ \A k \in DOMAIN Tail(q) : k \in Nat /\ k + 1 \in DOMAIN q /\ Tail(q)[k] = q[k + 1]
  BY <1>2, TailShifts
<1>b. Len(had) \in Nat
  BY <1>0, LenProperties DEF Typed
<1>c. Len(q) < Len(had) /\ Run(q, Len(had) - Len(q))
  BY <1>0, <1>2 DEF HeldBack, Ending
<1>3. PICK r \in Subscriptions : r = [sub[i] EXCEPT !.pending = Tail(q)]
  BY <1>1, <1>a DEF Subscriptions
<1>4. sub' = [sub EXCEPT ![i] = r]
  BY <1>1, <1>2, <1>3 DEF Subs
<1>5. /\ r.srv = "flushing" /\ r.snap = sub[i].snap /\ r.cli = sub[i].cli /\ r.listening = sub[i].listening
      /\ r.rev = sub[i].rev /\ r.tail = sub[i].tail /\ r.queued = sub[i].queued
      /\ r.pending = Tail(q) /\ r.srv = sub[i].srv
  BY <1>1, <1>3 DEF Subscriptions
<1>6. Halves(sub[i]) /\ up
  BY <1>0 DEF Joint
<1>7. \A k \in DOMAIN wire : wire[k].sub = i => Control(wire[k], r)
  <2>1. \A k \in DOMAIN wire : wire[k].sub = i => Control(wire[k], sub[i])
    BY <1>0 DEF Joint
  <2>. QED BY <1>5, <2>1 DEF Control
<1>8. Halves(r)
  BY <1>5, <1>6 DEF Halves, Holding
<1>9. binding.sub = i => Continues(r)
  BY <1>0, <1>5 DEF Bound, Continues, Typed, Subs
<1>10. Ending(r.pending)
  <2>1. Run(Tail(q), Len(had) - Len(Tail(q)))
    <3>. SUFFICES ASSUME NEW k \in DOMAIN Tail(q)
                  PROVE  Carries(Tail(q)[k], (Len(had) - Len(Tail(q))) + k)
      BY DEF Run
    <3>1. Carries(q[k + 1], (Len(had) - Len(q)) + (k + 1))
      BY <1>a, <1>c DEF Run
    <3>2. (Len(had) - Len(q)) + (k + 1) = (Len(had) - Len(Tail(q))) + k
      BY <1>a, <1>b
    <3>. QED BY <1>a, <3>1, <3>2
  <2>. QED BY <1>5, <1>a, <1>b, <1>c, <2>1 DEF Ending
<1>11. PICK hi \in Nat : hi = Len(had) - Len(q)
  BY <1>a, <1>b, <1>c
<1>12. Carries(q[1], hi + 1) /\ q[1].type \in UpdateTypes
  <2>1. Carries(q[1], hi + 1)
    BY <1>a, <1>b, <1>c, <1>11 DEF Run
  <2>. QED BY <2>1 DEF Carries, Kind, UpdateTypes
<1>13. PICK f \in Frames : /\ f = [Head(q) EXCEPT !.sub = i] /\ wire' = Append(wire, f)
                           /\ f.sub = i /\ f.type = q[1].type /\ f.val = q[1].val
  <2>1. PICK f : f = [Head(q) EXCEPT !.sub = i]
    OBVIOUS
  <2>2. f \in Frames /\ f.sub = i /\ f.type = q[1].type /\ f.val = q[1].val
    BY <1>1, <1>a, <2>1 DEF Frames
  <2>. QED BY <1>2, <1>6, <2>1, <2>2 DEF Reply
<1>14. f.type \in UpdateTypes /\ Control(f, r) /\ Carries(f, hi + 1)
  BY <1>5, <1>12, <1>13 DEF Control, UpdateTypes, Carries
<1>15. Streaming(r) => \E lo \in Nat : Has(r, lo) /\ Flows(i, lo, Hi(r))'
  <2>. SUFFICES ASSUME Streaming(r) PROVE \E lo \in Nat : Has(r, lo) /\ Flows(i, lo, Hi(r))'
    OBVIOUS
  <2>1. Streaming(sub[i])
    BY <1>5 DEF Streaming
  <2>2. PICK lo \in Nat : Has(sub[i], lo) /\ Flows(i, lo, hi)
    BY <1>0, <1>2, <1>11, <2>1, StreamOf DEF Hi
  <2>3. Has(r, lo)
    BY <1>5, <2>2 DEF Has, Behind
  <2>4. had' \in Seq(Pairs) /\ Rises(had') /\ Longer(had, had') /\ had' = had
    <3>1. DOMAIN had \subseteq Nat
      BY <1>0, LenProperties DEF Typed
    <3>. QED BY <1>0, <3>1 DEF Typed, Ascends, Longer
  <2>5. PICK n \in DOMAIN wire' : /\ n \notin DOMAIN wire /\ wire'[n] = f
                                  /\ DOMAIN wire' = DOMAIN wire \cup {n}
    <3>1. /\ DOMAIN wire' = DOMAIN wire \cup {Len(wire) + 1} /\ Len(wire) + 1 \notin DOMAIN wire
          /\ wire'[Len(wire) + 1] = f
      BY <1>1, <1>13, AppendLonger
    <3>. QED BY <3>1
  <2>6. wire' \in Seq(Frames) /\ Longer(wire, wire')
    BY <1>1, <1>13, AppendLonger
  <2>7. Brings(n, i)' /\ Carries(wire[n], hi + 1)'
    BY <1>13, <1>14, <2>4, <2>5 DEF Brings, Carries
  <2>8. \A k \in DOMAIN wire' : k \notin DOMAIN wire /\ Brings(k, i)' => k = n
    BY <2>5
  <2>9. hi <= Len(had)
    BY <1>a, <1>b, <1>11
  <2>10. Flows(i, lo, hi + 1)'
    BY ONLY <2>2, <2>4, <2>5, <2>6, <2>7, <2>8, <2>9, FlowsGain, lo \in Nat, hi \in Nat, n \in DOMAIN wire'
  <2>11. Hi(r)' = hi + 1
    BY <1>5, <1>a, <1>b, <1>11, <2>4 DEF Hi
  <2>. QED BY <2>3, <2>10, <2>11
<1>16. UNCHANGED <<source, had, up, clientVars, changes>>
  OBVIOUS
<1>17. r.tail # <<>> /\ r.rev = binding.rev => binding.sub = i
  BY <1>0, <1>5 DEF Bound
<1>. QED BY ONLY <1>1, <1>4, <1>5, <1>6, <1>7, <1>8, <1>9, <1>10, <1>13, <1>14, <1>15, <1>16, <1>17, OneMoves, IInv,
                 i \in Subs, r \in Subscriptions, f \in Frames

-----------------------------------------------------------------------------
(***************************************************************************)
(* The client's half, where the view stays.                                *)
(***************************************************************************)
LEMMA DrainedKeeps ==
  ASSUME IInv, NEW i \in Subs, Drained(i)
  PROVE  IInv'
<1>0. Typed /\ Ascends /\ Revisions /\ Joint /\ Bound /\ HeldBack /\ Streams /\ Counted
  BY DEF IInv
<1>1. sub \in Seq(Subscriptions) /\ sub[i] \in Subscriptions /\ wire \in Seq(Frames)
  BY <1>0, SubFields DEF Typed
<1>2. /\ sub[i].cli = "drained" /\ sub[i].tail = <<>>
      /\ sub' = [sub EXCEPT ![i].cli = "gone", ![i].queued = <<>>]
      /\ UNCHANGED <<source, had, up, clientVars, changes>> /\ wire' = wire
  BY DEF Drained
<1>3. PICK r \in Subscriptions : r = [sub[i] EXCEPT !.cli = "gone", !.queued = <<>>]
  <2>1. <<>> \in Seq(Frames)
    BY EmptySeq
  <2>. QED BY <1>1, <2>1 DEF Subscriptions
<1>4. sub' = [sub EXCEPT ![i] = r]
  BY <1>1, <1>2, <1>3 DEF Subs
<1>5. /\ r.srv = sub[i].srv /\ r.cli = "gone" /\ r.listening = sub[i].listening
      /\ r.rev = sub[i].rev /\ r.tail = sub[i].tail /\ r.queued = <<>>
      /\ r.pending = sub[i].pending
  BY <1>1, <1>3 DEF Subscriptions
<1>6. /\ Halves(sub[i]) /\ ~sub[i].listening /\ (~up => sub[i].srv = "closed")
      /\ \A k \in DOMAIN wire : wire[k].sub = i => Control(wire[k], sub[i])
  BY <1>0, <1>2 DEF Joint, Halves
<1>7. \A k \in DOMAIN wire : wire[k].sub = i => Control(wire[k], r)
  BY <1>2, <1>5, <1>6 DEF Control
<1>8. Halves(r)
  BY <1>2, <1>5, <1>6 DEF Halves
<1>9. binding.sub # i
  BY <1>0, <1>2 DEF Bound, Continues, Typed, Subs
<1>10. Ending(r.pending)
  BY <1>0, <1>5 DEF HeldBack
<1>11. ~Streaming(r)
  BY <1>5, <1>6 DEF Streaming
<1>12. UNCHANGED <<source, had, up, clientVars, changes>> /\ wire' = wire
  BY <1>2
<1>13. r.cli = "open" <=> sub[i].cli = "open"
  BY <1>2, <1>5
<1>14. (~up => r.srv = "closed") /\ r.tail = <<>>
  BY <1>2, <1>5, <1>6
<1>. QED BY ONLY <1>1, <1>4, <1>5, <1>7, <1>8, <1>9, <1>10, <1>11, <1>12, <1>13, <1>14, OneMoves, IInv,
                 i \in Subs, r \in Subscriptions

\* An answer nobody wants any more.
LEMMA DiscardKeeps ==
  ASSUME IInv, NEW i \in Subs, sub[i].cli = "answered",
         sub' = [sub EXCEPT ![i] = IF sub[i].listening THEN Dispose(sub[i])
                                   ELSE [sub[i] EXCEPT !.cli = "gone", !.queued = <<>>]],
         UNCHANGED <<source, had, wire, up, clientVars, changes>>
  PROVE  IInv'
<1>0. Typed /\ Ascends /\ Revisions /\ Joint /\ Bound /\ HeldBack /\ Streams /\ Counted
  BY DEF IInv
<1>1. sub \in Seq(Subscriptions) /\ sub[i] \in Subscriptions /\ wire \in Seq(Frames)
  BY <1>0, SubFields DEF Typed
<1>3. PICK r \in Subscriptions : r = IF sub[i].listening THEN Dispose(sub[i])
                                     ELSE [sub[i] EXCEPT !.cli = "gone", !.queued = <<>>]
  <2>1. <<>> \in Seq(Frames)
    BY EmptySeq
  <2>. QED BY <1>1, <2>1 DEF Subscriptions, Dispose
<1>4. sub' = [sub EXCEPT ![i] = r]
  BY <1>3
<1>5. /\ r.srv = sub[i].srv /\ r.cli \in {"disposing", "drained", "gone"} /\ ~r.listening
      /\ r.rev = sub[i].rev /\ r.tail = sub[i].tail
      /\ r.pending = sub[i].pending
      /\ r.queued = sub[i].queued \/ r.queued = <<>>
  BY <1>1, <1>3 DEF Subscriptions, Dispose
<1>6. /\ Halves(sub[i]) /\ sub[i].tail = <<>> /\ (~up => sub[i].srv = "closed")
      /\ \A k \in DOMAIN wire : wire[k].sub = i => Control(wire[k], sub[i])
  BY <1>0 DEF Joint, Halves
<1>7. \A k \in DOMAIN wire : wire[k].sub = i => Control(wire[k], r)
  BY <1>5, <1>6 DEF Control
<1>8. Halves(r)
  BY <1>5, <1>6 DEF Halves
<1>9. binding.sub # i
  BY <1>0 DEF Bound, Continues, Typed, Subs
<1>10. Ending(r.pending)
  BY <1>0, <1>5 DEF HeldBack
<1>11. ~Streaming(r)
  BY <1>5 DEF Streaming
<1>12. UNCHANGED <<source, had, up, clientVars, changes>> /\ wire' = wire
  OBVIOUS
<1>13. r.cli = "open" <=> sub[i].cli = "open"
  BY <1>5
<1>14. (~up => r.srv = "closed") /\ r.tail = <<>>
  BY <1>5, <1>6
<1>. QED BY ONLY <1>1, <1>4, <1>5, <1>7, <1>8, <1>9, <1>10, <1>11, <1>12, <1>13, <1>14, OneMoves, IInv,
                 i \in Subs, r \in Subscriptions

\* An update of an older revision.
LEMMA IgnoreKeeps ==
  ASSUME IInv, NEW i \in Subs, sub[i].tail # <<>>, binding.rev # sub[i].rev,
         sub' = [sub EXCEPT ![i].tail = Tail(@)],
         UNCHANGED <<source, had, wire, up, clientVars, changes>>
  PROVE  IInv'
<1>0. Typed /\ Ascends /\ Revisions /\ Joint /\ Bound /\ HeldBack /\ Streams /\ Counted
  BY DEF IInv
<1>1. /\ sub \in Seq(Subscriptions) /\ sub[i] \in Subscriptions /\ wire \in Seq(Frames)
      /\ Tail(sub[i].tail) \in Seq(Frames)
  BY <1>0, SubFields, TailShifts DEF Typed
<1>3. PICK r \in Subscriptions : r = [sub[i] EXCEPT !.tail = Tail(sub[i].tail)]
  BY <1>1 DEF Subscriptions
<1>4. sub' = [sub EXCEPT ![i] = r]
  BY <1>1, <1>3 DEF Subs
<1>5. /\ r.srv = sub[i].srv /\ r.cli = sub[i].cli /\ r.listening = sub[i].listening
      /\ r.rev = sub[i].rev /\ r.tail = Tail(sub[i].tail) /\ r.queued = sub[i].queued
      /\ r.pending = sub[i].pending /\ r.snap = sub[i].snap
  BY <1>1, <1>3 DEF Subscriptions
<1>9. binding.sub # i
  BY <1>0 DEF Bound, Continues, Typed, Subs
<1>6. /\ Halves(sub[i]) /\ (~up => sub[i].srv = "closed") /\ sub[i].cli # "open"
      /\ sub[i].cli \notin {"asking", "answered"}
      /\ \A k \in DOMAIN wire : wire[k].sub = i => Control(wire[k], sub[i])
  BY <1>0, <1>9 DEF Joint, Halves, Bound
<1>7. \A k \in DOMAIN wire : wire[k].sub = i => Control(wire[k], r)
  BY <1>5, <1>6 DEF Control
<1>8. Halves(r)
  BY <1>5, <1>6 DEF Halves
<1>10. Ending(r.pending)
  BY <1>0, <1>5 DEF HeldBack
<1>11. ~Streaming(r)
  BY <1>5, <1>6 DEF Streaming, Halves
<1>12. UNCHANGED <<source, had, up, clientVars, changes>> /\ wire' = wire
  OBVIOUS
<1>13. (r.cli = "open" <=> sub[i].cli = "open") /\ r.rev # binding.rev
  BY <1>5, <1>6
<1>14. ~up => r.srv = "closed"
  BY <1>5, <1>6
<1>. QED BY ONLY <1>1, <1>4, <1>5, <1>7, <1>8, <1>9, <1>10, <1>11, <1>12, <1>13, <1>14, OneMoves, IInv,
                 i \in Subs, r \in Subscriptions

-----------------------------------------------------------------------------
(***************************************************************************)
(* The binding's own subscription moves the view.                          *)
(***************************************************************************)
LEMMA ViewMoves ==
  ASSUME IInv, UNCHANGED <<source, had, up, wire, starts, changes>>,
         NEW i \in Subs, NEW r \in Subscriptions, sub' = [sub EXCEPT ![i] = r],
         sub[i].rev = binding.rev, r.rev = sub[i].rev, r.srv = sub[i].srv,
         r.pending = sub[i].pending, r.cli = "open",
         binding' = [binding EXCEPT !.sub = i],
         view' \in [seq: Nat, val: Pairs], seen' \in Nat, seen' <= Len(had), ~faulty', faulty' \in BOOLEAN,
         Halves(r), \A k \in DOMAIN wire : wire[k].sub = i => Control(wire[k], r),
         Continues(r)',
         Streaming(r) => \E lo \in Nat : Has(r, lo)' /\ Flows(i, lo, Hi(sub[i]))
  PROVE  IInv'
<1>0. Typed /\ Ascends /\ Revisions /\ Joint /\ Bound /\ HeldBack /\ Streams /\ Counted
  BY DEF IInv
<1>1. /\ sub' \in Seq(Subscriptions) /\ Subs' = Subs /\ sub'[i] = r
      /\ \A j \in Subs : j # i => sub'[j] = sub[j]
  BY <1>0, Replaced DEF Typed
<1>2. /\ binding.rev = binding'.rev /\ binding'.sub = i /\ binding' \in [rev: Nat, bound: BOOLEAN, sub: Subs \cup {0}]
  BY <1>0 DEF Typed
<1>3. \A j \in Subs : j # i => sub[j].rev # binding.rev
  BY <1>0 DEF Revisions
<1>4. binding.sub \in {0, i}
  <2>1. CASE binding.sub # 0
    <3>1. binding.sub \in Subs /\ Continues(sub[binding.sub])
      BY <1>0, <2>1 DEF Bound, Typed
    <3>. QED BY <1>3, <3>1 DEF Continues
  <2>. QED BY <2>1
<1>5. \A j \in Subs : j # i => sub[j].cli # "open"
  <2>1. \A j \in Subs : j # 0
    BY <1>0, LenProperties DEF Typed, Subs
  <2>2. \A j \in Subs : sub[j].cli = "open" => binding.sub = j
    BY <1>0 DEF Bound
  <2>. QED BY <1>4, <2>1, <2>2
<1>6. Typed'
  BY <1>0, <1>1, <1>2 DEF Typed
<1>7. Counted' /\ Ascends'
  BY <1>0 DEF Counted, Ascends, Value
<1>8. Revisions'
  <2>1. \A j \in Subs : sub'[j].rev = sub[j].rev
    BY <1>1
  <2>. QED BY <1>0, <1>1, <1>2, <2>1 DEF Revisions
<1>9. Joint'
  <2>1. Longer(wire, wire') /\ wire' \in Seq(Frames)
    <3>1. DOMAIN wire \subseteq Nat
      BY <1>0, LenProperties DEF Typed
    <3>. QED BY <1>0, <3>1 DEF Typed, Longer
  <2>2. ~up => r.srv = "closed" /\ wire' = wire
    BY <1>0 DEF Joint
  <2>. QED BY <1>0, <2>1, <2>2, JointGrows
<1>10. Bound'
  <2>1. \A j \in Subs : sub'[j].cli = "open" => j = i
    BY <1>1, <1>5
  <2>2. \A j \in Subs : sub'[j].rev = binding.rev => j = i
    BY <1>1, <1>3
  <2>3. i # 0
    BY <1>0, LenProperties DEF Typed, Subs
  <2>4. Continues(sub[binding.sub])'
    <3>1. sub'[binding'.sub] = r
      BY <1>1, <1>2
    <3>. QED BY <3>1 DEF Continues
  <2>. QED BY <1>1, <1>2, <2>1, <2>2, <2>3, <2>4 DEF Bound
<1>11. /\ \A q : Ending(q)' <=> Ending(q)
       /\ \A x : Hi(x)' = Hi(x)
       /\ \A j, lo, hi : Flows(j, lo, hi)' <=> Flows(j, lo, hi)
       /\ \A q, from : Run(q, from)' <=> Run(q, from)
  <2>1. \A f, p : Carries(f, p)' <=> Carries(f, p)
    BY DEF Carries
  <2>2. \A q, from : Run(q, from)' <=> Run(q, from)
    BY <2>1 DEF Run
  <2>3. \A k, j : Brings(k, j)' <=> Brings(k, j)
    BY DEF Brings
  <2>4. \A j, lo, hi : Flows(j, lo, hi)' <=> Flows(j, lo, hi)
    BY <2>1, <2>3 DEF Flows
  <2>. QED BY <2>2, <2>4 DEF Ending, Hi
<1>12. HeldBack'
  <2>1. \A j \in Subs : sub'[j].pending = sub[j].pending
    BY <1>1
  <2>2. ASSUME NEW j \in Subs PROVE Ending(sub[j].pending)'
    <3>1. PICK q : q = sub'[j].pending /\ Ending(q)
      BY <1>0, <2>1 DEF HeldBack
    <3>. QED BY <1>11, <3>1
  <2>. QED BY <1>1, <2>2 DEF HeldBack
<1>13. Streams'
  <2>. SUFFICES ASSUME NEW j \in Subs, Streaming(sub[j])'
                PROVE  (\E lo \in Nat : Has(sub[j], lo) /\ Flows(j, lo, Hi(sub[j])))'
    BY <1>1 DEF Streams
  <2>1. PICK x : x = sub'[j] /\ Streaming(x)
    BY DEF Streaming
  <2>2. \E lo \in Nat : Has(x, lo)' /\ Flows(j, lo, Hi(x))
    <3>1. CASE j = i
      <4>1. Hi(x) = Hi(sub[i])
        BY <1>1, <2>1, <3>1 DEF Hi
      <4>. QED BY <1>1, <2>1, <3>1, <4>1
    <3>2. CASE j # i
      <4>1. x = sub[j] /\ x.cli # "open" /\ x.rev # binding.rev
        BY <1>1, <1>3, <1>5, <2>1, <3>2
      <4>2. PICK lo \in Nat : Has(x, lo) /\ Flows(j, lo, Hi(x))
        BY <1>0, <2>1, <4>1 DEF Streams
      <4>3. Has(x, lo)'
        BY <1>2, <1>11, <4>1, <4>2 DEF Has, Behind
      <4>. QED BY <4>2, <4>3
    <3>. QED BY <3>1, <3>2
  <2>3. PICK lo \in Nat : Has(x, lo)' /\ Flows(j, lo, Hi(x))
    BY <2>2
  <2>4. Flows(j, lo, Hi(x))'
    BY <1>11, <2>3
  <2>. QED BY <2>1, <2>3, <2>4
<1>. QED BY <1>6, <1>7, <1>8, <1>9, <1>10, <1>12, <1>13 DEF IInv

\* The snapshot is installed, and the updates behind it go to the listener.
LEMMA InstallKeeps ==
  ASSUME IInv, NEW i \in Subs, Wanted(sub[i]), sub[i].cli = "answered",
         binding' = [binding EXCEPT !.sub = i], Show(At(sub[i].snap)),
         sub' = [sub EXCEPT ![i].cli = "open", ![i].snap = <<0, 0>>,
                            ![i].tail = sub[i].queued, ![i].queued = <<>>],
         UNCHANGED <<source, had, up, wire, starts, faulty, changes>>
  PROVE  /\ IInv'
         /\ view = Cold /\ view' = At(sub[i].snap) /\ seen' \in DOMAIN had /\ seen <= seen'
         /\ had[seen'] = sub[i].snap /\ had[seen'][2] # Withdrawn
<1>0. Typed /\ Ascends /\ Revisions /\ Joint /\ Bound /\ HeldBack /\ Streams /\ Counted /\ ~faulty
  BY DEF IInv
<1>1. /\ sub \in Seq(Subscriptions) /\ sub[i] \in Subscriptions /\ wire \in Seq(Frames)
      /\ sub[i].queued \in Seq(Frames) /\ sub[i].snap \in Pairs
      /\ Len(sub[i].queued) \in Nat
  BY <1>0, SubFields DEF Typed
<1>2. PICK r \in Subscriptions : r = [sub[i] EXCEPT !.cli = "open", !.snap = <<0, 0>>,
                                                    !.tail = sub[i].queued, !.queued = <<>>]
  <2>1. <<>> \in Seq(Frames) /\ <<0, 0>> \in Pairs
    BY EmptySeq DEF Pairs
  <2>. QED BY <1>1, <2>1 DEF Subscriptions
<1>3. sub' = [sub EXCEPT ![i] = r]
  BY <1>1, <1>2 DEF Subs
<1>4. /\ r.srv = sub[i].srv /\ r.cli = "open" /\ r.listening = sub[i].listening
      /\ r.rev = sub[i].rev /\ r.tail = sub[i].queued /\ r.queued = <<>>
      /\ r.pending = sub[i].pending
  BY <1>1, <1>2 DEF Subscriptions
<1>5. sub[i].listening /\ binding.rev = sub[i].rev
  BY DEF Wanted
<1>6. /\ Halves(sub[i]) /\ sub[i].srv \in Subscribers
      /\ \A k \in DOMAIN wire : wire[k].sub = i => Control(wire[k], sub[i])
  <2>1. sub[i].srv \in Subscribers \cup {"asked", "closed"}
    BY <1>0, SubFields
  <2>2. Halves(sub[i]) /\ \A k \in DOMAIN wire : wire[k].sub = i => Control(wire[k], sub[i])
    BY <1>0 DEF Joint
  <2>. QED BY <1>5, <2>1, <2>2 DEF Halves
<1>7. \A k \in DOMAIN wire : wire[k].sub = i => Control(wire[k], r)
  BY <1>4, <1>6 DEF Control
<1>8. Halves(r)
  BY <1>4, <1>5, <1>6 DEF Halves, Subscribers, Holding
<1>9. PICK lo \in Nat : Has(sub[i], lo) /\ Flows(i, lo, Hi(sub[i]))
  BY <1>0, <1>5, <1>6, StreamOf DEF Streaming
<1>10. PICK p \in DOMAIN had : Behind(sub[i], p) /\ lo = p + Len(sub[i].queued)
  BY <1>9 DEF Has
<1>11. Hi(sub[i]) \in Nat /\ Hi(sub[i]) <= Len(had) /\ Len(had) \in Nat
  BY <1>0, StreamOf
<1>12. /\ had[p] = sub[i].snap /\ had[p][2] # Withdrawn /\ Run(sub[i].queued, p) /\ seen <= p /\ p \in Nat
       /\ DOMAIN had = 1..Len(had)
  BY <1>0, <1>5, <1>10, LenProperties DEF Behind, Typed
<1>13. At(sub[i].snap) # Cold /\ At(sub[i].snap) \in [seq: Nat, val: Pairs]
  BY <1>1 DEF At, Cold, Pairs
<1>14. view' = At(sub[i].snap) /\ seen' = p
  <2>1. At(sub[i].snap).val = sub[i].snap
    BY DEF At
  <2>2. Position(sub[i].snap) = p
    BY <1>0, <1>10, <1>12, PositionIs DEF Typed, Ascends
  <2>. QED BY <1>13, <2>1, <2>2 DEF Show
<1>15. binding.sub = 0 /\ view = Cold
  <2>1. ASSUME binding.sub # 0 PROVE FALSE
    <3>1. binding.sub \in Subs /\ Continues(sub[binding.sub])
      BY <1>0, <2>1 DEF Bound, Typed
    <3>2. binding.sub = i
      BY <1>0, <1>5, <3>1 DEF Revisions, Continues
    <3>. QED BY <3>1, <3>2 DEF Continues
  <2>. QED BY <1>0, <2>1 DEF Bound
<1>16. Base' = p
  BY <1>13, <1>14 DEF Base
<1>17. binding'.rev = binding.rev
  BY <1>0 DEF Typed
<1>18. p + Len(r.tail) = lo /\ lo <= Len(had)
  BY <1>4, <1>9, <1>10, <1>11 DEF Flows
<1>19. Continues(r)'
  <2>1. Run(r.tail, p)'
    BY <1>4, <1>12 DEF Run, Carries
  <2>2. view' = At(had'[p]) /\ view' # Cold
    BY <1>12, <1>13, <1>14
  <2>. QED BY <1>4, <1>5, <1>10, <1>16, <1>17, <1>18, <2>1, <2>2 DEF Continues
<1>20. Streaming(r) => \E l \in Nat : Has(r, l)' /\ Flows(i, l, Hi(sub[i]))
  <2>1. Has(r, lo)'
    BY <1>4, <1>16, <1>18 DEF Has
  <2>. QED BY <1>9, <2>1
<1>21. /\ view' \in [seq: Nat, val: Pairs] /\ seen' \in Nat /\ seen' <= Len(had)
       /\ ~faulty' /\ faulty' \in BOOLEAN
  BY <1>0, <1>12, <1>13, <1>14 DEF Typed
<1>22. IInv'
  BY ONLY <1>3, <1>4, <1>5, <1>7, <1>8, <1>19, <1>20, <1>21, ViewMoves, IInv, i \in Subs, r \in Subscriptions,
          binding' = [binding EXCEPT !.sub = i], UNCHANGED <<source, had, up, wire, starts, changes>>
<1>. QED BY <1>10, <1>12, <1>14, <1>15, <1>22

\* The next update reaches the listener: it is the one after what is shown, so
\* it fits.
LEMMA DeliverKeeps ==
  ASSUME IInv, NEW i \in Subs, sub[i].tail # <<>>, binding.rev = sub[i].rev,
         sub' = [sub EXCEPT ![i].tail = Tail(@)],
         Show(Updated(Head(sub[i].tail))), faulty' = (faulty \/ ~Fits(Head(sub[i].tail))),
         UNCHANGED <<source, had, up, wire, binding, starts, changes>>
  PROVE  /\ IInv'
         /\ \/ view' = Cold /\ seen' = seen
            \/ /\ seen' = Base + 1 /\ seen' \in DOMAIN had /\ had[seen'][2] # Withdrawn
               /\ view' = At(had[seen'])
<1>0. Typed /\ Ascends /\ Revisions /\ Joint /\ Bound /\ HeldBack /\ Streams /\ Counted /\ ~faulty
  BY DEF IInv
<1>1. /\ sub \in Seq(Subscriptions) /\ sub[i] \in Subscriptions /\ wire \in Seq(Frames)
  BY <1>0, SubFields DEF Typed
<1>2. PICK q \in Seq(Frames) : q = sub[i].tail /\ q # <<>>
  BY <1>0, SubFields
<1>3. /\ Tail(q) \in Seq(Frames) /\ Head(q) = q[1] /\ 1 \in DOMAIN q /\ Head(q) \in Frames
      /\ Len(q) \in Nat /\ Len(Tail(q)) = Len(q) - 1 /\ Len(q) # 0
      /\ \A k \in DOMAIN Tail(q) : k \in Nat /\ k + 1 \in DOMAIN q /\ Tail(q)[k] = q[k + 1]
  BY <1>2, TailShifts
<1>4. PICK r \in Subscriptions : r = [sub[i] EXCEPT !.tail = Tail(q)]
  BY <1>1, <1>3 DEF Subscriptions
<1>5. sub' = [sub EXCEPT ![i] = r]
  BY <1>1, <1>2, <1>4 DEF Subs
<1>6. /\ r.srv = sub[i].srv /\ r.cli = sub[i].cli /\ r.listening = sub[i].listening
      /\ r.rev = sub[i].rev /\ r.tail = Tail(q) /\ r.queued = sub[i].queued
      /\ r.pending = sub[i].pending
  BY <1>1, <1>4 DEF Subscriptions
<1>7. binding.sub = i /\ i # 0 /\ Continues(sub[i])
  <2>1. binding.sub = i /\ i # 0
    BY <1>0, LenProperties DEF Bound, Typed, Subs
  <2>. QED BY <1>0, <2>1 DEF Bound
<1>8. PICK b \in Nat : b = Base
  BY <1>0 DEF Base, Typed
<1>9. /\ b \in DOMAIN had /\ b + Len(q) <= Len(had) /\ Run(q, b)
      /\ IF view = Cold THEN had[b][2] = Withdrawn ELSE view = At(had[b])
      /\ r.cli = "open"
  BY <1>2, <1>6, <1>7, <1>8 DEF Continues
<1>10. /\ DOMAIN had = 1..Len(had) /\ Len(had) \in Nat /\ \A k \in DOMAIN had : had[k] \in Pairs
  BY <1>0, LenProperties, ElementOfSeq DEF Typed
<1>11. PICK v \in Pairs : /\ v = had[b + 1] /\ b + 1 \in DOMAIN had
                          /\ q[1].val = v /\ q[1].type = Kind(v)
  <2>1. Carries(q[1], b + 1)
    BY <1>3, <1>9 DEF Run
  <2>. QED BY <1>10, <2>1 DEF Carries
<1>a. Withdrawn \in Nat \ {0}
  BY SubscriptionAssumption DEF Withdrawn
<1>12. /\ v[2] = Withdrawn => had[b][1] = v[1] /\ had[b][2] < Withdrawn
       /\ v[2] \notin {0, Withdrawn} => had[b] = <<v[1], v[2] - 1>>
       /\ v[2] <= Withdrawn /\ v[1] \in Nat /\ v[2] \in Nat /\ v[1] # 0
  <2>0. v[1] \in Nat /\ v[2] \in Nat /\ v = <<v[1], v[2]>>
    BY DEF Pairs
  <2>1. (b + 1) - 1 = b /\ b < b + 1
    OBVIOUS
  <2>2. v[2] <= Withdrawn /\ v[1] # 0
    BY <1>0, <1>11 DEF Ascends
  <2>3. v[2] = Withdrawn => had[b][1] = v[1]
    BY <1>0, <1>11, <2>1 DEF Ascends
  <2>4. v[2] \notin {0, Withdrawn} => had[b] = <<v[1], v[2] - 1>>
    BY <1>0, <1>11, <2>1 DEF Ascends
  <2>5. Before(had[b], v)
    BY <1>0, <1>9, <1>11, <2>1 DEF Ascends, Rises
  <2>6. had[b][1] = v[1] => had[b][2] < v[2]
    <3>1. had[b][1] \in Nat
      BY <1>9, <1>10 DEF Pairs
    <3>. QED BY <2>0, <2>5, <3>1 DEF Before
  <2>. QED BY <2>0, <2>2, <2>3, <2>4, <2>6
<1>13. \A w \in Pairs : At(w) # Cold /\ At(w) \in [seq: Nat, val: Pairs] /\ At(w).val = w /\ At(w).seq = w[2] + 1
  BY DEF At, Cold, Pairs
<1>14. Fits(q[1]) /\ Updated(q[1]) = IF v[2] = Withdrawn THEN Cold ELSE At(v)
  <2>1. CASE v[2] = Withdrawn
    BY <1>11, <2>1 DEF Kind, Fits, Updated
  <2>2. CASE v[2] = 0
    BY <1>11, <1>a, <2>2 DEF Kind, Fits, Updated
  <2>3. CASE v[2] \notin {0, Withdrawn}
    <3>1. q[1].type = "state"
      BY <1>11, <2>3 DEF Kind
    <3>2. had[b] = <<v[1], v[2] - 1>> /\ had[b] \in Pairs /\ had[b][2] = v[2] - 1
      BY <1>9, <1>10, <1>12, <2>3
    <3>3. view # Cold /\ view = At(had[b])
      BY <1>9, <1>12, <2>3, <3>2 DEF Withdrawn
    <3>4. view.seq = v[2] /\ view.val = <<v[1], v[2] - 1>>
      <4>1. PICK w \in Pairs : w = had[b] /\ w[2] = v[2] - 1 /\ view = At(w)
        BY <3>2, <3>3
      <4>2. view.seq = w[2] + 1 /\ view.val = w
        BY <1>13, <4>1
      <4>3. w[2] + 1 = v[2]
        BY <1>12, <4>1
      <4>. QED BY <3>2, <4>1, <4>2, <4>3
    <3>5. Fits(q[1])
      BY <1>11, <3>1, <3>3, <3>4 DEF Fits
    <3>6. Updated(q[1]) = At(v)
      BY <1>11, <3>1, <3>4, <3>5 DEF Updated
    <3>. QED BY <2>3, <3>5, <3>6
  <2>. QED BY <2>1, <2>2, <2>3
<1>15. /\ faulty' = FALSE
       /\ Show(IF v[2] = Withdrawn THEN Cold ELSE At(v))
  BY <1>0, <1>2, <1>3, <1>14
<1>18. /\ Base' = b + 1
       /\ \/ view' = Cold /\ seen' = seen /\ v[2] = Withdrawn
          \/ /\ seen' = b + 1 /\ v[2] # Withdrawn /\ view' = At(v)
  <2>1. CASE v[2] = Withdrawn
    <3>1. view' = Cold /\ seen' = seen
      BY <1>15, <2>1 DEF Show
    <3>2. view # Cold /\ b = seen
      <4>1. had[b][2] # Withdrawn
        BY <1>12, <1>a, <2>1
      <4>. QED BY <1>8, <1>9, <4>1 DEF Base
    <3>3. Base' = b + 1
      BY <3>1, <3>2 DEF Base
    <3>. QED BY <3>1, <3>3, <2>1
  <2>2. CASE v[2] # Withdrawn
    <3>1. view' = At(v) /\ seen' = Position(v)
      BY <1>13, <1>15, <2>2 DEF Show
    <3>2. seen' = b + 1
      BY <1>0, <1>11, <3>1, PositionIs DEF Typed, Ascends
    <3>3. Base' = b + 1
      BY <1>13, <3>1, <3>2 DEF Base
    <3>. QED BY <2>2, <3>1, <3>2, <3>3
  <2>. QED BY <2>1, <2>2
<1>19. (b + 1) + Len(Tail(q)) = b + Len(q)
  BY <1>3
<1>20. Continues(r)'
  <2>1. Run(Tail(q), b + 1)
    <3>. SUFFICES ASSUME NEW k \in DOMAIN Tail(q) PROVE Carries(Tail(q)[k], (b + 1) + k)
      BY DEF Run
    <3>1. Carries(q[k + 1], b + (k + 1)) /\ b + (k + 1) = (b + 1) + k
      BY <1>3, <1>9 DEF Run
    <3>. QED BY <1>3, <3>1
  <2>2. Run(r.tail, b + 1)'
    BY <1>6, <2>1 DEF Run, Carries
  <2>3. IF view' = Cold THEN had'[b + 1][2] = Withdrawn ELSE view' = At(had'[b + 1])
    BY <1>11, <1>13, <1>18
  <2>. QED BY <1>6, <1>9, <1>11, <1>18, <1>19, <2>2, <2>3 DEF Continues
<1>21. Streaming(r) => \E l \in Nat : Has(r, l)' /\ Flows(i, l, Hi(sub[i]))
  <2>. SUFFICES ASSUME Streaming(r) PROVE \E l \in Nat : Has(r, l)' /\ Flows(i, l, Hi(sub[i]))
    OBVIOUS
  <2>1. PICK l \in Nat : Has(sub[i], l) /\ Flows(i, l, Hi(sub[i]))
    BY <1>0, <1>6, StreamOf DEF Streaming
  <2>2. l = b + Len(q)
    BY <1>2, <1>6, <1>8, <1>9, <2>1 DEF Has
  <2>3. Has(r, l)'
    BY <1>6, <1>9, <1>18, <1>19, <2>2 DEF Has
  <2>. QED BY <2>1, <2>3
<1>22. Halves(r) /\ \A k \in DOMAIN wire : wire[k].sub = i => Control(wire[k], r)
  <2>1. Halves(sub[i]) /\ \A k \in DOMAIN wire : wire[k].sub = i => Control(wire[k], sub[i])
    BY <1>0 DEF Joint
  <2>. QED BY <1>6, <1>9, <2>1 DEF Halves, Control
<1>23. /\ view' \in [seq: Nat, val: Pairs] /\ seen' \in Nat /\ seen' <= Len(had)
       /\ ~faulty' /\ faulty' \in BOOLEAN
  <2>1. Cold \in [seq: Nat, val: Pairs]
    BY DEF Cold, Pairs
  <2>. QED BY <1>0, <1>10, <1>11, <1>13, <1>15, <1>18, <2>1 DEF Bound, Typed
<1>24. binding' = [binding EXCEPT !.sub = i]
  BY <1>0, <1>7 DEF Typed
<1>25. IInv'
  BY ONLY <1>5, <1>6, <1>9, <1>20, <1>21, <1>22, <1>23, <1>24, ViewMoves, IInv, i \in Subs, r \in Subscriptions,
          binding.rev = sub[i].rev, UNCHANGED <<source, had, up, wire, binding, starts, changes>>
<1>. QED BY <1>8, <1>11, <1>18, <1>25

-----------------------------------------------------------------------------
(***************************************************************************)
(* A frame arrives.                                                        *)
(***************************************************************************)
LEMMA OneTakes ==
  ASSUME IInv, wire # <<>>, wire' = Tail(wire), UNCHANGED <<source, had, up, clientVars, changes>>,
         NEW i \in Subs, wire[1].sub = i, NEW r \in Subscriptions, sub' = [sub EXCEPT ![i] = r],
         Halves(r), \A k \in DOMAIN wire : k # 1 /\ wire[k].sub = i => Control(wire[k], r),
         r.rev = sub[i].rev, r.cli = "open" <=> sub[i].cli = "open",
         r.tail # <<>> /\ r.rev = binding.rev => binding.sub = i,
         binding.sub = i => Continues(r),
         r.pending = sub[i].pending,
         Streaming(r) => \E lo \in Nat : Has(r, lo) /\ Flows(i, lo, Hi(r))'
  PROVE  IInv'
<1>0. Typed /\ Ascends /\ Revisions /\ Joint /\ Bound /\ HeldBack /\ Streams /\ Counted /\ ~faulty
  BY DEF IInv
<1>a. UNCHANGED <<binding, starts, view, seen, faulty>> /\ had' = had /\ up' = up
  BY DEF clientVars
<1>1. /\ sub' \in Seq(Subscriptions) /\ Subs' = Subs /\ sub'[i] = r
      /\ \A j \in Subs : j # i => sub'[j] = sub[j]
  <2>1. sub \in Seq(Subscriptions)
    BY <1>0 DEF Typed
  <2>. QED BY ONLY <2>1, i \in Subs, r \in Subscriptions, sub' = [sub EXCEPT ![i] = r], Replaced
<1>2. /\ wire' \in Seq(Frames) /\ wire \in Seq(Frames) /\ had \in Seq(Pairs) /\ Rises(had)
      /\ \A k \in DOMAIN wire' : k \in Nat /\ k # 0 /\ k + 1 \in DOMAIN wire /\ wire'[k] = wire[k + 1]
  BY <1>0, TailShifts DEF Typed, Ascends
<1>3. Typed'
  BY <1>0, <1>a, <1>1, <1>2 DEF Typed
<1>4. Counted' /\ Ascends' /\ ~faulty'
  BY <1>0, <1>a DEF Counted, Ascends, Value
<1>5. Joint'
  <2>1. \A j \in Subs : Halves(sub'[j])
    BY <1>0, <1>1 DEF Joint
  <2>2. ASSUME NEW k \in DOMAIN wire' PROVE Control(wire'[k], sub'[wire'[k].sub])
    <3>1. k + 1 \in DOMAIN wire /\ wire'[k] = wire[k + 1] /\ k + 1 # 1
      BY <1>2
    <3>2. wire[k + 1].sub \in Subs /\ Control(wire[k + 1], sub[wire[k + 1].sub])
      BY <1>0, <3>1 DEF Joint, Typed
    <3>. QED BY <1>1, <3>1, <3>2
  <2>3. ASSUME NEW j \in DOMAIN wire', NEW k \in DOMAIN wire',
               wire'[j].type \notin UpdateTypes, wire'[j].type = wire'[k].type,
               wire'[j].sub = wire'[k].sub
        PROVE  j = k
    <3>1. j + 1 \in DOMAIN wire /\ k + 1 \in DOMAIN wire /\ wire'[j] = wire[j + 1] /\ wire'[k] = wire[k + 1]
      BY <1>2
    <3>2. j + 1 = k + 1
      BY <1>0, <2>3, <3>1 DEF Joint
    <3>. QED BY <1>2, <3>2
  <2>4. up'
    BY <1>0, <1>a DEF Joint
  <2>5. /\ \A j \in Subs' : Halves(sub[j])'
        /\ \A k \in DOMAIN wire' : Control(wire[k], sub[wire[k].sub])'
    BY <1>1, <2>1, <2>2 DEF Halves, Control
  <2>. QED BY <2>3, <2>4, <2>5 DEF Joint
<1>6. \A j \in Subs, lo, hi \in Nat :
        j # i /\ hi <= Len(had) /\ Flows(j, lo, hi) => Flows(j, lo, hi)'
  <2>. SUFFICES ASSUME NEW j \in Subs, NEW lo \in Nat, NEW hi \in Nat, j # i, Flows(j, lo, hi)
                PROVE  Flows(j, lo, hi)'
    OBVIOUS
  <2>1. ~Brings(1, j)
    BY DEF Brings
  <2>. QED BY <1>2, <1>a, <2>1, FlowsShift
<1>7. Ending(r.pending)
  BY <1>0 DEF HeldBack
<1>8. Revisions' /\ Bound' /\ HeldBack' /\ Streams'
  BY <1>0, <1>a, <1>6, <1>7, LocalKeeps
<1>. QED BY <1>3, <1>4, <1>5, <1>8 DEF IInv

\* An answer or the end of a subscription.
LEMMA AnswerKeeps ==
  ASSUME IInv, wire # <<>>, wire' = Tail(wire), UNCHANGED <<source, had, up, clientVars, changes>>,
         NEW i \in Subs, wire[1].sub = i, wire[1].type \in {"snapshot", "failed", "closed"},
         sub' = [sub EXCEPT ![i] = Arrived(sub[i], wire[1])]
  PROVE  IInv'
<1>0. Typed /\ Ascends /\ Revisions /\ Joint /\ Bound /\ HeldBack /\ Streams /\ Counted
  BY DEF IInv
<1>1. /\ sub[i] \in Subscriptions /\ wire \in Seq(Frames) /\ had \in Seq(Pairs) /\ Rises(had) /\ had' = had
      /\ 1 \in DOMAIN wire
  BY <1>0, SubFields, TailShifts DEF Typed, Ascends
<1>b. /\ wire[1].type = "snapshot" => Arrived(sub[i], wire[1]) = [sub[i] EXCEPT !.cli = "answered"]
      /\ wire[1].type = "failed" => Arrived(sub[i], wire[1]) = [sub[i] EXCEPT !.cli = "gone", !.listening = FALSE]
      /\ wire[1].type = "closed" => Arrived(sub[i], wire[1]) = [sub[i] EXCEPT !.cli = "drained"]
  <2>1. CASE wire[1].type = "snapshot"
    BY <2>1 DEF Arrived, UpdateTypes
  <2>2. CASE wire[1].type = "failed"
    BY <2>2 DEF Arrived, UpdateTypes
  <2>3. CASE wire[1].type = "closed"
    BY <2>3 DEF Arrived, UpdateTypes
  <2>. QED BY <2>1, <2>2, <2>3
<1>2. PICK r \in Subscriptions : r = Arrived(sub[i], wire[1])
  <2>1. /\ [sub[i] EXCEPT !.cli = "answered"] \in Subscriptions
        /\ [sub[i] EXCEPT !.cli = "gone", !.listening = FALSE] \in Subscriptions
        /\ [sub[i] EXCEPT !.cli = "drained"] \in Subscriptions
    BY <1>1 DEF Subscriptions
  <2>. QED BY <1>b, <2>1
<1>3. /\ r.srv = sub[i].srv /\ r.rev = sub[i].rev /\ r.tail = sub[i].tail /\ r.queued = sub[i].queued
      /\ r.pending = sub[i].pending /\ r.snap = sub[i].snap
      /\ wire[1].type = "snapshot" => r.cli = "answered" /\ r.listening = sub[i].listening
      /\ wire[1].type = "failed" => r.cli = "gone" /\ r.listening = FALSE
      /\ wire[1].type = "closed" => r.cli = "drained" /\ r.listening = sub[i].listening
  <2>1. PICK s \in Subscriptions : s = sub[i]
    BY <1>1
  <2>2. /\ wire[1].type = "snapshot" => r = [s EXCEPT !.cli = "answered"]
        /\ wire[1].type = "failed" => r = [s EXCEPT !.cli = "gone", !.listening = FALSE]
        /\ wire[1].type = "closed" => r = [s EXCEPT !.cli = "drained"]
    BY <1>b, <1>2, <2>1
  <2>3. \A v : /\ [s EXCEPT !.cli = v].cli = v /\ [s EXCEPT !.cli = v].listening = s.listening
               /\ [s EXCEPT !.cli = v].srv = s.srv /\ [s EXCEPT !.cli = v].rev = s.rev
               /\ [s EXCEPT !.cli = v].tail = s.tail /\ [s EXCEPT !.cli = v].queued = s.queued
               /\ [s EXCEPT !.cli = v].pending = s.pending /\ [s EXCEPT !.cli = v].snap = s.snap
    BY ONLY s \in Subscriptions DEF Subscriptions
  <2>4. PICK f : f = [s EXCEPT !.cli = "gone", !.listening = FALSE]
    OBVIOUS
  <2>5. /\ f.cli = "gone" /\ f.listening = FALSE
        /\ f.srv = s.srv /\ f.rev = s.rev /\ f.tail = s.tail /\ f.queued = s.queued
        /\ f.pending = s.pending /\ f.snap = s.snap
    BY ONLY <2>4, s \in Subscriptions DEF Subscriptions
  <2>6. CASE wire[1].type = "snapshot"
    <3>1. r = [s EXCEPT !.cli = "answered"]
      BY <2>2, <2>6
    <3>. QED BY ONLY <2>1, <2>3, <2>6, <3>1
  <2>7. CASE wire[1].type = "failed"
    <3>1. r = f
      BY <2>2, <2>4, <2>7
    <3>. QED BY ONLY <2>1, <2>5, <2>7, <3>1
  <2>8. CASE wire[1].type = "closed"
    <3>1. r = [s EXCEPT !.cli = "drained"]
      BY <2>2, <2>8
    <3>. QED BY ONLY <2>1, <2>3, <2>8, <3>1
  <2>. QED BY <2>6, <2>7, <2>8
<1>4. /\ Halves(sub[i]) /\ Control(wire[1], sub[i])
      /\ \A k \in DOMAIN wire : wire[k].sub = i => Control(wire[k], sub[i])
      /\ \A k \in DOMAIN wire : k # 1 /\ wire[k].sub = i => wire[k].type # wire[1].type
  <2>1. wire[1].type \notin UpdateTypes
    BY DEF UpdateTypes
  <2>. QED BY <1>0, <1>1, <2>1 DEF Joint
<1>5. sub[i].cli \in {"asking", "disposing"} /\ (sub[i].cli = "disposing" <=> wire[1].type = "closed")
  BY <1>4 DEF Control
<1>6. Halves(r)
  BY <1>3, <1>4, <1>5 DEF Halves, Control
<1>7. \A k \in DOMAIN wire : k # 1 /\ wire[k].sub = i => Control(wire[k], r)
  <2>. SUFFICES ASSUME NEW k \in DOMAIN wire, k # 1, wire[k].sub = i PROVE Control(wire[k], r)
    OBVIOUS
  <2>1. Control(wire[k], sub[i]) /\ wire[k].type # wire[1].type
    BY <1>4
  <2>. QED BY <1>3, <1>4, <1>5, <2>1 DEF Control
<1>8. binding.sub # i
  BY <1>0, <1>5 DEF Bound, Continues, Typed, Subs
<1>9. r.tail # <<>> /\ r.rev = binding.rev => binding.sub = i
  BY <1>0, <1>3 DEF Bound
<1>10. r.cli = "open" <=> sub[i].cli = "open"
  BY <1>3, <1>5
<1>11. Streaming(r) => \E lo \in Nat : Has(r, lo) /\ Flows(i, lo, Hi(r))'
  <2>. SUFFICES ASSUME Streaming(r) PROVE \E lo \in Nat : Has(r, lo) /\ Flows(i, lo, Hi(r))'
    OBVIOUS
  <2>1. Streaming(sub[i])
    BY <1>3 DEF Streaming
  <2>2. PICK lo \in Nat : Has(sub[i], lo) /\ Flows(i, lo, Hi(sub[i]))
    BY <1>0, <2>1, StreamOf
  <2>3. Has(r, lo)
    BY <1>3, <1>5, <1>10, <2>2 DEF Has, Behind
  <2>4. PICK hi \in Nat : hi = Hi(sub[i])
    BY <1>0, StreamOf
  <2>5. ~Brings(1, i)
    BY DEF Brings, UpdateTypes
  <2>6. Flows(i, lo, hi)'
    BY <1>1, <2>2, <2>4, <2>5, FlowsShift
  <2>7. Hi(r)' = hi
    BY <1>1, <1>3, <2>4 DEF Hi
  <2>. QED BY <2>3, <2>6, <2>7
<1>12. sub' = [sub EXCEPT ![i] = r] /\ UNCHANGED <<source, had, up, clientVars, changes>>
  BY <1>2
<1>. QED BY ONLY <1>3, <1>6, <1>7, <1>8, <1>9, <1>10, <1>11, <1>12, OneTakes, IInv,
                 wire # <<>>, wire' = Tail(wire), i \in Subs, wire[1].sub = i, r \in Subscriptions

\* An update for one that has stopped listening.
LEMMA StrayKeeps ==
  ASSUME IInv, wire # <<>>, wire' = Tail(wire), UNCHANGED <<source, had, up, clientVars, changes>>,
         NEW i \in Subs, wire[1].sub = i, ~sub[i].listening, sub' = [sub EXCEPT ![i] = sub[i]]
  PROVE  IInv'
<1>0. Typed /\ Ascends /\ Revisions /\ Joint /\ Bound /\ HeldBack /\ Streams /\ Counted
  BY DEF IInv
<1>1. PICK r \in Subscriptions : r = sub[i]
  BY <1>0, SubFields
<1>2. Halves(r) /\ \A k \in DOMAIN wire : k # 1 /\ wire[k].sub = i => Control(wire[k], r)
  BY <1>0, <1>1 DEF Joint
<1>3. binding.sub = i => Continues(r)
  BY <1>0, <1>1 DEF Bound, Typed, Subs
<1>4. r.tail # <<>> /\ r.rev = binding.rev => binding.sub = i
  BY <1>0, <1>1 DEF Bound
<1>5. ~Streaming(r)
  BY <1>1 DEF Streaming
<1>6. sub' = [sub EXCEPT ![i] = r] /\ UNCHANGED <<source, had, up, clientVars, changes>>
  BY <1>1
<1>. QED BY ONLY <1>1, <1>2, <1>3, <1>4, <1>5, <1>6, OneTakes, IInv,
                 wire # <<>>, wire' = Tail(wire), i \in Subs, wire[1].sub = i, r \in Subscriptions

\* An update for one that listens is the next one it lacks.
LEMMA UpdateKeeps ==
  ASSUME IInv, wire # <<>>, wire' = Tail(wire), UNCHANGED <<source, had, up, clientVars, changes>>,
         NEW i \in Subs, wire[1].sub = i, sub[i].listening, wire[1].type \in UpdateTypes,
         sub' = [sub EXCEPT ![i] = IF sub[i].cli = "open" THEN [sub[i] EXCEPT !.tail = Append(@, wire[1])]
                                   ELSE [sub[i] EXCEPT !.queued = Append(@, wire[1])]]
  PROVE  IInv'
<1>0. Typed /\ Ascends /\ Revisions /\ Joint /\ Bound /\ HeldBack /\ Streams /\ Counted
  BY DEF IInv
<1>a. /\ had \in Seq(Pairs) /\ Rises(had) /\ had' = had /\ wire \in Seq(Frames)
      /\ 1 \in DOMAIN wire /\ wire[1] \in Frames
  BY <1>0, TailShifts DEF Typed, Ascends
<1>1. /\ sub[i] \in Subscriptions /\ sub[i].queued \in Seq(Frames) /\ sub[i].tail \in Seq(Frames)
      /\ Len(sub[i].queued) \in Nat /\ Len(sub[i].tail) \in Nat
      /\ sub[i].srv \in Subscribers \cup {"asked", "closed"}
  BY <1>0, SubFields
<1>2. PICK f \in Frames : f = wire[1]
  BY <1>a
<1>3. /\ Append(sub[i].tail, f) \in Seq(Frames) /\ Append(sub[i].queued, f) \in Seq(Frames)
  BY <1>1, AppendLonger
<1>4. PICK r \in Subscriptions : r = IF sub[i].cli = "open" THEN [sub[i] EXCEPT !.tail = Append(@, f)]
                                     ELSE [sub[i] EXCEPT !.queued = Append(@, f)]
  BY <1>1, <1>3 DEF Subscriptions
<1>5. /\ r.srv = sub[i].srv /\ r.rev = sub[i].rev /\ r.cli = sub[i].cli
      /\ r.pending = sub[i].pending /\ r.snap = sub[i].snap /\ r.listening = sub[i].listening
      /\ r.cli = "open" => r.tail = Append(sub[i].tail, f) /\ r.queued = sub[i].queued
      /\ r.cli # "open" => r.queued = Append(sub[i].queued, f) /\ r.tail = sub[i].tail
  BY <1>1, <1>4 DEF Subscriptions
<1>6. /\ Halves(sub[i]) /\ Control(wire[1], sub[i])
      /\ \A k \in DOMAIN wire : wire[k].sub = i => Control(wire[k], sub[i])
  BY <1>0, <1>a DEF Joint
<1>7. sub[i].srv \in Subscribers
  BY <1>1, <1>6 DEF Control
<1>8. PICK hi \in Nat : hi = Hi(sub[i]) /\ hi <= Len(had) /\ Len(had) \in Nat
  BY <1>0, StreamOf
<1>9. PICK lo \in Nat : Has(sub[i], lo) /\ Flows(i, lo, hi)
  BY <1>0, <1>7, <1>8, StreamOf DEF Streaming
<1>10. Carries(f, lo + 1) /\ lo < hi /\ Flows(i, lo + 1, hi)'
  <2>1. Brings(1, i)
    BY <1>a DEF Brings
  <2>. QED BY <1>2, <1>9, <1>a, <2>1, FlowsShift
<1>11. Halves(r)
  BY <1>5, <1>6, <1>7 DEF Halves, Subscribers, Holding
<1>12. \A k \in DOMAIN wire : k # 1 /\ wire[k].sub = i => Control(wire[k], r)
  BY <1>5, <1>6 DEF Control
<1>13. ASSUME NEW q \in Seq(Frames), NEW from \in Nat, Run(q, from), lo = from + Len(q)
       PROVE  /\ Run(Append(q, f), from) /\ from + Len(Append(q, f)) = lo + 1
  <2>1. /\ DOMAIN Append(q, f) = DOMAIN q \cup {Len(q) + 1} /\ Longer(q, Append(q, f)) /\ Len(q) \in Nat
        /\ Append(q, f)[Len(q) + 1] = f /\ Len(Append(q, f)) = Len(q) + 1
    BY AppendLonger
  <2>2. from + (Len(q) + 1) = lo + 1
    BY <1>13, <2>1
  <2>3. ASSUME NEW k \in DOMAIN Append(q, f) PROVE Carries(Append(q, f)[k], from + k)
    <3>1. CASE k \in DOMAIN q
      BY <1>13, <2>1, <3>1 DEF Longer, Run
    <3>2. CASE k = Len(q) + 1
      BY <1>10, <2>1, <2>2, <3>2
    <3>. QED BY <2>1, <3>1, <3>2
  <2>. QED BY <2>1, <2>2, <2>3 DEF Run
<1>16. /\ binding.sub = i => Continues(r)
       /\ r.tail # <<>> /\ r.rev = binding.rev => binding.sub = i
       /\ Has(r, lo + 1)
  <2>1. CASE sub[i].cli = "open"
    <3>1. binding.sub = i /\ Continues(sub[i])
      <4>1. binding.sub = i /\ i # 0
        BY <1>0, <2>1, LenProperties DEF Bound, Typed, Subs
      <4>. QED BY <1>0, <4>1 DEF Bound
    <3>2. PICK b \in Nat : b = Base
      BY <1>0 DEF Base, Typed
    <3>3. lo = b + Len(sub[i].tail) /\ Run(sub[i].tail, b)
      BY <1>9, <2>1, <3>1, <3>2 DEF Has, Continues
    <3>4. Run(r.tail, b) /\ b + Len(r.tail) = lo + 1
      <4>1. r.tail = Append(sub[i].tail, f) /\ sub[i].tail \in Seq(Frames)
        BY <1>1, <1>5, <2>1
      <4>2. Run(Append(sub[i].tail, f), b) /\ b + Len(Append(sub[i].tail, f)) = lo + 1
        BY ONLY <1>13, <3>3, <4>1, b \in Nat
      <4>. QED BY <4>1, <4>2
    <3>5. Continues(r)
      BY <1>5, <1>8, <1>10, <3>1, <3>2, <3>4 DEF Continues
    <3>6. Has(r, lo + 1)
      BY <1>5, <2>1, <3>2, <3>4 DEF Has
    <3>. QED BY <3>1, <3>5, <3>6
  <2>2. CASE sub[i].cli # "open"
    <3>1. PICK p \in DOMAIN had : Behind(sub[i], p) /\ lo = p + Len(sub[i].queued)
      BY <1>9, <2>2 DEF Has
    <3>2. p \in Nat
      BY <1>a, LenProperties
    <3>3. Run(r.queued, p) /\ p + Len(r.queued) = lo + 1
      <4>1. r.queued = Append(sub[i].queued, f) /\ sub[i].queued \in Seq(Frames)
        BY <1>1, <1>5, <2>2
      <4>2. Run(sub[i].queued, p)
        BY <3>1 DEF Behind
      <4>3. Run(Append(sub[i].queued, f), p) /\ p + Len(Append(sub[i].queued, f)) = lo + 1
        BY ONLY <1>13, <3>1, <3>2, <4>1, <4>2
      <4>. QED BY <4>1, <4>3
    <3>4. Behind(r, p)
      BY <1>5, <3>1, <3>3 DEF Behind
    <3>5. Has(r, lo + 1)
      BY <1>5, <2>2, <3>3, <3>4 DEF Has
    <3>6. binding.sub # i
      BY <1>0, <2>2 DEF Bound, Continues, Typed, Subs
    <3>7. r.tail # <<>> /\ r.rev = binding.rev => binding.sub = i
      BY <1>0, <1>5, <2>2 DEF Bound
    <3>. QED BY <3>5, <3>6, <3>7
  <2>. QED BY <2>1, <2>2
<1>17. Hi(r)' = hi
  BY <1>a, <1>5, <1>8 DEF Hi
<1>18. sub' = [sub EXCEPT ![i] = r] /\ UNCHANGED <<source, had, up, clientVars, changes>>
  BY <1>2, <1>4
<1>19. Streaming(r) => \E l \in Nat : Has(r, l) /\ Flows(i, l, Hi(r))'
  BY <1>10, <1>16, <1>17
<1>. QED BY ONLY <1>5, <1>11, <1>12, <1>16, <1>18, <1>19, OneTakes, IInv,
                 wire # <<>>, wire' = Tail(wire), i \in Subs, wire[1].sub = i, r \in Subscriptions

\* The first frame of the wire, whichever it is.
LEMMA ReceiveKeeps ==
  ASSUME IInv, Receive
  PROVE  IInv'
<1>0. Typed /\ Joint
  BY DEF IInv
<1>1. /\ wire # <<>> /\ wire' = Tail(wire) /\ UNCHANGED <<source, had, up, clientVars, changes>>
      /\ sub' = [sub EXCEPT ![Head(wire).sub] = Arrived(@, Head(wire))]
  BY DEF Receive
<1>2. Head(wire) = wire[1] /\ 1 \in DOMAIN wire /\ wire[1] \in Frames
  BY <1>0, <1>1, TailShifts DEF Typed
<1>3. PICK i \in Subs : i = wire[1].sub
  BY <1>0, <1>2 DEF Typed
<1>4. sub' = [sub EXCEPT ![i] = Arrived(sub[i], wire[1])]
  BY <1>0, <1>1, <1>2, <1>3 DEF Typed, Subs
<1>5. CASE wire[1].type \in {"snapshot", "failed", "closed"}
  BY <1>1, <1>3, <1>4, <1>5, AnswerKeeps
<1>6. CASE wire[1].type \notin {"snapshot", "failed", "closed"}
  <2>1. wire[1].type \in UpdateTypes
    BY <1>2, <1>6 DEF Frames
  <2>2. CASE ~sub[i].listening
    <3>1. Arrived(sub[i], wire[1]) = sub[i]
      BY <1>6, <2>1, <2>2 DEF Arrived, UpdateTypes
    <3>. QED BY <1>1, <1>3, <1>4, <2>2, <3>1, StrayKeeps
  <2>3. CASE sub[i].listening
    <3>1. Arrived(sub[i], wire[1]) = IF sub[i].cli = "open" THEN [sub[i] EXCEPT !.tail = Append(@, wire[1])]
                                     ELSE [sub[i] EXCEPT !.queued = Append(@, wire[1])]
      BY <1>6, <2>1, <2>3 DEF Arrived, UpdateTypes
    <3>. QED BY <1>1, <1>3, <1>4, <2>1, <2>3, <3>1, UpdateKeeps
  <2>. QED BY <2>2, <2>3
<1>. QED BY <1>5, <1>6

-----------------------------------------------------------------------------
(***************************************************************************)
(* Steps of the provider alone, of the binding and of the connection.      *)
(***************************************************************************)
LEMMA RestStays ==
  ASSUME IInv, UNCHANGED <<had, wire, sub, binding, view, seen>>, starts' \subseteq starts
  PROVE  /\ Revisions' /\ Bound' /\ HeldBack' /\ Streams'
         /\ up' = up \/ up' => Joint'
<1>0. Revisions /\ Joint /\ Bound /\ HeldBack /\ Streams
  BY DEF IInv
<1>a. UNCHANGED <<had, wire, sub, binding, view, seen>> /\ starts' \subseteq starts
  OBVIOUS
<1>1. Revisions'
  BY <1>0, <1>a DEF Revisions, Subs
<1>2. /\ \A f, p : Carries(f, p)' <=> Carries(f, p)
      /\ \A q, from : Run(q, from)' <=> Run(q, from)
      /\ Base' = Base
  BY <1>a DEF Carries, Run, Base
<1>3. Bound'
  BY <1>0, <1>a, <1>2 DEF Bound, Subs, Continues
<1>4. HeldBack'
  BY <1>0, <1>a, <1>2 DEF HeldBack, Ending, Subs
<1>5. Streams'
  <2>1. \A r, lo : Has(r, lo)' <=> Has(r, lo)
    BY <1>a, <1>2 DEF Has, Behind
  <2>2. \A k, i : Brings(k, i)' <=> Brings(k, i)
    BY <1>a DEF Brings
  <2>3. \A i, lo, hi : Flows(i, lo, hi)' <=> Flows(i, lo, hi)
    BY <1>a, <1>2, <2>2 DEF Flows
  <2>4. \A r : (Hi(r)' = Hi(r)) /\ (Streaming(r)' <=> Streaming(r))
    BY <1>a DEF Hi, Streaming
  <2>. SUFFICES ASSUME NEW i \in Subs, Streaming(sub[i])
                PROVE  \E lo \in Nat : Has(sub[i], lo)' /\ Flows(i, lo, Hi(sub[i]))'
    BY <1>a, <2>4 DEF Streams, Subs
  <2>5. PICK lo \in Nat : Has(sub[i], lo) /\ Flows(i, lo, Hi(sub[i]))
    BY <1>0 DEF Streams
  <2>6. PICK x : x = sub[i] /\ x = sub'[i]
    BY <1>a
  <2>7. Has(x, lo)' /\ Flows(i, lo, Hi(x))'
    BY <2>1, <2>3, <2>4, <2>5, <2>6
  <2>. QED BY <2>6, <2>7
<1>6. up' = up \/ up' => Joint'
  <2>1. /\ \A i \in Subs' : Halves(sub[i])'
        /\ \A k \in DOMAIN wire' : Control(wire[k], sub[wire[k].sub])'
    BY <1>0, <1>a DEF Joint, Halves, Control, Subs
  <2>2. \A j, k \in DOMAIN wire' :
       wire'[j].type \notin UpdateTypes /\ wire'[j].type = wire'[k].type /\ wire'[j].sub = wire'[k].sub
         => j = k
    BY <1>0, <1>a DEF Joint
  <2>. QED BY <1>0, <1>a, <2>1, <2>2 DEF Joint, Subs
<1>. QED BY <1>1, <1>3, <1>4, <1>5, <1>6

\* A change that is not published yet.
LEMMA MutateKeeps ==
  ASSUME IInv, Mutate
  PROVE  IInv'
<1>0. Typed /\ Ascends /\ Counted /\ ~faulty
  BY DEF IInv
<1>a. /\ UNCHANGED <<had, wire, sub, clientVars>> /\ up' = up
      /\ UNCHANGED <<binding, starts, view, seen, faulty>>
      /\ changes < MaxChanges /\ changes' = changes + 1
      /\ source' = [source EXCEPT !.dirty = TRUE]
  BY DEF Mutate, Change, clientVars
<1>1. Revisions' /\ Bound' /\ HeldBack' /\ Streams' /\ Joint'
  BY <1>a, RestStays
<1>2. MaxChanges \in Nat
  BY SubscriptionAssumption
<1>3. source' \in [inst: Nat \ {0}, provided: BOOLEAN, seq: Nat, dirty: BOOLEAN] /\ changes' \in 0..MaxChanges
  <2>1. source' \in [inst: Nat \ {0}, provided: BOOLEAN, seq: Nat, dirty: BOOLEAN]
    BY <1>0, <1>a DEF Typed
  <2>2. changes \in 0..MaxChanges
    BY <1>0 DEF Typed
  <2>. QED BY <1>a, <1>2, <2>1, <2>2
<1>4. Typed'
  BY <1>0, <1>a, <1>3 DEF Typed, Subs
<1>5. Counted'
  BY <1>0, <1>a, <1>2 DEF Counted, Typed
<1>6. Ascends'
  BY <1>0, <1>a DEF Ascends, Value, Typed
<1>. QED BY <1>0, <1>a, <1>1, <1>4, <1>5, <1>6 DEF IInv

\* A new connection: nothing is in transit on it.
LEMMA ReconnectKeeps ==
  ASSUME IInv, Reconnect
  PROVE  IInv'
<1>0. Typed /\ Ascends /\ Counted /\ ~faulty
  BY DEF IInv
<1>a. /\ UNCHANGED <<had, wire, sub, clientVars>> /\ up' = TRUE
      /\ UNCHANGED <<source, binding, starts, view, seen, faulty, changes>>
  BY DEF Reconnect, clientVars
<1>1. Revisions' /\ Bound' /\ HeldBack' /\ Streams' /\ Joint'
  BY <1>a, RestStays
<1>4. Typed'
  BY <1>0, <1>a DEF Typed, Subs
<1>5. Counted' /\ Ascends'
  BY <1>0, <1>a DEF Counted, Ascends, Value
<1>. QED BY <1>0, <1>a, <1>1, <1>4, <1>5 DEF IInv

\* The subscription that a start asks for is the only one of its revision.
LEMMA AskKeeps ==
  ASSUME IInv, up, NEW t \in starts, starts' = starts \ {t}, sub' = Append(sub, NewSub(t.rev)),
         UNCHANGED <<source, had, up, wire, binding, view, seen, faulty, changes>>
  PROVE  IInv'
<1>0. Typed /\ Ascends /\ Revisions /\ Joint /\ Bound /\ HeldBack /\ Streams /\ Counted /\ ~faulty
  BY DEF IInv
<1>b. t.rev \in Nat /\ sub \in Seq(Subscriptions) /\ <<>> \in Seq(Frames) /\ had \in Seq(Pairs)
  BY <1>0, EmptySeq DEF Typed
<1>1. PICK r \in Subscriptions : r = NewSub(t.rev)
  BY <1>b DEF NewSub, Subscriptions, Pairs
<1>2. /\ r.rev = t.rev /\ r.srv = "asked" /\ r.pending = <<>> /\ r.cli = "asking" /\ r.listening
      /\ r.queued = <<>> /\ r.tail = <<>>
  BY <1>1 DEF NewSub
<1>3. PICK n \in Nat : /\ sub' \in Seq(Subscriptions) /\ Subs' = Subs \cup {n} /\ n \notin Subs /\ n # 0
                       /\ sub'[n] = r /\ \A j \in Subs : sub'[j] = sub[j]
  <2>1. /\ sub' \in Seq(Subscriptions) /\ Longer(sub, sub') /\ Len(sub) \in Nat
        /\ DOMAIN sub' = DOMAIN sub \cup {Len(sub) + 1} /\ Len(sub) + 1 \notin DOMAIN sub
        /\ sub'[Len(sub) + 1] = r
    BY <1>b, <1>1, AppendLonger
  <2>. QED BY <2>1 DEF Subs, Longer
<1>4. Typed'
  <2>1. binding' \in [rev: Nat, bound: BOOLEAN, sub: Subs' \cup {0}]
    BY <1>0, <1>3 DEF Typed
  <2>2. starts' \subseteq [rev: Nat, after: Subs' \cup {0}]
    BY <1>0, <1>3 DEF Typed
  <2>. QED BY <1>0, <1>3, <2>1, <2>2 DEF Typed
<1>5. Counted' /\ Ascends'
  BY <1>0 DEF Counted, Ascends, Value
<1>6. Revisions'
  <2>1. \A j \in Subs : sub'[j].rev # t.rev
    BY <1>0, <1>3 DEF Revisions
  <2>2. t.rev <= binding.rev
    BY <1>0 DEF Revisions
  <2>3. \A s \in starts' : s.rev # t.rev
    BY <1>0 DEF Revisions
  <2>4. \A j \in Subs' : sub'[j].rev <= binding.rev
    BY <1>0, <1>2, <1>3, <2>2 DEF Revisions
  <2>5. \A i, j \in Subs' : sub'[i].rev = sub'[j].rev => i = j
    <3>1. \A i, j \in Subs : sub[i].rev = sub[j].rev => i = j
      BY <1>0 DEF Revisions
    <3>2. \A i \in Subs : sub'[i].rev = sub[i].rev
      BY <1>3
    <3>3. sub'[n].rev = t.rev /\ Subs' = Subs \cup {n}
      BY <1>2, <1>3
    <3>. QED BY ONLY <2>1, <3>1, <3>2, <3>3
  <2>6. \A s \in starts' : s.rev <= binding.rev /\ \A j \in Subs' : sub'[j].rev # s.rev
    <3>1. \A s \in starts' : s.rev <= binding.rev /\ \A j \in Subs : sub[j].rev # s.rev
      BY <1>0 DEF Revisions
    <3>2. \A i \in Subs : sub'[i].rev = sub[i].rev
      BY <1>3
    <3>3. sub'[n].rev = t.rev /\ Subs' = Subs \cup {n}
      BY <1>2, <1>3
    <3>4. starts' \subseteq starts
      OBVIOUS
    <3>. QED BY ONLY <2>3, <3>1, <3>2, <3>3, <3>4
  <2>7. \A s, u \in starts' : s.rev = u.rev => s = u
    BY <1>0 DEF Revisions
  <2>. QED BY <2>4, <2>5, <2>6, <2>7 DEF Revisions
<1>7. Joint'
  <2>1. Halves(r)
    BY <1>2 DEF Halves
  <2>2. \A j \in Subs' : Halves(sub'[j])
    BY <1>0, <1>3, <2>1 DEF Joint
  <2>3. \A k \in DOMAIN wire' : Control(wire'[k], sub'[wire'[k].sub])
    BY <1>0, <1>3 DEF Joint, Typed
  <2>4. /\ \A j \in Subs' : Halves(sub[j])'
        /\ \A k \in DOMAIN wire' : Control(wire[k], sub[wire[k].sub])'
    <3>1. \A j \in Subs' : Halves(sub[j])'
      BY ONLY <2>2 DEF Halves
    <3>2. \A k \in DOMAIN wire' : Control(wire[k], sub[wire[k].sub])'
      BY ONLY <2>3 DEF Control
    <3>. QED BY ONLY <3>1, <3>2
  <2>5. \A j, k \in DOMAIN wire' :
          wire'[j].type \notin UpdateTypes /\ wire'[j].type = wire'[k].type /\ wire'[j].sub = wire'[k].sub
            => j = k
    BY <1>0 DEF Joint
  <2>6. up'
    OBVIOUS
  <2>. QED BY ONLY <2>4, <2>5, <2>6 DEF Joint
<1>8. /\ \A f, p : Carries(f, p)' <=> Carries(f, p)
      /\ \A q, from : Run(q, from)' <=> Run(q, from)
      /\ Base' = Base
  BY DEF Carries, Run, Base
<1>9. Bound'
  <2>1. binding.sub # 0 => binding.sub \in Subs
    BY <1>0 DEF Typed
  <2>2. \A x : Continues(x)' <=> Continues(x)
    BY <1>8 DEF Continues
  <2>a. /\ \A j \in Subs : sub[j].cli = "open" => binding.sub = j
        /\ \A j \in Subs : sub[j].tail # <<>> /\ sub[j].rev = binding.rev => binding.sub = j
    BY <1>0 DEF Bound
  <2>3. \A j \in Subs' : sub'[j].cli = "open" => binding.sub = j
    BY ONLY <1>2, <1>3, <2>a
  <2>4. \A j \in Subs' : sub'[j].tail # <<>> /\ sub'[j].rev = binding.rev => binding.sub = j
    BY ONLY <1>2, <1>3, <2>a
  <2>5. IF binding.sub = 0 THEN view = Cold ELSE Continues(sub'[binding.sub])
    BY <1>0, <1>3, <2>1 DEF Bound
  <2>6. PICK x : x = sub'[binding.sub]
    OBVIOUS
  <2>7. IF binding.sub = 0 THEN view = Cold ELSE Continues(x)'
    BY <2>2, <2>5, <2>6
  <2>. QED BY <1>0, <2>3, <2>4, <2>6, <2>7 DEF Bound
<1>10. HeldBack'
  <2>1. Len(<<>>) = 0 /\ Len(had) # 0 /\ Len(had) \in Nat /\ DOMAIN <<>> = {}
    BY <1>0, <1>b, EmptySeq, LenProperties DEF Ascends
  <2>2. Ending(<<>>)
    BY <2>1 DEF Ending, Run
  <2>3. \A j \in Subs' : Ending(sub'[j].pending)
    BY <1>0, <1>2, <1>3, <2>2 DEF HeldBack
  <2>4. \A q : Ending(q)' <=> Ending(q)
    BY <1>8 DEF Ending
  <2>5. ASSUME NEW j \in Subs' PROVE Ending(sub[j].pending)'
    <3>1. PICK q : q = sub'[j].pending /\ Ending(q)
      BY <2>3
    <3>. QED BY <2>4, <3>1
  <2>. QED BY <2>5 DEF HeldBack
<1>11. Streams'
  <2>. SUFFICES ASSUME NEW j \in Subs', Streaming(sub[j])'
                PROVE  (\E lo \in Nat : Has(sub[j], lo) /\ Flows(j, lo, Hi(sub[j])))'
    BY DEF Streams
  <2>1. PICK x : x = sub'[j] /\ Streaming(x)
    BY DEF Streaming
  <2>2. j \in Subs /\ x = sub[j]
    BY <1>2, <1>3, <2>1 DEF Streaming, Subscribers, Holding
  <2>3. PICK lo \in Nat : Has(x, lo) /\ Flows(j, lo, Hi(x))
    BY <1>0, <2>1, <2>2 DEF Streams
  <2>4. Has(x, lo)'
    BY <1>8, <2>3 DEF Has, Behind
  <2>5. \A k, i : Brings(k, i)' <=> Brings(k, i)
    BY DEF Brings
  <2>6. Flows(j, lo, Hi(x))'
    BY <1>8, <2>3, <2>5 DEF Flows, Hi
  <2>. QED BY <2>1, <2>4, <2>6
<1>. QED BY <1>0, <1>4, <1>5, <1>6, <1>7, <1>9, <1>10, <1>11 DEF IInv

\* A start asks for its subscription, or fails.
LEMMA StartKeeps ==
  ASSUME IInv, NEW t, Start(t)
  PROVE  IInv'
<1>0. Typed /\ Ascends /\ Counted /\ ~faulty
  BY DEF IInv
<1>1. /\ UNCHANGED <<source, had, up, wire, binding, view, seen, faulty, changes>>
      /\ starts' = starts \ {t} /\ t \in starts
      /\ \/ sub' = sub
         \/ up /\ sub' = Append(sub, NewSub(t.rev))
  BY DEF Start
<1>2. CASE sub' = sub
  <2>1. Revisions' /\ Bound' /\ HeldBack' /\ Streams' /\ Joint'
    BY <1>1, <1>2, RestStays
  <2>2. Typed'
    BY <1>0, <1>1, <1>2 DEF Typed, Subs
  <2>3. Counted' /\ Ascends'
    BY <1>0, <1>1 DEF Counted, Ascends, Value
  <2>. QED BY <1>0, <1>1, <2>1, <2>2, <2>3 DEF IInv
<1>3. CASE up /\ sub' = Append(sub, NewSub(t.rev))
  BY <1>1, <1>3, AskKeeps
<1>. QED BY <1>1, <1>2, <1>3

\* The view is cleared, and what was bound is let go.
LEMMA RebindKeeps ==
  ASSUME IInv, NEW b \in BOOLEAN, Rebind(b)
  PROVE  IInv'
<1>0. Typed /\ Ascends /\ Revisions /\ Joint /\ Bound /\ HeldBack /\ Streams /\ Counted /\ ~faulty
  BY DEF IInv
<1>1. PICK old \in Subs \cup {0} : old = binding.sub
  BY <1>0 DEF Typed
<1>2. /\ binding' = [rev |-> binding.rev + 1, bound |-> b, sub |-> 0] /\ view' = Cold
      /\ sub' = IF old = 0 THEN sub ELSE [sub EXCEPT ![old] = Dispose(@)]
      /\ starts' = IF b THEN starts \cup {[rev |-> binding.rev + 1, after |-> old]} ELSE starts
      /\ UNCHANGED <<source, had, up, wire, seen, faulty, changes>>
  BY <1>1 DEF Rebind
<1>3. sub \in Seq(Subscriptions) /\ wire \in Seq(Frames) /\ binding.rev \in Nat /\ 0 \notin Subs
  BY <1>0, LenProperties DEF Typed, Subs
<1>4. /\ sub' \in Seq(Subscriptions) /\ Subs' = Subs
      /\ \A j \in Subs : j # old => sub'[j] = sub[j]
      /\ old # 0 => /\ sub'[old].rev = sub[old].rev /\ sub'[old].srv = sub[old].srv
                    /\ sub'[old].pending = sub[old].pending /\ sub'[old].tail = sub[old].tail
                    /\ sub'[old].queued = sub[old].queued /\ ~sub'[old].listening
                    /\ sub'[old].cli \in {"disposing", "drained"}
  <2>1. CASE old = 0
    BY <1>2, <1>3, <2>1 DEF Subs
  <2>2. CASE old # 0
    <3>1. sub[old] \in Subscriptions
      BY <1>0, <2>2, SubFields
    <3>2. PICK r \in Subscriptions : r = Dispose(sub[old])
      BY <3>1 DEF Subscriptions, Dispose
    <3>3. sub' = [sub EXCEPT ![old] = r]
      BY <1>2, <2>2, <3>2
    <3>4. /\ sub' \in Seq(Subscriptions) /\ Subs' = Subs /\ sub'[old] = r
          /\ \A j \in Subs : j # old => sub'[j] = sub[j]
      BY <1>3, <2>2, <3>3, Replaced
    <3>5. /\ r.rev = sub[old].rev /\ r.srv = sub[old].srv
          /\ r.pending = sub[old].pending /\ r.tail = sub[old].tail
          /\ r.queued = sub[old].queued /\ ~r.listening
          /\ r.cli \in {"disposing", "drained"}
      BY <3>1, <3>2 DEF Subscriptions, Dispose
    <3>. QED BY <3>4, <3>5
  <2>. QED BY <2>1, <2>2
<1>5. \A j \in Subs : /\ sub'[j].rev = sub[j].rev /\ sub'[j].srv = sub[j].srv
                      /\ sub'[j].pending = sub[j].pending /\ sub'[j].tail = sub[j].tail
                      /\ sub'[j].queued = sub[j].queued
  BY <1>3, <1>4
<1>6. /\ old # 0 => sub[old].cli = "open"
      /\ \A j \in Subs : j # old => sub[j].cli # "open"
  BY <1>0, <1>1 DEF Bound, Continues
<1>7. Typed'
  <2>1. binding' \in [rev: Nat, bound: BOOLEAN, sub: Subs \cup {0}]
    BY <1>2, <1>3
  <2>2. starts' \subseteq [rev: Nat, after: Subs \cup {0}]
    <3>1. [rev |-> binding.rev + 1, after |-> old] \in [rev: Nat, after: Subs \cup {0}]
      BY <1>3
    <3>. QED BY <1>0, <1>2, <3>1 DEF Typed
  <2>3. view' \in [seq: Nat, val: Pairs]
    BY <1>2 DEF Cold, Pairs
  <2>. QED BY <1>0, <1>2, <1>4, <2>1, <2>2, <2>3 DEF Typed
<1>8. Counted' /\ Ascends'
  BY <1>0, <1>2 DEF Counted, Ascends, Value
<1>9. Revisions'
  <2>0. binding'.rev = binding.rev + 1
    BY <1>2
  <2>a. \A j \in Subs : sub[j].rev \in Nat /\ sub[j].rev <= binding.rev
    BY <1>0, SubFields DEF Revisions
  <2>b. \A s \in starts : s.rev \in Nat /\ s.rev <= binding.rev
    BY <1>0 DEF Revisions, Typed
  <2>1. \A j \in Subs : sub'[j].rev <= binding.rev + 1 /\ sub'[j].rev # binding.rev + 1
    BY <1>3, <1>5, <2>a
  <2>2. \A i, j \in Subs : sub'[i].rev = sub'[j].rev => i = j
    <3>1. \A i, j \in Subs : sub[i].rev = sub[j].rev => i = j
      BY <1>0 DEF Revisions
    <3>. QED BY <1>5, <3>1
  <2>3. \A s \in starts : s.rev <= binding.rev + 1 /\ s.rev # binding.rev + 1 /\ \A j \in Subs : sub'[j].rev # s.rev
    <3>1. \A s \in starts : \A j \in Subs : sub[j].rev # s.rev
      BY <1>0 DEF Revisions
    <3>. QED BY <1>3, <1>5, <2>b, <3>1
  <2>4. PICK s : s = [rev |-> binding.rev + 1, after |-> old] /\ s.rev = binding.rev + 1
    <3>1. [rev |-> binding.rev + 1, after |-> old].rev = binding.rev + 1
      OBVIOUS
    <3>. QED BY <3>1
  <2>5. starts' \subseteq starts \cup {s}
    BY <1>2, <2>4
  <2>6. \A t, u \in starts : t.rev = u.rev => t = u
    BY <1>0 DEF Revisions
  <2>7. \A t, u \in starts' : t.rev = u.rev => t = u
    BY <2>3, <2>4, <2>5, <2>6
  <2>8. \A t \in starts' : t.rev <= binding.rev + 1 /\ \A j \in Subs : sub'[j].rev # t.rev
    BY <1>3, <2>1, <2>3, <2>4, <2>5
  <2>. QED BY <1>4, <2>0, <2>1, <2>2, <2>7, <2>8 DEF Revisions
<1>10. Joint'
  <2>1. \A j \in Subs : Halves(sub'[j])
    <3>. SUFFICES ASSUME NEW j \in Subs PROVE Halves(sub'[j])
      OBVIOUS
    <3>1. Halves(sub[j])
      BY <1>0 DEF Joint
    <3>2. CASE j # old
      BY <1>4, <3>1, <3>2
    <3>3. CASE j = old
      BY <1>3, <1>4, <1>6, <3>1, <3>3 DEF Halves
    <3>. QED BY <3>2, <3>3
  <2>2. ASSUME NEW k \in DOMAIN wire PROVE Control(wire[k], sub'[wire[k].sub])
    <3>1. wire[k].sub \in Subs /\ Control(wire[k], sub[wire[k].sub])
      BY <1>0 DEF Joint, Typed
    <3>2. CASE wire[k].sub # old
      BY <1>4, <3>1, <3>2
    <3>3. CASE wire[k].sub = old
      <4>1. PICK x, y : x = sub[old] /\ y = sub'[old]
        OBVIOUS
      <4>2. Control(wire[k], x) /\ x.cli = "open" /\ y.srv = x.srv /\ ~y.listening
        BY <1>3, <1>4, <1>6, <3>1, <3>3, <4>1
      <4>3. Control(wire[k], y)
        BY <4>2 DEF Control
      <4>. QED BY <3>3, <4>1, <4>3
    <3>. QED BY <3>2, <3>3
  <2>3. /\ \A j \in Subs' : Halves(sub[j])'
        /\ \A k \in DOMAIN wire' : Control(wire[k], sub[wire[k].sub])'
    BY <1>2, <1>4, <2>1, <2>2 DEF Halves, Control
  <2>4. /\ \A j, k \in DOMAIN wire' :
             wire'[j].type \notin UpdateTypes /\ wire'[j].type = wire'[k].type /\ wire'[j].sub = wire'[k].sub
               => j = k
        /\ ~up' => wire' = <<>> /\ \A j \in Subs : sub'[j].srv = "closed"
    BY <1>0, <1>2, <1>5 DEF Joint
  <2>. QED BY <1>4, <2>3, <2>4 DEF Joint
<1>11. Bound'
  <2>1. \A j \in Subs : sub'[j].cli # "open"
    BY <1>3, <1>4, <1>6
  <2>2. \A j \in Subs : sub'[j].rev # binding'.rev
    <3>1. \A j \in Subs : sub[j].rev \in Nat /\ sub[j].rev <= binding.rev
      BY <1>0, SubFields DEF Revisions
    <3>. QED BY <1>2, <1>3, <1>5, <3>1
  <2>. QED BY <1>0, <1>2, <1>4, <2>1, <2>2 DEF Bound
<1>12. /\ \A f, p : Carries(f, p)' <=> Carries(f, p)
      /\ \A q, from : Run(q, from)' <=> Run(q, from)
  BY <1>2 DEF Carries, Run
<1>13. HeldBack'
  <2>1. \A q : Ending(q)' <=> Ending(q)
    BY <1>2, <1>12 DEF Ending
  <2>2. ASSUME NEW j \in Subs PROVE Ending(sub[j].pending)'
    <3>1. PICK q : q = sub'[j].pending /\ Ending(q)
      BY <1>0, <1>5 DEF HeldBack
    <3>. QED BY <2>1, <3>1
  <2>. QED BY <1>4, <2>2 DEF HeldBack
<1>14. Streams'
  <2>. SUFFICES ASSUME NEW j \in Subs, Streaming(sub[j])'
                PROVE  (\E lo \in Nat : Has(sub[j], lo) /\ Flows(j, lo, Hi(sub[j])))'
    BY <1>4 DEF Streams
  <2>1. PICK x : x = sub'[j] /\ Streaming(x)
    BY DEF Streaming
  <2>2. x = sub[j] /\ x.cli # "open"
    BY <1>3, <1>4, <1>6, <2>1 DEF Streaming
  <2>3. PICK lo \in Nat : Has(x, lo) /\ Flows(j, lo, Hi(x))
    BY <1>0, <2>1, <2>2 DEF Streams
  <2>a. x.rev # binding'.rev
    <3>1. sub[j].rev \in Nat /\ sub[j].rev <= binding.rev
      BY <1>0, SubFields DEF Revisions
    <3>. QED BY <1>2, <1>3, <2>2, <3>1
  <2>4. Has(x, lo)'
    BY <1>2, <1>12, <2>2, <2>3, <2>a DEF Has, Behind
  <2>5. \A k, i : Brings(k, i)' <=> Brings(k, i)
    BY <1>2 DEF Brings
  <2>6. Flows(j, lo, Hi(x))'
    BY <1>2, <1>12, <2>3, <2>5 DEF Flows, Hi
  <2>. QED BY <2>1, <2>4, <2>6
<1>. QED BY <1>0, <1>2, <1>7, <1>8, <1>9, <1>10, <1>11, <1>13, <1>14 DEF IInv

\* The connection is lost: both halves learn of it.
LEMMA DropKeeps ==
  ASSUME IInv, Drop
  PROVE  IInv'
<1>0. Typed /\ Ascends /\ Revisions /\ Joint /\ Bound /\ HeldBack /\ Streams /\ Counted /\ ~faulty
  BY DEF IInv
<1>1. /\ up' = FALSE /\ wire' = <<>> /\ sub' = [i \in Subs |-> Cut(sub[i])]
      /\ UNCHANGED <<source, had, binding, starts, view, seen, faulty, changes>>
  BY DEF Drop, clientVars
<1>2. /\ sub \in Seq(Subscriptions) /\ Subs = 1..Len(sub) /\ Len(sub) \in Nat /\ had \in Seq(Pairs)
      /\ \A j \in Subs : sub[j] \in Subscriptions
  BY <1>0, SubFields, LenProperties DEF Typed, Subs
<1>3. \A j \in Subs : Cut(sub[j]) \in Subscriptions
  <2>. SUFFICES ASSUME NEW j \in Subs PROVE Cut(sub[j]) \in Subscriptions
    OBVIOUS
  <2>1. PICK r \in Subscriptions : r = sub[j]
    BY <1>2
  <2>2. <<>> \in Seq(Frames)
    BY EmptySeq
  <2>3. Cut(r) \in Subscriptions
    BY <2>2 DEF Subscriptions, Cut, Closed
  <2>. QED BY <2>1, <2>3
<1>4. Subs' = Subs /\ sub' \in Seq(Subscriptions) /\ \A j \in Subs : sub'[j] = Cut(sub[j])
  <2>1. sub' \in [1..Len(sub) -> Subscriptions]
    BY <1>1, <1>2, <1>3
  <2>2. sub' \in Seq(Subscriptions)
    BY <1>2, <2>1, SeqDef
  <2>. QED BY <1>1, <2>2 DEF Subs
<1>5. ASSUME NEW j \in Subs
      PROVE  /\ sub'[j].rev = sub[j].rev /\ sub'[j].srv = "closed" /\ sub'[j].pending = <<>>
             /\ sub'[j].tail = sub[j].tail /\ ~sub'[j].listening
             /\ sub'[j].cli \notin {"asking", "disposing"}
             /\ sub'[j].cli = "answered" => sub[j].cli = "answered"
             /\ sub'[j].cli = "open" <=> sub[j].cli = "open"
  <2>1. PICK r \in Subscriptions : r = sub[j] /\ sub'[j] = Cut(r)
    BY <1>2, <1>4
  <2>2. /\ Cut(r).rev = r.rev /\ Cut(r).srv = "closed" /\ Cut(r).pending = <<>>
        /\ Cut(r).tail = r.tail /\ ~Cut(r).listening
        /\ Cut(r).cli = CASE r.cli = "asking" -> "gone" [] r.cli = "disposing" -> "failed" [] OTHER -> r.cli
    BY DEF Cut, Closed, Subscriptions
  <2>. QED BY <2>1, <2>2
<1>6. Typed'
  <2>1. wire' \in Seq(Frames) /\ DOMAIN wire' = {}
    BY <1>1, EmptySeq
  <2>. QED BY <1>0, <1>1, <1>4, <2>1 DEF Typed
<1>7. Counted' /\ Ascends'
  BY <1>0, <1>1 DEF Counted, Ascends, Value
<1>8. Revisions'
  BY <1>0, <1>1, <1>4, <1>5 DEF Revisions
<1>9. Joint'
  <2>1. DOMAIN wire' = {}
    BY <1>1, EmptySeq
  <2>2. ASSUME NEW j \in Subs PROVE Halves(sub'[j])
    <3>1. sub[j].cli = "answered" => sub[j].tail = <<>>
      BY <1>0 DEF Joint, Halves
    <3>2. PICK x : x = sub'[j]
      OBVIOUS
    <3>3. /\ x.srv = "closed" /\ x.pending = <<>> /\ ~x.listening /\ x.cli \notin {"asking", "disposing"}
          /\ x.cli = "answered" => x.tail = <<>>
      BY <1>5, <3>1, <3>2
    <3>4. Halves(x)
      BY <3>3 DEF Halves
    <3>. QED BY <3>2, <3>4
  <2>3. \A j \in Subs' : Halves(sub[j])'
    BY <1>4, <2>2 DEF Halves
  <2>. QED BY <1>1, <1>4, <1>5, <2>1, <2>3 DEF Joint
<1>10. /\ \A f, p : Carries(f, p)' <=> Carries(f, p)
       /\ \A q, from : Run(q, from)' <=> Run(q, from)
       /\ Base' = Base
  BY <1>1 DEF Carries, Run, Base
<1>11. Bound'
  <2>1. \A j \in Subs : /\ sub'[j].cli = "open" => binding.sub = j
                        /\ sub'[j].tail # <<>> /\ sub'[j].rev = binding.rev => binding.sub = j
    BY <1>0, <1>5 DEF Bound
  <2>2. CASE binding.sub = 0
    BY <1>0, <1>1, <1>4, <2>1, <2>2 DEF Bound
  <2>3. CASE binding.sub # 0
    <3>1. binding.sub \in Subs /\ Continues(sub[binding.sub])
      BY <1>0, <2>3 DEF Bound, Typed
    <3>2. PICK x, y : x = sub[binding.sub] /\ y = sub'[binding.sub]
      OBVIOUS
    <3>3. Continues(x) /\ y.cli = "open" /\ y.rev = x.rev /\ y.tail = x.tail
      BY <1>5, <3>1, <3>2 DEF Continues
    <3>4. Continues(y)'
      BY <1>1, <1>10, <3>3 DEF Continues
    <3>. QED BY <1>0, <1>1, <1>4, <2>1, <2>3, <3>2, <3>4 DEF Bound
  <2>. QED BY <2>2, <2>3
<1>12. HeldBack'
  <2>1. Len(<<>>) = 0 /\ Len(had) # 0 /\ Len(had) \in Nat /\ DOMAIN <<>> = {}
    BY <1>0, <1>2, EmptySeq, LenProperties DEF Ascends
  <2>2. Ending(<<>>)'
    BY <1>1, <2>1 DEF Ending, Run
  <2>. QED BY <1>4, <1>5, <2>2 DEF HeldBack
<1>13. Streams'
  BY <1>4, <1>5 DEF Streams, Streaming
<1>. QED BY <1>0, <1>1, <1>6, <1>7, <1>8, <1>9, <1>11, <1>12, <1>13 DEF IInv

-----------------------------------------------------------------------------
(***************************************************************************)
(* What the provider publishes.                                            *)
(***************************************************************************)
\* One frame for each subscription that is ready, and no other.
LEMMA Sends ==
  ASSUME Typed, NEW u \in Frames, Send(u)
  PROVE  /\ wire' \in Seq(Frames) /\ Longer(wire, wire')
         /\ \A n \in DOMAIN wire' : n \notin DOMAIN wire =>
              /\ up /\ wire'[n].type = u.type /\ wire'[n].val = u.val
              /\ wire'[n].sub \in Subs /\ sub[wire'[n].sub].srv = "ready"
         /\ \A i \in Subs : up /\ sub[i].srv = "ready" =>
              \E n \in DOMAIN wire' :
                /\ n \notin DOMAIN wire /\ wire'[n].sub = i
                /\ \A m \in DOMAIN wire' : m \notin DOMAIN wire /\ wire'[m].sub = i => m = n
<1>1. PICK S : S = {i \in Subs : up /\ sub[i].srv \in Subscribers \ Holding}
  OBVIOUS
<1>2. Subs \subseteq Nat /\ IsFiniteSet(Subs)
  <2>1. Subs = 1..Len(sub) /\ Len(sub) \in Nat
    BY LenProperties DEF Typed, Subs
  <2>. QED BY <2>1, FS_Interval
<1>3. S \subseteq Subs /\ \A i \in Subs : i \in S <=> up /\ sub[i].srv = "ready"
  BY <1>1, SubFields DEF Subscribers, Holding
<1>4. PICK c \in Nat : c = Cardinality(S)
  BY <1>2, <1>3, FS_Subset, FS_CardinalityType
<1>5. PICK to \in InOrder(S) : wire' = wire \o [k \in DOMAIN to |-> [u EXCEPT !.sub = to[k]]]
  BY <1>1 DEF Send
<1>6. /\ to \in [1..c -> S] /\ \A i \in S : \E k \in 1..c : to[k] = i
      /\ \A j, k \in 1..c : to[j] = to[k] => j = k
  <2>1. to \in Bijection(1..c, S)
    BY <1>4 DEF InOrder
  <2>. QED BY <2>1 DEF Bijection, Injection, Surjection, IsInjective
<1>7. PICK q \in Seq(Frames) : /\ q = [k \in DOMAIN to |-> [u EXCEPT !.sub = to[k]]]
                               /\ DOMAIN q = 1..c
                               /\ \A k \in 1..c : q[k].sub = to[k] /\ q[k].type = u.type /\ q[k].val = u.val
  <2>1. PICK q : q = [k \in 1..c |-> [u EXCEPT !.sub = to[k]]]
    OBVIOUS
  <2>2. \A k \in 1..c : /\ [u EXCEPT !.sub = to[k]] \in Frames
                        /\ [u EXCEPT !.sub = to[k]].sub = to[k]
                        /\ [u EXCEPT !.sub = to[k]].type = u.type
                        /\ [u EXCEPT !.sub = to[k]].val = u.val
    BY <1>2, <1>3, <1>6 DEF Frames
  <2>3. q \in [1..c -> Frames]
    BY <2>1, <2>2
  <2>4. q \in Seq(Frames)
    BY <2>3, SeqDef
  <2>5. DOMAIN to = 1..c
    BY <1>6
  <2>. QED BY <2>1, <2>2, <2>4, <2>5
<1>8. wire \in Seq(Frames) /\ wire' = wire \o q
  BY <1>5, <1>7 DEF Typed
<1>9. /\ wire' \in Seq(Frames) /\ Longer(wire, wire') /\ Len(wire) \in Nat
      /\ \A k \in DOMAIN q : /\ Len(wire) + k \in DOMAIN wire' /\ Len(wire) + k \notin DOMAIN wire
                             /\ wire'[Len(wire) + k] = q[k] /\ k \in Nat
      /\ \A k \in DOMAIN wire' : k \notin DOMAIN wire => k \in Nat /\ k - Len(wire) \in DOMAIN q
  BY <1>8, ConcatLonger
<1>10. \A n \in DOMAIN wire' : n \notin DOMAIN wire =>
         \E k \in 1..c : n = Len(wire) + k /\ wire'[n] = q[k]
  <2>. SUFFICES ASSUME NEW n \in DOMAIN wire', n \notin DOMAIN wire
                PROVE  \E k \in 1..c : n = Len(wire) + k /\ wire'[n] = q[k]
    OBVIOUS
  <2>1. PICK k \in 1..c : k = n - Len(wire)
    BY <1>7, <1>9
  <2>2. n = Len(wire) + k
    BY <1>9, <2>1
  <2>. QED BY <1>7, <1>9, <2>2
<1>11. ASSUME NEW n \in DOMAIN wire', n \notin DOMAIN wire
       PROVE  /\ up /\ wire'[n].type = u.type /\ wire'[n].val = u.val
              /\ wire'[n].sub \in Subs /\ sub[wire'[n].sub].srv = "ready"
  <2>1. PICK k \in 1..c : wire'[n] = q[k]
    BY <1>10, <1>11
  <2>2. to[k] \in S /\ wire'[n].sub = to[k]
    BY <1>6, <1>7, <2>1
  <2>. QED BY <1>3, <1>7, <2>1, <2>2
<1>12. ASSUME NEW i \in Subs, up, sub[i].srv = "ready"
       PROVE  \E n \in DOMAIN wire' :
                /\ n \notin DOMAIN wire /\ wire'[n].sub = i
                /\ \A m \in DOMAIN wire' : m \notin DOMAIN wire /\ wire'[m].sub = i => m = n
  <2>1. PICK k \in 1..c : to[k] = i
    BY <1>3, <1>6, <1>12
  <2>2. PICK n : n = Len(wire) + k
    OBVIOUS
  <2>3. n \in DOMAIN wire' /\ n \notin DOMAIN wire /\ wire'[n].sub = i
    BY <1>7, <1>9, <2>1, <2>2
  <2>4. ASSUME NEW m \in DOMAIN wire', m \notin DOMAIN wire, wire'[m].sub = i
        PROVE  m = n
    <3>1. PICK j \in 1..c : m = Len(wire) + j /\ wire'[m] = q[j]
      BY <1>10, <2>4
    <3>2. to[j] = i
      BY <1>7, <2>4, <3>1
    <3>. QED BY <1>6, <2>1, <2>2, <3>1, <3>2
  <2>. QED BY <2>3, <2>4
<1>. QED BY <1>9, <1>11, <1>12

\* What a value must be to be published after the history there is.
Follows(v) ==
  /\ v[1] # 0 /\ v[2] <= Withdrawn /\ Before(had[Len(had)], v)
  /\ v[2] = Withdrawn => had[Len(had)][1] = v[1]
  /\ v[2] \notin {0, Withdrawn} => had[Len(had)] = <<v[1], v[2] - 1>>

\* What publishing `v` as the update `u` makes of the subscriptions, `a` being
\* the one that is made to subscribe.
Receivers(v, u, a) ==
  /\ a \in Subs => sub[a].srv = "asked" /\ v[2] # Withdrawn
  /\ sub' \in Seq(Subscriptions) /\ Subs' = Subs
  /\ \A j \in Subs : sub'[j] = IF j = a THEN [sub[j] EXCEPT !.srv = "subscribed", !.snap = v]
                               ELSE IF sub[j].srv \in Holding
                                 THEN [sub[j] EXCEPT !.pending = Append(@, u)] ELSE sub[j]

Emission(v, u, a) ==
  /\ v \in Pairs /\ u \in Frames /\ u.type = Kind(v) /\ u.val = v /\ Send(u)
  /\ had' = Append(had, v) /\ Follows(v)
  /\ v = IF source'.provided THEN Value' ELSE <<source'.inst, Withdrawn>>
  /\ source' \in [inst: Nat \ {0}, provided: BOOLEAN, seq: Nat, dirty: BOOLEAN]
  /\ changes' \in 0..MaxChanges /\ Counted'
  /\ Receivers(v, u, a)
  /\ UNCHANGED <<up, binding, starts, view, seen, faulty>>

\* The history grows by what is published, and every subscription is sent it
\* or holds it back.
LEMMA Emits ==
  ASSUME IInv, NEW v, NEW u, NEW a, Emission(v, u, a)
  PROVE  IInv'
<1>0. Typed /\ Ascends /\ Revisions /\ Joint /\ Bound /\ HeldBack /\ Streams /\ Counted /\ ~faulty
  BY DEF IInv
<1>a. /\ v \in Pairs /\ u \in Frames /\ u.type = Kind(v) /\ u.val = v /\ Send(u)
      /\ had' = Append(had, v)
  BY DEF Emission
<1>b. UNCHANGED <<up, binding, starts, view, seen, faulty>>
  BY DEF Emission
<1>c. /\ a \in Subs => sub[a].srv = "asked" /\ v[2] # Withdrawn
      /\ sub' \in Seq(Subscriptions) /\ Subs' = Subs
  BY DEF Emission, Receivers
<1>d. /\ v = IF source'.provided THEN Value' ELSE <<source'.inst, Withdrawn>>
      /\ source' \in [inst: Nat \ {0}, provided: BOOLEAN, seq: Nat, dirty: BOOLEAN]
      /\ changes' \in 0..MaxChanges /\ Counted'
  BY DEF Emission
<1>e. v[1] \in Nat /\ v[2] \in Nat /\ Withdrawn \in Nat
  BY <1>a, SubscriptionAssumption DEF Pairs, Withdrawn
<1>1. PICK L \in Nat : /\ L = Len(had) /\ L \in DOMAIN had /\ DOMAIN had = 1..L
  <2>1. had \in Seq(Pairs) /\ had # <<>>
    BY <1>0 DEF Typed, Ascends
  <2>. QED BY <2>1, LenProperties, EmptySeq
<1>2. /\ had \in Seq(Pairs) /\ had' \in Seq(Pairs) /\ Longer(had, had') /\ Len(had') = L + 1
      /\ DOMAIN had' = 1..(L + 1) /\ had'[L + 1] = v
      /\ \A k \in 1..L : had[k] \in Pairs /\ had'[k] = had[k]
  <2>1. had \in Seq(Pairs)
    BY <1>0 DEF Typed
  <2>2. /\ Append(had, v) \in Seq(Pairs) /\ Longer(had, Append(had, v))
        /\ Len(Append(had, v)) = L + 1 /\ DOMAIN Append(had, v) = DOMAIN had \cup {L + 1}
        /\ Append(had, v)[L + 1] = v
    BY <1>a, <1>1, <2>1, AppendLonger
  <2>3. DOMAIN had \cup {L + 1} = 1..(L + 1)
    BY <1>1
  <2>4. \A k \in 1..L : had[k] \in Pairs
    BY <1>1, <2>1, ElementOfSeq
  <2>. QED BY <1>a, <1>1, <2>1, <2>2, <2>3, <2>4 DEF Longer
<1>3. wire \in Seq(Frames) /\ wire' \in Seq(Frames) /\ Longer(wire, wire')
  BY <1>0, <1>a, Sends DEF Typed
<1>4. \A n \in DOMAIN wire' : n \notin DOMAIN wire =>
        /\ up /\ wire'[n].type = u.type /\ wire'[n].val = v
        /\ wire'[n].sub \in Subs /\ sub[wire'[n].sub].srv = "ready"
  BY <1>0, <1>a, Sends
<1>5. ASSUME NEW j \in Subs
      PROVE  /\ sub'[j].rev = sub[j].rev /\ sub'[j].cli = sub[j].cli /\ sub'[j].listening = sub[j].listening
             /\ sub'[j].tail = sub[j].tail /\ sub'[j].queued = sub[j].queued
             /\ j # a => sub'[j].srv = sub[j].srv /\ sub'[j].snap = sub[j].snap
             /\ j = a => sub'[j].srv = "subscribed" /\ sub'[j].snap = v
             /\ sub'[j].pending = IF j # a /\ sub[j].srv \in Holding THEN Append(sub[j].pending, u)
                                  ELSE sub[j].pending
  <2>1. PICK r \in Subscriptions : r = sub[j]
    BY <1>0, SubFields
  <2>5. sub'[j] = IF j = a THEN [r EXCEPT !.srv = "subscribed", !.snap = v]
                  ELSE IF r.srv \in Holding THEN [r EXCEPT !.pending = Append(@, u)] ELSE r
    BY <2>1 DEF Emission, Receivers
  <2>2. CASE j = a
    <3>1. sub'[j] = [r EXCEPT !.srv = "subscribed", !.snap = v]
      BY <2>5, <2>2
    <3>. QED BY <2>1, <2>2, <3>1 DEF Subscriptions
  <2>3. CASE j # a /\ r.srv \in Holding
    <3>1. sub'[j] = [r EXCEPT !.pending = Append(@, u)]
      BY <2>5, <2>3
    <3>. QED BY <2>1, <2>3, <3>1 DEF Subscriptions
  <2>4. CASE j # a /\ r.srv \notin Holding
    BY <2>1, <2>4, <2>5
  <2>. QED BY <2>1, <2>2, <2>3, <2>4
<1>6. u.type \in UpdateTypes
  BY <1>a DEF Kind, UpdateTypes
<1>7. /\ \A f, p : Carries(f, p) => Carries(f, p)'
      /\ \A q, from : Run(q, from) => Run(q, from)'
      /\ Base' = Base
  <2>1. Base' = Base
    BY <1>b DEF Base
  <2>. QED BY <1>2, <2>1, CarriesStill, RunStill
<1>8. ASSUME NEW f, f.type = u.type, f.val = v PROVE Carries(f, L + 1)'
  <2>1. L + 1 \in DOMAIN had' /\ had'[L + 1] = v
    BY <1>2
  <2>. QED BY <1>a, <1>8, <2>1 DEF Carries, Kind, Withdrawn
<1>f. \A k \in DOMAIN wire' : wire'[k].sub \in Subs
  BY <1>0, <1>3, <1>4 DEF Typed, Longer
<1>9. Typed'
  <2>2. binding' \in [rev: Nat, bound: BOOLEAN, sub: Subs \cup {0}]
    BY <1>0, <1>b DEF Typed
  <2>. QED BY <1>0, <1>b, <1>c, <1>d, <1>2, <1>3, <1>f, <2>2 DEF Typed
<1>10. Ascends'
  <2>a. /\ v[1] # 0 /\ v[2] <= Withdrawn /\ Before(had[L], v)
        /\ v[2] = Withdrawn => had[L][1] = v[1]
        /\ v[2] \notin {0, Withdrawn} => had[L] = <<v[1], v[2] - 1>>
    BY <1>1 DEF Emission, Follows
  <2>1. Rises(had')
    <3>. SUFFICES ASSUME NEW j \in 1..(L + 1), NEW k \in 1..(L + 1), j < k
                  PROVE  Before(had'[j], had'[k])
      BY <1>2 DEF Rises
    <3>0. Rises(had)
      BY <1>0 DEF Ascends
    <3>1. CASE k # L + 1
      <4>1. j \in 1..L /\ k \in 1..L
        BY <3>1
      <4>. QED BY <1>1, <1>2, <3>0, <4>1 DEF Rises
    <3>2. CASE k = L + 1
      <4>1. j \in 1..L
        BY <3>2
      <4>2. j = L \/ Before(had[j], had[L])
        BY <1>1, <3>0, <4>1 DEF Rises
      <4>3. PICK x \in Pairs, y \in Pairs : x = had[j] /\ y = had[L]
        BY <1>1, <1>2, <4>1
      <4>4. Before(y, v) /\ (x = y \/ Before(x, y))
        BY <2>a, <4>2, <4>3
      <4>5. Before(x, v)
        BY <1>a, <4>4 DEF Before, Pairs
      <4>. QED BY <1>2, <3>2, <4>1, <4>3, <4>5
    <3>. QED BY <3>1, <3>2
  <2>2. \A k \in 1..L : /\ had'[k][1] # 0 /\ had'[k][2] <= Withdrawn
    BY <1>0, <1>1, <1>2 DEF Ascends
  <2>3. \A k \in 1..(L + 1) : had'[k][1] # 0 /\ had'[k][2] <= Withdrawn
    BY <1>1, <1>2, <2>a, <2>2
  <2>4. ASSUME NEW k \in 1..(L + 1), had'[k][2] = Withdrawn
        PROVE  k - 1 \in 1..(L + 1) /\ had'[k - 1][1] = had'[k][1]
    <3>1. CASE k = L + 1
      <4>1. k - 1 = L /\ L \in 1..(L + 1)
        BY <1>1, <3>1
      <4>. QED BY <1>1, <1>2, <2>a, <2>4, <3>1, <4>1
    <3>2. CASE k # L + 1
      <4>1. k \in DOMAIN had /\ had'[k] = had[k]
        BY <1>1, <1>2, <3>2
      <4>2. k - 1 \in DOMAIN had /\ had[k - 1][1] = had[k][1]
        BY <1>0, <2>4, <4>1 DEF Ascends
      <4>. QED BY <1>1, <1>2, <4>1, <4>2
    <3>. QED BY <3>1, <3>2
  <2>5. ASSUME NEW k \in 1..(L + 1), had'[k][2] \notin {0, Withdrawn}
        PROVE  k - 1 \in 1..(L + 1) /\ had'[k - 1] = <<had'[k][1], had'[k][2] - 1>>
    <3>1. CASE k = L + 1
      <4>1. k - 1 = L /\ L \in 1..(L + 1)
        BY <1>1, <3>1
      <4>. QED BY <1>1, <1>2, <2>a, <2>5, <3>1, <4>1
    <3>2. CASE k # L + 1
      <4>1. k \in DOMAIN had /\ had'[k] = had[k]
        BY <1>1, <1>2, <3>2
      <4>2. k - 1 \in DOMAIN had /\ had[k - 1] = <<had[k][1], had[k][2] - 1>>
        BY <1>0, <2>5, <4>1 DEF Ascends
      <4>. QED BY <1>1, <1>2, <4>1, <4>2
    <3>. QED BY <3>1, <3>2
  <2>6. had' # <<>>
    BY <1>2, EmptySeq
  <2>7. had'[Len(had')] = IF source'.provided THEN Value' ELSE <<source'.inst, Withdrawn>>
    BY <1>2, <1>d
  <2>8. Withdrawn' = Withdrawn
    BY DEF Withdrawn
  <2>. QED BY <1>2, <2>1, <2>3, <2>4, <2>5, <2>6, <2>7, <2>8 DEF Ascends
<1>11. Revisions'
  <2>1. \A i, j \in Subs : sub[i].rev = sub[j].rev => i = j
    BY <1>0 DEF Revisions
  <2>. QED BY <1>0, <1>b, <1>c, <1>5, <2>1 DEF Revisions
<1>12. Joint'
  <2>1. ASSUME NEW j \in Subs PROVE Halves(sub'[j])
    <3>1. PICK x, y : x = sub[j] /\ y = sub'[j] /\ Halves(x)
      BY <1>0 DEF Joint
    <3>2. CASE j = a
      <4>1. /\ x.srv = "asked" /\ y.srv = "subscribed" /\ y.cli = x.cli /\ y.listening = x.listening
            /\ y.tail = x.tail /\ y.queued = x.queued
        BY <1>c, <1>5, <3>1, <3>2
      <4>2. Halves(y)
        BY <3>1, <4>1 DEF Halves, Holding
      <4>. QED BY <3>1, <4>2
    <3>3. CASE j # a
      <4>1. /\ y.srv = x.srv /\ y.cli = x.cli /\ y.listening = x.listening
            /\ y.tail = x.tail /\ y.queued = x.queued
            /\ x.srv \notin Holding => y.pending = x.pending
        BY <1>5, <3>1, <3>3
      <4>2. Halves(y)
        BY <3>1, <4>1 DEF Halves
      <4>. QED BY <3>1, <4>2
    <3>. QED BY <3>2, <3>3
  <2>2. ASSUME NEW k \in DOMAIN wire' PROVE Control(wire'[k], sub'[wire'[k].sub])
    <3>1. PICK j, f : j \in Subs /\ f = wire'[k] /\ j = f.sub
      BY <1>f
    <3>2. PICK x, y : x = sub[j] /\ y = sub'[j] /\ (j # a => y.srv = x.srv)
                      /\ y.cli = x.cli /\ y.listening = x.listening
      BY <1>5, <3>1
    <3>3. CASE k \in DOMAIN wire
      <4>1. Control(f, x)
        BY <1>0, <1>3, <3>1, <3>2, <3>3 DEF Joint, Longer
      <4>2. j # a
        BY <1>c, <3>1, <3>2, <4>1 DEF Control
      <4>3. Control(f, y)
        BY <3>2, <4>1, <4>2 DEF Control
      <4>. QED BY <3>1, <3>2, <4>3
    <3>4. CASE k \notin DOMAIN wire
      <4>1. x.srv = "ready" /\ f.type \in UpdateTypes
        BY <1>4, <1>6, <3>1, <3>2, <3>4
      <4>2. j # a
        BY <1>c, <3>1, <3>2, <4>1
      <4>3. Control(f, y)
        BY <3>2, <4>1, <4>2 DEF Control, UpdateTypes
      <4>. QED BY <3>1, <3>2, <4>3
    <3>. QED BY <3>3, <3>4
  <2>3. ASSUME NEW j \in DOMAIN wire', NEW k \in DOMAIN wire',
               wire'[j].type \notin UpdateTypes, wire'[j].type = wire'[k].type,
               wire'[j].sub = wire'[k].sub
        PROVE  j = k
    <3>1. j \in DOMAIN wire /\ k \in DOMAIN wire
      BY <1>4, <1>6, <2>3
    <3>2. wire'[j] = wire[j] /\ wire'[k] = wire[k]
      BY <1>3, <3>1 DEF Longer
    <3>. QED BY <1>0, <2>3, <3>1, <3>2 DEF Joint
  <2>4. ASSUME ~up PROVE wire' = <<>> /\ \A j \in Subs : sub'[j].srv = "closed"
    <3>1. wire = <<>> /\ \A j \in Subs : sub[j].srv = "closed"
      BY <1>0, <2>4 DEF Joint
    <3>2. DOMAIN wire' = {}
      <4>1. DOMAIN wire = {}
        BY <3>1, EmptySeq
      <4>. QED BY <1>4, <2>4, <4>1
    <3>3. wire' = <<>>
      <4>1. Len(wire') \in Nat /\ 1..Len(wire') = {}
        BY <1>3, <3>2, LenProperties
      <4>2. Len(wire') = 0
        BY <4>1
      <4>. QED BY <1>3, <4>2, EmptySeq
    <3>4. \A j \in Subs : j # a
      BY <1>c, <3>1
    <3>. QED BY <1>5, <3>1, <3>3, <3>4
  <2>5. /\ \A j \in Subs' : Halves(sub[j])'
        /\ \A k \in DOMAIN wire' : Control(wire[k], sub[wire[k].sub])'
    BY <1>c, <2>1, <2>2 DEF Halves, Control
  <2>. QED BY <1>b, <1>c, <2>3, <2>4, <2>5 DEF Joint
<1>13. Bound'
  <2>0. seen <= L + 1
    <3>1. seen \in Nat /\ seen <= L
      BY <1>0, <1>1 DEF Bound, Typed
    <3>. QED BY <3>1
  <2>1. \A j \in Subs : /\ sub'[j].cli = "open" => binding.sub = j
                        /\ sub'[j].tail # <<>> /\ sub'[j].rev = binding.rev => binding.sub = j
    BY <1>0, <1>5 DEF Bound
  <2>2. CASE binding.sub = 0
    BY <1>0, <1>b, <1>c, <1>2, <2>0, <2>1, <2>2 DEF Bound
  <2>3. CASE binding.sub # 0
    <3>1. binding.sub \in Subs /\ Continues(sub[binding.sub])
      BY <1>0, <2>3 DEF Bound, Typed
    <3>2. PICK x, y, b : x = sub[binding.sub] /\ y = sub'[binding.sub] /\ b = Base
      OBVIOUS
    <3>3. Continues(x) /\ y.cli = x.cli /\ y.rev = x.rev /\ y.tail = x.tail
      BY <1>5, <3>1, <3>2
    <3>a. Len(x.tail) \in Nat
      BY <1>0, <3>1, <3>2, SubFields
    <3>4. /\ b \in 1..L /\ had'[b] = had[b] /\ b + Len(x.tail) <= L /\ Run(x.tail, b)
          /\ y.cli = "open" /\ y.rev = binding.rev
          /\ IF view = Cold THEN had[b][2] = Withdrawn ELSE view = At(had[b])
      BY <1>1, <1>2, <3>2, <3>3 DEF Continues
    <3>5. Run(y.tail, b)' /\ b + Len(x.tail) <= L + 1 /\ b \in 1..(L + 1)
      BY <1>7, <3>a, <3>3, <3>4
    <3>6. Continues(y)'
      BY <1>2, <1>b, <1>7, <3>2, <3>3, <3>4, <3>5 DEF Continues, Withdrawn
    <3>. QED BY <1>2, <1>b, <1>c, <2>0, <2>1, <2>3, <3>2, <3>6 DEF Bound
  <2>. QED BY <2>2, <2>3
<1>14. ASSUME NEW j \in Subs PROVE Ending(sub[j].pending)'
  <2>1. PICK q \in Seq(Frames) : q = sub[j].pending /\ Len(q) \in Nat /\ DOMAIN q = 1..Len(q)
    BY <1>0, SubFields, LenProperties
  <2>2. Len(q) < L /\ Run(q, L - Len(q))
    BY <1>0, <1>1, <2>1 DEF HeldBack, Ending
  <2>3. CASE j # a /\ sub[j].srv \in Holding
    <3>1. PICK r : r = Append(q, u) /\ r = sub'[j].pending
      BY <1>5, <2>1, <2>3
    <3>2. /\ Longer(q, r) /\ DOMAIN r = DOMAIN q \cup {Len(q) + 1} /\ Len(r) = Len(q) + 1
          /\ r[Len(q) + 1] = u
      <4>1. q \in Seq(Frames) /\ u \in Frames /\ r = Append(q, u)
        BY <1>a, <3>1
      <4>. QED BY ONLY <4>1, AppendLonger
    <3>3. (L + 1) - Len(r) = L - Len(q) /\ Len(r) < L + 1 /\ (L - Len(q)) + (Len(q) + 1) = L + 1
      <4>1. PICK n \in Nat : n = Len(q)
        BY <2>1
      <4>2. n < L /\ Len(r) = n + 1
        BY <2>2, <3>2, <4>1
      <4>. QED BY ONLY <4>1, <4>2, L \in Nat, n \in Nat
    <3>4. Run(q, L - Len(q))'
      BY <1>7, <2>2
    <3>5. Carries(u, L + 1)'
      BY <1>a, <1>8
    <3>6. Run(r, L - Len(q))'
      <4>. SUFFICES ASSUME NEW k \in DOMAIN r PROVE Carries(r[k], (L - Len(q)) + k)'
        BY DEF Run
      <4>1. CASE k \in DOMAIN q
        BY <3>2, <3>4, <4>1 DEF Run, Longer
      <4>2. CASE k = Len(q) + 1
        BY <3>2, <3>3, <3>5, <4>2
      <4>. QED BY <3>2, <4>1, <4>2
    <3>7. Ending(r)'
      BY <1>2, <3>3, <3>6 DEF Ending
    <3>. QED BY <3>1, <3>7
  <2>4. CASE j = a \/ sub[j].srv \notin Holding
    <3>1. q = <<>> /\ sub'[j].pending = q
      <4>1. sub[j].srv \notin Holding
        BY <1>c, <2>4 DEF Holding
      <4>. QED BY <1>0, <1>5, <2>1, <2>4, <4>1 DEF Joint, Halves
    <3>2. Len(<<>>) = 0 /\ DOMAIN <<>> = {}
      BY EmptySeq
    <3>3. Ending(<<>>)'
      BY <1>2, <3>2 DEF Ending, Run
    <3>. QED BY <3>1, <3>3
  <2>. QED BY <2>3, <2>4
<1>15. HeldBack'
  BY <1>c, <1>14 DEF HeldBack
<1>g. Rises(had')
  BY <1>10 DEF Ascends
<1>16. ASSUME NEW j \in Subs, j # a, Streaming(sub[j])
       PROVE  \E lo \in Nat : Has(sub[j], lo)' /\ Flows(j, lo, Hi(sub[j]))'
  <2>1. PICK x, y : x = sub[j] /\ y = sub'[j]
    OBVIOUS
  <2>2. /\ y.rev = x.rev /\ y.cli = x.cli /\ y.tail = x.tail /\ y.queued = x.queued
        /\ y.snap = x.snap /\ y.srv = x.srv
        /\ y.pending = IF x.srv \in Holding THEN Append(x.pending, u) ELSE x.pending
    BY <1>5, <1>16, <2>1
  <2>3. PICK hi \in Nat : hi = Hi(x) /\ hi <= L
    BY <1>0, <1>1, <2>1, StreamOf
  <2>4. PICK lo \in Nat : Has(x, lo) /\ Flows(j, lo, hi)
    BY <1>0, <1>16, <2>1, <2>3, StreamOf
  <2>5. Has(y, lo)'
    <3>1. CASE x.cli = "open"
      BY <1>7, <2>2, <2>4, <3>1 DEF Has
    <3>2. CASE x.cli # "open"
      <4>1. PICK p \in DOMAIN had : Behind(x, p) /\ lo = p + Len(x.queued)
        BY <2>4, <3>2 DEF Has
      <4>2. p \in DOMAIN had' /\ had'[p] = had[p]
        BY <1>2, <4>1 DEF Longer
      <4>3. Run(y.queued, p)'
        BY <1>7, <2>2, <4>1 DEF Behind
      <4>4. Behind(y, p)'
        BY <1>b, <2>2, <4>1, <4>2, <4>3 DEF Behind, Withdrawn
      <4>. QED BY <2>2, <3>2, <4>1, <4>2, <4>4 DEF Has
    <3>. QED BY <3>1, <3>2
  <2>6. /\ x.pending \in Seq(Frames) /\ Len(x.pending) \in Nat
        /\ x.srv \in Holding \cup {"ready"} /\ up
        /\ x.srv \notin Holding => x.pending = <<>>
    <3>1. x.srv \in Subscribers
      BY <1>16, <2>1 DEF Streaming
    <3>2. up
      BY <1>0, <2>1, <3>1 DEF Joint, Subscribers, Holding
    <3>3. Halves(x)
      BY <1>0, <2>1 DEF Joint
    <3>. QED BY <1>0, <2>1, <3>1, <3>2, <3>3, SubFields DEF Subscribers, Halves
  <2>7. CASE x.srv \in Holding
    <3>1. Len(y.pending) = Len(x.pending) + 1
      BY <1>a, <2>2, <2>6, <2>7, AppendLonger
    <3>2. Hi(y)' = hi
      <4>1. Hi(y)' = (L + 1) - (Len(x.pending) + 1) /\ hi = L - Len(x.pending)
        BY <1>1, <1>2, <2>3, <3>1 DEF Hi
      <4>. QED BY <2>6, <4>1
    <3>3. \A k \in DOMAIN wire' : k \notin DOMAIN wire => ~Brings(k, j)'
      <4>1. x.srv # "ready"
        BY <2>7 DEF Holding
      <4>. QED BY <1>4, <2>1, <4>1 DEF Brings
    <3>4. Flows(j, lo, hi)'
      BY ONLY <1>1, <1>2, <1>3, <1>g, <2>3, <2>4, <3>3, FlowsStill, lo \in Nat, hi \in Nat, L \in Nat
    <3>. QED BY <2>1, <2>5, <3>2, <3>4
  <2>8. CASE x.srv = "ready"
    <3>1. hi = L /\ Hi(y)' = L + 1
      <4>1. x.pending = <<>> /\ y.pending = <<>> /\ Len(<<>>) = 0
        BY <2>2, <2>6, <2>8, EmptySeq DEF Holding
      <4>. QED BY <1>1, <1>2, <2>3, <4>1 DEF Hi
    <3>2. PICK n \in DOMAIN wire' :
                /\ n \notin DOMAIN wire /\ wire'[n].sub = j
                /\ \A m \in DOMAIN wire' : m \notin DOMAIN wire /\ wire'[m].sub = j => m = n
      BY <1>0, <1>a, <2>1, <2>6, <2>8, Sends
    <3>3. Brings(n, j)'
      BY <1>4, <1>6, <3>2 DEF Brings
    <3>4. Carries(wire[n], hi + 1)'
      <4>1. PICK f : f = wire'[n]
        OBVIOUS
      <4>2. f.type = u.type /\ f.val = v
        BY <1>4, <3>2, <4>1
      <4>3. Carries(f, L + 1)'
        BY <1>8, <4>2
      <4>. QED BY <3>1, <4>1, <4>3
    <3>5. \A k \in DOMAIN wire' : k \notin DOMAIN wire /\ Brings(k, j)' => k = n
      BY <3>2 DEF Brings
    <3>6. Flows(j, lo, hi + 1)'
      BY ONLY <1>1, <1>2, <1>3, <1>g, <2>3, <2>4, <3>2, <3>3, <3>4, <3>5, FlowsGain,
              lo \in Nat, hi \in Nat, n \in DOMAIN wire', L \in Nat
    <3>. QED BY <2>1, <2>5, <3>1, <3>6
  <2>. QED BY <2>6, <2>7, <2>8
<1>17. ASSUME a \in Subs
       PROVE  \E lo \in Nat : Has(sub[a], lo)' /\ Flows(a, lo, Hi(sub[a]))'
  <2>1. PICK x, y : x = sub[a] /\ y = sub'[a]
    OBVIOUS
  <2>2. x.srv = "asked" /\ v[2] # Withdrawn /\ Halves(x)
    BY <1>0, <1>c, <1>17, <2>1 DEF Joint
  <2>3. /\ y.cli = "asking" /\ y.queued = <<>> /\ y.snap = v /\ y.pending = <<>>
    <3>1. x.cli = "asking" /\ x.queued = <<>> /\ x.pending = <<>>
      BY <2>2 DEF Halves, Holding
    <3>2. y.cli = x.cli /\ y.queued = x.queued /\ y.snap = v /\ y.pending = x.pending
      BY <1>5, <1>17, <2>1
    <3>. QED BY <3>1, <3>2
  <2>4. Len(<<>>) = 0 /\ DOMAIN <<>> = {}
    <3>1. Len(<<>>) = 0
      BY EmptySeq
    <3>. QED BY <3>1
  <2>5. seen <= L + 1
    <3>1. seen \in Nat /\ seen <= L
      BY <1>0, <1>1 DEF Bound, Typed
    <3>. QED BY <3>1
  <2>6. Behind(y, L + 1)'
    <3>1. L + 1 \in DOMAIN had' /\ had'[L + 1] = v
      BY <1>2
    <3>2. Run(<<>>, L + 1)'
      BY <2>4 DEF Run
    <3>. QED BY <1>b, <2>2, <2>3, <2>5, <3>1, <3>2 DEF Behind, Withdrawn
  <2>7. Has(y, L + 1)' /\ Hi(y)' = L + 1
    <3>1. L + 1 \in DOMAIN had' /\ (L + 1) + 0 = L + 1 /\ (L + 1) - 0 = L + 1
      BY <1>2
    <3>. QED BY <1>2, <2>3, <2>4, <2>6, <3>1 DEF Has, Hi
  <2>8. \A k \in DOMAIN wire' : ~Brings(k, a)'
    <3>. SUFFICES ASSUME NEW k \in DOMAIN wire', wire'[k].sub = a PROVE FALSE
      BY DEF Brings
    <3>1. CASE k \notin DOMAIN wire
      BY <1>4, <2>1, <2>2, <3>1
    <3>2. CASE k \in DOMAIN wire
      <4>1. wire[k].sub = a
        BY <1>3, <3>2 DEF Longer
      <4>2. Control(wire[k], x)
        BY <1>0, <2>1, <3>2, <4>1 DEF Joint
      <4>. QED BY <2>2, <4>2 DEF Control
    <3>. QED BY <3>1, <3>2
  <2>9. Flows(a, L + 1, L + 1)'
    <3>1. (L + 1 + 1)..(L + 1) = {}
      OBVIOUS
    <3>. QED BY <2>8, <3>1 DEF Flows
  <2>10. L + 1 \in Nat
    OBVIOUS
  <2>. QED BY <2>1, <2>7, <2>9, <2>10
<1>18. Streams'
  <2>. SUFFICES ASSUME NEW j \in Subs, Streaming(sub[j])'
                PROVE  \E lo \in Nat : Has(sub[j], lo)' /\ Flows(j, lo, Hi(sub[j]))'
    BY <1>c DEF Streams
  <2>1. CASE j = a
    BY <1>17, <2>1
  <2>2. CASE j # a
    <3>1. sub'[j].srv = sub[j].srv /\ sub'[j].listening = sub[j].listening
      BY <1>5, <2>2
    <3>2. Streaming(sub[j])
      BY <3>1 DEF Streaming
    <3>. QED BY <1>16, <2>2, <3>2
  <2>. QED BY <2>1, <2>2
<1>. QED BY <1>0, <1>b, <1>d, <1>9, <1>10, <1>11, <1>12, <1>13, <1>15, <1>18 DEF IInv

\* The frame of an update.
LEMMA FrameIs ==
  ASSUME NEW v \in Pairs, NEW type \in UpdateTypes
  PROVE  /\ Frame(0, type, v) \in Frames
         /\ Frame(0, type, v).type = type /\ Frame(0, type, v).val = v
BY DEF Frame, Frames

\* What publishing makes of the source.
LEMMA PublishedIs ==
  ASSUME NEW s \in [inst: Nat \ {0}, provided: BOOLEAN, seq: Nat, dirty: BOOLEAN],
         NEW t, t = [inst |-> s.inst, provided |-> s.provided, seq |-> s.seq + 1, dirty |-> FALSE]
  PROVE  /\ t \in [inst: Nat \ {0}, provided: BOOLEAN, seq: Nat, dirty: BOOLEAN]
         /\ t.seq = s.seq + 1
OBVIOUS

\* What an update makes of the subscriptions that hold updates back.
LEMMA HeldIs ==
  ASSUME IInv, NEW v \in Pairs, NEW u \in Frames, sub' = Held(u)
  PROVE  Receivers(v, u, 0)
<1>0. Typed
  BY DEF IInv
<1>1. sub \in Seq(Subscriptions) /\ Subs = 1..Len(sub) /\ Len(sub) \in Nat
  BY <1>0, LenProperties DEF Typed, Subs
<1>2. \A j \in Subs : sub'[j] = IF sub[j].srv \in Holding THEN [sub[j] EXCEPT !.pending = Append(@, u)]
                                ELSE sub[j]
  BY DEF Held
<1>3. \A j \in Subs : sub'[j] \in Subscriptions
  <2>. SUFFICES ASSUME NEW j \in Subs PROVE sub'[j] \in Subscriptions
    OBVIOUS
  <2>1. PICK r \in Subscriptions : r = sub[j] /\ r.pending \in Seq(Frames)
    BY <1>0, SubFields
  <2>2. Append(r.pending, u) \in Seq(Frames)
    BY <2>1, AppendLonger
  <2>3. [r EXCEPT !.pending = Append(@, u)] \in Subscriptions
    BY <2>2 DEF Subscriptions
  <2>. QED BY <1>2, <2>1, <2>3
<1>4. sub' \in Seq(Subscriptions) /\ Subs' = Subs
  <2>1. sub' \in [1..Len(sub) -> Subscriptions]
    BY <1>1, <1>3 DEF Held
  <2>2. sub' \in Seq(Subscriptions)
    BY <1>1, <2>1, SeqDef
  <2>. QED BY <2>2 DEF Held, Subs
<1>5. 0 \notin Subs
  BY <1>1
<1>. QED BY <1>2, <1>4, <1>5 DEF Receivers

\* A publication of the state, and one on behalf of a subscriber.
LEMMA PublishedKeeps ==
  ASSUME IInv, source.dirty, source.provided, source' = Published, NEW v, v = Value',
         had' = Append(had, v), NEW u, u = Frame(0, "state", v), Send(u),
         NEW a, Receivers(v, u, a), UNCHANGED <<up, clientVars, changes>>
  PROVE  IInv'
<1>0. Typed /\ Ascends /\ Counted
  BY DEF IInv
<1>1. PICK inst \in Nat \ {0}, seq \in Nat : /\ inst = source.inst /\ seq = source.seq
                                           /\ source' = [inst |-> inst, provided |-> TRUE, seq |-> seq + 1, dirty |-> FALSE]
  <2>1. source \in [inst: Nat \ {0}, provided: BOOLEAN, seq: Nat, dirty: BOOLEAN]
    BY <1>0 DEF Typed
  <2>. QED BY <2>1 DEF Published
<1>2. v = <<inst, seq + 1>> /\ v \in Pairs /\ u \in Frames /\ u.type = "state" /\ u.val = v
  <2>1. v = <<inst, seq + 1>> /\ v \in Pairs
    BY <1>1 DEF Value, Pairs
  <2>2. "state" \in UpdateTypes
    BY DEF UpdateTypes
  <2>. QED BY <2>1, <2>2, FrameIs
<1>3. /\ seq + 1 <= changes /\ changes \in 0..MaxChanges /\ MaxChanges \in Nat /\ inst <= changes + 1
  BY <1>0, <1>1, SubscriptionAssumption DEF Counted, Typed
<1>4. seq + 1 # Withdrawn /\ seq + 1 < Withdrawn
  BY <1>3 DEF Withdrawn
<1>5. Follows(v)
  <2>1. had[Len(had)] = <<inst, seq>>
    BY <1>0, <1>1 DEF Ascends, Value
  <2>2. (seq + 1) - 1 = seq
    OBVIOUS
  <2>a. PICK w : w = had[Len(had)] /\ w = <<inst, seq>>
    BY <2>1
  <2>3. w = had[Len(had)] /\ w = <<inst, seq>> /\ w[1] = inst /\ w[2] = seq
    BY <2>a
  <2>4. v[1] = inst /\ v[2] = seq + 1
    BY <1>2
  <2>5. Before(w, v) /\ v[2] <= Withdrawn
    <3>1. Withdrawn \in Nat /\ v[2] < Withdrawn /\ v[2] \in Nat /\ w[2] < v[2]
      BY <1>3, <1>4, <2>3, <2>4 DEF Withdrawn
    <3>. QED BY <2>3, <2>4, <3>1 DEF Before
  <2>6. w = <<v[1], v[2] - 1>>
    BY <2>2, <2>3, <2>4
  <2>. QED BY <1>1, <1>4, <2>3, <2>4, <2>5, <2>6 DEF Follows
<1>6. Kind(v) = "state"
  BY <1>2, <1>4 DEF Kind
<1>7. /\ v = IF source'.provided THEN Value' ELSE <<source'.inst, Withdrawn>>
      /\ source' \in [inst: Nat \ {0}, provided: BOOLEAN, seq: Nat, dirty: BOOLEAN]
  BY <1>1
<1>8. changes' \in 0..MaxChanges /\ Counted'
  BY <1>1, <1>3 DEF Counted
<1>9. UNCHANGED <<up, binding, starts, view, seen, faulty>>
  BY DEF clientVars
<1>10. Emission(v, u, a)
  BY <1>2, <1>5, <1>6, <1>7, <1>8, <1>9 DEF Emission
<1>. QED BY <1>10, Emits

\* ReplicatedState.publish.
LEMMA PublishKeeps ==
  ASSUME IInv, Publish
  PROVE  IInv'
<1>1. PICK v, u : v = Value' /\ u = Frame(0, "state", v)
  OBVIOUS
<1>2. /\ source.dirty /\ source.provided /\ source' = Published /\ had' = Append(had, v)
      /\ sub' = Held(u) /\ Send(u) /\ UNCHANGED <<up, clientVars, changes>>
  BY <1>1 DEF Publish, Emit
<1>3. v \in Pairs /\ u \in Frames
  <2>1. Typed
    BY DEF IInv
  <2>2. source' \in [inst: Nat \ {0}, provided: BOOLEAN, seq: Nat, dirty: BOOLEAN]
    <3>1. source \in [inst: Nat \ {0}, provided: BOOLEAN, seq: Nat, dirty: BOOLEAN]
      BY <2>1 DEF Typed
    <3>2. source' = [inst |-> source.inst, provided |-> source.provided, seq |-> source.seq + 1,
                     dirty |-> FALSE]
      BY <3>1, <1>2 DEF Published
    <3>. QED BY ONLY <3>1, <3>2, PublishedIs
  <2>3. v \in Pairs
    BY <1>1, <2>2 DEF Value, Pairs
  <2>4. "state" \in UpdateTypes
    BY DEF UpdateTypes
  <2>. QED BY <1>1, <2>3, <2>4, FrameIs
<1>. QED BY <1>1, <1>2, <1>3, HeldIs, PublishedKeeps

\* The service is replaced: a new instance, its sequence from the start.
LEMMA ReplaceKeeps ==
  ASSUME IInv, Replace
  PROVE  IInv'
<1>0. Typed /\ Ascends /\ Counted
  BY DEF IInv
<1>1. PICK v, u : v = Value' /\ u = Frame(0, "replaced", v)
  OBVIOUS
<1>2. /\ source' = [inst |-> source.inst + 1, provided |-> TRUE, seq |-> 0, dirty |-> FALSE]
      /\ had' = Append(had, v) /\ sub' = Held(u) /\ Send(u) /\ UNCHANGED <<up, clientVars>>
      /\ changes < MaxChanges /\ changes' = changes + 1
  BY <1>1 DEF Replace, Emit, Change
<1>3. PICK inst \in Nat \ {0} : inst = source.inst
  BY <1>0 DEF Typed
<1>4. v = <<inst + 1, 0>> /\ v \in Pairs /\ u \in Frames /\ u.type = "replaced" /\ u.val = v
  <2>1. v = <<inst + 1, 0>> /\ v \in Pairs
    BY <1>1, <1>2, <1>3 DEF Value, Pairs
  <2>2. "replaced" \in UpdateTypes
    BY DEF UpdateTypes
  <2>. QED BY <1>1, <2>1, <2>2, FrameIs
<1>5. changes \in 0..MaxChanges /\ MaxChanges \in Nat /\ inst <= changes + 1
  BY <1>0, <1>3, SubscriptionAssumption DEF Counted, Typed
<1>6. Kind(v) = "replaced" /\ Follows(v)
  <2>1. had[Len(had)][1] = inst
    BY <1>0, <1>3 DEF Ascends, Value
  <2>2. Withdrawn \in Nat \ {0}
    BY <1>5 DEF Withdrawn
  <2>. QED BY <1>4, <2>1, <2>2 DEF Follows, Before, Kind
<1>7. /\ v = IF source'.provided THEN Value' ELSE <<source'.inst, Withdrawn>>
      /\ source' \in [inst: Nat \ {0}, provided: BOOLEAN, seq: Nat, dirty: BOOLEAN]
  BY <1>1, <1>2, <1>3
<1>8. changes' \in 0..MaxChanges /\ Counted'
  BY <1>2, <1>3, <1>5 DEF Counted
<1>9. UNCHANGED <<up, binding, starts, view, seen, faulty>>
  BY <1>2 DEF clientVars
<1>10. Emission(v, u, 0)
  <2>1. Receivers(v, u, 0)
    BY <1>2, <1>4, HeldIs
  <2>. QED BY <1>2, <1>4, <1>6, <1>7, <1>8, <1>9, <2>1 DEF Emission
<1>. QED BY <1>10, Emits

\* The service is withdrawn.
LEMMA WithdrawKeeps ==
  ASSUME IInv, Withdraw
  PROVE  IInv'
<1>0. Typed /\ Ascends /\ Counted
  BY DEF IInv
<1>1. PICK v, u : v = <<source.inst, Withdrawn>> /\ u = Frame(0, "unavailable", v)
  OBVIOUS
<1>2. /\ source.provided /\ source' = [source EXCEPT !.provided = FALSE]
      /\ had' = Append(had, v) /\ sub' = Held(u) /\ Send(u) /\ UNCHANGED <<up, clientVars>>
      /\ changes < MaxChanges /\ changes' = changes + 1
  BY <1>1 DEF Withdraw, Emit, Change
<1>3. PICK inst \in Nat \ {0}, seq \in Nat : inst = source.inst /\ seq = source.seq
  BY <1>0 DEF Typed
<1>4. changes \in 0..MaxChanges /\ MaxChanges \in Nat /\ seq <= changes /\ inst <= changes + 1
  BY <1>0, <1>3, SubscriptionAssumption DEF Counted, Typed
<1>5. Withdrawn \in Nat \ {0} /\ seq < Withdrawn
  BY <1>4 DEF Withdrawn
<1>6. v = <<inst, Withdrawn>> /\ v \in Pairs /\ u \in Frames /\ u.type = "unavailable" /\ u.val = v
  <2>1. v = <<inst, Withdrawn>> /\ v \in Pairs
    BY <1>1, <1>3, <1>5 DEF Pairs
  <2>2. "unavailable" \in UpdateTypes
    BY DEF UpdateTypes
  <2>. QED BY <1>1, <2>1, <2>2, FrameIs
<1>7. Kind(v) = "unavailable" /\ Follows(v)
  <2>1. had[Len(had)] = <<inst, seq>>
    BY <1>0, <1>2, <1>3 DEF Ascends, Value
  <2>. QED BY <1>3, <1>5, <1>6, <2>1 DEF Follows, Before, Kind
<1>8. /\ v = IF source'.provided THEN Value' ELSE <<source'.inst, Withdrawn>>
      /\ source' \in [inst: Nat \ {0}, provided: BOOLEAN, seq: Nat, dirty: BOOLEAN]
      /\ source'.inst = inst /\ source'.seq = seq /\ source'.dirty = source.dirty
  BY <1>0, <1>1, <1>2, <1>3 DEF Typed
<1>9. changes' \in 0..MaxChanges /\ Counted'
  BY <1>0, <1>2, <1>3, <1>4, <1>8 DEF Counted
<1>10. UNCHANGED <<up, binding, starts, view, seen, faulty>>
  BY <1>2 DEF clientVars
<1>11. Emission(v, u, 0)
  <2>1. Receivers(v, u, 0)
    BY <1>2, <1>6, HeldIs
  <2>. QED BY <1>2, <1>6, <1>7, <1>8, <1>9, <1>10, <2>1 DEF Emission
<1>. QED BY <1>11, Emits

\* A subscribe that publishes what was not published.
LEMMA SubscribeNewKeeps ==
  ASSUME IInv, NEW i \in Subs, sub[i].srv = "asked", source.dirty, source.provided,
         source' = Published, NEW v, v = Value', had' = Append(had, v),
         NEW u, u = Frame(0, "state", v), Send(u),
         sub' = [Held(u) EXCEPT ![i].srv = "subscribed", ![i].snap = v],
         UNCHANGED <<up, clientVars, changes>>
  PROVE  IInv'
<1>0. Typed /\ Counted
  BY DEF IInv
<1>1. v \in Pairs /\ u \in Frames /\ v[2] = source.seq + 1
  <2>2. /\ source' \in [inst: Nat \ {0}, provided: BOOLEAN, seq: Nat, dirty: BOOLEAN]
        /\ source'.seq = source.seq + 1
    <3>1. source \in [inst: Nat \ {0}, provided: BOOLEAN, seq: Nat, dirty: BOOLEAN]
      BY <1>0 DEF Typed
    <3>2. source' = [inst |-> source.inst, provided |-> source.provided, seq |-> source.seq + 1,
                     dirty |-> FALSE]
      BY <3>1 DEF Published
    <3>. QED BY ONLY <3>1, <3>2, PublishedIs
  <2>3. v \in Pairs /\ v[2] = source.seq + 1
    BY <2>2 DEF Value, Pairs
  <2>4. "state" \in UpdateTypes
    BY DEF UpdateTypes
  <2>. QED BY <2>3, <2>4, FrameIs
<1>2. v[2] # Withdrawn
  <2>1. source.seq < changes /\ source.seq \in Nat /\ changes \in 0..MaxChanges /\ MaxChanges \in Nat
    BY <1>0, SubscriptionAssumption DEF Counted, Typed
  <2>. QED BY <1>1, <2>1 DEF Withdrawn
<1>3. PICK h : h = Held(u)
  OBVIOUS
<1>4. /\ h \in Seq(Subscriptions) /\ DOMAIN h = Subs
      /\ \A j \in Subs : h[j] = IF sub[j].srv \in Holding THEN [sub[j] EXCEPT !.pending = Append(@, u)]
                                ELSE sub[j]
  <2>1. \A j \in Subs : h[j] = IF sub[j].srv \in Holding THEN [sub[j] EXCEPT !.pending = Append(@, u)]
                                ELSE sub[j]
    BY <1>3 DEF Held
  <2>2. \A j \in Subs : h[j] \in Subscriptions
    <3>. SUFFICES ASSUME NEW j \in Subs PROVE h[j] \in Subscriptions
      OBVIOUS
    <3>1. PICK r \in Subscriptions : r = sub[j] /\ r.pending \in Seq(Frames)
      BY <1>0, SubFields
    <3>2. Append(r.pending, u) \in Seq(Frames)
      BY <1>1, <3>1, AppendLonger
    <3>3. [r EXCEPT !.pending = Append(@, u)] \in Subscriptions
      BY <3>2 DEF Subscriptions
    <3>. QED BY <2>1, <3>1, <3>3
  <2>3. Subs = 1..Len(sub) /\ Len(sub) \in Nat
    BY <1>0, LenProperties DEF Typed, Subs
  <2>4. h \in [1..Len(sub) -> Subscriptions]
    BY <1>3, <2>2, <2>3 DEF Held
  <2>5. h \in Seq(Subscriptions)
    BY <2>3, <2>4, SeqDef
  <2>. QED BY <2>1, <2>3, <2>4, <2>5
<1>5. h[i] = sub[i] /\ sub[i] \in Subscriptions
  BY <1>0, <1>4, SubFields DEF Holding
<1>6. PICK r \in Subscriptions : r = [sub[i] EXCEPT !.srv = "subscribed", !.snap = v]
  BY <1>1, <1>5 DEF Subscriptions, Subscribers, Holding
<1>7. sub' = [h EXCEPT ![i] = r]
  BY <1>3, <1>4, <1>5, <1>6
<1>8. Receivers(v, u, i)
  <2>1. /\ DOMAIN sub' = Subs /\ sub'[i] = r /\ \A j \in Subs : j # i => sub'[j] = h[j]
    BY <1>4, <1>7
  <2>2. Subs = 1..Len(sub) /\ Len(sub) \in Nat
    BY <1>0, LenProperties DEF Typed, Subs
  <2>3. \A j \in Subs : h[j] \in Subscriptions
    BY <1>4, ElementOfSeq, LenProperties
  <2>4. sub' \in [1..Len(sub) -> Subscriptions]
    BY <1>4, <1>7, <2>1, <2>2, <2>3
  <2>5. sub' \in Seq(Subscriptions)
    BY ONLY <2>2, <2>4, SeqDef
  <2>. QED BY <1>2, <1>4, <1>6, <2>1, <2>5 DEF Receivers, Subs
<1>. QED BY <1>8, PublishedKeeps

-----------------------------------------------------------------------------
(***************************************************************************)
(* The invariant, step by step.                                            *)
(***************************************************************************)
\* provider.subscribe: granted at once, after publishing, or refused.
LEMMA SubscribeActionKeeps ==
  ASSUME IInv, NEW i \in Subs, Subscribe(i)
  PROVE  IInv'
<1>1. sub[i].srv = "asked" /\ UNCHANGED <<up, clientVars, changes>>
  BY DEF Subscribe
<1>2. CASE /\ source.provided /\ sub' = [sub EXCEPT ![i].srv = "subscribed", ![i].snap = Value]
           /\ UNCHANGED <<source, had, wire>>
  BY ONLY <1>1, <1>2, IInv, i \in Subs, SubscribeKeeps
<1>3. CASE /\ source.provided /\ source.dirty /\ source' = Published /\ had' = Append(had, Value')
           /\ LET u == Frame(0, "state", Value')
              IN  /\ sub' = [Held(u) EXCEPT ![i].srv = "subscribed", ![i].snap = Value']
                  /\ Send(u)
  <2>1. PICK v, u : v = Value' /\ u = Frame(0, "state", v)
    OBVIOUS
  <2>2. /\ source.dirty /\ source.provided /\ source' = Published /\ had' = Append(had, v)
        /\ sub' = [Held(u) EXCEPT ![i].srv = "subscribed", ![i].snap = v] /\ Send(u)
    BY ONLY <1>3, <2>1
  <2>. QED BY ONLY <1>1, <2>1, <2>2, IInv, i \in Subs, SubscribeNewKeeps
<1>4. CASE /\ sub' = [sub EXCEPT ![i].srv = "closed"] /\ Reply(Frame(i, "failed", <<0, 0>>))
           /\ UNCHANGED <<source, had>>
  BY ONLY <1>1, <1>4, IInv, i \in Subs, RefuseKeeps
<1>. QED BY <1>2, <1>3, <1>4 DEF Subscribe

\* A held update goes out, or there is none left.
LEMMA FlushActionKeeps ==
  ASSUME IInv, NEW i \in Subs, Flush(i)
  PROVE  IInv'
<1>1. sub[i].srv = "flushing" /\ UNCHANGED <<source, had, up, clientVars, changes>>
  BY DEF Flush
<1>2. CASE sub[i].pending = <<>>
  <2>1. sub' = [sub EXCEPT ![i].srv = "ready"] /\ UNCHANGED wire
    BY <1>2 DEF Flush, Flushed
  <2>. QED BY ONLY <1>1, <1>2, <2>1, IInv, i \in Subs, FlushedKeeps
<1>3. CASE sub[i].pending # <<>>
  <2>1. /\ sub' = [sub EXCEPT ![i].pending = Tail(@)]
        /\ Reply([Head(sub[i].pending) EXCEPT !.sub = i])
    BY <1>3 DEF Flush, Flushed
  <2>. QED BY ONLY <1>1, <1>3, <2>1, IInv, i \in Subs, FlushKeeps
<1>. QED BY <1>2, <1>3

\* The snapshot is installed while its revision is still the binding's.
LEMMA InstallActionKeeps ==
  ASSUME IInv, NEW i \in Subs, Install(i)
  PROVE  /\ IInv' /\ had' = had
         /\ \/ view' = view /\ seen' = seen
            \/ /\ view = Cold /\ view' # Cold /\ seen' \in DOMAIN had /\ seen <= seen'
               /\ view' = At(had[seen']) /\ had[seen'][2] # Withdrawn
<1>1. /\ sub[i].cli = "answered"
      /\ UNCHANGED <<source, had, up, wire, starts, faulty, changes, rebinds, drops>>
  BY DEF Install
<1>2. CASE Wanted(sub[i])
  <2>1. /\ binding' = [binding EXCEPT !.sub = i] /\ Show(At(sub[i].snap))
        /\ sub' = [sub EXCEPT ![i].cli = "open", ![i].snap = <<0, 0>>,
                              ![i].tail = sub[i].queued, ![i].queued = <<>>]
    BY <1>2 DEF Install
  <2>2. UNCHANGED <<source, had, up, wire, starts, faulty, changes>>
    BY <1>1
  <2>3. /\ IInv'
        /\ view = Cold /\ view' = At(sub[i].snap) /\ seen' \in DOMAIN had /\ seen <= seen'
        /\ had[seen'] = sub[i].snap /\ had[seen'][2] # Withdrawn
    BY ONLY <1>1, <1>2, <2>1, <2>2, IInv, i \in Subs, InstallKeeps
  <2>4. view' # Cold
    <3>1. sub[i].snap \in Pairs
      BY SubFields DEF IInv
    <3>2. PICK s \in Pairs : s = sub[i].snap
      BY <3>1
    <3>3. At(s).seq = s[2] + 1 /\ s[2] \in Nat /\ Cold.seq = 0
      BY <3>2 DEF At, Pairs, Cold
    <3>. QED BY ONLY <2>3, <3>2, <3>3
  <2>. QED BY <1>1, <2>3, <2>4
<1>3. CASE ~Wanted(sub[i])
  <2>1. /\ sub' = [sub EXCEPT ![i] = IF sub[i].listening THEN Dispose(sub[i])
                                     ELSE [sub[i] EXCEPT !.cli = "gone", !.queued = <<>>]]
        /\ UNCHANGED <<binding, view, seen>>
    BY <1>3 DEF Install
  <2>2. UNCHANGED <<source, had, wire, up, clientVars, changes>>
    BY <1>1, <2>1 DEF clientVars
  <2>3. IInv'
    BY ONLY <1>1, <2>1, <2>2, IInv, i \in Subs, DiscardKeeps
  <2>. QED BY <1>1, <2>1, <2>3
<1>. QED BY <1>2, <1>3

\* The next update of the view's own subscription, or one for an old revision.
LEMMA DeliverActionKeeps ==
  ASSUME IInv, NEW i \in Subs, Deliver(i)
  PROVE  /\ IInv' /\ had' = had
         /\ \/ view' = view /\ seen' = seen
            \/ view' = Cold /\ seen' = seen
            \/ /\ seen' = Base + 1 /\ seen' \in DOMAIN had /\ had[seen'][2] # Withdrawn
               /\ view' = At(had[seen'])
<1>1. /\ sub[i].tail # <<>> /\ sub' = [sub EXCEPT ![i].tail = Tail(@)]
      /\ UNCHANGED <<source, had, up, wire, binding, starts, changes, rebinds>>
  BY DEF Deliver
<1>2. CASE binding.rev # sub[i].rev
  <2>1. UNCHANGED <<view, seen, faulty>>
    BY <1>2 DEF Deliver
  <2>2. UNCHANGED <<source, had, wire, up, clientVars, changes>>
    BY <1>1, <2>1 DEF clientVars
  <2>3. IInv'
    BY ONLY <1>1, <1>2, <2>2, IInv, i \in Subs, IgnoreKeeps
  <2>. QED BY <1>1, <2>1, <2>3
<1>3. CASE binding.rev = sub[i].rev
  <2>1. Show(Updated(Head(sub[i].tail))) /\ faulty' = (faulty \/ ~Fits(Head(sub[i].tail)))
    BY <1>3 DEF Deliver
  <2>2. UNCHANGED <<source, had, up, wire, binding, starts, changes>>
    BY <1>1
  <2>3. /\ IInv'
        /\ \/ view' = Cold /\ seen' = seen
           \/ /\ seen' = Base + 1 /\ seen' \in DOMAIN had /\ had[seen'][2] # Withdrawn
              /\ view' = At(had[seen'])
    BY ONLY <1>1, <1>3, <2>1, <2>2, IInv, i \in Subs, DeliverKeeps
  <2>. QED BY <1>1, <2>3
<1>. QED BY <1>2, <1>3

\* The invariant holds at first, with no subscription.
LEMMA InitOK ==
  ASSUME Init
  PROVE  IInv
<1>0. /\ source = [inst |-> 1, provided |-> TRUE, seq |-> 0, dirty |-> FALSE]
      /\ had = << <<1, 0>> >>
      /\ up = TRUE /\ wire = <<>> /\ sub = <<>>
      /\ binding = [rev |-> 0, bound |-> TRUE, sub |-> 0]
      /\ starts = {[rev |-> 0, after |-> 0]}
      /\ view = Cold /\ seen = 0 /\ faulty = FALSE /\ changes = 0
  BY DEF Init
<1>1. /\ MaxChanges \in Nat /\ Withdrawn \in Nat \ {0}
  BY SubscriptionAssumption DEF Withdrawn
<1>2. Subs = {} /\ DOMAIN wire = {}
  BY <1>0 DEF Subs
<1>3. Len(had) = 1 /\ DOMAIN had = {1} /\ had[1] = <<1, 0>> /\ had[1][1] = 1 /\ had[1][2] = 0
  BY <1>0
<1>4. Typed
  <2>1. had \in Seq(Pairs)
    BY <1>0 DEF Pairs
  <2>2. wire \in Seq(Frames) /\ sub \in Seq(Subscriptions)
    BY <1>0
  <2>3. view \in [seq: Nat, val: Pairs]
    BY <1>0 DEF Cold, Pairs
  <2>4. source \in [inst: Nat \ {0}, provided: BOOLEAN, seq: Nat, dirty: BOOLEAN]
    BY <1>0
  <2>5. /\ binding \in [rev: Nat, bound: BOOLEAN, sub: Subs \cup {0}]
        /\ starts \subseteq [rev: Nat, after: Subs \cup {0}]
    BY <1>0, <1>2
  <2>6. up \in BOOLEAN /\ seen \in Nat /\ faulty \in BOOLEAN /\ changes \in 0..MaxChanges
    <3>1. up = TRUE /\ faulty = FALSE
      BY ONLY <1>0
    <3>2. up \in BOOLEAN /\ faulty \in BOOLEAN
      BY ONLY <3>1
    <3>3. seen = 0 /\ changes = 0 /\ MaxChanges \in Nat
      BY ONLY <1>0, <1>1
    <3>4. seen \in Nat /\ changes \in 0..MaxChanges
      BY ONLY <3>3
    <3>. QED BY ONLY <3>2, <3>4
  <2>7. \A k \in DOMAIN wire : wire[k].sub \in Subs
    BY <1>2
  <2>. QED BY ONLY <2>1, <2>2, <2>3, <2>4, <2>5, <2>6, <2>7 DEF Typed
<1>5. Counted
  BY <1>0 DEF Counted
<1>6. Ascends
  <2>1. Rises(had)
    BY <1>3 DEF Rises
  <2>2. had[Len(had)] = Value /\ source.provided /\ had # <<>>
    BY <1>0, <1>3 DEF Value
  <2>. QED BY <1>1, <1>3, <2>1, <2>2 DEF Ascends
<1>7. Revisions /\ Joint /\ HeldBack /\ Streams
  BY <1>0, <1>2 DEF Revisions, Joint, HeldBack, Streams
<1>8. Bound
  BY <1>0, <1>2, <1>3 DEF Bound
<1>. QED BY <1>0, <1>4, <1>5, <1>6, <1>7, <1>8 DEF IInv

\* A step that changes nothing.
LEMMA StutterKeeps ==
  ASSUME IInv, UNCHANGED vars
  PROVE  IInv'
<1>0. Typed /\ Ascends /\ Counted /\ ~faulty
  BY DEF IInv
<1>a. UNCHANGED <<source, had, up, wire, sub, binding, starts, view, seen, faulty, changes>>
  BY DEF vars
<1>1. Revisions' /\ Bound' /\ HeldBack' /\ Streams' /\ Joint'
  BY <1>a, RestStays
<1>4. Typed'
  BY <1>0, <1>a DEF Typed, Subs
<1>5. Counted' /\ Ascends'
  BY <1>0, <1>a DEF Counted, Ascends, Value
<1>. QED BY <1>0, <1>a, <1>1, <1>4, <1>5 DEF IInv

\* Every step keeps the invariant.
LEMMA NextOK ==
  ASSUME IInv, [Next]_vars
  PROVE  IInv'
<1>1. CASE Mutate
  BY <1>1, MutateKeeps
<1>2. CASE Publish
  BY <1>2, PublishKeeps
<1>3. CASE Replace
  BY <1>3, ReplaceKeeps
<1>4. CASE Withdraw
  BY <1>4, WithdrawKeeps
<1>5. ASSUME NEW i \in Subs, ServerStep(i)
      PROVE  IInv'
  <2>1. CASE Subscribe(i)
    BY <2>1, SubscribeActionKeeps
  <2>2. CASE Respond(i)
    BY <2>2, RespondKeeps
  <2>3. CASE Flush(i)
    BY <2>3, FlushActionKeeps
  <2>4. CASE Unsubscribe(i)
    BY <2>4, UnsubscribeKeeps
  <2>. QED BY <1>5, <2>1, <2>2, <2>3, <2>4 DEF ServerStep
<1>6. ASSUME NEW i \in Subs, ClientStep(i)
      PROVE  IInv'
  <2>1. CASE Install(i)
    BY <2>1, InstallActionKeeps
  <2>2. CASE Deliver(i)
    BY <2>2, DeliverActionKeeps
  <2>3. CASE Drained(i)
    BY <2>3, DrainedKeeps
  <2>. QED BY <1>6, <2>1, <2>2, <2>3 DEF ClientStep
<1>7. CASE Begin
  BY <1>7, StartKeeps DEF Begin
<1>8. CASE Receive
  BY <1>8, ReceiveKeeps
<1>9. CASE \E b \in BOOLEAN : Rebind(b)
  BY <1>9, RebindKeeps
<1>10. CASE Drop
  BY <1>10, DropKeeps
<1>11. CASE Reconnect
  BY <1>11, ReconnectKeeps
<1>12. CASE UNCHANGED vars
  BY <1>12, StutterKeeps
<1>. QED BY <1>1, <1>2, <1>3, <1>4, <1>5, <1>6, <1>7, <1>8, <1>9, <1>10, <1>11, <1>12 DEF Next

\* The invariant holds in every state, for any number of changes, rebindings
\* and lost connections (provider.ts, state.ts, consumer.ts, client.ts).
THEOREM Inductive == Spec => []IInv
<1>1. Init => IInv
  BY InitOK
<1>2. IInv /\ [Next]_vars => IInv'
  BY NextOK
<1>. QED BY <1>1, <1>2, PTL DEF Spec

-----------------------------------------------------------------------------
(***************************************************************************)
(* What follows from it.                                                   *)
(***************************************************************************)
\* What the view shows: the value at the position it was last told of.
LEMMA ShowsSeen ==
  ASSUME Typed, Bound, view # Cold
  PROVE  seen \in DOMAIN had /\ view = At(had[seen]) /\ view.val = had[seen]
<1>1. PICK r : Continues(r)
  BY DEF Bound
<1>2. seen \in DOMAIN had /\ view = At(had[seen])
  BY <1>1 DEF Continues, Base
<1>. QED BY <1>2 DEF At

\* No update reaches a replica out of order, twice, before its snapshot or for
\* a value it does not hold (ReplicatedStateReplica.update in state.ts).
THEOREM NoGap == Spec => []GapFree
<1>1. IInv => GapFree
  <2>. SUFFICES ASSUME IInv PROVE GapFree
    OBVIOUS
  <2>1. Typed /\ Counted /\ Ascends /\ Joint /\ Bound /\ ~faulty
    BY DEF IInv
  <2>2. MaxChanges \in Nat
    BY SubscriptionAssumption
  <2>3. source.inst \in 1..(MaxChanges + 1) /\ source.seq \in 0..MaxChanges
    BY <2>1, <2>2 DEF Typed, Counted
  <2>4. ASSUME NEW i \in Subs
        PROVE  /\ sub[i].srv \in Subscribers \cup {"asked", "closed"}
               /\ sub[i].cli \in {"asking", "answered", "open", "disposing", "drained", "failed", "gone"}
               /\ sub[i].srv = "asked" => sub[i].cli = "asking"
    <3>1. sub[i] \in Subscriptions /\ Halves(sub[i])
      BY <2>1, SubFields DEF Joint
    <3>2. PICK r \in Subscriptions : r = sub[i] /\ Halves(r)
      BY <3>1
    <3>3. /\ r.srv \in Subscribers \cup {"asked", "closed"}
          /\ r.cli \in {"asking", "answered", "open", "disposing", "drained", "failed", "gone"}
      BY DEF Subscriptions
    <3>4. r.srv = "asked" => r.cli = "asking"
      BY <3>2 DEF Halves
    <3>. QED BY <3>2, <3>3, <3>4
  <2>5. /\ binding.sub \in Subs \cup {0} /\ \A t \in starts : t.after \in Subs \cup {0}
        /\ \A k \in DOMAIN wire : wire[k].sub \in Subs
    BY <2>1 DEF Typed
  <2>6. view.val # Corrupt
    <3>1. CASE view = Cold
      BY <3>1 DEF Cold, Corrupt
    <3>2. CASE view # Cold
      <4>1. PICK v : v = view.val /\ v[1] # 0
        BY <2>1, <3>2, ShowsSeen DEF Ascends
      <4>. QED BY <4>1 DEF Corrupt
    <3>. QED BY <3>1, <3>2
  <2>. QED BY <2>1, <2>3, <2>4, <2>5, <2>6 DEF GapFree, TypeOK
<1>. QED BY <1>1, Inductive, PTL

-----------------------------------------------------------------------------
(***************************************************************************)
(* The refinement of ReplicatedState.                                      *)
(***************************************************************************)
Values == (1..(MaxChanges + 1)) \X (0..MaxChanges)
Absences == (1..(MaxChanges + 1)) \X {Withdrawn}
Shown == IF view = Cold THEN 0 ELSE Position(view.val)

\* The position the view shows is the one it was last told of.
LEMMA ShownIs ==
  ASSUME IInv
  PROVE  /\ Shown = IF view = Cold THEN 0 ELSE seen
         /\ view # Cold => seen \in DOMAIN had /\ seen \in Nat \ {0} /\ Base = seen
<1>1. Typed /\ Bound /\ Ascends
  BY DEF IInv
<1>2. CASE view = Cold
  BY <1>2 DEF Shown
<1>3. CASE view # Cold
  <2>1. seen \in DOMAIN had /\ view.val = had[seen]
    BY <1>1, <1>3, ShowsSeen
  <2>2. Position(view.val) = seen
    BY <1>1, <2>1, PositionIs DEF Ascends, Typed
  <2>3. seen \in Nat \ {0}
    BY <1>1, <2>1, LenProperties DEF Typed
  <2>. QED BY <1>3, <2>1, <2>2, <2>3 DEF Shown, Base
<1>. QED BY <1>2, <1>3

\* The same in the next state.
LEMMA ShownNext ==
  ASSUME IInv'
  PROVE  Shown' = IF view' = Cold THEN 0 ELSE seen'
<1>1. Typed' /\ Bound' /\ Ascends'
  BY DEF IInv
<1>2. CASE view' = Cold
  BY <1>2 DEF Shown
<1>3. CASE view' # Cold
  <2>1. PICK r : Continues(r)'
    BY <1>1, <1>3 DEF Bound
  <2>2. seen' \in DOMAIN had' /\ view' = At(had'[seen'])
    BY <1>3, <2>1 DEF Continues, Base
  <2>3. PICK h \in Seq(Pairs), p \in Nat : p \in DOMAIN h /\ h = had' /\ p = seen'

    BY <1>1, <2>2 DEF Typed
  <2>v. PICK v : v = view'.val
    OBVIOUS
  <2>4. h[p] = v /\ Rises(h)
    BY <1>1, <2>2, <2>3, <2>v DEF At, Ascends
  <2>5. \A k \in DOMAIN h : h[k] = v => k = p
    BY ONLY <2>3, <2>4, h \in Seq(Pairs), Once
  <2>6. (IF \E k \in DOMAIN h : h[k] = v THEN CHOOSE k \in DOMAIN h : h[k] = v ELSE 0) = p
    BY <2>3, <2>4, <2>5
  <2>. QED BY <1>3, <2>3, <2>v, <2>6 DEF Shown, Position
<1>. QED BY <1>2, <1>3

\* What is published is a value of the state or an absence.
LEMMA ValueIs ==
  ASSUME IInv
  PROVE  Value \in Values /\ <<source.inst, Withdrawn>> \in Absences
<1>1. Typed /\ Counted /\ MaxChanges \in Nat
  BY SubscriptionAssumption DEF IInv
<1>2. source.inst \in 1..(MaxChanges + 1) /\ source.seq \in 0..MaxChanges
  BY <1>1 DEF Typed, Counted
<1>. QED BY <1>2 DEF Value, Values, Absences

\* The same in the next state.
LEMMA ValueNext ==
  ASSUME IInv'
  PROVE  Value' \in Values /\ <<source'.inst, Withdrawn>> \in Absences
<1>1. Typed' /\ Counted' /\ MaxChanges \in Nat
  BY SubscriptionAssumption DEF IInv
<1>2. source'.inst \in 1..(MaxChanges + 1) /\ source'.seq \in 0..MaxChanges
  BY <1>1 DEF Typed, Counted
<1>. QED BY <1>2 DEF Value, Values, Absences

\* A value of the history that is no absence.
LEMMA PublishedValue ==
  ASSUME IInv, NEW p \in DOMAIN had, had[p][2] # Withdrawn
  PROVE  had[p] \in Values
<1>1. Typed /\ Counted /\ Ascends /\ MaxChanges \in Nat
  BY SubscriptionAssumption DEF IInv
<1>2. PICK v \in Pairs : v = had[p] /\ v[1] \in Nat \ {0} /\ v[2] \in Nat /\ v[2] <= Withdrawn
  <2>1. had[p] \in Pairs
    BY <1>1, ElementOfSeq, LenProperties DEF Typed
  <2>. QED BY <1>1, <2>1 DEF Ascends, Pairs
<1>3. PICK n \in Nat : n = Len(had) /\ p \in 1..n /\ n \in DOMAIN had
  <2>1. Len(had) \in Nat /\ DOMAIN had = 1..Len(had)
    BY <1>1, LenProperties DEF Typed
  <2>2. PICK n \in Nat : n = Len(had)
    BY <2>1
  <2>3. p \in 1..n
    BY <2>1, <2>2
  <2>4. n \in 1..n
    BY ONLY <2>3, n \in Nat
  <2>. QED BY <2>1, <2>2, <2>3, <2>4
<1>4. had[n][1] = source.inst /\ source.inst \in 1..(MaxChanges + 1)
  <2>1. had[n][1] = source.inst
    BY <1>1, <1>3 DEF Ascends, Value
  <2>2. source.inst \in 1..(MaxChanges + 1)
    BY <1>1 DEF Typed, Counted
  <2>. QED BY <2>1, <2>2
<1>5. v[1] <= source.inst
  <2>1. CASE p = n
    BY <1>2, <1>4, <2>1
  <2>2. CASE p # n
    <3>1. Before(v, had[n])
      BY <1>1, <1>2, <1>3, <2>2 DEF Ascends, Rises
    <3>. QED BY <1>2, <1>4, <3>1 DEF Before
  <2>. QED BY <2>1, <2>2
<1>6. v[1] \in 1..(MaxChanges + 1) /\ v[2] \in 0..MaxChanges
  BY <1>1, <1>2, <1>4, <1>5 DEF Withdrawn
<1>. QED BY <1>2, <1>6 DEF Values, Pairs

\* A step that leaves the view alone publishes at most.
LEMMA ViewStays ==
  ASSUME IInv, IInv', UNCHANGED <<view, seen>>,
         had' = had \/ \E v \in Values \cup Absences : had' = Append(had, v)
  PROVE  [Remote!Next]_<<had, Shown, seen>>
<1>1. Shown' = Shown
  BY ShownIs, ShownNext
<1>. QED BY <1>1 DEF Remote!Next, Remote!Publish, Shown, Values, Absences

\* At first one value is published and none is shown.
LEMMA InitRefines ==
  ASSUME Init
  PROVE  Remote!Init
<1>1. had = << <<1, 0>> >> /\ view = Cold /\ seen = 0
  BY DEF Init
<1>2. <<1, 0>> \in Values
  <2>1. MaxChanges \in Nat
    BY SubscriptionAssumption
  <2>. QED BY <2>1 DEF Values
<1>. QED BY <1>1, <1>2 DEF Remote!Init, Values

\* The snapshot is a value the state has had, none older than the last one shown.
LEMMA InstallHydrates ==
  ASSUME IInv, NEW i \in Subs, Install(i)
  PROVE  [Remote!Next]_<<had, Shown, seen>>
<1>1. /\ IInv' /\ had' = had
      /\ \/ view' = view /\ seen' = seen
         \/ /\ view = Cold /\ view' # Cold /\ seen' \in DOMAIN had /\ seen <= seen'
            /\ view' = At(had[seen']) /\ had[seen'][2] # Withdrawn
  BY ONLY IInv, i \in Subs, Install(i), InstallActionKeeps
<1>2. CASE view' = view /\ seen' = seen
  BY <1>1, <1>2, ViewStays
<1>3. CASE /\ view = Cold /\ view' # Cold /\ seen' \in DOMAIN had /\ seen <= seen'
           /\ view' = At(had[seen']) /\ had[seen'][2] # Withdrawn
  <2>1. PICK p \in DOMAIN had : p = seen'
    BY <1>3
  <2>2. had[p] \in Values
    BY <1>3, <2>1, PublishedValue
  <2>3. Shown = 0 /\ Shown' = p
    BY <1>1, <1>3, <2>1, ShownIs, ShownNext
  <2>4. p \in seen..Len(had)
    <3>1. Typed
      BY DEF IInv
    <3>2. DOMAIN had = 1..Len(had) /\ Len(had) \in Nat /\ seen \in Nat
      BY <3>1, LenProperties DEF Typed
    <3>. QED BY <1>3, <2>1, <3>2
  <2>. QED BY <1>1, <2>1, <2>2, <2>3, <2>4
           DEF Remote!Next, Remote!Hydrate, Remote!Shows, Shown, Values
<1>. QED BY <1>1, <1>2, <1>3

\* An update shows the value that comes next, or clears the view.
LEMMA DeliverAdvances ==
  ASSUME IInv, NEW i \in Subs, Deliver(i)
  PROVE  [Remote!Next]_<<had, Shown, seen>>
<1>1. /\ IInv' /\ had' = had
      /\ \/ view' = view /\ seen' = seen
         \/ view' = Cold /\ seen' = seen
         \/ /\ seen' = Base + 1 /\ seen' \in DOMAIN had /\ had[seen'][2] # Withdrawn
            /\ view' = At(had[seen'])
  BY ONLY IInv, i \in Subs, Deliver(i), DeliverActionKeeps
<1>2. CASE view' = view /\ seen' = seen
  BY <1>1, <1>2, ViewStays
<1>3. CASE view' = Cold /\ seen' = seen
  <2>1. Shown' = 0
    BY <1>1, <1>3, ShownNext
  <2>. QED BY <1>1, <1>3, <2>1 DEF Remote!Next, Remote!Clear, Shown
<1>4. CASE /\ seen' = Base + 1 /\ seen' \in DOMAIN had /\ had[seen'][2] # Withdrawn
           /\ view' = At(had[seen'])
  <2>0. Typed
    BY DEF IInv
  <2>1. PICK p \in DOMAIN had : p = seen' /\ p \in Nat /\ p <= Len(had) /\ Len(had) \in Nat
    BY <1>4, <2>0, LenProperties DEF Typed
  <2>2. had[p] \in Values
    BY <1>4, <2>1, PublishedValue
  <2>3. view' # Cold
    <3>1. PICK v : v = had[p] /\ v[2] \in Nat
      BY <2>2 DEF Values
    <3>2. At(v).seq # 0 /\ Cold.seq = 0
      BY <3>1 DEF At, Cold
    <3>. QED BY <1>4, <2>1, <3>1, <3>2
  <2>4. Shown' = p
    BY <1>1, <2>1, <2>3, ShownNext
  <2>5. CASE view = Cold
    <3>1. Shown = 0 /\ Base = seen + 1
      BY <2>5, ShownIs DEF Base
    <3>2. p \in seen..Len(had)
      <4>1. seen \in Nat
        BY <2>0 DEF Typed
      <4>. QED BY <1>4, <2>1, <3>1, <4>1
    <3>. QED BY <1>1, <2>1, <2>2, <2>4, <3>1, <3>2
             DEF Remote!Next, Remote!Hydrate, Remote!Shows, Shown, Values
  <2>6. CASE view # Cold
    <3>1. Shown = seen /\ Base = seen /\ seen \in Nat \ {0}
      BY <2>6, ShownIs
    <3>2. Shown > 0 /\ p = Shown + 1
      BY <1>4, <2>1, <3>1
    <3>. QED BY <1>1, <2>1, <2>2, <2>4, <3>2
             DEF Remote!Next, Remote!Advance, Remote!Shows, Shown, Values
  <2>. QED BY <2>5, <2>6
<1>. QED BY <1>1, <1>2, <1>3, <1>4

\* Binding again clears the view at once.
LEMMA RebindClears ==
  ASSUME IInv, IInv', NEW b \in BOOLEAN, Rebind(b)
  PROVE  [Remote!Next]_<<had, Shown, seen>>
<1>1. view' = Cold /\ UNCHANGED <<had, seen>>
  BY DEF Rebind
<1>2. Shown' = 0
  BY <1>1, ShownNext
<1>. QED BY <1>1, <1>2 DEF Remote!Next, Remote!Clear, Shown

\* Every step is one of ReplicatedState, or a stutter.
LEMMA StepRefines ==
  ASSUME IInv, [Next]_vars
  PROVE  [Remote!Next]_<<had, Shown, seen>>
<1>0. IInv'
  BY NextOK
<1>1. CASE Publish
  BY <1>0, <1>1, ViewStays, ValueNext DEF Publish, clientVars
<1>2. CASE Replace
  BY <1>0, <1>2, ViewStays, ValueNext DEF Replace, clientVars
<1>3. CASE Withdraw
  BY <1>0, <1>3, ViewStays, ValueIs DEF Withdraw, clientVars
<1>4. ASSUME NEW i \in Subs, ServerStep(i)
      PROVE  [Remote!Next]_<<had, Shown, seen>>
  <2>1. CASE Subscribe(i)
    <3>1. UNCHANGED <<view, seen>> /\ (had' = had \/ had' = Append(had, Value'))
      BY <2>1 DEF Subscribe, clientVars
    <3>. QED BY <1>0, <3>1, ViewStays, ValueNext
  <2>2. CASE Respond(i) \/ Flush(i) \/ Unsubscribe(i)
    <3>1. UNCHANGED <<had, view, seen>>
      BY <2>2 DEF Respond, Flush, Unsubscribe, clientVars
    <3>. QED BY <1>0, <3>1, ViewStays
  <2>. QED BY <1>4, <2>1, <2>2 DEF ServerStep
<1>5. ASSUME NEW i \in Subs, ClientStep(i)
      PROVE  [Remote!Next]_<<had, Shown, seen>>
  <2>1. CASE Install(i)
    BY <2>1, InstallHydrates
  <2>2. CASE Deliver(i)
    BY <2>2, DeliverAdvances
  <2>3. CASE Drained(i)
    <3>1. UNCHANGED <<had, view, seen>>
      BY <2>3 DEF Drained, clientVars
    <3>. QED BY <1>0, <3>1, ViewStays
  <2>. QED BY <1>5, <2>1, <2>2, <2>3 DEF ClientStep
<1>6. CASE \E b \in BOOLEAN : Rebind(b)
  BY <1>0, <1>6, RebindClears
<1>7. CASE Mutate \/ Begin \/ Receive \/ Drop \/ Reconnect \/ UNCHANGED vars
  <2>1. UNCHANGED <<had, view, seen>>
    BY <1>7 DEF Mutate, Begin, Start, Receive, Drop, Reconnect, vars, clientVars
  <2>. QED BY <1>0, <2>1, ViewStays
<1>. QED BY <1>1, <1>2, <1>3, <1>4, <1>5, <1>6, <1>7 DEF Next

\* A view of the state shows values it has had, one after another without
\* skipping or repeating any, a withdrawal clears it, and it never starts again
\* at an older value (consumer.ts over provider.ts, server.ts and client.ts).
THEOREM Implements == Spec => ViewSpec
<1>1. Init => Remote!Init
  BY InitRefines
<1>2. IInv /\ [Next]_vars => [Remote!Next]_<<had, Shown, seen>>
  BY StepRefines
<1>. QED BY <1>1, <1>2, Inductive, PTL DEF Spec, ViewSpec, Remote!Spec, Shown
=============================================================================
