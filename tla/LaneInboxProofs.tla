--------------------------- MODULE LaneInboxProofs ---------------------------
(***************************************************************************)
(* No drain of the inbox loses, repeats or overtakes an item, a run takes  *)
(* all the input that is there for it, and next-run messages wait, for any *)
(* number of items, operations and interleavings.                          *)
(*                                                                         *)
(* `Stored` is about the values of the branch, the inbox, the payload rows *)
(* and the ids given back; what an action does to them is one of four      *)
(* changes (place, put, stage, remove), each with its lemma.               *)
(***************************************************************************)
EXTENDS LaneInbox, FiniteSetTheorems, SequenceTheorems, WellFoundedInduction, TLAPS

Rows == Items \cup {HookEntry}
Elems(s) == {s[i] : i \in DOMAIN s}
Ascends(s) == \A i, j \in DOMAIN s : i < j => s[i].id < s[j].id
PlacedIn(b) == {x \in Ids(b) : x # 0}

\* Items of a class wait behind those that are on the branch already.
Behind(b, x) ==
  \A i \in DOMAIN b, j \in DOMAIN x : Class(b[i]) = Class(x[j]) => b[i].id < x[j].id

Ordered(b) ==
  \A i, j \in DOMAIN b : i < j /\ Class(b[i]) = Class(b[j]) /\ b[i].kind # "hook" =>
    b[i].id < b[j].id

Stored(b, x, p, g, n) ==
  /\ b \in Seq(Rows) /\ x \in Seq(Items) /\ n \in 0..MaxItems
  /\ p = Ids(x)
  /\ 1..n = Ids(x) \cup PlacedIn(b) \cup g
  /\ Ids(x) \cap PlacedIn(b) = {} /\ g \cap (Ids(x) \cup PlacedIn(b)) = {}
  /\ \A i, j \in DOMAIN b : b[i].id = b[j].id /\ b[i].id # 0 => i = j
  /\ Ascends(x) /\ Ordered(b) /\ Behind(b, x)

Plans == [known: BOOLEAN, entries: Seq(Items)]

Driven ==
  /\ operation \in Operations \cup {NoOp}
  /\ last \in {"none", "completed", "failed", "aborted"}
  /\ plan \in Plans
  /\ plan.known => operation.at \in {"checkpoint", "structural"} /\ operation.cont = "may_finish"
  /\ hooks \in 0..MaxHooks /\ rounds \in 0..MaxRounds

StoredNow == Stored(branch, inbox, payloads, gone, admitted)

IInv == StoredNow /\ Driven
-----------------------------------------------------------------------------
(***************************************************************************)
(* The least element of a set of numbers, from which the inductions here   *)
(* are made: a least counterexample has none below it.                     *)
(***************************************************************************)
LEMMA SmallestOf ==
  ASSUME NEW S \in SUBSET Nat, S # {}
  PROVE  \E m \in S : \A n \in S : m <= n
<1>. DEFINE Below == {1..n : n \in S}
<1>. DEFINE R == StrictSubsetOrdering(Nat)
<1>1. Below \subseteq FiniteSubsetsOf(Nat)
  BY FS_Interval DEF FiniteSubsetsOf
<1>2. \E x \in Below : \A y \in Below : ~(<<y, x>> \in R)
  <2>1. IsWellFoundedOn(R, FiniteSubsetsOf(Nat))
    BY FS_StrictSubsetOrderingWellFounded
  <2>2. Below # {}
    OBVIOUS
  <2>. HIDE DEF R, Below
  <2>. QED BY <1>1, <2>1, <2>2, WFMin
<1>3. PICK m \in S : \A y \in Below : ~(<<y, 1..m>> \in R)
  BY <1>2
<1>4. ASSUME NEW n \in S, n < m PROVE FALSE
  <2>1. 1..n \subseteq 1..m /\ 1..n # 1..m
    BY <1>4
  <2>2. 1..n \in SUBSET Nat /\ 1..m \in SUBSET Nat /\ 1..n \in Below
    OBVIOUS
  <2>3. <<1..n, 1..m>> \in R
    BY <2>1, <2>2 DEF StrictSubsetOrdering
  <2>. QED BY <1>3, <2>2, <2>3
<1>. QED BY <1>4

\* If no number up to N is the least bad one, none is bad.
LEMMA NoLeastBad ==
  ASSUME NEW N \in Nat, NEW Bad \in SUBSET (0..N),
         \A m \in Bad : m # 0 /\ m - 1 \in Bad
  PROVE  Bad = {}
<1>1. ASSUME Bad # {} PROVE FALSE
  <2>1. PICK m \in Bad : \A n \in Bad : m <= n
    BY <1>1, SmallestOf
  <2>2. m \in Nat /\ m - 1 \in Bad
    BY <2>1
  <2>. QED BY <2>1, <2>2
<1>. QED BY <1>1
-----------------------------------------------------------------------------
(***************************************************************************)
(* What a selection from the inbox returns.                                *)
(***************************************************************************)
\* The recursion that Selection is made of, as an equation up to N.
Selects(f, items, ids, N) ==
  f = [n \in 0..N |->
         IF n = 0 THEN <<>>
         ELSE IF items[n].id \in ids THEN Append(f[n - 1], items[n]) ELSE f[n - 1]]

LEMMA SelectsExists ==
  ASSUME NEW items, NEW ids, NEW N \in Nat
  PROVE  \E f : Selects(f, items, ids, N)
<1>. DEFINE Bad == {m \in 0..N : ~\E f : Selects(f, items, ids, m)}
<1>1. ASSUME NEW m \in 0..N, m = 0 PROVE \E f : Selects(f, items, ids, m)
  <2>. DEFINE f == [n \in 0..m |-> <<>>]
  <2>1. f = [n \in 0..m |->
         IF n = 0 THEN <<>>
         ELSE IF items[n].id \in ids THEN Append(f[n - 1], items[n]) ELSE f[n - 1]]
    BY <1>1
  <2>. QED BY <2>1 DEF Selects
<1>2. ASSUME NEW m \in 0..N, m # 0, NEW g, Selects(g, items, ids, m - 1)
      PROVE  \E f : Selects(f, items, ids, m)
  <2>. DEFINE Next1(h, n) == IF items[n].id \in ids THEN Append(h[n - 1], items[n]) ELSE h[n - 1]
  <2>. DEFINE f == [n \in 0..m |-> IF n = m THEN Next1(g, m) ELSE g[n]]
  <2>1. \A n \in 0..(m - 1) : g[n] = IF n = 0 THEN <<>> ELSE Next1(g, n)
    BY <1>2 DEF Selects
  <2>2. \A n \in 1..m : f[n - 1] = g[n - 1]
    BY <1>2
  <2>3. \A n \in 1..m : Next1(f, n) = Next1(g, n)
    BY <2>2
  <2>4. \A n \in 0..m : f[n] = IF n = 0 THEN <<>> ELSE Next1(f, n)
    <3>1. ASSUME NEW n \in 0..m, n = m PROVE f[n] = IF n = 0 THEN <<>> ELSE Next1(f, n)
      <4>. HIDE DEF Next1
      <4>. QED BY <1>2, <3>1, <2>3
    <3>2. ASSUME NEW n \in 0..m, n # m PROVE f[n] = IF n = 0 THEN <<>> ELSE Next1(f, n)
      <4>1. n \in 0..(m - 1) /\ f[n] = g[n]
        BY <1>2, <3>2
      <4>2. n # 0 => n \in 1..m
        OBVIOUS
      <4>. HIDE DEF Next1, f
      <4>. QED BY <4>1, <4>2, <2>1, <2>3
    <3>. QED BY <3>1, <3>2
  <2>5. f = [n \in 0..m |-> f[n]]
    OBVIOUS
  <2>. HIDE DEF f
  <2>6. Selects(f, items, ids, m)
    BY <2>4, <2>5 DEF Selects
  <2>. QED BY <2>6
<1>3. \A m \in Bad : m # 0 /\ m - 1 \in Bad
  <2>. SUFFICES ASSUME NEW m \in Bad PROVE m # 0 /\ m - 1 \in Bad
    OBVIOUS
  <2>1. m \in 0..N /\ ~\E f : Selects(f, items, ids, m)
    OBVIOUS
  <2>2. m # 0
    BY <2>1, <1>1
  <2>3. m - 1 \in 0..N
    BY <2>1, <2>2
  <2>4. ~\E g : Selects(g, items, ids, m - 1)
    BY <2>1, <2>2, <1>2
  <2>. QED BY <2>2, <2>3, <2>4
<1>4. Bad \in SUBSET (0..N)
  OBVIOUS
<1>5. Bad = {}
  <2>. HIDE DEF Bad
  <2>. QED BY <1>3, <1>4, NoLeastBad
<1>6. N \in 0..N
  OBVIOUS
<1>. QED BY <1>5, <1>6

\* What has been selected up to position n.
Right(r, s, ids, n) ==
  /\ r \in Seq(Items) /\ Ascends(r)
  /\ \A i \in DOMAIN r : \E j \in 1..n : r[i] = s[j] /\ s[j].id \in ids
  /\ \A j \in 1..n : s[j].id \in ids => \E i \in DOMAIN r : r[i] = s[j]

LEMMA RightStart ==
  ASSUME NEW s, NEW ids
  PROVE  Right(<<>>, s, ids, 0)
BY DEF Right, Ascends

LEMMA RightGoesOn ==
  ASSUME NEW s \in Seq(Items), Ascends(s), NEW ids, NEW n \in 1..Len(s), NEW r,
         Right(r, s, ids, n - 1)
  PROVE  Right(IF s[n].id \in ids THEN Append(r, s[n]) ELSE r, s, ids, n)
<1>0. n \in DOMAIN s /\ s[n] \in Items /\ r \in Seq(Items) /\ n - 1 \in Nat /\ 1..n = 1..(n - 1) \cup {n}
  BY DEF Right
<1>1. CASE s[n].id \notin ids
  <2>1. \A j \in 1..n : s[j].id \in ids => j \in 1..(n - 1)
    BY <1>1, <1>0
  <2>2. \A j \in 1..(n - 1) : j \in 1..n
    BY <1>0
  <2>. QED BY <1>1, <2>1, <2>2 DEF Right
<1>2. CASE s[n].id \in ids
  <2>. DEFINE q == Append(r, s[n])
  <2>1. /\ q \in Seq(Items) /\ Len(q) = Len(r) + 1 /\ DOMAIN q = 1..(Len(r) + 1)
        /\ \A i \in 1..Len(r) : q[i] = r[i]
        /\ q[Len(r) + 1] = s[n]
    BY <1>0, AppendProperties
  <2>2. DOMAIN r = 1..Len(r) /\ Len(r) \in Nat
    BY <1>0
  <2>. HIDE DEF q
  <2>3. \A i \in DOMAIN r : r[i].id < s[n].id
    <3>. SUFFICES ASSUME NEW i \in DOMAIN r PROVE r[i].id < s[n].id
      OBVIOUS
    <3>1. PICK j \in 1..(n - 1) : r[i] = s[j]
      BY DEF Right
    <3>2. j \in DOMAIN s /\ j < n
      BY <1>0
    <3>. QED BY <3>1, <3>2, <1>0 DEF Ascends
  <2>4. Ascends(q)
    <3>. SUFFICES ASSUME NEW i \in DOMAIN q, NEW j \in DOMAIN q, i < j PROVE q[i].id < q[j].id
      BY DEF Ascends
    <3>1. i \in DOMAIN r
      BY <2>1, <2>2
    <3>2. CASE j \in DOMAIN r
      BY <3>1, <3>2, <2>1, <2>2 DEF Right, Ascends
    <3>3. CASE j = Len(r) + 1
      BY <3>1, <3>3, <2>1, <2>2, <2>3
    <3>. QED BY <3>2, <3>3, <2>1, <2>2
  <2>5. \A i \in DOMAIN q : \E j \in 1..n : q[i] = s[j] /\ s[j].id \in ids
    <3>. SUFFICES ASSUME NEW i \in DOMAIN q PROVE \E j \in 1..n : q[i] = s[j] /\ s[j].id \in ids
      OBVIOUS
    <3>1. CASE i \in DOMAIN r
      <4>1. PICK j \in 1..(n - 1) : r[i] = s[j] /\ s[j].id \in ids
        BY <3>1 DEF Right
      <4>. QED BY <4>1, <3>1, <2>1, <2>2, <1>0
    <3>2. CASE i = Len(r) + 1
      BY <3>2, <2>1, <1>2, <1>0
    <3>. QED BY <3>1, <3>2, <2>1, <2>2
  <2>6. \A j \in 1..n : s[j].id \in ids => \E i \in DOMAIN q : q[i] = s[j]
    <3>. SUFFICES ASSUME NEW j \in 1..n, s[j].id \in ids PROVE \E i \in DOMAIN q : q[i] = s[j]
      OBVIOUS
    <3>1. CASE j = n
      BY <3>1, <2>1, <2>2
    <3>2. CASE j \in 1..(n - 1)
      <4>1. PICK i \in DOMAIN r : r[i] = s[j]
        BY <3>2 DEF Right
      <4>. QED BY <4>1, <2>1, <2>2
    <3>. QED BY <3>1, <3>2, <1>0
  <2>7. q = IF s[n].id \in ids THEN Append(r, s[n]) ELSE r
    BY <1>2 DEF q
  <2>8. q \in Seq(Items)
    BY <2>1
  <2>9. Right(q, s, ids, n)
    BY ONLY <2>4, <2>5, <2>6, <2>8 DEF Right
  <2>. QED BY ONLY <2>7, <2>9
<1>. QED BY <1>1, <1>2

\* Selection returns the items with these ids, in their order.
LEMMA SelectionIsRight ==
  ASSUME NEW s \in Seq(Items), Ascends(s), NEW ids
  PROVE  Right(Selection(s, ids), s, ids, Len(s))
<1>. DEFINE upTo == CHOOSE f : Selects(f, s, ids, Len(s))
<1>0. Len(s) \in Nat
  OBVIOUS
<1>1. Selects(upTo, s, ids, Len(s))
  BY <1>0, SelectsExists
<1>2. Selection(s, ids) = upTo[Len(s)]
  BY DEF Selection, Selects
<1>. HIDE DEF upTo
<1>3. /\ upTo[0] = <<>>
      /\ \A n \in 1..Len(s) :
           upTo[n] = IF s[n].id \in ids THEN Append(upTo[n - 1], s[n]) ELSE upTo[n - 1]
  <2>. DEFINE Step(n) == IF s[n].id \in ids THEN Append(upTo[n - 1], s[n]) ELSE upTo[n - 1]
  <2>1. upTo = [n \in 0..Len(s) |-> IF n = 0 THEN <<>> ELSE Step(n)]
    BY <1>1 DEF Selects
  <2>2. 0 \in 0..Len(s) /\ \A n \in 1..Len(s) : n \in 0..Len(s) /\ n # 0
    BY <1>0
  <2>. HIDE DEF Step
  <2>3. upTo[0] = <<>> /\ \A n \in 1..Len(s) : upTo[n] = Step(n)
    BY <2>1, <2>2
  <2>. QED BY <2>3 DEF Step
<1>. DEFINE Bad == {m \in 0..Len(s) : ~Right(upTo[m], s, ids, m)}
<1>4. \A m \in Bad : m # 0 /\ m - 1 \in Bad
  <2>. SUFFICES ASSUME NEW m \in 0..Len(s), ~Right(upTo[m], s, ids, m)
                PROVE  m # 0 /\ m - 1 \in 0..Len(s) /\ ~Right(upTo[m - 1], s, ids, m - 1)
    OBVIOUS
  <2>1. m # 0
    BY <1>3, RightStart
  <2>2. m \in 1..Len(s) /\ m - 1 \in 0..Len(s)
    BY <2>1, <1>0
  <2>. QED BY <2>1, <2>2, <1>3, RightGoesOn
<1>5. Bad \in SUBSET (0..Len(s))
  OBVIOUS
<1>6. Bad = {}
  <2>. HIDE DEF Bad
  <2>. QED BY <1>0, <1>4, <1>5, NoLeastBad
<1>7. Len(s) \in 0..Len(s)
  BY <1>0
<1>. QED BY <1>2, <1>6, <1>7
-----------------------------------------------------------------------------
(***************************************************************************)
(* The four changes of the stored items.                                   *)
(***************************************************************************)
\* A drain takes an item only with all older ones of its class.
Closed(x, ids) ==
  \A i, j \in DOMAIN x :
    i < j /\ Class(x[i]) = Class(x[j]) /\ x[j].id \in ids => x[i].id \in ids

\* r and l are the taken and the left part of the inbox x.
Parts(x, ids, r, l) ==
  /\ r \in Seq(Items) /\ l \in Seq(Items) /\ Ascends(r) /\ Ascends(l)
  /\ Ids(r) = ids /\ Ids(l) = Ids(x) \ ids
  /\ \A i \in DOMAIN r : \E j \in DOMAIN x : r[i] = x[j]
  /\ \A i \in DOMAIN l : \E j \in DOMAIN x : l[i] = x[j]

LEMMA SelectionIds ==
  ASSUME NEW x \in Seq(Items), Ascends(x), NEW ids \in SUBSET Ids(x)
  PROVE  LET r == Selection(x, ids)
         IN  /\ r \in Seq(Items) /\ Ascends(r) /\ Ids(r) = ids
             /\ \A i \in DOMAIN r : \E j \in DOMAIN x : r[i] = x[j]
<1>. DEFINE r == Selection(x, ids)
<1>1. Right(r, x, ids, Len(x)) /\ DOMAIN x = 1..Len(x)
  BY SelectionIsRight
<1>. HIDE DEF r
<1>2. \A i \in DOMAIN r : \E j \in DOMAIN x : r[i] = x[j] /\ r[i].id \in ids
  BY <1>1 DEF Right
<1>3. \A k \in ids : \E i \in DOMAIN r : r[i].id = k
  <2>. SUFFICES ASSUME NEW k \in ids PROVE \E i \in DOMAIN r : r[i].id = k
    OBVIOUS
  <2>1. PICK j \in DOMAIN x : x[j].id = k
    BY DEF Ids
  <2>. QED BY <2>1, <1>1 DEF Right
<1>4. Ids(r) = ids
  BY <1>2, <1>3 DEF Ids
<1>5. r \in Seq(Items) /\ Ascends(r)
  BY <1>1 DEF Right
<1>. QED BY <1>2, <1>4, <1>5 DEF r

LEMMA SelectionParts ==
  ASSUME NEW x \in Seq(Items), Ascends(x), NEW ids \in SUBSET Ids(x)
  PROVE  Parts(x, ids, Selection(x, ids), Selection(x, Ids(x) \ ids))
<1>1. Ids(x) \ ids \in SUBSET Ids(x)
  OBVIOUS
<1>. QED BY <1>1, SelectionIds DEF Parts

\* The ids of an inbox are numbers from 1 on, each of one item.
LEMMA IdsOfInbox ==
  ASSUME NEW x \in Seq(Items), Ascends(x)
  PROVE  /\ Ids(x) \in SUBSET (Nat \ {0})
         /\ \A i, j \in DOMAIN x : x[i].id = x[j].id => i = j
         /\ \A i, j \in DOMAIN x : x[i].id < x[j].id => i < j
<1>1. MaxItems \in Nat
  BY InboxAssumption
<1>2. \A i \in DOMAIN x : x[i].id \in Nat /\ x[i].id # 0
  <2>1. \A y \in Items : y.id \in Nat /\ y.id # 0
    BY <1>1 DEF Items
  <2>2. \A i \in DOMAIN x : x[i] \in Items
    OBVIOUS
  <2>. QED BY <2>1, <2>2
<1>3. Ids(x) \in SUBSET (Nat \ {0})
  BY <1>2 DEF Ids
<1>4. DOMAIN x = 1..Len(x) /\ Len(x) \in Nat
  OBVIOUS
<1>5. ASSUME NEW i \in DOMAIN x, NEW j \in DOMAIN x
      PROVE  /\ x[i].id = x[j].id => i = j
             /\ x[i].id < x[j].id => i < j
  <2>1. i \in Nat /\ j \in Nat /\ x[i].id \in Nat /\ x[j].id \in Nat
    BY <1>2, <1>4
  <2>2. (i < j => x[i].id < x[j].id) /\ (j < i => x[j].id < x[i].id)
    BY DEF Ascends
  <2>. QED BY <2>1, <2>2
<1>. QED BY <1>3, <1>5

LEMMA LeftBehind ==
  ASSUME NEW x \in Seq(Items), Ascends(x), NEW ids \in SUBSET Ids(x), Closed(x, ids),
         NEW r, NEW l, Parts(x, ids, r, l)
  PROVE  Behind(r, l)
<1>. SUFFICES ASSUME NEW i \in DOMAIN r, NEW j \in DOMAIN l, Class(r[i]) = Class(l[j])
              PROVE  r[i].id < l[j].id
  BY DEF Behind
<1>1. PICK a \in DOMAIN x : r[i] = x[a]
  BY DEF Parts
<1>2. PICK c \in DOMAIN x : l[j] = x[c]
  BY DEF Parts
<1>3. x[a].id \in ids /\ x[c].id \notin ids
  BY <1>1, <1>2 DEF Parts, Ids
<1>4. ~(c < a) /\ a # c
  BY <1>1, <1>2, <1>3 DEF Closed
<1>5. a < c
  BY <1>4
<1>. QED BY <1>1, <1>2, <1>5 DEF Ascends

\* A removal keeps the rest.
LEMMA RemovingKeeps ==
  ASSUME NEW b, NEW x, NEW p, NEW g, NEW n, Stored(b, x, p, g, n),
         NEW ids \in SUBSET Ids(x), NEW r, NEW l, Parts(x, ids, r, l)
  PROVE  Stored(b, l, p \ ids, g \cup ids, n)
<1>1. p \ ids = Ids(l) /\ Ids(x) = Ids(l) \cup ids /\ Ids(l) \cap ids = {}
  BY DEF Stored, Parts
<1>2. 1..n = Ids(l) \cup PlacedIn(b) \cup (g \cup ids)
  BY <1>1 DEF Stored
<1>3. /\ Ids(l) \cap PlacedIn(b) = {}
      /\ (g \cup ids) \cap (Ids(l) \cup PlacedIn(b)) = {}
  BY <1>1 DEF Stored
<1>4. Behind(b, l)
  BY DEF Stored, Parts, Behind
<1>. QED BY <1>1, <1>2, <1>3, <1>4 DEF Stored, Parts

\* A drain moves what it takes to the end of the branch.
LEMMA PlacingKeeps ==
  ASSUME NEW b, NEW x, NEW p, NEW g, NEW n, Stored(b, x, p, g, n),
         NEW ids \in SUBSET Ids(x), Closed(x, ids), NEW r, NEW l, Parts(x, ids, r, l)
  PROVE  Stored(b \o r, l, p \ ids, g, n)
<1>. DEFINE q == b \o r
<1>0. /\ b \in Seq(Rows) /\ r \in Seq(Rows) /\ x \in Seq(Items) /\ Ascends(x)
      /\ Len(b) \in Nat /\ Len(r) \in Nat
  <2>1. r \in Seq(Items) /\ b \in Seq(Rows) /\ x \in Seq(Items) /\ Ascends(x)
    BY DEF Parts, Stored
  <2>2. r \in Seq(Rows)
    BY <2>1 DEF Rows
  <2>. QED BY <2>1, <2>2
<1>1. /\ q \in Seq(Rows) /\ DOMAIN q = 1..(Len(b) + Len(r))
      /\ DOMAIN b = 1..Len(b) /\ DOMAIN r = 1..Len(r)
      /\ \A i \in 1..Len(b) : q[i] = b[i]
      /\ \A i \in 1..Len(r) : q[Len(b) + i] = r[i]
  BY <1>0, ConcatProperties
<1>. HIDE DEF q
<1>2. \A i \in DOMAIN q : \/ i \in DOMAIN b /\ q[i] = b[i]
                          \/ \E k \in DOMAIN r : i = Len(b) + k /\ q[i] = r[k]
  <2>. SUFFICES ASSUME NEW i \in DOMAIN q, i \notin DOMAIN b
                PROVE  \E k \in DOMAIN r : i = Len(b) + k /\ q[i] = r[k]
    BY <1>1
  <2>1. i - Len(b) \in DOMAIN r /\ i = Len(b) + (i - Len(b))
    BY <1>0, <1>1
  <2>. QED BY <2>1, <1>1
<1>3. Ids(q) = Ids(b) \cup ids
  <2>1. \A i \in DOMAIN b : i \in DOMAIN q /\ q[i] = b[i]
    BY <1>0, <1>1
  <2>2. \A k \in DOMAIN r : Len(b) + k \in DOMAIN q /\ q[Len(b) + k] = r[k]
    BY <1>0, <1>1
  <2>3. Ids(r) = ids
    BY DEF Parts
  <2>4. Ids(q) = Ids(b) \cup Ids(r)
    BY <1>2, <2>1, <2>2 DEF Ids
  <2>. QED BY <2>3, <2>4
<1>4. ids \in SUBSET (Nat \ {0})
  BY <1>0, IdsOfInbox
<1>5. PlacedIn(q) = PlacedIn(b) \cup ids
  BY <1>3, <1>4 DEF PlacedIn
<1>6. p \ ids = Ids(l) /\ Ids(x) = Ids(l) \cup ids /\ Ids(l) \cap ids = {}
  BY DEF Stored, Parts
<1>7. /\ 1..n = Ids(l) \cup PlacedIn(q) \cup g
      /\ Ids(l) \cap PlacedIn(q) = {} /\ g \cap (Ids(l) \cup PlacedIn(q)) = {}
  BY <1>5, <1>6 DEF Stored
<1>8. \A k \in DOMAIN r : r[k].id \in ids /\ r[k].id \in Ids(x) /\ r[k].id # 0
  BY <1>4 DEF Parts, Ids
<1>9. \A i \in DOMAIN b : b[i].id # 0 => b[i].id \notin Ids(x)
  BY DEF Stored, PlacedIn, Ids
<1>10. ASSUME NEW i \in DOMAIN q, NEW j \in DOMAIN q, q[i].id = q[j].id, q[i].id # 0 PROVE i = j
  <2>1. CASE i \in DOMAIN b /\ q[i] = b[i] /\ j \in DOMAIN b /\ q[j] = b[j]
    BY <2>1, <1>10 DEF Stored
  <2>2. CASE \E k \in DOMAIN r, m \in DOMAIN r :
               i = Len(b) + k /\ q[i] = r[k] /\ j = Len(b) + m /\ q[j] = r[m]
    <3>1. PICK k \in DOMAIN r, m \in DOMAIN r :
               i = Len(b) + k /\ q[i] = r[k] /\ j = Len(b) + m /\ q[j] = r[m]
      BY <2>2
    <3>2. r \in Seq(Items) /\ Ascends(r)
      BY DEF Parts
    <3>3. k = m
      BY <3>1, <3>2, <1>10, IdsOfInbox
    <3>. QED BY <3>1, <3>3
  <2>. QED BY <2>1, <2>2, <1>2, <1>8, <1>9, <1>10
<1>11. Ordered(q)
  <2>. SUFFICES ASSUME NEW i \in DOMAIN q, NEW j \in DOMAIN q, i < j,
                       Class(q[i]) = Class(q[j]), q[i].kind # "hook"
                PROVE  q[i].id < q[j].id
    BY DEF Ordered
  <2>1. CASE i \in DOMAIN b /\ q[i] = b[i] /\ j \in DOMAIN b /\ q[j] = b[j]
    BY <2>1 DEF Stored, Ordered
  <2>2. CASE \E m \in DOMAIN r : i \in DOMAIN b /\ q[i] = b[i] /\ j = Len(b) + m /\ q[j] = r[m]
    BY <2>2 DEF Stored, Behind, Parts
  <2>3. CASE \E k \in DOMAIN r, m \in DOMAIN r :
               i = Len(b) + k /\ q[i] = r[k] /\ j = Len(b) + m /\ q[j] = r[m]
    <3>1. PICK k \in DOMAIN r, m \in DOMAIN r :
               i = Len(b) + k /\ q[i] = r[k] /\ j = Len(b) + m /\ q[j] = r[m]
      BY <2>3
    <3>2. k < m
      BY <3>1, <1>0, <1>1
    <3>. QED BY <3>1, <3>2 DEF Parts, Ascends
  <2>4. ~(i \notin DOMAIN b /\ j \in DOMAIN b)
    BY <1>0, <1>1
  <2>. QED BY <2>1, <2>2, <2>3, <2>4, <1>2
<1>12. Behind(q, l)
  <2>1. Behind(r, l)
    BY <1>0, LeftBehind
  <2>2. Behind(b, l)
    BY DEF Stored, Parts, Behind
  <2>. QED BY <2>1, <2>2, <1>2 DEF Behind
<1>13. \A i, j \in DOMAIN q : q[i].id = q[j].id /\ q[i].id # 0 => i = j
  BY <1>10
<1>14. Stored(q, l, p \ ids, g, n)
  BY <1>1, <1>6, <1>7, <1>11, <1>12, <1>13 DEF Stored, Parts
<1>. QED BY <1>14 DEF q
-----------------------------------------------------------------------------
\* What a new last row does to the ids of a branch.
LEMMA AppendedRow ==
  ASSUME NEW S, NEW b \in Seq(S), NEW e \in S
  PROVE  LET q == Append(b, e)
         IN  /\ q \in Seq(S) /\ DOMAIN q = DOMAIN b \cup {Len(b) + 1}
             /\ DOMAIN b = 1..Len(b) /\ Len(b) \in Nat
             /\ \A i \in DOMAIN b : q[i] = b[i]
             /\ q[Len(b) + 1] = e
             /\ Ids(q) = Ids(b) \cup {e.id}
<1>. DEFINE q == Append(b, e)
<1>1. /\ q \in Seq(S) /\ DOMAIN q = DOMAIN b \cup {Len(b) + 1}
      /\ DOMAIN b = 1..Len(b) /\ Len(b) \in Nat
      /\ \A i \in DOMAIN b : q[i] = b[i]
      /\ q[Len(b) + 1] = e
  BY AppendProperties
<1>. HIDE DEF q
<1>2. Ids(q) = Ids(b) \cup {e.id}
  <2>1. \A i \in DOMAIN q : (i \in DOMAIN b /\ q[i] = b[i]) \/ (i = Len(b) + 1 /\ q[i] = e)
    BY <1>1
  <2>2. \A i \in DOMAIN b : i \in DOMAIN q /\ q[i] = b[i]
    BY <1>1
  <2>3. Len(b) + 1 \in DOMAIN q /\ q[Len(b) + 1] = e
    BY <1>1
  <2>. QED BY <2>1, <2>2, <2>3 DEF Ids
<1>. QED BY <1>1, <1>2 DEF q

\* The ids on the branch and in the inbox are admitted ones.
LEMMA IdsAdmitted ==
  ASSUME NEW b, NEW x, NEW p, NEW g, NEW n, Stored(b, x, p, g, n)
  PROVE  /\ n \in Nat /\ MaxItems \in Nat
         /\ \A k \in Ids(x) : k \in Nat /\ k # 0 /\ k <= n
         /\ \A k \in Ids(b) : k \in Nat /\ k <= n
<1>1. n \in Nat /\ MaxItems \in Nat
  BY InboxAssumption DEF Stored
<1>2. Ids(x) \subseteq 1..n /\ PlacedIn(b) \subseteq 1..n
  BY DEF Stored
<1>. QED BY <1>1, <1>2 DEF PlacedIn

\* A new item placed at once, behind all of its class.
LEMMA PuttingKeeps ==
  ASSUME NEW b, NEW x, NEW p, NEW g, NEW n, Stored(b, x, p, g, n), n < MaxItems,
         NEW e \in Items, e.id = n + 1, \A j \in DOMAIN x : Class(x[j]) # Class(e)
  PROVE  Stored(Append(b, e), x, p, g, n + 1)
<1>. DEFINE q == Append(b, e)
<1>0. b \in Seq(Rows) /\ e \in Rows
  BY DEF Stored, Rows
<1>1. /\ q \in Seq(Rows) /\ DOMAIN q = DOMAIN b \cup {Len(b) + 1}
      /\ DOMAIN b = 1..Len(b) /\ Len(b) \in Nat
      /\ \A i \in DOMAIN b : q[i] = b[i]
      /\ q[Len(b) + 1] = e
      /\ Ids(q) = Ids(b) \cup {n + 1}
  BY <1>0, AppendedRow
<1>. HIDE DEF q
<1>2. /\ n \in Nat /\ MaxItems \in Nat
      /\ \A k \in Ids(x) : k \in Nat /\ k # 0 /\ k <= n
      /\ \A k \in Ids(b) : k \in Nat /\ k <= n
  BY IdsAdmitted
<1>3. PlacedIn(q) = PlacedIn(b) \cup {n + 1}
  BY <1>1, <1>2 DEF PlacedIn
<1>4. n + 1 \in 0..MaxItems /\ 1..(n + 1) = 1..n \cup {n + 1} /\ n + 1 \notin 1..n
  BY <1>2
<1>5. /\ 1..(n + 1) = Ids(x) \cup PlacedIn(q) \cup g
      /\ Ids(x) \cap PlacedIn(q) = {} /\ g \cap (Ids(x) \cup PlacedIn(q)) = {}
  BY <1>3, <1>4 DEF Stored
<1>6. \A i \in DOMAIN b : b[i].id \in Nat /\ b[i].id <= n
  BY <1>2 DEF Ids
<1>7. \A i \in DOMAIN q : (i \in DOMAIN b /\ q[i] = b[i]) \/ (i = Len(b) + 1 /\ q[i] = e)
  BY <1>1
<1>8. \A i, j \in DOMAIN q : q[i].id = q[j].id /\ q[i].id # 0 => i = j
  BY <1>2, <1>6, <1>7 DEF Stored
<1>9. Ordered(q)
  <2>. SUFFICES ASSUME NEW i \in DOMAIN q, NEW j \in DOMAIN q, i < j,
                       Class(q[i]) = Class(q[j]), q[i].kind # "hook"
                PROVE  q[i].id < q[j].id
    BY DEF Ordered
  <2>1. i \in DOMAIN b /\ q[i] = b[i]
    BY <1>1
  <2>2. CASE j \in DOMAIN b /\ q[j] = b[j]
    BY <2>1, <2>2 DEF Stored, Ordered
  <2>3. CASE q[j] = e
    BY <2>1, <2>3, <1>2, <1>6
  <2>. QED BY <2>2, <2>3, <1>7
<1>10. Behind(q, x)
  BY <1>7 DEF Stored, Behind
<1>11. Stored(q, x, p, g, n + 1)
  BY <1>1, <1>4, <1>5, <1>8, <1>9, <1>10 DEF Stored
<1>. QED BY <1>11 DEF q

\* The follow-up of a hook has no id and no class of its own in the inbox.
LEMMA HookEntryKeeps ==
  ASSUME NEW b, NEW x, NEW p, NEW g, NEW n, Stored(b, x, p, g, n)
  PROVE  Stored(Append(b, HookEntry), x, p, g, n)
<1>. DEFINE q == Append(b, HookEntry)
<1>0. b \in Seq(Rows) /\ HookEntry \in Rows /\ HookEntry.id = 0 /\ Class(HookEntry) = "hook"
  BY DEF Stored, Rows, HookEntry, Class, IsWrite
<1>1. /\ q \in Seq(Rows) /\ DOMAIN q = DOMAIN b \cup {Len(b) + 1}
      /\ DOMAIN b = 1..Len(b) /\ Len(b) \in Nat
      /\ \A i \in DOMAIN b : q[i] = b[i]
      /\ q[Len(b) + 1] = HookEntry
      /\ Ids(q) = Ids(b) \cup {0}
  BY <1>0, AppendedRow
<1>. HIDE DEF q
<1>2. PlacedIn(q) = PlacedIn(b)
  BY <1>1 DEF PlacedIn
<1>3. \A i \in DOMAIN q : (i \in DOMAIN b /\ q[i] = b[i]) \/ (i = Len(b) + 1 /\ q[i] = HookEntry)
  BY <1>1
<1>4. \A i, j \in DOMAIN q : q[i].id = q[j].id /\ q[i].id # 0 => i = j
  BY <1>0, <1>3 DEF Stored
<1>5. \A y : Class(y) = "hook" => y.kind = "hook"
  BY DEF Class
<1>6. Ordered(q)
  <2>. SUFFICES ASSUME NEW i \in DOMAIN q, NEW j \in DOMAIN q, i < j,
                       Class(q[i]) = Class(q[j]), q[i].kind # "hook"
                PROVE  q[i].id < q[j].id
    BY DEF Ordered
  <2>1. i \in DOMAIN b /\ q[i] = b[i]
    BY <1>1
  <2>2. j \in DOMAIN b /\ q[j] = b[j]
    BY <1>0, <1>3, <1>5
  <2>. QED BY <2>1, <2>2 DEF Stored, Ordered
<1>7. \A j \in DOMAIN x : Class(x[j]) # "hook"
  <2>1. \A j \in DOMAIN x : x[j] \in Items
    BY DEF Stored
  <2>2. \A y \in Items : y.kind # "hook"
    BY DEF Items, Kinds
  <2>. QED BY <2>1, <2>2, <1>5
<1>8. Behind(q, x)
  BY <1>0, <1>3, <1>7 DEF Stored, Behind
<1>9. Stored(q, x, p, g, n)
  BY <1>1, <1>2, <1>4, <1>6, <1>8 DEF Stored
<1>. QED BY <1>9 DEF q

\* A new item at the end of the inbox, with its payload row.
LEMMA StagingKeeps ==
  ASSUME NEW b, NEW x, NEW p, NEW g, NEW n, Stored(b, x, p, g, n), n < MaxItems,
         NEW e \in Items, e.id = n + 1
  PROVE  Stored(b, Append(x, e), p \cup {n + 1}, g, n + 1)
<1>. DEFINE y == Append(x, e)
<1>0. x \in Seq(Items)
  BY DEF Stored
<1>1. /\ y \in Seq(Items) /\ DOMAIN y = DOMAIN x \cup {Len(x) + 1}
      /\ DOMAIN x = 1..Len(x) /\ Len(x) \in Nat
      /\ \A i \in DOMAIN x : y[i] = x[i]
      /\ y[Len(x) + 1] = e
      /\ Ids(y) = Ids(x) \cup {n + 1}
  BY <1>0, AppendedRow
<1>. HIDE DEF y
<1>2. /\ n \in Nat /\ MaxItems \in Nat
      /\ \A k \in Ids(x) : k \in Nat /\ k # 0 /\ k <= n
      /\ \A k \in Ids(b) : k \in Nat /\ k <= n
  BY IdsAdmitted
<1>3. n + 1 \in 0..MaxItems /\ 1..(n + 1) = 1..n \cup {n + 1} /\ n + 1 \notin 1..n
  BY <1>2
<1>4. /\ 1..(n + 1) = Ids(y) \cup PlacedIn(b) \cup g
      /\ Ids(y) \cap PlacedIn(b) = {} /\ g \cap (Ids(y) \cup PlacedIn(b)) = {}
  BY <1>1, <1>3 DEF Stored
<1>5. \A i \in DOMAIN y : (i \in DOMAIN x /\ y[i] = x[i]) \/ (i = Len(x) + 1 /\ y[i] = e)
  BY <1>1
<1>6. \A i \in DOMAIN x : x[i].id \in Nat /\ x[i].id <= n
  BY <1>2 DEF Ids
<1>7. \A i \in DOMAIN b : b[i].id \in Nat /\ b[i].id <= n
  BY <1>2 DEF Ids
<1>8. Ascends(y)
  <2>. SUFFICES ASSUME NEW i \in DOMAIN y, NEW j \in DOMAIN y, i < j PROVE y[i].id < y[j].id
    BY DEF Ascends
  <2>1. i \in DOMAIN x /\ y[i] = x[i]
    BY <1>1
  <2>2. CASE j \in DOMAIN x /\ y[j] = x[j]
    BY <2>1, <2>2 DEF Stored, Ascends
  <2>3. CASE y[j] = e
    BY <2>1, <2>3, <1>2, <1>6
  <2>. QED BY <2>2, <2>3, <1>5
<1>9. Behind(b, y)
  <2>. SUFFICES ASSUME NEW i \in DOMAIN b, NEW j \in DOMAIN y, Class(b[i]) = Class(y[j])
                PROVE  b[i].id < y[j].id
    BY DEF Behind
  <2>1. CASE j \in DOMAIN x /\ y[j] = x[j]
    BY <2>1 DEF Stored, Behind
  <2>2. CASE y[j] = e
    BY <2>2, <1>2, <1>7
  <2>. QED BY <2>1, <2>2, <1>5
<1>10. p \cup {n + 1} = Ids(y)
  BY <1>1 DEF Stored
<1>11. Stored(b, y, p \cup {n + 1}, g, n + 1)
  BY <1>1, <1>3, <1>4, <1>8, <1>9, <1>10 DEF Stored
<1>. QED BY <1>11 DEF y
-----------------------------------------------------------------------------
(***************************************************************************)
(* What the drains select.                                                 *)
(***************************************************************************)
LEMMA InboxFacts ==
  ASSUME StoredNow
  PROVE  /\ inbox \in Seq(Items) /\ Ascends(inbox) /\ branch \in Seq(Rows)
         /\ Ids(inbox) \in SUBSET (Nat \ {0})
         /\ \A i, j \in DOMAIN inbox : inbox[i].id = inbox[j].id => i = j
         /\ \A i \in DOMAIN inbox : inbox[i] \in Items
<1>1. inbox \in Seq(Items) /\ Ascends(inbox) /\ branch \in Seq(Rows)
  BY DEF StoredNow, Stored
<1>. QED BY <1>1, IdsOfInbox

LEMMA ClosedUnion ==
  ASSUME NEW x, NEW A, NEW B, Closed(x, A), Closed(x, B)
  PROVE  Closed(x, A \cup B)
BY DEF Closed

LEMMA OfKindSelects ==
  ASSUME StoredNow, NEW kind \in {"steer", "followUp", "nextRun"}
  PROVE  /\ OfKind(kind) \in SUBSET Ids(inbox) /\ Closed(inbox, OfKind(kind))
         /\ \A i \in DOMAIN inbox : inbox[i].id \in OfKind(kind) <=> inbox[i].kind = kind
<1>1. \A i \in DOMAIN inbox : inbox[i].id \in OfKind(kind) <=> inbox[i].kind = kind
  BY InboxFacts DEF OfKind
<1>2. OfKind(kind) \in SUBSET Ids(inbox)
  BY DEF OfKind, Ids
<1>3. \A y, z : Class(y) = Class(z) /\ z.kind = kind => y.kind = kind
  BY DEF Class, IsWrite
<1>4. Closed(inbox, OfKind(kind))
  BY <1>1, <1>3 DEF Closed
<1>. QED BY <1>1, <1>2, <1>4

LEMMA ChosenSelects ==
  ASSUME StoredNow, NEW kind \in {"steer", "followUp"}, NEW mode
  PROVE  /\ Chosen(kind, mode) \in SUBSET OfKind(kind) /\ Closed(inbox, Chosen(kind, mode))
         /\ OfKind(kind) # {} => Chosen(kind, mode) # {}
<1>0. /\ OfKind(kind) \in SUBSET Ids(inbox) /\ Closed(inbox, OfKind(kind))
      /\ OfKind(kind) \in SUBSET Nat
  BY OfKindSelects, InboxFacts
<1>1. CASE mode = "all"
  BY <1>0, <1>1 DEF Chosen
<1>2. CASE mode # "all"
  <2>1. Chosen(kind, mode) = {x \in OfKind(kind) : \A y \in OfKind(kind) : x <= y}
    BY <1>2 DEF Chosen
  <2>2. OfKind(kind) # {} => Chosen(kind, mode) # {}
    BY <1>0, <2>1, SmallestOf
  <2>3. ASSUME NEW i \in DOMAIN inbox, NEW j \in DOMAIN inbox, i < j,
               Class(inbox[i]) = Class(inbox[j]), inbox[j].id \in Chosen(kind, mode)
        PROVE  inbox[i].id \in Chosen(kind, mode)
    <3>1. inbox[j].id \in OfKind(kind) /\ inbox[i].id \in OfKind(kind)
      BY <2>1, <2>3, <1>0 DEF Closed
    <3>2. inbox[i].id < inbox[j].id
      BY <2>3, InboxFacts DEF Ascends
    <3>3. inbox[j].id <= inbox[i].id
      BY <3>1, <2>1, <2>3
    <3>4. inbox[i].id \in Nat /\ inbox[j].id \in Nat
      BY <3>1, <1>0
    <3>. QED BY <3>2, <3>3, <3>4
  <2>. QED BY <2>1, <2>2, <2>3 DEF Closed
<1>. QED BY <1>1, <1>2

LEMMA WritesSelects ==
  ASSUME StoredNow
  PROVE  /\ Writes \in SUBSET Ids(inbox) /\ Closed(inbox, Writes)
         /\ \A i \in DOMAIN inbox : inbox[i].id \in Writes <=> IsWrite(inbox[i])
<1>1. \A i \in DOMAIN inbox : inbox[i].id \in Writes <=> IsWrite(inbox[i])
  BY InboxFacts DEF Writes
<1>2. Writes \in SUBSET Ids(inbox)
  BY DEF Writes, Ids
<1>3. \A y \in Items, z \in Items : Class(y) = Class(z) /\ IsWrite(z) => IsWrite(y)
  BY DEF Class, IsWrite, Items, Kinds
<1>4. Closed(inbox, Writes)
  BY <1>1, <1>3, InboxFacts DEF Closed
<1>. QED BY <1>1, <1>2, <1>4

\* What an acceptance captures.
LEMMA AcceptedSelects ==
  ASSUME StoredNow, NEW steering, NEW followUps
  PROVE  LET ids == SelectAcceptedInbox(steering, followUps)
         IN  ids \in SUBSET Ids(inbox) /\ Closed(inbox, ids)
<1>1. /\ Writes \in SUBSET Ids(inbox) /\ Closed(inbox, Writes)
      /\ OfKind("nextRun") \in SUBSET Ids(inbox) /\ Closed(inbox, OfKind("nextRun"))
      /\ OfKind("steer") \in SUBSET Ids(inbox) /\ OfKind("followUp") \in SUBSET Ids(inbox)
  BY WritesSelects, OfKindSelects
<1>2. /\ Chosen("steer", steering) \in SUBSET OfKind("steer")
      /\ Closed(inbox, Chosen("steer", steering))
      /\ Chosen("followUp", followUps) \in SUBSET OfKind("followUp")
      /\ Closed(inbox, Chosen("followUp", followUps))
  BY ChosenSelects
<1>3. Closed(inbox, Writes \cup OfKind("nextRun"))
  BY <1>1, ClosedUnion
<1>4. Closed(inbox, Writes \cup OfKind("nextRun") \cup Chosen("steer", steering))
  BY <1>2, <1>3, ClosedUnion
<1>5. Closed(inbox, SelectAcceptedInbox(steering, followUps))
  BY <1>2, <1>4, ClosedUnion DEF SelectAcceptedInbox
<1>. QED BY <1>1, <1>2, <1>5 DEF SelectAcceptedInbox

\* What a boundary plans: all writes, no next-run message; and if follow-ups
\* are considered and nothing in the plan triggers a response, then neither
\* steering nor follow-ups are queued.
LEMMA BoundarySelects ==
  ASSUME StoredNow, NEW consider \in BOOLEAN
  PROVE  LET ids == PlanBoundaryInbox(consider)
         IN  /\ ids \in SUBSET Ids(inbox) /\ Closed(inbox, ids)
             /\ Writes \subseteq ids
             /\ \A i \in DOMAIN inbox : inbox[i].id \in ids => inbox[i].kind # "nextRun"
             /\ consider /\ ~Triggers(ids) => OfKind("steer") = {} /\ OfKind("followUp") = {}
<1>. DEFINE ids == PlanBoundaryInbox(consider)
<1>. DEFINE steer == Chosen("steer", operation.steering)
<1>. DEFINE follow == Chosen("followUp", operation.followUps)
<1>1. /\ Writes \in SUBSET Ids(inbox) /\ Closed(inbox, Writes)
      /\ OfKind("steer") \in SUBSET Ids(inbox) /\ OfKind("followUp") \in SUBSET Ids(inbox)
  BY WritesSelects, OfKindSelects
<1>2. /\ steer \in SUBSET OfKind("steer") /\ Closed(inbox, steer)
      /\ OfKind("steer") # {} => steer # {}
      /\ follow \in SUBSET OfKind("followUp") /\ Closed(inbox, follow)
      /\ OfKind("followUp") # {} => follow # {}
  BY ChosenSelects
<1>3. /\ ids \in {Writes \cup steer, Writes \cup steer \cup follow}
      /\ consider /\ ~Triggers(Writes \cup steer) => ids = Writes \cup steer \cup follow
  BY DEF PlanBoundaryInbox, BoundaryWrites
<1>. HIDE DEF ids, steer, follow
<1>4. Closed(inbox, Writes \cup steer)
  BY <1>1, <1>2, ClosedUnion
<1>5. Closed(inbox, Writes \cup steer \cup follow)
  BY <1>2, <1>4, ClosedUnion
<1>6. ASSUME NEW i \in DOMAIN inbox, inbox[i].id \in ids PROVE inbox[i].kind # "nextRun"
  <2>1. inbox[i].id \in Writes \/ inbox[i].id \in OfKind("steer") \/ inbox[i].id \in OfKind("followUp")
    BY <1>2, <1>3, <1>6
  <2>2. IsWrite(inbox[i]) \/ inbox[i].kind = "steer" \/ inbox[i].kind = "followUp"
    BY <2>1, WritesSelects, OfKindSelects
  <2>. QED BY <2>2 DEF IsWrite
<1>7. ASSUME consider, ~Triggers(ids) PROVE OfKind("steer") = {} /\ OfKind("followUp") = {}
  <2>1. Writes \cup steer \subseteq ids
    BY <1>3
  <2>2. ~Triggers(Writes \cup steer)
    BY <1>7, <2>1 DEF Triggers
  <2>3. steer \subseteq ids /\ follow \subseteq ids
    BY <1>3, <1>7, <2>2
  <2>4. ASSUME NEW kind \in {"steer", "followUp"}, NEW k \in OfKind(kind), k \in ids PROVE FALSE
    <3>1. PICK i \in DOMAIN inbox : inbox[i].id = k /\ inbox[i].kind = kind
      BY <2>4 DEF OfKind
    <3>2. Projects(inbox[i])
      BY <3>1 DEF Projects
    <3>. QED BY <3>1, <3>2, <2>4, <1>7 DEF Triggers
  <2>. QED BY <2>3, <2>4, <1>2
<1>8. /\ ids \in SUBSET Ids(inbox) /\ Closed(inbox, ids) /\ Writes \subseteq ids
  BY <1>1, <1>2, <1>3, <1>4, <1>5
<1>. QED BY <1>6, <1>7, <1>8 DEF ids
-----------------------------------------------------------------------------
(***************************************************************************)
(* What the actions do to the stored items.                                *)
(***************************************************************************)
LEMMA PlaceSafe ==
  ASSUME StoredNow, NEW ids \in SUBSET Ids(inbox), Closed(inbox, ids),
         Place(ids, <<>>), admitted' = admitted
  PROVE  /\ StoredNow'
         /\ branch' = branch \o Taken(ids)
<1>. DEFINE r == Selection(inbox, ids)
<1>. DEFINE l == Selection(inbox, Ids(inbox) \ ids)
<1>1. Parts(inbox, ids, r, l)
  BY InboxFacts, SelectionParts
<1>. HIDE DEF r, l
<1>2. Stored(branch \o r, l, payloads \ ids, gone, admitted)
  BY <1>1, PlacingKeeps DEF StoredNow
<1>3. branch \o r \o <<>> = branch \o r
  <2>1. branch \o r \in Seq(Rows)
    BY <1>2 DEF Stored
  <2>. QED BY <2>1, ConcatEmptySeq
<1>4. /\ branch' = branch \o r /\ inbox' = l /\ payloads' = payloads \ ids
      /\ gone' = gone
  BY <1>3 DEF Place, Taken, Left, PayloadsWithout, r, l
<1>. QED BY <1>2, <1>4 DEF StoredNow, Taken, r

LEMMA PlaceAndPut ==
  ASSUME StoredNow, NEW ids \in SUBSET Ids(inbox), Closed(inbox, ids), NEW e, Place(ids, <<e>>)
  PROVE  \E b, l :
           /\ Stored(b, l, payloads \ ids, gone, admitted)
           /\ l \in Seq(Items) /\ Ids(l) = Ids(inbox) \ ids
           /\ \A i \in DOMAIN l : \E j \in DOMAIN inbox : l[i] = inbox[j]
           /\ branch' = Append(b, e) /\ inbox' = l /\ payloads' = payloads \ ids
           /\ gone' = gone
<1>. DEFINE r == Selection(inbox, ids)
<1>. DEFINE l == Selection(inbox, Ids(inbox) \ ids)
<1>1. Parts(inbox, ids, r, l)
  BY InboxFacts, SelectionParts
<1>. HIDE DEF r, l
<1>2. Stored(branch \o r, l, payloads \ ids, gone, admitted)
  BY <1>1, PlacingKeeps DEF StoredNow
<1>3. branch \o r \o <<e>> = Append(branch \o r, e)
  <2>. DEFINE S == Rows \cup {e}
  <2>1. branch \o r \in Seq(S) /\ e \in S
    BY <1>2 DEF Stored
  <2>. HIDE DEF S
  <2>. QED BY <2>1, AppendIsConcat
<1>4. /\ branch' = Append(branch \o r, e) /\ inbox' = l /\ payloads' = payloads \ ids
      /\ gone' = gone
  BY <1>3 DEF Place, Taken, Left, PayloadsWithout, r, l
<1>. QED BY <1>1, <1>2, <1>4 DEF Parts

LEMMA HookPlaceSafe ==
  ASSUME StoredNow, NEW ids \in SUBSET Ids(inbox), Closed(inbox, ids),
         Place(ids, <<HookEntry>>), admitted' = admitted
  PROVE  StoredNow'
<1>1. PICK b, l :
        /\ Stored(b, l, payloads \ ids, gone, admitted)
        /\ branch' = Append(b, HookEntry) /\ inbox' = l /\ payloads' = payloads \ ids
        /\ gone' = gone
  BY PlaceAndPut
<1>2. Stored(Append(b, HookEntry), l, payloads \ ids, gone, admitted)
  BY <1>1, HookEntryKeeps
<1>. QED BY <1>1, <1>2 DEF StoredNow

LEMMA NextItemFacts ==
  ASSUME StoredNow, admitted < MaxItems, NEW kind \in Kinds
  PROVE  NextItem(kind) \in Items /\ NextItem(kind).id = admitted + 1 /\ NextItem(kind).kind = kind
<1>1. admitted \in 0..MaxItems /\ MaxItems \in Nat
  BY InboxAssumption DEF StoredNow, Stored
<1>2. admitted + 1 \in 1..MaxItems
  BY <1>1
<1>. QED BY <1>2 DEF NextItem, Items

LEMMA RemoveSafe ==
  ASSUME StoredNow, NEW ids \in SUBSET Ids(inbox), Remove(ids), admitted' = admitted
  PROVE  StoredNow'
<1>. DEFINE r == Selection(inbox, ids)
<1>. DEFINE l == Selection(inbox, Ids(inbox) \ ids)
<1>1. Parts(inbox, ids, r, l)
  BY InboxFacts, SelectionParts
<1>2. /\ branch' = branch /\ inbox' = l /\ payloads' = payloads \ ids
      /\ gone' = gone \cup ids
  BY DEF Remove, Left, PayloadsWithout
<1>. HIDE DEF r, l
<1>3. Stored(branch, l, payloads \ ids, gone \cup ids, admitted)
  BY <1>1, RemovingKeeps DEF StoredNow
<1>. QED BY <1>2, <1>3 DEF StoredNow

LEMMA StageSafe ==
  ASSUME StoredNow, Admit, NEW kind \in Kinds, Stage(kind)
  PROVE  StoredNow'
<1>1. NextItem(kind) \in Items /\ NextItem(kind).id = admitted + 1 /\ admitted < MaxItems
  BY NextItemFacts DEF Admit
<1>2. Stored(branch, Append(inbox, NextItem(kind)), payloads \cup {admitted + 1}, gone, admitted + 1)
  BY <1>1, StagingKeeps DEF StoredNow
<1>. QED BY <1>2 DEF StoredNow, Stage, Admit

\* A direct append goes behind the writes that are queued, so nothing of its
\* class is left in the inbox.
LEMMA AppendDirectSafe ==
  ASSUME StoredNow, AppendDirect
  PROVE  StoredNow'
<1>1. PICK kind \in {"write", "note"} : Place(Writes, <<NextItem(kind)>>)
  BY DEF AppendDirect, EarlierWrites
<1>2. admitted < MaxItems /\ admitted' = admitted + 1 /\ kind \in Kinds
  BY DEF AppendDirect, Admit, Kinds
<1>. DEFINE e == NextItem(kind)
<1>3. e \in Items /\ e.id = admitted + 1 /\ e.kind = kind
  BY <1>2, NextItemFacts
<1>. HIDE DEF e
<1>4. PICK b, l :
        /\ Stored(b, l, payloads \ Writes, gone, admitted)
        /\ l \in Seq(Items) /\ Ids(l) = Ids(inbox) \ Writes
        /\ \A i \in DOMAIN l : \E j \in DOMAIN inbox : l[i] = inbox[j]
        /\ branch' = Append(b, e) /\ inbox' = l /\ payloads' = payloads \ Writes
        /\ gone' = gone
  BY <1>1, WritesSelects, PlaceAndPut DEF e
<1>5. ASSUME NEW j \in DOMAIN l PROVE Class(l[j]) # Class(e)
  <2>1. PICK k \in DOMAIN inbox : l[j] = inbox[k]
    BY <1>4
  <2>2. l[j].id \notin Writes
    BY <1>4 DEF Ids
  <2>3. ~IsWrite(l[j]) /\ l[j] \in Items
    BY <2>1, <2>2, WritesSelects, <1>4
  <2>4. l[j].kind # "write"
    BY <2>3 DEF IsWrite
  <2>5. Class(e) = "write"
    BY <1>3 DEF Class, IsWrite
  <2>. QED BY <2>3, <2>4, <2>5 DEF Class
<1>6. Stored(Append(b, e), l, payloads \ Writes, gone, admitted + 1)
  BY <1>2, <1>3, <1>4, <1>5, PuttingKeeps
<1>. QED BY <1>2, <1>4, <1>6 DEF StoredNow
-----------------------------------------------------------------------------
(***************************************************************************)
(* The steps of the lane and of the pass.                                  *)
(***************************************************************************)
LEMMA OperationFacts ==
  ASSUME operation \in Operations \cup {NoOp}
  PROVE  /\ Active => operation \in Operations
         /\ ~Active => operation.at = "none"
BY DEF Active, NoOp

LEMMA OperationMoves ==
  ASSUME NEW o \in Operations
  PROVE  /\ [o EXCEPT !.ctl = "cancel_requested"] \in Operations
         /\ \A at \in {"checkpoint", "ready"} :
              [o EXCEPT !.at = at, !.boundary = "none"] \in Operations
         /\ \A cont \in {"need_assistant", "may_finish"} :
              /\ [o EXCEPT !.at = "checkpoint", !.cont = cont] \in Operations
              /\ [o EXCEPT !.at = "structural", !.cont = cont,
                           !.boundary = "resume_checkpoint"] \in Operations
BY DEF Operations, Modes

LEMMA NewOperations ==
  /\ \A steering, followUps \in Modes :
       [NoOp EXCEPT !.at = "starting", !.steering = steering, !.followUps = followUps] \in Operations
  /\ [NoOp EXCEPT !.at = "structural", !.boundary = "finish"] \in Operations
BY DEF Operations, NoOp, Modes

LEMMA PlanFacts ==
  /\ NoPlan \in Plans /\ NoPlan.known = FALSE
  /\ \A s \in Seq(Items) : [known |-> TRUE, entries |-> s] \in Plans
BY DEF NoPlan, Plans

LEMMA CounterMoves ==
  /\ \A r \in 0..MaxRounds : r < MaxRounds => r + 1 \in 0..MaxRounds
  /\ \A h \in 0..MaxHooks : h < MaxHooks => h + 1 \in 0..MaxHooks
BY InboxAssumption

LEMMA NothingPlacedSafe ==
  ASSUME StoredNow, NothingPlaced, admitted' = admitted
  PROVE  StoredNow'
BY DEF StoredNow, NothingPlaced

LEMMA TakenTyped ==
  ASSUME StoredNow, NEW ids \in SUBSET Ids(inbox)
  PROVE  Taken(ids) \in Seq(Items)
BY InboxFacts, SelectionIds DEF Taken

\* Calls and acceptances.
LEMMA CommandSafe ==
  ASSUME IInv,
         Enqueue \/ AppendStaged \/ AppendDirect \/ CancelQueued
           \/ AcceptRun \/ AcceptStructural \/ RequestAbort
  PROVE  IInv'
<1>0. StoredNow /\ Driven
  BY DEF IInv
<1>1. CASE Enqueue
  <2>1. PICK kind \in Kinds : Admit /\ Stage(kind)
    BY <1>1 DEF Enqueue, Kinds
  <2>2. Driven'
    BY <1>0, <2>1 DEF Stage, Driven
  <2>. QED BY <1>0, <2>1, <2>2, StageSafe DEF IInv
<1>2. CASE AppendStaged
  <2>1. PICK kind \in Kinds : Admit /\ Stage(kind)
    BY <1>2 DEF AppendStaged, Kinds
  <2>2. Driven'
    BY <1>0, <2>1 DEF Stage, Driven
  <2>. QED BY <1>0, <2>1, <2>2, StageSafe DEF IInv
<1>3. CASE AppendDirect
  <2>1. Driven'
    BY <1>0, <1>3 DEF AppendDirect, Driven
  <2>. QED BY <1>0, <1>3, <2>1, AppendDirectSafe DEF IInv
<1>4. CASE CancelQueued
  <2>1. PICK x \in Ids(inbox) : Remove({x})
    BY <1>4 DEF CancelQueued
  <2>2. admitted' = admitted /\ Driven'
    BY <1>0, <1>4 DEF CancelQueued, Driven
  <2>3. {x} \in SUBSET Ids(inbox)
    OBVIOUS
  <2>. QED BY <1>0, <2>1, <2>2, <2>3, RemoveSafe DEF IInv
<1>5. CASE AcceptRun
  <2>1. PICK steering \in Modes, followUps \in Modes :
          /\ Place(SelectAcceptedInbox(steering, followUps), <<>>)
          /\ operation' = [NoOp EXCEPT !.at = "starting", !.steering = steering,
                                       !.followUps = followUps]
    BY <1>5 DEF AcceptRun
  <2>2. /\ ~Active /\ rounds < MaxRounds /\ rounds' = rounds + 1
        /\ UNCHANGED <<last, plan, admitted, hooks>>
    BY <1>5 DEF AcceptRun, Round
  <2>3. ~plan.known
    BY <1>0, <2>2, OperationFacts DEF Driven
  <2>4. Driven'
    BY <1>0, <2>1, <2>2, <2>3, NewOperations, CounterMoves DEF Driven
  <2>. QED BY <1>0, <2>1, <2>2, <2>4, AcceptedSelects, PlaceSafe DEF IInv
<1>6. CASE AcceptStructural
  <2>1. /\ ~Active /\ rounds < MaxRounds /\ rounds' = rounds + 1
        /\ operation' = [NoOp EXCEPT !.at = "structural", !.boundary = "finish"]
        /\ NothingPlaced /\ UNCHANGED <<last, plan, admitted, hooks>>
    BY <1>6 DEF AcceptStructural, Round
  <2>2. ~plan.known
    BY <1>0, <2>1, OperationFacts DEF Driven
  <2>3. Driven'
    BY <1>0, <2>1, <2>2, NewOperations, CounterMoves DEF Driven
  <2>. QED BY <1>0, <2>1, <2>3, NothingPlacedSafe DEF IInv
<1>7. CASE RequestAbort
  <2>1. /\ Remove(OfKind("steer") \cup OfKind("followUp")) /\ admitted' = admitted
        /\ Active /\ operation' = [operation EXCEPT !.ctl = "cancel_requested"]
        /\ UNCHANGED <<last, plan, hooks, rounds>>
    BY <1>7 DEF RequestAbort, Running
  <2>2. OfKind("steer") \cup OfKind("followUp") \in SUBSET Ids(inbox)
    BY <1>0, OfKindSelects
  <2>3. operation \in Operations
    BY <1>0, <2>1, OperationFacts DEF Driven
  <2>4. operation'.at = operation.at /\ operation'.cont = operation.cont
    BY <2>1, <2>3 DEF Operations
  <2>5. Driven'
    BY <1>0, <2>1, <2>3, <2>4, OperationMoves DEF Driven
  <2>. QED BY <1>0, <2>1, <2>2, <2>5, RemoveSafe DEF IInv
<1>. QED BY <1>1, <1>2, <1>3, <1>4, <1>5, <1>6, <1>7

\* The pass goes on from a leaf to another, or ends, without a verdict to keep.
LEMMA PassGoesOn ==
  ASSUME Driven, Active, plan' = NoPlan, hooks' \in 0..MaxHooks, rounds' \in 0..MaxRounds,
         \/ /\ GoReady \/ (Go("checkpoint") /\ last' = last)
               \/ \E cont \in {"need_assistant", "may_finish"} :
                    \/ Compact(cont)
                    \/ /\ operation' = [operation EXCEPT !.at = "checkpoint", !.cont = cont]
                       /\ last' = last
         \/ \E status \in {"completed", "failed", "aborted"} : Finish(status)
  PROVE  Driven'
<1>1. operation \in Operations
  BY OperationFacts DEF Driven
<1>2. operation' \in Operations \cup {NoOp}
  BY <1>1, OperationMoves DEF GoReady, Go, Compact, Finish
<1>3. last' \in {"none", "completed", "failed", "aborted"}
  BY DEF Driven, GoReady, Compact, Finish
<1>. QED BY <1>2, <1>3, PlanFacts DEF Driven

\* The verdict that the run may finish is kept for the hook.
LEMMA PendingSafe ==
  ASSUME IInv, NEW ids \in SUBSET Ids(inbox), FinishPending(ids),
         operation.at \in {"checkpoint", "structural"}, operation.cont = "may_finish",
         UNCHANGED <<admitted, hooks, rounds>>
  PROVE  IInv'
<1>1. /\ plan' = [known |-> TRUE, entries |-> Taken(ids)]
      /\ NothingPlaced /\ operation' = operation /\ last' = last
  BY DEF FinishPending
<1>2. plan' \in Plans
  BY <1>1, TakenTyped, PlanFacts DEF IInv
<1>3. Driven'
  BY <1>1, <1>2 DEF IInv, Driven
<1>. QED BY <1>1, <1>3, NothingPlacedSafe DEF IInv

LEMMA PassSafe ==
  ASSUME IInv,
         StartRun \/ RunCheckpoint \/ FinishRunBoundary \/ Respond
           \/ PublishResume \/ PublishTerminal \/ Reconcile \/ Crash
  PROVE  IInv'
<1>0. StoredNow /\ Driven /\ hooks \in 0..MaxHooks /\ rounds \in 0..MaxRounds
  BY DEF IInv, Driven
<1>1. CASE StartRun
  <2>1. /\ Active /\ plan' = NoPlan /\ Go("checkpoint") /\ NothingPlaced
        /\ UNCHANGED <<last, admitted, hooks, rounds>>
    BY <1>1 DEF StartRun, Dispatches, Running
  <2>2. Driven'
    BY <1>0, <2>1, PassGoesOn
  <2>. QED BY <1>0, <2>1, <2>2, NothingPlacedSafe DEF IInv
<1>2. CASE RunCheckpoint
  <2>0. /\ Active /\ plan = NoPlan /\ operation.at = "checkpoint"
        /\ UNCHANGED <<admitted, hooks, rounds>>
    BY <1>2 DEF RunCheckpoint, Dispatches, Running
  <2>1. operation.cont \in {"need_assistant", "may_finish"}
    BY <1>0, <2>0, OperationFacts DEF Driven, Operations
  <2>2. PICK threshold \in BOOLEAN :
          LET ids == PlanBoundaryInbox(~threshold /\ operation.cont = "may_finish") IN
            \/ Place(ids, <<>>) /\ GoReady /\ UNCHANGED plan
            \/ Place(ids, <<>>) /\ Compact(operation.cont) /\ UNCHANGED plan
            \/ operation.cont = "may_finish" /\ FinishPending(ids)
    BY <1>2 DEF RunCheckpoint
  <2>. DEFINE consider == ~threshold /\ operation.cont = "may_finish"
  <2>. DEFINE ids == PlanBoundaryInbox(consider)
  <2>3. consider \in BOOLEAN
    OBVIOUS
  <2>4. ids \in SUBSET Ids(inbox) /\ Closed(inbox, ids)
    <3>. HIDE DEF consider
    <3>. QED BY <1>0, <2>3, BoundarySelects
  <2>5. CASE Place(ids, <<>>) /\ (GoReady \/ Compact(operation.cont)) /\ UNCHANGED plan
    <3>. HIDE DEF ids
    <3>1. Driven'
      BY <1>0, <2>0, <2>1, <2>5, PassGoesOn
    <3>. QED BY <1>0, <2>0, <2>4, <2>5, <3>1, PlaceSafe DEF IInv
  <2>6. CASE operation.cont = "may_finish" /\ FinishPending(ids)
    <3>. HIDE DEF ids
    <3>. QED BY <2>0, <2>4, <2>6, PendingSafe
  <2>. QED BY <2>2, <2>5, <2>6
<1>3. CASE FinishRunBoundary
  <2>0. Active /\ plan' = NoPlan /\ UNCHANGED <<admitted, rounds>>
    BY <1>3 DEF FinishRunBoundary, Running
  <2>1. Replanned \in SUBSET Ids(inbox) /\ Closed(inbox, Replanned)
    BY <1>0, BoundarySelects DEF Replanned
  <2>2. CASE Place(Replanned, <<>>) /\ (GoReady \/ Finish("completed")) /\ UNCHANGED hooks
    <3>1. Driven'
      BY <1>0, <2>0, <2>2, PassGoesOn
    <3>. QED BY <1>0, <2>0, <2>1, <2>2, <3>1, PlaceSafe DEF IInv
  <2>3. CASE hooks < MaxHooks /\ hooks' = hooks + 1 /\ Place(Replanned, <<HookEntry>>) /\ GoReady
    <3>1. hooks' \in 0..MaxHooks
      BY <1>0, <2>3, CounterMoves
    <3>2. Driven'
      BY <1>0, <2>0, <2>3, <3>1, PassGoesOn
    <3>. QED BY <1>0, <2>0, <2>1, <2>3, <3>2, HookPlaceSafe DEF IInv
  <2>. QED BY <1>3, <2>2, <2>3 DEF FinishRunBoundary
<1>4. CASE Respond
  <2>1. /\ Active /\ plan' = NoPlan /\ NothingPlaced /\ UNCHANGED <<admitted, hooks>>
        /\ rounds < MaxRounds /\ rounds' = rounds + 1
    BY <1>4 DEF Respond, Dispatches, Running, Round
  <2>2. rounds' \in 0..MaxRounds
    BY <1>0, <2>1, CounterMoves
  <2>3. \/ \E cont \in {"need_assistant", "may_finish"} :
             /\ operation' = [operation EXCEPT !.at = "checkpoint", !.cont = cont]
             /\ last' = last
        \/ Compact("need_assistant")
        \/ Finish("failed")
    BY <1>4 DEF Respond
  <2>4. Driven'
    BY <1>0, <2>1, <2>2, <2>3, PassGoesOn
  <2>. QED BY <1>0, <2>1, <2>4, NothingPlacedSafe DEF IInv
<1>5. CASE PublishResume
  <2>0. /\ Active /\ plan = NoPlan /\ operation.at = "structural"
        /\ UNCHANGED <<admitted, hooks, rounds>>
    BY <1>5 DEF PublishResume, Dispatches, Running
  <2>2. PICK declined \in BOOLEAN :
          LET ids == PlanBoundaryInbox(declined /\ operation.cont = "may_finish") IN
            \/ Place(ids, <<>>) /\ GoReady /\ UNCHANGED plan
            \/ Place(ids, <<>>) /\ Go("checkpoint") /\ UNCHANGED <<last, plan>>
            \/ operation.cont = "may_finish" /\ FinishPending(ids)
    BY <1>5 DEF PublishResume
  <2>. DEFINE consider == declined /\ operation.cont = "may_finish"
  <2>. DEFINE ids == PlanBoundaryInbox(consider)
  <2>3. consider \in BOOLEAN
    OBVIOUS
  <2>4. ids \in SUBSET Ids(inbox) /\ Closed(inbox, ids)
    <3>. HIDE DEF consider
    <3>. QED BY <1>0, <2>3, BoundarySelects
  <2>5. CASE Place(ids, <<>>) /\ (GoReady \/ (Go("checkpoint") /\ last' = last)) /\ UNCHANGED plan
    <3>. HIDE DEF ids
    <3>1. Driven'
      BY <1>0, <2>0, <2>5, PassGoesOn
    <3>. QED BY <1>0, <2>0, <2>4, <2>5, <3>1, PlaceSafe DEF IInv
  <2>6. CASE operation.cont = "may_finish" /\ FinishPending(ids)
    <3>. HIDE DEF ids
    <3>. QED BY <2>0, <2>4, <2>6, PendingSafe
  <2>. QED BY <2>2, <2>5, <2>6
<1>6. CASE PublishTerminal
  <2>1. /\ Active /\ plan' = NoPlan /\ NothingPlaced /\ UNCHANGED <<admitted, hooks, rounds>>
        /\ Finish("failed") \/ Finish("completed")
    BY <1>6 DEF PublishTerminal, Dispatches, Running
  <2>2. Driven'
    BY <1>0, <2>1, PassGoesOn
  <2>. QED BY <1>0, <2>1, <2>2, NothingPlacedSafe DEF IInv
<1>7. CASE Reconcile
  <2>1. /\ Active /\ plan' = NoPlan /\ NothingPlaced /\ UNCHANGED <<admitted, hooks, rounds>>
        /\ Finish("aborted")
    BY <1>7 DEF Reconcile, PlanAfterAbort
  <2>2. Driven'
    BY <1>0, <2>1, PassGoesOn
  <2>. QED BY <1>0, <2>1, <2>2, NothingPlacedSafe DEF IInv
<1>8. CASE Crash
  <2>1. Driven'
    BY <1>0, <1>8, PlanFacts DEF Crash, Driven
  <2>. QED BY <1>0, <1>8, <2>1 DEF Crash, IInv, StoredNow
<1>. QED BY <1>1, <1>2, <1>3, <1>4, <1>5, <1>6, <1>7, <1>8

LEMMA InitOK == Init => IInv
<1>. SUFFICES ASSUME Init PROVE IInv
  OBVIOUS
<1>1. /\ inbox = <<>> /\ payloads = {} /\ branch = <<>> /\ gone = {} /\ admitted = 0
      /\ operation = NoOp /\ last = "none" /\ plan = NoPlan /\ hooks = 0 /\ rounds = 0
  BY DEF Init
<1>2. 0 \in 0..MaxItems /\ 0 \in 0..MaxHooks /\ 0 \in 0..MaxRounds /\ 1..0 = {}
  BY InboxAssumption
<1>3. Ids(<<>>) = {} /\ PlacedIn(<<>>) = {}
  BY DEF Ids, PlacedIn
<1>4. Stored(<<>>, <<>>, {}, {}, 0)
  BY <1>2, <1>3 DEF Stored, Ascends, Ordered, Behind
<1>5. NoOp.at = "none"
  BY DEF NoOp
<1>. QED BY <1>1, <1>2, <1>4, PlanFacts DEF IInv, StoredNow, Driven

LEMMA StepOK == IInv /\ [Next]_vars => IInv'
<1>1. ASSUME IInv, UNCHANGED vars PROVE IInv'
  BY <1>1 DEF vars, IInv, StoredNow, Driven
<1>. QED BY <1>1, CommandSafe, PassSafe DEF Next
-----------------------------------------------------------------------------
(***************************************************************************)
(* The theorems.                                                           *)
(***************************************************************************)
\* The invariant that the properties below follow from.
THEOREM Inductive == Spec => []IInv
<1>. QED BY InitOK, StepOK, PTL DEF Spec

\* Every admitted item is queued with its payload row, on the branch, or given
\* back, and never two of them; items of a class are placed in the order of
\* their admission, whichever of the drains placed them.
THEOREM NothingLost == Spec => []InboxKept
<1>1. IInv => InboxKept
  <2>. SUFFICES ASSUME IInv PROVE InboxKept
    OBVIOUS
  <2>1. Stored(branch, inbox, payloads, gone, admitted) /\ Driven
    BY DEF IInv, StoredNow
  <2>2. Placed = PlacedIn(branch)
    BY DEF Placed, PlacedIn
  <2>3. payloads \subseteq 1..MaxItems /\ gone \subseteq 1..MaxItems
    <3>1. 1..admitted \subseteq 1..MaxItems
      BY <2>1, InboxAssumption DEF Stored
    <3>2. payloads \subseteq 1..admitted /\ gone \subseteq 1..admitted
      BY <2>1 DEF Stored
    <3>. QED BY <3>1, <3>2
  <2>4. plan.known \in BOOLEAN /\ plan.entries \in Seq(Items)
    BY <2>1 DEF Driven, Plans
  <2>5. TypeOK
    BY <2>1, <2>3, <2>4 DEF TypeOK, Stored, Driven, Rows
  <2>6. OnePlace
    BY <2>1, <2>2, <2>5 DEF OnePlace, Stored, Ascends
  <2>7. FifoPerKind
    BY <2>1 DEF FifoPerKind, Stored, Ordered
  <2>. QED BY <2>6, <2>7 DEF InboxKept
<1>. QED BY <1>1, Inductive, PTL
-----------------------------------------------------------------------------
(***************************************************************************)
(* The action properties.                                                  *)
(***************************************************************************)
\* Behind a boundary that considered follow-ups and found nothing to respond
\* to, only next-run messages are left.
LEMMA OnlyNextRunsLeft ==
  ASSUME StoredNow, ~Triggers(Replanned), NEW more, Place(Replanned, more)
  PROVE  \A x \in Ids(inbox') : \E i \in DOMAIN inbox' :
           inbox'[i].id = x /\ inbox'[i].kind = "nextRun"
<1>1. /\ Replanned \in SUBSET Ids(inbox) /\ Writes \subseteq Replanned
      /\ OfKind("steer") = {} /\ OfKind("followUp") = {}
  BY BoundarySelects DEF Replanned
<1>. DEFINE l == Selection(inbox, Ids(inbox) \ Replanned)
<1>2. /\ \A i \in DOMAIN l : \E j \in DOMAIN inbox : l[i] = inbox[j]
      /\ Ids(l) = Ids(inbox) \ Replanned
  BY <1>1, InboxFacts, SelectionParts DEF Parts
<1>3. inbox' = l
  BY DEF Place, Left
<1>. HIDE DEF l
<1>4. ASSUME NEW i \in DOMAIN l PROVE l[i].kind = "nextRun"
  <2>1. PICK j \in DOMAIN inbox : l[i] = inbox[j]
    BY <1>2
  <2>2. inbox[j].id \notin Writes
    BY <2>1, <1>1, <1>2 DEF Ids
  <2>3. ~IsWrite(inbox[j]) /\ inbox[j] \in Items
    BY <2>2, WritesSelects, InboxFacts
  <2>4. inbox[j].kind # "steer" /\ inbox[j].kind # "followUp"
    BY <1>1, OfKindSelects
  <2>. QED BY <2>1, <2>3, <2>4 DEF IsWrite, Items, Kinds
<1>5. \A x \in Ids(l) : \E i \in DOMAIN l : l[i].id = x
  BY DEF Ids
<1>. QED BY <1>3, <1>4, <1>5

\* Only finishRunBoundary completes a run or takes the follow-up of a hook.
LEMMA OnlyAtTheBoundary ==
  ASSUME IInv, Next, Completes \/ TakesHookFollowUp
  PROVE  FinishRunBoundary
<1>0. operation \in Operations \cup {NoOp} /\ NoOp \notin Operations
  BY DEF IInv, Driven, NoOp, Operations
<1>1. Active => operation \in Operations
  BY <1>0 DEF Active
<1>2. ~(operation' \in Operations /\ hooks' = hooks)
  BY <1>0 DEF Completes, TakesHookFollowUp
<1>3. ~(UNCHANGED <<operation, hooks>>)
  BY DEF Completes, TakesHookFollowUp, Active
<1>4. ~Enqueue /\ ~AppendStaged /\ ~AppendDirect /\ ~CancelQueued /\ ~Crash
  BY <1>3 DEF Enqueue, AppendStaged, AppendDirect, CancelQueued, Crash, Stage
<1>5. ~AcceptRun /\ ~AcceptStructural
  BY <1>2, NewOperations DEF AcceptRun, AcceptStructural
<1>6. ~RequestAbort
  BY <1>1, <1>2, OperationMoves DEF RequestAbort, Running
<1>7. ~StartRun
  BY <1>1, <1>2, OperationMoves DEF StartRun, Dispatches, Running, Go
<1>8. ~RunCheckpoint
  <2>1. SUFFICES ASSUME RunCheckpoint PROVE FALSE
    OBVIOUS
  <2>2. operation \in Operations /\ hooks' = hooks
    BY <1>1, <2>1 DEF RunCheckpoint, Dispatches, Running
  <2>3. operation.cont \in {"need_assistant", "may_finish"}
    BY <2>2 DEF Operations
  <2>4. GoReady \/ Compact(operation.cont) \/ operation' = operation
    BY <2>1 DEF RunCheckpoint, FinishPending
  <2>5. operation' \in Operations
    BY <2>2, <2>3, <2>4, OperationMoves DEF GoReady, Go, Compact
  <2>. QED BY <1>2, <2>2, <2>5
<1>9. ~PublishResume
  <2>1. SUFFICES ASSUME PublishResume PROVE FALSE
    OBVIOUS
  <2>2. operation \in Operations /\ hooks' = hooks
    BY <1>1, <2>1 DEF PublishResume, Dispatches, Running
  <2>3. GoReady \/ Go("checkpoint") \/ operation' = operation
    BY <2>1 DEF PublishResume, FinishPending
  <2>4. operation' \in Operations
    BY <2>2, <2>3, OperationMoves DEF GoReady, Go
  <2>. QED BY <1>2, <2>2, <2>4
<1>10. ~Respond
  <2>1. SUFFICES ASSUME Respond PROVE FALSE
    OBVIOUS
  <2>2. operation \in Operations /\ hooks' = hooks
    BY <1>1, <2>1 DEF Respond, Dispatches, Running
  <2>3. CASE Finish("failed")
    BY <2>2, <2>3 DEF Finish, Completes, TakesHookFollowUp
  <2>4. CASE ~Finish("failed")
    <3>1. \/ \E cont \in {"need_assistant", "may_finish"} :
               operation' = [operation EXCEPT !.at = "checkpoint", !.cont = cont]
          \/ Compact("need_assistant")
      BY <2>1, <2>4 DEF Respond
    <3>2. operation' \in Operations
      BY <2>2, <3>1, OperationMoves DEF Compact
    <3>. QED BY <1>2, <2>2, <3>2
  <2>. QED BY <2>3, <2>4
<1>11. ~PublishTerminal /\ ~Reconcile
  BY DEF PublishTerminal, Reconcile, Finish, Completes, TakesHookFollowUp
<1>. QED BY <1>4, <1>5, <1>6, <1>7, <1>8, <1>9, <1>10, <1>11 DEF Next

\* A run neither completes nor goes on with the hook's follow-up while input
\* for it is queued, and takes the follow-up only behind the entries the hook
\* was started with (finishRunBoundary).
THEOREM InputFirst == Spec => UserInputFirst
<1>1. ASSUME IInv, Next
      PROVE  /\ Completes \/ TakesHookFollowUp => \A x \in Ids(inbox') :
                  \E i \in DOMAIN inbox' : inbox'[i].id = x /\ inbox'[i].kind = "nextRun"
             /\ TakesHookFollowUp => branch' = branch \o plan.entries \o <<HookEntry>>
  <2>1. SUFFICES ASSUME Completes \/ TakesHookFollowUp
                 PROVE  /\ \A x \in Ids(inbox') : \E i \in DOMAIN inbox' :
                             inbox'[i].id = x /\ inbox'[i].kind = "nextRun"
                        /\ TakesHookFollowUp => branch' = branch \o plan.entries \o <<HookEntry>>
    OBVIOUS
  <2>2. FinishRunBoundary /\ StoredNow
    BY <1>1, <2>1, OnlyAtTheBoundary DEF IInv
  <2>3. CASE Triggers(Replanned)
    <3>1. GoReady /\ hooks' = hooks /\ Active
      BY <2>2, <2>3 DEF FinishRunBoundary, Running
    <3>2. operation \in Operations /\ NoOp \notin Operations
      BY <1>1, <3>1, OperationFacts DEF IInv, Driven, NoOp, Operations
    <3>3. operation' \in Operations
      BY <3>1, <3>2, OperationMoves DEF GoReady, Go
    <3>. QED BY <2>1, <3>1, <3>2, <3>3 DEF Completes, TakesHookFollowUp
  <2>4. CASE ~Triggers(Replanned)
    <3>1. \/ Place(Replanned, <<HookEntry>>) /\ Taken(Replanned) = plan.entries
          \/ Place(Replanned, <<>>) /\ hooks' = hooks
      BY <2>2, <2>4 DEF FinishRunBoundary, HookPlanIsCurrent
    <3>2. \A x \in Ids(inbox') : \E i \in DOMAIN inbox' :
            inbox'[i].id = x /\ inbox'[i].kind = "nextRun"
      BY <2>2, <2>4, <3>1, OnlyNextRunsLeft
    <3>3. TakesHookFollowUp => branch' = branch \o plan.entries \o <<HookEntry>>
      BY <3>1 DEF TakesHookFollowUp, Place
    <3>. QED BY <3>2, <3>3
  <2>. QED BY <2>3, <2>4
<1>2. ASSUME UNCHANGED vars PROVE ~Completes /\ ~TakesHookFollowUp
  BY <1>2 DEF vars, Completes, TakesHookFollowUp, Active
<1>3. IInv /\ [Next]_vars =>
        [/\ Completes \/ TakesHookFollowUp => \A x \in Ids(inbox') :
              \E i \in DOMAIN inbox' : inbox'[i].id = x /\ inbox'[i].kind = "nextRun"
         /\ TakesHookFollowUp => branch' = branch \o plan.entries \o <<HookEntry>>]_vars
  BY <1>1
<1>. QED BY <1>3, Inductive, PTL DEF Spec, UserInputFirst

\* A placement adds the selected items and what is put behind them.
LEMMA NewRows ==
  ASSUME StoredNow, NEW ids \in SUBSET Ids(inbox),
         \A j \in DOMAIN inbox : inbox[j].id \in ids => inbox[j].kind # "nextRun",
         NEW more, more = <<>> \/ \E e : more = <<e>> /\ e.kind # "nextRun",
         Place(ids, more),
         NEW i \in DOMAIN branch', i > Len(branch)
  PROVE  branch'[i].kind # "nextRun"
<1>. DEFINE r == Taken(ids)
<1>1. /\ r \in Seq(Items) /\ Ids(r) = ids
      /\ \A k \in DOMAIN r : \E j \in DOMAIN inbox : r[k] = inbox[j]
  BY InboxFacts, SelectionIds DEF Taken
<1>2. branch' = branch \o r \o more /\ branch \in Seq(Rows)
  BY InboxFacts DEF Place
<1>. HIDE DEF r
<1>3. \A k \in DOMAIN r : r[k].kind # "nextRun"
  <2>. SUFFICES ASSUME NEW k \in DOMAIN r PROVE r[k].kind # "nextRun"
    OBVIOUS
  <2>1. PICK j \in DOMAIN inbox : r[k] = inbox[j]
    BY <1>1
  <2>2. inbox[j].id \in ids
    BY <1>1, <2>1 DEF Ids
  <2>. QED BY <2>1, <2>2
<1>. DEFINE S == Rows \cup Items \cup {more[1]}
<1>4. branch \in Seq(S) /\ r \in Seq(S)
  BY <1>1, <1>2
<1>5. /\ more \in Seq(S) /\ Len(more) \in {0, 1}
      /\ Len(more) = 1 => more[1].kind # "nextRun"
  <2>1. CASE more = <<>>
    BY <2>1
  <2>2. CASE \E e : more = <<e>> /\ e.kind # "nextRun"
    BY <2>2
  <2>. QED BY <2>1, <2>2
<1>. HIDE DEF S
<1>6. /\ Len(branch \o r) = Len(branch) + Len(r) /\ branch \o r \in Seq(S)
      /\ \A k \in 1..Len(r) : (branch \o r)[Len(branch) + k] = r[k]
      /\ Len(branch) \in Nat /\ Len(r) \in Nat /\ DOMAIN r = 1..Len(r)
  BY <1>4, ConcatProperties
<1>7. /\ DOMAIN branch' = 1..(Len(branch) + Len(r) + Len(more))
      /\ \A k \in 1..(Len(branch) + Len(r)) : branch'[k] = (branch \o r)[k]
      /\ \A k \in 1..Len(more) : branch'[Len(branch) + Len(r) + k] = more[k]
  BY <1>2, <1>5, <1>6, ConcatProperties
<1>8. CASE i <= Len(branch) + Len(r)
  <2>1. i - Len(branch) \in DOMAIN r /\ i = Len(branch) + (i - Len(branch))
    BY <1>6, <1>7, <1>8
  <2>2. i \in 1..(Len(branch) + Len(r))
    BY <1>6, <1>7, <1>8
  <2>3. branch'[i] = r[i - Len(branch)]
    BY <1>6, <1>7, <2>1, <2>2
  <2>. QED BY <1>3, <2>1, <2>3
<1>9. CASE i > Len(branch) + Len(r)
  <2>1. Len(more) = 1 /\ i = Len(branch) + Len(r) + 1
    BY <1>5, <1>6, <1>7, <1>9, SMTT(30)
  <2>. QED BY <1>5, <1>7, <2>1
<1>10. i \in Nat
  BY <1>5, <1>6, <1>7
<1>. QED BY <1>6, <1>8, <1>9, <1>10

\* A next-run message enters the branch only when a run is accepted.
THEOREM NextRunsWait == Spec => NextRunWaits
<1>1. ASSUME IInv, Next, NEW i \in DOMAIN branch', i > Len(branch), branch'[i].kind = "nextRun"
      PROVE  ~Active /\ operation'.at = "starting"
  <2>0. StoredNow
    BY <1>1 DEF IInv
  <2>1. branch' # branch
    <3>1. branch \in Seq(Rows)
      BY <2>0, InboxFacts
    <3>2. \A k \in DOMAIN branch : ~(k > Len(branch))
      BY <3>1
    <3>. QED BY <1>1, <3>2
  <2>2. ASSUME NEW consider \in BOOLEAN, Place(PlanBoundaryInbox(consider), <<>>) PROVE FALSE
    BY <1>1, <2>0, <2>2, BoundarySelects, NewRows
  <2>3. ASSUME Place(Replanned, <<HookEntry>>) PROVE FALSE
    <3>1. HookEntry.kind # "nextRun"
      BY DEF HookEntry
    <3>2. /\ Replanned \in SUBSET Ids(inbox)
          /\ \A j \in DOMAIN inbox : inbox[j].id \in Replanned => inbox[j].kind # "nextRun"
      BY <2>0, BoundarySelects DEF Replanned
    <3>. QED BY <1>1, <2>0, <2>3, <3>1, <3>2, NewRows
  <2>4. ~AppendDirect
    <3>1. SUFFICES ASSUME NEW kind \in {"write", "note"}, Place(Writes, <<NextItem(kind)>>)
                   PROVE  FALSE
      BY DEF AppendDirect, EarlierWrites
    <3>2. NextItem(kind).kind # "nextRun"
      BY DEF NextItem
    <3>3. \A j \in DOMAIN inbox : inbox[j].id \in Writes => inbox[j].kind # "nextRun"
      BY <2>0, WritesSelects DEF IsWrite
    <3>. QED BY <1>1, <2>0, <3>1, <3>2, <3>3, WritesSelects, NewRows
  <2>5. ~Enqueue /\ ~AppendStaged /\ ~CancelQueued /\ ~AcceptStructural /\ ~RequestAbort
    BY <2>1 DEF Enqueue, AppendStaged, CancelQueued, AcceptStructural, RequestAbort, Stage,
       Remove, NothingPlaced
  <2>6. ~StartRun /\ ~Respond /\ ~PublishTerminal /\ ~Reconcile /\ ~Crash
    BY <2>1 DEF StartRun, Respond, PublishTerminal, Reconcile, Crash, NothingPlaced
  <2>7. ~RunCheckpoint
    <3>1. SUFFICES ASSUME NEW threshold \in BOOLEAN,
                          Place(PlanBoundaryInbox(~threshold /\ operation.cont = "may_finish"), <<>>)
                   PROVE  FALSE
      BY <2>1 DEF RunCheckpoint, FinishPending, NothingPlaced
    <3>. QED BY <2>2, <3>1
  <2>8. ~PublishResume
    <3>1. SUFFICES ASSUME NEW declined \in BOOLEAN,
                          Place(PlanBoundaryInbox(declined /\ operation.cont = "may_finish"), <<>>)
                   PROVE  FALSE
      BY <2>1 DEF PublishResume, FinishPending, NothingPlaced
    <3>. QED BY <2>2, <3>1
  <2>9. ~FinishRunBoundary
    <3>1. FinishRunBoundary => Place(Replanned, <<>>) \/ Place(Replanned, <<HookEntry>>)
      BY DEF FinishRunBoundary
    <3>. QED BY <2>2, <2>3, <3>1 DEF Replanned
  <2>10. AcceptRun
    BY <1>1, <2>4, <2>5, <2>6, <2>7, <2>8, <2>9 DEF Next
  <2>. QED BY <2>10 DEF AcceptRun, NoOp
<1>2. IInv /\ [Next]_vars =>
        [\A i \in DOMAIN branch' :
           i > Len(branch) /\ branch'[i].kind = "nextRun" =>
             ~Active /\ operation'.at = "starting"]_vars
  BY <1>1
<1>. QED BY <1>2, Inductive, PTL DEF Spec, NextRunWaits
=============================================================================
