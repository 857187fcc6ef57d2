------------------------ MODULE SqliteSessionProofs ------------------------
(***************************************************************************)
(* For all values of the constants: the file of a Session is a tree of     *)
(* entries with a sound branch index in every state, a scan of the index   *)
(* answers every query as a walk along the parents does, and no step loses *)
(* or rewrites what was committed.                                         *)
(*                                                                         *)
(* The argument in order: recursive functions exist (Recursion), and what  *)
(* the filters and orders of a read yield; the path of an entry; what a    *)
(* sound index says, and that its segments tile a path; the walk and the   *)
(* scan both answer a query, whose answer is unique (ScanIsWalk); every    *)
(* entry write keeps the index sound (InsertedIs), hence appends, moves    *)
(* and forks do; and the invariant of the Session.                         *)
(***************************************************************************)
EXTENDS SqliteSession, FiniteSetTheorems, SequenceTheorems, WellFoundedInduction, TLAPS

-----------------------------------------------------------------------------
(***************************************************************************)
(* The least element of a set of numbers, from which the inductions here   *)
(* are made: a least counterexample has none below it.                     *)
(***************************************************************************)
LEMMA SmallestOf ==
  ASSUME NEW S \in SUBSET Nat, S # {}
  PROVE  \E m \in S : \A n \in S : m <= n
<1>. DEFINE Below == {1..n : n \in S}
<1>. DEFINE R == StrictSubsetOrdering(Nat)
<1>1. Below \subseteq FiniteSubsetsOf(Nat)
  BY FS_Interval DEF FiniteSubsetsOf
<1>2. \E x \in Below : \A y \in Below : ~(<<y, x>> \in R)
  <2>1. IsWellFoundedOn(R, FiniteSubsetsOf(Nat))
    BY FS_StrictSubsetOrderingWellFounded
  <2>2. Below # {}
    OBVIOUS
  <2>. HIDE DEF R, Below
  <2>. QED BY <1>1, <2>1, <2>2, WFMin
<1>3. PICK m \in S : \A y \in Below : ~(<<y, 1..m>> \in R)
  BY <1>2
<1>4. ASSUME NEW n \in S, n < m PROVE FALSE
  <2>1. 1..n \subseteq 1..m /\ 1..n # 1..m
    BY <1>4
  <2>2. 1..n \in SUBSET Nat /\ 1..m \in SUBSET Nat /\ 1..n \in Below
    OBVIOUS
  <2>3. <<1..n, 1..m>> \in R
    BY <2>1, <2>2 DEF StrictSubsetOrdering
  <2>. QED BY <1>3, <2>2, <2>3
<1>. QED BY <1>4

\* If no number up to N is the least bad one, none is bad.
LEMMA NoLeastBad ==
  ASSUME NEW N \in Nat, NEW Bad \in SUBSET (0..N),
         \A m \in Bad : m # 0 /\ m - 1 \in Bad
  PROVE  Bad = {}
<1>1. ASSUME Bad # {} PROVE FALSE
  <2>1. PICK m \in Bad : \A n \in Bad : m <= n
    BY <1>1, SmallestOf
  <2>2. m \in Nat /\ m - 1 \in Bad
    BY <2>1
  <2>. QED BY <2>1, <2>2
<1>. QED BY <1>1

\* A set of numbers below a bound is its own part of that interval.
LEMMA PartOfInterval ==
  ASSUME NEW N \in Nat, NEW S \in SUBSET (0..N)
  PROVE  S \subseteq Nat /\ S \cap (0..N) = S
<1>1. \A x \in S : x \in 0..N
  OBVIOUS
<1>2. S \subseteq Nat
  BY <1>1
<1>. QED BY <1>1, <1>2, Zenon

\* A function that is defined by recursion downwards exists.
Solves(f, T, ends, a, next, step) ==
  f = [x \in T |-> IF x \in ends THEN a ELSE step[x][f[next[x]]]]

\* A recursion that goes down in the numbers has a solution.
LEMMA Recursion ==
  ASSUME NEW N \in Nat, NEW S \in SUBSET (0..N), NEW ends \in SUBSET S,
         NEW X, NEW a \in X, NEW next \in [S -> S],
         \A x \in S \ ends : next[x] < x,
         NEW step \in [S -> [X -> X]]
  PROVE  \E f \in [S -> X] : Solves(f, S, ends, a, next, step)
<1>0. S \subseteq Nat /\ S \cap (0..N) = S
  BY ONLY PartOfInterval, N \in Nat, S \in SUBSET (0..N)
<1>. DEFINE T(m) == S \cap (0..m)
<1>. DEFINE Good(m) == \E f \in [T(m) -> X] : Solves(f, T(m), ends, a, next, step)
<1>1. ASSUME NEW m \in 0..N, m = 0 PROVE Good(m)
  <2>. DEFINE f == [x \in T(m) |-> a]
  <2>1. \A x \in T(m) : x \in ends
    <3>. SUFFICES ASSUME NEW x \in T(m), x \notin ends PROVE FALSE
      OBVIOUS
    <3>1. x \in 0..0 /\ x \in S \ ends
      BY <1>1
    <3>2. next[x] < x /\ next[x] \in S
      BY <3>1
    <3>. QED BY ONLY <3>1, <3>2, <1>0
  <2>2. f = [x \in T(m) |-> IF x \in ends THEN a ELSE step[x][f[next[x]]]]
    BY <2>1
  <2>. QED BY <2>2 DEF Solves
<1>2. ASSUME NEW m \in 0..N, m # 0, Good(m - 1) PROVE Good(m)
  <2>1. PICK g \in [T(m - 1) -> X] : Solves(g, T(m - 1), ends, a, next, step)
    BY <1>2
  <2>2. \A x \in T(m) : x \notin ends => next[x] \in T(m - 1)
    <3>. SUFFICES ASSUME NEW x \in T(m), x \notin ends PROVE next[x] \in T(m - 1)
      OBVIOUS
    <3>1. next[x] < x /\ next[x] \in S /\ next[x] \in 0..N /\ x \in 0..m
      OBVIOUS
    <3>. QED BY <3>1
  <2>3. \A x \in T(m) : x # m => x \in T(m - 1)
    BY <1>2
  <2>4. \A x \in T(m - 1) : x \in T(m) /\ x # m
    BY <1>2
  <2>. DEFINE f == [x \in T(m) |-> IF x # m THEN g[x] ELSE IF x \in ends THEN a ELSE step[x][g[next[x]]]]
  <2>5. \A x \in T(m - 1) : g[x] = IF x \in ends THEN a ELSE step[x][g[next[x]]]
    <3>. HIDE DEF T
    <3>. QED BY <2>1 DEF Solves
  <2>6. \A x \in T(m) : T(m) \subseteq S /\ x \in S
    OBVIOUS
  <2>. HIDE DEF T
  <2>7. \A x \in T(m - 1) : f[x] = g[x]
    BY <2>4
  <2>8. \A x \in T(m) : f[x] = IF x \in ends THEN a ELSE step[x][f[next[x]]]
    <3>. SUFFICES ASSUME NEW x \in T(m) PROVE f[x] = IF x \in ends THEN a ELSE step[x][f[next[x]]]
      OBVIOUS
    <3>1. f[x] = IF x \in ends THEN a ELSE step[x][g[next[x]]]
      BY <2>3, <2>5
    <3>2. x \notin ends => f[next[x]] = g[next[x]]
      BY <2>2, <2>7
    <3>. HIDE DEF f
    <3>. QED BY <3>1, <3>2
  <2>9. f \in [T(m) -> X]
    <3>. SUFFICES ASSUME NEW x \in T(m) PROVE f[x] \in X
      OBVIOUS
    <3>1. x \in S /\ step[x] \in [X -> X]
      BY <2>6
    <3>2. x # m => g[x] \in X
      BY <2>3
    <3>3. x \notin ends => step[x][g[next[x]]] \in X
      BY <2>2, <3>1
    <3>. QED BY <3>2, <3>3
  <2>10. Solves(f, T(m), ends, a, next, step)
    <3>1. f = [x \in T(m) |-> f[x]]
      OBVIOUS
    <3>. HIDE DEF f
    <3>. QED BY <2>8, <3>1 DEF Solves
  <2>. QED BY <2>9, <2>10
<1>. DEFINE Bad == {m \in 0..N : ~Good(m)}
<1>3. \A m \in Bad : m # 0 /\ m - 1 \in Bad
  <2>. SUFFICES ASSUME NEW m \in 0..N, ~Good(m) PROVE m # 0 /\ m - 1 \in 0..N /\ ~Good(m - 1)
    OBVIOUS
  <2>. HIDE DEF Good
  <2>. QED BY <1>1, <1>2
<1>4. Bad = {}
  <2>1. Bad \in SUBSET (0..N)
    OBVIOUS
  <2>. HIDE DEF Bad
  <2>. QED BY <1>3, <2>1, NoLeastBad
<1>5. N \in 0..N /\ T(N) = S
  <2>. HIDE DEF Good
  <2>. QED BY ONLY <1>0, N \in Nat
<1>6. Good(N)
  <2>. HIDE DEF Good
  <2>. QED BY <1>4, <1>5
<1>. QED
  <2>. HIDE DEF T
  <2>. QED BY <1>5, <1>6

-----------------------------------------------------------------------------
(***************************************************************************)
(* What is kept of a sequence, in its order.                               *)
(***************************************************************************)
Thins(r, s, keep, n) ==
  /\ \A i \in DOMAIN r : \E k \in 1..n : r[i] = s[k] /\ s[k] \in keep
  /\ \A k \in 1..n : s[k] \in keep => \E i \in DOMAIN r : r[i] = s[k]
  /\ \A i, j \in DOMAIN r : i < j => \E k, l \in 1..n : k < l /\ r[i] = s[k] /\ r[j] = s[l]

\* One more item of a filter: kept when it is wanted, dropped otherwise.
LEMMA ThinsGoesOn ==
  ASSUME NEW X, NEW s \in Seq(X), NEW keep, NEW n \in 1..Len(s), NEW r \in Seq(X),
         Thins(r, s, keep, n - 1)
  PROVE  LET q == IF s[n] \in keep THEN Append(r, s[n]) ELSE r
         IN  q \in Seq(X) /\ Thins(q, s, keep, n)
<1>. DEFINE q == IF s[n] \in keep THEN Append(r, s[n]) ELSE r
<1>0. s[n] \in X /\ n \in Nat /\ n - 1 \in Nat /\ 1..n = 1..(n - 1) \cup {n} /\ n \notin 1..(n - 1)
  OBVIOUS
<1>1. CASE s[n] \notin keep
  <2>1. q = r
    BY <1>1
  <2>2. \A k \in 1..(n - 1) : k \in 1..n
    BY <1>0
  <2>3. \A k \in 1..n : s[k] \in keep => k \in 1..(n - 1)
    BY <1>0, <1>1
  <2>4. Thins(r, s, keep, n)
    BY <2>2, <2>3 DEF Thins
  <2>. QED BY <2>1, <2>4
<1>2. CASE s[n] \in keep
  <2>1. /\ q \in Seq(X) /\ DOMAIN q = 1..(Len(r) + 1)
        /\ \A i \in 1..Len(r) : q[i] = r[i]
        /\ q[Len(r) + 1] = s[n]
    BY <1>0, <1>2, AppendProperties
  <2>2. DOMAIN r = 1..Len(r) /\ Len(r) \in Nat
    OBVIOUS
  <2>. HIDE DEF q
  <2>3. \A i \in DOMAIN q : \E k \in 1..n : q[i] = s[k] /\ s[k] \in keep
    <3>. SUFFICES ASSUME NEW i \in DOMAIN q PROVE \E k \in 1..n : q[i] = s[k] /\ s[k] \in keep
      OBVIOUS
    <3>1. CASE i \in DOMAIN r
      <4>1. PICK k \in 1..(n - 1) : r[i] = s[k] /\ s[k] \in keep
        BY <3>1 DEF Thins
      <4>. QED BY <4>1, <3>1, <2>1, <2>2, <1>0
    <3>2. CASE i = Len(r) + 1
      BY <3>2, <2>1, <1>2, <1>0
    <3>. QED BY <3>1, <3>2, <2>1, <2>2
  <2>4. \A k \in 1..n : s[k] \in keep => \E i \in DOMAIN q : q[i] = s[k]
    <3>. SUFFICES ASSUME NEW k \in 1..n, s[k] \in keep PROVE \E i \in DOMAIN q : q[i] = s[k]
      OBVIOUS
    <3>1. CASE k = n
      BY <3>1, <2>1, <2>2
    <3>2. CASE k \in 1..(n - 1)
      <4>1. PICK i \in DOMAIN r : r[i] = s[k]
        BY <3>2 DEF Thins
      <4>. QED BY <4>1, <2>1, <2>2
    <3>. QED BY <3>1, <3>2, <1>0
  <2>5. \A i, j \in DOMAIN q : i < j => \E k, l \in 1..n : k < l /\ q[i] = s[k] /\ q[j] = s[l]
    <3>. SUFFICES ASSUME NEW i \in DOMAIN q, NEW j \in DOMAIN q, i < j
                  PROVE  \E k, l \in 1..n : k < l /\ q[i] = s[k] /\ q[j] = s[l]
      OBVIOUS
    <3>1. i \in DOMAIN r
      BY <2>1, <2>2
    <3>2. CASE j \in DOMAIN r
      <4>1. PICK k \in 1..(n - 1), l \in 1..(n - 1) : k < l /\ r[i] = s[k] /\ r[j] = s[l]
        BY <3>1, <3>2 DEF Thins
      <4>2. k \in 1..n /\ l \in 1..n /\ q[i] = r[i] /\ q[j] = r[j]
        BY <3>1, <3>2, <2>1, <2>2, <1>0
      <4>. QED BY <4>1, <4>2
    <3>3. CASE j = Len(r) + 1
      <4>1. PICK k \in 1..(n - 1) : r[i] = s[k]
        BY <3>1 DEF Thins
      <4>2. k \in 1..n /\ k < n /\ n \in 1..n /\ q[i] = r[i] /\ q[j] = s[n]
        BY <3>1, <3>3, <2>1, <2>2, <1>0
      <4>. QED BY <4>1, <4>2
    <3>. QED BY <3>2, <3>3, <2>1, <2>2
  <2>6. Thins(q, s, keep, n)
    BY <2>3, <2>4, <2>5 DEF Thins
  <2>. QED BY <2>1, <2>6 DEF q
<1>. QED BY <1>1, <1>2

\* Filtering a sequence keeps exactly the wanted items, in their order.
LEMMA FilteredIs ==
  ASSUME NEW X, NEW s \in Seq(X), NEW keep
  PROVE  Filtered(s, keep) \in Seq(X) /\ Thins(Filtered(s, keep), s, keep, Len(s))
<1>. DEFINE N == Len(s)
<1>. DEFINE step == [n \in 0..N |-> [x \in Seq(X) |->
                       IF n # 0 /\ s[n] \in keep THEN Append(x, s[n]) ELSE x]]
<1>. DEFINE next == [n \in 0..N |-> IF n = 0 THEN 0 ELSE n - 1]
<1>. DEFINE Is(f) == f = [n \in 0..N |->
            IF n = 0 THEN <<>>
            ELSE IF s[n] \in keep THEN Append(f[n - 1], s[n]) ELSE f[n - 1]]
<1>0. N \in Nat /\ \A n \in 1..N : s[n] \in X
  OBVIOUS
<1>1. \E f \in [0..N -> Seq(X)] : Is(f)
  <2>1. step \in [0..N -> [Seq(X) -> Seq(X)]]
    <3>. SUFFICES ASSUME NEW n \in 0..N, NEW x \in Seq(X), n # 0 PROVE Append(x, s[n]) \in Seq(X)
      OBVIOUS
    <3>. QED BY <1>0
  <2>2. next \in [0..N -> 0..N] /\ \A n \in (0..N) \ {0} : next[n] = n - 1 /\ next[n] < n
    BY <1>0
  <2>3. <<>> \in Seq(X) /\ {0} \in SUBSET (0..N)
    BY <1>0
  <2>4. 0..N \in SUBSET (0..N)
    OBVIOUS
  <2>5. \A n \in 0..N, x \in Seq(X) :
           n # 0 => step[n][x] = IF s[n] \in keep THEN Append(x, s[n]) ELSE x
    OBVIOUS
  <2>. HIDE DEF step, next, N
  <2>6. PICK f \in [0..N -> Seq(X)] : Solves(f, 0..N, {0}, <<>>, next, step)
    BY ONLY <1>0, <2>1, <2>2, <2>3, <2>4, Recursion
  <2>7. \A n \in 0..N : f[n] = IF n = 0 THEN <<>> ELSE step[n][f[next[n]]]
    BY <2>6 DEF Solves
  <2>8. \A n \in 0..N : n # 0 => n - 1 \in 0..N
    BY <1>0
  <2>9. \A n \in 0..N : f[n] = IF n = 0 THEN <<>>
            ELSE IF s[n] \in keep THEN Append(f[n - 1], s[n]) ELSE f[n - 1]
    <3>. SUFFICES ASSUME NEW n \in 0..N, n # 0
                  PROVE f[n] = IF s[n] \in keep THEN Append(f[n - 1], s[n]) ELSE f[n - 1]
      BY <2>7
    <3>1. f[n] = step[n][f[n - 1]] /\ f[n - 1] \in Seq(X)
      BY <2>2, <2>7, <2>8
    <3>. QED BY ONLY <3>1, <2>5, n \in 0..N, n # 0
  <2>10. f = [n \in 0..N |-> f[n]]
    OBVIOUS
  <2>11. Is(f)
    BY <2>9, <2>10
  <2>. QED BY <2>11
<1>. DEFINE g == CHOOSE f : Is(f)
<1>2. Is(g)
  <2>. HIDE DEF Is
  <2>. QED BY <1>1
<1>3. Filtered(s, keep) = g[N]
  BY DEF Filtered
<1>. HIDE DEF g
<1>4. g[0] = <<>> /\ \A n \in 1..N : g[n] = IF s[n] \in keep THEN Append(g[n - 1], s[n]) ELSE g[n - 1]
  <2>. DEFINE Step(n) == IF s[n] \in keep THEN Append(g[n - 1], s[n]) ELSE g[n - 1]
  <2>1. g = [n \in 0..N |-> IF n = 0 THEN <<>> ELSE Step(n)]
    BY <1>2
  <2>2. 0 \in 0..N /\ \A n \in 1..N : n \in 0..N /\ n # 0
    BY <1>0
  <2>. HIDE DEF Step, N
  <2>3. g[0] = <<>> /\ \A n \in 1..N : g[n] = Step(n)
    BY <2>1, <2>2
  <2>. QED BY <2>3 DEF Step
<1>. DEFINE Good(n) == g[n] \in Seq(X) /\ Thins(g[n], s, keep, n)
<1>5. Good(0)
  BY <1>4 DEF Thins
<1>6. ASSUME NEW n \in 1..N, Good(n - 1) PROVE Good(n)
  <2>1. g[n] = IF s[n] \in keep THEN Append(g[n - 1], s[n]) ELSE g[n - 1]
    BY <1>4
  <2>. QED BY <1>6, <2>1, ThinsGoesOn
<1>. DEFINE Bad == {n \in 0..N : ~Good(n)}
<1>7. \A n \in Bad : n # 0 /\ n - 1 \in Bad
  <2>. SUFFICES ASSUME NEW n \in 0..N, ~Good(n) PROVE n # 0 /\ n - 1 \in 0..N /\ ~Good(n - 1)
    OBVIOUS
  <2>. HIDE DEF Good
  <2>1. n # 0
    BY <1>5
  <2>2. n \in 1..N /\ n - 1 \in 0..N
    BY <2>1, <1>0
  <2>. QED BY <2>1, <2>2, <1>6
<1>8. Bad = {}
  <2>1. Bad \in SUBSET (0..N)
    OBVIOUS
  <2>. HIDE DEF Bad, N
  <2>. QED BY <1>0, <1>7, <2>1, NoLeastBad
<1>9. N \in 0..N
  BY <1>0
<1>10. Good(N)
  <2>. HIDE DEF Good, N
  <2>. QED BY <1>8, <1>9
<1>. QED BY <1>3, <1>10

-----------------------------------------------------------------------------
(***************************************************************************)
(* Sequences of entries in one direction, and what a limit leaves of them. *)
(***************************************************************************)
Before(asc, x, y) == IF asc THEN x < y ELSE y < x

Sorted(asc, s) == \A i, j \in DOMAIN s : i < j => Before(asc, s[i], s[j])

\* The first entries of F, as many as the limit admits.
FirstOf(asc, r, F, limit) ==
  /\ r \in Seq(Nat) /\ Sorted(asc, r) /\ ToSet(r) \subseteq F
  /\ limit # 0 => Len(r) <= limit
  /\ \A x \in F : x \notin ToSet(r) =>
       limit # 0 /\ Len(r) = limit /\ \A y \in ToSet(r) : Before(asc, y, x)

\* A set of numbers that is not empty has a least one.
LEMMA LowestOf ==
  ASSUME NEW S \in SUBSET Nat, S # {}
  PROVE  Lowest(S) \in S /\ \A y \in S : Lowest(S) <= y
BY SmallestOf DEF Lowest

\* A bounded set of numbers that is not empty has a greatest one.
LEMMA HighestOf ==
  ASSUME NEW N \in Nat, NEW S \in SUBSET (0..N), S # {}
  PROVE  Highest(S) \in S /\ \A y \in S : y <= Highest(S)
<1>. DEFINE D == {N - x : x \in S}
<1>1. D \in SUBSET Nat /\ D # {}
  <2>1. \A x \in S : x \in 0..N
    OBVIOUS
  <2>2. \A x \in S : N - x \in Nat
    BY <2>1
  <2>. QED BY <2>2
<1>2. PICK d \in D : \A y \in D : d <= y
  <2>. HIDE DEF D
  <2>. QED BY <1>1, SmallestOf
<1>3. PICK x \in S : d = N - x
  BY <1>2
<1>4. \A y \in S : y <= x
  BY <1>2, <1>3
<1>. QED BY <1>4 DEF Highest

\* A sorted sequence stays sorted when it is filtered.
LEMMA FilteredSorted ==
  ASSUME NEW asc \in BOOLEAN, NEW s \in Seq(Nat), Sorted(asc, s), NEW keep
  PROVE  LET r == Filtered(s, keep)
         IN  r \in Seq(Nat) /\ Sorted(asc, r) /\ ToSet(r) = ToSet(s) \cap keep
<1>. DEFINE r == Filtered(s, keep)
<1>1. r \in Seq(Nat) /\ Thins(r, s, keep, Len(s)) /\ DOMAIN s = 1..Len(s)
  BY FilteredIs
<1>. HIDE DEF r
<1>2. Sorted(asc, r)
  <2>. SUFFICES ASSUME NEW i \in DOMAIN r, NEW j \in DOMAIN r, i < j PROVE Before(asc, r[i], r[j])
    BY DEF Sorted
  <2>1. PICK k \in 1..Len(s), l \in 1..Len(s) : k < l /\ r[i] = s[k] /\ r[j] = s[l]
    BY <1>1 DEF Thins
  <2>. QED BY <2>1, <1>1 DEF Sorted
<1>3. ToSet(r) = ToSet(s) \cap keep
  <2>1. \A x \in ToSet(r) : x \in ToSet(s) \cap keep
    <3>. SUFFICES ASSUME NEW i \in DOMAIN r PROVE r[i] \in ToSet(s) \cap keep
      BY DEF ToSet
    <3>1. PICK k \in 1..Len(s) : r[i] = s[k] /\ s[k] \in keep
      BY <1>1 DEF Thins
    <3>. QED BY <3>1, <1>1 DEF ToSet
  <2>2. \A x \in ToSet(s) \cap keep : x \in ToSet(r)
    <3>. SUFFICES ASSUME NEW k \in DOMAIN s, s[k] \in keep PROVE s[k] \in ToSet(r)
      BY DEF ToSet
    <3>1. PICK i \in DOMAIN r : r[i] = s[k]
      BY <1>1 DEF Thins
    <3>. QED BY <3>1 DEF ToSet
  <2>. QED BY <2>1, <2>2
<1>. QED BY <1>1, <1>2, <1>3 DEF r

\* The ascending listing of a set holds its members once, in order.
LEMMA AscendingIs ==
  ASSUME NEW N \in Nat, NEW S \in SUBSET (1..N)
  PROVE  LET r == Ascending(S) IN r \in Seq(Nat) /\ Sorted(TRUE, r) /\ ToSet(r) = S
<1>. DEFINE H == Highest(S \cup {0})
<1>. DEFINE s == [n \in 1..H |-> n]
<1>1. S \cup {0} \in SUBSET (0..N) /\ S \cup {0} # {}
  <2>1. \A x \in 1..N : x \in 0..N
    OBVIOUS
  <2>2. 0 \in 0..N
    BY ONLY N \in Nat
  <2>. HIDE DEF s, H
  <2>. QED BY <2>1, <2>2, Zenon
<1>2. H \in S \cup {0} /\ \A y \in S \cup {0} : y <= H
  BY <1>1, HighestOf
<1>. HIDE DEF H
<1>3. H \in Nat /\ S \subseteq 1..H
  <2>1. H \in 0..N
    BY <1>1, <1>2, Zenon
  <2>2. \A y \in S : y \in 1..N /\ y <= H
    BY <1>2
  <2>3. \A y \in S : y \in 1..H
    BY ONLY <2>1, <2>2, N \in Nat
  <2>. QED BY <2>1, <2>3
<1>4. s \in Seq(Nat) /\ DOMAIN s = 1..H
  BY <1>3
<1>5. Sorted(TRUE, s) /\ ToSet(s) = 1..H
  BY <1>4 DEF Sorted, Before, ToSet
<1>6. Ascending(S) = Filtered(s, S)
  BY DEF Ascending, H
<1>. HIDE DEF s
<1>7. (1..H) \cap S = S
  BY <1>3
<1>. QED BY <1>4, <1>5, <1>6, <1>7, FilteredSorted

\* Reversing a sequence keeps its length and its items.
LEMMA ReverseIs ==
  ASSUME NEW X, NEW s \in Seq(X)
  PROVE  /\ Reverse(s) \in Seq(X) /\ Len(Reverse(s)) = Len(s)
         /\ \A i \in 1..Len(s) : Reverse(s)[i] = s[Len(s) - i + 1]
         /\ ToSet(Reverse(s)) = ToSet(s)
<1>. DEFINE r == [i \in 1..Len(s) |-> s[(Len(s) - i) + 1]]
<1>1. Reverse(s) = r
  BY DEF Reverse
<1>2. \A i \in 1..Len(s) : (Len(s) - i) + 1 \in 1..Len(s)
  OBVIOUS
<1>3. r \in Seq(X) /\ DOMAIN r = 1..Len(s) /\ Len(r) = Len(s)
  BY <1>2
<1>4. \A i \in 1..Len(s) : r[i] = s[Len(s) - i + 1]
  OBVIOUS
<1>. HIDE DEF r
<1>5. ToSet(r) = ToSet(s)
  <2>1. \A x \in ToSet(r) : x \in ToSet(s)
    BY <1>2, <1>3, <1>4 DEF ToSet
  <2>2. \A x \in ToSet(s) : x \in ToSet(r)
    <3>. SUFFICES ASSUME NEW i \in 1..Len(s) PROVE s[i] \in ToSet(r)
      BY DEF ToSet
    <3>. DEFINE k == (Len(s) - i) + 1
    <3>1. k \in 1..Len(s) /\ (Len(s) - k) + 1 = i
      OBVIOUS
    <3>2. r[k] = s[(Len(s) - k) + 1]
      BY <3>1, <1>4
    <3>. HIDE DEF k
    <3>3. r[k] = s[i]
      BY <3>1, <3>2
    <3>. QED BY <3>1, <3>3, <1>3 DEF ToSet
  <2>. QED BY <2>1, <2>2
<1>. QED BY <1>1, <1>3, <1>4, <1>5

\* Reversing a sorted sequence turns its direction.
LEMMA ReverseSorted ==
  ASSUME NEW asc \in BOOLEAN, NEW s \in Seq(Nat), Sorted(asc, s)
  PROVE  Sorted(~asc, Reverse(s))
<1>. DEFINE r == Reverse(s)
<1>1. /\ r \in Seq(Nat) /\ Len(r) = Len(s) /\ DOMAIN r = 1..Len(s)
      /\ \A i \in 1..Len(s) : r[i] = s[Len(s) - i + 1]
  BY ReverseIs
<1>. HIDE DEF r
<1>. SUFFICES ASSUME NEW i \in 1..Len(s), NEW j \in 1..Len(s), i < j PROVE Before(~asc, r[i], r[j])
  BY <1>1 DEF Sorted, r
<1>2. Len(s) - i + 1 \in DOMAIN s /\ Len(s) - j + 1 \in DOMAIN s /\ Len(s) - j + 1 < Len(s) - i + 1
  OBVIOUS
<1>3. Before(asc, s[Len(s) - j + 1], s[Len(s) - i + 1])
  BY <1>2 DEF Sorted
<1>4. Before(asc, r[j], r[i])
  BY <1>1, <1>3
<1>. QED BY <1>4 DEF Before

\* A query reads in one of two directions.
Directed(q) == q.oldestFirst \in BOOLEAN

\* ORDER BY seq: the rows come out in the direction the query asked for.
LEMMA InOrderIs ==
  ASSUME NEW q, Directed(q), NEW N \in Nat, NEW S \in SUBSET (1..N)
  PROVE  /\ InOrder(S, q) \in Seq(Nat) /\ Sorted(q.oldestFirst, InOrder(S, q))
         /\ ToSet(InOrder(S, q)) = S
<1>. DEFINE a == Ascending(S)
<1>1. a \in Seq(Nat) /\ Sorted(TRUE, a) /\ ToSet(a) = S
  BY AscendingIs
<1>. HIDE DEF a
<1>2. Reverse(a) \in Seq(Nat) /\ ToSet(Reverse(a)) = S
  BY <1>1, ReverseIs
<1>3. Sorted(FALSE, Reverse(a))
  <2>1. TRUE \in BOOLEAN /\ (~TRUE) = FALSE
    OBVIOUS
  <2>. QED BY <1>1, <2>1, ReverseSorted
<1>4. InOrder(S, q) = IF q.oldestFirst THEN a ELSE Reverse(a)
  BY DEF InOrder, a
<1>5. CASE q.oldestFirst
  BY <1>1, <1>4, <1>5
<1>6. CASE ~q.oldestFirst
  <2>1. q.oldestFirst = FALSE
    BY <1>6 DEF Directed
  <2>. QED BY <1>2, <1>3, <1>4, <2>1
<1>. QED BY <1>5, <1>6

\* A prefix: what a limit leaves of a sequence.
LEMMA LimitedIs ==
  ASSUME NEW X, NEW s \in Seq(X), NEW limit \in Nat
  PROVE  LET r == Limited(s, limit)
         IN  /\ r \in Seq(X) /\ Len(r) <= Len(s)
             /\ \A i \in 1..Len(r) : r[i] = s[i]
             /\ limit # 0 => Len(r) <= limit
             /\ Len(r) # Len(s) => limit # 0 /\ Len(r) = limit
<1>. DEFINE n == IF Len(s) < limit THEN Len(s) ELSE limit
<1>1. n \in 0..Len(s)
  OBVIOUS
<1>. HIDE DEF n
<1>2. /\ SubSeq(s, 1, n) \in Seq(X) /\ Len(SubSeq(s, 1, n)) = n
      /\ \A i \in 1..n : SubSeq(s, 1, n)[i] = s[i]
  <2>1. 1 \in 1..(Len(s) + 1) /\ n \in 0..Len(s)
    BY <1>1
  <2>2. \A i \in 1..n : i \in 1..Len(s)
    BY <1>1
  <2>3. n \in Nat
    BY <1>1
  <2>. QED BY <1>1, <2>2, <2>3
<1>3. Limited(s, limit) = IF limit = 0 THEN s ELSE SubSeq(s, 1, n)
  BY DEF Limited, n
<1>4. CASE limit = 0
  BY <1>3, <1>4
<1>5. CASE limit # 0
  <2>1. Limited(s, limit) = SubSeq(s, 1, n)
    BY <1>3, <1>5
  <2>2. n <= Len(s) /\ n <= limit /\ (n # Len(s) => n = limit)
    BY DEF n
  <2>. QED BY <1>2, <1>5, <2>1, <2>2
<1>. QED BY <1>4, <1>5

\* LIMIT on a sorted answer leaves its first rows.
LEMMA LimitedIsFirst ==
  ASSUME NEW asc \in BOOLEAN, NEW s \in Seq(Nat), Sorted(asc, s), NEW limit \in Nat
  PROVE  FirstOf(asc, Limited(s, limit), ToSet(s), limit)
<1>. DEFINE r == Limited(s, limit)
<1>1. /\ r \in Seq(Nat) /\ Len(r) <= Len(s)
      /\ \A i \in 1..Len(r) : r[i] = s[i]
      /\ limit # 0 => Len(r) <= limit
      /\ Len(r) # Len(s) => limit # 0 /\ Len(r) = limit
  BY LimitedIs
<1>. HIDE DEF r
<1>2. DOMAIN r = 1..Len(r) /\ DOMAIN s = 1..Len(s)
  BY <1>1
<1>a. Len(r) \in Nat /\ Len(s) \in Nat /\ Len(r) <= Len(s)
  BY <1>1
<1>3. \A i \in DOMAIN r : i \in Nat /\ i \in DOMAIN s /\ r[i] = s[i]
  <2>1. \A i \in 1..Len(r) : i \in Nat /\ i \in 1..Len(s)
    BY ONLY <1>a
  <2>2. \A i \in 1..Len(r) : r[i] = s[i]
    BY <1>1
  <2>. QED BY ONLY <2>1, <2>2, <1>2
<1>4. Sorted(asc, r)
  <2>1. \A i, j \in DOMAIN s : i < j => Before(asc, s[i], s[j])
    BY DEF Sorted
  <2>. QED BY ONLY <1>3, <2>1 DEF Sorted
<1>5. ToSet(r) \subseteq ToSet(s)
  BY ONLY <1>3 DEF ToSet
<1>6. ASSUME NEW x \in ToSet(s), x \notin ToSet(r)
      PROVE  limit # 0 /\ Len(r) = limit /\ \A y \in ToSet(r) : Before(asc, y, x)
  <2>1. PICK j \in DOMAIN s : x = s[j]
    BY <1>6 DEF ToSet
  <2>2. j \notin DOMAIN r
    BY ONLY <2>1, <1>3, <1>6 DEF ToSet
  <2>3. Len(r) < j /\ Len(r) # Len(s)
    <3>1. j \in 1..Len(s) /\ j \notin 1..Len(r)
      BY <2>2, <1>2
    <3>. QED BY ONLY <3>1, <1>a
  <2>4. ASSUME NEW y \in ToSet(r) PROVE Before(asc, y, x)
    <3>1. PICK i \in DOMAIN r : y = r[i]
      BY DEF ToSet
    <3>2. i < j /\ i \in DOMAIN s /\ y = s[i]
      <4>1. i \in 1..Len(r) /\ j \in 1..Len(s)
        BY <1>2
      <4>2. i < j
        BY ONLY <4>1, <2>3, <1>a
      <4>. QED BY <4>2, <3>1, <1>3
    <3>3. Before(asc, s[i], s[j])
      BY <3>2 DEF Sorted
    <3>. QED BY <3>2, <3>3, <2>1
  <2>. QED BY <2>3, <2>4, <1>1
<1>7. FirstOf(asc, r, ToSet(s), limit)
  BY <1>1, <1>4, <1>5, <1>6 DEF FirstOf
<1>. QED BY <1>7 DEF r

\* Where one of two such sequences stops or differs first, so does the other.
LEMMA FirstOfAgree ==
  ASSUME NEW asc \in BOOLEAN, NEW F \in SUBSET Nat, NEW limit \in Nat, NEW r, NEW t,
         FirstOf(asc, r, F, limit), FirstOf(asc, t, F, limit),
         NEW n \in 1..Len(r), \A i \in 1..(n - 1) : i \in DOMAIN t /\ r[i] = t[i]
  PROVE  n \in DOMAIN t /\ (r[n] = t[n] \/ Before(asc, t[n], r[n]))
<1>1. /\ r \in Seq(Nat) /\ t \in Seq(Nat) /\ DOMAIN r = 1..Len(r) /\ DOMAIN t = 1..Len(t)
      /\ n \in Nat /\ Len(t) \in Nat /\ Len(r) \in Nat
  BY DEF FirstOf
<1>2. r[n] \in F /\ r[n] \in ToSet(r) /\ r[n] \in Nat
  BY <1>1 DEF FirstOf, ToSet
<1>3. ASSUME NEW j \in DOMAIN t, t[j] = r[n], j < n PROVE FALSE
  <2>1. j \in 1..(n - 1) /\ j \in 1..Len(r)
    BY <1>1, <1>3
  <2>a. r[j] = t[j] /\ j \in DOMAIN r
    BY <2>1, <1>1
  <2>2. Before(asc, r[j], r[n]) /\ r[j] \in Nat
    <3>1. Before(asc, r[j], r[n])
      BY <2>a, <1>1, <1>3 DEF FirstOf, Sorted
    <3>2. r[j] \in Nat
      BY <2>a, <1>1
    <3>. QED BY <3>1, <3>2
  <2>. QED BY <2>a, <2>2, <1>2, <1>3 DEF Before
<1>4. n \in DOMAIN t
  <2>. SUFFICES ASSUME n \notin DOMAIN t PROVE FALSE
    OBVIOUS
  <2>1. Len(t) < n
    BY <1>1
  <2>2. r[n] \notin ToSet(t)
    BY <1>1, <1>3, <2>1 DEF ToSet
  <2>3. limit # 0 /\ Len(t) = limit
    BY <1>2, <2>2 DEF FirstOf
  <2>4. Len(r) <= limit
    BY <2>3 DEF FirstOf
  <2>. QED BY <1>1, <2>1, <2>3, <2>4
<1>5. CASE r[n] \in ToSet(t)
  <2>1. PICK j \in DOMAIN t : t[j] = r[n]
    BY <1>5 DEF ToSet
  <2>2. j = n \/ n < j
    BY <2>1, <1>1, <1>3
  <2>. QED BY <2>1, <2>2, <1>4 DEF FirstOf, Sorted
<1>6. CASE r[n] \notin ToSet(t)
  <2>1. t[n] \in ToSet(t)
    BY <1>4 DEF ToSet
  <2>. QED BY <1>2, <1>4, <1>6, <2>1 DEF FirstOf
<1>. QED BY <1>4, <1>5, <1>6

\* A query has one answer.
LEMMA FirstOfUnique ==
  ASSUME NEW asc \in BOOLEAN, NEW F \in SUBSET Nat, NEW limit \in Nat, NEW r, NEW t,
         FirstOf(asc, r, F, limit), FirstOf(asc, t, F, limit)
  PROVE  r = t
<1>1. /\ r \in Seq(Nat) /\ t \in Seq(Nat) /\ DOMAIN r = 1..Len(r) /\ DOMAIN t = 1..Len(t)
      /\ Len(t) \in Nat /\ Len(r) \in Nat
  BY DEF FirstOf
<1>. DEFINE Bad == {n \in Nat \ {0} : \/ n \in DOMAIN r /\ ~(n \in DOMAIN t /\ r[n] = t[n])
                                      \/ n \in DOMAIN t /\ ~(n \in DOMAIN r /\ r[n] = t[n])}
<1>2. Bad = {}
  <2>. SUFFICES ASSUME Bad # {} PROVE FALSE
    OBVIOUS
  <2>1. PICK n \in Bad : \A m \in Bad : n <= m
    <3>1. Bad \in SUBSET Nat
      OBVIOUS
    <3>. HIDE DEF Bad
    <3>. QED BY <3>1, SmallestOf
  <2>2. \A i \in 1..(n - 1) : i \notin Bad /\ i \in Nat \ {0}
    BY <2>1
  <2>3. ASSUME n \in DOMAIN r PROVE FALSE
    <3>1. \A i \in 1..(n - 1) : i \in DOMAIN t /\ r[i] = t[i]
      BY <1>1, <2>2, <2>3
    <3>2. n \in DOMAIN t /\ (r[n] = t[n] \/ Before(asc, t[n], r[n]))
      <4>. HIDE DEF Bad
      <4>. QED BY <3>1, <1>1, <2>3, FirstOfAgree
    <3>3. \A i \in 1..(n - 1) : i \in DOMAIN r /\ t[i] = r[i]
      BY <1>1, <2>3, <3>1
    <3>4. t[n] = r[n] \/ Before(asc, r[n], t[n])
      <4>. HIDE DEF Bad
      <4>. QED BY <3>2, <3>3, <1>1, FirstOfAgree
    <3>5. r[n] \in Nat /\ t[n] \in Nat
      BY <1>1, <2>3, <3>2
    <3>6. r[n] = t[n]
      BY <3>2, <3>4, <3>5 DEF Before
    <3>. QED BY <2>1, <2>3, <3>2, <3>6
  <2>4. ASSUME n \in DOMAIN t, n \notin DOMAIN r PROVE FALSE
    <3>1. \A i \in 1..(n - 1) : i \in DOMAIN r /\ t[i] = r[i]
      BY <1>1, <2>2, <2>4
    <3>2. n \in DOMAIN r
      <4>. HIDE DEF Bad
      <4>. QED BY <3>1, <1>1, <2>4, FirstOfAgree
    <3>. QED BY <3>2, <2>4
  <2>. QED BY <2>1, <2>3, <2>4
<1>3. \A n \in 1..Len(r) : n \in 1..Len(t) /\ r[n] = t[n]
  <2>. SUFFICES ASSUME NEW n \in 1..Len(r) PROVE n \in 1..Len(t) /\ r[n] = t[n]
    OBVIOUS
  <2>1. n \in Nat \ {0} /\ n \notin Bad
    BY <1>2
  <2>. QED BY <2>1, <1>1
<1>4. \A n \in 1..Len(t) : n \in 1..Len(r)
  <2>. SUFFICES ASSUME NEW n \in 1..Len(t) PROVE n \in 1..Len(r)
    OBVIOUS
  <2>1. n \in Nat \ {0} /\ n \notin Bad
    BY <1>2
  <2>. QED BY <2>1, <1>1
<1>5. Len(r) = Len(t)
  <2>1. Len(r) \in Nat /\ Len(t) \in Nat
    BY <1>1
  <2>2. Len(r) # 0 => Len(r) \in 1..Len(t)
    BY <1>3, <2>1
  <2>3. Len(t) # 0 => Len(t) \in 1..Len(r)
    BY <1>4, <2>1
  <2>. QED BY ONLY <2>1, <2>2, <2>3
<1>. QED BY <1>1, <1>3, <1>5, SeqEqual

\* Reading on behind what was read already.
LEMMA FirstOfGoesOn ==
  ASSUME NEW asc \in BOOLEAN, NEW G \in SUBSET Nat, NEW T \in SUBSET Nat, NEW limit \in Nat,
         \A x \in G, y \in T : Before(asc, x, y),
         NEW r, FirstOf(asc, r, G, limit), limit # 0 => Len(r) < limit,
         NEW t, FirstOf(asc, t, T, IF limit = 0 THEN 0 ELSE limit - Len(r))
  PROVE  FirstOf(asc, r \o t, G \cup T, limit)
<1>. DEFINE left == IF limit = 0 THEN 0 ELSE limit - Len(r)
<1>. DEFINE c == r \o t
<1>1. /\ r \in Seq(Nat) /\ t \in Seq(Nat) /\ DOMAIN r = 1..Len(r) /\ DOMAIN t = 1..Len(t)
      /\ Len(t) \in Nat /\ Len(r) \in Nat
  BY DEF FirstOf
<1>a. Len(t) \in Nat /\ Len(r) \in Nat
  BY <1>1
<1>2. /\ c \in Seq(Nat) /\ Len(c) = Len(r) + Len(t) /\ DOMAIN c = 1..(Len(r) + Len(t))
      /\ \A i \in 1..Len(r) : c[i] = r[i]
      /\ \A i \in 1..Len(t) : c[Len(r) + i] = t[i]
  BY <1>1, ConcatProperties
<1>3. \A i \in DOMAIN c : i \in DOMAIN r \/ (\E k \in DOMAIN t : i = Len(r) + k)
  <2>. SUFFICES ASSUME NEW i \in DOMAIN c, i \notin DOMAIN r PROVE \E k \in DOMAIN t : i = Len(r) + k
    OBVIOUS
  <2>. HIDE DEF c
  <2>1. i - Len(r) \in 1..Len(t) /\ i = Len(r) + (i - Len(r))
    BY <1>1, <1>2
  <2>. QED BY <2>1, <1>1
<1>. HIDE DEF c
<1>4. ToSet(c) = ToSet(r) \cup ToSet(t)
  <2>1. ASSUME NEW i \in DOMAIN c PROVE c[i] \in ToSet(r) \cup ToSet(t)
    <3>1. CASE i \in DOMAIN r
      BY <3>1, <1>1, <1>2 DEF ToSet
    <3>2. CASE \E k \in DOMAIN t : i = Len(r) + k
      BY <3>2, <1>1, <1>2 DEF ToSet
    <3>. QED BY <3>1, <3>2, <1>3
  <2>2. \A i \in DOMAIN r : i \in DOMAIN c /\ r[i] = c[i]
    BY <1>1, <1>2
  <2>3. ASSUME NEW k \in DOMAIN t PROVE Len(r) + k \in DOMAIN c /\ t[k] = c[Len(r) + k]
    <3>1. k \in 1..Len(t)
      BY <1>1
    <3>2. Len(r) + k \in 1..(Len(r) + Len(t))
      BY ONLY <1>a, <3>1
    <3>3. Len(r) + k \in DOMAIN c
      BY ONLY <1>2, <3>2
    <3>. QED BY ONLY <1>2, <3>1, <3>3
  <2>. QED BY <2>1, <2>2, <2>3 DEF ToSet
<1>5. ToSet(r) \subseteq G /\ ToSet(t) \subseteq T
  BY DEF FirstOf
<1>6. Sorted(asc, c)
  <2>. SUFFICES ASSUME NEW i \in DOMAIN c, NEW j \in DOMAIN c, i < j PROVE Before(asc, c[i], c[j])
    BY DEF Sorted
  <2>1. CASE j \in DOMAIN r
    <3>1. i \in DOMAIN r /\ c[i] = r[i] /\ c[j] = r[j]
      BY <2>1, <1>1, <1>2
    <3>. QED BY <3>1, <2>1 DEF FirstOf, Sorted
  <2>2. CASE \E l \in DOMAIN t : j = Len(r) + l
    <3>1. PICK l \in DOMAIN t : j = Len(r) + l
      BY <2>2
    <3>2. c[j] = t[l]
      BY <3>1, <1>1, <1>2
    <3>3. CASE i \in DOMAIN r
      <4>1. c[i] \in ToSet(r) /\ t[l] \in ToSet(t)
        BY <3>3, <1>1, <1>2 DEF ToSet
      <4>. QED BY <4>1, <3>2, <1>5
    <3>4. CASE \E k \in DOMAIN t : i = Len(r) + k
      <4>1. PICK k \in DOMAIN t : i = Len(r) + k
        BY <3>4
      <4>2. c[i] = t[k] /\ k < l
        BY <4>1, <3>1, <1>1, <1>2
      <4>. QED BY <4>2, <3>2 DEF FirstOf, Sorted
    <3>. QED BY <3>3, <3>4, <1>3
  <2>. QED BY <2>1, <2>2, <1>3
<1>7. limit # 0 => Len(c) <= limit
  <2>. SUFFICES ASSUME limit # 0 PROVE Len(c) <= limit
    OBVIOUS
  <2>1. left = limit - Len(r) /\ Len(r) < limit
    OBVIOUS
  <2>2. left # 0
    BY ONLY <2>1, <1>a, limit \in Nat
  <2>3. Len(t) <= left
    BY <2>2 DEF FirstOf
  <2>4. Len(c) = Len(r) + Len(t)
    BY <1>2
  <2>. QED BY ONLY <2>1, <2>3, <2>4, <1>a, limit \in Nat
<1>8. ASSUME NEW x \in G \cup T, x \notin ToSet(c)
      PROVE  limit # 0 /\ Len(c) = limit /\ \A y \in ToSet(c) : Before(asc, y, x)
  <2>1. x \notin G
    <3>. SUFFICES ASSUME x \in G PROVE FALSE
      OBVIOUS
    <3>1. limit # 0 /\ Len(r) = limit
      BY <1>4, <1>8 DEF FirstOf
    <3>. QED BY <3>1
  <2>2. x \in T /\ x \notin ToSet(t)
    BY <2>1, <1>4, <1>8
  <2>3. left # 0 /\ Len(t) = left /\ \A y \in ToSet(t) : Before(asc, y, x)
    BY <2>2 DEF FirstOf
  <2>4. \A y \in ToSet(r) : Before(asc, y, x)
    BY <2>2, <1>5
  <2>5. limit # 0 /\ Len(t) = limit - Len(r)
    BY <2>3
  <2>6. Len(c) = Len(r) + Len(t)
    BY <1>2
  <2>7. Len(c) = limit
    BY ONLY <2>5, <2>6, <1>a, limit \in Nat
  <2>8. \A y \in ToSet(c) : Before(asc, y, x)
    BY ONLY <2>3, <2>4, <1>4
  <2>. QED BY ONLY <2>5, <2>7, <2>8
<1>9. FirstOf(asc, c, G \cup T, limit)
  BY <1>2, <1>4, <1>5, <1>6, <1>7, <1>8 DEF FirstOf
<1>. QED BY <1>9 DEF c

\* An answer that reached its limit is not changed by rows that come later.
LEMMA FirstOfFull ==
  ASSUME NEW asc \in BOOLEAN, NEW G \in SUBSET Nat, NEW T \in SUBSET Nat, NEW limit \in Nat,
         \A x \in G, y \in T : Before(asc, x, y),
         NEW r, FirstOf(asc, r, G, limit), limit # 0, Len(r) >= limit
  PROVE  FirstOf(asc, r, G \cup T, limit)
<1>1. r \in Seq(Nat) /\ Len(r) \in Nat /\ Len(r) = limit /\ ToSet(r) \subseteq G
  BY DEF FirstOf
<1>2. \A x \in G \cup T : x \notin ToSet(r) => \A y \in ToSet(r) : Before(asc, y, x)
  BY <1>1 DEF FirstOf
<1>. QED BY <1>1, <1>2 DEF FirstOf

-----------------------------------------------------------------------------
(***************************************************************************)
(* The tree of entries and the path from an entry to the root.             *)
(***************************************************************************)
Fields == {"holds", "entry", "tip", "meta", "rows", "next"}

Tree(db) ==
  /\ DOMAIN db = Fields /\ db.holds = "session"
  /\ db.next \in Nat \ {0} /\ DOMAIN db.entry \subseteq 1 .. db.next - 1
  /\ \A e \in DOMAIN db.entry :
       /\ db.entry[e] = [parent |-> db.entry[e].parent, type |-> db.entry[e].type]
       /\ db.entry[e].type \in Types
       /\ db.entry[e].parent \in DOMAIN db.entry \cup {Null}
       /\ db.entry[e].parent < e

Path(db, e) == ToSet(PathTo(db, e))

\* The entries of a stored tree are numbers below the next free one.
LEMMA TreeNumbers ==
  ASSUME NEW db, Tree(db)
  PROVE  /\ db.next - 1 \in Nat
         /\ DOMAIN db.entry \in SUBSET (1 .. db.next - 1)
         /\ DOMAIN db.entry \cup {Null} \in SUBSET (0 .. db.next - 1)
         /\ \A x \in DOMAIN db.entry \cup {Null} : x \in Nat
         /\ \A x \in DOMAIN db.entry : x \in Nat /\ x # 0 /\ x # Null /\ 0 < x
<1>1. db.next - 1 \in Nat /\ DOMAIN db.entry \in SUBSET (1 .. db.next - 1)
  BY DEF Tree
<1>2. \A x \in 1..(db.next - 1) : x \in 0..(db.next - 1) /\ x \in Nat /\ x # 0 /\ 0 < x
  BY <1>1
<1>3. Null \in 0..(db.next - 1)
  BY <1>1 DEF Null
<1>. QED BY <1>1, <1>2, <1>3 DEF Null

\* The predicate of the recursion in PathTo.
Climbs(f, db) ==
  f = [x \in DOMAIN db.entry \cup {Null} |->
         IF x = Null THEN <<>> ELSE <<x>> \o f[db.entry[x].parent]]

\* The recursion that defines the parent walk has a solution on every tree.
LEMMA PathExists ==
  ASSUME NEW db, Tree(db)
  PROVE  \E f \in [DOMAIN db.entry \cup {Null} -> Seq(DOMAIN db.entry)] : Climbs(f, db)
<1>. DEFINE D == DOMAIN db.entry
<1>. DEFINE S == D \cup {Null}
<1>. DEFINE X == Seq(D)
<1>. DEFINE next == [x \in S |-> IF x = Null THEN Null ELSE db.entry[x].parent]
<1>. DEFINE step == [x \in S |-> [s \in X |-> IF x = Null THEN s ELSE <<x>> \o s]]
<1>1. db.next - 1 \in Nat /\ S \in SUBSET (0 .. db.next - 1)
  BY TreeNumbers
<1>2. next \in [S -> S] /\ \A x \in S \ {Null} : next[x] < x
  BY DEF Tree
<1>3. step \in [S -> [X -> X]]
  <2>. SUFFICES ASSUME NEW x \in S, NEW s \in X, x # Null PROVE <<x>> \o s \in X
    OBVIOUS
  <2>1. x \in D
    OBVIOUS
  <2>. HIDE DEF D
  <2>2. <<x>> \in Seq(D) /\ s \in Seq(D)
    BY <2>1
  <2>. QED BY ONLY <2>2, ConcatProperties
<1>4. {Null} \in SUBSET S /\ <<>> \in X
  OBVIOUS
<1>5. \A x \in S, s \in X : x # Null => step[x][s] = <<x>> \o s
  OBVIOUS
<1>6. \A x \in S : x # Null => next[x] = db.entry[x].parent
  OBVIOUS
<1>. HIDE DEF next, step, X
<1>7. PICK f \in [S -> X] : Solves(f, S, {Null}, <<>>, next, step)
  <2>. HIDE DEF S
  <2>. QED BY ONLY <1>1, <1>2, <1>3, <1>4, Recursion
<1>8. \A x \in S : f[x] = IF x = Null THEN <<>> ELSE step[x][f[next[x]]]
  <2>. HIDE DEF S
  <2>. QED BY <1>7 DEF Solves
<1>9. \A x \in S : f[x] = IF x = Null THEN <<>> ELSE <<x>> \o f[db.entry[x].parent]
  <2>. SUFFICES ASSUME NEW x \in S, x # Null PROVE f[x] = <<x>> \o f[db.entry[x].parent]
    BY <1>8
  <2>. HIDE DEF S
  <2>1. f[next[x]] \in X
    BY <1>2
  <2>2. f[x] = step[x][f[next[x]]]
    BY <1>8
  <2>. QED BY <2>1, <2>2, <1>5, <1>6
<1>10. Climbs(f, db)
  <2>1. f = [x \in S |-> f[x]]
    OBVIOUS
  <2>. QED BY <2>1, <1>9 DEF Climbs
<1>. QED BY <1>10 DEF X

\* The parent walk of an entry is the entry and then its parent's walk.
LEMMA PathSteps ==
  ASSUME NEW db, Tree(db)
  PROVE  /\ \A x \in DOMAIN db.entry \cup {Null} : PathTo(db, x) \in Seq(DOMAIN db.entry)
         /\ PathTo(db, Null) = <<>>
         /\ \A x \in DOMAIN db.entry : PathTo(db, x) = <<x>> \o PathTo(db, db.entry[x].parent)
<1>. DEFINE g == CHOOSE f : Climbs(f, db)
<1>. DEFINE S == DOMAIN db.entry \cup {Null}
<1>1. Climbs(g, db)
  BY PathExists
<1>2. PICK h \in [S -> Seq(DOMAIN db.entry)] : Climbs(h, db)
  BY PathExists
<1>3. \A e : PathTo(db, e) = g[e]
  BY DEF PathTo, Climbs
<1>. HIDE DEF g
<1>4. /\ \A x \in S : g[x] = IF x = Null THEN <<>> ELSE <<x>> \o g[db.entry[x].parent]
      /\ \A x \in S : h[x] = IF x = Null THEN <<>> ELSE <<x>> \o h[db.entry[x].parent]
  <2>1. g = [x \in S |-> IF x = Null THEN <<>> ELSE <<x>> \o g[db.entry[x].parent]]
    BY <1>1 DEF Climbs
  <2>2. h = [x \in S |-> IF x = Null THEN <<>> ELSE <<x>> \o h[db.entry[x].parent]]
    BY <1>2 DEF Climbs
  <2>. HIDE DEF S
  <2>. QED BY <2>1, <2>2
<1>5. \A x \in S : g[x] = h[x]
  <2>. DEFINE Bad == {x \in S : g[x] # h[x]}
  <2>. SUFFICES ASSUME Bad # {} PROVE FALSE
    OBVIOUS
  <2>1. Bad \in SUBSET Nat
    BY TreeNumbers
  <2>2. PICK x \in Bad : \A y \in Bad : x <= y
    <3>. HIDE DEF Bad
    <3>. QED BY <2>1, SmallestOf
  <2>3. x # Null
    BY <1>4
  <2>4. db.entry[x].parent \in S /\ db.entry[x].parent < x /\ x \in Nat /\ db.entry[x].parent \in Nat
    BY <2>3, TreeNumbers DEF Tree
  <2>5. g[db.entry[x].parent] = h[db.entry[x].parent]
    BY <2>2, <2>4
  <2>. QED BY <1>4, <2>3, <2>5
<1>6. \A x \in S : g[x] \in Seq(DOMAIN db.entry)
  BY <1>5
<1>7. \A x \in DOMAIN db.entry : x # Null
  BY TreeNumbers
<1>8. \A x \in DOMAIN db.entry : g[x] = <<x>> \o g[db.entry[x].parent]
  BY ONLY <1>4, <1>7
<1>9. g[Null] = <<>>
  BY ONLY <1>4
<1>. HIDE DEF g, S
<1>10. PathTo(db, Null) = <<>>
  BY ONLY <1>3, <1>9
<1>11. \A x \in DOMAIN db.entry : PathTo(db, x) = <<x>> \o PathTo(db, db.entry[x].parent)
  BY ONLY <1>3, <1>8
<1>12. \A x \in S : PathTo(db, x) \in Seq(DOMAIN db.entry)
  BY ONLY <1>3, <1>6
<1>. QED BY ONLY <1>10, <1>11, <1>12 DEF S

\* What putting an item in front of a sequence gives.
LEMMA PrefixedSet ==
  ASSUME NEW X, NEW x \in X, NEW s \in Seq(X)
  PROVE  /\ <<x>> \o s \in Seq(X) /\ Len(<<x>> \o s) = Len(s) + 1
         /\ (<<x>> \o s)[1] = x
         /\ \A i \in 1..Len(s) : (<<x>> \o s)[i + 1] = s[i]
         /\ ToSet(<<x>> \o s) = {x} \cup ToSet(s)
<1>. DEFINE c == <<x>> \o s
<1>1. <<x>> \in Seq(X) /\ Len(<<x>>) = 1 /\ <<x>>[1] = x
  OBVIOUS
<1>2. /\ c \in Seq(X) /\ Len(c) = 1 + Len(s)
      /\ c[1] = x
      /\ \A i \in 1..Len(s) : c[1 + i] = s[i]
  BY <1>1, ConcatProperties
<1>3. Len(s) \in Nat /\ DOMAIN s = 1..Len(s) /\ DOMAIN c = 1..(Len(s) + 1)
  BY <1>2
<1>. HIDE DEF c
<1>4. \A i \in 1..Len(s) : c[i + 1] = s[i] /\ i + 1 \in 1..(Len(s) + 1)
  BY <1>2, <1>3
<1>5. \A k \in DOMAIN c : k = 1 \/ (k - 1 \in DOMAIN s /\ c[k] = s[k - 1])
  <2>. SUFFICES ASSUME NEW k \in 1..(Len(s) + 1), k # 1 PROVE k - 1 \in 1..Len(s) /\ c[k] = s[k - 1]
    BY <1>3, Zenon
  <2>1. k - 1 \in 1..Len(s) /\ (k - 1) + 1 = k
    BY <1>3
  <2>. QED BY <2>1, <1>4
<1>6. 1 \in DOMAIN c
  BY <1>3
<1>7. \A i \in DOMAIN s : i + 1 \in DOMAIN c /\ c[i + 1] = s[i]
  BY <1>3, <1>4
<1>8. ToSet(c) = {x} \cup ToSet(s)
  <2>1. \A y \in ToSet(c) : y \in {x} \cup ToSet(s)
    BY <1>2, <1>5 DEF ToSet
  <2>2. \A y \in {x} \cup ToSet(s) : y \in ToSet(c)
    BY <1>2, <1>6, <1>7 DEF ToSet
  <2>. QED BY <2>1, <2>2
<1>9. Len(c) = Len(s) + 1
  BY <1>2, <1>3
<1>. QED BY <1>2, <1>4, <1>8, <1>9 DEF c

\* The ancestors of an entry: itself and those of its parent.
LEMMA PathSet ==
  ASSUME NEW db, Tree(db)
  PROVE  /\ Path(db, Null) = {}
         /\ \A x \in DOMAIN db.entry : Path(db, x) = {x} \cup Path(db, db.entry[x].parent)
         /\ \A x \in DOMAIN db.entry \cup {Null} : Path(db, x) \subseteq DOMAIN db.entry
<1>1. Path(db, Null) = {}
  BY PathSteps DEF Path, ToSet
<1>2. ASSUME NEW x \in DOMAIN db.entry
      PROVE  Path(db, x) = {x} \cup Path(db, db.entry[x].parent)
  <2>1. db.entry[x].parent \in DOMAIN db.entry \cup {Null}
    BY DEF Tree
  <2>2. PathTo(db, db.entry[x].parent) \in Seq(DOMAIN db.entry)
    BY <2>1, PathSteps
  <2>3. PathTo(db, x) = <<x>> \o PathTo(db, db.entry[x].parent)
    BY PathSteps
  <2>. QED BY <2>2, <2>3, PrefixedSet DEF Path
<1>3. ASSUME NEW x \in DOMAIN db.entry \cup {Null} PROVE Path(db, x) \subseteq DOMAIN db.entry
  <2>1. PathTo(db, x) \in Seq(DOMAIN db.entry)
    BY PathSteps
  <2>. QED BY <2>1 DEF Path, ToSet
<1>. QED BY <1>1, <1>2, <1>3

\* The path to an entry is made of it and of older entries, and the path to
\* one of them is the part of it that is not newer.
LEMMA PathIsOlder ==
  ASSUME NEW db, Tree(db)
  PROVE  \A x \in DOMAIN db.entry \cup {Null} : \A y \in Path(db, x) : y <= x
<1>. DEFINE S == DOMAIN db.entry \cup {Null}
<1>. DEFINE Bad == {x \in S : \E y \in Path(db, x) : ~(y <= x)}
<1>. SUFFICES ASSUME Bad # {} PROVE FALSE
  OBVIOUS
<1>1. Bad \in SUBSET Nat
  BY TreeNumbers
<1>2. PICK x \in Bad : \A y \in Bad : x <= y
  <2>. HIDE DEF Bad
  <2>. QED BY <1>1, SmallestOf
<1>3. PICK y \in Path(db, x) : ~(y <= x)
  OBVIOUS
<1>4. x # Null /\ x \in S
  BY PathSet
<1>. DEFINE p == db.entry[x].parent
<1>5. p \in S /\ p < x /\ x \in Nat /\ p \in Nat /\ y \in Nat
  <2>1. p \in S /\ p < x
    BY <1>4 DEF Tree
  <2>2. y \in DOMAIN db.entry
    BY <1>3, <1>4, PathSet
  <2>. QED BY <2>1, <2>2, <1>4, TreeNumbers
<1>6. Path(db, x) = {x} \cup Path(db, p)
  BY <1>4, PathSet
<1>7. p \notin Bad
  BY <1>2, <1>5
<1>8. \A z \in Path(db, p) : z <= p
  BY <1>5, <1>7
<1>. QED BY ONLY <1>3, <1>5, <1>6, <1>8

\* The ancestors of an ancestor are the ancestors with no higher number.
LEMMA PathBelow ==
  ASSUME NEW db, Tree(db)
  PROVE  \A x \in DOMAIN db.entry \cup {Null} : \A y \in Path(db, x) :
           Path(db, y) = {z \in Path(db, x) : z <= y}
<1>. DEFINE S == DOMAIN db.entry \cup {Null}
<1>. DEFINE Right(x) == \A y \in Path(db, x) : Path(db, y) = {z \in Path(db, x) : z <= y}
<1>. DEFINE Bad == {x \in S : ~Right(x)}
<1>. SUFFICES ASSUME Bad # {} PROVE FALSE
  OBVIOUS
<1>1. Bad \in SUBSET Nat
  <2>. HIDE DEF Right
  <2>. QED BY TreeNumbers
<1>2. PICK x \in Bad : \A y \in Bad : x <= y
  <2>. HIDE DEF Bad
  <2>. QED BY <1>1, SmallestOf
<1>3. x # Null /\ x \in S /\ ~Right(x)
  BY PathSet
<1>. DEFINE p == db.entry[x].parent
<1>4. p \in S /\ p < x /\ x \in Nat /\ p \in Nat
  <2>1. p \in S /\ p < x
    BY <1>3 DEF Tree
  <2>. QED BY <2>1, <1>3, TreeNumbers
<1>5. Path(db, x) = {x} \cup Path(db, p)
  BY <1>3, PathSet
<1>6. Right(p)
  <2>. HIDE DEF Right
  <2>. QED BY <1>2, <1>4
<1>7. \A z \in Path(db, x) : z <= x /\ z \in Nat
  <2>1. \A z \in Path(db, x) : z \in DOMAIN db.entry
    BY <1>3, PathSet
  <2>. QED BY <2>1, <1>3, PathIsOlder, TreeNumbers
<1>8. \A z \in Path(db, p) : z <= p
  BY <1>4, PathIsOlder
<1>9. ASSUME NEW y \in Path(db, x) PROVE Path(db, y) = {z \in Path(db, x) : z <= y}
  <2>1. CASE y = x
    BY <2>1, <1>7
  <2>2. CASE y \in Path(db, p)
    <3>1. Path(db, y) = {z \in Path(db, p) : z <= y}
      BY <2>2, <1>6
    <3>2. y <= p /\ ~(x <= y)
      BY <2>2, <1>4, <1>7, <1>8, <1>9
    <3>. QED BY ONLY <3>1, <3>2, <1>5
  <2>. QED BY <2>1, <2>2, <1>5, <1>9
<1>. QED BY <1>3, <1>9

\* The ancestors of an entry include the parent of each of them.
LEMMA PathClosed ==
  ASSUME NEW db, Tree(db), NEW x \in DOMAIN db.entry \cup {Null}
  PROVE  /\ x # Null => x \in Path(db, x)
         /\ \A y \in Path(db, x) :
              y \in DOMAIN db.entry /\ y <= x /\ db.entry[y].parent \in Path(db, x) \cup {Null}
<1>1. x # Null => x \in Path(db, x)
  BY PathSet
<1>2. ASSUME NEW y \in Path(db, x)
      PROVE  y \in DOMAIN db.entry /\ y <= x /\ db.entry[y].parent \in Path(db, x) \cup {Null}
  <2>1. y \in DOMAIN db.entry /\ y <= x
    BY PathSet, PathIsOlder
  <2>2. CASE db.entry[y].parent = Null
    BY <2>1, <2>2
  <2>3. CASE db.entry[y].parent # Null
    <3>. DEFINE p == db.entry[y].parent
    <3>1. p \in DOMAIN db.entry
      BY <2>1, <2>3 DEF Tree
    <3>2. p \in Path(db, p)
      BY <3>1, PathSet
    <3>3. Path(db, y) = {y} \cup Path(db, p)
      BY <2>1, PathSet
    <3>4. Path(db, y) \subseteq Path(db, x)
      BY PathBelow
    <3>. HIDE DEF p
    <3>5. p \in Path(db, x)
      BY <3>2, <3>3, <3>4
    <3>. QED BY <2>1, <3>5 DEF p
  <2>. QED BY <2>2, <2>3
<1>. QED BY <1>1, <1>2

\* The parent walk goes down in the numbers.
LEMMA PathDescends ==
  ASSUME NEW db, Tree(db)
  PROVE  \A x \in DOMAIN db.entry \cup {Null} :
           PathTo(db, x) \in Seq(Nat) /\ Sorted(FALSE, PathTo(db, x))
<1>. DEFINE S == DOMAIN db.entry \cup {Null}
<1>. DEFINE Bad == {x \in S : ~Sorted(FALSE, PathTo(db, x))}
<1>0. \A x \in S : PathTo(db, x) \in Seq(Nat) /\ PathTo(db, x) \in Seq(DOMAIN db.entry)
  <2>. SUFFICES ASSUME NEW x \in S PROVE PathTo(db, x) \in Seq(Nat) /\ PathTo(db, x) \in Seq(DOMAIN db.entry)
    OBVIOUS
  <2>1. PathTo(db, x) \in Seq(DOMAIN db.entry)
    BY PathSteps
  <2>2. DOMAIN db.entry \subseteq Nat
    BY TreeNumbers
  <2>. QED BY ONLY <2>1, <2>2
<1>1. ASSUME Bad # {} PROVE FALSE
  <2>1. Bad \in SUBSET Nat
    BY TreeNumbers
  <2>2. PICK x \in Bad : \A y \in Bad : x <= y
    <3>. HIDE DEF Bad
    <3>. QED BY <1>1, <2>1, SmallestOf
  <2>3. x # Null /\ x \in S /\ ~Sorted(FALSE, PathTo(db, x))
    <3>1. Sorted(FALSE, <<>>)
      BY DEF Sorted
    <3>2. PathTo(db, Null) = <<>>
      BY PathSteps
    <3>. QED BY ONLY <3>1, <3>2, x \in Bad
  <2>. DEFINE p == db.entry[x].parent
  <2>4. p \in S /\ p < x /\ x \in Nat /\ p \in Nat
    <3>1. p \in S /\ p < x
      BY <2>3 DEF Tree
    <3>. QED BY <3>1, <2>3, TreeNumbers
  <2>. DEFINE s == PathTo(db, p)
  <2>. DEFINE c == <<x>> \o s
  <2>5. PathTo(db, x) = c
    BY <2>3, PathSteps
  <2>6. Sorted(FALSE, s) /\ s \in Seq(DOMAIN db.entry)
    <3>1. p \notin Bad
      <4>. HIDE DEF Bad, p
      <4>1. p \in Bad => x <= p
        BY <2>2
      <4>. QED BY ONLY <4>1, <2>4
    <3>. QED BY <3>1, <2>4, <1>0
  <2>7. \A i \in DOMAIN s : s[i] <= p
    <3>1. \A z \in Path(db, p) : z <= p
      BY <2>4, PathIsOlder
    <3>. QED BY <3>1 DEF Path, ToSet
  <2>. HIDE DEF s, p
  <2>8. /\ c \in Seq(DOMAIN db.entry) /\ Len(c) = Len(s) + 1 /\ c[1] = x
        /\ \A i \in 1..Len(s) : c[i + 1] = s[i]
    <3>1. x \in DOMAIN db.entry
      BY <2>3
    <3>. HIDE DEF Bad
    <3>. QED BY <3>1, <2>6, PrefixedSet
  <2>. HIDE DEF c
  <2>9. DOMAIN s = 1..Len(s) /\ DOMAIN c = 1..(Len(s) + 1) /\ Len(s) \in Nat
    BY <2>6, <2>8
  <2>10. \A i \in DOMAIN s : s[i] \in Nat
    BY <2>6, TreeNumbers
  <2>11. Sorted(FALSE, c)
    <3>. SUFFICES ASSUME NEW i \in 1..(Len(s) + 1), NEW j \in 1..(Len(s) + 1), i < j PROVE c[j] < c[i]
      BY <2>9 DEF Sorted, Before
    <3>1. j - 1 \in 1..Len(s) /\ c[j] = s[j - 1]
      <4>1. j - 1 \in 1..Len(s) /\ (j - 1) + 1 = j
        BY ONLY <2>9, i < j, i \in 1..(Len(s) + 1), j \in 1..(Len(s) + 1)
      <4>. QED BY <4>1, <2>8
    <3>2. CASE i = 1
      BY <3>1, <3>2, <2>4, <2>7, <2>8, <2>9, <2>10
    <3>3. CASE i # 1
      <4>1. i - 1 \in 1..Len(s) /\ (i - 1) + 1 = i /\ i - 1 < j - 1
        BY ONLY <3>3, <2>9, i < j, i \in 1..(Len(s) + 1), j \in 1..(Len(s) + 1)
      <4>2. c[i] = s[i - 1]
        BY <4>1, <2>8
      <4>3. Before(FALSE, s[i - 1], s[j - 1])
        BY <4>1, <3>1, <2>6, <2>9 DEF Sorted
      <4>. QED BY <4>2, <4>3, <3>1 DEF Before
    <3>. QED BY <3>2, <3>3
  <2>. QED BY <2>3, <2>5, <2>11
<1>. QED BY <1>0, <1>1

\* Paths depend on nothing but the parents above.
LEMMA PathsAgree ==
  ASSUME NEW a, Tree(a), NEW b, Tree(b), NEW K,
         K \subseteq DOMAIN a.entry, K \subseteq DOMAIN b.entry,
         \A x \in K : /\ a.entry[x].parent = b.entry[x].parent
                      /\ a.entry[x].parent \in K \cup {Null}
  PROVE  \A x \in K \cup {Null} : PathTo(a, x) = PathTo(b, x) /\ Path(a, x) = Path(b, x)
<1>. DEFINE Bad == {x \in K \cup {Null} : PathTo(a, x) # PathTo(b, x)}
<1>1. ASSUME Bad # {} PROVE FALSE
  <2>1. Bad \in SUBSET Nat
    BY TreeNumbers
  <2>2. PICK x \in Bad : \A y \in Bad : x <= y
    <3>. HIDE DEF Bad
    <3>. QED BY <1>1, <2>1, SmallestOf
  <2>3. x # Null /\ x \in K /\ PathTo(a, x) # PathTo(b, x)
    BY PathSteps
  <2>. DEFINE p == a.entry[x].parent
  <2>4. p \in K \cup {Null} /\ p = b.entry[x].parent /\ p < x
    BY <2>3 DEF Tree
  <2>5. p \in Nat /\ x \in Nat
    BY <2>3, <2>4, TreeNumbers
  <2>6. PathTo(a, p) = PathTo(b, p)
    BY <2>2, <2>4, <2>5
  <2>7. PathTo(a, x) = <<x>> \o PathTo(a, p) /\ PathTo(b, x) = <<x>> \o PathTo(b, p)
    BY <2>3, <2>4, PathSteps
  <2>. QED BY <2>3, <2>6, <2>7
<1>. QED BY <1>1 DEF Path

-----------------------------------------------------------------------------
(***************************************************************************)
(* The branch index: every branch owns the part of a path above its base,  *)
(* and its base is a row of the branch it continues.                       *)
(***************************************************************************)
Branch(tip, base, seq) == [tip |-> tip, base |-> base, baseSeq |-> seq]

IndexesBranch(db, b) ==
  /\ db.meta[b] = Branch(db.meta[b].tip, db.meta[b].base, db.meta[b].baseSeq)
  /\ db.meta[b].tip \in DOMAIN db.entry
  /\ db.meta[b].baseSeq \in Nat
  /\ db.rows[b] = {x \in Path(db, db.meta[b].tip) : db.meta[b].baseSeq < x}
  /\ db.meta[b].base = Null => db.meta[b].baseSeq = 0
  /\ db.meta[b].base # Null =>
       /\ db.meta[b].base \in DOMAIN db.meta /\ db.meta[b].base < b
       /\ db.meta[b].baseSeq \in db.rows[db.meta[b].base]
       /\ db.meta[b].baseSeq \in Path(db, db.meta[b].tip)

Index(db, covered) ==
  /\ DOMAIN db.meta = DOMAIN db.rows /\ DOMAIN db.meta \subseteq DOMAIN db.entry
  /\ \A b \in DOMAIN db.meta : IndexesBranch(db, b)
  /\ \A e \in covered : \E b \in DOMAIN db.meta : e \in db.rows[b]

\* A row of a branch, and the path to it.
LEMMA RowFacts ==
  ASSUME NEW db, Tree(db), NEW covered, Index(db, covered),
         NEW b \in DOMAIN db.meta, NEW u \in db.rows[b]
  PROVE  /\ u \in DOMAIN db.entry /\ u \in Nat
         /\ db.meta[b].baseSeq \in Nat /\ db.meta[b].baseSeq < u /\ u <= db.meta[b].tip
         /\ Path(db, u) = {z \in Path(db, db.meta[b].tip) : z <= u}
         /\ {x \in db.rows[b] : x <= u} = {x \in Path(db, u) : db.meta[b].baseSeq < x}
         /\ db.meta[b].baseSeq \in Path(db, u) \cup {Null}
<1>. DEFINE t == db.meta[b].tip
<1>. DEFINE l == db.meta[b].baseSeq
<1>1. /\ t \in DOMAIN db.entry /\ l \in Nat
      /\ db.rows[b] = {x \in Path(db, t) : l < x}
      /\ l = Null \/ l \in Path(db, t)
  BY DEF Index, IndexesBranch, Null
<1>. HIDE DEF t, l
<1>2. u \in Path(db, t) /\ l < u
  BY <1>1
<1>3. u \in DOMAIN db.entry /\ u <= t
  BY <1>1, <1>2, PathClosed
<1>4. u \in Nat
  BY <1>3, TreeNumbers
<1>5. Path(db, u) = {z \in Path(db, t) : z <= u}
  BY <1>1, <1>2, PathBelow
<1>6. {x \in db.rows[b] : x <= u} = {x \in Path(db, u) : l < x}
  BY <1>1, <1>5
<1>7. l <= u
  BY ONLY <1>1, <1>2, <1>4
<1>8. l \in Path(db, u) \cup {Null}
  BY <1>1, <1>5, <1>7
<1>. QED BY <1>1, <1>2, <1>3, <1>4, <1>5, <1>6, <1>8 DEF t, l

Segments(db) == [branch : DOMAIN db.meta, lower : Nat, upper : Nat]

\* The segments lie one below the other and cover the path to e.
Tiles(db, s, e) ==
  /\ s \in Seq(Segments(db))
  /\ \A i \in DOMAIN s :
       /\ s[i].upper <= e
       /\ RowsIn(db, s[i]) = {x \in Path(db, e) : s[i].lower < x /\ x <= s[i].upper}
  /\ \A i, j \in DOMAIN s : i < j => s[j].upper <= s[i].lower
  /\ \A x \in Path(db, e) : \E i \in DOMAIN s : s[i].lower < x /\ x <= s[i].upper

\* No segment at all tiles the path of the root.
LEMMA NothingTiles ==
  ASSUME NEW db, Tree(db)
  PROVE  Tiles(db, <<>>, Null)
BY PathSet DEF Tiles

Segment(db, b, upper) == [branch |-> b, lower |-> db.meta[b].baseSeq, upper |-> upper]

\* A branch's segment on top of the segments below its base tiles its path.
LEMMA TilesGrow ==
  ASSUME NEW db, Tree(db), NEW covered, Index(db, covered),
         NEW b \in DOMAIN db.meta, NEW u \in db.rows[b],
         NEW g, Tiles(db, g, db.meta[b].baseSeq)
  PROVE  Tiles(db, <<Segment(db, b, u)>> \o g, u)
<1>. DEFINE l == db.meta[b].baseSeq
<1>. DEFINE new == Segment(db, b, u)
<1>. DEFINE s == <<new>> \o g
<1>1. /\ u \in DOMAIN db.entry /\ u \in Nat /\ l \in Nat /\ l < u
      /\ {x \in db.rows[b] : x <= u} = {x \in Path(db, u) : l < x}
      /\ l \in Path(db, u) \cup {Null}
  BY RowFacts
<1>2. Path(db, l) = {z \in Path(db, u) : z <= l}
  <2>1. CASE l \in Path(db, u)
    BY <1>1, <2>1, PathBelow
  <2>2. CASE l = Null
    <3>1. \A z \in Path(db, u) : z # 0 /\ z \in Nat
      BY <1>1, PathSet, TreeNumbers
    <3>2. Path(db, Null) = {}
      BY PathSet
    <3>. QED BY <2>2, <3>1, <3>2 DEF Null
  <2>. QED BY <1>1, <2>1, <2>2
<1>3. new.branch = b /\ new.lower = l /\ new.upper = u /\ new \in Segments(db)
  BY <1>1 DEF Segment, Segments
<1>4. RowsIn(db, new) = {x \in Path(db, u) : new.lower < x /\ x <= new.upper}
  <2>1. RowsIn(db, new) = {q \in db.rows[b] : l < q /\ q <= u}
    BY <1>3 DEF RowsIn
  <2>2. \A x \in Path(db, u) : x <= u
    BY <1>1, PathClosed
  <2>. QED BY <1>1, <1>3, <2>1, <2>2
<1>. HIDE DEF l, new
<1>5. /\ g \in Seq(Segments(db))
      /\ \A i \in DOMAIN g :
           /\ g[i].upper <= l
           /\ RowsIn(db, g[i]) = {x \in Path(db, l) : g[i].lower < x /\ x <= g[i].upper}
      /\ \A i, j \in DOMAIN g : i < j => g[j].upper <= g[i].lower
      /\ \A x \in Path(db, l) : \E i \in DOMAIN g : g[i].lower < x /\ x <= g[i].upper
  BY DEF Tiles, l
<1>6. /\ s \in Seq(Segments(db)) /\ Len(s) = Len(g) + 1 /\ s[1] = new
      /\ \A i \in 1..Len(g) : s[i + 1] = g[i]
  BY <1>3, <1>5, PrefixedSet
<1>7. Len(g) \in Nat /\ DOMAIN g = 1..Len(g) /\ DOMAIN s = 1..(Len(g) + 1)
  BY <1>5, <1>6
<1>. HIDE DEF s
<1>8. \A k \in DOMAIN s : k = 1 \/ (k - 1 \in DOMAIN g /\ s[k] = g[k - 1] /\ 1 < k)
  <2>. SUFFICES ASSUME NEW k \in 1..(Len(g) + 1), k # 1
                PROVE  k - 1 \in 1..Len(g) /\ s[k] = g[k - 1] /\ 1 < k
    BY <1>7, Zenon
  <2>1. k - 1 \in 1..Len(g) /\ (k - 1) + 1 = k /\ 1 < k
    BY ONLY <1>7, k # 1, k \in 1..(Len(g) + 1)
  <2>. QED BY <2>1, <1>6
<1>9. \A i \in DOMAIN g : i + 1 \in DOMAIN s /\ s[i + 1] = g[i]
  <2>1. \A i \in 1..Len(g) : i + 1 \in 1..(Len(g) + 1)
    BY ONLY <1>7
  <2>. QED BY <2>1, <1>6, <1>7, Zenon
<1>10. 1 \in DOMAIN s
  BY ONLY <1>7
<1>11. \A i \in DOMAIN g : g[i].upper \in Nat /\ g[i].lower \in Nat
  <2>. SUFFICES ASSUME NEW i \in DOMAIN g PROVE g[i].upper \in Nat /\ g[i].lower \in Nat
    OBVIOUS
  <2>1. g \in Seq(Segments(db))
    BY <1>5
  <2>2. g[i] \in Segments(db)
    BY ONLY <2>1, i \in DOMAIN g
  <2>. QED BY <2>2 DEF Segments
<1>12. ASSUME NEW k \in DOMAIN s
       PROVE  /\ s[k].upper <= u
              /\ RowsIn(db, s[k]) = {x \in Path(db, u) : s[k].lower < x /\ x <= s[k].upper}
  <2>1. CASE k = 1
    BY <2>1, <1>1, <1>3, <1>4, <1>6
  <2>2. CASE k - 1 \in DOMAIN g /\ s[k] = g[k - 1]
    <3>. DEFINE r == g[k - 1]
    <3>1. r.upper <= l /\ r.upper \in Nat /\ r.lower \in Nat
      BY <2>2, <1>5, <1>11
    <3>2. RowsIn(db, r) = {x \in Path(db, l) : r.lower < x /\ x <= r.upper}
      BY <2>2, <1>5
    <3>. HIDE DEF r
    <3>3. r.upper <= u
      BY <3>1, <1>1
    <3>4. \A x \in Path(db, u) : x <= r.upper => x <= l
      <4>1. \A x \in Path(db, u) : x \in Nat
        BY <1>1, PathSet, TreeNumbers
      <4>. QED BY ONLY <3>1, <1>1, <4>1
    <3>5. RowsIn(db, r) = {x \in Path(db, u) : r.lower < x /\ x <= r.upper}
      BY ONLY <3>2, <3>4, <1>2
    <3>. QED BY <2>2, <3>3, <3>5 DEF r
  <2>. QED BY <2>1, <2>2, <1>8
<1>13. ASSUME NEW i \in DOMAIN s, NEW j \in DOMAIN s, i < j PROVE s[j].upper <= s[i].lower
  <2>1. j - 1 \in DOMAIN g /\ s[j] = g[j - 1]
    <3>1. j # 1
      BY ONLY <1>7, <1>13
    <3>. QED BY <3>1, <1>8
  <2>2. CASE i = 1
    BY <2>1, <2>2, <1>3, <1>5, <1>6
  <2>3. CASE i - 1 \in DOMAIN g /\ s[i] = g[i - 1]
    <3>1. i - 1 < j - 1
      BY ONLY <1>7, <1>13
    <3>. QED BY <2>1, <2>3, <3>1, <1>5
  <2>. QED BY <2>2, <2>3, <1>8
<1>14. ASSUME NEW x \in Path(db, u) PROVE \E k \in DOMAIN s : s[k].lower < x /\ x <= s[k].upper
  <2>1. x <= u /\ x \in Nat
    BY <1>1, PathClosed, TreeNumbers
  <2>2. CASE l < x
    BY <2>1, <2>2, <1>3, <1>6, <1>10
  <2>3. CASE ~(l < x)
    <3>1. x \in Path(db, l)
      BY <2>1, <2>3, <1>1, <1>2
    <3>2. PICK i \in DOMAIN g : g[i].lower < x /\ x <= g[i].upper
      BY <3>1, <1>5
    <3>. QED BY <3>2, <1>9
  <2>. QED BY <2>2, <2>3
<1>15. Tiles(db, s, u)
  BY <1>6, <1>12, <1>13, <1>14 DEF Tiles
<1>. QED BY <1>15 DEF s, new

\* The predicate of the recursion in SegmentsNewestFirst.
Descends(f, db) ==
  f = [b \in DOMAIN db.meta |->
         IF db.meta[b].base = Null THEN <<>>
         ELSE <<[branch |-> db.meta[b].base, lower |-> db.meta[db.meta[b].base].baseSeq,
                 upper |-> db.meta[b].baseSeq]>> \o f[db.meta[b].base]]

\* The recursion that descends from branch to base has a solution.
LEMMA DescentExists ==
  ASSUME NEW db, Tree(db), NEW covered, Index(db, covered)
  PROVE  \E f : Descends(f, db)
<1>. DEFINE B == DOMAIN db.meta
<1>. DEFINE X == Seq(Segments(db))
<1>. DEFINE ends == {b \in B : db.meta[b].base = Null}
<1>. DEFINE next == [b \in B |-> IF b \in ends THEN b ELSE db.meta[b].base]
<1>. DEFINE seg(b) == Segment(db, db.meta[b].base, db.meta[b].baseSeq)
<1>. DEFINE step == [b \in B |-> [s \in X |-> IF b \in ends THEN s ELSE <<seg(b)>> \o s]]
<1>1. db.next - 1 \in Nat /\ B \in SUBSET (0 .. db.next - 1)
  <2>1. B \subseteq DOMAIN db.entry
    BY DEF Index
  <2>2. db.next - 1 \in Nat /\ DOMAIN db.entry \subseteq 0 .. db.next - 1
    BY TreeNumbers
  <2>. QED BY ONLY <2>1, <2>2
<1>2. \A b \in B \ ends : /\ db.meta[b].base \in B /\ db.meta[b].base < b
                          /\ db.meta[b].baseSeq \in Nat /\ db.meta[db.meta[b].base].baseSeq \in Nat
  BY DEF Index, IndexesBranch
<1>3. next \in [B -> B] /\ \A b \in B \ ends : next[b] < b
  BY <1>2
<1>4. \A b \in B : b \notin ends => seg(b) \in Segments(db)
  BY <1>2 DEF Segment, Segments
<1>5. \A b \in B : \A s \in X : b \notin ends => step[b][s] = <<seg(b)>> \o s
  <2>. HIDE DEF ends, seg, X
  <2>. QED OBVIOUS
<1>6. step \in [B -> [X -> X]]
  <2>. SUFFICES ASSUME NEW b \in B, NEW s \in X, b \notin ends PROVE <<seg(b)>> \o s \in X
    <3>. HIDE DEF ends, seg, X
    <3>. QED OBVIOUS
  <2>1. seg(b) \in Segments(db)
    BY <1>4
  <2>. HIDE DEF seg
  <2>. QED BY <2>1, PrefixedSet
<1>7. ends \in SUBSET B /\ <<>> \in X
  OBVIOUS
<1>8. \A b \in B : b \notin ends => next[b] = db.meta[b].base
  OBVIOUS
<1>. HIDE DEF next, step, X, ends, B
<1>9. PICK f \in [B -> X] : Solves(f, B, ends, <<>>, next, step)
  BY ONLY <1>1, <1>3, <1>6, <1>7, Recursion
<1>10. \A b \in B : f[b] = IF b \in ends THEN <<>> ELSE step[b][f[next[b]]]
  BY <1>9 DEF Solves
<1>11. \A b \in B : f[b] = IF b \in ends THEN <<>> ELSE <<seg(b)>> \o f[db.meta[b].base]
  <2>. SUFFICES ASSUME NEW b \in B, b \notin ends PROVE f[b] = <<seg(b)>> \o f[db.meta[b].base]
    BY <1>10
  <2>. HIDE DEF seg
  <2>1. next[b] = db.meta[b].base /\ f[next[b]] \in X
    BY <1>3, <1>8
  <2>. QED BY <2>1, <1>5, <1>10
<1>12. f = [b \in B |-> IF b \in ends THEN <<>> ELSE <<seg(b)>> \o f[db.meta[b].base]]
  <2>1. f = [b \in B |-> f[b]]
    OBVIOUS
  <2>. HIDE DEF seg
  <2>. QED BY <2>1, <1>11
<1>. QED BY <1>12 DEF Descends, ends, B, Segment

\* The segments found for an indexed entry tile its path to the root.
LEMMA SegmentsTile ==
  ASSUME NEW db, Tree(db), NEW covered, Index(db, covered), NEW e \in covered
  PROVE  Tiles(db, SegmentsNewestFirst(db, e), e)
<1>. DEFINE B == DOMAIN db.meta
<1>. DEFINE f == CHOOSE f : Descends(f, db)
<1>. DEFINE own == Membership(db, e)
<1>1. Descends(f, db)
  BY DescentExists
<1>2. SegmentsNewestFirst(db, e) = <<Segment(db, own, e)>> \o f[own]
  BY DEF SegmentsNewestFirst, Descends, Segment
<1>. HIDE DEF f
<1>3. \A b \in B : f[b] = IF db.meta[b].base = Null THEN <<>>
                          ELSE <<Segment(db, db.meta[b].base, db.meta[b].baseSeq)>> \o f[db.meta[b].base]
  <2>. DEFINE Value(b) == IF db.meta[b].base = Null THEN <<>>
                          ELSE <<Segment(db, db.meta[b].base, db.meta[b].baseSeq)>> \o f[db.meta[b].base]
  <2>1. f = [b \in B |-> Value(b)]
    BY <1>1 DEF Descends, Segment
  <2>. HIDE DEF Value
  <2>2. \A b \in B : f[b] = Value(b)
    BY <2>1
  <2>. QED BY <2>2 DEF Value
<1>4. \A b \in B : Tiles(db, f[b], db.meta[b].baseSeq)
  <2>. DEFINE Bad == {b \in B : ~Tiles(db, f[b], db.meta[b].baseSeq)}
  <2>. SUFFICES ASSUME Bad # {} PROVE FALSE
    OBVIOUS
  <2>1. B \subseteq Nat
    BY TreeNumbers DEF Index
  <2>2. PICK b \in Bad : \A c \in Bad : b <= c
    <3>1. Bad \in SUBSET Nat
      BY <2>1
    <3>. HIDE DEF Bad
    <3>. QED BY <3>1, SmallestOf
  <2>3. b \in B /\ ~Tiles(db, f[b], db.meta[b].baseSeq) /\ IndexesBranch(db, b)
    BY DEF Index
  <2>4. CASE db.meta[b].base = Null
    <3>1. f[b] = <<>> /\ db.meta[b].baseSeq = Null
      BY <2>3, <2>4, <1>3 DEF IndexesBranch, Null
    <3>. QED BY <3>1, <2>3, NothingTiles
  <2>5. CASE db.meta[b].base # Null
    <3>. DEFINE c == db.meta[b].base
    <3>1. c \in B /\ c < b /\ db.meta[b].baseSeq \in db.rows[c]
      BY <2>3, <2>5 DEF IndexesBranch
    <3>2. c \notin Bad
      <4>1. c \in Bad => b <= c
        BY <2>2
      <4>2. b \in Nat /\ c \in Nat
        BY <2>1, <2>3, <3>1
      <4>. QED BY ONLY <4>1, <4>2, <3>1
    <3>3. Tiles(db, f[c], db.meta[c].baseSeq)
      BY <3>1, <3>2
    <3>4. f[b] = <<Segment(db, c, db.meta[b].baseSeq)>> \o f[c]
      BY <1>3, <2>3, <2>5
    <3>. HIDE DEF c, Bad
    <3>5. Tiles(db, <<Segment(db, c, db.meta[b].baseSeq)>> \o f[c], db.meta[b].baseSeq)
      BY <3>1, <3>3, TilesGrow
    <3>. QED BY <3>4, <3>5, <2>3
  <2>. QED BY <2>4, <2>5
<1>5. own \in B /\ e \in db.rows[own]
  <2>. DEFINE T == {db.meta[b].tip : b \in Owners(db, e)}
  <2>1. PICK b \in B : e \in db.rows[b]
    BY DEF Index
  <2>2. b \in Owners(db, e)
    BY <2>1, RowFacts DEF Owners
  <2>3. T \in SUBSET (0 .. db.next - 1) /\ T # {} /\ db.next - 1 \in Nat
    <3>1. \A c \in Owners(db, e) : db.meta[c].tip \in DOMAIN db.entry
      BY DEF Owners, Index, IndexesBranch
    <3>2. T \subseteq DOMAIN db.entry
      BY <3>1
    <3>3. DOMAIN db.entry \subseteq 0 .. db.next - 1 /\ db.next - 1 \in Nat
      BY TreeNumbers
    <3>4. T # {}
      BY <2>2
    <3>. HIDE DEF T
    <3>. QED BY ONLY <3>2, <3>3, <3>4
  <2>4. Highest(T) \in T /\ \A y \in T : y <= Highest(T)
    <3>. HIDE DEF T
    <3>. QED BY <2>3, HighestOf
  <2>5. \E m \in Owners(db, e) : \A c \in Owners(db, e) : db.meta[c].tip <= db.meta[m].tip
    BY <2>4
  <2>6. own \in Owners(db, e)
    BY <2>5 DEF Membership
  <2>. QED BY <2>6 DEF Owners
<1>. HIDE DEF own
<1>6. Tiles(db, f[own], db.meta[own].baseSeq)
  BY <1>4, <1>5
<1>. QED BY <1>2, <1>5, <1>6, TilesGrow

-----------------------------------------------------------------------------
(***************************************************************************)
(* What a query asks for, and that the walk and the scan both answer it.   *)
(***************************************************************************)
IsQuery(db, q) ==
  q.start \in DOMAIN db.entry /\ Directed(q) /\ q.limit \in Nat

Stops(db, q, S) == {y \in S : db.entry[y].type = q.stopAt}

\* The entries of S up to the first that stops the query.
Seen(db, q, S) == {x \in S : \A y \in Stops(db, q, S) : ~Before(q.oldestFirst, y, x)}

Asked(db, q, S) == {x \in Seen(db, q, S) : Kept(db, q, x)}

\* What the first items of a sequence are.
LEMMA PrefixIs ==
  ASSUME NEW X, NEW s \in Seq(X), NEW n \in 0..Len(s)
  PROVE  /\ SubSeq(s, 1, n) \in Seq(X) /\ Len(SubSeq(s, 1, n)) = n
         /\ \A i \in 1..n : SubSeq(s, 1, n)[i] = s[i]
<1>1. 1 \in 1..(Len(s) + 1)
  OBVIOUS
<1>2. \A i \in 1..n : i \in 1..Len(s)
  OBVIOUS
<1>3. n \in Nat
  OBVIOUS
<1>. QED BY <1>2, <1>3

\* What a walk in the order of p looks at.
SeenOn(db, q, p) ==
  LET stops == {i \in DOMAIN p : db.entry[p[i]].type = q.stopAt}
  IN  IF stops = {} THEN p ELSE SubSeq(p, 1, Lowest(stops))

\* The rows a query looks at, taken from a sorted walk.
LEMMA SeenOfSequence ==
  ASSUME NEW db, NEW q, Directed(q), NEW p \in Seq(Nat), Sorted(q.oldestFirst, p)
  PROVE  /\ SeenOn(db, q, p) \in Seq(Nat) /\ Sorted(q.oldestFirst, SeenOn(db, q, p))
         /\ ToSet(SeenOn(db, q, p)) = Seen(db, q, ToSet(p))
<1>. DEFINE asc == q.oldestFirst
<1>. DEFINE stops == {i \in DOMAIN p : db.entry[p[i]].type = q.stopAt}
<1>. DEFINE seen == IF stops = {} THEN p ELSE SubSeq(p, 1, Lowest(stops))
<1>0. DOMAIN p = 1..Len(p) /\ Len(p) \in Nat /\ \A i \in DOMAIN p : p[i] \in Nat /\ i \in Nat
  OBVIOUS
<1>1. Stops(db, q, ToSet(p)) = {p[i] : i \in stops}
  BY DEF Stops, ToSet
<1>a. SeenOn(db, q, p) = seen
  BY DEF SeenOn
<1>2. CASE stops = {}
  <2>1. Seen(db, q, ToSet(p)) = ToSet(p)
    <3>1. Stops(db, q, ToSet(p)) = {}
      BY <1>1, <1>2
    <3>. QED BY <3>1 DEF Seen
  <2>2. seen = p
    BY <1>2
  <2>. HIDE DEF seen
  <2>. QED BY <2>1, <2>2, <1>a
<1>3. CASE stops # {}
  <2>. DEFINE k == Lowest(stops)
  <2>1. k \in stops /\ \A i \in stops : k <= i
    <3>1. stops \in SUBSET Nat
      BY <1>0
    <3>. HIDE DEF stops
    <3>. QED BY <1>3, <3>1, LowestOf
  <2>2. k \in DOMAIN p /\ k \in 0..Len(p) /\ k \in Nat
    <3>1. k \in DOMAIN p
      BY <2>1
    <3>. HIDE DEF k, stops, seen
    <3>2. k \in 1..Len(p) /\ Len(p) \in Nat
      BY ONLY <3>1, <1>0
    <3>. QED BY ONLY <3>1, <3>2
  <2>3. seen = SubSeq(p, 1, k)
    BY <1>3
  <2>. HIDE DEF k, seen, stops
  <2>4. seen \in Seq(Nat) /\ Len(seen) = k /\ DOMAIN seen = 1..k /\ \A i \in 1..k : seen[i] = p[i]
    BY <2>2, <2>3, PrefixIs
  <2>5. \A i \in DOMAIN seen : i \in DOMAIN p /\ seen[i] = p[i] /\ i <= k
    <3>1. \A i \in 1..k : i \in 1..Len(p) /\ i <= k
      BY ONLY <2>2, <1>0
    <3>. QED BY ONLY <3>1, <2>4, <1>0
  <2>6. Sorted(asc, seen)
    <3>1. \A i, j \in DOMAIN p : i < j => Before(asc, p[i], p[j])
      BY DEF Sorted
    <3>. QED BY ONLY <3>1, <2>5 DEF Sorted
  <2>7. ASSUME NEW i \in DOMAIN seen PROVE seen[i] \in Seen(db, q, ToSet(p))
    <3>1. i \in DOMAIN p /\ seen[i] = p[i] /\ i <= k /\ p[i] \in Nat /\ i \in Nat
      BY <2>5, <1>0
    <3>2. ASSUME NEW j \in stops PROVE ~Before(asc, p[j], p[i])
      <4>1. k <= j /\ j \in DOMAIN p /\ p[j] \in Nat /\ j \in Nat
        BY <2>1, <1>0 DEF stops
      <4>2. i = j \/ i < j
        BY ONLY <3>1, <4>1, <2>2
      <4>3. i = j \/ Before(asc, p[i], p[j])
        BY <4>1, <4>2, <3>1 DEF Sorted
      <4>. QED BY ONLY <4>1, <4>3, <3>1 DEF Before
    <3>3. p[i] \in ToSet(p)
      BY <3>1 DEF ToSet
    <3>. QED BY <3>1, <3>2, <3>3, <1>1 DEF Seen
  <2>8. ASSUME NEW i \in DOMAIN p, p[i] \in Seen(db, q, ToSet(p)) PROVE p[i] \in ToSet(seen)
    <3>1. ~Before(asc, p[k], p[i])
      BY <2>1, <2>8, <1>1 DEF Seen
    <3>2. ~(k < i)
      BY <3>1, <2>2 DEF Sorted
    <3>3. i \in 1..k
      BY ONLY <3>2, <2>2, <1>0, i \in DOMAIN p
    <3>4. i \in DOMAIN seen /\ seen[i] = p[i]
      BY ONLY <3>3, <2>4
    <3>. QED BY <3>4 DEF ToSet
  <2>9. ToSet(seen) = Seen(db, q, ToSet(p))
    <3>1. \A x \in ToSet(seen) : x \in Seen(db, q, ToSet(p))
      BY <2>7 DEF ToSet
    <3>2. \A x \in Seen(db, q, ToSet(p)) : x \in ToSet(seen)
      <4>1. \A x \in Seen(db, q, ToSet(p)) : \E i \in DOMAIN p : x = p[i]
        BY DEF Seen, ToSet
      <4>. QED BY <4>1, <2>8
    <3>. QED BY <3>1, <3>2
  <2>. QED BY <2>4, <2>6, <2>9, <1>a
<1>. QED BY <1>2, <1>3

\* A walk along the parents answers the query.
LEMMA WalkAnswers ==
  ASSUME NEW db, Tree(db), NEW q, IsQuery(db, q)
  PROVE  FirstOf(q.oldestFirst, WalkBranch(db, q), Asked(db, q, Path(db, q.start)), q.limit)
<1>. DEFINE asc == q.oldestFirst
<1>. DEFINE down == PathTo(db, q.start)
<1>. DEFINE p == IF asc THEN Reverse(down) ELSE down
<1>0. asc \in BOOLEAN /\ Directed(q) /\ q.limit \in Nat
  BY DEF IsQuery, Directed
<1>1. down \in Seq(Nat) /\ Sorted(FALSE, down) /\ ToSet(down) = Path(db, q.start)
  BY PathDescends DEF IsQuery, Path
<1>2. p \in Seq(Nat) /\ Sorted(asc, p) /\ ToSet(p) = Path(db, q.start)
  <2>. HIDE DEF down
  <2>1. Reverse(down) \in Seq(Nat) /\ ToSet(Reverse(down)) = ToSet(down)
    BY <1>1, ReverseIs
  <2>2. Sorted(TRUE, Reverse(down))
    <3>1. FALSE \in BOOLEAN /\ (~FALSE) = TRUE
      OBVIOUS
    <3>. QED BY <1>1, <3>1, ReverseSorted
  <2>3. CASE asc
    <3>1. asc = TRUE
      BY <2>3, <1>0
    <3>. QED BY <3>1, <2>1, <2>2, <1>1
  <2>4. CASE ~asc
    <3>1. asc = FALSE
      BY <2>4, <1>0
    <3>. QED BY <3>1, <1>1
  <2>. QED BY <2>3, <2>4
<1>. DEFINE seen == SeenOn(db, q, p)
<1>. DEFINE keep == {e \in ToSet(seen) : Kept(db, q, e)}
<1>3. WalkBranch(db, q) = Limited(Filtered(seen, keep), q.limit)
  BY DEF WalkBranch, SeenOn
<1>. HIDE DEF p
<1>4. seen \in Seq(Nat) /\ Sorted(asc, seen) /\ ToSet(seen) = Seen(db, q, Path(db, q.start))
  <2>1. p \in Seq(Nat) /\ Sorted(q.oldestFirst, p) /\ Directed(q)
    BY <1>0, <1>2
  <2>2. ToSet(p) = Path(db, q.start)
    BY <1>2
  <2>3. /\ seen \in Seq(Nat) /\ Sorted(q.oldestFirst, seen)
        /\ ToSet(seen) = Seen(db, q, ToSet(p))
    BY ONLY <2>1, SeenOfSequence
  <2>. QED BY ONLY <2>2, <2>3
<1>. HIDE DEF seen
<1>5. ToSet(seen) \cap keep = Asked(db, q, Path(db, q.start))
  BY <1>4 DEF Asked
<1>. HIDE DEF keep
<1>6. /\ Filtered(seen, keep) \in Seq(Nat) /\ Sorted(asc, Filtered(seen, keep))
      /\ ToSet(Filtered(seen, keep)) = Asked(db, q, Path(db, q.start))
  <2>. HIDE DEF asc
  <2>. QED BY <1>0, <1>4, <1>5, FilteredSorted
<1>7. FirstOf(asc, Limited(Filtered(seen, keep), q.limit), ToSet(Filtered(seen, keep)), q.limit)
  <2>. DEFINE r == Filtered(seen, keep)
  <2>. HIDE DEF asc, r
  <2>1. r \in Seq(Nat) /\ Sorted(asc, r)
    BY <1>6 DEF r
  <2>2. FirstOf(asc, Limited(r, q.limit), ToSet(r), q.limit)
    BY <1>0, <2>1, LimitedIsFirst
  <2>. QED BY <2>2 DEF r
<1>. QED BY <1>3, <1>6, <1>7

\* The stop row of a segment is the first that ends the walk, or none.
LEMMA StopRowIs ==
  ASSUME NEW db, NEW q, Directed(q), NEW N \in Nat, NEW R \in SUBSET (1..N)
  PROVE  /\ Stops(db, q, R) = {} => StopRow(db, q, R) = 0
         /\ Stops(db, q, R) # {} =>
              /\ StopRow(db, q, R) \in Stops(db, q, R) /\ StopRow(db, q, R) # 0
              /\ \A y \in Stops(db, q, R) : ~Before(q.oldestFirst, y, StopRow(db, q, R))
<1>. DEFINE S == Stops(db, q, R)
<1>. DEFINE stop == StopRow(db, q, R)
<1>1. stop = IF S = {} THEN 0 ELSE IF q.oldestFirst THEN Lowest(S) ELSE Highest(S)
  BY DEF StopRow, Stops
<1>2. S \subseteq R
  BY DEF Stops
<1>. HIDE DEF S, stop
<1>3. \A x \in S : x \in Nat /\ x # 0 /\ x \in 0..N
  <2>1. \A x \in 1..N : x \in Nat /\ x # 0 /\ x \in 0..N
    OBVIOUS
  <2>2. S \subseteq 1..N
    BY <1>2, Zenon
  <2>. QED BY <2>1, <2>2, Zenon
<1>4. ASSUME S # {} PROVE stop \in S /\ \A y \in S : ~Before(q.oldestFirst, y, stop)
  <2>1. Lowest(S) \in S /\ \A y \in S : Lowest(S) <= y
    <3>1. S \in SUBSET Nat
      BY <1>3
    <3>. QED BY <3>1, <1>4, LowestOf
  <2>2. Highest(S) \in S /\ \A y \in S : y <= Highest(S)
    <3>1. S \in SUBSET (0..N)
      BY <1>3, Zenon
    <3>. QED BY <3>1, <1>4, HighestOf
  <2>3. CASE q.oldestFirst
    <3>1. stop = Lowest(S)
      BY <1>1, <1>4, <2>3
    <3>. QED BY <3>1, <2>1, <2>3, <1>3 DEF Before
  <2>4. CASE ~q.oldestFirst
    <3>1. stop = Highest(S)
      BY <1>1, <1>4, <2>4
    <3>. QED BY <3>1, <2>2, <2>4, <1>3 DEF Before
  <2>. QED BY <2>3, <2>4
<1>5. S # {} => stop # 0
  BY <1>3, <1>4
<1>. QED BY <1>1, <1>4, <1>5 DEF S, stop

\* The SQL of one segment returns the first asked rows it holds.
LEMMA SegmentAnswers ==
  ASSUME NEW db, NEW q, Directed(q), NEW N \in Nat, NEW s,
         RowsIn(db, s) \in SUBSET (1..N), NEW limit \in Nat
  PROVE  FirstOf(q.oldestFirst,
                 SegmentRows(db, q, s, StopRow(db, q, RowsIn(db, s)), limit),
                 Asked(db, q, RowsIn(db, s)), limit)
<1>. DEFINE R == RowsIn(db, s)
<1>. DEFINE stop == StopRow(db, q, R)
<1>. DEFINE reached == {e \in R : stop # 0 => IF q.oldestFirst THEN e <= stop ELSE stop <= e}
<1>. DEFINE chosen == {e \in reached : Kept(db, q, e)}
<1>1. SegmentRows(db, q, s, stop, limit) = Limited(InOrder(chosen, q), limit)
  BY DEF SegmentRows
<1>0. R \in SUBSET (1..N)
  OBVIOUS
<1>. HIDE DEF R
<1>2. \A x \in R : x \in Nat
  <2>1. \A x \in 1..N : x \in Nat
    OBVIOUS
  <2>2. R \subseteq 1..N
    BY DEF R
  <2>. QED BY <2>1, <2>2, Zenon
<1>3. /\ Stops(db, q, R) = {} => stop = 0
      /\ Stops(db, q, R) # {} =>
           /\ stop \in Stops(db, q, R) /\ stop # 0
           /\ \A y \in Stops(db, q, R) : ~Before(q.oldestFirst, y, stop)
  BY ONLY <1>0, N \in Nat, Directed(q), StopRowIs
<1>. HIDE DEF stop
<1>4. \A y \in Stops(db, q, R) : y \in R
  BY DEF Stops
<1>5. reached = Seen(db, q, R)
  <2>1. CASE Stops(db, q, R) = {}
    BY <2>1, <1>3 DEF Seen
  <2>2. CASE Stops(db, q, R) # {}
    <3>1. stop \in Stops(db, q, R) /\ stop # 0 /\ stop \in R
      BY <2>2, <1>3, <1>4
    <3>2. ASSUME NEW x \in R
          PROVE  (IF q.oldestFirst THEN x <= stop ELSE stop <= x)
                   <=> \A y \in Stops(db, q, R) : ~Before(q.oldestFirst, y, x)
      <4>1. x \in Nat /\ stop \in Nat
        BY <3>1, <1>2
      <4>2. (IF q.oldestFirst THEN x <= stop ELSE stop <= x) <=> ~Before(q.oldestFirst, stop, x)
        BY ONLY <4>1, Directed(q) DEF Before, Directed
      <4>3. ASSUME NEW y \in Stops(db, q, R), Before(q.oldestFirst, y, x)
            PROVE  Before(q.oldestFirst, stop, x)
        <5>1. y \in Nat
          BY <1>2, <1>4
        <5>2. ~Before(q.oldestFirst, y, stop)
          BY <2>2, <1>3
        <5>. QED BY ONLY <4>1, <4>3, <5>1, <5>2 DEF Before
      <4>. QED BY <3>1, <4>2, <4>3
    <3>3. reached = {e \in R : IF q.oldestFirst THEN e <= stop ELSE stop <= e}
      BY <3>1
    <3>. HIDE DEF reached
    <3>. QED BY ONLY <3>2, <3>3 DEF Seen
  <2>. QED BY <2>1, <2>2
<1>6. chosen = Asked(db, q, R)
  BY <1>5 DEF Asked
<1>7. chosen \in SUBSET (1..N)
  BY DEF R
<1>. HIDE DEF chosen
<1>8. /\ InOrder(chosen, q) \in Seq(Nat) /\ Sorted(q.oldestFirst, InOrder(chosen, q))
      /\ ToSet(InOrder(chosen, q)) = chosen
  BY ONLY <1>7, N \in Nat, Directed(q), InOrderIs
<1>9. FirstOf(q.oldestFirst, Limited(InOrder(chosen, q), limit), chosen, limit)
  <2>. DEFINE r == InOrder(chosen, q)
  <2>. HIDE DEF r
  <2>1. r \in Seq(Nat) /\ Sorted(q.oldestFirst, r) /\ ToSet(r) = chosen
    BY <1>8 DEF r
  <2>2. FirstOf(q.oldestFirst, Limited(r, limit), ToSet(r), limit)
    <3>. DEFINE asc == q.oldestFirst
    <3>1. asc \in BOOLEAN
      BY DEF Directed
    <3>2. Sorted(asc, r)
      BY <2>1
    <3>. HIDE DEF asc
    <3>3. FirstOf(asc, Limited(r, limit), ToSet(r), limit)
      BY ONLY <3>1, <3>2, <2>1, limit \in Nat, LimitedIsFirst
    <3>. QED BY <3>3 DEF asc
  <2>. QED BY <2>1, <2>2 DEF r
<1>. QED BY <1>1, <1>6, <1>9 DEF stop, R

\* The segments in the order a scan reads them.
Laid(db, q, s) ==
  /\ s \in Seq(Segments(db))
  /\ \A i \in DOMAIN s : RowsIn(db, s[i]) \subseteq Path(db, q.start)
  /\ \A i, j \in DOMAIN s : i < j =>
       \A x \in RowsIn(db, s[i]), y \in RowsIn(db, s[j]) : Before(q.oldestFirst, x, y)
  /\ \A x \in Path(db, q.start) : \E i \in DOMAIN s : x \in RowsIn(db, s[i])

ScanOrder(db, q) ==
  IF q.oldestFirst THEN Reverse(SegmentsNewestFirst(db, q.start))
  ELSE SegmentsNewestFirst(db, q.start)

\* The segments a query scans lie end to end in the scan's direction.
LEMMA SegmentsLaid ==
  ASSUME NEW db, Tree(db), Index(db, DOMAIN db.entry), NEW q, IsQuery(db, q)
  PROVE  Laid(db, q, ScanOrder(db, q))
<1>. DEFINE n == SegmentsNewestFirst(db, q.start)
<1>. DEFINE R(i) == RowsIn(db, n[i])
<1>0. q.start \in DOMAIN db.entry /\ q.oldestFirst \in BOOLEAN
  BY DEF IsQuery, Directed
<1>1. Tiles(db, n, q.start)
  BY <1>0, SegmentsTile
<1>2. /\ n \in Seq(Segments(db))
      /\ \A i \in DOMAIN n : R(i) = {x \in Path(db, q.start) : n[i].lower < x /\ x <= n[i].upper}
      /\ \A i, j \in DOMAIN n : i < j => n[j].upper <= n[i].lower
      /\ \A x \in Path(db, q.start) : \E i \in DOMAIN n : n[i].lower < x /\ x <= n[i].upper
  BY <1>1 DEF Tiles
<1>. HIDE DEF n
<1>3. \A i \in DOMAIN n : n[i].lower \in Nat /\ n[i].upper \in Nat
  <2>. SUFFICES ASSUME NEW i \in DOMAIN n PROVE n[i].lower \in Nat /\ n[i].upper \in Nat
    OBVIOUS
  <2>1. n[i] \in Segments(db)
    BY ONLY <1>2, i \in DOMAIN n
  <2>. QED BY <2>1 DEF Segments
<1>4. \A x \in Path(db, q.start) : x \in Nat
  BY <1>0, PathSet, TreeNumbers
<1>5. \A i, j \in DOMAIN n : i < j => \A x \in R(i), y \in R(j) : y < x
  <2>. SUFFICES ASSUME NEW i \in DOMAIN n, NEW j \in DOMAIN n, i < j, NEW x \in R(i), NEW y \in R(j)
                PROVE  y < x
    BY Zenon
  <2>1. n[i].lower < x /\ y <= n[j].upper /\ n[j].upper <= n[i].lower /\ x \in Nat /\ y \in Nat
    BY <1>2, <1>4
  <2>2. n[i].lower \in Nat /\ n[j].upper \in Nat
    BY <1>3
  <2>. QED BY ONLY <2>1, <2>2
<1>6. /\ \A i \in DOMAIN n : R(i) \subseteq Path(db, q.start)
      /\ \A x \in Path(db, q.start) : \E i \in DOMAIN n : x \in R(i)
  BY <1>2
<1>7. CASE ~q.oldestFirst
  <2>1. ScanOrder(db, q) = n
    BY <1>7 DEF ScanOrder, n
  <2>. QED BY <2>1, <1>2, <1>5, <1>6, <1>7 DEF Laid, Before
<1>8. CASE q.oldestFirst
  <2>. DEFINE r == Reverse(n)
  <2>1. ScanOrder(db, q) = r
    BY <1>8 DEF ScanOrder, n
  <2>2. /\ r \in Seq(Segments(db)) /\ Len(r) = Len(n)
        /\ \A i \in 1..Len(n) : r[i] = n[Len(n) - i + 1]
    BY <1>2, ReverseIs
  <2>3. Len(n) \in Nat /\ DOMAIN n = 1..Len(n) /\ DOMAIN r = 1..Len(n)
    BY <1>2, <2>2
  <2>. HIDE DEF r
  <2>4. \A i \in 1..Len(n) : Len(n) - i + 1 \in 1..Len(n) /\ Len(n) - (Len(n) - i + 1) + 1 = i
    BY ONLY Len(n) \in Nat, <2>3
  <2>5. \A i \in DOMAIN r : RowsIn(db, r[i]) = R(Len(n) - i + 1)
    BY <2>2, <2>3
  <2>6. \A i, j \in DOMAIN r : i < j => Len(n) - j + 1 < Len(n) - i + 1
    BY ONLY <2>3
  <2>7. \A i \in DOMAIN r : RowsIn(db, r[i]) \subseteq Path(db, q.start)
    BY <2>3, <2>4, <2>5, <1>6
  <2>8. \A i, j \in DOMAIN r : i < j =>
           \A x \in RowsIn(db, r[i]), y \in RowsIn(db, r[j]) : x < y
    <3>. SUFFICES ASSUME NEW i \in DOMAIN r, NEW j \in DOMAIN r, i < j,
                         NEW x \in RowsIn(db, r[i]), NEW y \in RowsIn(db, r[j])
                  PROVE  x < y
      BY Zenon
    <3>1. x \in R(Len(n) - i + 1) /\ y \in R(Len(n) - j + 1)
      BY <2>5
    <3>2. Len(n) - j + 1 < Len(n) - i + 1 /\ Len(n) - i + 1 \in DOMAIN n /\ Len(n) - j + 1 \in DOMAIN n
      BY <2>3, <2>4, <2>6
    <3>. HIDE DEF R
    <3>. QED BY <3>1, <3>2, <1>5
  <2>9. ASSUME NEW x \in Path(db, q.start) PROVE \E i \in DOMAIN r : x \in RowsIn(db, r[i])
    <3>1. PICK i \in DOMAIN n : x \in R(i)
      BY <1>6
    <3>2. Len(n) - i + 1 \in DOMAIN r /\ Len(n) - (Len(n) - i + 1) + 1 = i
      BY <2>3, <2>4
    <3>. HIDE DEF R
    <3>. QED BY <3>1, <3>2, <2>5
  <2>. QED BY <2>1, <2>2, <2>7, <2>8, <2>9, <1>8 DEF Laid, Before
<1>. QED BY <1>0, <1>7, <1>8

\* One segment read: the operator Read in ScanBranch.
ReadOn(db, q, sofar, s) ==
  LET stop == StopRow(db, q, RowsIn(db, s))
  IN  IF sofar.over \/ (q.limit # 0 /\ Len(sofar.rows) >= q.limit) THEN sofar
      ELSE [rows |-> sofar.rows \o SegmentRows(db, q, s, stop,
                         IF q.limit = 0 THEN 0 ELSE q.limit - Len(sofar.rows)),
            over |-> stop # 0]

ReadSoFar == [rows : Seq(Nat), over : BOOLEAN]

Full(q, sofar) == q.limit # 0 /\ Len(sofar.rows) >= q.limit

Left(q, sofar) == IF q.limit = 0 THEN 0 ELSE q.limit - Len(sofar.rows)

ReadsOne(db, q, s, sofar, r) ==
  /\ r \in ReadSoFar
  /\ sofar.over \/ Full(q, sofar) => r = sofar
  /\ ~sofar.over /\ ~Full(q, sofar) =>
       \E t : /\ FirstOf(q.oldestFirst, t, Asked(db, q, RowsIn(db, s)), Left(q, sofar))
              /\ r.rows = sofar.rows \o t
              /\ r.over <=> Stops(db, q, RowsIn(db, s)) # {}

\* What reading one more segment does to the answer so far.
LEMMA ReadOnIs ==
  ASSUME NEW db, NEW q, Directed(q), q.limit \in Nat, NEW N \in Nat, NEW s,
         RowsIn(db, s) \in SUBSET (1..N), NEW sofar \in ReadSoFar
  PROVE  ReadsOne(db, q, s, sofar, ReadOn(db, q, sofar, s))
<1>. DEFINE R == RowsIn(db, s)
<1>. DEFINE stop == StopRow(db, q, R)
<1>. DEFINE t == SegmentRows(db, q, s, stop, Left(q, sofar))
<1>0. sofar.rows \in Seq(Nat) /\ sofar.over \in BOOLEAN /\ Len(sofar.rows) \in Nat
  BY DEF ReadSoFar
<1>1. CASE sofar.over \/ Full(q, sofar)
  BY <1>1 DEF ReadOn, Full, ReadsOne
<1>2. CASE ~sofar.over /\ ~Full(q, sofar)
  <2>1. ReadOn(db, q, sofar, s) = [rows |-> sofar.rows \o t, over |-> stop # 0]
    BY <1>2 DEF ReadOn, Full, Left
  <2>2. Left(q, sofar) \in Nat
    BY ONLY <1>2, <1>0, q.limit \in Nat DEF Left, Full
  <2>3. FirstOf(q.oldestFirst, t, Asked(db, q, R), Left(q, sofar))
    BY <2>2, SegmentAnswers
  <2>4. stop # 0 <=> Stops(db, q, R) # {}
    BY StopRowIs
  <2>5. t \in Seq(Nat)
    BY <2>3 DEF FirstOf
  <2>. HIDE DEF t, stop
  <2>6. sofar.rows \o t \in Seq(Nat)
    BY <2>5, <1>0
  <2>7. ReadOn(db, q, sofar, s).rows = sofar.rows \o t
    BY <2>1
  <2>9. ReadOn(db, q, sofar, s).over <=> Stops(db, q, R) # {}
    <3>1. ReadOn(db, q, sofar, s).over = (stop # 0)
      BY <2>1
    <3>. QED BY <3>1, <2>4
  <2>8. ReadOn(db, q, sofar, s) \in ReadSoFar
    BY <2>1, <2>6 DEF ReadSoFar
  <2>. QED BY <1>2, <2>3, <2>7, <2>8, <2>9 DEF ReadsOne
<1>. QED BY <1>1, <1>2

\* The predicate of the recursion in ScanBranch.
Reads(f, db, q, s) ==
  f = [n \in 0..Len(s) |->
         IF n = 0 THEN [rows |-> <<>>, over |-> FALSE] ELSE ReadOn(db, q, f[n - 1], s[n])]

\* The scan over the segments has a run.
LEMMA ReadsExist ==
  ASSUME NEW db, NEW q, Directed(q), q.limit \in Nat, NEW N \in Nat, NEW X, NEW s \in Seq(X),
         \A i \in DOMAIN s : RowsIn(db, s[i]) \in SUBSET (1..N)
  PROVE  \E f \in [0..Len(s) -> ReadSoFar] : Reads(f, db, q, s)
<1>. DEFINE M == 0..Len(s)
<1>. DEFINE a == [rows |-> <<>>, over |-> FALSE]
<1>. DEFINE next == [n \in M |-> IF n = 0 THEN 0 ELSE n - 1]
<1>. DEFINE step == [n \in M |-> [x \in ReadSoFar |-> IF n = 0 THEN x ELSE ReadOn(db, q, x, s[n])]]
<1>0. Len(s) \in Nat /\ DOMAIN s = 1..Len(s)
  OBVIOUS
<1>1. \A n \in M : n # 0 => n \in DOMAIN s /\ n - 1 \in M /\ n - 1 < n
  BY ONLY <1>0
<1>2. a \in ReadSoFar
  BY DEF ReadSoFar
<1>3. next \in [M -> M] /\ (\A n \in M \ {0} : next[n] = n - 1 /\ next[n] < n) /\ {0} \in SUBSET M
  <2>1. 0 \in M
    BY <1>0
  <2>. HIDE DEF M
  <2>. QED BY <1>1, <2>1
<1>4. step \in [M -> [ReadSoFar -> ReadSoFar]]
  <2>. SUFFICES ASSUME NEW n \in M, NEW x \in ReadSoFar, n # 0 PROVE ReadOn(db, q, x, s[n]) \in ReadSoFar
    OBVIOUS
  <2>1. RowsIn(db, s[n]) \in SUBSET (1..N)
    BY <1>1
  <2>. QED BY <2>1, ReadOnIs DEF ReadsOne
<1>5. \A n \in M : \A x \in ReadSoFar : n # 0 => step[n][x] = ReadOn(db, q, x, s[n])
  OBVIOUS
<1>6. M \in SUBSET (0..Len(s)) /\ \A n \in M \ {0} : next[n] < n
  BY <1>3
<1>. HIDE DEF M, a, next, step
<1>7. PICK f \in [M -> ReadSoFar] : Solves(f, M, {0}, a, next, step)
  BY ONLY <1>0, <1>2, <1>3, <1>4, <1>6, Recursion
<1>8. \A n \in M : f[n] = IF n = 0 THEN a ELSE step[n][f[next[n]]]
  BY <1>7 DEF Solves
<1>9. \A n \in M : f[n] = IF n = 0 THEN a ELSE ReadOn(db, q, f[n - 1], s[n])
  <2>. SUFFICES ASSUME NEW n \in M, n # 0 PROVE f[n] = ReadOn(db, q, f[n - 1], s[n])
    BY <1>8
  <2>1. next[n] = n - 1 /\ f[next[n]] \in ReadSoFar
    BY <1>3
  <2>. QED BY <2>1, <1>5, <1>8
<1>10. f = [n \in M |-> IF n = 0 THEN a ELSE ReadOn(db, q, f[n - 1], s[n])]
  <2>1. f = [n \in M |-> f[n]]
    OBVIOUS
  <2>. QED BY <2>1, <1>9
<1>. QED BY <1>10 DEF Reads, M, a

\* What the first n segments hold of what is asked for, and what they have read.
ReadIs(db, q, s, n, sofar) ==
  LET P == Path(db, q.start)
      stopped == \E i \in 1..n : Stops(db, q, RowsIn(db, s[i])) # {}
      got == {x \in Asked(db, q, P) : \E i \in 1..n : x \in RowsIn(db, s[i])}
  IN  /\ FirstOf(q.oldestFirst, sofar.rows, got, q.limit)
      /\ sofar.over => stopped
      /\ ~sofar.over => Full(q, sofar) \/ ~stopped

\* After each segment the answer is right for the segments read so far.
LEMMA ReadGoesOn ==
  ASSUME NEW db, Tree(db), NEW q, IsQuery(db, q), NEW s, Laid(db, q, s),
         NEW n \in DOMAIN s, NEW sofar \in ReadSoFar, ReadIs(db, q, s, n - 1, sofar)
  PROVE  ReadIs(db, q, s, n, ReadOn(db, q, sofar, s[n]))
<1>. DEFINE asc == q.oldestFirst
<1>. DEFINE P == Path(db, q.start)
<1>. DEFINE R(i) == RowsIn(db, s[i])
<1>. DEFINE G(m) == {x \in Asked(db, q, P) : \E i \in 1..m : x \in R(i)}
<1>. DEFINE St(m) == \E i \in 1..m : Stops(db, q, R(i)) # {}
<1>. DEFINE on == ReadOn(db, q, sofar, s[n])
<1>0. /\ q.start \in DOMAIN db.entry /\ Directed(q) /\ q.limit \in Nat /\ asc \in BOOLEAN
      /\ Len(s) \in Nat /\ DOMAIN s = 1..Len(s)
  BY DEF IsQuery, Directed, Laid
<1>1. /\ n \in Nat /\ n \in 1..n /\ \A i \in 1..n : i \in DOMAIN s /\ (i # n => i \in 1..(n - 1) /\ i < n)
      /\ \A i \in 1..(n - 1) : i \in 1..n /\ i \in DOMAIN s /\ i < n
  BY <1>0
<1>2. /\ \A i \in DOMAIN s : R(i) \subseteq P
      /\ \A i, j \in DOMAIN s : i < j => \A x \in R(i), y \in R(j) : Before(asc, x, y)
      /\ \A x \in P : \E i \in DOMAIN s : x \in R(i)
  BY DEF Laid
<1>3. FirstOf(asc, sofar.rows, G(n - 1), q.limit)
      /\ (sofar.over => St(n - 1)) /\ (~sofar.over => Full(q, sofar) \/ ~St(n - 1))
  BY DEF ReadIs
<1>4. P \subseteq Nat /\ P \in SUBSET (1 .. db.next - 1) /\ db.next - 1 \in Nat
  BY <1>0, PathSet, TreeNumbers
<1>5. R(n) \in SUBSET (1 .. db.next - 1)
  BY <1>2, <1>4
<1>6. /\ on \in ReadSoFar
      /\ sofar.over \/ Full(q, sofar) => on = sofar
      /\ ~sofar.over /\ ~Full(q, sofar) =>
           \E t : /\ FirstOf(asc, t, Asked(db, q, R(n)), Left(q, sofar))
                  /\ on.rows = sofar.rows \o t
                  /\ on.over <=> Stops(db, q, R(n)) # {}
  <2>1. RowsIn(db, s[n]) \in SUBSET (1 .. db.next - 1)
    BY <1>5
  <2>2. ReadsOne(db, q, s[n], sofar, ReadOn(db, q, sofar, s[n]))
    BY ONLY <2>1, <1>0, <1>4, sofar \in ReadSoFar, ReadOnIs
  <2>. QED BY <2>2 DEF ReadsOne
<1>. SUFFICES ReadIs(db, q, s, n, on)
  OBVIOUS
<1>. HIDE DEF P, R, on, asc
<1>7. \A x \in R(n), y \in R(n) : x \in P /\ x \in Nat
  BY <1>2, <1>4
<1>8. \A i \in 1..(n - 1) : \A x \in R(i), y \in R(n) : Before(asc, x, y)
  BY <1>1, <1>2
<1>9. \A x \in P, y \in P : x \in Nat /\ y \in Nat /\ (Before(asc, x, y) => ~Before(asc, y, x))
  BY <1>4 DEF Before
<1>10. St(n - 1) => St(n)
  BY <1>1
<1>11. Stops(db, q, R(n)) # {} => St(n)
  BY <1>1
<1>12. ~St(n - 1) /\ Stops(db, q, R(n)) = {} => ~St(n)
  BY <1>1
<1>13. Asked(db, q, P) \subseteq P
  BY DEF Asked, Seen
<1>14. G(n - 1) \subseteq Nat /\ G(n) \cap R(n) \subseteq Nat
  BY <1>4, <1>13
<1>15. \A x \in G(n - 1), y \in G(n) \cap R(n) : Before(asc, x, y)
  BY <1>8
<1>16. G(n) = G(n - 1) \cup (G(n) \cap R(n))
  <2>1. ASSUME NEW x \in G(n) PROVE x \in G(n - 1) \/ x \in R(n)
    <3>1. PICK i \in 1..n : x \in R(i)
      OBVIOUS
    <3>. QED BY <3>1, <1>1
  <2>2. \A x \in G(n - 1) : x \in G(n)
    BY <1>1
  <2>. HIDE DEF G
  <2>. QED BY <2>1, <2>2
<1>17. ReadIs(db, q, s, n, on) <=>
          /\ FirstOf(asc, on.rows, G(n), q.limit)
          /\ on.over => St(n)
          /\ ~on.over => Full(q, on) \/ ~St(n)
  BY DEF ReadIs, P, R, asc
<1>18. CASE sofar.over
  <2>1. PICK i \in 1..(n - 1) : Stops(db, q, R(i)) # {}
    BY <1>3, <1>18
  <2>2. PICK y \in R(i) : y \in Stops(db, q, R(i)) /\ y \in Stops(db, q, P)
    BY <2>1, <1>1, <1>2 DEF Stops
  <2>3. \A x \in R(n) : Before(asc, y, x)
    BY <2>1, <2>2, <1>8
  <2>4. \A x \in R(n) : x \notin Asked(db, q, P)
    BY <2>2, <2>3 DEF Asked, Seen, asc
  <2>5. G(n) \cap R(n) = {}
    BY <2>4
  <2>6. G(n) = G(n - 1)
    <3>. HIDE DEF G
    <3>. QED BY <2>5, <1>16
  <2>. HIDE DEF G, St
  <2>. QED BY <2>6, <1>3, <1>6, <1>10, <1>17, <1>18
<1>19. CASE ~sofar.over /\ Full(q, sofar)
  <2>1. FirstOf(asc, sofar.rows, G(n - 1) \cup (G(n) \cap R(n)), q.limit)
    <3>1. q.limit # 0 /\ Len(sofar.rows) >= q.limit
      BY <1>19 DEF Full
    <3>2. G(n - 1) \in SUBSET Nat /\ G(n) \cap R(n) \in SUBSET Nat
      BY <1>14
    <3>. HIDE DEF G
    <3>. QED BY ONLY <3>1, <3>2, <1>0, <1>3, <1>15, FirstOfFull
  <2>. HIDE DEF G, St
  <2>. QED BY <2>1, <1>6, <1>16, <1>17, <1>19
<1>20. CASE ~sofar.over /\ ~Full(q, sofar)
  <2>1. ~St(n - 1)
    BY <1>3, <1>20
  <2>2. PICK t : /\ FirstOf(asc, t, Asked(db, q, R(n)), Left(q, sofar))
                 /\ on.rows = sofar.rows \o t
                 /\ on.over <=> Stops(db, q, R(n)) # {}
    BY <1>6, <1>20
  <2>3. \A x \in R(n) : \A y \in Stops(db, q, P) : Before(asc, y, x) => y \in Stops(db, q, R(n))
    <3>. SUFFICES ASSUME NEW x \in R(n), NEW y \in Stops(db, q, P), Before(asc, y, x), y \notin R(n)
                  PROVE  FALSE
      BY DEF Stops
    <3>1. PICK i \in DOMAIN s : y \in R(i)
      BY <1>2 DEF Stops
    <3>2. i # n
      BY <3>1
    <3>3. Stops(db, q, R(i)) # {}
      BY <3>1 DEF Stops
    <3>4. CASE i < n
      <4>1. i \in 1..(n - 1)
        BY ONLY <3>4, <1>0, i \in DOMAIN s, n \in DOMAIN s
      <4>. QED BY <4>1, <3>3, <2>1
    <3>5. CASE n < i
      <4>1. Before(asc, x, y)
        BY <3>1, <3>5, <1>2
      <4>. QED BY <4>1, <1>9, <1>7, <1>2, <3>1
    <3>6. i < n \/ n < i
      BY ONLY <3>2, <1>0, i \in DOMAIN s, n \in DOMAIN s
    <3>. QED BY <3>4, <3>5, <3>6
  <2>4. Stops(db, q, R(n)) \subseteq Stops(db, q, P)
    BY <1>2 DEF Stops
  <2>5. \A x \in R(n) : x \in Asked(db, q, P) <=> x \in Asked(db, q, R(n))
    BY <2>3, <2>4, <1>7 DEF Asked, Seen, asc
  <2>6. Asked(db, q, R(n)) \subseteq R(n)
    BY DEF Asked, Seen
  <2>7. G(n) \cap R(n) = Asked(db, q, R(n))
    <3>1. \A x \in R(n) : x \in G(n) <=> x \in Asked(db, q, P)
      BY <1>1
    <3>. HIDE DEF G
    <3>. QED BY <3>1, <2>5, <2>6
  <2>8. q.limit # 0 => Len(sofar.rows) < q.limit
    <3>1. Len(sofar.rows) \in Nat
      BY DEF ReadSoFar
    <3>. QED BY ONLY <3>1, <1>0, <1>20 DEF Full
  <2>9. FirstOf(asc, on.rows, G(n - 1) \cup Asked(db, q, R(n)), q.limit)
    <3>1. G(n - 1) \in SUBSET Nat /\ Asked(db, q, R(n)) \in SUBSET Nat
      BY <1>14, <2>7
    <3>2. \A x \in G(n - 1), y \in Asked(db, q, R(n)) : Before(asc, x, y)
      BY <1>15, <2>7
    <3>3. FirstOf(asc, t, Asked(db, q, R(n)), IF q.limit = 0 THEN 0 ELSE q.limit - Len(sofar.rows))
      BY <2>2 DEF Left
    <3>4. PICK r : r = sofar.rows
      OBVIOUS
    <3>5. PICK g \in SUBSET Nat : g = G(n - 1)
      BY <3>1
    <3>6. PICK a \in SUBSET Nat : a = Asked(db, q, R(n))
      BY <3>1
    <3>7. PICK limit \in Nat : limit = q.limit
      BY <1>0
    <3>. HIDE DEF G
    <3>8. /\ FirstOf(asc, r, g, limit) /\ (limit # 0 => Len(r) < limit)
          /\ FirstOf(asc, t, a, IF limit = 0 THEN 0 ELSE limit - Len(r))
          /\ \A x \in g, y \in a : Before(asc, x, y)
      BY ONLY <3>2, <3>3, <3>4, <3>5, <3>6, <3>7, <2>8, <1>3
    <3>9. FirstOf(asc, r \o t, g \cup a, limit)
      BY ONLY <3>8, <1>0, FirstOfGoesOn
    <3>. QED BY ONLY <3>4, <3>5, <3>6, <3>7, <3>9, <2>2
  <2>10. FirstOf(asc, on.rows, G(n), q.limit)
    <3>. HIDE DEF G
    <3>. QED BY <2>7, <2>9, <1>16
  <2>. HIDE DEF G, St
  <2>. QED BY <2>1, <2>2, <2>10, <1>11, <1>12, <1>17
<1>. QED BY <1>18, <1>19, <1>20

\* A scan of the branch index answers the query.
LEMMA ScanAnswers ==
  ASSUME NEW db, Tree(db), Index(db, DOMAIN db.entry), NEW q, IsQuery(db, q)
  PROVE  FirstOf(q.oldestFirst, ScanBranch(db, q), Asked(db, q, Path(db, q.start)), q.limit)
<1>. DEFINE s == ScanOrder(db, q)
<1>. DEFINE f == CHOOSE f : Reads(f, db, q, s)
<1>0. /\ q.start \in DOMAIN db.entry /\ Directed(q) /\ q.limit \in Nat
  BY DEF IsQuery
<1>1. Laid(db, q, s)
  BY SegmentsLaid
<1>2. ScanBranch(db, q) = f[Len(s)].rows
  BY DEF ScanBranch, ScanOrder, Reads, ReadOn
<1>. HIDE DEF s
<1>3. /\ s \in Seq(Segments(db)) /\ Len(s) \in Nat /\ DOMAIN s = 1..Len(s)
      /\ \A i \in DOMAIN s : RowsIn(db, s[i]) \subseteq Path(db, q.start)
      /\ \A x \in Path(db, q.start) : \E i \in DOMAIN s : x \in RowsIn(db, s[i])
  BY <1>1 DEF Laid
<1>4. db.next - 1 \in Nat /\ Path(db, q.start) \subseteq 1 .. db.next - 1
  BY <1>0, PathSet, TreeNumbers
<1>5. \E g \in [0..Len(s) -> ReadSoFar] : Reads(g, db, q, s)
  <2>1. \A i \in DOMAIN s : RowsIn(db, s[i]) \in SUBSET (1 .. db.next - 1)
    BY <1>3, <1>4
  <2>. QED BY ONLY <2>1, <1>0, <1>3, <1>4, ReadsExist
<1>6. Reads(f, db, q, s)
  BY <1>5
<1>. HIDE DEF f
<1>7. \A n \in 0..Len(s) : f[n] = IF n = 0 THEN [rows |-> <<>>, over |-> FALSE] ELSE ReadOn(db, q, f[n - 1], s[n])
  <2>. DEFINE h(n) == IF n = 0 THEN [rows |-> <<>>, over |-> FALSE] ELSE ReadOn(db, q, f[n - 1], s[n])
  <2>1. f = [n \in 0..Len(s) |-> h(n)]
    BY <1>6 DEF Reads
  <2>. HIDE DEF h
  <2>2. \A n \in 0..Len(s) : f[n] = h(n)
    BY <2>1
  <2>. QED BY <2>2 DEF h
<1>. DEFINE Good(n) == f[n] \in ReadSoFar /\ ReadIs(db, q, s, n, f[n])
<1>8. Good(0)
  <2>1. f[0] = [rows |-> <<>>, over |-> FALSE]
    BY <1>3, <1>7
  <2>2. f[0] \in ReadSoFar
    BY <2>1 DEF ReadSoFar
  <2>3. 1..0 = {}
    OBVIOUS
  <2>4. {x \in Asked(db, q, Path(db, q.start)) : \E i \in 1..0 : x \in RowsIn(db, s[i])} = {}
    BY <2>3
  <2>5. FirstOf(q.oldestFirst, f[0].rows, {}, q.limit)
    BY <2>1, <1>0 DEF FirstOf, Sorted, ToSet
  <2>6. ~f[0].over /\ ~\E i \in 1..0 : Stops(db, q, RowsIn(db, s[i])) # {}
    BY ONLY <2>1, <2>3
  <2>7. ReadIs(db, q, s, 0, f[0])
    BY ONLY <2>4, <2>5, <2>6 DEF ReadIs
  <2>. QED BY <2>2, <2>7
<1>9. ASSUME NEW n \in 0..Len(s), n # 0, Good(n - 1) PROVE Good(n)
  <2>1. n \in DOMAIN s
    BY <1>3, <1>9
  <2>2. f[n] = ReadOn(db, q, f[n - 1], s[n])
    BY <1>7, <1>9
  <2>3. ReadIs(db, q, s, n, f[n])
    BY <2>1, <2>2, <1>1, <1>9, ReadGoesOn
  <2>4. RowsIn(db, s[n]) \in SUBSET (1 .. db.next - 1)
    BY <2>1, <1>3, <1>4
  <2>5. f[n] \in ReadSoFar
    <3>1. f[n - 1] \in ReadSoFar
      BY <1>9
    <3>2. ReadsOne(db, q, s[n], f[n - 1], ReadOn(db, q, f[n - 1], s[n]))
      BY ONLY <3>1, <2>4, <1>0, <1>4, ReadOnIs
    <3>. QED BY <3>2, <2>2 DEF ReadsOne
  <2>. QED BY <2>3, <2>5
<1>. DEFINE Bad == {n \in 0..Len(s) : ~Good(n)}
<1>. HIDE DEF Good
<1>10. \A n \in Bad : n # 0 /\ n - 1 \in Bad
  BY <1>3, <1>8, <1>9
<1>11. Bad = {}
  <2>1. Bad \in SUBSET (0..Len(s))
    OBVIOUS
  <2>. HIDE DEF Bad
  <2>. QED BY <2>1, <1>3, <1>10, NoLeastBad
<1>12. Good(Len(s))
  BY <1>3, <1>11
<1>13. ReadIs(db, q, s, Len(s), f[Len(s)])
  BY <1>12 DEF Good
<1>14. Asked(db, q, Path(db, q.start)) \subseteq Path(db, q.start)
  BY DEF Asked, Seen
<1>15. {x \in Asked(db, q, Path(db, q.start)) : \E i \in 1..Len(s) : x \in RowsIn(db, s[i])}
         = Asked(db, q, Path(db, q.start))
  BY <1>3, <1>14
<1>. QED BY <1>2, <1>13, <1>15 DEF ReadIs

\* Whatever a query asks for, the scan and the walk give the same.
LEMMA ScanIsWalk ==
  ASSUME NEW db, Tree(db), Index(db, DOMAIN db.entry), NEW q, IsQuery(db, q)
  PROVE  ScanBranch(db, q) = WalkBranch(db, q)
<1>. DEFINE F == Asked(db, q, Path(db, q.start))
<1>1. q.oldestFirst \in BOOLEAN /\ q.limit \in Nat /\ q.start \in DOMAIN db.entry
  BY DEF IsQuery, Directed
<1>2. F \in SUBSET Nat
  <2>1. Path(db, q.start) \subseteq Nat
    BY <1>1, PathSet, TreeNumbers
  <2>. QED BY <2>1 DEF Asked, Seen
<1>3. FirstOf(q.oldestFirst, ScanBranch(db, q), F, q.limit)
  BY ScanAnswers
<1>4. FirstOf(q.oldestFirst, WalkBranch(db, q), F, q.limit)
  BY WalkAnswers
<1>. HIDE DEF F
<1>. QED BY ONLY <1>1, <1>2, <1>3, <1>4, FirstOfUnique

-----------------------------------------------------------------------------
(***************************************************************************)
(* What a write does to the tree and to its index.                         *)
(***************************************************************************)
LEMMA WithIs ==
  ASSUME NEW f, NEW x, NEW y
  PROVE  /\ DOMAIN With(f, x, y) = DOMAIN f \cup {x}
         /\ With(f, x, y)[x] = y
         /\ \A z \in DOMAIN f : z # x => With(f, x, y)[z] = f[z]
BY DEF With

SameEntries(a, b) == a.entry = b.entry
SameBranches(a, b) == a.meta = b.meta /\ a.rows = b.rows

\* Trees with the same entries have the same parent walks.
LEMMA SamePaths ==
  ASSUME NEW a, Tree(a), NEW b, Tree(b), SameEntries(a, b)
  PROVE  \A x \in DOMAIN a.entry \cup {Null} : PathTo(a, x) = PathTo(b, x) /\ Path(a, x) = Path(b, x)
<1>. DEFINE K == DOMAIN a.entry
<1>1. /\ K \subseteq DOMAIN a.entry /\ K \subseteq DOMAIN b.entry
      /\ \A x \in K : /\ a.entry[x].parent = b.entry[x].parent
                      /\ a.entry[x].parent \in K \cup {Null}
  BY DEF SameEntries, Tree
<1>. HIDE DEF K
<1>2. \A x \in K \cup {Null} : PathTo(a, x) = PathTo(b, x) /\ Path(a, x) = Path(b, x)
  BY ONLY <1>1, Tree(a), Tree(b), PathsAgree
<1>. QED BY <1>2 DEF K

\* The index says nothing that more entries, or another tip, change.
LEMMA IndexStays ==
  ASSUME NEW a, Tree(a), NEW covered, Index(a, covered), NEW b, Tree(b), SameBranches(a, b),
         DOMAIN a.entry \subseteq DOMAIN b.entry,
         \A x \in DOMAIN a.entry : b.entry[x] = a.entry[x]
  PROVE  Index(b, covered)
<1>. DEFINE K == DOMAIN a.entry
<1>1. /\ K \subseteq DOMAIN a.entry /\ K \subseteq DOMAIN b.entry
      /\ \A x \in K : /\ a.entry[x].parent = b.entry[x].parent
                      /\ a.entry[x].parent \in K \cup {Null}
  BY DEF Tree
<1>2. \A x \in K \cup {Null} : PathTo(a, x) = PathTo(b, x) /\ Path(a, x) = Path(b, x)
  <2>. HIDE DEF K
  <2>. QED BY ONLY <1>1, Tree(a), Tree(b), PathsAgree
<1>3. /\ DOMAIN a.meta = DOMAIN a.rows /\ DOMAIN a.meta \subseteq K
      /\ \A c \in DOMAIN a.meta : IndexesBranch(a, c)
      /\ \A e \in covered : \E c \in DOMAIN a.meta : e \in a.rows[c]
  BY DEF Index
<1>4. b.meta = a.meta /\ b.rows = a.rows
  BY DEF SameBranches
<1>5. ASSUME NEW c \in DOMAIN b.meta PROVE IndexesBranch(b, c)
  <2>1. IndexesBranch(a, c) /\ a.meta[c].tip \in K
    BY <1>3, <1>4 DEF IndexesBranch
  <2>2. Path(a, a.meta[c].tip) = Path(b, a.meta[c].tip)
    BY <2>1, <1>2
  <2>. QED BY <2>1, <2>2, <1>1, <1>4 DEF IndexesBranch
<1>. QED BY <1>1, <1>3, <1>4, <1>5 DEF Index

\* A record of an entry joins a tree.
Recorded(db, e, parent, type) ==
  [db EXCEPT !.entry = With(db.entry, e, [parent |-> parent, type |-> type])]

IsRecorded(db, r, e, parent, type) ==
  /\ Tree(r) /\ SameBranches(db, r) /\ r.tip = db.tip /\ r.next = db.next
  /\ e \notin DOMAIN db.entry /\ e \in Nat /\ parent < e
  /\ DOMAIN r.entry = DOMAIN db.entry \cup {e}
  /\ r.entry[e] = [parent |-> parent, type |-> type]
  /\ \A x \in DOMAIN db.entry : r.entry[x] = db.entry[x]

\* Recording an entry adds it to the tree and leaves the index alone.
LEMMA RecordedIs ==
  ASSUME NEW db, Tree(db), NEW e \in 1 .. db.next - 1,
         \A x \in DOMAIN db.entry : x < e,
         NEW parent \in DOMAIN db.entry \cup {Null}, NEW type \in Types
  PROVE  IsRecorded(db, Recorded(db, e, parent, type), e, parent, type)
<1>. DEFINE new == [parent |-> parent, type |-> type]
<1>. DEFINE with == With(db.entry, e, new)
<1>. DEFINE r == Recorded(db, e, parent, type)
<1>0. /\ DOMAIN db = Fields /\ db.holds = "session"
      /\ db.next \in Nat \ {0} /\ DOMAIN db.entry \subseteq 1 .. db.next - 1
      /\ \A x \in DOMAIN db.entry :
           /\ db.entry[x] = [parent |-> db.entry[x].parent, type |-> db.entry[x].type]
           /\ db.entry[x].type \in Types
           /\ db.entry[x].parent \in DOMAIN db.entry \cup {Null}
           /\ db.entry[x].parent < x
  BY DEF Tree
<1>1. r = [db EXCEPT !.entry = with]
  BY DEF Recorded
<1>2. /\ DOMAIN with = DOMAIN db.entry \cup {e} /\ with[e] = new
      /\ \A z \in DOMAIN db.entry : z # e => with[z] = db.entry[z]
  <2>. HIDE DEF new
  <2>. QED BY DEF With
<1>3. e \in Nat /\ e \notin DOMAIN db.entry /\ 0 < e
  <2>1. \A x \in 1 .. db.next - 1 : x \in Nat /\ ~(x < x) /\ 0 < x
    BY <1>0
  <2>. QED BY <2>1
<1>4. parent < e
  BY <1>3, TreeNumbers DEF Null
<1>5. new.parent = parent /\ new.type = type
  OBVIOUS
<1>. HIDE DEF with, r, new
<1>6. /\ DOMAIN r = Fields /\ r.holds = db.holds /\ r.entry = with /\ r.next = db.next
      /\ r.meta = db.meta /\ r.rows = db.rows /\ r.tip = db.tip
  BY <1>0, <1>1 DEF Fields
<1>7. /\ r.entry[e] = new /\ DOMAIN r.entry = DOMAIN db.entry \cup {e}
      /\ \A x \in DOMAIN db.entry : r.entry[x] = db.entry[x]
  BY <1>2, <1>3, <1>6
<1>8. ASSUME NEW x \in DOMAIN r.entry
      PROVE  /\ r.entry[x] = [parent |-> r.entry[x].parent, type |-> r.entry[x].type]
             /\ r.entry[x].type \in Types
             /\ r.entry[x].parent \in DOMAIN r.entry \cup {Null}
             /\ r.entry[x].parent < x
  <2>1. CASE x = e
    <3>1. new = [parent |-> new.parent, type |-> new.type]
      BY DEF new
    <3>. QED BY <2>1, <3>1, <1>4, <1>5, <1>7
  <2>2. CASE x # e
    BY <2>2, <1>0, <1>7
  <2>. QED BY <2>1, <2>2
<1>9. DOMAIN r.entry \subseteq 1 .. r.next - 1
  BY <1>0, <1>6, <1>7
<1>10. Tree(r)
  BY <1>0, <1>6, <1>8, <1>9 DEF Tree
<1>. QED
  <2>1. SameBranches(db, r)
    BY <1>6 DEF SameBranches
  <2>. QED BY <2>1, <1>3, <1>4, <1>6, <1>7, <1>10 DEF r, new, IsRecorded

\* A branch of its own for a new entry.
AddsBranch(a, b, e, base, seq) ==
  /\ b.meta = With(a.meta, e, Branch(e, base, seq))
  /\ b.rows = With(a.rows, e, {x \in Path(a, e) : seq < x})
  /\ base = Null => seq = 0
  /\ base # Null => base \in DOMAIN a.meta /\ base < e /\ seq \in a.rows[base] /\ seq \in Path(a, e)

\* A new branch that ends at an entry brings the entry under the index.
LEMMA BranchAdded ==
  ASSUME NEW a, Tree(a), NEW covered, Index(a, covered), NEW b, Tree(b), SameEntries(a, b),
         NEW e \in DOMAIN a.entry, e \notin DOMAIN a.meta, NEW base, NEW seq \in Nat, seq < e,
         AddsBranch(a, b, e, base, seq)
  PROVE  Index(b, covered \cup {e})
<1>. DEFINE new == Branch(e, base, seq)
<1>. DEFINE R == {x \in Path(a, e) : seq < x}
<1>1. /\ DOMAIN a.meta = DOMAIN a.rows /\ DOMAIN a.meta \subseteq DOMAIN a.entry
      /\ \A c \in DOMAIN a.meta : IndexesBranch(a, c)
      /\ \A x \in covered : \E c \in DOMAIN a.meta : x \in a.rows[c]
  BY DEF Index
<1>2. /\ b.meta = With(a.meta, e, new) /\ b.rows = With(a.rows, e, R)
      /\ base = Null => seq = 0
      /\ base # Null => base \in DOMAIN a.meta /\ base < e /\ seq \in a.rows[base] /\ seq \in Path(a, e)
  BY DEF AddsBranch
<1>3. new = Branch(e, base, seq) /\ new.tip = e /\ new.base = base /\ new.baseSeq = seq
  BY DEF Branch
<1>4. e \in R
  BY PathClosed, TreeNumbers
<1>. HIDE DEF new, R
<1>5. /\ DOMAIN b.meta = DOMAIN a.meta \cup {e} /\ b.meta[e] = new
      /\ \A c \in DOMAIN a.meta : b.meta[c] = a.meta[c]
  BY <1>2 DEF With
<1>6. /\ DOMAIN b.rows = DOMAIN a.meta \cup {e} /\ b.rows[e] = R
      /\ \A c \in DOMAIN a.meta : b.rows[c] = a.rows[c]
  BY <1>1, <1>2 DEF With
<1>7. /\ DOMAIN b.entry = DOMAIN a.entry
      /\ \A x \in DOMAIN a.entry : Path(b, x) = Path(a, x)
  BY SamePaths DEF SameEntries
<1>8. IndexesBranch(b, e)
  <2>1. R = {x \in Path(b, e) : seq < x} /\ Path(b, e) = Path(a, e)
    BY <1>7 DEF R
  <2>2. base # Null => base \in DOMAIN b.meta /\ b.rows[base] = a.rows[base]
    BY <1>2, <1>5, <1>6
  <2>. QED BY <1>2, <1>3, <1>5, <1>6, <1>7, <2>1, <2>2 DEF IndexesBranch
<1>9. ASSUME NEW c \in DOMAIN a.meta PROVE IndexesBranch(b, c)
  <2>1. IndexesBranch(a, c)
    BY <1>1
  <2>2. Path(b, a.meta[c].tip) = Path(a, a.meta[c].tip)
    BY <2>1, <1>7 DEF IndexesBranch
  <2>3. a.meta[c].base # Null => a.meta[c].base \in DOMAIN b.meta /\ b.rows[a.meta[c].base] = a.rows[a.meta[c].base]
    BY <2>1, <1>5, <1>6 DEF IndexesBranch
  <2>. QED BY <2>1, <2>2, <2>3, <1>5, <1>6, <1>7 DEF IndexesBranch
<1>10. \A x \in covered \cup {e} : \E c \in DOMAIN b.meta : x \in b.rows[c]
  BY <1>1, <1>4, <1>5, <1>6
<1>11. DOMAIN b.meta = DOMAIN b.rows /\ DOMAIN b.meta \subseteq DOMAIN b.entry
  BY <1>1, <1>5, <1>6, <1>7
<1>. QED BY <1>5, <1>8, <1>9, <1>10, <1>11 DEF Index

\* A branch that ends at the parent of a new entry takes it.
ExtendsBranch(a, b, c, e) ==
  /\ a.meta[c].tip = a.entry[e].parent
  /\ DOMAIN b.meta = DOMAIN a.meta /\ DOMAIN b.rows = DOMAIN a.rows
  /\ b.meta[c] = Branch(e, a.meta[c].base, a.meta[c].baseSeq)
  /\ b.rows[c] = a.rows[c] \cup {e}
  /\ \A d \in DOMAIN a.meta : d # c => b.meta[d] = a.meta[d] /\ b.rows[d] = a.rows[d]

\* A row added at a branch's leaf brings the entry under the index.
LEMMA BranchExtended ==
  ASSUME NEW a, Tree(a), NEW covered, Index(a, covered), NEW b, Tree(b), SameEntries(a, b),
         NEW e \in DOMAIN a.entry, NEW c \in DOMAIN a.meta, ExtendsBranch(a, b, c, e)
  PROVE  Index(b, covered \cup {e})
<1>1. /\ DOMAIN a.meta = DOMAIN a.rows /\ DOMAIN a.meta \subseteq DOMAIN a.entry
      /\ \A d \in DOMAIN a.meta : IndexesBranch(a, d)
      /\ \A x \in covered : \E d \in DOMAIN a.meta : x \in a.rows[d]
  BY DEF Index
<1>2. /\ a.meta[c].tip = a.entry[e].parent
      /\ DOMAIN b.meta = DOMAIN a.meta /\ DOMAIN b.rows = DOMAIN a.rows
      /\ b.meta[c].tip = e /\ b.meta[c].base = a.meta[c].base /\ b.meta[c].baseSeq = a.meta[c].baseSeq
      /\ b.meta[c] = Branch(e, a.meta[c].base, a.meta[c].baseSeq)
      /\ b.rows[c] = a.rows[c] \cup {e}
      /\ \A d \in DOMAIN a.meta : d # c => b.meta[d] = a.meta[d] /\ b.rows[d] = a.rows[d]
  BY DEF ExtendsBranch, Branch
<1>3. /\ DOMAIN b.entry = DOMAIN a.entry
      /\ \A x \in DOMAIN a.entry : Path(b, x) = Path(a, x)
  BY SamePaths DEF SameEntries
<1>4. \A d \in DOMAIN a.meta : a.rows[d] \subseteq b.rows[d]
  BY <1>2
<1>5. ASSUME NEW d \in DOMAIN a.meta, d # c PROVE IndexesBranch(b, d)
  <2>1. IndexesBranch(a, d)
    BY <1>1
  <2>2. Path(b, a.meta[d].tip) = Path(a, a.meta[d].tip) /\ b.meta[d] = a.meta[d] /\ b.rows[d] = a.rows[d]
    BY <2>1, <1>2, <1>3, <1>5 DEF IndexesBranch
  <2>3. a.meta[d].base # Null =>
          a.meta[d].base \in DOMAIN b.meta /\ a.rows[a.meta[d].base] \subseteq b.rows[a.meta[d].base]
    BY <2>1, <1>2, <1>4 DEF IndexesBranch
  <2>. QED BY <2>1, <2>2, <2>3, <1>3 DEF IndexesBranch
<1>6. IndexesBranch(b, c)
  <2>. DEFINE t == a.meta[c].tip
  <2>. DEFINE l == a.meta[c].baseSeq
  <2>1. IndexesBranch(a, c)
    BY <1>1
  <2>2. /\ t \in DOMAIN a.entry /\ l \in Nat /\ a.rows[c] = {x \in Path(a, t) : l < x}
    BY <2>1 DEF IndexesBranch
  <2>8. l = 0 \/ l \in Path(a, t)
    BY <2>1 DEF IndexesBranch
  <2>3. Path(a, e) = {e} \cup Path(a, t) /\ t < e
    <3>1. a.entry[e].parent < e
      BY DEF Tree
    <3>2. Path(a, e) = {e} \cup Path(a, a.entry[e].parent)
      BY PathSet
    <3>. QED BY ONLY <3>1, <3>2, <1>2
  <2>4. l < e
    <3>1. l <= t
      <4>1. 0 <= t
        BY <2>2, TreeNumbers
      <4>2. \A y \in Path(a, t) : y <= t
        BY <2>2, PathIsOlder
      <4>. HIDE DEF l, t
      <4>. QED BY <2>8, <4>1, <4>2
    <3>2. t \in Nat /\ e \in Nat
      BY <2>2, TreeNumbers
    <3>. QED BY ONLY <3>1, <3>2, <2>2, <2>3
  <2>5. a.rows[c] \cup {e} = {x \in Path(b, e) : l < x}
    <3>1. Path(b, e) = {e} \cup Path(a, t)
      BY <2>3, <1>3
    <3>. QED BY ONLY <3>1, <2>2, <2>4
  <2>6. a.meta[c].base # Null =>
          /\ a.meta[c].base \in DOMAIN b.meta /\ a.meta[c].base < c
          /\ l \in b.rows[a.meta[c].base] /\ l \in Path(b, e)
    BY <2>1, <2>3, <1>2, <1>3, <1>4 DEF IndexesBranch
  <2>7. a.meta[c].base = Null => l = 0
    BY <2>1 DEF IndexesBranch
  <2>. QED BY <1>2, <1>3, <2>2, <2>5, <2>6, <2>7 DEF IndexesBranch
<1>7. \A x \in covered \cup {e} : \E d \in DOMAIN b.meta : x \in b.rows[d]
  <2>1. e \in b.rows[c] /\ c \in DOMAIN b.meta
    BY <1>2
  <2>. QED BY <2>1, <1>1, <1>2, <1>4
<1>. QED BY <1>1, <1>2, <1>3, <1>5, <1>6, <1>7 DEF Index

\* Where a diverging branch hangs on, and the rows it takes along.
HangsOn(db, parent, boundary) ==
  /\ boundary.seq \in Nat
  /\ boundary.base = Null => boundary.seq = 0
  /\ boundary.base # Null =>
       /\ boundary.base \in DOMAIN db.meta
       /\ boundary.seq \in db.rows[boundary.base] /\ boundary.seq \in Path(db, parent)

\* The boundary chosen for a new branch lies on its parent's path.
LEMMA BoundaryIs ==
  ASSUME NEW db, Tree(db), NEW covered, Index(db, covered), NEW parent \in covered,
         parent \in DOMAIN db.entry
  PROVE  LET segments == SegmentsNewestFirst(db, parent)
         IN  HangsOn(db, parent, CompactionBoundary(db, segments))
<1>. DEFINE s == SegmentsNewestFirst(db, parent)
<1>. DEFINE found(i) == {y \in RowsIn(db, s[i]) : db.entry[y].type = "compaction"}
<1>. DEFINE compacted == {i \in DOMAIN s : found(i) # {}}
<1>. DEFINE k == Lowest(compacted)
<1>1. Tiles(db, s, parent)
  BY SegmentsTile
<1>2. CompactionBoundary(db, s) =
        IF compacted = {} THEN [base |-> Null, seq |-> 0]
        ELSE [base |-> s[k].branch, seq |-> Highest(found(k))]
  BY DEF CompactionBoundary
<1>. HIDE DEF s
<1>3. /\ s \in Seq(Segments(db))
      /\ \A i \in DOMAIN s : RowsIn(db, s[i]) \subseteq Path(db, parent)
  BY <1>1 DEF Tiles
<1>4. CASE compacted = {}
  <2>1. CompactionBoundary(db, s) = [base |-> Null, seq |-> 0]
    BY <1>2, <1>4
  <2>. QED BY <2>1 DEF HangsOn, s
<1>5. CASE compacted # {}
  <2>1. k \in compacted
    <3>1. compacted \in SUBSET Nat
      BY <1>3
    <3>. HIDE DEF compacted
    <3>. QED BY <3>1, <1>5, LowestOf
  <2>2. k \in DOMAIN s /\ found(k) # {}
    BY <2>1
  <2>. HIDE DEF k
  <2>3. s[k] \in Segments(db)
    BY <1>3, <2>2
  <2>4. s[k].branch \in DOMAIN db.meta
    BY <2>3 DEF Segments
  <2>5. found(k) \subseteq RowsIn(db, s[k])
    OBVIOUS
  <2>. DEFINE T == found(k)
  <2>. HIDE DEF found
  <2>6. T \subseteq db.rows[s[k].branch] /\ T \subseteq Path(db, parent)
    <3>1. RowsIn(db, s[k]) \subseteq db.rows[s[k].branch]
      BY DEF RowsIn
    <3>. QED BY <3>1, <2>2, <2>5, <1>3
  <2>7. T \in SUBSET (0 .. db.next - 1) /\ db.next - 1 \in Nat /\ \A x \in DOMAIN db.entry : x # Null
    BY <2>6, PathSet, TreeNumbers
  <2>8. Highest(T) \in T
    <3>. HIDE DEF T
    <3>1. T # {}
      BY <2>2 DEF T
    <3>. QED BY <3>1, <2>7, HighestOf
  <2>9. DOMAIN db.meta \subseteq DOMAIN db.entry
    BY DEF Index
  <2>10. CompactionBoundary(db, s) = [base |-> s[k].branch, seq |-> Highest(T)]
    BY <1>2, <1>5
  <2>. HIDE DEF T
  <2>11. Highest(T) \in Nat /\ s[k].branch # Null
    <3>. HIDE DEF T
    <3>1. \A x \in 0 .. db.next - 1 : x \in Nat
      OBVIOUS
    <3>. QED BY <3>1, <2>4, <2>7, <2>8, <2>9
  <2>. QED BY <2>4, <2>6, <2>8, <2>10, <2>11 DEF HangsOn, s
<1>. QED BY <1>4, <1>5 DEF s

\* The rows copied to a new branch are the path above the boundary.
LEMMA CopiedRowsAre ==
  ASSUME NEW db, Tree(db), NEW covered, Index(db, covered), NEW parent \in covered,
         parent \in DOMAIN db.entry, NEW after
  PROVE  CopiedRows(db, SegmentsNewestFirst(db, parent), after) = {x \in Path(db, parent) : after < x}
<1>. DEFINE s == SegmentsNewestFirst(db, parent)
<1>1. Tiles(db, s, parent)
  BY SegmentsTile
<1>. HIDE DEF s
<1>2. /\ \A i \in DOMAIN s : RowsIn(db, s[i]) \subseteq Path(db, parent)
      /\ \A x \in Path(db, parent) : \E i \in DOMAIN s : x \in RowsIn(db, s[i])
  BY <1>1 DEF Tiles
<1>3. CopiedRows(db, s, after) = {x \in Path(db, parent) : after < x}
  BY <1>2 DEF CopiedRows
<1>. QED BY <1>3 DEF s

\* What an entry write leaves.
IsInserted(db, r, e, parent, type) ==
  /\ Tree(r) /\ Index(r, DOMAIN r.entry) /\ r.tip = db.tip /\ r.next = db.next
  /\ DOMAIN r.entry = DOMAIN db.entry \cup {e} /\ e \notin DOMAIN db.entry
  /\ r.entry[e] = [parent |-> parent, type |-> type]
  /\ \A x \in DOMAIN db.entry : r.entry[x] = db.entry[x]

\* A change of the index alone.
Reindexed(db, meta, rows) == [db EXCEPT !.meta = meta, !.rows = rows]

\* Writing the index tables changes nothing else of the file.
LEMMA ReindexedIs ==
  ASSUME NEW db, Tree(db), NEW meta, NEW rows
  PROVE  /\ Tree(Reindexed(db, meta, rows)) /\ SameEntries(db, Reindexed(db, meta, rows))
         /\ Reindexed(db, meta, rows).meta = meta /\ Reindexed(db, meta, rows).rows = rows
         /\ Reindexed(db, meta, rows).tip = db.tip /\ Reindexed(db, meta, rows).next = db.next
<1>. DEFINE r == Reindexed(db, meta, rows)
<1>1. DOMAIN db = Fields
  BY DEF Tree
<1>2. /\ DOMAIN r = Fields /\ r.holds = db.holds /\ r.entry = db.entry /\ r.next = db.next
      /\ r.meta = meta /\ r.rows = rows /\ r.tip = db.tip
  BY <1>1 DEF Reindexed, Fields
<1>. HIDE DEF r
<1>3. Tree(r) /\ SameEntries(db, r)
  BY <1>2 DEF Tree, SameEntries
<1>. QED BY <1>2, <1>3 DEF r

\* Inserting an entry keeps the tree and brings the entry under the index.
LEMMA InsertedIs ==
  ASSUME NEW db, Tree(db), Index(db, DOMAIN db.entry), NEW e \in 1 .. db.next - 1,
         \A x \in DOMAIN db.entry : x < e,
         NEW parent \in DOMAIN db.entry \cup {Null}, NEW type \in Types
  PROVE  IsInserted(db, Inserted(db, e, parent, type), e, parent, type)
<1>. DEFINE d == Recorded(db, e, parent, type)
<1>. DEFINE r == Inserted(db, e, parent, type)
<1>. DEFINE tipped == {b \in DOMAIN db.meta : db.meta[b].tip = parent}
<1>1. IsRecorded(db, d, e, parent, type)
  BY RecordedIs
<1>2. r = IF parent = Null THEN RootBranch(d, e)
          ELSE IF tipped = {} THEN DivergentBranch(d, e, parent)
          ELSE ExtendedBranch(d, CHOOSE b \in tipped : TRUE, e)
  BY DEF Inserted, Recorded
<1>. SUFFICES IsInserted(db, r, e, parent, type)
  OBVIOUS
<1>. HIDE DEF d, r
<1>3. /\ Tree(d) /\ SameBranches(db, d) /\ d.tip = db.tip /\ d.next = db.next
      /\ e \notin DOMAIN db.entry /\ e \in Nat /\ parent < e
      /\ DOMAIN d.entry = DOMAIN db.entry \cup {e}
      /\ d.entry[e] = [parent |-> parent, type |-> type]
      /\ \A x \in DOMAIN db.entry : d.entry[x] = db.entry[x]
  BY <1>1 DEF IsRecorded
<1>4. Index(d, DOMAIN db.entry)
  BY <1>3, IndexStays
<1>5. d.meta = db.meta /\ d.rows = db.rows /\ DOMAIN d.meta \subseteq DOMAIN db.entry /\ DOMAIN d.meta = DOMAIN d.rows
  BY <1>3 DEF SameBranches, Index
<1>6. e \in DOMAIN d.entry /\ e \notin DOMAIN d.meta /\ d.entry[e].parent = parent /\ DOMAIN d = Fields
  BY <1>3, <1>5 DEF Tree
<1>7. ASSUME Tree(r), SameEntries(d, r), r.tip = d.tip, r.next = d.next,
             Index(r, DOMAIN db.entry \cup {e})
      PROVE  IsInserted(db, r, e, parent, type)
  BY <1>3, <1>7 DEF IsInserted, SameEntries
<1>8. 0 < e
  OBVIOUS
<1>9. CASE parent = Null
  <2>. DEFINE meta == With(d.meta, e, Branch(e, Null, 0))
  <2>. DEFINE rows == With(d.rows, e, {e})
  <2>1. r = Reindexed(d, meta, rows)
    BY <1>2, <1>6, <1>9 DEF RootBranch, Reindexed, Fields, Branch
  <2>. HIDE DEF meta, rows
  <2>2. Tree(r) /\ SameEntries(d, r) /\ r.meta = meta /\ r.rows = rows /\ r.tip = d.tip /\ r.next = d.next
    BY <2>1, <1>3, ReindexedIs
  <2>3. Path(d, e) = {e}
    BY <1>3, <1>6, <1>9, PathSet
  <2>4. {x \in Path(d, e) : 0 < x} = {e}
    BY <2>3, <1>8
  <2>5. AddsBranch(d, r, e, Null, 0)
    BY <2>2, <2>4 DEF AddsBranch, meta, rows
  <2>6. Index(r, DOMAIN db.entry \cup {e})
    BY <2>2, <2>5, <1>3, <1>4, <1>6, <1>8, BranchAdded
  <2>. QED BY <2>2, <2>6, <1>7
<1>10. CASE parent # Null /\ tipped = {}
  <2>. DEFINE segments == SegmentsNewestFirst(d, parent)
  <2>. DEFINE boundary == CompactionBoundary(d, segments)
  <2>. DEFINE meta == With(d.meta, e, Branch(e, boundary.base, boundary.seq))
  <2>. DEFINE rows == With(d.rows, e, CopiedRows(d, segments, boundary.seq) \cup {e})
  <2>0. parent \in DOMAIN db.entry /\ parent \in DOMAIN d.entry
    BY <1>3, <1>10
  <2>1. r = Reindexed(d, meta, rows)
    BY <1>2, <1>6, <1>10 DEF DivergentBranch, Reindexed, Fields, Branch
  <2>2. HangsOn(d, parent, boundary)
    BY <2>0, <1>3, <1>4, BoundaryIs
  <2>3. CopiedRows(d, segments, boundary.seq) = {x \in Path(d, parent) : boundary.seq < x}
    BY <2>0, <1>3, <1>4, CopiedRowsAre
  <2>. HIDE DEF meta, rows, boundary, segments
  <2>4. Tree(r) /\ SameEntries(d, r) /\ r.meta = meta /\ r.rows = rows /\ r.tip = d.tip /\ r.next = d.next
    BY <2>1, <1>3, ReindexedIs
  <2>5. /\ boundary.seq \in Nat
        /\ boundary.base = Null => boundary.seq = 0
        /\ boundary.base # Null =>
             /\ boundary.base \in DOMAIN d.meta
             /\ boundary.seq \in d.rows[boundary.base] /\ boundary.seq \in Path(d, parent)
    BY <2>2 DEF HangsOn
  <2>6. Path(d, e) = {e} \cup Path(d, parent)
    BY <1>3, <1>6, PathSet
  <2>7. boundary.seq < e
    <3>1. \A y \in Path(d, parent) : y <= parent
      BY <2>0, <1>3, PathIsOlder
    <3>2. boundary.seq = 0 \/ boundary.seq \in Path(d, parent)
      <4>1. CASE boundary.base = Null
        BY <4>1, <2>5
      <4>2. CASE boundary.base # Null
        BY <4>2, <2>5
      <4>. QED BY <4>1, <4>2
    <3>3. boundary.seq = 0 \/ boundary.seq <= parent
      BY <3>1, <3>2
    <3>4. parent \in Nat
      BY <2>0, TreeNumbers
    <3>. QED BY ONLY <3>3, <3>4, <2>5, <1>3, <1>8
  <2>8. CopiedRows(d, segments, boundary.seq) \cup {e} = {x \in Path(d, e) : boundary.seq < x}
    BY ONLY <2>3, <2>6, <2>7
  <2>9. boundary.base # Null => boundary.base < e
    BY <2>5, <1>5
  <2>10. AddsBranch(d, r, e, boundary.base, boundary.seq)
    <3>1. boundary.base # Null => boundary.seq \in Path(d, e)
      BY <2>5, <2>6
    <3>. QED BY <3>1, <2>4, <2>5, <2>8, <2>9 DEF AddsBranch, meta, rows
  <2>11. Index(r, DOMAIN db.entry \cup {e})
    BY ONLY <2>4, <2>5, <2>7, <2>10, <1>3, <1>4, <1>6, BranchAdded
  <2>. QED BY <2>4, <2>11, <1>7
<1>11. CASE parent # Null /\ tipped # {}
  <2>. DEFINE c == CHOOSE b \in tipped : TRUE
  <2>. DEFINE meta == [d.meta EXCEPT ![c].tip = e]
  <2>. DEFINE rows == [d.rows EXCEPT ![c] = d.rows[c] \cup {e}]
  <2>1. c \in tipped
    BY <1>11
  <2>2. r = Reindexed(d, meta, rows)
    BY <1>2, <1>6, <1>11 DEF ExtendedBranch, Reindexed, Fields
  <2>. HIDE DEF c
  <2>3. c \in DOMAIN d.meta /\ d.meta[c].tip = parent
    BY <2>1, <1>5
  <2>4. /\ DOMAIN meta = DOMAIN d.meta /\ DOMAIN rows = DOMAIN d.rows
        /\ meta[c] = [d.meta[c] EXCEPT !.tip = e] /\ rows[c] = d.rows[c] \cup {e}
        /\ \A b \in DOMAIN d.meta : b # c => meta[b] = d.meta[b] /\ rows[b] = d.rows[b]
    BY <2>3, <1>5
  <2>. HIDE DEF meta, rows
  <2>5. Tree(r) /\ SameEntries(d, r) /\ r.meta = meta /\ r.rows = rows /\ r.tip = d.tip /\ r.next = d.next
    BY <2>2, <1>3, ReindexedIs
  <2>6. meta[c] = Branch(e, d.meta[c].base, d.meta[c].baseSeq)
    <3>1. d.meta[c] = Branch(d.meta[c].tip, d.meta[c].base, d.meta[c].baseSeq)
      BY <2>3, <1>4 DEF Index, IndexesBranch
    <3>2. \A t, b, q : [Branch(t, b, q) EXCEPT !.tip = e] = Branch(e, b, q)
      BY DEF Branch
    <3>. QED BY ONLY <3>1, <3>2, <2>4
  <2>7. ExtendsBranch(d, r, c, e)
    BY <2>3, <2>4, <2>5, <2>6, <1>6 DEF ExtendsBranch
  <2>8. Index(r, DOMAIN db.entry \cup {e})
    BY ONLY <2>3, <2>5, <2>7, <1>3, <1>4, <1>6, BranchExtended
  <2>. QED BY <2>5, <2>8, <1>7
<1>. QED BY <1>9, <1>10, <1>11

-----------------------------------------------------------------------------
(***************************************************************************)
(* A sound database, and what appending, moving and forking make of it.    *)
(***************************************************************************)
Sound(db) ==
  /\ Tree(db) /\ Index(db, DOMAIN db.entry)
  /\ db.tip \in DOMAIN db.entry \cup {Null}

Blanks(n) == [EmptyDb EXCEPT !.next = n]

\* A file with no entry is sound.
LEMMA BlankIs ==
  ASSUME NEW n \in Nat \ {0}
  PROVE  /\ Sound(Blanks(n)) /\ DOMAIN Blanks(n).entry = {} /\ Blanks(n).next = n
<1>. DEFINE r == Blanks(n)
<1>1. /\ DOMAIN r = Fields /\ r.holds = "session" /\ r.entry = <<>> /\ r.tip = Null
      /\ r.meta = <<>> /\ r.rows = <<>> /\ r.next = n
  BY DEF Blanks, EmptyDb, Fields
<1>2. \A s : s = <<>> => DOMAIN s = {}
  OBVIOUS
<1>. HIDE DEF r
<1>3. DOMAIN r.entry = {} /\ DOMAIN r.meta = {} /\ DOMAIN r.rows = {}
  BY <1>1, <1>2
<1>4. Tree(r)
  BY <1>1, <1>3 DEF Tree
<1>5. Index(r, {})
  BY <1>3 DEF Index
<1>. QED BY <1>1, <1>3, <1>4, <1>5 DEF Sound, r

\* The file a create leaves is sound.
LEMMA EmptyIsSound == Sound(EmptyDb)
<1>1. DOMAIN EmptyDb = Fields /\ EmptyDb.next = 1
  BY DEF EmptyDb, Fields
<1>2. Blanks(1) = EmptyDb
  BY DEF Blanks, EmptyDb
<1>. QED BY <1>2, BlankIs

\* The fields a write of the session row changes.
Row(db, tip, next) == [db EXCEPT !.tip = tip, !.next = next]

\* Rewriting the session row keeps the tree and its index.
LEMMA RowIs ==
  ASSUME NEW db, Tree(db), NEW covered, Index(db, covered), NEW next \in Nat,
         db.next <= next, NEW tip
  PROVE  /\ Tree(Row(db, tip, next)) /\ Index(Row(db, tip, next), covered)
         /\ SameEntries(db, Row(db, tip, next))
         /\ Row(db, tip, next).tip = tip /\ Row(db, tip, next).next = next
<1>. DEFINE r == Row(db, tip, next)
<1>1. DOMAIN db = Fields /\ db.next \in Nat \ {0} /\ DOMAIN db.entry \subseteq 1 .. db.next - 1
  BY DEF Tree
<1>2. /\ DOMAIN r = Fields /\ r.holds = db.holds /\ r.entry = db.entry /\ r.next = next
      /\ r.meta = db.meta /\ r.rows = db.rows /\ r.tip = tip
  BY <1>1 DEF Row, Fields
<1>. HIDE DEF r
<1>3. \A x \in 1 .. db.next - 1 : x \in 1 .. next - 1
  BY <1>1
<1>4. DOMAIN r.entry \subseteq 1 .. r.next - 1 /\ r.next \in Nat \ {0}
  BY <1>1, <1>2, <1>3
<1>5. Tree(r)
  BY <1>2, <1>4 DEF Tree
<1>6. SameEntries(db, r) /\ SameBranches(db, r)
  BY <1>2 DEF SameEntries, SameBranches
<1>7. Index(r, covered)
  BY <1>2, <1>5, <1>6, IndexStays
<1>. QED BY <1>2, <1>5, <1>6, <1>7 DEF r

\* What an append leaves.
IsAppended(db, r, parent) ==
  /\ Sound(r) /\ r.tip = db.next /\ r.next = db.next + 1
  /\ DOMAIN r.entry = DOMAIN db.entry \cup {db.next} /\ db.next \notin DOMAIN db.entry
  /\ r.entry[db.next].parent = parent
  /\ \A x \in DOMAIN db.entry : r.entry[x] = db.entry[x]

\* Appending an entry keeps the file sound and its history.
LEMMA AppendedIs ==
  ASSUME NEW db, Sound(db), NEW parent \in DOMAIN db.entry \cup {Null}, NEW type \in Types
  PROVE  IsAppended(db, Appended(db, parent, type), parent)
<1>. DEFINE e == db.next
<1>. DEFINE n == Row(db, db.tip, e + 1)
<1>. DEFINE i == Inserted(n, e, parent, type)
<1>. DEFINE r == Row(i, e, e + 1)
<1>1. Tree(db) /\ Index(db, DOMAIN db.entry) /\ DOMAIN db = Fields /\ e \in Nat \ {0}
      /\ DOMAIN db.entry \subseteq 1 .. e - 1
  BY DEF Sound, Tree
<1>2. e + 1 \in Nat /\ e <= e + 1 /\ e + 1 <= e + 1 /\ e \in 1 .. (e + 1) - 1 /\ e \notin 1 .. e - 1
      /\ \A x \in 1 .. e - 1 : x < e
  BY <1>1
<1>3. /\ Tree(n) /\ Index(n, DOMAIN db.entry) /\ n.entry = db.entry /\ n.next = e + 1 /\ n.tip = db.tip
  BY <1>1, <1>2, RowIs DEF SameEntries
<1>4. [db EXCEPT !.next = e + 1] = n
  BY <1>1 DEF Row, Fields
<1>5. Appended(db, parent, type) = [i EXCEPT !.tip = e]
  BY <1>4 DEF Appended
<1>. HIDE DEF n
<1>6. IsInserted(n, i, e, parent, type)
  <2>1. e \in 1 .. n.next - 1 /\ \A x \in DOMAIN n.entry : x < e
    BY <1>1, <1>2, <1>3
  <2>2. parent \in DOMAIN n.entry \cup {Null} /\ Index(n, DOMAIN n.entry)
    BY <1>3
  <2>. HIDE DEF e
  <2>. QED BY <2>1, <2>2, <1>3, InsertedIs
<1>. HIDE DEF i
<1>7. /\ Tree(i) /\ Index(i, DOMAIN i.entry) /\ i.next = e + 1
      /\ DOMAIN i.entry = DOMAIN db.entry \cup {e} /\ e \notin DOMAIN db.entry
      /\ i.entry[e].parent = parent
      /\ \A x \in DOMAIN db.entry : i.entry[x] = db.entry[x]
  BY <1>3, <1>6 DEF IsInserted
<1>8. [i EXCEPT !.tip = e] = r
  <2>1. DOMAIN i = Fields /\ i.next = e + 1
    BY <1>7 DEF Tree
  <2>. QED BY <2>1 DEF Row, Fields
<1>9. /\ Tree(r) /\ Index(r, DOMAIN i.entry) /\ r.entry = i.entry /\ r.tip = e /\ r.next = e + 1
  BY <1>2, <1>7, RowIs DEF SameEntries
<1>. HIDE DEF r
<1>10. Sound(r)
  BY <1>7, <1>9 DEF Sound
<1>. QED BY <1>5, <1>7, <1>8, <1>9, <1>10 DEF IsAppended

\* Moving the tip keeps the file sound and its history.
LEMMA MovedIs ==
  ASSUME NEW db, Sound(db), NEW tip \in DOMAIN db.entry \cup {Null}
  PROVE  /\ Sound([db EXCEPT !.tip = tip]) /\ [db EXCEPT !.tip = tip].entry = db.entry
         /\ [db EXCEPT !.tip = tip].tip = tip
<1>. DEFINE r == Row(db, tip, db.next)
<1>1. Tree(db) /\ Index(db, DOMAIN db.entry) /\ DOMAIN db = Fields /\ db.next \in Nat /\ db.next <= db.next
  BY DEF Sound, Tree
<1>2. [db EXCEPT !.tip = tip] = r
  BY <1>1 DEF Row, Fields
<1>3. Tree(r) /\ Index(r, DOMAIN db.entry) /\ r.entry = db.entry /\ r.tip = tip
  BY <1>1, RowIs DEF SameEntries
<1>. HIDE DEF r
<1>. QED BY <1>2, <1>3 DEF Sound

-----------------------------------------------------------------------------
(***************************************************************************)
(* Forks: entry by entry, a copy of a part of the tree that is closed      *)
(* under parents.                                                          *)
(***************************************************************************)
ClosedPart(db, selected) ==
  /\ selected \subseteq DOMAIN db.entry
  /\ \A x \in selected : db.entry[x].parent \in selected \cup {Null}

\* One step of the recursion in Forked, and its predicate.
CopiedTo(db, selected, copy, n) ==
  IF n \in selected THEN Inserted(copy, n, db.entry[n].parent, db.entry[n].type) ELSE copy

CopyStart(selected) == [EmptyDb EXCEPT !.next = NextSeq(selected)]

Copies(f, db, selected, N) ==
  f = [n \in 0..N |->
         IF n = 0 THEN CopyStart(selected) ELSE CopiedTo(db, selected, f[n - 1], n)]

\* The copy of the selected entries, one by one, has a run.
LEMMA CopiesExist ==
  ASSUME NEW db, NEW selected, NEW N \in Nat
  PROVE  \E f : Copies(f, db, selected, N)
<1>. DEFINE a == CopyStart(selected)
<1>. DEFINE Good(n) == \E f : Copies(f, db, selected, n)
<1>1. Good(0)
  <2>. DEFINE f == [n \in 0..0 |-> a]
  <2>1. \A n \in 0..0 : n = 0
    OBVIOUS
  <2>2. f = [n \in 0..0 |-> IF n = 0 THEN a ELSE CopiedTo(db, selected, f[n - 1], n)]
    <3>1. \A n \in 0..0 : f[n] = IF n = 0 THEN a ELSE CopiedTo(db, selected, f[n - 1], n)
      BY <2>1
    <3>2. f = [n \in 0..0 |-> f[n]]
      OBVIOUS
    <3>. HIDE DEF f, a
    <3>. QED BY <3>1, <3>2
  <2>. QED BY <2>2 DEF Copies
<1>2. ASSUME NEW m \in 0..N, m # 0, Good(m - 1) PROVE Good(m)
  <2>1. PICK g : Copies(g, db, selected, m - 1)
    BY <1>2
  <2>. DEFINE T == 0..(m - 1)
  <2>. DEFINE U == 0..m
  <2>. DEFINE h(k, n) == IF n = 0 THEN a ELSE CopiedTo(db, selected, k[n - 1], n)
  <2>2. g = [n \in T |-> h(g, n)]
    BY <2>1 DEF Copies
  <2>3. /\ \A n \in U : n # m => n \in T
        /\ \A n \in T : n \in U /\ n # m
        /\ \A n \in U : n # 0 => n - 1 \in T
        /\ m \in U
    BY <1>2
  <2>. DEFINE f == [n \in U |-> IF n = m THEN h(g, n) ELSE g[n]]
  <2>. HIDE DEF T, U, a
  <2>4. \A n \in T : g[n] = h(g, n)
    <3>. HIDE DEF h
    <3>. QED BY <2>2
  <2>5. \A n \in T : f[n] = g[n]
    BY <2>3
  <2>6. \A n \in U : f[n] = h(g, n)
    <3>. HIDE DEF h
    <3>. QED BY <2>3, <2>4
  <2>7. \A n \in U : f[n] = h(f, n)
    <3>. SUFFICES ASSUME NEW n \in U PROVE h(g, n) = h(f, n)
      <4>. HIDE DEF h, f
      <4>. QED BY <2>6
    <3>1. n # 0 => f[n - 1] = g[n - 1]
      BY <2>3, <2>5
    <3>. HIDE DEF f
    <3>. QED BY <3>1
  <2>8. f = [n \in U |-> f[n]]
    OBVIOUS
  <2>9. f = [n \in U |-> h(f, n)]
    <3>. HIDE DEF h, f
    <3>. QED BY <2>7, <2>8
  <2>. QED BY <2>9 DEF Copies, U, a
<1>. DEFINE Bad == {n \in 0..N : ~Good(n)}
<1>. HIDE DEF Good
<1>3. \A n \in Bad : n # 0 /\ n - 1 \in Bad
  <2>1. \A n \in 0..N : n # 0 => n - 1 \in 0..N
    OBVIOUS
  <2>. QED BY <1>1, <1>2, <2>1
<1>4. Bad = {}
  <2>1. Bad \in SUBSET (0..N)
    OBVIOUS
  <2>. HIDE DEF Bad
  <2>. QED BY <1>3, <2>1, NoLeastBad
<1>5. Good(N)
  BY <1>4
<1>. QED BY <1>5 DEF Good

\* What is copied after n entries were looked at.
CopyIs(db, selected, copy, n) ==
  /\ Tree(copy) /\ Index(copy, DOMAIN copy.entry) /\ copy.next = NextSeq(selected)
  /\ DOMAIN copy.entry = {x \in selected : x <= n}
  /\ \A x \in DOMAIN copy.entry : copy.entry[x] = db.entry[x]

\* The number after the last selected entry is above all of them.
LEMMA NextSeqIs ==
  ASSUME NEW db, Tree(db), NEW selected, ClosedPart(db, selected)
  PROVE  NextSeq(selected) \in Nat \ {0} /\ \A x \in selected : x \in 1 .. NextSeq(selected) - 1
<1>1. selected \in SUBSET (0 .. db.next - 1) /\ db.next - 1 \in Nat /\ \A x \in selected : x \in Nat /\ 0 < x
  BY TreeNumbers DEF ClosedPart
<1>2. CASE selected = {}
  BY <1>2 DEF NextSeq
<1>3. CASE selected # {}
  <2>. DEFINE h == Highest(selected)
  <2>1. h \in selected /\ \A x \in selected : x <= h
    BY ONLY <1>1, <1>3, HighestOf
  <2>2. NextSeq(selected) = h + 1
    BY <1>3 DEF NextSeq
  <2>. HIDE DEF h
  <2>. QED BY <2>1, <2>2, <1>1
<1>. QED BY <1>2, <1>3

\* After each entry the copy holds the selected entries up to it.
LEMMA CopyGoesOn ==
  ASSUME NEW db, Tree(db), NEW selected, ClosedPart(db, selected), NEW n \in Nat, n # 0,
         NEW copy, CopyIs(db, selected, copy, n - 1)
  PROVE  CopyIs(db, selected, CopiedTo(db, selected, copy, n), n)
<1>1. /\ Tree(copy) /\ Index(copy, DOMAIN copy.entry) /\ copy.next = NextSeq(selected)
      /\ DOMAIN copy.entry = {x \in selected : x <= n - 1}
      /\ \A x \in DOMAIN copy.entry : copy.entry[x] = db.entry[x]
  BY DEF CopyIs
<1>2. selected \subseteq DOMAIN db.entry /\ \A x \in selected : x \in Nat
  BY TreeNumbers DEF ClosedPart
<1>3. \A x \in selected : x <= n <=> x = n \/ x <= n - 1
  BY ONLY <1>2, n \in Nat, n # 0
<1>4. CASE n \notin selected
  <2>1. CopiedTo(db, selected, copy, n) = copy
    BY <1>4 DEF CopiedTo
  <2>2. {x \in selected : x <= n} = {x \in selected : x <= n - 1}
    BY <1>3, <1>4
  <2>. QED BY <2>1, <2>2, <1>1 DEF CopyIs
<1>5. CASE n \in selected
  <2>. DEFINE parent == db.entry[n].parent
  <2>. DEFINE type == db.entry[n].type
  <2>. DEFINE r == Inserted(copy, n, parent, type)
  <2>1. /\ db.entry[n] = [parent |-> parent, type |-> type] /\ type \in Types
        /\ parent \in selected \cup {Null} /\ parent < n
    BY <1>2, <1>5 DEF Tree, ClosedPart
  <2>2. parent \in DOMAIN copy.entry \cup {Null}
    <3>. HIDE DEF parent
    <3>1. parent # Null => parent <= n - 1
      BY <2>1, <1>2
    <3>. QED BY <3>1, <2>1, <1>1
  <2>3. n \in 1 .. copy.next - 1
    BY <1>1, <1>5, NextSeqIs
  <2>4. \A x \in DOMAIN copy.entry : x < n
    BY <1>1, <1>2
  <2>5. IsInserted(copy, r, n, parent, type)
    <3>. HIDE DEF parent, type
    <3>. QED BY <2>1, <2>2, <2>3, <2>4, <1>1, InsertedIs
  <2>6. CopiedTo(db, selected, copy, n) = r
    BY <1>5 DEF CopiedTo
  <2>. HIDE DEF r, parent, type
  <2>7. /\ Tree(r) /\ Index(r, DOMAIN r.entry) /\ r.next = copy.next
        /\ DOMAIN r.entry = DOMAIN copy.entry \cup {n}
        /\ r.entry[n] = [parent |-> parent, type |-> type]
        /\ \A x \in DOMAIN copy.entry : r.entry[x] = copy.entry[x]
    BY <2>5 DEF IsInserted
  <2>8. DOMAIN r.entry = {x \in selected : x <= n}
    BY <2>7, <1>1, <1>3, <1>5
  <2>9. \A x \in DOMAIN r.entry : r.entry[x] = db.entry[x]
    BY <2>1, <2>7, <1>1
  <2>. QED BY <2>6, <2>7, <2>8, <2>9, <1>1 DEF CopyIs
<1>. QED BY <1>4, <1>5

\* What a fork leaves: part of the source, with the paths the source has.
IsFork(db, r) ==
  /\ Sound(r)
  /\ \A x \in DOMAIN r.entry : x \in DOMAIN db.entry /\ r.entry[x] = db.entry[x]
  /\ r.tip # Null => PathTo(r, r.tip) = PathTo(db, r.tip)

\* A finished copy is a fork of the source.
LEMMA CopyIsFork ==
  ASSUME NEW db, Tree(db), NEW selected, ClosedPart(db, selected), NEW copy,
         CopyIs(db, selected, copy, db.next - 1), NEW tip \in selected \cup {Null}
  PROVE  IsFork(db, [copy EXCEPT !.tip = tip])
<1>. DEFINE r == Row(copy, tip, copy.next)
<1>1. /\ Tree(copy) /\ Index(copy, DOMAIN copy.entry)
      /\ DOMAIN copy.entry = {x \in selected : x <= db.next - 1}
      /\ \A x \in DOMAIN copy.entry : copy.entry[x] = db.entry[x]
  BY DEF CopyIs
<1>2. /\ selected \subseteq DOMAIN db.entry /\ selected \subseteq 1 .. db.next - 1
      /\ \A x \in selected : db.entry[x].parent \in selected \cup {Null}
  BY TreeNumbers DEF ClosedPart
<1>3. DOMAIN copy.entry = selected
  <2>1. \A x \in 1 .. db.next - 1 : x <= db.next - 1
    BY TreeNumbers
  <2>. QED BY <2>1, <1>1, <1>2
<1>4. DOMAIN copy = Fields /\ copy.next \in Nat /\ copy.next <= copy.next
  BY <1>1 DEF Tree
<1>5. [copy EXCEPT !.tip = tip] = r
  BY <1>4 DEF Row, Fields
<1>6. /\ Tree(r) /\ Index(r, DOMAIN copy.entry) /\ r.entry = copy.entry /\ r.tip = tip
  BY <1>1, <1>4, RowIs DEF SameEntries
<1>. HIDE DEF r
<1>7. Sound(r)
  BY <1>3, <1>6 DEF Sound
<1>8. \A x \in selected \cup {Null} : PathTo(r, x) = PathTo(db, x) /\ Path(r, x) = Path(db, x)
  <2>1. /\ selected \subseteq DOMAIN r.entry /\ selected \subseteq DOMAIN db.entry
        /\ \A x \in selected : /\ r.entry[x].parent = db.entry[x].parent
                               /\ r.entry[x].parent \in selected \cup {Null}
    BY <1>1, <1>2, <1>3, <1>6
  <2>2. Tree(r)
    BY <1>6
  <2>. QED BY ONLY <2>1, <2>2, Tree(db), PathsAgree
<1>9. IsFork(db, r)
  BY ONLY <1>1, <1>2, <1>3, <1>6, <1>7, <1>8, tip \in selected \cup {Null} DEF IsFork
<1>. QED BY <1>5, <1>9

\* What a fork selects includes the parent of each selected entry.
LEMMA SelectedIs ==
  ASSUME NEW db, Sound(db), NEW option \in Options(db)
  PROVE  ClosedPart(db, Selected(db, option)) /\ option.tip \in Selected(db, option) \cup {Null}
<1>1. Tree(db) /\ db.tip \in DOMAIN db.entry \cup {Null}
  BY DEF Sound
<1>2. CASE option = [scope |-> "tree", tip |-> db.tip]
  <2>1. Selected(db, option) = DOMAIN db.entry /\ option.tip = db.tip
    BY <1>2 DEF Selected
  <2>. QED BY <2>1, <1>1 DEF ClosedPart, Tree
<1>3. ASSUME NEW e \in Path(db, db.tip) \cup {Null}, option = [scope |-> "branch", tip |-> e]
      PROVE  ClosedPart(db, Selected(db, option)) /\ option.tip \in Selected(db, option) \cup {Null}
  <2>1. Selected(db, option) = Path(db, e) /\ option.tip = e
    BY <1>3 DEF Selected, Path
  <2>2. e \in DOMAIN db.entry \cup {Null}
    BY <1>1, PathClosed
  <2>3. /\ e # Null => e \in Path(db, e)
        /\ \A y \in Path(db, e) : y \in DOMAIN db.entry /\ db.entry[y].parent \in Path(db, e) \cup {Null}
    BY <2>2, <1>1, PathClosed
  <2>. QED BY <2>1, <2>3 DEF ClosedPart
<1>4. option = [scope |-> "tree", tip |-> db.tip]
        \/ \E e \in Path(db, db.tip) \cup {Null} : option = [scope |-> "branch", tip |-> e]
  BY DEF Options, Path
<1>. QED BY <1>2, <1>3, <1>4

\* Every fork of a sound file is a copy of a part of it.
LEMMA ForkedIs ==
  ASSUME NEW db, Sound(db), NEW option \in Options(db)
  PROVE  IsFork(db, Forked(db, option))
<1>. DEFINE selected == Selected(db, option)
<1>. DEFINE N == db.next - 1
<1>. DEFINE f == CHOOSE f : Copies(f, db, selected, N)
<1>1. Forked(db, option) = [f[N] EXCEPT !.tip = option.tip]
  BY DEF Forked, Copies, CopiedTo, CopyStart
<1>2. Tree(db) /\ N \in Nat
  BY TreeNumbers DEF Sound
<1>3. ClosedPart(db, selected) /\ option.tip \in selected \cup {Null}
  BY SelectedIs
<1>. HIDE DEF selected, N
<1>4. Copies(f, db, selected, N)
  BY <1>2, CopiesExist
<1>. HIDE DEF f
<1>5. \A n \in 0..N : f[n] = IF n = 0 THEN CopyStart(selected) ELSE CopiedTo(db, selected, f[n - 1], n)
  <2>. DEFINE h(n) == IF n = 0 THEN CopyStart(selected) ELSE CopiedTo(db, selected, f[n - 1], n)
  <2>1. f = [n \in 0..N |-> h(n)]
    BY <1>4 DEF Copies
  <2>. HIDE DEF h
  <2>2. \A n \in 0..N : f[n] = h(n)
    BY <2>1
  <2>. QED BY <2>2 DEF h
<1>. DEFINE Good(n) == CopyIs(db, selected, f[n], n)
<1>6. Good(0)
  <2>1. f[0] = Blanks(NextSeq(selected))
    BY <1>2, <1>5 DEF CopyStart, Blanks
  <2>2. NextSeq(selected) \in Nat \ {0} /\ \A x \in selected : x \in 1 .. NextSeq(selected) - 1
    BY <1>2, <1>3, NextSeqIs
  <2>3. Sound(f[0]) /\ DOMAIN f[0].entry = {} /\ f[0].next = NextSeq(selected)
    BY <2>1, <2>2, BlankIs
  <2>4. {x \in selected : x <= 0} = {}
    BY <2>2
  <2>. QED BY <2>3, <2>4 DEF CopyIs, Sound
<1>7. ASSUME NEW n \in 0..N, n # 0, Good(n - 1) PROVE Good(n)
  <2>1. f[n] = CopiedTo(db, selected, f[n - 1], n) /\ n \in Nat
    BY <1>5, <1>7
  <2>. QED BY <2>1, <1>2, <1>3, <1>7, CopyGoesOn
<1>. DEFINE Bad == {n \in 0..N : ~Good(n)}
<1>. HIDE DEF Good
<1>8. \A n \in Bad : n # 0 /\ n - 1 \in Bad
  <2>1. \A n \in 0..N : n # 0 => n - 1 \in 0..N
    BY <1>2
  <2>. QED BY <2>1, <1>6, <1>7
<1>9. Bad = {}
  <2>1. Bad \in SUBSET (0..N)
    OBVIOUS
  <2>. HIDE DEF Bad
  <2>. QED BY <2>1, <1>2, <1>8, NoLeastBad
<1>10. CopyIs(db, selected, f[N], N)
  BY <1>2, <1>9 DEF Good
<1>11. IsFork(db, [f[N] EXCEPT !.tip = option.tip])
  BY <1>2, <1>3, <1>10, CopyIsFork DEF N
<1>. QED BY <1>1, <1>11

-----------------------------------------------------------------------------
(***************************************************************************)
(* The Session: the inductive invariant and what follows from it.          *)
(***************************************************************************)
Writes(db) == ({"append"} \X Types) \cup ({"move"} \X (DOMAIN db.entry \cup {Null}))

Commits(tip, db) == {Job("commit", tip, write) : write \in Writes(db)}

\* The jobs the queue may hold while the line is held as h says.
Jobs(h, db) == IF h.stage = "committing" THEN {Snapshot} \cup Commits(h.tip, db) ELSE {Snapshot}

OneCommit(q) == \A i, j \in DOMAIN q : q[i].kind = "commit" /\ q[j].kind = "commit" => i = j

Holds == [stage : {"none", "granted", "read", "committing"}, tip : Nat]

\* The file is sound, and there is one under every handle.
FileInv ==
  /\ file = NoFile \/ file = Blank \/ Sound(file)
  /\ call \in {"none", "create", "open", "delete"}
  /\ handle \in {"closed", "open", "closing", "draining"}
  /\ handle # "closed" => Exists /\ call = "none"
  /\ call = "create" => file = Blank
  /\ repo \in {"open", "closed"}
  /\ forks \in Nat

\* The tip a mutation read is the branch's until it ends.
LineInv ==
  /\ waiting \in 0 .. MaxWaiting
  /\ held \in Holds
  /\ handle \in {"closed", "draining"} => waiting = 0 /\ held = Nobody
  /\ held.stage \in {"read", "committing"} => held.tip = file.tip

\* The one commit that may be queued is the held mutation's.
QueueInv ==
  /\ queue \in Seq(Jobs(held, file))
  /\ OneCommit(queue)
  /\ handle = "closed" => queue = <<>>

IInv == FileInv /\ LineInv /\ QueueInv

\* The state of a Session nobody holds.
LEMMA NobodyHolds == Nobody \in Holds /\ Nobody.stage = "none" /\ \A db : Jobs(Nobody, db) = {Snapshot}
BY DEF Nobody, Holds, Jobs, Null

\* A snapshot job is no commit.
LEMMA KindsOfJobs ==
  /\ Snapshot.kind = "snapshot"
  /\ \A tip, write : Job("commit", tip, write).kind = "commit"
BY DEF Snapshot, Job

\* No file, and a blank one, hold no session.
LEMMA NoSession == NoFile.holds # "session" /\ Blank.holds # "session" /\ NoFile # Blank
BY DEF NoFile, Blank

\* A file that holds a session is sound.
LEMMA FileIsSound ==
  ASSUME FileInv, Exists
  PROVE  Sound(file)
BY NoSession DEF FileInv, Exists

\* A commit goes on where the database ends: it keeps what is there, and what
\* it adds follows the tip and becomes it.
Continues(db, r) ==
  /\ Sound(r)
  /\ \A e \in DOMAIN db.entry : e \in DOMAIN r.entry /\ r.entry[e] = db.entry[e]
  /\ \A e \in DOMAIN r.entry \ DOMAIN db.entry : r.entry[e].parent = db.tip /\ r.tip = e

\* A commit's write keeps what the file held.
LEMMA WrittenContinues ==
  ASSUME NEW db, Sound(db), NEW job \in Commits(db.tip, db)
  PROVE  Continues(db, Written(db, job))
<1>1. PICK write \in Writes(db) : job = Job("commit", db.tip, write)
  BY DEF Commits
<1>2. job.tip = db.tip /\ job.write = write
  BY <1>1 DEF Job
<1>3. db.tip \in DOMAIN db.entry \cup {Null}
  BY DEF Sound
<1>4. CASE write \in {"append"} \X Types
  <2>1. PICK type \in Types : write = <<"append", type>>
    BY <1>4
  <2>2. Written(db, job) = Appended(db, db.tip, type)
    BY <1>2, <2>1 DEF Written
  <2>3. IsAppended(db, Appended(db, db.tip, type), db.tip)
    BY <1>3, AppendedIs
  <2>. QED BY <2>2, <2>3 DEF IsAppended, Continues
<1>5. CASE write \in {"move"} \X (DOMAIN db.entry \cup {Null})
  <2>1. PICK tip \in DOMAIN db.entry \cup {Null} : write = <<"move", tip>>
    BY <1>5
  <2>2. Written(db, job) = [db EXCEPT !.tip = tip]
    BY <1>2, <2>1 DEF Written
  <2>3. Sound([db EXCEPT !.tip = tip]) /\ [db EXCEPT !.tip = tip].entry = db.entry
    BY MovedIs
  <2>. QED BY <2>2, <2>3 DEF Continues
<1>. QED BY <1>1, <1>4, <1>5 DEF Writes

\* The first job of the queue, if it is a commit.
LEMMA CommitAtHead ==
  ASSUME IInv, queue # <<>>, Head(queue).kind = "commit"
  PROVE  /\ held.stage = "committing" /\ Exists /\ Sound(file)
         /\ Head(queue) \in Commits(file.tip, file)
         /\ handle \notin {"closed", "draining"}
<1>1. Head(queue) \in Jobs(held, file)
  BY DEF IInv, QueueInv
<1>2. Head(queue) # Snapshot
  BY KindsOfJobs
<1>3. held.stage = "committing" /\ Head(queue) \in Commits(held.tip, file)
  BY <1>1, <1>2 DEF Jobs
<1>4. held # Nobody
  BY <1>3, NobodyHolds
<1>5. handle \notin {"closed", "draining"} /\ held.tip = file.tip
  BY <1>3, <1>4 DEF IInv, LineInv
<1>6. Exists
  BY <1>5 DEF IInv, FileInv
<1>. QED BY <1>3, <1>5, <1>6, FileIsSound DEF IInv

\* The commit step keeps what the file held.
LEMMA CommitContinues ==
  ASSUME IInv, RunCommit
  PROVE  Exists /\ Sound(file) /\ Continues(file, file')
<1>1. Exists /\ Sound(file) /\ Head(queue) \in Commits(file.tip, file)
  BY CommitAtHead DEF RunCommit
<1>2. Continues(file, Written(file, Head(queue)))
  BY <1>1, WrittenContinues
<1>3. Continues(file, file)
  BY <1>1 DEF Continues
<1>. QED BY <1>1, <1>2, <1>3 DEF RunCommit

\* A snapshot taken for a fork gives a fork of the file.
LEMMA TakenForks ==
  ASSUME FileInv, Exists, Taken
  PROVE  Sound(file) /\ IsFork(file, file')
<1>1. Sound(file)
  BY FileIsSound
<1>2. PICK option \in Options(file) : file' = Forked(file, option)
  BY DEF Taken
<1>. QED BY <1>1, <1>2, ForkedIs

\* A queued job belongs to a file that exists.
LEMMA SnapshotOfSession ==
  ASSUME IInv, queue # <<>>
  PROVE  Exists
BY DEF IInv, QueueInv, FileInv

\* A file a run may start from is absent or sound.
LEMMA FormerIsSound == \A f \in Former : f = NoFile \/ Sound(f)
<1>. DEFINE one == Appended(EmptyDb, Null, "message")
<1>1. IsAppended(EmptyDb, one, Null)
  BY EmptyIsSound, AppendedIs DEF Types
<1>2. EmptyDb.next = 1
  BY DEF EmptyDb
<1>3. Sound(one) /\ 1 \in DOMAIN one.entry
  BY <1>1, <1>2 DEF IsAppended
<1>. HIDE DEF one
<1>4. IsAppended(one, Appended(one, 1, "compaction"), 1)
  BY <1>3, AppendedIs DEF Types
<1>. QED BY <1>4 DEF IsAppended, Former, one

\* The inductive invariant holds at the start.
LEMMA InitInv ==
  ASSUME Init
  PROVE  IInv
<1>1. FileInv
  BY FormerIsSound DEF Init, FileInv
<1>2. LineInv
  BY NobodyHolds, SqliteBounds DEF Init, LineInv
<1>3. QueueInv
  BY DEF Init, QueueInv, OneCommit
<1>. QED BY <1>1, <1>2, <1>3 DEF IInv

\* What holds of the file after one action.
LEMMA FileStep ==
  ASSUME IInv, Next
  PROVE  FileInv'
<1>0. /\ file = NoFile \/ file = Blank \/ Sound(file)
      /\ call \in {"none", "create", "open", "delete"}
      /\ handle \in {"closed", "open", "closing", "draining"}
      /\ handle # "closed" => Exists /\ call = "none"
      /\ call = "create" => file = Blank
      /\ repo \in {"open", "closed"}
      /\ forks \in Nat
  BY DEF IInv, FileInv
<1>1. CASE Create
  BY <1>0, <1>1 DEF Create, Ask, Reserved, bounds, FileInv
<1>2. CASE Open
  BY <1>0, <1>2 DEF Open, Ask, Reserved, bounds, FileInv
<1>3. CASE Delete
  BY <1>0, <1>3 DEF Delete, Ask, Reserved, bounds, FileInv
<1>4. CASE CreateEnds
  <2>1. handle = "closed" /\ call = "create"
    BY <1>0, <1>4 DEF CreateEnds
  <2>2. EmptyDb.holds = "session" /\ Sound(EmptyDb)
    BY EmptyIsSound DEF EmptyDb
  <2>3. CASE Opened /\ file' = EmptyDb
    BY <2>2, <2>3, <1>0 DEF Opened, bounds, FileInv, Exists
  <2>4. CASE Rejected /\ file' = NoFile
    BY <2>1, <2>4, <1>0 DEF Rejected, bounds, FileInv
  <2>. QED BY <2>3, <2>4, <1>4 DEF CreateEnds
<1>5. CASE OpenEnds
  <2>1. CASE Exists /\ Opened
    BY <2>1, <1>0, <1>5 DEF OpenEnds, Opened, bounds, FileInv, Exists
  <2>2. CASE Rejected
    BY <2>2, <1>0, <1>5 DEF OpenEnds, Rejected, bounds, FileInv, Exists
  <2>. QED BY <2>1, <2>2, <1>5 DEF OpenEnds
<1>6. CASE DeleteEnds
  <2>1. handle = "closed" /\ Rejected /\ (file' = NoFile \/ file' = file)
    BY <1>0, <1>6 DEF DeleteEnds
  <2>. QED BY <2>1, <1>0 DEF Rejected, bounds, FileInv
<1>7. ASSUME file' = file, call' = call, forks' = forks, repo' \in {"open", "closed"},
             handle' = handle \/ (handle # "closed" /\ handle' \in {"closing", "draining", "closed"})
      PROVE  FileInv'
  BY <1>0, <1>7 DEF FileInv, Exists
<1>8. CASE BeginMutation \/ Grant \/ ReadTip \/ EndMutation \/ CommitEntry \/ CommitTip
  BY <1>7, <1>8, <1>0 DEF BeginMutation, Grant, ReadTip, EndMutation, CommitEntry, CommitTip, Enqueue, bounds
<1>9. CASE RunCommit
  <2>1. Sound(file')
    BY <1>9, CommitContinues DEF Continues
  <2>2. file'.holds = "session"
    BY <2>1 DEF Sound, Tree
  <2>3. call' = call /\ handle' = handle /\ repo' = repo /\ forks' = forks /\ Exists
    BY <1>9, CommitContinues DEF RunCommit, bounds
  <2>4. call # "create"
    <3>1. Blank.holds # "session"
      BY NoSession
    <3>. QED BY <3>1, <2>3, <1>0 DEF Exists
  <2>. QED BY <2>1, <2>2, <2>3, <2>4, <1>0 DEF FileInv, Exists
<1>10. CASE ForkOpen
  BY <1>7, <1>10, <1>0 DEF ForkOpen, bounds
<1>11. ASSUME Exists, Taken PROVE FileInv'
  <2>1. Sound(file')
    BY <1>11, TakenForks DEF IsFork, IInv
  <2>2. file'.holds = "session"
    BY <2>1 DEF Sound, Tree
  <2>. QED BY <2>1, <2>2, <1>0, <1>11 DEF Taken, FileInv, Exists
<1>12. CASE RunSnapshot
  <2>1. CASE Taken
    BY <2>1, <1>11, <1>12, SnapshotOfSession DEF RunSnapshot
  <2>2. CASE ~Taken
    BY <2>2, <1>0, <1>7, <1>12 DEF RunSnapshot, bounds
  <2>. QED BY <2>1, <2>2
<1>13. CASE ForkClosed
  BY <1>11, <1>13 DEF ForkClosed
<1>14. CASE CloseSession \/ CallsSettled \/ Drained \/ CloseRepo
  BY <1>7, <1>14, <1>0 DEF CloseSession, CallsSettled, Drained, CloseRepo, bounds
<1>15. CASE Crash
  BY <1>15, <1>0 DEF Crash, FileInv
<1>. QED BY <1>1, <1>2, <1>3, <1>4, <1>5, <1>6, <1>8, <1>9, <1>10, <1>12, <1>13, <1>14, <1>15 DEF Next

\* What holds of the mutation line after one action.
LEMMA LineStep ==
  ASSUME IInv, Next
  PROVE  LineInv'
<1>0. /\ waiting \in 0 .. MaxWaiting /\ held \in Holds
      /\ handle \in {"closed", "draining"} => waiting = 0 /\ held = Nobody
      /\ held.stage \in {"read", "committing"} => held.tip = file.tip
      /\ MaxWaiting \in Nat
  BY SqliteBounds DEF IInv, LineInv
<1>1. handle \in {"closed", "open", "closing", "draining"} /\ (handle # "closed" => Exists /\ call = "none")
  BY DEF IInv, FileInv
<1>2. Nobody \in Holds /\ Nobody.stage = "none"
  BY NobodyHolds
<1>3. ASSUME waiting' = 0, held' = Nobody PROVE LineInv'
  BY <1>0, <1>2, <1>3 DEF LineInv
<1>4. ASSUME handle = "closed", waiting' = waiting, held' = held PROVE LineInv'
  BY <1>0, <1>3, <1>4
<1>5. CASE Create \/ Open \/ Delete
  BY <1>4, <1>5 DEF Create, Open, Delete, Ask, Reserved, handleVars
<1>6. CASE CreateEnds \/ OpenEnds \/ DeleteEnds
  <2>1. handle = "closed"
    BY <1>1, <1>6 DEF CreateEnds, OpenEnds, DeleteEnds
  <2>2. waiting' = waiting /\ held' = held
    BY <1>6 DEF CreateEnds, OpenEnds, DeleteEnds, Opened, Rejected, handleVars
  <2>. QED BY <2>1, <2>2, <1>4
<1>7. CASE BeginMutation
  BY <1>0, <1>7 DEF BeginMutation, LineInv
<1>8. CASE Grant
  <2>1. [Nobody EXCEPT !.stage = "granted"] \in Holds
        /\ [Nobody EXCEPT !.stage = "granted"].stage = "granted"
    BY DEF Nobody, Holds, Null
  <2>2. held' \in Holds /\ held'.stage \in {"granted", "none"}
    BY <2>1, <1>2, <1>8 DEF Grant
  <2>3. waiting - 1 \in 0 .. MaxWaiting /\ waiting' = waiting - 1 /\ handle' = handle
        /\ handle \notin {"closed", "draining"}
    BY <1>0, <1>8 DEF Grant
  <2>. QED BY <2>2, <2>3 DEF LineInv
<1>9. CASE ReadTip
  <2>1. held.stage = "granted" /\ waiting' = waiting /\ handle' = handle /\ file' = file
        /\ held' = [held EXCEPT !.stage = "read", !.tip = file.tip]
    BY <1>9 DEF ReadTip
  <2>2. handle \notin {"closed", "draining"}
    BY <2>1, <1>0, <1>2
  <2>3. file.tip \in Nat
    <3>1. Sound(file)
      BY <2>2, <1>1, FileIsSound DEF IInv
    <3>. QED BY <3>1, TreeNumbers DEF Sound
  <2>4. held' \in Holds /\ held'.tip = file.tip
    BY <2>1, <2>3, <1>0 DEF Holds
  <2>. QED BY <2>1, <2>2, <2>4, <1>0 DEF LineInv
<1>10. CASE EndMutation
  <2>1. handle \notin {"closed", "draining"}
    BY <1>0, <1>2, <1>10 DEF EndMutation, Reading
  <2>. QED BY <2>1, <1>0, <1>2, <1>10 DEF EndMutation, LineInv
<1>11. ASSUME NEW write, Enqueue(write), Reading PROVE LineInv'
  <2>1. held' = [held EXCEPT !.stage = "committing"] /\ waiting' = waiting /\ handle' = handle /\ file' = file
    BY <1>11 DEF Enqueue
  <2>2. held' \in Holds /\ held'.tip = held.tip
    BY <2>1, <1>0 DEF Holds
  <2>3. handle \notin {"closed", "draining"} /\ held.tip = file.tip
    BY <1>0, <1>2, <1>11 DEF Reading
  <2>. QED BY <2>1, <2>2, <2>3, <1>0 DEF LineInv
<1>12. CASE CommitEntry \/ CommitTip
  BY <1>11, <1>12 DEF CommitEntry, CommitTip
<1>13. CASE RunCommit
  <2>1. handle \notin {"closed", "draining"}
    BY <1>13, CommitAtHead DEF RunCommit
  <2>. QED BY <2>1, <1>0, <1>2, <1>13 DEF RunCommit, LineInv
<1>14. ASSUME waiting' = waiting, held' = held, file' = file,
              handle' \in {"closed", "draining"} => waiting = 0 /\ held = Nobody
       PROVE  LineInv'
  BY <1>0, <1>14 DEF LineInv
<1>15. CASE ForkOpen
  BY <1>0, <1>14, <1>15 DEF ForkOpen
<1>16. CASE RunSnapshot
  <2>1. CASE Taken
    BY <2>1, <1>3 DEF Taken
  <2>2. CASE ~Taken
    BY <2>2, <1>0, <1>14, <1>16 DEF RunSnapshot
  <2>. QED BY <2>1, <2>2
<1>17. CASE ForkClosed
  BY <1>3, <1>17 DEF ForkClosed, Taken
<1>18. CASE CloseSession \/ CallsSettled \/ Drained \/ CloseRepo
  BY <1>0, <1>14, <1>18 DEF CloseSession, CallsSettled, Drained, CloseRepo, handleVars
<1>19. CASE Crash
  BY <1>3, <1>19 DEF Crash
<1>. QED
  BY <1>5, <1>6, <1>7, <1>8, <1>9, <1>10, <1>12, <1>13, <1>15, <1>16, <1>17, <1>18, <1>19 DEF Next

\* What is left of a queue when its head is taken.
LEMMA TailOf ==
  ASSUME NEW S, NEW q \in Seq(S), q # <<>>
  PROVE  /\ Tail(q) \in Seq(S) /\ Len(Tail(q)) = Len(q) - 1 /\ Len(q) \in Nat \ {0}
         /\ Head(q) = q[1] /\ \A i \in 1..(Len(q) - 1) : Tail(q)[i] = q[i + 1]
OBVIOUS

\* A queue with one commit at most keeps so when its head is taken.
LEMMA OneCommitLeft ==
  ASSUME NEW S, NEW q \in Seq(S), q # <<>>, OneCommit(q)
  PROVE  OneCommit(Tail(q)) /\ (Head(q).kind = "commit" =>
                                  \A i \in DOMAIN Tail(q) : Tail(q)[i].kind # "commit")
<1>1. /\ Tail(q) \in Seq(S) /\ Len(Tail(q)) = Len(q) - 1 /\ Len(q) \in Nat \ {0}
      /\ Head(q) = q[1] /\ \A i \in 1..(Len(q) - 1) : Tail(q)[i] = q[i + 1]
  BY TailOf
<1>2. DOMAIN q = 1..Len(q) /\ DOMAIN Tail(q) = 1..(Len(q) - 1)
  BY <1>1
<1>3. \A i \in 1..(Len(q) - 1) : i + 1 \in 1..Len(q) /\ 1 \in 1..Len(q) /\ i + 1 # 1
  BY <1>1
<1>4. \A i, j \in 1..(Len(q) - 1) : i + 1 = j + 1 => i = j
  OBVIOUS
<1>. QED BY <1>1, <1>2, <1>3, <1>4 DEF OneCommit

\* What holds of the commit queue after one action.
LEMMA QueueStep ==
  ASSUME IInv, Next
  PROVE  QueueInv'
<1>0. queue \in Seq(Jobs(held, file)) /\ OneCommit(queue) /\ (handle = "closed" => queue = <<>>)
  BY DEF IInv, QueueInv
<1>1. handle # "closed" => Exists /\ call = "none"
  BY DEF IInv, FileInv
<1>2. handle \in {"closed", "draining"} => held = Nobody
  BY DEF IInv, LineInv
<1>3. ASSUME queue' = <<>> PROVE QueueInv'
  BY <1>3 DEF QueueInv, OneCommit
<1>4. ASSUME handle = "closed", queue' = queue PROVE QueueInv'
  BY <1>0, <1>3, <1>4
<1>5. CASE Create \/ Open \/ Delete
  BY <1>4, <1>5 DEF Create, Open, Delete, Ask, Reserved, handleVars
<1>6. CASE CreateEnds \/ OpenEnds \/ DeleteEnds
  <2>1. handle = "closed"
    BY <1>1, <1>6 DEF CreateEnds, OpenEnds, DeleteEnds
  <2>2. queue' = queue
    BY <1>6 DEF CreateEnds, OpenEnds, DeleteEnds, Opened, Rejected, handleVars
  <2>. QED BY <2>1, <2>2, <1>4
<1>7. ASSUME queue' = queue, held' = held, file' = file, handle' = "closed" => handle = "closed" \/ queue = <<>>
      PROVE  QueueInv'
  BY <1>0, <1>7 DEF QueueInv
<1>8. CASE BeginMutation
  BY <1>7, <1>8 DEF BeginMutation
<1>9. ASSUME held.stage # "committing", held'.stage # "committing", queue' = queue, handle' = handle
      PROVE  QueueInv'
  BY <1>0, <1>9 DEF QueueInv, Jobs
<1>10. CASE Grant
  <2>1. [Nobody EXCEPT !.stage = "granted"].stage # "committing"
    BY DEF Nobody
  <2>. QED BY <2>1, <1>9, <1>10, NobodyHolds DEF Grant, LineFree
<1>11. CASE ReadTip
  <2>1. held'.stage = "read"
    BY <1>11 DEF ReadTip, IInv, LineInv, Holds
  <2>. QED BY <2>1, <1>9, <1>11 DEF ReadTip
<1>12. CASE EndMutation
  BY <1>9, <1>12, NobodyHolds DEF EndMutation, Reading
<1>13. ASSUME NEW write \in Writes(file), Enqueue(write), Reading PROVE QueueInv'
  <2>. DEFINE job == Job("commit", held.tip, write)
  <2>1. queue \in Seq({Snapshot})
    BY <1>0, <1>13 DEF Jobs, Reading
  <2>2. held'.stage = "committing" /\ held'.tip = held.tip /\ queue' = Append(queue, job)
        /\ handle' = handle /\ file' = file
    BY <1>13 DEF Enqueue, IInv, LineInv, Holds
  <2>3. handle # "closed"
    BY <1>2, <1>13, NobodyHolds DEF Reading
  <2>4. job \in Commits(held.tip, file)
    BY DEF Commits
  <2>. HIDE DEF job
  <2>5. Jobs(held, file)' = {Snapshot} \cup Commits(held.tip, file)
    BY <2>2 DEF Jobs
  <2>6. queue' \in Seq({Snapshot} \cup Commits(held.tip, file))
    BY <2>1, <2>2, <2>4
  <2>7. Len(queue) \in Nat /\ DOMAIN queue' = 1..(Len(queue) + 1)
        /\ \A i \in 1..Len(queue) : queue'[i] = Snapshot
    BY <2>1, <2>2
  <2>8. \A i \in DOMAIN queue' : queue'[i].kind = "commit" => i = Len(queue) + 1
    <3>. SUFFICES ASSUME NEW i \in 1..(Len(queue) + 1), i # Len(queue) + 1
                  PROVE  queue'[i].kind # "commit"
      BY <2>7
    <3>1. i \in 1..Len(queue)
      BY <2>7
    <3>. QED BY <3>1, <2>7, KindsOfJobs
  <2>9. OneCommit(queue')
    BY <2>8 DEF OneCommit
  <2>. QED BY <2>2, <2>3, <2>5, <2>6, <2>9 DEF QueueInv
<1>14. CASE CommitEntry
  <2>1. PICK type \in Types : Enqueue(<<"append", type>>)
    BY <1>14 DEF CommitEntry
  <2>2. <<"append", type>> \in Writes(file)
    BY DEF Writes
  <2>. QED BY <2>1, <2>2, <1>13, <1>14 DEF CommitEntry
<1>15. CASE CommitTip
  <2>1. PICK e \in DOMAIN file.entry \cup {Null} : Enqueue(<<"move", e>>)
    BY <1>15 DEF CommitTip
  <2>2. <<"move", e>> \in Writes(file)
    BY DEF Writes
  <2>. QED BY <2>1, <2>2, <1>13, <1>15 DEF CommitTip
<1>16. CASE RunCommit
  <2>1. queue # <<>> /\ Head(queue).kind = "commit" /\ queue' = Tail(queue) /\ held' = Nobody /\ handle' = handle
    BY <1>16 DEF RunCommit
  <2>2. /\ Tail(queue) \in Seq(Jobs(held, file))
        /\ \A i \in DOMAIN Tail(queue) : Tail(queue)[i].kind # "commit"
        /\ OneCommit(Tail(queue))
    BY <2>1, <1>0, TailOf, OneCommitLeft
  <2>3. \A i \in DOMAIN Tail(queue) : Tail(queue)[i] = Snapshot
    <3>. SUFFICES ASSUME NEW i \in DOMAIN Tail(queue) PROVE Tail(queue)[i] = Snapshot
      OBVIOUS
    <3>1. Tail(queue)[i] \in Jobs(held, file)
      BY ONLY <2>2, i \in DOMAIN Tail(queue)
    <3>. QED BY <3>1, <2>2, KindsOfJobs DEF Jobs, Commits
  <2>. DEFINE t == Tail(queue)
  <2>. HIDE DEF t
  <2>4. t \in Seq({Snapshot})
    <3>1. t \in Seq(Jobs(held, file)) /\ \A i \in DOMAIN t : t[i] = Snapshot
      BY <2>2, <2>3 DEF t
    <3>2. Len(t) \in Nat /\ DOMAIN t = 1..Len(t) /\ t = [i \in 1..Len(t) |-> t[i]]
      BY <3>1
    <3>3. \A i \in 1..Len(t) : t[i] \in {Snapshot}
      BY <3>1, <3>2
    <3>. QED BY ONLY <3>2, <3>3, IsASeq
  <2>5. handle # "closed"
    BY <2>1, <1>0
  <2>6. Jobs(held, file)' = {Snapshot}
    BY <2>1, NobodyHolds DEF Jobs
  <2>. QED BY <2>1, <2>2, <2>4, <2>5, <2>6 DEF QueueInv, t
<1>17. CASE ForkOpen
  <2>1. queue' = Append(queue, Snapshot) /\ held' = held /\ file' = file /\ handle' = handle
        /\ handle # "closed"
    BY <1>17 DEF ForkOpen
  <2>2. Snapshot \in Jobs(held, file)
    BY DEF Jobs
  <2>3. queue' \in Seq(Jobs(held, file))
    BY <2>1, <2>2, <1>0
  <2>4. Len(queue) \in Nat /\ DOMAIN queue = 1..Len(queue) /\ DOMAIN queue' = 1..(Len(queue) + 1)
        /\ queue'[Len(queue) + 1] = Snapshot /\ \A i \in 1..Len(queue) : queue'[i] = queue[i]
    BY <2>1, <1>0
  <2>5. \A i \in DOMAIN queue' : queue'[i].kind = "commit" => i \in DOMAIN queue /\ queue[i].kind = "commit"
    <3>. SUFFICES ASSUME NEW i \in 1..(Len(queue) + 1), queue'[i].kind = "commit"
                  PROVE  i \in 1..Len(queue) /\ queue[i].kind = "commit"
      BY <2>4
    <3>1. i # Len(queue) + 1
      BY <2>4, KindsOfJobs
    <3>2. i \in 1..Len(queue)
      BY <3>1, <2>4
    <3>. QED BY <3>2, <2>4
  <2>6. OneCommit(queue')
    BY <2>5, <1>0 DEF OneCommit
  <2>. QED BY <2>1, <2>3, <2>6 DEF QueueInv
<1>18. CASE RunSnapshot
  <2>1. CASE Taken
    BY <2>1, <1>3 DEF Taken
  <2>2. CASE ~Taken
    <3>1. queue # <<>> /\ queue' = Tail(queue) /\ held' = held /\ file' = file /\ handle' = handle
      BY <2>2, <1>18 DEF RunSnapshot
    <3>2. Tail(queue) \in Seq(Jobs(held, file)) /\ OneCommit(Tail(queue))
      BY <3>1, <1>0, TailOf, OneCommitLeft
    <3>. QED BY <3>1, <3>2, <1>0 DEF QueueInv
  <2>. QED BY <2>1, <2>2
<1>19. CASE ForkClosed
  BY <1>3, <1>19 DEF ForkClosed, Taken
<1>20. CASE CloseSession \/ CallsSettled \/ Drained \/ CloseRepo
  BY <1>7, <1>20 DEF CloseSession, CallsSettled, Drained, CloseRepo, handleVars
<1>21. CASE Crash
  BY <1>3, <1>21 DEF Crash
<1>. QED
  BY <1>5, <1>6, <1>8, <1>10, <1>11, <1>12, <1>14, <1>15, <1>16, <1>17, <1>18, <1>19, <1>20, <1>21 DEF Next

\* Every step keeps the inductive invariant.
LEMMA InvStep ==
  ASSUME IInv, [Next]_vars
  PROVE  IInv'
<1>1. CASE Next
  BY <1>1, FileStep, LineStep, QueueStep DEF IInv
<1>2. CASE UNCHANGED vars
  BY <1>2 DEF vars, handleVars, IInv, FileInv, LineInv, QueueInv, Exists
<1>. QED BY <1>1, <1>2

\* The inductive invariant gives the type invariant.
LEMMA InvTypes ==
  ASSUME IInv
  PROVE  TypeOK
<1>1. ASSUME Exists PROVE IsDatabase(file)
  <2>1. Sound(file)
    BY <1>1, FileIsSound DEF IInv
  <2>2. \A e \in DOMAIN file.entry : file.entry[e].parent \in {p \in DOMAIN file.entry : p < e} \cup {Null}
    BY <2>1 DEF Sound, Tree
  <2>. QED BY <2>1, <2>2 DEF Sound, Tree, Index, IsDatabase
<1>2. ASSUME NEW i \in DOMAIN queue PROVE queue[i].kind \in {"commit", "snapshot"}
  <2>1. queue \in Seq(Jobs(held, file))
    BY DEF IInv, QueueInv
  <2>2. queue[i] \in Jobs(held, file)
    BY <2>1
  <2>. QED BY <2>2, KindsOfJobs DEF Jobs, Commits
<1>3. held.stage \in {"none", "granted", "read", "committing"}
  BY DEF IInv, LineInv, Holds
<1>. QED BY <1>1, <1>2, <1>3 DEF IInv, FileInv, LineInv, TypeOK

\* Of a session, in any state: every query is answered as the walk answers it.
AnyReadMatches ==
  Exists => \A q : IsQuery(file, q) => ScanBranch(file, q) = WalkBranch(file, q)

\* The inductive invariant makes every read match the parent walk.
LEMMA InvReads ==
  ASSUME IInv
  PROVE  AnyReadMatches
<1>. SUFFICES ASSUME Exists, NEW q, IsQuery(file, q) PROVE ScanBranch(file, q) = WalkBranch(file, q)
  BY DEF AnyReadMatches
<1>1. Tree(file) /\ Index(file, DOMAIN file.entry)
  BY FileIsSound DEF IInv, Sound
<1>. QED BY <1>1, ScanIsWalk

\* The queries a run asks are well formed.
LEMMA QueriesAsk ==
  ASSUME NEW q \in Queries(file)
  PROVE  IsQuery(file, q)
BY DEF Queries, IsQuery, Directed

\* Nothing that was committed is lost or rewritten in one step, and a fork is a copy.
LEMMA StepKeeps ==
  ASSUME IInv, [Next]_vars
  PROVE  KeepsHistory /\ CopiesHistory
<1>1. ASSUME file' = file PROVE KeepsHistory
  BY <1>1 DEF KeepsHistory, Exists
<1>2. ASSUME forks' = forks PROVE CopiesHistory
  BY <1>2 DEF CopiesHistory
<1>3. ASSUME ~Exists PROVE KeepsHistory
  BY <1>3 DEF KeepsHistory
<1>4. handle # "closed" => call = "none"
  BY DEF IInv, FileInv
<1>5. CASE Create
  <2>1. ~Exists /\ forks' = forks
    BY <1>5, NoSession DEF Create, Ask, bounds, Exists
  <2>. QED BY <2>1, <1>2, <1>3
<1>6. CASE CreateEnds
  <2>1. file = Blank /\ forks' = forks
    BY <1>6 DEF CreateEnds, Opened, Rejected, bounds, IInv, FileInv
  <2>. QED BY <2>1, <1>2, <1>3, NoSession DEF Exists
<1>7. CASE DeleteEnds
  <2>1. call = "delete" /\ handle = "closed" /\ (file' = NoFile \/ file' = file) /\ forks' = forks
    BY <1>4, <1>7 DEF DeleteEnds, Rejected, bounds
  <2>. QED BY <2>1, <1>1, <1>2 DEF KeepsHistory
<1>8. CASE RunCommit
  <2>1. Continues(file, file') /\ forks' = forks
    BY <1>8, CommitContinues DEF RunCommit, bounds
  <2>2. file'.holds = "session"
    BY <2>1 DEF Continues, Sound, Tree
  <2>. QED BY <2>1, <2>2, <1>2 DEF Continues, KeepsHistory
<1>9. ASSUME Exists, Taken PROVE KeepsHistory /\ CopiesHistory
  <2>1. forks' # forks
    BY <1>9 DEF Taken, IInv, FileInv
  <2>2. IsFork(file, file')
    BY <1>9, TakenForks DEF IInv
  <2>. QED BY <2>1, <2>2 DEF IsFork, KeepsHistory, CopiesHistory
<1>10. CASE RunSnapshot
  <2>1. CASE Taken
    BY <2>1, <1>9, <1>10, SnapshotOfSession DEF RunSnapshot
  <2>2. CASE ~Taken
    BY <2>2, <1>1, <1>2, <1>10 DEF RunSnapshot, bounds
  <2>. QED BY <2>1, <2>2
<1>11. CASE ForkClosed
  BY <1>9, <1>11 DEF ForkClosed
<1>12. CASE Open \/ Delete \/ OpenEnds
  BY <1>1, <1>2, <1>12 DEF Open, Delete, OpenEnds, Ask, Opened, Rejected, bounds
<1>13. CASE BeginMutation \/ Grant \/ ReadTip \/ EndMutation \/ CommitEntry \/ CommitTip
  BY <1>1, <1>2, <1>13
  DEF BeginMutation, Grant, ReadTip, EndMutation, CommitEntry, CommitTip, Enqueue, bounds
<1>14. CASE ForkOpen \/ CloseSession \/ CallsSettled \/ Drained \/ CloseRepo \/ Crash
  BY <1>1, <1>2, <1>14 DEF ForkOpen, CloseSession, CallsSettled, Drained, CloseRepo, Crash, bounds
<1>15. CASE UNCHANGED vars
  BY <1>1, <1>2, <1>15 DEF vars
<1>. QED
  BY <1>5, <1>6, <1>7, <1>8, <1>10, <1>11, <1>12, <1>13, <1>14, <1>15 DEF Next

-----------------------------------------------------------------------------
(* The invariant is inductive: the file is sound, the tip a mutation read  *)
(* is the branch's until it ends, and the queue holds its commit alone.    *)
THEOREM Inductive == Spec => []IInv
<1>1. Init => IInv
  BY InitInv
<1>2. IInv /\ [Next]_vars => IInv'
  BY InvStep
<1>. QED BY <1>1, <1>2, PTL DEF Spec

(* Every variable keeps its type, and the file is a database in which      *)
(* entries hang together (the rows of storage.ts and branch-entries.ts).   *)
THEOREM TypeCorrect == Spec => []TypeOK
<1>1. IInv => TypeOK
  BY InvTypes
<1>. QED BY <1>1, Inductive, PTL

(* In every state, held or not, a scan of the branch index gives for any   *)
(* start, direction, stop, type, cursor and limit what a walk along the    *)
(* parents gives (branch-entries.ts and in-memory-storage-state.ts).       *)
THEOREM EveryReadMatches == Spec => []AnyReadMatches
<1>1. IInv => AnyReadMatches
  BY InvReads
<1>. QED BY <1>1, Inductive, PTL

(* The invariant of the run: the queries it enumerates agree whenever no   *)
(* handle is open.                                                         *)
THEOREM ReadsCorrect == Spec => []ReadsMatchTree
<1>1. IInv => ReadsMatchTree
  BY InvTypes, InvReads, QueriesAsk DEF ReadsMatchTree, AnyReadMatches
<1>. QED BY <1>1, Inductive, PTL

(* No step loses or rewrites a committed entry, an append follows the tip  *)
(* the branch has at that very step, and a fork reads as its source does   *)
(* (storage.ts, session.ts, repo.ts, fork.ts).                             *)
THEOREM HistoryAlwaysKept == Spec => HistoryKept
<1>1. IInv /\ [Next]_vars => [KeepsHistory /\ CopiesHistory]_vars
  BY StepKeeps
<1>. QED BY <1>1, Inductive, PTL DEF Spec, HistoryKept
=============================================================================
