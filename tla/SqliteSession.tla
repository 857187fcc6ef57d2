--------------------------- MODULE SqliteSession ---------------------------
(***************************************************************************)
(* One durable Session of the SQLite repository: the file it lives in, the *)
(* repository calls that create, open, fork and delete it, the handle with *)
(* its mutation line and commit queue, and the branch index every commit   *)
(* keeps beside the entries (session-backends/sqlite-node).                *)
(*                                                                         *)
(* An entry is named by its sequence number: identifiers are fresh, and a  *)
(* fork keeps the numbers of what it copies, so its history has gaps.  The *)
(* numbers that value writes consume are left out.  The module follows one *)
(* Session; when a fork of it is taken it goes on with the destination,    *)
(* which shares nothing with the source any more.                          *)
(***************************************************************************)
EXTENDS Naturals, Sequences, FiniteSets, SequencesExt

CONSTANTS
    MaxWaiting,  \* mutations waiting for the line at one time
    MaxAppends,  \* entries appended in a behaviour
    MaxForks,    \* forks taken in a behaviour
    MaxCrashes   \* ends of the process in a behaviour

ASSUME SqliteBounds == {MaxWaiting, MaxAppends, MaxForks, MaxCrashes} \subseteq Nat

VARIABLES
    file,     \* what the path holds: nothing, a file without a session row, or a Session
    call,     \* the create, open or delete in flight: it holds the id
    handle,   \* "closed", "open", "closing" (admitted calls finish), "draining"
    waiting,  \* mutations in the line, not granted yet
    held,     \* the mutation that holds the line
    queue,    \* jobs of the commit queue
    repo,     \* whether the repository admits calls
    appends, forks, crashes

vars == <<file, call, handle, waiting, held, queue, repo, appends, forks, crashes>>
handleVars == <<waiting, held, queue>>
bounds == <<appends, forks, crashes>>

Null    == 0
Types   == {"message", "compaction"}
Nobody  == [stage |-> "none", tip |-> Null]
Job(kind, tip, write) == [kind |-> kind, tip |-> tip, write |-> write]
Snapshot == Job("snapshot", Null, <<>>)
NoFile  == [holds |-> "nothing"]
Blank   == [holds |-> "no row"]
EmptyDb == [holds |-> "session", entry |-> <<>>, tip |-> Null,
            meta |-> <<>>, rows |-> <<>>, next |-> 1]
Exists  == file.holds = "session"

(***************************************************************************)
(* The branch index.  A branch owns the rows above its base; below them it *)
(* goes on in the base branch, up to and including base sequence number.   *)
(***************************************************************************)
Owners(db, e) ==
    {b \in DOMAIN db.meta : e \in db.rows[b] /\ db.meta[b].baseSeq < e /\ e <= db.meta[b].tip}

Membership(db, e) ==
    CHOOSE b \in Owners(db, e) : \A c \in Owners(db, e) : db.meta[c].tip <= db.meta[b].tip

SegmentsNewestFirst(db, e) ==
    LET Segment(b, upper) == [branch |-> b, lower |-> db.meta[b].baseSeq, upper |-> upper]
        below[b \in DOMAIN db.meta] ==
            IF db.meta[b].base = Null THEN <<>>
            ELSE <<Segment(db.meta[b].base, db.meta[b].baseSeq)>> \o below[db.meta[b].base]
        own == Membership(db, e)
    IN  <<Segment(own, e)>> \o below[own]

RowsIn(db, s) == {q \in db.rows[s.branch] : s.lower < q /\ q <= s.upper}

Highest(S) == CHOOSE x \in S : \A y \in S : y <= x
Lowest(S)  == CHOOSE x \in S : \A y \in S : x <= y

(* The newest compaction on the way down: where a diverging branch hangs on. *)
CompactionBoundary(db, segments) ==
    LET compactions(s) == {q \in RowsIn(db, s) : db.entry[q].type = "compaction"}
        compacted == {i \in DOMAIN segments : compactions(segments[i]) # {}}
        first == segments[Lowest(compacted)]
    IN  IF compacted = {} THEN [base |-> Null, seq |-> 0]
        ELSE [base |-> first.branch, seq |-> Highest(compactions(first))]

CopiesTooFew(db, segments, after) ==
    UNION {{q \in RowsIn(db, segments[i]) : after + 1 < q} : i \in DOMAIN segments}

CopiedRows(db, segments, after) ==
    UNION {{q \in RowsIn(db, segments[i]) : after < q} : i \in DOMAIN segments}

With(f, x, y) == [z \in DOMAIN f \cup {x} |-> IF z = x THEN y ELSE f[z]]

RootBranch(db, e) ==
    [db EXCEPT !.meta = With(@, e, [tip |-> e, base |-> Null, baseSeq |-> 0]),
               !.rows = With(@, e, {e})]

ExtendedBranch(db, b, e) ==
    [db EXCEPT !.meta[b].tip = e, !.rows[b] = @ \cup {e}]

DivergentBranch(db, e, parent) ==
    LET segments == SegmentsNewestFirst(db, parent)
        boundary == CompactionBoundary(db, segments)
    IN  [db EXCEPT
            !.meta = With(@, e, [tip |-> e, base |-> boundary.base, baseSeq |-> boundary.seq]),
            !.rows = With(@, e, CopiedRows(db, segments, boundary.seq) \cup {e})]

(* One entry write of a commit: the row and the index, in one transaction. *)
Inserted(db, e, parent, type) ==
    LET tipped   == {b \in DOMAIN db.meta : db.meta[b].tip = parent}
        recorded == [db EXCEPT !.entry = With(@, e, [parent |-> parent, type |-> type])]
    IN  IF parent = Null THEN RootBranch(recorded, e)
        ELSE IF tipped = {} THEN DivergentBranch(recorded, e, parent)
        ELSE ExtendedBranch(recorded, CHOOSE b \in tipped : TRUE, e)

Appended(db, parent, type) ==
    LET numbered == [db EXCEPT !.next = db.next + 1]
    IN  [Inserted(numbered, db.next, parent, type) EXCEPT !.tip = db.next]

(***************************************************************************)
(* Reading a branch.  A query starts at an entry and runs in one direction *)
(* to the first entry of the stop type; then it keeps a type, what lies    *)
(* behind the cursor, and at most limit entries.  0 and "any" ask nothing. *)
(***************************************************************************)
Filtered(s, keep) ==
    LET upTo[n \in 0 .. Len(s)] ==
            IF n = 0 THEN <<>>
            ELSE IF s[n] \in keep THEN Append(upTo[n - 1], s[n]) ELSE upTo[n - 1]
    IN  upTo[Len(s)]

Ascending(S) == Filtered([n \in 1 .. Highest(S \cup {0}) |-> n], S)
InOrder(S, q) == IF q.oldestFirst THEN Ascending(S) ELSE Reverse(Ascending(S))
Limited(s, limit) == IF limit = 0 THEN s ELSE SubSeq(s, 1, IF Len(s) < limit THEN Len(s) ELSE limit)

Kept(db, q, e) ==
    /\ q.type \in {"any", db.entry[e].type}
    /\ q.cursor # 0 => IF q.oldestFirst THEN q.cursor < e ELSE e < q.cursor

StopRow(db, q, rows) ==
    LET stops == {e \in rows : db.entry[e].type = q.stopAt}
    IN  IF stops = {} THEN 0 ELSE IF q.oldestFirst THEN Lowest(stops) ELSE Highest(stops)

SegmentRows(db, q, s, stop, remaining) ==
    LET reached == {e \in RowsIn(db, s) :
                      stop # 0 => IF q.oldestFirst THEN e <= stop ELSE stop <= e}
    IN  Limited(InOrder({e \in reached : Kept(db, q, e)}, q), remaining)

ScanBranch(db, q) ==
    LET newest   == SegmentsNewestFirst(db, q.start)
        segments == IF q.oldestFirst THEN Reverse(newest) ELSE newest
        Read(sofar, s) ==
            LET stop == StopRow(db, q, RowsIn(db, s))
            IN  IF sofar.over \/ (q.limit # 0 /\ Len(sofar.rows) >= q.limit) THEN sofar
                ELSE [rows |-> sofar.rows \o SegmentRows(db, q, s, stop,
                                   IF q.limit = 0 THEN 0 ELSE q.limit - Len(sofar.rows)),
                      over |-> stop # 0]
        upTo[n \in 0 .. Len(segments)] ==
            IF n = 0 THEN [rows |-> <<>>, over |-> FALSE] ELSE Read(upTo[n - 1], segments[n])
    IN  upTo[Len(segments)].rows

(* What the other backends do: walk from the start to the root. *)
PathTo(db, e) ==
    LET up[x \in DOMAIN db.entry \cup {Null}] ==
            IF x = Null THEN <<>> ELSE <<x>> \o up[db.entry[x].parent]
    IN  up[e]

WalkBranch(db, q) ==
    LET path == IF q.oldestFirst THEN Reverse(PathTo(db, q.start)) ELSE PathTo(db, q.start)
        stops == {i \in DOMAIN path : db.entry[path[i]].type = q.stopAt}
        seen == IF stops = {} THEN path ELSE SubSeq(path, 1, Lowest(stops))
    IN  Limited(Filtered(seen, {e \in ToSet(seen) : Kept(db, q, e)}), q.limit)

(***************************************************************************)
(* Forks.  A tree fork takes every entry; a branch fork takes the path to  *)
(* one of its entries, or to the one before it.  The destination's index   *)
(* is built anew, entry by entry in the order of their sequence numbers.   *)
(***************************************************************************)
Options(db) ==
    {[scope |-> "tree", tip |-> db.tip]}
        \cup {[scope |-> "branch", tip |-> e] : e \in ToSet(PathTo(db, db.tip)) \cup {Null}}

Selected(db, option) ==
    IF option.scope = "tree" THEN DOMAIN db.entry ELSE ToSet(PathTo(db, option.tip))

NextSeq(selected) == IF selected = {} THEN 1 ELSE Highest(selected) + 1

Forked(db, option) ==
    LET selected == Selected(db, option)
        upTo[n \in 0 .. db.next - 1] ==
            IF n = 0 THEN [EmptyDb EXCEPT !.next = NextSeq(selected)]
            ELSE IF n \in selected
                 THEN Inserted(upTo[n - 1], n, db.entry[n].parent, db.entry[n].type)
                 ELSE upTo[n - 1]
    IN  [upTo[db.next - 1] EXCEPT !.tip = option.tip]

(***************************************************************************)
(* The repository.                                                         *)
(***************************************************************************)
(* Session files a former process may have left: none, or a Session whose  *)
(* first message was compacted away.                                       *)
Former == {NoFile, Appended(Appended(EmptyDb, Null, "message"), 1, "compaction")}

Init ==
    /\ file \in Former
    /\ call = "none" /\ handle = "closed" /\ repo = "open"
    /\ waiting = 0 /\ held = Nobody /\ queue = <<>>
    /\ appends = 0 /\ forks = 0 /\ crashes = 0

Reserved == call # "none" \/ handle # "closed"

Ask(what) ==
    /\ repo = "open" /\ ~Reserved
    /\ call' = what
    /\ UNCHANGED <<handle, handleVars, repo, bounds>>

(* create: the exclusive open of the file rejects a path that exists. *)
Create  == Ask("create") /\ file = NoFile /\ file' = Blank
Open    == Ask("open") /\ UNCHANGED file
Delete  == Ask("delete") /\ UNCHANGED file

Opened ==
    /\ call' = "none" /\ handle' = "open"
    /\ UNCHANGED <<handleVars, repo, bounds>>

Rejected ==
    /\ call' = "none"
    /\ UNCHANGED <<handle, handleVars, repo, bounds>>

CreateEnds ==
    /\ call = "create"
    /\ \/ Opened /\ file' = EmptyDb
       \/ Rejected /\ file' = NoFile

OpenEnds ==
    /\ call = "open"
    /\ UNCHANGED file
    /\ \/ Exists /\ Opened
       \/ Rejected

DeleteEnds ==
    /\ call = "delete"
    /\ Rejected
    /\ \/ Exists /\ file' = NoFile
       \/ UNCHANGED file

(* A mutation enters the line, which grants one at a time.  Once the       *)
(* handle closes, a granted mutate or beginMutation is ended, while the    *)
(* write methods of the Session and its branches still run.                *)
BeginMutation ==
    /\ handle = "open" /\ waiting < MaxWaiting
    /\ waiting' = waiting + 1
    /\ UNCHANGED <<file, call, handle, held, queue, repo, bounds>>

UntilCommitting == held.stage \in {"none", "committing"}
LineFree == held = Nobody

Grant ==
    /\ waiting > 0 /\ LineFree
    /\ waiting' = waiting - 1
    /\ \/ held' = [Nobody EXCEPT !.stage = "granted"]
       \/ handle # "open" /\ held' = Nobody
    /\ UNCHANGED <<file, call, handle, queue, repo, bounds>>

ReadTip ==
    /\ held.stage = "granted"
    /\ held' = [held EXCEPT !.stage = "read", !.tip = file.tip]
    /\ UNCHANGED <<file, call, handle, waiting, queue, repo, bounds>>

Reading == held.stage = "read"

(* The callback returns without a commit. *)
EndMutation ==
    /\ Reading
    /\ held' = Nobody
    /\ UNCHANGED <<file, call, handle, waiting, queue, repo, bounds>>

Enqueue(write) ==
    /\ held' = [held EXCEPT !.stage = "committing"]
    /\ queue' = Append(queue, Job("commit", held.tip, write))
    /\ UNCHANGED <<file, call, handle, waiting, repo, forks, crashes>>

(* An entry is appended after the tip the callback read; a compaction has  *)
(* something to compact.                                                   *)
CommitEntry ==
    /\ Reading
    /\ appends < MaxAppends
    /\ appends' = appends + 1
    /\ \E type \in Types :
         /\ type = "compaction" => held.tip # Null
         /\ Enqueue(<<"append", type>>)

(* The branch is moved to another entry, or to the root. *)
CommitTip ==
    /\ Reading
    /\ \E e \in DOMAIN file.entry \cup {Null} : e # held.tip /\ Enqueue(<<"move", e>>)
    /\ UNCHANGED appends

Written(db, job) ==
    IF job.write[1] = "append" THEN Appended(db, job.tip, job.write[2])
    ELSE [db EXCEPT !.tip = job.write[2]]

(* A commit job: one transaction, applied or rolled back; either way the   *)
(* mutation ends and the queue goes on.                                    *)
RunCommit ==
    /\ queue # <<>> /\ Head(queue).kind = "commit"
    /\ file' \in {file, Written(file, Head(queue))}
    /\ held' = Nobody
    /\ queue' = Tail(queue)
    /\ UNCHANGED <<call, handle, waiting, repo, bounds>>

(* fork of a Session this repository holds open: its snapshot is a job of  *)
(* the commit queue.                                                       *)
ForkOpen ==
    /\ repo = "open" /\ handle \in {"open", "closing"}
    /\ forks < MaxForks /\ Snapshot \notin ToSet(queue)
    /\ queue' = Append(queue, Snapshot)
    /\ UNCHANGED <<file, call, handle, waiting, held, repo, bounds>>

Taken ==
    /\ \E option \in Options(file) : file' = Forked(file, option)
    /\ call' = "none" /\ handle' = "open"
    /\ waiting' = 0 /\ held' = Nobody /\ queue' = <<>>
    /\ forks' = forks + 1
    /\ UNCHANGED <<repo, appends, crashes>>

RunSnapshot ==
    /\ queue # <<>> /\ Head(queue) = Snapshot
    /\ \/ Taken
       \/ /\ queue' = Tail(queue)
          /\ UNCHANGED <<file, call, handle, waiting, held, repo, bounds>>

(* fork of a Session no handle holds: a read transaction of its own. *)
ForkClosed ==
    /\ repo = "open" /\ handle = "closed" /\ Exists
    /\ forks < MaxForks
    /\ Taken

(* Closing: the wrapper waits for admitted calls, then the mutation line   *)
(* is sealed and the storage drains its queue; only then is the database   *)
(* closed and the id released.                                             *)
CloseSession ==
    /\ handle = "open"
    /\ handle' = "closing"
    /\ UNCHANGED <<file, call, handleVars, repo, bounds>>

CallsSettled ==
    /\ handle = "closing" /\ waiting = 0 /\ held = Nobody
    /\ handle' = "draining"
    /\ UNCHANGED <<file, call, handleVars, repo, bounds>>

Drained ==
    /\ handle = "draining" /\ queue = <<>>
    /\ handle' = "closed"
    /\ UNCHANGED <<file, call, handleVars, repo, bounds>>

CloseRepo ==
    /\ repo = "open"
    /\ repo' = "closed"
    /\ handle' = IF handle = "open" THEN "closing" ELSE handle
    /\ UNCHANGED <<file, call, handleVars, bounds>>

(* The process ends and another one starts: only the file is left. *)
Crash ==
    /\ crashes < MaxCrashes
    /\ crashes' = crashes + 1
    /\ call' = "none" /\ handle' = "closed" /\ repo' = "open"
    /\ waiting' = 0 /\ held' = Nobody /\ queue' = <<>>
    /\ UNCHANGED <<file, appends, forks>>

Next ==
    \/ Create \/ Open \/ Delete \/ CreateEnds \/ OpenEnds \/ DeleteEnds
    \/ BeginMutation \/ Grant \/ ReadTip \/ EndMutation \/ CommitEntry \/ CommitTip
    \/ RunCommit \/ ForkOpen \/ RunSnapshot \/ ForkClosed
    \/ CloseSession \/ CallsSettled \/ Drained \/ CloseRepo \/ Crash

Spec == Init /\ [][Next]_vars

-----------------------------------------------------------------------------
(* What a database file looks like: entries hang together, the tip is one  *)
(* of them, and no number can be given out twice.                          *)
IsDatabase(db) ==
    /\ DOMAIN db.entry \subseteq 1 .. db.next - 1
    /\ db.tip \in DOMAIN db.entry \cup {Null}
    /\ \A e \in DOMAIN db.entry :
         /\ db.entry[e].type \in Types
         /\ db.entry[e].parent \in {p \in DOMAIN db.entry : p < e} \cup {Null}
    /\ DOMAIN db.meta = DOMAIN db.rows
    /\ DOMAIN db.meta \subseteq DOMAIN db.entry

TypeOK ==
    /\ Exists => IsDatabase(file)
    /\ call \in {"none", "create", "open", "delete"}
    /\ handle \in {"closed", "open", "closing", "draining"}
    /\ handle # "closed" => Exists /\ call = "none"
    /\ repo \in {"open", "closed"}
    /\ waiting \in 0 .. MaxWaiting
    /\ held.stage \in {"none", "granted", "read", "committing"}
    /\ {queue[i].kind : i \in DOMAIN queue} \subseteq {"commit", "snapshot"}

Queries(db) ==
    [start : DOMAIN db.entry, oldestFirst : BOOLEAN, stopAt : {"any", "compaction"},
     type : {"any", "message"}, cursor : {0, 3}, limit : {0, 1}]

(* Every read of a branch through the index (its segments, the rows copied *)
(* into them, the compaction boundary they end at) gives what a walk along *)
(* the parents gives, whatever was appended, moved and forked before       *)
(* (branch-entries.ts against in-memory-storage-state.ts).  It is stated   *)
(* for the file of a Session nobody holds: every file is one some time.    *)
ReadsMatchTree ==
    /\ TypeOK
    /\ (Exists /\ ~Reserved /\ repo = "open") =>
          \A q \in Queries(file) : ScanBranch(file, q) = WalkBranch(file, q)

(* What was committed stays.  A step that leaves the Session the same one  *)
(* adds at most one entry, after the tip the branch has at that very step, *)
(* and changes no other; a database disappears only by a delete, never     *)
(* under a handle, and a failed create removes no Session (storage.ts,     *)
(* session.ts, repo.ts).                                                   *)
KeepsHistory ==
    (Exists /\ forks' = forks) =>
      \/ file' = NoFile /\ call = "delete" /\ handle = "closed"
      \/ /\ file'.holds = "session"
         /\ \A e \in DOMAIN file.entry :
              e \in DOMAIN file'.entry /\ file'.entry[e] = file.entry[e]
         /\ \A e \in DOMAIN file'.entry \ DOMAIN file.entry :
              file'.entry[e].parent = file.tip /\ file'.tip = e

(* A fork is a copy: its entries are the source's, with every ancestor,    *)
(* and its branch reads as the source's does up to the entry it was taken  *)
(* at (repo.ts, fork.ts).                                                  *)
CopiesHistory ==
    forks' # forks =>
      /\ \A e \in DOMAIN file'.entry :
           e \in DOMAIN file.entry /\ file'.entry[e] = file.entry[e]
      /\ file'.tip # Null => PathTo(file', file'.tip) = PathTo(file, file'.tip)

HistoryKept == [][KeepsHistory /\ CopiesHistory]_vars
=============================================================================
