------------------------------- MODULE Ingest -------------------------------
(***************************************************************************)
(* internal/ingest: moving unbound's query log into the database.          *)
(* unbound appends to the live log, logrotate copies and truncates it, and *)
(* runs of the ingester, one at a time under .ingest.lock, read what is    *)
(* new.  A run can be killed anywhere; what AddBatch commits is durable.   *)
(*                                                                         *)
(* A line is a number, its place among all lines ever logged; a file is    *)
(* the sequence of its lines and an offset counts lines.  Lines that are   *)
(* neither RPZ nor reply lines are skipped by the ingester and left out.   *)
(***************************************************************************)
EXTENDS Integers, Sequences, FiniteSets, SequencesExt

CONSTANTS
  Keys,          \* what a query is told apart by: client, name and type
  Window,        \* pairWindow: how long an RPZ line waits for its reply
  BatchSize,     \* batchSize: events that make a transaction
  MaxLines,      \* bound on the lines logged
  MaxTicks,      \* bound on the pauses longer than Window
  MaxRotations,  \* bound on the rotations
  MaxCrashes     \* bound on the runs killed

ASSUME IngestAssumption ==
  /\ Window \in Nat /\ BatchSize \in Nat \ {0} /\ MaxLines \in Nat
  /\ MaxTicks \in Nat /\ MaxRotations \in Nat /\ MaxCrashes \in Nat

VARIABLES
  \* unbound and logrotate
  written,    \* all lines: [kind, key, ts, by], by the RPZ line that applies
  live,       \* unbound.log
  copies,     \* the rotated logs, oldest first; the last one is unbound.log.1
  rotating,   \* logrotate has copied the log and not truncated it yet
  clock,      \* time
  asked,      \* for each key, the RPZ line whose reply is being written, or 0
  \* the database
  cursor,     \* ingest_state of the live log
  counted,    \* how often each line was counted
  labelled,   \* the lines stored with a policy
  \* the run
  pc,         \* "idle", "head", "open" or "read"
  size,       \* the live log's size when the run looked
  head,       \* its first line then, 0 if it had none
  todo,       \* what is left to read: copy 0 is the live log, 1 is .1, ...
  text,       \* the rotated copy that is open
  pos,        \* how far the open file is read
  batch,      \* the events not stored yet
  pending,    \* the RPZ lines without a reply yet
  \* history
  unread,     \* rotations since a run has ended
  orderly,    \* see Orderliness below
  named,      \* no rotation met a cursor saved without a first line
  crashes     \* runs killed

logVars == <<written, live, copies, rotating, clock, asked>>
dbVars == <<cursor, counted, labelled>>
runVars == <<pc, size, head, todo, text, pos, batch, pending>>
vars == <<logVars, dbVars, runVars, unread, orderly, named, crashes>>

Lines == 1..MaxLines
NoCursor == [offset |-> 0, head |-> -1]

TypeOK ==
  /\ written \in Seq([kind: {"rpz", "reply"}, key: Keys, ts: Nat, by: 0..MaxLines])
  /\ Len(written) <= MaxLines
  /\ live \in Seq(Lines)
  /\ copies \in Seq(Seq(Lines))
  /\ rotating \in BOOLEAN
  /\ clock \in Nat
  /\ asked \in [Keys -> 0..MaxLines]
  /\ cursor \in [offset: Nat, head: 0..MaxLines] \cup {NoCursor}
  /\ counted \in [Lines -> Nat]
  /\ labelled \subseteq Lines
  /\ pc \in {"idle", "head", "open", "read"}
  /\ size \in Nat
  /\ head \in 0..MaxLines
  /\ todo \in Seq([copy: Nat, from: Nat])
  /\ text \in Seq(Lines)
  /\ pos \in Nat
  /\ batch \subseteq [line: Lines, at: Nat, policy: BOOLEAN]
  /\ pending \subseteq [key: Keys, ts: Nat, at: Nat]
  /\ unread \in Nat
  /\ orderly \in BOOLEAN
  /\ named \in BOOLEAN
  /\ crashes \in 0..MaxCrashes

Init ==
  /\ written = <<>> /\ live = <<>> /\ copies = <<>>
  /\ rotating = FALSE /\ clock = 0 /\ asked = [k \in Keys |-> 0]
  /\ cursor = NoCursor
  /\ counted = [i \in Lines |-> 0]
  /\ labelled = {}
  /\ pc = "idle" /\ size = 0 /\ head = 0 /\ todo = <<>> /\ text = <<>>
  /\ pos = 0 /\ batch = {} /\ pending = {}
  /\ unread = 0 /\ orderly = TRUE /\ named = TRUE /\ crashes = 0

-----------------------------------------------------------------------------
(* unbound and logrotate.                                                  *)

Append1(kind, k, by) ==
  /\ Len(written) < MaxLines
  /\ written' = Append(written, [kind |-> kind, key |-> k, ts |-> clock, by |-> by])
  /\ live' = Append(live, Len(written) + 1)
  /\ UNCHANGED <<copies, rotating, clock, dbVars, runVars, unread, orderly, named, crashes>>

\* A filtered query: the RPZ line first, its reply soon after, with lines of
\* other queries in between.
LogRPZ(k) ==
  /\ asked[k] = 0
  /\ Append1("rpz", k, 0)
  /\ asked' = [asked EXCEPT ![k] = Len(written) + 1]

LogReply(k) ==
  /\ Append1("reply", k, asked[k])
  /\ asked' = [asked EXCEPT ![k] = 0]

\* A while passes; the replies still missing by now are never written.
Tick ==
  /\ clock < MaxTicks * (Window + 1)
  /\ clock' = clock + Window + 1
  /\ asked' = [k \in Keys |-> 0]
  /\ UNCHANGED <<written, live, copies, rotating, dbVars, runVars, unread,
                 orderly, named, crashes>>

\* Orderliness.  What the ingester needs of the others to keep its count, and
\* cannot check: logrotate does not work while it runs, and a run ends between
\* two rotations (not before the first run, which reads every copy).
CopyLog ==
  /\ ~rotating
  /\ Len(copies) < MaxRotations
  /\ live # <<>>
  /\ copies' = Append(copies, live)
  /\ rotating' = TRUE
  /\ orderly' = /\ orderly /\ pc = "idle"
                /\ cursor = NoCursor \/ unread = 0
  /\ UNCHANGED <<written, live, clock, asked, dbVars, runVars, unread, named, crashes>>

TruncateLog ==
  /\ rotating
  /\ live' = <<>>
  /\ rotating' = FALSE
  /\ unread' = unread + 1
  /\ orderly' = (orderly /\ pc = "idle")
  /\ named' = (named /\ cursor.head # 0)
  /\ UNCHANGED <<written, copies, clock, asked, dbVars, runVars, crashes>>

-----------------------------------------------------------------------------
(* A run.                                                                  *)

\* Run: the size of the live log ...
Begin ==
  /\ pc = "idle"
  /\ pc' = "head"
  /\ size' = Len(live)
  /\ orderly' = (orderly /\ ~rotating)
  /\ UNCHANGED <<logVars, dbVars, head, todo, text, pos, batch, pending, unread,
                 named, crashes>>

\* firstLine: 0 for a log without a complete line.
FirstLine == IF live = <<>> THEN 0 ELSE live[1]

CopyNamed(i) == copies[Len(copies) + 1 - i]

\* The log was truncated since the cursor was saved.
Rotated == size < cursor.offset \/ (cursor.head # 0 /\ cursor.head # FirstLine)

\* Mutant: what was appended before the rotation is forgotten.
ToReadLiveOnly ==
  IF cursor = NoCursor
  THEN [i \in 1..Len(copies) + 1 |-> [copy |-> Len(copies) + 1 - i, from |-> 0]]
  ELSE <<[copy |-> 0, from |-> IF Rotated THEN 0 ELSE cursor.offset]>>

\* The first run reads every copy, oldest first; after a rotation the tail of
\* .1 comes first; and always the live log.
ToRead ==
  IF cursor = NoCursor
  THEN [i \in 1..Len(copies) + 1 |-> [copy |-> Len(copies) + 1 - i, from |-> 0]]
  ELSE IF ~Rotated THEN <<[copy |-> 0, from |-> cursor.offset]>>
  ELSE IF copies # <<>> /\ Len(CopyNamed(1)) > cursor.offset
  THEN <<[copy |-> 1, from |-> cursor.offset], [copy |-> 0, from |-> 0]>>
  ELSE <<[copy |-> 0, from |-> 0]>>

\* ... then its first line and, by the cursor, which files to read.
Decide ==
  /\ pc = "head"
  /\ pc' = "open"
  /\ head' = FirstLine
  /\ todo' = ToRead
  /\ UNCHANGED <<logVars, dbVars, size, text, pos, batch, pending, unread,
                 orderly, named, crashes>>

OnLive == Head(todo).copy = 0

Open ==
  /\ pc = "open"
  /\ pc' = "read"
  /\ text' = IF OnLive THEN <<>> ELSE CopyNamed(Head(todo).copy)
  /\ pos' = Head(todo).from
  /\ UNCHANGED <<logVars, dbVars, size, head, todo, batch, pending, unread,
                 orderly, named, crashes>>

OpenFile == IF OnLive THEN live ELSE text

\* AddBatch: events, counts and, on the live log, the cursor, all at once.
Store(events, offset) ==
  /\ counted' = [i \in Lines |->
                   IF \E e \in events : e.line = i THEN counted[i] + 1 ELSE counted[i]]
  /\ labelled' = labelled \cup {e.line : e \in {f \in events : f.policy}}
  /\ cursor' = IF OnLive THEN [offset |-> offset, head |-> head] ELSE cursor

\* Mutant: offsets count from one.
LineStartOffByOne == pos - 1

\* Where the line at hand starts.
LineStart == pos

\* Mutant: an RPZ line waits for its reply for ever.
PendingForEver(i) ==
  LET l == written[i]
      others == {p \in pending : p.key # l.key}
  IN  IF l.kind = "rpz"
      THEN others \cup {[key |-> l.key, ts |-> l.ts, at |-> LineStart]}
      ELSE others

\* line: the RPZ lines still waiting once line i is read ...
PendingAfter(i) ==
  LET l == written[i]
      others == {p \in pending : p.key # l.key}
  IN  IF l.kind = "rpz"
      THEN others \cup {[key |-> l.key, ts |-> l.ts, at |-> LineStart]}
      ELSE {p \in others : l.ts - p.ts <= Window}

\* ... and the events to store.
BatchAfter(i) ==
  LET l == written[i]
      explained == \E p \in pending : p.key = l.key /\ l.ts - p.ts <= Window
  IN  IF l.kind = "rpz" THEN batch
      ELSE batch \cup {[line |-> i, at |-> LineStart, policy |-> explained]}

ReadLine ==
  /\ pc = "read"
  /\ pos < Len(OpenFile)
  /\ LET i == OpenFile[pos + 1] IN
     /\ pending' = PendingAfter(i)
     /\ IF Cardinality(BatchAfter(i)) >= BatchSize /\ PendingAfter(i) = {}
        THEN Store(BatchAfter(i), pos + 1) /\ batch' = {}
        ELSE batch' = BatchAfter(i) /\ UNCHANGED dbVars
  /\ pos' = pos + 1
  /\ UNCHANGED <<logVars, pc, size, head, todo, text, unread, orderly, named, crashes>>

\* Mutant: an RPZ line without its reply is passed over.
EndOfRead == pos

\* On the live log, stop before the first RPZ line without its reply.
End ==
  IF OnLive /\ \E p \in pending : p.at < pos
  THEN CHOOSE a \in {p.at : p \in pending} : \A p \in pending : a <= p.at
  ELSE pos

\* Mutant: what lies behind that line is stored all the same.
KeptWithoutCut == batch

Kept == {e \in batch : e.at < End}

NoRun ==
  /\ pc' = "idle" /\ size' = 0 /\ head' = 0 /\ todo' = <<>> /\ text' = <<>>
  /\ pos' = 0 /\ batch' = {} /\ pending' = {}

EndOfFile ==
  /\ pc = "read"
  /\ pos >= Len(OpenFile)
  /\ Store(Kept, End)
  /\ IF Tail(todo) = <<>>
     THEN NoRun /\ unread' = 0
     ELSE /\ pc' = "open"
          /\ todo' = Tail(todo)
          /\ batch' = {} /\ pending' = {}
          /\ UNCHANGED <<size, head, text, pos, unread>>
  /\ UNCHANGED <<logVars, orderly, named, crashes>>

\* The run is killed, or AddBatch fails and it gives up.
Crash ==
  /\ pc # "idle"
  /\ crashes < MaxCrashes
  /\ crashes' = crashes + 1
  /\ NoRun
  /\ UNCHANGED <<logVars, dbVars, unread, orderly, named>>

-----------------------------------------------------------------------------
Log == Tick \/ \E k \in Keys : LogRPZ(k) \/ LogReply(k)
Rotate == CopyLog \/ TruncateLog
Run == Begin \/ Decide \/ Open \/ ReadLine \/ EndOfFile

Next == Log \/ Rotate \/ Run \/ Crash

Spec == Init /\ [][Next]_vars

\* The timer starts a run every five minutes, and a run goes on.
FairSpec == Spec /\ WF_vars(Run)

-----------------------------------------------------------------------------
(* Correctness.                                                            *)

Replies == {i \in 1..Len(written) : written[i].kind = "reply"}

\* No line is counted twice, by no run and no two runs.  A killed run counts
\* twice what it had stored of a rotated copy, so there must be none.
CountedOnce ==
  orderly /\ (crashes = 0 \/ copies = <<>>) =>
    \A i \in Lines : counted[i] <= 1

\* The lines the next run reads.
Ahead ==
  CASE cursor = NoCursor -> Lines
    [] cursor # NoCursor /\ unread = 0 ->
         ToSet(SubSeq(live, cursor.offset + 1, Len(live)))
    [] OTHER -> ToSet(live) \cup
         ToSet(SubSeq(CopyNamed(1), cursor.offset + 1, Len(CopyNamed(1))))

OnDisk == ToSet(live) \cup UNION {ToSet(copies[c]) : c \in DOMAIN copies}

\* Between runs, every reply in a log file is counted or still ahead, killed
\* runs or not.
AllCountedOrAhead ==
  \A i \in Replies \cap OnDisk : counted[i] > 0 \/ i \in Ahead

NothingLost == orderly /\ named /\ pc = "idle" => AllCountedOrAhead

\* A filtered query is stored with its policy if its RPZ line is in the same
\* file and no other RPZ line comes between the two.
Paired(i) == counted[i] > 0 /\ written[i].by # 0 => i \in labelled
SameFile(i) ==
  \E f \in {live} \cup ToSet(copies) : {i, written[i].by} \subseteq ToSet(f)
Undivided(i) ==
  \A j \in written[i].by + 1 .. i - 1 : written[j].kind # "rpz"

PolicyKept ==
  orderly /\ named =>
    \A i \in Replies : SameFile(i) /\ Undivided(i) => Paired(i)

\* A reply is counted in the end, once a reply has been logged more than
\* Window after it: no RPZ line before it is waited for any longer.  (What is
\* logged while logrotate is at work can be truncated unread.)
EventuallyCounted ==
  \A i \in Lines :
    (/\ ~rotating /\ i \in Replies \cap OnDisk
     /\ \E j \in Replies \cap OnDisk : written[j].ts > written[i].ts + Window)
      ~> (counted[i] > 0 \/ ~(orderly /\ named))

-----------------------------------------------------------------------------
(* What the documents and comments promise and the code does not keep.     *)

\* events.go:50 "a crash or a second run can neither lose nor double-count a
\* line".
NeverCountedTwice == orderly => \A i \in Lines : counted[i] <= 1
=============================================================================
