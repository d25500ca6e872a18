---------------------------- MODULE IngestProofs ----------------------------
(***************************************************************************)
(* Proofs about Ingest, for any keys, window and batch size and any number *)
(* of lines, pauses, rotations and killed runs: a reply is counted once,   *)
(* or is in what the next run reads, and has the policy of its RPZ line.   *)
(***************************************************************************)
EXTENDS Ingest, FiniteSetTheorems, WellFoundedInduction, TLAPS

-----------------------------------------------------------------------------
(* The log files.                                                          *)

\* Lines before the live log's first.
Base == Len(written) - Len(live)

\* The live log ends with the line logged last and misses none before it.
LiveOK ==
  /\ Len(live) <= Len(written)
  /\ \A j \in 1..Len(live) : live[j] = Base + j

\* logrotate has the copy it makes, and the log has grown since.
Copying ==
  rotating =>
    /\ copies # <<>>
    /\ Len(copies[Len(copies)]) <= Len(live)
    /\ \A j \in 1..Len(copies[Len(copies)]) : copies[Len(copies)][j] = live[j]

Settled == {c \in 1..Len(copies) : rotating => c < Len(copies)}

CopiesOK ==
  /\ \A c \in 1..Len(copies) : \A j \in 1..Len(copies[c]) : copies[c][j] <= Len(written)
  /\ \A c \in Settled : \A j \in 1..Len(copies[c]) : copies[c][j] <= Base
  /\ \A c, d \in 1..Len(copies) : c < d =>
       \A j \in 1..Len(copies[c]), k \in 1..Len(copies[d]) : copies[c][j] < copies[d][k]
  /\ \A c \in 1..Len(copies) :
       \A j, k \in 1..Len(copies[c]) : j < k => copies[c][j] < copies[c][k]

LogOK == LiveOK /\ Copying /\ CopiesOK

\* What a run has of them.
RunOK ==
  /\ pc \in {"open", "read"} => todo # <<>>
  /\ \A t \in 1..Len(todo) : todo[t].copy <= Len(copies)
  /\ \A j \in 1..Len(text) : text[j] <= Len(written)
  /\ pc # "read" => batch = {} /\ pending = {}

LineType == [kind: {"rpz", "reply"}, key: Keys, ts: Nat, by: 0..MaxLines]
LogFile == Seq(Lines)
Entry == [copy: Nat, from: Nat]
Event == [line: Lines, at: Nat, policy: BOOLEAN]
Waiting == [key: Keys, ts: Nat, at: Nat]
Cursor == [offset: Nat, head: 0..MaxLines]

LogTyped ==
  /\ written \in Seq(LineType)
  /\ Len(written) <= MaxLines
  /\ live \in LogFile
  /\ copies \in Seq(LogFile)
  /\ rotating \in BOOLEAN
  /\ clock \in Nat
  /\ asked \in [Keys -> 0..MaxLines]

DbTyped ==
  /\ cursor \in Cursor \cup {NoCursor}
  /\ counted \in [Lines -> Nat]
  /\ labelled \subseteq Lines

RunTyped ==
  /\ pc \in {"idle", "head", "open", "read"}
  /\ size \in Nat
  /\ head \in 0..MaxLines
  /\ todo \in Seq(Entry)
  /\ text \in LogFile
  /\ pos \in Nat
  /\ batch \subseteq Event
  /\ pending \subseteq Waiting

RestTyped ==
  /\ unread \in Nat
  /\ orderly \in BOOLEAN
  /\ named \in BOOLEAN
  /\ crashes \in 0..MaxCrashes

TypeInv == LogTyped /\ DbTyped /\ RunTyped /\ RestTyped /\ LogOK /\ RunOK

-----------------------------------------------------------------------------
(* Where a run is.                                                         *)

\* The log by its number: 0 is the live one.
File(n) == IF n = 0 THEN live ELSE CopyNamed(n)
Numbers == 0..Len(copies)
Busy == pc \in {"open", "read"}

\* The files that are left to read and how far they have been.
Left == {todo[t].copy : t \in 1..Len(todo)}
Order ==
  /\ Busy => todo[Len(todo)].copy = 0
  /\ Busy => \A t, u \in 1..Len(todo) : t < u => todo[t].copy > todo[u].copy
  /\ Busy => \A t \in 1..Len(todo) : todo[t].from <= Len(File(todo[t].copy))
  /\ Busy => head = 0 \/ (live # <<>> /\ head = live[1])
  /\ pc = "read" =>
       /\ OpenFile = File(Head(todo).copy)
       /\ Head(todo).from <= pos /\ pos <= Len(OpenFile)
       /\ \A e \in batch : e.at < pos /\ e.line = OpenFile[e.at + 1]
       /\ \A p \in pending : p.at < pos
  /\ Busy => ~rotating
  /\ pc = "head" => size <= Len(live)

\* An orderly run does not meet logrotate.
Calm == rotating => pc = "idle"
OrderInv == orderly => Calm /\ Order

\* What the cursor says of the log: that it is the one it was saved for,
AtLive ==
  /\ cursor.offset <= Len(live)
  /\ cursor.head = 0 \/ (live # <<>> /\ cursor.head = live[1])
  /\ pc = "head" => cursor.offset <= size
  /\ rotating => cursor.offset <= Len(CopyNamed(1))

\* or that it has been rotated once.
AtCopy ==
  /\ unread > 0 /\ copies # <<>> /\ ~rotating
  /\ cursor.offset <= Len(CopyNamed(1))
  /\ named => cursor.head # 0
  /\ cursor.head <= Base

\* A rotation waits for a run to end.
OneRotation == cursor # NoCursor /\ rotating => unread = 0

-----------------------------------------------------------------------------
(* Nothing is lost.                                                        *)

IsReply(i) == written[i].kind = "reply"
Done(f, from) == \A j \in 1..from : IsReply(f[j]) => counted[f[j]] > 0
Whole(n) == Done(File(n), Len(File(n)))

\* Behind the cursor all is counted.
SafeCursor ==
  cursor # NoCursor =>
    \/ /\ AtLive
       /\ Done(live, cursor.offset)
       /\ \A c \in Settled : Done(copies[c], Len(copies[c]))
    \/ /\ AtCopy
       /\ Done(CopyNamed(1), cursor.offset)
       /\ \A n \in 2..Len(copies) : Whole(n)

\* So is what a run has passed, or it is in the batch.
SafeRun ==
  Busy =>
    /\ \A n \in 1..Len(copies) : n \in Left \/ Whole(n)
    /\ \A t \in 1..Len(todo) : Done(File(todo[t].copy), todo[t].from)
    /\ pc = "read" => \A j \in 1..pos :
         IsReply(OpenFile[j]) =>
           \/ counted[OpenFile[j]] > 0
           \/ \E e \in batch : e.line = OpenFile[j] /\ e.at = j - 1

LossInv == orderly /\ named => OneRotation /\ SafeCursor /\ SafeRun

-----------------------------------------------------------------------------
(* Nothing is counted twice.                                               *)

Unharmed == orderly /\ (crashes = 0 \/ copies = <<>>)
Fresh(f, from) == \A j \in from + 1 .. Len(f) : counted[f[j]] = 0

\* Ahead of the cursor nothing is counted.
FreshCursor ==
  pc \in {"idle", "head"} \/ copies = <<>> =>
    IF cursor = NoCursor THEN \A n \in Numbers : Fresh(File(n), 0)
    ELSE \/ AtLive /\ Fresh(live, cursor.offset)
         \/ AtCopy /\ Fresh(CopyNamed(1), cursor.offset) /\ Fresh(live, 0)

\* Nor is what a run has still to read, or has put into the batch.
FreshRun ==
  /\ pc = "open" => \A t \in 1..Len(todo) : Fresh(File(todo[t].copy), todo[t].from)
  /\ pc = "read" =>
       /\ \A t \in 2..Len(todo) : Fresh(File(todo[t].copy), todo[t].from)
       /\ \A j \in 1..Len(OpenFile) :
            j > pos \/ (\E p \in pending : p.at < j) => counted[OpenFile[j]] = 0
       /\ \A e \in batch : counted[e.line] = 0

Once ==
  /\ OneRotation
  /\ \A i \in Lines : counted[i] <= 1
  /\ FreshCursor /\ FreshRun

LaterUncounted ==
  /\ \A i \in Lines : i > Len(written) => counted[i] = 0
  /\ \A e \in batch : e.line <= Len(written)

OnceInv == LaterUncounted /\ (Unharmed => Once)

-----------------------------------------------------------------------------
(* Types and log files.                                                    *)

LEMMA LeastNumber ==
  ASSUME NEW S \in SUBSET Nat, S # {}
  PROVE  \E m \in S : \A n \in S : m <= n
<1>1. PICK m \in S : \A n \in S : <<n, m>> \notin OpToRel(<, Nat)
  BY NatLessThanWellFounded, WFMin
<1>2. \A n \in S : ~(n < m)
  BY <1>1 DEF OpToRel
<1> QED BY <1>2

\* A read ends where it got to or before the first RPZ line still waiting.
LEMMA EndOf ==
  ASSUME pos \in Nat, \A p \in pending : p.at \in Nat
  PROVE  /\ End \in Nat /\ End <= pos
         /\ ~OnLive => End = pos
         /\ OnLive => \A p \in pending : End <= p.at \/ pos <= p.at
         /\ End # pos => \E p \in pending : p.at = End
<1>1. CASE OnLive /\ \E p \in pending : p.at < pos
  <2>1. {p.at : p \in pending} \in SUBSET Nat /\ {p.at : p \in pending} # {}
    BY <1>1
  <2>2. \E a \in {p.at : p \in pending} : \A p \in pending : a <= p.at
    <3>1. PICK m \in {p.at : p \in pending} : \A n \in {p.at : p \in pending} : m <= n
      BY <2>1, LeastNumber
    <3> QED BY <3>1
  <2>3. End \in {p.at : p \in pending} /\ \A p \in pending : End <= p.at
    BY <1>1, <2>2 DEF End
  <2>4. PICK p \in pending : p.at < pos
    BY <1>1
  <2> QED BY <1>1, <2>3, <2>4
<1>2. CASE ~(OnLive /\ \E p \in pending : p.at < pos)
  <2>1. End = pos
    BY <1>2 DEF End
  <2> QED BY <1>2, <2>1
<1> QED BY <1>1, <1>2

LEMMA LogFileFacts ==
  ASSUME NEW f \in LogFile
  PROVE  Len(f) \in Nat /\ \A j \in 1..Len(f) : f[j] \in Lines /\ f[j] \in Nat
<1>1. Len(f) \in Nat /\ \A j \in 1..Len(f) : f[j] \in Lines
  BY DEF LogFile
<1> QED BY <1>1, IngestAssumption DEF Lines

LEMMA EmptyLogFile == <<>> \in LogFile
BY DEF LogFile

LEMMA FirstLineType == LogTyped => FirstLine \in 0..MaxLines
<1> SUFFICES ASSUME LogTyped PROVE FirstLine \in 0..MaxLines
  OBVIOUS
<1>1. CASE live = <<>>
  BY <1>1, IngestAssumption DEF FirstLine
<1>2. CASE live # <<>>
  <2>1. live[1] \in Lines
    BY <1>2 DEF LogTyped, LogFile
  <2> QED BY <1>2, <2>1, IngestAssumption DEF FirstLine, Lines
<1> QED BY <1>1, <1>2

LEMMA CopyType ==
  ASSUME TypeInv, NEW n \in 1..Len(copies)
  PROVE  /\ CopyNamed(n) \in LogFile
         /\ \A j \in 1..Len(CopyNamed(n)) : CopyNamed(n)[j] <= Len(written)
<1>1. copies \in Seq(LogFile) /\ Len(copies) + 1 - n \in 1..Len(copies)
  BY DEF TypeInv, LogTyped
<1> QED BY <1>1 DEF CopyNamed, TypeInv, LogOK, CopiesOK

LEMMA ToReadType ==
  ASSUME TypeInv
  PROVE  /\ ToRead \in Seq(Entry) /\ ToRead # <<>>
         /\ \A t \in 1..Len(ToRead) : ToRead[t].copy <= Len(copies)
<1>1. Len(copies) \in Nat
  BY DEF TypeInv, LogTyped
<1>2. CASE cursor = NoCursor
  <2> DEFINE F == [i \in 1..Len(copies) + 1 |-> [copy |-> Len(copies) + 1 - i, from |-> 0]]
  <2>1. \A i \in 1..Len(copies) + 1 :
          [copy |-> Len(copies) + 1 - i, from |-> 0] \in Entry
    BY <1>1 DEF Entry
  <2>2. F \in Seq(Entry) /\ Len(F) = Len(copies) + 1
    BY <1>1, <2>1
  <2>3. \A t \in 1..Len(F) : F[t].copy <= Len(copies)
    BY <1>1, <2>2
  <2>4. ToRead = F
    BY <1>2 DEF ToRead
  <2>5. Len(F) # 0
    BY <1>1, <2>2
  <2> QED BY <2>2, <2>3, <2>4, <2>5
<1>3. CASE cursor # NoCursor
  <2>1. cursor.offset \in Nat
    BY <1>3 DEF TypeInv, DbTyped, Cursor
  <2>2. copies # <<>> => 1 <= Len(copies)
    BY <1>1 DEF TypeInv, LogTyped
  <2>3. [copy |-> 0, from |-> cursor.offset] \in Entry
          /\ [copy |-> 1, from |-> cursor.offset] \in Entry
          /\ [copy |-> 0, from |-> 0] \in Entry
    BY <2>1 DEF Entry
  <2>4. CASE ToRead = <<[copy |-> 0, from |-> cursor.offset]>>
    BY <1>1, <2>3, <2>4
  <2>5. CASE ToRead = <<[copy |-> 1, from |-> cursor.offset], [copy |-> 0, from |-> 0]>>
             /\ copies # <<>>
    BY <1>1, <2>2, <2>3, <2>5
  <2>6. CASE ToRead = <<[copy |-> 0, from |-> 0]>>
    BY <1>1, <2>3, <2>6
  <2> QED BY <1>3, <2>4, <2>5, <2>6 DEF ToRead
<1> QED BY <1>2, <1>3

LEMMA TypeInit == Init => TypeInv
<1> SUFFICES ASSUME Init PROVE TypeInv
  OBVIOUS
<1>1. LogTyped
  <2>1. Len(<<>>) = 0 /\ <<>> \in Seq(LineType) /\ <<>> \in Seq(LogFile)
    OBVIOUS
  <2>2. asked \in [Keys -> 0..MaxLines]
    BY IngestAssumption DEF Init
  <2>3. Len(written) = 0 /\ 0 <= MaxLines
    BY <2>1, IngestAssumption DEF Init
  <2> QED BY <2>1, <2>2, <2>3, EmptyLogFile DEF Init, LogTyped
<1>2. DbTyped /\ RunTyped /\ RestTyped
  BY IngestAssumption DEF Init, DbTyped, RunTyped, RestTyped, LogFile
<1>3. Len(<<>>) = 0
  OBVIOUS
<1>4. LiveOK /\ Copying /\ RunOK
  BY <1>3 DEF Init, LiveOK, Copying, RunOK
<1>5. CopiesOK
  BY <1>3 DEF Init, CopiesOK, Settled
<1> QED BY <1>1, <1>2, <1>4, <1>5 DEF TypeInv, LogOK

LEMMA TypeAppend ==
  ASSUME TypeInv, NEW kind \in {"rpz", "reply"}, NEW k \in Keys, NEW by \in 0..MaxLines,
         Append1(kind, k, by), asked' \in [Keys -> 0..MaxLines]
  PROVE  TypeInv'
<1> DEFINE line == [kind |-> kind, key |-> k, ts |-> clock, by |-> by]
<1>0. UNCHANGED <<copies, rotating, clock, dbVars, runVars, unread, orderly, named, crashes>>
  BY DEF Append1
<1>1. line \in LineType
  BY DEF TypeInv, LogTyped, LineType
<1> HIDE DEF line
<1>2. written \in Seq(LineType) /\ Len(written) < MaxLines /\ written' = Append(written, line)
  BY DEF Append1, TypeInv, LogTyped, line
<1>3. written' \in Seq(LineType) /\ Len(written') = Len(written) + 1
        /\ Len(written') <= MaxLines
  BY <1>1, <1>2, IngestAssumption
<1>4. Len(written) + 1 \in Lines
  BY <1>2, IngestAssumption DEF Lines
<1>5. live' = Append(live, Len(written) + 1) /\ live \in Seq(Lines)
  BY DEF Append1, TypeInv, LogTyped, LogFile
<1>6. /\ live' \in Seq(Lines) /\ Len(live') = Len(live) + 1
      /\ \A j \in 1..Len(live) : live'[j] = live[j]
      /\ live'[Len(live) + 1] = Len(written) + 1
  BY <1>4, <1>5
<1>7. Len(written) \in Nat /\ Len(live) \in Nat
  BY <1>2, <1>5
<1>8. LogTyped'
  BY <1>0, <1>3, <1>6 DEF TypeInv, LogTyped, LogFile
<1>9. DbTyped' /\ RunTyped' /\ RestTyped'
  BY <1>0 DEF dbVars, runVars, TypeInv, DbTyped, RunTyped, RestTyped
<1>10. LiveOK'
  <2>1. Base' = Base
    BY <1>3, <1>6, <1>7 DEF Base
  <2>2. ASSUME NEW j \in 1..Len(live') PROVE live'[j] = Base + j
    <3>1. CASE j \in 1..Len(live)
      BY <1>6, <3>1 DEF TypeInv, LogOK, LiveOK
    <3>2. CASE j = Len(live) + 1
      BY <1>6, <1>7, <3>2 DEF Base
    <3> QED BY <1>6, <1>7, <3>1, <3>2
  <2> QED BY <1>3, <1>6, <1>7, <2>1, <2>2 DEF TypeInv, LogOK, LiveOK
<1>11. Base' = Base /\ Settled' = Settled
  BY <1>0, <1>3, <1>6, <1>7 DEF Base, Settled
<1>12. Copying'
  <2> SUFFICES ASSUME rotating PROVE Copying'
    BY <1>0 DEF Copying
  <2>1. copies \in Seq(LogFile) /\ copies # <<>>
    BY DEF TypeInv, LogTyped, LogOK, Copying
  <2>2. copies[Len(copies)] \in LogFile
    BY <2>1
  <2>3. Len(copies[Len(copies)]) \in Nat
    BY <2>2 DEF LogFile
  <2> QED BY <1>0, <1>6, <1>7, <2>1, <2>3 DEF TypeInv, LogOK, Copying
<1>13. CopiesOK'
  <2>1. \A c \in 1..Len(copies) : \A j \in 1..Len(copies[c]) : copies[c][j] \in Nat
    BY LogFileFacts DEF TypeInv, LogTyped
  <2> QED BY <1>0, <1>3, <1>7, <1>11, <2>1, SMTT(60) DEF TypeInv, LogOK, CopiesOK
<1>14. RunOK'
  <2>1. \A j \in 1..Len(text) : text[j] \in Nat
    BY LogFileFacts DEF TypeInv, RunTyped
  <2> QED BY <1>0, <1>3, <1>7, <2>1 DEF runVars, TypeInv, RunOK
<1> QED BY <1>8, <1>9, <1>10, <1>12, <1>13, <1>14 DEF TypeInv, LogOK

LEMMA TypeLog ==
  ASSUME TypeInv, Log
  PROVE  TypeInv'
<1>1. CASE Tick
  <2>1. clock' \in Nat /\ asked' \in [Keys -> 0..MaxLines]
    BY <1>1, IngestAssumption DEF Tick, TypeInv, LogTyped
  <2> QED BY <1>1, <2>1
       DEF Tick, dbVars, runVars, TypeInv, LogTyped, DbTyped, RunTyped, RestTyped,
           LogOK, LiveOK, Copying, CopiesOK, Settled, Base, RunOK
<1>2. ASSUME NEW k \in Keys, LogRPZ(k) PROVE TypeInv'
  <2>1. asked' \in [Keys -> 0..MaxLines]
    BY <1>2, IngestAssumption DEF LogRPZ, Append1, TypeInv, LogTyped
  <2> QED BY <1>2, <2>1, TypeAppend, IngestAssumption DEF LogRPZ
<1>3. ASSUME NEW k \in Keys, LogReply(k) PROVE TypeInv'
  <2>1. asked' \in [Keys -> 0..MaxLines] /\ asked[k] \in 0..MaxLines
    BY <1>3, IngestAssumption DEF LogReply, TypeInv, LogTyped
  <2> QED BY <1>3, <2>1, TypeAppend, IngestAssumption DEF LogReply
<1> QED BY <1>1, <1>2, <1>3 DEF Log

LEMMA TypeCopyLog ==
  ASSUME TypeInv, CopyLog
  PROVE  TypeInv'
<1>0. UNCHANGED <<written, live, clock, asked, dbVars, runVars, unread, named, crashes>>
        /\ ~rotating /\ rotating' = TRUE
  BY DEF CopyLog
<1>1. copies \in Seq(LogFile) /\ live \in LogFile /\ copies' = Append(copies, live)
  BY DEF CopyLog, TypeInv, LogTyped
<1>2. /\ copies' \in Seq(LogFile) /\ Len(copies') = Len(copies) + 1 /\ Len(copies) \in Nat
      /\ \A c \in 1..Len(copies) : copies'[c] = copies[c]
      /\ copies'[Len(copies) + 1] = live
  BY <1>1
<1>3. LogTyped' /\ DbTyped' /\ RunTyped'
  BY <1>0, <1>2 DEF dbVars, runVars, TypeInv, LogTyped, DbTyped, RunTyped
<1>4. RestTyped'
  BY <1>0 DEF CopyLog, TypeInv, RestTyped
<1>5. RunOK'
  <2>1. \A t \in 1..Len(todo) : todo[t].copy \in Nat
    <3>1. \A t \in 1..Len(todo) : todo[t] \in Entry
      BY DEF TypeInv, RunTyped
    <3> QED BY <3>1 DEF Entry
  <2> QED BY <1>0, <1>2, <2>1 DEF runVars, TypeInv, RunOK
<1>6. LiveOK' /\ Base' = Base
  BY <1>0 DEF TypeInv, LogOK, LiveOK, Base
<1>7. Copying'
  <2>1. Len(live) \in Nat /\ copies' # <<>>
    BY <1>1, <1>2, LogFileFacts
  <2>2. Len(copies') = Len(copies) + 1 /\ copies'[Len(copies) + 1] = live
    BY <1>2
  <2>3. copies'[Len(copies')] = live'
    BY <1>0, <2>2
  <2> QED BY <1>0, <2>1, <2>3 DEF Copying
<1>8. Settled = 1..Len(copies) /\ Settled' = 1..Len(copies)
  BY <1>0, <1>2 DEF Settled
<1>9. CopiesOK'
  <2>0. Base \in Nat /\ Len(live) \in Nat /\ Len(written) \in Nat
    BY LogFileFacts DEF TypeInv, LogTyped, LogOK, LiveOK, Base
  <2>1. \A j \in 1..Len(live) : live[j] <= Len(written) /\ live[j] > Base
    BY <2>0 DEF TypeInv, LogOK, LiveOK, Base
  <2>2. \A c \in 1..Len(copies) : \A j \in 1..Len(copies[c]) : copies[c][j] \in Nat
    BY <1>1, LogFileFacts
  <2>3. \A c \in 1..Len(copies) : \A j \in 1..Len(copies[c]) : copies[c][j] <= Base
    BY <1>8 DEF TypeInv, LogOK, CopiesOK
  <2>4. \A j \in 1..Len(live) : live[j] \in Nat
    BY <1>1, LogFileFacts
  <2>5. \A c \in 1..Len(copies') : c \in 1..Len(copies) \/ copies'[c] = live
    <3>1. \A c \in 1..Len(copies') : c \in 1..Len(copies) \/ c = Len(copies) + 1
      BY <1>2
    <3> QED BY <1>2, <3>1
  <2>6. ASSUME NEW c \in 1..Len(copies'), NEW d \in 1..Len(copies'), c < d,
               NEW j \in 1..Len(copies'[c]), NEW k \in 1..Len(copies'[d])
        PROVE  copies'[c][j] < copies'[d][k]
    <3>1. c \in 1..Len(copies) /\ copies'[c] = copies[c]
      BY <1>2, <2>6
    <3>2. CASE d \in 1..Len(copies)
      <4>1. copies'[d] = copies[d]
        BY <1>2, <3>2
      <4> QED BY <2>6, <3>1, <3>2, <4>1 DEF TypeInv, LogOK, CopiesOK
    <3>3. CASE copies'[d] = live
      BY <2>0, <2>1, <2>2, <2>3, <2>4, <3>1, <3>3, SMTT(60)
    <3> QED BY <2>5, <3>2, <3>3
  <2>7. ASSUME NEW c \in 1..Len(copies'),
               NEW j \in 1..Len(copies'[c]), NEW k \in 1..Len(copies'[c]), j < k
        PROVE  copies'[c][j] < copies'[c][k]
    <3>1. CASE copies'[c] = live
      BY <2>0, <2>7, <3>1 DEF TypeInv, LogOK, LiveOK
    <3>2. CASE c \in 1..Len(copies)
      <4>1. copies'[c] = copies[c]
        BY <1>2, <3>2
      <4> QED BY <2>7, <3>2, <4>1 DEF TypeInv, LogOK, CopiesOK
    <3> QED BY <2>5, <3>1, <3>2
  <2>8. \A c \in 1..Len(copies') : \A j \in 1..Len(copies'[c]) :
             copies'[c][j] <= Len(written)
    BY <1>2, <2>1, <2>5 DEF TypeInv, LogOK, CopiesOK
  <2>9. \A c \in Settled' : \A j \in 1..Len(copies'[c]) : copies'[c][j] <= Base
    BY <1>2, <1>8, <2>3
  <2> QED BY <1>0, <1>6, <2>6, <2>7, <2>8, <2>9 DEF CopiesOK
<1> QED BY <1>3, <1>4, <1>5, <1>6, <1>7, <1>9 DEF TypeInv, LogOK

LEMMA TypeTruncateLog ==
  ASSUME TypeInv, TruncateLog
  PROVE  TypeInv'
<1>0. /\ UNCHANGED <<written, copies, clock, asked, dbVars, runVars, crashes>>
      /\ rotating /\ live' = <<>> /\ rotating' = FALSE
      /\ unread' = unread + 1 /\ orderly' \in BOOLEAN /\ named' \in BOOLEAN
  BY DEF TruncateLog
<1>1. LogTyped' /\ DbTyped' /\ RunTyped' /\ RestTyped'
  <2>1. LogTyped'
    BY <1>0, EmptyLogFile DEF TypeInv, LogTyped
  <2>2. DbTyped' /\ RunTyped'
    BY <1>0 DEF dbVars, runVars, TypeInv, DbTyped, RunTyped
  <2>3. RestTyped'
    BY <1>0 DEF TypeInv, RestTyped
  <2> QED BY <2>1, <2>2, <2>3
<1>2. Len(live') = 0 /\ Len(written) \in Nat
  BY <1>0 DEF TypeInv, LogTyped
<1>3. LiveOK' /\ Copying' /\ Base' = Len(written)
  BY <1>0, <1>2 DEF LiveOK, Copying, Base
<1>4. CopiesOK'
  BY <1>0, <1>3 DEF TypeInv, LogOK, CopiesOK, Settled
<1>5. RunOK'
  BY <1>0 DEF runVars, TypeInv, RunOK
<1> QED BY <1>1, <1>3, <1>4, <1>5 DEF TypeInv, LogOK

\* The log stays as it is.
LEMMA SameLog ==
  ASSUME TypeInv, UNCHANGED logVars
  PROVE  LogTyped' /\ LogOK' /\ Base' = Base /\ \A n : CopyNamed(n)' = CopyNamed(n)
BY DEF TypeInv, logVars, LogTyped, LogOK, LiveOK, Copying, CopiesOK, Settled, Base, CopyNamed

\* The line at hand.
LEMMA LineAtHand ==
  ASSUME TypeInv, pc = "read", pos < Len(OpenFile)
  PROVE  /\ OpenFile \in LogFile /\ OpenFile[pos + 1] \in Lines
         /\ OpenFile[pos + 1] \in 1..Len(written)
         /\ pos + 1 \in 1..Len(OpenFile)
         /\ written[OpenFile[pos + 1]] \in LineType
<1>1. OpenFile \in LogFile /\ pos \in Nat /\ written \in Seq(LineType)
  BY DEF OpenFile, TypeInv, LogTyped, RunTyped
<1>2. pos + 1 \in 1..Len(OpenFile) /\ OpenFile[pos + 1] \in Lines
  BY <1>1, LogFileFacts
<1>3. OpenFile[pos + 1] <= Len(written)
  <2>1. CASE OnLive
    BY <1>1, <1>2, <2>1, LogFileFacts
       DEF OpenFile, TypeInv, LogOK, LiveOK, Base
  <2>2. CASE ~OnLive
    BY <1>2, <2>2 DEF OpenFile, TypeInv, RunOK
  <2> QED BY <2>1, <2>2
<1>4. OpenFile[pos + 1] \in 1..Len(written)
  BY <1>1, <1>2, <1>3, IngestAssumption DEF Lines
<1> QED BY <1>1, <1>2, <1>4

LEMMA StoreType ==
  ASSUME TypeInv, NEW events, events \subseteq Event,
         NEW offset \in Nat, Store(events, offset)
  PROVE  DbTyped'
<1>1. counted' \in [Lines -> Nat]
  BY DEF Store, TypeInv, DbTyped
<1>2. labelled' \subseteq Lines
  BY DEF Store, TypeInv, DbTyped, Event
<1>3. cursor' \in Cursor \cup {NoCursor}
  BY DEF Store, TypeInv, DbTyped, RunTyped, Cursor
<1> QED BY <1>1, <1>2, <1>3 DEF DbTyped

LEMMA AfterType ==
  ASSUME TypeInv, NEW i \in Lines, written[i] \in LineType
  PROVE  PendingAfter(i) \subseteq Waiting /\ BatchAfter(i) \subseteq Event
<1>1. written[i].key \in Keys /\ written[i].ts \in Nat
  BY DEF LineType
<1>2. pos \in Nat /\ pending \subseteq Waiting /\ batch \subseteq Event
  BY DEF TypeInv, RunTyped
<1>3. [key |-> written[i].key, ts |-> written[i].ts, at |-> LineStart] \in Waiting
  BY <1>1, <1>2 DEF Waiting, LineStart
<1>4. \A b \in BOOLEAN : [line |-> i, at |-> LineStart, policy |-> b] \in Event
  BY <1>2 DEF Event, LineStart
<1>5. PendingAfter(i) \subseteq Waiting
  BY <1>2, <1>3 DEF PendingAfter
<1>6. BatchAfter(i) \subseteq Event
  BY <1>2, <1>4 DEF BatchAfter
<1> QED BY <1>5, <1>6

LEMMA TypeReadLine ==
  ASSUME TypeInv, ReadLine
  PROVE  TypeInv'
<1> DEFINE i == OpenFile[pos + 1]
<1>1. pc = "read" /\ pos \in Nat /\ i \in Lines /\ written[i] \in LineType
  BY LineAtHand DEF ReadLine, TypeInv, RunTyped
<1> HIDE DEF i
<1>3. PendingAfter(i) \subseteq Waiting /\ BatchAfter(i) \subseteq Event
  BY <1>1, AfterType
<1>5. pending' = PendingAfter(i) /\ pos' = pos + 1
        /\ UNCHANGED <<logVars, pc, size, head, todo, text, unread, orderly, named, crashes>>
  BY DEF ReadLine, i
<1>6. DbTyped' /\ batch' \subseteq Event
  <2>1. CASE Store(BatchAfter(i), pos + 1) /\ batch' = {}
    BY <1>1, <1>3, <2>1, StoreType
  <2>2. CASE batch' = BatchAfter(i) /\ UNCHANGED dbVars
    BY <1>3, <2>2 DEF TypeInv, DbTyped, dbVars
  <2> QED BY <2>1, <2>2 DEF ReadLine, i
<1>7. RunTyped' /\ RestTyped'
  BY <1>1, <1>3, <1>5, <1>6 DEF TypeInv, RunTyped, RestTyped
<1>8. RunOK'
  BY <1>1, <1>5 DEF TypeInv, RunOK, logVars
<1> QED BY <1>5, <1>6, <1>7, <1>8, SameLog DEF TypeInv

LEMMA TypeEndOfFile ==
  ASSUME TypeInv, EndOfFile
  PROVE  TypeInv'
<1>1. /\ pc = "read" /\ todo # <<>> /\ todo \in Seq(Entry)
      /\ pos \in Nat /\ \A p \in pending : p.at \in Nat
  BY DEF EndOfFile, TypeInv, RunTyped, RunOK, Waiting
<1>2. Kept \subseteq Event
  BY DEF Kept, TypeInv, RunTyped
<1>3. DbTyped'
  BY <1>1, <1>2, EndOf, StoreType DEF EndOfFile
<1>4. UNCHANGED <<logVars, orderly, named, crashes>>
  BY DEF EndOfFile
<1>5. RunTyped' /\ RunOK' /\ RestTyped'
  <2>1. CASE Tail(todo) = <<>>
    <3>1. NoRun /\ unread' = 0
      BY <2>1 DEF EndOfFile
    <3> QED BY <1>4, <3>1, IngestAssumption
         DEF NoRun, TypeInv, RunTyped, RestTyped, RunOK, LogFile
  <2>2. CASE Tail(todo) # <<>>
    <3>1. /\ pc' = "open" /\ todo' = Tail(todo) /\ batch' = {} /\ pending' = {}
          /\ UNCHANGED <<size, head, text, pos, unread>>
      BY <2>2 DEF EndOfFile
    <3>2. /\ todo' \in Seq(Entry)
          /\ Len(todo') = Len(todo) - 1
          /\ \A t \in 1..Len(todo') : todo'[t] = todo[t + 1]
      BY <1>1, <3>1
    <3>3. RunTyped' /\ RestTyped'
      BY <1>4, <3>1, <3>2 DEF TypeInv, RunTyped, RestTyped
    <3>4. \A t \in 1..Len(todo') : todo'[t].copy <= Len(copies)
      BY <1>1, <3>2 DEF TypeInv, RunOK
    <3>5. RunOK'
      BY <1>4, <2>2, <3>1, <3>4 DEF TypeInv, RunOK, logVars
    <3> QED BY <3>3, <3>5
  <2> QED BY <2>1, <2>2
<1> QED BY <1>3, <1>4, <1>5, SameLog DEF TypeInv

LEMMA TypeRun ==
  ASSUME TypeInv, Run
  PROVE  TypeInv'
<1>1. CASE Begin
  <2>1. size' \in Nat
    BY <1>1, LogFileFacts DEF Begin, TypeInv, LogTyped
  <2>2. DbTyped' /\ RunTyped' /\ RestTyped'
    BY <1>1, <2>1 DEF Begin, dbVars, TypeInv, DbTyped, RunTyped, RestTyped
  <2>3. RunOK'
    BY <1>1 DEF Begin, logVars, TypeInv, RunOK
  <2> QED BY <1>1, <2>2, <2>3, SameLog DEF Begin, TypeInv
<1>2. CASE Decide
  <2>1. RunTyped'
    BY <1>2, FirstLineType, ToReadType DEF Decide, TypeInv, RunTyped
  <2>2. DbTyped' /\ RestTyped'
    BY <1>2 DEF Decide, dbVars, TypeInv, DbTyped, RestTyped
  <2>3. RunOK'
    BY <1>2, ToReadType DEF Decide, logVars, TypeInv, RunOK
  <2> QED BY <1>2, <2>1, <2>2, <2>3, SameLog DEF Decide, TypeInv
<1>3. CASE Open
  <2>1. todo # <<>> /\ todo \in Seq(Entry) /\ Len(copies) \in Nat
    BY <1>3 DEF Open, TypeInv, LogTyped, RunTyped, RunOK
  <2>2. Head(todo) \in Entry /\ Head(todo).copy <= Len(copies)
    BY <2>1 DEF TypeInv, RunOK
  <2>3. text' \in LogFile /\ \A j \in 1..Len(text') : text'[j] <= Len(written)
    <3>1. CASE OnLive
      BY <1>3, <3>1 DEF Open, LogFile
    <3>2. CASE ~OnLive
      <4>1. Head(todo).copy \in 1..Len(copies)
        BY <2>1, <2>2, <3>2 DEF OnLive, Entry
      <4> QED BY <1>3, <3>2, <4>1, CopyType DEF Open
    <3> QED BY <3>1, <3>2
  <2>4. RunTyped'
    BY <1>3, <2>2, <2>3 DEF Open, TypeInv, RunTyped, Entry
  <2>5. DbTyped' /\ RestTyped'
    BY <1>3 DEF Open, dbVars, TypeInv, DbTyped, RestTyped
  <2>6. RunOK'
    BY <1>3, <2>3 DEF Open, logVars, TypeInv, RunOK
  <2> QED BY <1>3, <2>4, <2>5, <2>6, SameLog DEF Open, TypeInv
<1> QED BY <1>1, <1>2, <1>3, TypeReadLine, TypeEndOfFile DEF Run

LEMMA TypeNext == TypeInv /\ [Next]_vars => TypeInv'
<1> SUFFICES ASSUME TypeInv, [Next]_vars PROVE TypeInv'
  OBVIOUS
<1>1. CASE Crash
  <2>1. DbTyped' /\ RunTyped' /\ RestTyped' /\ RunOK'
    BY <1>1, IngestAssumption
    DEF Crash, NoRun, dbVars, TypeInv, DbTyped, RunTyped, RestTyped, RunOK, LogFile
  <2> QED BY <1>1, <2>1, SameLog DEF Crash, TypeInv
<1>2. CASE UNCHANGED vars
  <2>1. DbTyped' /\ RunTyped' /\ RestTyped' /\ RunOK'
    BY <1>2 DEF vars, logVars, dbVars, runVars, TypeInv, DbTyped, RunTyped, RestTyped, RunOK
  <2> QED BY <1>2, <2>1, SameLog DEF vars, TypeInv
<1>3. CASE Rotate
  BY <1>3, TypeCopyLog, TypeTruncateLog DEF Rotate
<1> QED BY <1>1, <1>2, <1>3, TypeLog, TypeRun DEF Next

(***************************************************************************)
(* The variables have their types, whatever logrotate does to a run.       *)
(***************************************************************************)
THEOREM IngestTypes == Spec => []TypeOK
<1>1. TypeInv => TypeOK
  BY DEF TypeInv, LogTyped, DbTyped, RunTyped, RestTyped, TypeOK, LineType,
         LogFile, Entry, Event, Waiting, Cursor
<1> QED BY <1>1, TypeInit, TypeNext, PTL DEF Spec

-----------------------------------------------------------------------------
(* An orderly run.                                                         *)

LEMMA FileFacts ==
  ASSUME TypeInv, NEW n \in Numbers
  PROVE  /\ File(n) \in LogFile /\ Len(File(n)) \in Nat
         /\ \A j \in 1..Len(File(n)) : File(n)[j] \in 1..Len(written)
<1>1. CASE n = 0
  <2>1. File(n) = live /\ live \in LogFile
    BY <1>1 DEF File, TypeInv, LogTyped
  <2>2. Len(live) \in Nat /\ Len(written) \in Nat /\ \A j \in 1..Len(live) : live[j] \in Nat
    BY <2>1, LogFileFacts DEF TypeInv, LogTyped
  <2>3. \A j \in 1..Len(live) : live[j] \in 1..Len(written)
    BY <2>2 DEF TypeInv, LogOK, LiveOK, Base
  <2> QED BY <2>1, <2>2, <2>3
<1>2. CASE n # 0
  <2>1. n \in 1..Len(copies) /\ File(n) = CopyNamed(n)
    BY <1>2 DEF Numbers, File, TypeInv, LogTyped
  <2>2. File(n) \in LogFile /\ \A j \in 1..Len(File(n)) : File(n)[j] <= Len(written)
    BY <2>1, CopyType
  <2>3. Len(File(n)) \in Nat /\ \A j \in 1..Len(File(n)) : File(n)[j] \in Lines
    BY <2>2, LogFileFacts
  <2>4. Len(written) \in Nat
    BY DEF TypeInv, LogTyped
  <2> QED BY <2>2, <2>3, <2>4, IngestAssumption DEF Lines
<1> QED BY <1>1, <1>2

LEMMA CopyIndex ==
  ASSUME TypeInv, NEW n \in 1..Len(copies)
  PROVE  /\ Len(copies) + 1 - n \in 1..Len(copies)
         /\ CopyNamed(n) = copies[Len(copies) + 1 - n]
         /\ File(n) = CopyNamed(n)
BY DEF TypeInv, LogTyped, CopyNamed, File

LEMMA TodoFacts ==
  ASSUME TypeInv, Busy
  PROVE  /\ Len(todo) \in Nat /\ Len(todo) >= 1 /\ Head(todo) = todo[1]
         /\ \A t \in 1..Len(todo) :
              todo[t] \in Entry /\ todo[t].copy \in Numbers /\ todo[t].from \in Nat
<1>1. todo \in Seq(Entry) /\ todo # <<>> /\ Len(copies) \in Nat
  BY DEF TypeInv, LogTyped, RunTyped, RunOK, Busy
<1>2. Len(todo) \in Nat /\ Len(todo) >= 1 /\ Head(todo) = todo[1]
  BY <1>1
<1>3. \A t \in 1..Len(todo) : todo[t] \in Entry /\ todo[t].copy <= Len(copies)
  BY <1>1 DEF TypeInv, RunOK
<1>4. \A t \in 1..Len(todo) : todo[t].copy \in Numbers /\ todo[t].from \in Nat
  BY <1>1, <1>3 DEF Entry, Numbers
<1> QED BY <1>2, <1>3, <1>4

\* The live log is read last.
LEMMA LiveIsLast ==
  ASSUME TypeInv, OrderInv, orderly, Busy
  PROVE  /\ OnLive => Len(todo) = 1 /\ Tail(todo) = <<>> /\ Left = {0}
         /\ ~OnLive => Len(todo) > 1 /\ Tail(todo) # <<>> /\ Head(todo).copy \in 1..Len(copies)
<1>1. todo \in Seq(Entry) /\ todo # <<>> /\ Len(copies) \in Nat
  BY DEF TypeInv, LogTyped, RunTyped, RunOK, Busy
<1>2. Len(todo) \in Nat /\ Len(todo) >= 1 /\ Head(todo) = todo[1]
  BY <1>1
<1>3. /\ todo[Len(todo)].copy = 0
      /\ \A t, u \in 1..Len(todo) : t < u => todo[t].copy > todo[u].copy
  BY DEF OrderInv, Order
<1>4. Tail(todo) \in Seq(Entry) /\ Len(Tail(todo)) = Len(todo) - 1
  BY <1>1
<1>5. CASE OnLive
  <2>1. Len(todo) = 1
    <3>1. todo[1].copy = 0
      BY <1>2, <1>5 DEF OnLive
    <3>2. ASSUME Len(todo) > 1 PROVE FALSE
      <4>1. 1 \in 1..Len(todo) /\ Len(todo) \in 1..Len(todo)
        BY <1>2
      <4>2. todo[1].copy > todo[Len(todo)].copy
        BY <1>3, <3>2, <4>1
      <4> QED BY <1>3, <3>1, <4>2
    <3>3. Len(todo) \in Nat /\ Len(todo) >= 1
      BY <1>2
    <3>4. ~(Len(todo) > 1)
      BY <3>2
    <3> QED BY <3>3, <3>4
  <2>2. Left = {0}
    BY <1>3, <2>1 DEF Left
  <2>3. Tail(todo) = <<>>
    <3>1. \A q \in Seq(Entry) : Len(q) = 0 => q = <<>>
      OBVIOUS
    <3>2. Len(Tail(todo)) = 0
      BY <1>4, <2>1
    <3>3. Tail(todo) \in Seq(Entry)
      BY <1>4
    <3> QED BY <3>1, <3>2, <3>3, Zenon
  <2> QED BY <1>5, <2>1, <2>2, <2>3
<1>6. CASE ~OnLive
  <2>1. Len(todo) > 1
    BY <1>2, <1>3, <1>6 DEF OnLive
  <2>2. Head(todo).copy \in Numbers
    BY <1>2, TodoFacts
  <2> QED BY <1>1, <1>4, <1>6, <2>1, <2>2 DEF OnLive, Numbers
<1> QED BY <1>5, <1>6

\* What another line leaves as it was.
LEMMA LogGrows ==
  ASSUME TypeInv, NEW kind, NEW k, NEW by, Append1(kind, k, by)
  PROVE  /\ Len(live') = Len(live) + 1
         /\ \A j \in 1..Len(live) : live'[j] = live[j]
         /\ live'[Len(live) + 1] = Len(written) + 1
         /\ Len(written') = Len(written) + 1
         /\ \A i \in 1..Len(written) : written'[i] = written[i]
         /\ Base' = Base /\ Settled' = Settled /\ Numbers' = Numbers
         /\ \A n \in 1..Len(copies) : CopyNamed(n)' = CopyNamed(n)
         /\ UNCHANGED <<copies, rotating, clock, dbVars, runVars, unread, orderly,
                        named, crashes>>
<1>1. UNCHANGED <<copies, rotating, clock, dbVars, runVars, unread, orderly, named, crashes>>
  BY DEF Append1
<1>2. live' = Append(live, Len(written) + 1) /\ live \in Seq(Lines)
  BY DEF Append1, TypeInv, LogTyped, LogFile
<1>3. /\ Len(live') = Len(live) + 1 /\ live'[Len(live) + 1] = Len(written) + 1
      /\ \A j \in 1..Len(live) : live'[j] = live[j]
  BY <1>2
<1>4. /\ Len(written') = Len(written) + 1
      /\ \A i \in 1..Len(written) : written'[i] = written[i]
  <2>1. written \in Seq(LineType)
    BY DEF TypeInv, LogTyped
  <2>2. PICK line : written' = Append(written, line)
    BY DEF Append1
  <2> QED BY <2>1, <2>2
<1>5. Len(live) \in Nat /\ Len(written) \in Nat
  BY LogFileFacts DEF TypeInv, LogTyped
<1>6. Base' = Base
  BY <1>3, <1>4, <1>5 DEF Base
<1>7. Settled' = Settled /\ Numbers' = Numbers
        /\ \A n \in 1..Len(copies) : CopyNamed(n)' = CopyNamed(n)
  BY <1>1 DEF Settled, Numbers, CopyNamed
<1> QED BY <1>1, <1>3, <1>4, <1>6, <1>7

LEMMA OrderLog ==
  ASSUME TypeInv, OrderInv, orderly, Log
  PROVE  Calm' /\ Order'
<1>0. Calm /\ Order /\ Len(live) \in Nat
  BY LogFileFacts DEF OrderInv, TypeInv, LogTyped
<1>1. CASE Tick
  BY <1>0, <1>1 DEF Tick, dbVars, runVars, Calm, Order, Busy, File, CopyNamed, OpenFile, OnLive
<1>2. ASSUME NEW kind, NEW k, NEW by, Append1(kind, k, by)
      PROVE  Calm' /\ Order'
  <2>0. /\ UNCHANGED <<copies, rotating, runVars>> /\ Busy' = Busy
        /\ Len(live') = Len(live) + 1
        /\ \A j \in 1..Len(live) : live'[j] = live[j]
    BY <1>2, LogGrows DEF runVars, Busy
  <2>1. UNCHANGED <<pc, size, head, todo, text, pos, batch, pending>>
    BY <2>0 DEF runVars
  <2>2. Calm'
    BY <1>0, <2>0, <2>1 DEF Calm
  <2>3. pc = "head" => size' <= Len(live')
    BY <1>0, <2>0, <2>1 DEF Order, TypeInv, RunTyped
  <2>4. ASSUME Busy PROVE Order'
    <3>1. \A t \in 1..Len(todo) : todo[t].from <= Len(File(todo[t].copy)')
      <4> SUFFICES ASSUME NEW t \in 1..Len(todo)
                   PROVE  todo[t].from <= Len(File(todo[t].copy)')
        OBVIOUS
      <4>1. todo[t].from <= Len(File(todo[t].copy)) /\ todo[t].from \in Nat
        BY <1>0, <2>4, TodoFacts DEF Order
      <4>2. File(todo[t].copy)' = IF todo[t].copy = 0 THEN live' ELSE File(todo[t].copy)
        BY <2>0, <2>1 DEF File, CopyNamed
      <4> QED BY <1>0, <2>0, <4>1, <4>2 DEF File
    <3>2. head' = 0 \/ (live' # <<>> /\ head' = live'[1])
      <4>1. live # <<>> => 1 \in 1..Len(live)
        BY <1>0 DEF TypeInv, LogTyped, LogFile
      <4>2. live' # <<>>
        BY <1>0, <2>0
      <4> QED BY <1>0, <2>0, <2>1, <2>4, <4>1, <4>2 DEF Order
    <3>3. ASSUME pc = "read"
          PROVE  /\ OpenFile' = File(Head(todo).copy)'
                 /\ pos <= Len(OpenFile')
                 /\ \A e \in batch : e.line = OpenFile'[e.at + 1]
      <4>1. /\ OpenFile = File(Head(todo).copy) /\ pos <= Len(OpenFile)
            /\ \A e \in batch : e.at < pos /\ e.line = OpenFile[e.at + 1]
        BY <1>0, <3>3 DEF Order
      <4>2. pos \in Nat /\ \A e \in batch : e.at \in Nat
        BY DEF TypeInv, RunTyped, Event
      <4>3. CASE OnLive
        <5>1. OpenFile' = live' /\ OpenFile = live /\ File(Head(todo).copy)' = live'
          BY <2>1, <4>3 DEF OpenFile, OnLive, File
        <5> QED BY <1>0, <2>0, <4>1, <4>2, <5>1
      <4>4. CASE ~OnLive
        <5>1. OpenFile' = OpenFile /\ File(Head(todo).copy)' = File(Head(todo).copy)
          BY <2>0, <2>1, <4>4 DEF OpenFile, OnLive, File, CopyNamed
        <5> QED BY <4>1, <5>1
      <4> QED BY <4>3, <4>4
    <3> QED BY <1>0, <2>0, <2>1, <2>4, <3>1, <3>2, <3>3 DEF Order, Busy
  <2>5. CASE ~Busy
    <3>1. ~Busy' /\ pc' # "read"
      BY <2>0, <2>1, <2>5 DEF Busy
    <3>2. Busy' = FALSE /\ (pc' = "head" => size' <= Len(live'))
      BY <2>1, <2>3, <3>1
    <3> QED BY <2>2, <3>1, <3>2 DEF Order
  <2> QED BY <2>2, <2>4, <2>5
<1> QED BY <1>1, <1>2 DEF Log, LogRPZ, LogReply

\* The files a run chooses.
LEMMA OrderDecide ==
  ASSUME TypeInv, OrderInv, orderly, Decide
  PROVE  Calm' /\ Order'
<1>0. /\ pc = "head" /\ pc' = "open" /\ todo' = ToRead /\ head' = FirstLine
      /\ UNCHANGED <<live, copies, rotating>>
  BY DEF Decide, logVars
<1>1. ~rotating /\ size <= Len(live) /\ size \in Nat /\ Len(live) \in Nat
        /\ Len(copies) \in Nat
  BY <1>0, LogFileFacts DEF OrderInv, Calm, Order, TypeInv, LogTyped, RunTyped
<1>2. head' = 0 \/ (live' # <<>> /\ head' = live'[1])
  BY <1>0 DEF FirstLine
<1>3. /\ todo'[Len(todo')].copy = 0
      /\ \A t, u \in 1..Len(todo') : t < u => todo'[t].copy > todo'[u].copy
      /\ \A t \in 1..Len(todo') : todo'[t].from <= Len(File(todo'[t].copy))
  <2>1. CASE cursor = NoCursor
    <3>1. ToRead = [i \in 1..Len(copies) + 1 |->
                      [copy |-> Len(copies) + 1 - i, from |-> 0]]
      BY <2>1 DEF ToRead
    <3>2. Len(ToRead) = Len(copies) + 1
      BY <1>1, <3>1
    <3>3. \A i \in 1..Len(copies) + 1 :
             ToRead[i].copy = Len(copies) + 1 - i /\ ToRead[i].from = 0
      BY <3>1
    <3>4. \A i \in 1..Len(copies) + 1 : Len(copies) + 1 - i \in Numbers
      BY <1>1 DEF Numbers
    <3>5. \A n \in Numbers : Len(File(n)) >= 0
      BY FileFacts
    <3> QED BY <1>0, <1>1, <3>2, <3>3, <3>4, <3>5
  <2>2. CASE cursor # NoCursor
    <3>0. cursor.offset \in Nat
      BY <2>2 DEF TypeInv, DbTyped, Cursor
    <3>1. CASE ~Rotated
      <4>1. ToRead = <<[copy |-> 0, from |-> cursor.offset]>>
        BY <2>2, <3>1 DEF ToRead
      <4>2. cursor.offset <= Len(live)
        BY <1>1, <3>0, <3>1 DEF Rotated
      <4>3. Len(ToRead) = 1 /\ ToRead[1].copy = 0 /\ ToRead[1].from = cursor.offset
        BY <4>1
      <4> QED BY <1>0, <4>2, <4>3 DEF File
    <3>2. CASE Rotated /\ copies # <<>> /\ Len(CopyNamed(1)) > cursor.offset
      <4>1. ToRead = <<[copy |-> 1, from |-> cursor.offset], [copy |-> 0, from |-> 0]>>
        BY <2>2, <3>2 DEF ToRead
      <4>2. /\ Len(ToRead) = 2 /\ ToRead[1].copy = 1 /\ ToRead[1].from = cursor.offset
            /\ ToRead[2].copy = 0 /\ ToRead[2].from = 0
        BY <4>1
      <4>3. Len(CopyNamed(1)) \in Nat
        <5>1. 1 \in 1..Len(copies)
          BY <1>1, <3>2 DEF TypeInv, LogTyped
        <5> QED BY <5>1, CopyType, LogFileFacts
      <4>4. cursor.offset <= Len(File(1)) /\ 0 <= Len(File(0))
        BY <1>1, <3>0, <3>2, <4>3 DEF File
      <4>5. \A t \in 1..2 : t = 1 \/ t = 2
        OBVIOUS
      <4> QED BY <1>0, <4>2, <4>4, <4>5
    <3>3. CASE Rotated /\ ~(copies # <<>> /\ Len(CopyNamed(1)) > cursor.offset)
      <4>1. ToRead = <<[copy |-> 0, from |-> 0]>>
        BY <2>2, <3>3 DEF ToRead
      <4>2. Len(ToRead) = 1 /\ ToRead[1].copy = 0 /\ ToRead[1].from = 0
        BY <4>1
      <4> QED BY <1>0, <1>1, <4>2 DEF File
    <3> QED BY <3>1, <3>2, <3>3
  <2> QED BY <2>1, <2>2
<1>4. \A n : File(n)' = File(n)
  BY <1>0 DEF File, CopyNamed
<1> QED BY <1>0, <1>1, <1>2, <1>3, <1>4 DEF Calm, Order, Busy

LEMMA OrderOpen ==
  ASSUME TypeInv, OrderInv, orderly, Open
  PROVE  Calm' /\ Order'
<1>0. /\ pc = "open" /\ pc' = "read" /\ pos' = Head(todo).from
      /\ text' = IF OnLive THEN <<>> ELSE CopyNamed(Head(todo).copy)
      /\ UNCHANGED <<live, copies, rotating, todo, head, batch, pending, size>>
  BY DEF Open, logVars
<1>1. OpenFile' = File(Head(todo).copy) /\ \A n : File(n)' = File(n)
  BY <1>0 DEF OpenFile, OnLive, File, CopyNamed
<1>2. batch' = {} /\ pending' = {} /\ Order /\ ~rotating
  BY <1>0 DEF TypeInv, RunOK, OrderInv, Order, Busy
<1>3. /\ Head(todo).from \in Nat
      /\ Head(todo).from <= Len(File(Head(todo).copy))
  BY <1>0, <1>2, TodoFacts DEF Order, Busy
<1> QED BY <1>0, <1>1, <1>2, <1>3 DEF Calm, Order, Busy

LEMMA OrderReadLine ==
  ASSUME TypeInv, OrderInv, orderly, ReadLine
  PROVE  Calm' /\ Order'
<1> DEFINE i == OpenFile[pos + 1]
<1>0. /\ pc = "read" /\ pos < Len(OpenFile) /\ pos' = pos + 1
      /\ pending' = PendingAfter(i)
      /\ batch' \in {{}, BatchAfter(i)}
      /\ UNCHANGED <<live, copies, rotating, pc, todo, head, text, size>>
  BY DEF ReadLine, logVars
<1>1. OpenFile' = OpenFile /\ \A n : File(n)' = File(n)
  BY <1>0 DEF OpenFile, OnLive, File, CopyNamed
<1>2. pos \in Nat /\ Len(OpenFile) \in Nat /\ Order /\ ~rotating
        /\ Head(todo).from \in Nat
  <2>1. Busy /\ Order
    BY <1>0 DEF Busy, OrderInv
  <2>2. ~rotating
    BY <2>1 DEF Order
  <2>3. Head(todo).from \in Nat
    BY <2>1, TodoFacts
  <2>4. pos \in Nat /\ Len(OpenFile) \in Nat
    BY <1>0, LineAtHand, LogFileFacts DEF TypeInv, RunTyped
  <2> QED BY <2>1, <2>2, <2>3, <2>4
<1>3. \A p \in pending' : p.at < pos + 1
  <2>1. \A p \in pending : p.at \in Nat /\ p.at < pos
    BY <1>0, <1>2 DEF Order, TypeInv, RunTyped, Waiting
  <2>2. \A p \in pending' : p \in pending \/ p.at = pos
    BY <1>0 DEF PendingAfter, LineStart
  <2> QED BY <1>2, <2>1, <2>2
<1>4. \A e \in batch' : e.at < pos + 1 /\ e.line = OpenFile[e.at + 1]
  <2>1. \A e \in batch : e.at \in Nat /\ e.at < pos /\ e.line = OpenFile[e.at + 1]
    BY <1>0, <1>2 DEF Order, TypeInv, RunTyped, Event
  <2>2. \A e \in batch' : e \in batch \/ (e.at = pos /\ e.line = i)
    BY <1>0 DEF BatchAfter, LineStart
  <2> QED BY <1>2, <2>1, <2>2
<1>5. pos' <= Len(OpenFile) /\ Head(todo).from <= pos'
  BY <1>0, <1>2 DEF Order
<1> QED BY <1>0, <1>1, <1>2, <1>3, <1>4, <1>5 DEF Calm, Order, Busy

LEMMA OrderEndOfFile ==
  ASSUME TypeInv, OrderInv, orderly, EndOfFile
  PROVE  Calm' /\ Order'
<1>0. pc = "read" /\ ~rotating /\ UNCHANGED <<live, copies, rotating>> /\ Order
  BY DEF EndOfFile, logVars, OrderInv, Order, Busy
<1>1. CASE Tail(todo) = <<>>
  <2>1. pc' = "idle"
    BY <1>1 DEF EndOfFile, NoRun
  <2> QED BY <1>0, <2>1 DEF Calm, Order, Busy
<1>2. CASE Tail(todo) # <<>>
  <2>1. pc' = "open" /\ todo' = Tail(todo) /\ UNCHANGED <<head, size>>
    BY <1>2 DEF EndOfFile
  <2>2. todo \in Seq(Entry) /\ todo # <<>>
    BY <1>0 DEF TypeInv, RunTyped, RunOK
  <2>3. /\ Len(todo') = Len(todo) - 1 /\ Len(todo) \in Nat /\ Len(todo') # 0
        /\ \A t \in 1..Len(todo') : todo'[t] = todo[t + 1]
    BY <1>2, <2>1, <2>2
  <2>4. todo'[Len(todo')].copy = 0
    BY <1>0, <2>3, SMTT(60) DEF Order, Busy
  <2>5. ASSUME NEW t \in 1..Len(todo'), NEW u \in 1..Len(todo'), t < u
        PROVE  todo'[t].copy > todo'[u].copy
    <3>1. t + 1 \in 1..Len(todo) /\ u + 1 \in 1..Len(todo) /\ t + 1 < u + 1
      BY <2>3, <2>5
    <3>2. todo[t + 1].copy > todo[u + 1].copy
      BY <1>0, <3>1 DEF Order, Busy
    <3> QED BY <2>3, <3>2
  <2>6. ASSUME NEW t \in 1..Len(todo')
        PROVE  todo'[t].from <= Len(File(todo'[t].copy))
    <3>1. t + 1 \in 1..Len(todo)
      BY <2>3
    <3>2. todo[t + 1].from <= Len(File(todo[t + 1].copy))
      BY <1>0, <3>1 DEF Order, Busy
    <3> QED BY <2>3, <3>2
  <2>7. \A n : File(n)' = File(n)
    BY <1>0 DEF File, CopyNamed
  <2>8. Busy /\ Busy' /\ pc' # "read" /\ pc' # "head"
    BY <1>0, <2>1 DEF Busy
  <2> QED BY <1>0, <2>1, <2>4, <2>5, <2>6, <2>7, <2>8 DEF Calm, Order
<1> QED BY <1>1, <1>2

LEMMA OrderNext == TypeInv /\ OrderInv /\ [Next]_vars => OrderInv'
<1> SUFFICES ASSUME TypeInv, OrderInv, [Next]_vars, orderly' PROVE Calm' /\ Order'
  BY DEF OrderInv
<1>1. CASE Log
  <2>1. orderly
    BY <1>1 DEF Log, Tick, LogRPZ, LogReply, Append1
  <2> QED BY <1>1, <2>1, OrderLog
<1>2. CASE Rotate
  <2>1. pc' = "idle"
    BY <1>2 DEF Rotate, CopyLog, TruncateLog, runVars
  <2> QED BY <2>1 DEF Calm, Order, Busy
<1>3. CASE Begin
  <2>1. pc' = "head" /\ ~rotating' /\ size' = Len(live') /\ Len(live) \in Nat
    BY <1>3, LogFileFacts DEF Begin, logVars, TypeInv, LogTyped
  <2> QED BY <1>3, <2>1 DEF Begin, logVars, Calm, Order, Busy
<1>4. CASE Decide
  BY <1>4, OrderDecide DEF Decide
<1>5. CASE Open
  BY <1>5, OrderOpen DEF Open
<1>6. CASE ReadLine
  BY <1>6, OrderReadLine DEF ReadLine
<1>7. CASE EndOfFile
  BY <1>7, OrderEndOfFile DEF EndOfFile
<1>8. CASE Crash
  <2>1. pc' = "idle"
    BY <1>8 DEF Crash, NoRun
  <2> QED BY <2>1 DEF Calm, Order, Busy
<1>9. CASE UNCHANGED vars
  BY <1>9 DEF vars, logVars, dbVars, runVars, OrderInv, Calm, Order, Busy, File,
              CopyNamed, OpenFile, OnLive
<1> QED BY <1>1, <1>2, <1>3, <1>4, <1>5, <1>6, <1>7, <1>8, <1>9 DEF Next, Run

LEMMA OrderInit == Init => OrderInv
BY DEF Init, OrderInv, Calm, Order, Busy

-----------------------------------------------------------------------------
(* The cursor and the log.                                                 *)

LEMMA CursorLog ==
  ASSUME TypeInv, NEW kind, NEW k, NEW by, Append1(kind, k, by), cursor # NoCursor
  PROVE  (AtLive => AtLive') /\ (AtCopy => AtCopy')
<1>0. /\ Len(live') = Len(live) + 1
      /\ \A j \in 1..Len(live) : live'[j] = live[j]
      /\ Base' = Base
      /\ \A n \in 1..Len(copies) : CopyNamed(n)' = CopyNamed(n)
      /\ UNCHANGED <<copies, rotating, cursor, pc, size, unread, named>>
  BY LogGrows DEF dbVars, runVars
<1>1. Len(live) \in Nat /\ cursor.offset \in Nat
  BY LogFileFacts DEF TypeInv, LogTyped, DbTyped, Cursor
<1>2. ASSUME AtLive PROVE AtLive'
  <2>1. rotating' => cursor'.offset <= Len(CopyNamed(1)')
    BY <1>0, <1>2 DEF AtLive, CopyNamed
  <2>2. live # <<>> => 1 \in 1..Len(live)
    BY <1>1 DEF TypeInv, LogTyped, LogFile
  <2>3. live' # <<>>
    BY <1>0, <1>1
  <2>4. cursor'.head = 0 \/ (live' # <<>> /\ cursor'.head = live'[1])
    BY <1>0, <1>2, <2>2, <2>3 DEF AtLive
  <2> QED BY <1>0, <1>1, <1>2, <2>1, <2>4 DEF AtLive
<1>3. ASSUME AtCopy PROVE AtCopy'
  BY <1>0, <1>3 DEF AtCopy, CopyNamed
<1> QED BY <1>2, <1>3

\* What the cursor was saved for becomes .1.
LEMMA CursorTruncated ==
  ASSUME TypeInv, cursor # NoCursor, pc = "idle", AtLive, TruncateLog
  PROVE  /\ AtCopy' /\ CopyNamed(1)' = CopyNamed(1)
         /\ 1 \in 1..Len(copies) /\ Len(CopyNamed(1)) \in Nat
         /\ cursor.offset <= Len(CopyNamed(1)) /\ Len(CopyNamed(1)) <= Len(live)
         /\ \A j \in 1..Len(CopyNamed(1)) : CopyNamed(1)[j] = live[j]
<1>0. /\ rotating /\ rotating' = FALSE /\ live' = <<>> /\ unread' = unread + 1
      /\ named' = (named /\ cursor.head # 0) /\ unread \in Nat
      /\ UNCHANGED <<written, copies, cursor>>
  BY DEF TruncateLog, TypeInv, RestTyped, dbVars
<1>1. Len(live) \in Nat /\ Len(copies) \in Nat /\ Len(written) \in Nat
  BY LogFileFacts DEF TypeInv, LogTyped
<1>2. copies # <<>>
  BY <1>0 DEF TypeInv, LogOK, Copying
<1>3. 1 \in 1..Len(copies) /\ CopyNamed(1) = copies[Len(copies)]
        /\ CopyNamed(1)' = CopyNamed(1)
  BY <1>0, <1>1, <1>2 DEF CopyNamed, TypeInv, LogTyped
<1>4. /\ Len(CopyNamed(1)) <= Len(live)
      /\ \A j \in 1..Len(CopyNamed(1)) : CopyNamed(1)[j] = live[j]
  BY <1>0, <1>3 DEF TypeInv, LogOK, Copying
<1>5. Len(CopyNamed(1)) \in Nat /\ cursor.offset <= Len(CopyNamed(1))
  BY <1>0, <1>3, CopyType, LogFileFacts DEF AtLive
<1>6. cursor.head <= Base'
  <2>1. Base' = Len(written)
    BY <1>0, <1>1 DEF Base
  <2>2. CASE cursor.head = 0
    BY <1>1, <2>1, <2>2
  <2>3. CASE live # <<>> /\ cursor.head = live[1]
    <3>1. 1 \in 1..Len(live)
      BY <2>3 DEF TypeInv, LogTyped, LogFile
    <3>2. live[1] <= Len(written)
      BY <1>1, <3>1 DEF TypeInv, LogOK, LiveOK, Base
    <3> QED BY <2>1, <2>3, <3>2
  <2> QED BY <2>2, <2>3 DEF AtLive
<1>7. AtCopy'
  <2>1. named' => cursor'.head # 0
    BY <1>0, Zenon
  <2>2. unread' > 0 /\ cursor'.offset <= Len(CopyNamed(1)') /\ cursor'.head <= Base'
    BY <1>0, <1>3, <1>5, <1>6
  <2> QED BY <1>0, <1>2, <2>1, <2>2 DEF AtCopy
<1> QED BY <1>3, <1>4, <1>5, <1>7

LEMMA CursorStays ==
  ASSUME UNCHANGED <<live, copies, rotating, written, cursor, unread, named>>,
         pc' = "head" => (pc = "head" /\ size' = size) \/ size' = Len(live)
  PROVE  (AtLive => AtLive') /\ (AtCopy => AtCopy')
BY DEF AtLive, AtCopy, CopyNamed, Base

-----------------------------------------------------------------------------
(* Nothing is lost.                                                        *)

\* Lines and what is counted of them stay.
Grown == \A i \in 1..Len(written) : written'[i] = written[i] /\ counted'[i] >= counted[i]

LEMMA DoneStays ==
  ASSUME TypeInv, TypeInv', Grown, NEW f, NEW g, NEW n \in Nat,
         \A j \in 1..n : f[j] \in 1..Len(written) /\ g[j] = f[j],
         Done(f, n)
  PROVE  \A j \in 1..n : written'[g[j]].kind = "reply" => counted'[g[j]] > 0
<1> SUFFICES ASSUME NEW j \in 1..n, written'[g[j]].kind = "reply"
             PROVE  counted'[g[j]] > 0
  OBVIOUS
<1> DEFINE i == f[j]
<1>1. g[j] = i /\ i \in 1..Len(written)
  OBVIOUS
<1> HIDE DEF i
<1>2. written'[i] = written[i] /\ counted'[i] >= counted[i]
  BY <1>1 DEF Grown
<1>3. i \in Lines
  BY <1>1, IngestAssumption DEF Lines, TypeInv, LogTyped
<1>4. counted[i] \in Nat /\ counted'[i] \in Nat
  BY <1>3 DEF TypeInv, DbTyped
<1>5. counted[i] > 0
  BY <1>1, <1>2 DEF Done, IsReply, i
<1> QED BY <1>1, <1>2, <1>4, <1>5

LEMMA StoreCounts ==
  ASSUME TypeInv, NEW events, events \subseteq Event,
         NEW offset, Store(events, offset)
  PROVE  /\ \A i \in Lines : counted'[i] >= counted[i]
         /\ \A e \in events : counted'[e.line] > 0
<1>1. counted \in [Lines -> Nat]
  BY DEF TypeInv, DbTyped
<1>2. \A i \in Lines : counted'[i] =
         IF \E e \in events : e.line = i THEN counted[i] + 1 ELSE counted[i]
  BY DEF Store
<1>3. \A i \in Lines : counted[i] \in Nat
  BY <1>1
<1>4. ASSUME NEW e \in events PROVE counted'[e.line] > 0
  <2>1. e.line \in Lines
    BY DEF Event
  <2>2. counted'[e.line] = counted[e.line] + 1
    BY <1>2, <2>1
  <2> QED BY <1>3, <2>1, <2>2
<1>5. \A i \in Lines : counted'[i] >= counted[i]
  BY <1>2, <1>3
<1> QED BY <1>4, <1>5

LEMMA WrittenLines == TypeInv => 1..Len(written) \subseteq Lines
BY IngestAssumption DEF TypeInv, LogTyped, Lines

\* The copies by their places, and by their names.
LEMMA AllSettled ==
  ASSUME TypeInv, ~rotating
  PROVE  /\ Settled = 1..Len(copies)
         /\ (\A c \in Settled : Done(copies[c], Len(copies[c]))) <=>
            (\A n \in 1..Len(copies) : Whole(n))
<1>0. Settled = 1..Len(copies) /\ Len(copies) \in Nat
  BY DEF Settled, TypeInv, LogTyped
<1>1. ASSUME \A c \in 1..Len(copies) : Done(copies[c], Len(copies[c])),
             NEW n \in 1..Len(copies)
      PROVE  Whole(n)
  BY <1>1, CopyIndex DEF Whole
<1>2. ASSUME \A n \in 1..Len(copies) : Whole(n), NEW c \in 1..Len(copies)
      PROVE  Done(copies[c], Len(copies[c]))
  <2>1. Len(copies) + 1 - c \in 1..Len(copies)
        /\ Len(copies) + 1 - (Len(copies) + 1 - c) = c
    BY <1>0
  <2>2. File(Len(copies) + 1 - c) = copies[c]
    BY <2>1, CopyIndex
  <2>3. Whole(Len(copies) + 1 - c)
    BY <1>2, <2>1
  <2> QED BY <2>2, <2>3 DEF Whole
<1> QED BY <1>0, <1>1, <1>2

LEMMA SafeCursorStays ==
  ASSUME TypeInv, TypeInv', SafeCursor, Grown,
         UNCHANGED <<live, copies, rotating, written, cursor, unread, named>>,
         pc' = "head" => (pc = "head" /\ size' = size) \/ size' = Len(live)
  PROVE  SafeCursor'
<1> SUFFICES ASSUME cursor # NoCursor PROVE SafeCursor'
  BY DEF SafeCursor
<1>0. cursor.offset \in Nat /\ Len(copies) \in Nat
  BY DEF TypeInv, DbTyped, LogTyped, Cursor
<1>1. CASE AtLive /\ Done(live, cursor.offset)
           /\ \A c \in Settled : Done(copies[c], Len(copies[c]))
  <2>1. AtLive'
    BY <1>1, CursorStays
  <2>2. Done(live, cursor.offset)'
    <3>1. live = File(0) /\ 0 \in Numbers
      BY <1>0 DEF File, Numbers
    <3>2. \A j \in 1..cursor.offset : live[j] \in 1..Len(written)
      BY <1>0, <1>1, <3>1, FileFacts DEF AtLive
    <3>3. \A j \in 1..cursor.offset :
             written'[live[j]].kind = "reply" => counted'[live[j]] > 0
      BY <1>0, <1>1, <3>2, DoneStays
    <3> QED BY <3>3 DEF Done, IsReply
  <2>3. ASSUME NEW c \in Settled PROVE Done(copies[c], Len(copies[c]))'
    <3>1. c \in 1..Len(copies) /\ Done(copies[c], Len(copies[c]))
      BY <1>1 DEF Settled
    <3>2. File(Len(copies) + 1 - c) = copies[c] /\ Len(copies) + 1 - c \in Numbers
      BY <1>0, <3>1 DEF File, CopyNamed, Numbers
    <3>3. Len(copies[c]) \in Nat
          /\ \A j \in 1..Len(copies[c]) : copies[c][j] \in 1..Len(written)
      BY <3>2, FileFacts
    <3>4. \A j \in 1..Len(copies[c]) :
             written'[copies[c][j]].kind = "reply" => counted'[copies[c][j]] > 0
      BY <3>1, <3>3, DoneStays
    <3> QED BY <3>4 DEF Done, IsReply
  <2>4. Settled' = Settled
    BY DEF Settled
  <2> QED BY <2>1, <2>2, <2>3, <2>4 DEF SafeCursor
<1>2. CASE AtCopy /\ Done(CopyNamed(1), cursor.offset)
           /\ \A n \in 2..Len(copies) : Whole(n)
  <2>1. AtCopy' /\ CopyNamed(1)' = CopyNamed(1)
    BY <1>2, CursorStays DEF CopyNamed
  <2>2. ASSUME NEW n \in Numbers, NEW m \in Nat, m <= Len(File(n)), Done(File(n), m)
        PROVE  \A j \in 1..m : written'[File(n)[j]].kind = "reply" => counted'[File(n)[j]] > 0
    <3>1. \A j \in 1..m : File(n)[j] \in 1..Len(written)
      BY <2>2, FileFacts
    <3> QED BY <2>2, <3>1, DoneStays
  <2>3. Done(CopyNamed(1), cursor.offset)'
    <3>1. 1 \in Numbers /\ CopyNamed(1) = File(1)
      BY <1>0, <1>2 DEF AtCopy, Numbers, File, TypeInv, LogTyped
    <3>2. cursor.offset <= Len(File(1)) /\ Done(File(1), cursor.offset)
      BY <1>2, <3>1 DEF AtCopy
    <3> QED BY <1>0, <2>1, <2>2, <3>1, <3>2 DEF Done, IsReply
  <2>4. ASSUME NEW n \in 2..Len(copies) PROVE Whole(n)'
    <3>1. n \in Numbers /\ File(n)' = File(n) /\ Len(File(n)) \in Nat /\ Whole(n)
      BY <1>0, <1>2, FileFacts DEF Numbers, File, CopyNamed
    <3> QED BY <2>2, <3>1 DEF Whole, Done, IsReply
  <2> QED BY <2>1, <2>3, <2>4 DEF SafeCursor
<1> QED BY <1>1, <1>2 DEF SafeCursor

Safe == OneRotation /\ SafeCursor /\ SafeRun

LEMMA SafeLog ==
  ASSUME TypeInv, TypeInv', OrderInv, orderly, Safe, Log
  PROVE  Safe'
<1>1. CASE Tick
  BY <1>1, SMTT(60) DEF Tick, dbVars, runVars, Safe, OneRotation, SafeCursor, SafeRun, Busy, AtLive,
              AtCopy, Base, Settled, Done, IsReply, Whole, Left, File, CopyNamed, OpenFile, OnLive
<1>2. ASSUME NEW kind, NEW k, NEW by, Append1(kind, k, by)
      PROVE  Safe'
  <2>0. /\ Len(live') = Len(live) + 1
        /\ \A j \in 1..Len(live) : live'[j] = live[j]
        /\ Base' = Base /\ Settled' = Settled /\ Numbers' = Numbers
        /\ \A n \in 1..Len(copies) : CopyNamed(n)' = CopyNamed(n)
        /\ UNCHANGED <<copies, rotating, dbVars, runVars, unread, orderly, named>>
    BY <1>2, LogGrows
  <2>1. UNCHANGED <<cursor, counted, pc, size, head, todo, text, pos, batch, pending>>
    BY <2>0 DEF runVars, dbVars
  <2>2. Len(live) \in Nat /\ Len(copies) \in Nat /\ Len(written) \in Nat
    BY LogFileFacts DEF TypeInv, LogTyped
  <2>3. Grown
    <3>1. \A i \in 1..Len(written) : written'[i] = written[i] /\ counted[i] \in Nat
      BY <1>2, LogGrows, WrittenLines DEF TypeInv, DbTyped
    <3> QED BY <2>1, <3>1 DEF Grown
  <2>4. ASSUME NEW n \in Numbers, NEW m \in Nat, m <= Len(File(n)), Done(File(n), m)
        PROVE  Done(File(n), m)'
    <3>1. \A j \in 1..m : File(n)[j] \in 1..Len(written) /\ File(n)'[j] = File(n)[j]
      <4>1. \A j \in 1..m : File(n)[j] \in 1..Len(written)
        BY <2>4, FileFacts
      <4>2. CASE n = 0
        BY <2>0, <2>2, <2>4, <4>1, <4>2 DEF File
      <4>3. CASE n # 0
        <5>1. n \in 1..Len(copies)
          BY <2>2, <4>3 DEF Numbers
        <5> QED BY <2>0, <4>1, <4>3, <5>1 DEF File
      <4> QED BY <4>2, <4>3
    <3>2. \A j \in 1..m : written'[File(n)'[j]].kind = "reply" => counted'[File(n)'[j]] > 0
      BY <2>3, <2>4, <3>1, DoneStays
    <3> QED BY <3>2 DEF Done, IsReply
  <2>5. ASSUME NEW n \in 1..Len(copies), Whole(n)
        PROVE  Whole(n)'
    <3>1. n \in Numbers /\ File(n)' = File(n) /\ Len(File(n)) \in Nat
      BY <2>0, <2>2, FileFacts DEF File, Numbers
    <3> QED BY <2>4, <2>5, <3>1 DEF Whole
  <2>6. SafeCursor'
    <3> SUFFICES ASSUME cursor # NoCursor PROVE SafeCursor'
      BY <2>1 DEF SafeCursor
    <3>0. cursor.offset \in Nat
      BY DEF TypeInv, DbTyped, Cursor
    <3>1. CASE /\ AtLive /\ Done(live, cursor.offset)
               /\ \A c \in Settled : Done(copies[c], Len(copies[c]))
      <4>1. AtLive'
        BY <1>2, <3>1, CursorLog
      <4>2. Done(live, cursor.offset)'
        <5>1. 0 \in Numbers /\ File(0) = live /\ File(0)' = live'
          BY <2>2 DEF Numbers, File
        <5>2. Done(File(0), cursor.offset) /\ cursor.offset <= Len(File(0))
          BY <3>1, <5>1 DEF AtLive
        <5>3. Done(File(0), cursor.offset)'
          BY <2>1, <2>4, <3>0, <5>1, <5>2
        <5> QED BY <2>1, <5>1, <5>3
      <4>3. ASSUME NEW c \in Settled PROVE Done(copies[c], Len(copies[c]))'
        <5>1. c \in 1..Len(copies) /\ Done(copies[c], Len(copies[c]))
          BY <3>1 DEF Settled
        <5>2. File(Len(copies) + 1 - c) = copies[c] /\ Len(copies) + 1 - c \in Numbers
          BY <2>2, <5>1 DEF File, CopyNamed, Numbers
        <5>3. Len(copies[c]) \in Nat
              /\ \A j \in 1..Len(copies[c]) : copies[c][j] \in 1..Len(written)
          BY <5>2, FileFacts
        <5>4. \A j \in 1..Len(copies[c]) :
                 written'[copies[c][j]].kind = "reply" => counted'[copies[c][j]] > 0
          BY <2>3, <5>1, <5>3, DoneStays
        <5> QED BY <2>0, <5>4 DEF Done, IsReply
      <4> QED BY <2>0, <4>1, <4>2, <4>3 DEF SafeCursor
    <3>2. CASE /\ AtCopy /\ Done(CopyNamed(1), cursor.offset)
               /\ \A n \in 2..Len(copies) : Whole(n)
      <4>1. AtCopy'
        BY <1>2, <3>2, CursorLog
      <4>2. Done(CopyNamed(1), cursor.offset)'
        <5>1. 1 \in Numbers /\ CopyNamed(1) = File(1) /\ File(1)' = CopyNamed(1)'
          BY <2>2, <3>2 DEF AtCopy, Numbers, File, TypeInv, LogTyped
        <5>2. cursor.offset <= Len(File(1)) /\ Done(File(1), cursor.offset)
          BY <3>2, <5>1 DEF AtCopy
        <5> QED BY <2>1, <2>4, <3>0, <5>1, <5>2
      <4>3. \A n \in 2..Len(copies) : Whole(n)'
        BY <2>2, <2>5, <3>2
      <4> QED BY <2>0, <4>1, <4>2, <4>3 DEF SafeCursor
    <3> QED BY <3>1, <3>2 DEF Safe, SafeCursor
  <2>7. SafeRun'
    <3> SUFFICES ASSUME Busy PROVE SafeRun'
      BY <2>1 DEF SafeRun, Busy
    <3>1. \A n \in 1..Len(copies) : n \in Left' \/ Whole(n)'
      BY <2>1, <2>5 DEF Safe, SafeRun, Left
    <3>2. ASSUME NEW t \in 1..Len(todo)
          PROVE  Done(File(todo[t].copy), todo[t].from)'
      <4>1. todo[t].copy \in Numbers /\ todo[t].from \in Nat
              /\ todo[t].from <= Len(File(todo[t].copy))
        BY TodoFacts DEF OrderInv, Order
      <4>2. Done(File(todo[t].copy), todo[t].from)
        BY DEF Safe, SafeRun
      <4>3. \A n \in Numbers : n = todo[t].copy =>
               Done(File(n), todo[t].from)'
        BY <2>1, <2>4, <4>1, <4>2
      <4> QED BY <2>1, <4>1, <4>3
    <3>3. ASSUME pc = "read", NEW j \in 1..pos, IsReply(OpenFile[j])'
          PROVE  counted[OpenFile'[j]] > 0
                   \/ \E e \in batch : e.line = OpenFile'[j] /\ e.at = j - 1
      <4>1. OpenFile = File(Head(todo).copy) /\ pos <= Len(OpenFile) /\ pos \in Nat
              /\ Head(todo).copy \in Numbers
        BY <3>3, TodoFacts DEF OrderInv, Order, Busy, TypeInv, RunTyped
      <4>2. OpenFile[j] \in 1..Len(written)
        <5>1. Len(OpenFile) \in Nat /\ \A x \in 1..Len(OpenFile) : OpenFile[x] \in 1..Len(written)
          BY <4>1, FileFacts
        <5> QED BY <4>1, <5>1
      <4>3. OpenFile'[j] = OpenFile[j]
        BY <2>0, <2>1, <2>2, <4>1 DEF OpenFile, OnLive, File
      <4>4. IsReply(OpenFile[j])
        BY <2>3, <3>3, <4>2, <4>3 DEF Grown, IsReply
      <4> QED BY <3>3, <4>3, <4>4 DEF Safe, SafeRun
    <3> QED BY <2>0, <2>1, <3>1, <3>2, <3>3 DEF SafeRun, Busy
  <2> QED BY <2>0, <2>1, <2>6, <2>7 DEF Safe, OneRotation
<1> QED BY <1>1, <1>2 DEF Log, LogRPZ, LogReply

\* logrotate leaves the cursor where it is: what was the live log is .1.
LEMMA SafeRotate ==
  ASSUME TypeInv, TypeInv', OrderInv, orderly', named', orderly /\ named => Safe, Rotate
  PROVE  Safe'
<1>0. /\ pc = "idle" /\ pc' = "idle" /\ Safe
      /\ UNCHANGED <<written, cursor, counted>>
  BY DEF Rotate, CopyLog, TruncateLog, runVars, dbVars
<1>1. Len(live) \in Nat /\ Len(copies) \in Nat /\ Len(written) \in Nat
  BY LogFileFacts DEF TypeInv, LogTyped
<1>2. cursor # NoCursor => cursor.offset \in Nat /\ cursor.head \in Nat
  BY IngestAssumption DEF TypeInv, DbTyped, Cursor
<1>3. CASE CopyLog
  <2>0. /\ ~rotating /\ rotating' /\ copies' = Append(copies, live)
        /\ UNCHANGED <<live, unread, named>>
    BY <1>3 DEF CopyLog
  <2>1. cursor = NoCursor \/ unread = 0
    BY <1>0, <1>3 DEF CopyLog
  <2>2. /\ Len(copies') = Len(copies) + 1 /\ copies'[Len(copies) + 1] = live
        /\ \A c \in 1..Len(copies) : copies'[c] = copies[c]
    BY <2>0 DEF TypeInv, LogTyped
  <2>3. CopyNamed(1)' = live /\ Settled' = 1..Len(copies) /\ Settled = 1..Len(copies)
    <3>1. CopyNamed(1)' = copies'[Len(copies') + 1 - 1]
      BY DEF CopyNamed
    <3>2. Len(copies') + 1 - 1 = Len(copies) + 1
      BY <1>1, <2>2
    <3>3. CopyNamed(1)' = live
      BY <2>2, <3>1, <3>2
    <3>4. Settled' = 1..Len(copies) /\ Settled = 1..Len(copies)
      <4>1. \A c : c \in Settled' <=> c \in 1..Len(copies)
        BY <1>1, <2>0, <2>2 DEF Settled
      <4>2. \A c : c \in Settled <=> c \in 1..Len(copies)
        BY <2>0 DEF Settled
      <4> QED BY <4>1, <4>2
    <3> QED BY <3>3, <3>4
  <2>4. SafeCursor'
    <3> SUFFICES ASSUME cursor # NoCursor PROVE SafeCursor'
      BY <1>0 DEF SafeCursor
    <3>1. /\ AtLive /\ Done(live, cursor.offset)
          /\ \A c \in Settled : Done(copies[c], Len(copies[c]))
      BY <1>0, <2>1 DEF Safe, SafeCursor, AtCopy
    <3>2. AtLive'
      BY <1>0, <2>0, <2>3, <3>1 DEF AtLive
    <3>3. Done(live, cursor.offset)' /\ \A c \in Settled' : Done(copies[c], Len(copies[c]))'
      BY <1>0, <2>0, <2>2, <2>3, <3>1 DEF Done, IsReply
    <3> QED BY <3>2, <3>3 DEF SafeCursor
  <2> QED BY <1>0, <2>0, <2>1, <2>4 DEF Safe, OneRotation, SafeRun, Busy
<1>4. CASE TruncateLog
  <2>0. /\ rotating /\ rotating' = FALSE /\ live' = <<>> /\ unread' = unread + 1
        /\ cursor.head # 0 /\ UNCHANGED copies /\ unread \in Nat
    BY <1>4 DEF TruncateLog, TypeInv, RestTyped
  <2>1. SafeCursor'
    <3> SUFFICES ASSUME cursor # NoCursor PROVE SafeCursor'
      BY <1>0 DEF SafeCursor
    <3>1. /\ AtLive /\ Done(live, cursor.offset)
          /\ \A c \in Settled : Done(copies[c], Len(copies[c]))
      BY <1>0, <2>0 DEF Safe, SafeCursor, AtCopy
    <3>2. AtCopy' /\ CopyNamed(1)' = CopyNamed(1)
      BY <1>0, <1>4, <3>1, CursorTruncated
    <3>3. \A j \in 1..cursor.offset : CopyNamed(1)[j] = live[j]
      BY <1>0, <1>2, <1>4, <3>1, CursorTruncated
    <3>4. Done(CopyNamed(1), cursor.offset)'
      BY <1>0, <3>1, <3>2, <3>3 DEF Done, IsReply
    <3>5. ASSUME NEW n \in 2..Len(copies) PROVE Whole(n)'
      <4>1. Len(copies) + 1 - n \in Settled
        BY <1>1, <2>0 DEF Settled
      <4>2. File(n)' = copies[Len(copies) + 1 - n]
        BY <1>1, <2>0 DEF File, CopyNamed
      <4> QED BY <1>0, <3>1, <4>1, <4>2 DEF Whole, Done, IsReply
    <3> QED BY <2>0, <3>2, <3>4, <3>5 DEF SafeCursor
  <2> QED BY <1>0, <2>0, <2>1 DEF Safe, OneRotation, SafeRun, Busy
<1> QED BY <1>3, <1>4 DEF Rotate

\* The files a run chooses hold all that is not counted.
LEMMA SafeDecide ==
  ASSUME TypeInv, TypeInv', OrderInv, orderly, named, Safe, Decide
  PROVE  Safe'
<1>0. /\ pc = "head" /\ pc' = "open" /\ todo' = ToRead
      /\ UNCHANGED <<written, live, copies, rotating, cursor, counted, size, unread, named>>
      /\ Busy' /\ pc' # "read"
  BY DEF Decide, logVars, dbVars, Busy
<1>1. /\ ~rotating /\ size \in Nat /\ Len(live) \in Nat
      /\ Len(copies) \in Nat
  BY <1>0, LogFileFacts DEF OrderInv, Calm, TypeInv, LogTyped, RunTyped
<1>2. Grown
  BY <1>0, WrittenLines DEF Grown, TypeInv, DbTyped
<1>3. SafeCursor'
  BY <1>0, <1>2, SafeCursorStays DEF Safe
<1>4. /\ \A n : File(n)' = File(n) /\ (Whole(n) => Whole(n)')
      /\ \A f, m : Done(f, m) => Done(f, m)'
      /\ Left' = {ToRead[t].copy : t \in 1..Len(ToRead)}
  BY <1>0 DEF File, CopyNamed, Whole, Done, IsReply, Left
<1>5. /\ \A n \in 1..Len(copies) : n \in Left' \/ Whole(n)
      /\ \A t \in 1..Len(ToRead) : Done(File(ToRead[t].copy), ToRead[t].from)
  <2>1. CASE cursor = NoCursor
    <3>1. ToRead = [i \in 1..Len(copies) + 1 |->
                      [copy |-> Len(copies) + 1 - i, from |-> 0]]
      BY <2>1 DEF ToRead
    <3>2. Len(ToRead) = Len(copies) + 1
      BY <1>1, <3>1
    <3>3. \A i \in 1..Len(copies) + 1 :
             ToRead[i].copy = Len(copies) + 1 - i /\ ToRead[i].from = 0
      BY <3>1
    <3>4. ASSUME NEW n \in 1..Len(copies) PROVE n \in Left'
      <4>1. /\ Len(copies) + 1 - n \in 1..Len(ToRead)
            /\ ToRead[Len(copies) + 1 - n].copy = n
        BY <1>1, <3>2, <3>3
      <4> QED BY <1>4, <4>1
    <3>5. \A f : Done(f, 0)
      BY DEF Done
    <3> QED BY <3>2, <3>3, <3>4, <3>5
  <2>2. CASE cursor # NoCursor
    <3>0. cursor.offset \in Nat /\ cursor.head \in Nat
      BY <2>2, IngestAssumption DEF TypeInv, DbTyped, Cursor
    <3>1. CASE /\ AtLive /\ Done(live, cursor.offset)
               /\ \A c \in Settled : Done(copies[c], Len(copies[c]))
      <4>1. ~Rotated
        BY <1>0, <1>1, <3>0, <3>1 DEF AtLive, Rotated, FirstLine
      <4>2. ToRead = <<[copy |-> 0, from |-> cursor.offset]>>
        BY <2>2, <4>1 DEF ToRead
      <4>3. Len(ToRead) = 1 /\ ToRead[1].copy = 0 /\ ToRead[1].from = cursor.offset
        BY <4>2
      <4>4. \A n \in 1..Len(copies) : Whole(n)
        BY <1>1, <3>1, AllSettled
      <4> QED BY <3>1, <4>3, <4>4 DEF File
    <3>2. CASE /\ AtCopy /\ Done(CopyNamed(1), cursor.offset)
               /\ \A n \in 2..Len(copies) : Whole(n)
      <4>1. Rotated
        <5>1. live # <<>> => 1 \in 1..Len(live)
          BY <1>1 DEF TypeInv, LogTyped, LogFile
        <5>2. live # <<>> => live[1] = Base + 1
          BY <5>1 DEF TypeInv, LogOK, LiveOK
        <5>3. Base \in Int /\ cursor.head # 0 /\ cursor.head <= Base
          BY <1>1, <3>2 DEF AtCopy, Base, TypeInv, LogTyped
        <5> QED BY <3>0, <5>2, <5>3 DEF Rotated, FirstLine
      <4>2. /\ 1 \in 1..Len(copies) /\ copies # <<>> /\ File(1) = CopyNamed(1)
            /\ Len(CopyNamed(1)) \in Nat /\ cursor.offset <= Len(CopyNamed(1))
        <5>1. 1 \in 1..Len(copies) /\ File(1) = CopyNamed(1) /\ 1 \in Numbers
          BY <1>1, <3>2 DEF AtCopy, File, TypeInv, LogTyped, Numbers
        <5> QED BY <3>2, <5>1, FileFacts DEF AtCopy
      <4>3. CASE Len(CopyNamed(1)) > cursor.offset
        <5>1. ToRead = <<[copy |-> 1, from |-> cursor.offset], [copy |-> 0, from |-> 0]>>
          BY <2>2, <4>1, <4>2, <4>3 DEF ToRead
        <5>2. /\ Len(ToRead) = 2 /\ ToRead[1].copy = 1 /\ ToRead[1].from = cursor.offset
              /\ ToRead[2].copy = 0 /\ ToRead[2].from = 0
          BY <5>1
        <5>3. 1 \in Left' /\ \A t \in 1..2 : t = 1 \/ t = 2
          BY <1>4, <5>2
        <5>4. Done(File(0), 0) /\ Done(File(1), cursor.offset)
          BY <3>2, <4>2 DEF Done
        <5>5. \A n \in 1..Len(copies) : n = 1 \/ n \in 2..Len(copies)
          BY <1>1
        <5> QED BY <3>2, <5>2, <5>3, <5>4, <5>5
      <4>4. CASE ~(Len(CopyNamed(1)) > cursor.offset)
        <5>1. ToRead = <<[copy |-> 0, from |-> 0]>>
          BY <2>2, <4>1, <4>2, <4>4 DEF ToRead
        <5>2. Len(ToRead) = 1 /\ ToRead[1].copy = 0 /\ ToRead[1].from = 0
          BY <5>1
        <5>3. Whole(1)
          BY <3>0, <3>2, <4>2, <4>4 DEF Whole
        <5>4. \A n \in 1..Len(copies) : n = 1 \/ n \in 2..Len(copies)
          BY <1>1
        <5> QED BY <3>2, <5>2, <5>3, <5>4 DEF Done
      <4> QED BY <4>3, <4>4
    <3> QED BY <2>2, <3>1, <3>2 DEF Safe, SafeCursor
  <2> QED BY <2>1, <2>2
<1>6. SafeRun'
  BY <1>0, <1>4, <1>5 DEF SafeRun
<1> QED BY <1>0, <1>1, <1>3, <1>6 DEF Safe, OneRotation

LEMMA SafeOpen ==
  ASSUME TypeInv, TypeInv', OrderInv, orderly, Safe, Open
  PROVE  Safe'
<1>0. /\ pc = "open" /\ pc' = "read" /\ pos' = Head(todo).from
      /\ text' = IF OnLive THEN <<>> ELSE CopyNamed(Head(todo).copy)
      /\ UNCHANGED <<written, live, copies, rotating, cursor, counted, todo, size, unread, named>>
      /\ Busy /\ Busy'
  BY DEF Open, logVars, dbVars, Busy
<1>1. OpenFile' = File(Head(todo).copy) /\ \A n : File(n)' = File(n)
  BY <1>0 DEF OpenFile, OnLive, File, CopyNamed
<1>2. Grown
  BY <1>0, WrittenLines DEF Grown, TypeInv, DbTyped
<1>3. SafeCursor'
  BY <1>0, <1>2, SafeCursorStays DEF Safe
<1>4. Done(File(Head(todo).copy), Head(todo).from)
  <2>1. 1 \in 1..Len(todo) /\ Head(todo) = todo[1]
    BY <1>0, TodoFacts
  <2> QED BY <1>0, <2>1 DEF Safe, SafeRun
<1>5. SafeRun'
  <2>1. \A n \in 1..Len(copies) : n \in Left' \/ Whole(n)'
    BY <1>0, <1>1 DEF Safe, SafeRun, Left, Whole, Done, IsReply
  <2>2. \A t \in 1..Len(todo) : Done(File(todo[t].copy), todo[t].from)'
    BY <1>0, <1>1 DEF Safe, SafeRun, Done, IsReply
  <2>3. \A j \in 1..pos' : IsReply(OpenFile[j])' => counted'[OpenFile'[j]] > 0
    BY <1>0, <1>1, <1>4 DEF Done, IsReply
  <2> QED BY <1>0, <2>1, <2>2, <2>3 DEF SafeRun
<1> QED BY <1>0, <1>3, <1>5 DEF Safe, OneRotation

LEMMA AllSettledLater ==
  ASSUME TypeInv, ~rotating, UNCHANGED <<live, copies>>,
         \A n \in 1..Len(copies) : Whole(n)', NEW c \in Settled'
  PROVE  Done(copies[c], Len(copies[c]))'
<1>1. Len(copies) \in Nat /\ c \in 1..Len(copies)
  BY DEF Settled, TypeInv, LogTyped
<1>2. PICK n \in 1..Len(copies) : n = Len(copies) + 1 - c /\ Len(copies) + 1 - n = c
  BY <1>1
<1>3. File(n)' = copies[c] /\ Whole(n)'
  BY <1>2 DEF File, CopyNamed
<1> QED BY <1>3 DEF Whole, Done, IsReply

LEMMA OpenLines ==
  ASSUME TypeInv, OrderInv, orderly, pc = "read"
  PROVE  /\ Len(OpenFile) \in Nat
         /\ \A j \in 1..Len(OpenFile) : OpenFile[j] \in 1..Len(written)
<1>1. OpenFile = File(Head(todo).copy) /\ Head(todo).copy \in Numbers
  BY TodoFacts DEF OrderInv, Order, Busy
<1> QED BY <1>1, FileFacts

\* What is counted stays counted while a run works.
LEMMA RunStays ==
  ASSUME TypeInv, TypeInv', OrderInv, orderly, Busy, SafeRun, Grown,
         UNCHANGED <<live, copies>>
  PROVE  /\ \A n \in 1..Len(copies) : n \in Left \/ Whole(n)'
         /\ \A t \in 1..Len(todo), n \in Numbers, m \in Nat :
              n = todo[t].copy /\ m = todo[t].from => Done(File(n), m)'
<1>1. ASSUME NEW n \in Numbers, NEW m \in Nat, m <= Len(File(n)), Done(File(n), m)
      PROVE  Done(File(n), m)'
  <2>1. \A j \in 1..m : File(n)[j] \in 1..Len(written)
    BY <1>1, FileFacts
  <2>2. \A j \in 1..m : written'[File(n)[j]].kind = "reply" => counted'[File(n)[j]] > 0
    BY <1>1, <2>1, DoneStays
  <2>3. File(n)' = File(n)
    BY DEF File, CopyNamed
  <2> QED BY <2>2, <2>3 DEF Done, IsReply
<1>2. ASSUME NEW n \in 1..Len(copies), Whole(n)
      PROVE  Whole(n)'
  <2>1. n \in Numbers /\ Len(File(n)) \in Nat /\ File(n)' = File(n)
    BY FileFacts DEF Numbers, File, CopyNamed, TypeInv, LogTyped
  <2> QED BY <1>1, <1>2, <2>1 DEF Whole
<1>3. ASSUME NEW t \in 1..Len(todo), NEW n \in Numbers, NEW m \in Nat,
             n = todo[t].copy, m = todo[t].from
      PROVE  Done(File(n), m)'
  <2>1. m <= Len(File(n))
    BY <1>3 DEF OrderInv, Order
  <2>2. Done(File(n), m)
    BY <1>3 DEF SafeRun
  <2> QED BY <1>1, <2>1, <2>2
<1> QED BY <1>2, <1>3 DEF SafeRun

LEMMA SafeReadLine ==
  ASSUME TypeInv, TypeInv', OrderInv, OrderInv', orderly, Safe, ReadLine
  PROVE  Safe'
<1> DEFINE i == OpenFile[pos + 1]
<1>0. /\ pc = "read" /\ pos < Len(OpenFile) /\ pos' = pos + 1
      /\ UNCHANGED <<written, live, copies, rotating, pc, todo, head, text, size,
                     unread, orderly, named>>
      /\ \/ Store(BatchAfter(i), pos + 1) /\ batch' = {}
         \/ batch' = BatchAfter(i) /\ UNCHANGED <<cursor, counted>>
      /\ Busy /\ Busy'
  BY DEF ReadLine, logVars, dbVars, Busy
<1>1. /\ i \in Lines /\ written[i] \in LineType /\ pos \in Nat /\ Len(OpenFile) \in Nat
      /\ \A e \in batch : e.at \in Nat
  BY <1>0, LineAtHand, LogFileFacts DEF TypeInv, RunTyped, Event
<1>2. BatchAfter(i) \subseteq Event /\ batch \subseteq BatchAfter(i)
  BY <1>1, AfterType DEF BatchAfter
<1>3. \A j \in 1..pos + 1 : IsReply(OpenFile[j]) =>
         \/ counted[OpenFile[j]] > 0
         \/ \E e \in BatchAfter(i) : e.line = OpenFile[j] /\ e.at = j - 1
  <2>1. ASSUME IsReply(i)
        PROVE  \E e \in BatchAfter(i) : e.line = i /\ e.at = pos
    <3>1. \E b : BatchAfter(i) = batch \cup {[line |-> i, at |-> pos, policy |-> b]}
      BY <2>1, Zenon DEF IsReply, BatchAfter, LineStart
    <3>2. PICK b : BatchAfter(i) = batch \cup {[line |-> i, at |-> pos, policy |-> b]}
      BY <3>1
    <3> DEFINE e == [line |-> i, at |-> pos, policy |-> b]
    <3>3. e \in BatchAfter(i) /\ e.line = i /\ e.at = pos
      BY <3>2
    <3> QED BY <3>3
  <2>2. \A j \in 1..pos + 1 : j \in 1..pos \/ j = pos + 1
    BY <1>1
  <2>3. \A j \in 1..pos : IsReply(OpenFile[j]) =>
           \/ counted[OpenFile[j]] > 0
           \/ \E e \in batch : e.line = OpenFile[j] /\ e.at = j - 1
    BY <1>0 DEF Safe, SafeRun
  <2> QED BY <1>1, <1>2, <2>1, <2>2, <2>3
<1>4. /\ \A n : File(n)' = File(n)
      /\ OpenFile' = OpenFile /\ Left' = Left
  BY <1>0 DEF File, CopyNamed, OpenFile, OnLive, Left
<1>5. Grown
  <2>1. CASE Store(BatchAfter(i), pos + 1)
    BY <1>0, <1>2, <2>1, StoreCounts, WrittenLines DEF Grown
  <2>2. CASE UNCHANGED <<cursor, counted>>
    BY <1>0, <2>2, WrittenLines DEF Grown, TypeInv, DbTyped
  <2> QED BY <1>0, <2>1, <2>2
<1>6. /\ \A n \in 1..Len(copies) : n \in Left \/ Whole(n)'
      /\ \A t \in 1..Len(todo) : Done(File(todo[t].copy), todo[t].from)'
  <2>1. \A t \in 1..Len(todo) : todo[t].copy \in Numbers /\ todo[t].from \in Nat
    BY <1>0, TodoFacts
  <2>2. Safe /\ SafeRun
    BY DEF Safe
  <2> QED BY <1>0, <1>4, <1>5, <2>1, <2>2, RunStays DEF Done
<1>7. \A j \in 1..pos + 1 : IsReply(OpenFile[j])' =>
         \/ counted'[OpenFile[j]] > 0
         \/ \E e \in batch' : e.line = OpenFile[j] /\ e.at = j - 1
  <2> SUFFICES ASSUME NEW j \in 1..pos + 1, IsReply(OpenFile[j])'
               PROVE  \/ counted'[OpenFile[j]] > 0
                      \/ \E e \in batch' : e.line = OpenFile[j] /\ e.at = j - 1
    OBVIOUS
  <2>1. OpenFile[j] \in 1..Len(written)
    BY <1>0, <1>1, OpenLines
  <2>2. /\ IsReply(OpenFile[j]) /\ counted'[OpenFile[j]] >= counted[OpenFile[j]]
        /\ counted[OpenFile[j]] \in Nat /\ counted'[OpenFile[j]] \in Nat
    BY <1>0, <1>4, <1>5, <2>1, WrittenLines DEF Grown, IsReply, TypeInv, DbTyped
  <2>3. CASE Store(BatchAfter(i), pos + 1)
    BY <1>2, <1>3, <2>2, <2>3, StoreCounts
  <2>4. CASE batch' = BatchAfter(i)
    BY <1>3, <2>2, <2>4
  <2> QED BY <1>0, <2>3, <2>4
<1>8. SafeRun'
  BY <1>0, <1>4, <1>6, <1>7 DEF SafeRun
<1>9. SafeCursor'
  <2>1. CASE UNCHANGED cursor
    BY <1>0, <1>5, <2>1, SafeCursorStays DEF Safe
  <2>2. CASE ~ UNCHANGED cursor
    <3>1. OnLive /\ cursor' = [offset |-> pos + 1, head |-> head] /\ batch' = {}
      BY <1>0, <2>2 DEF Store
    <3>2. OpenFile = live /\ ~rotating /\ Order
      BY <1>0, <3>1 DEF OpenFile, OrderInv, Order
    <3>3. AtLive'
      BY <1>0, <1>1, <3>1, <3>2 DEF AtLive, Order
    <3>4. Done(live, cursor.offset)'
      BY <1>0, <1>4, <1>7, <3>1, <3>2 DEF Done
    <3>5. \A c \in Settled' : Done(copies[c], Len(copies[c]))'
      <4>1. Left = {0}
        BY <1>0, <3>1, LiveIsLast
      <4>2. \A n \in 1..Len(copies) : Whole(n)'
        BY <1>6, <4>1 DEF TypeInv, LogTyped
      <4> QED BY <1>0, <3>2, <4>2, AllSettledLater
    <3> QED BY <3>3, <3>4, <3>5 DEF SafeCursor
  <2> QED BY <2>1, <2>2
<1>10. OneRotation'
  BY <1>0 DEF OneRotation, OrderInv, Order
<1> QED BY <1>8, <1>9, <1>10 DEF Safe

\* A file is left when all its replies are counted, or still ahead.
LEMMA SafeEndOfFile ==
  ASSUME TypeInv, TypeInv', OrderInv, orderly, Safe, EndOfFile
  PROVE  Safe'
<1>0. /\ pc = "read" /\ pos >= Len(OpenFile) /\ Store(Kept, End)
      /\ UNCHANGED <<written, live, copies, rotating, orderly, named>>
      /\ Busy /\ SafeRun
  BY DEF EndOfFile, logVars, Busy, Safe
<1>1. /\ pos \in Nat /\ Len(OpenFile) = pos /\ Order /\ ~rotating
      /\ \A e \in batch : e.at \in Nat /\ e.at < pos
      /\ \A p \in pending : p.at \in Nat
  BY <1>0, OpenLines DEF OrderInv, Order, TypeInv, RunTyped, Event, Waiting
<1>2. Kept \subseteq Event
  BY DEF Kept, TypeInv, RunTyped
<1>3. Grown
  BY <1>0, <1>2, StoreCounts, WrittenLines DEF Grown
<1>4. \A n : File(n)' = File(n)
  BY <1>0 DEF File, CopyNamed
<1>5. End \in Nat /\ End <= pos /\ (~OnLive => End = pos)
  BY <1>1, EndOf
<1>6. \A j \in 1..End : IsReply(OpenFile[j]) => counted'[OpenFile[j]] > 0
  <2> SUFFICES ASSUME NEW j \in 1..End, IsReply(OpenFile[j])
               PROVE  counted'[OpenFile[j]] > 0
    OBVIOUS
  <2>1. j \in 1..pos /\ OpenFile[j] \in 1..Len(written)
    BY <1>0, <1>1, <1>5, OpenLines
  <2>2. /\ counted'[OpenFile[j]] >= counted[OpenFile[j]]
        /\ counted[OpenFile[j]] \in Nat /\ counted'[OpenFile[j]] \in Nat
    BY <1>3, <2>1, WrittenLines DEF Grown, TypeInv, DbTyped
  <2>3. CASE counted[OpenFile[j]] > 0
    BY <2>2, <2>3
  <2>4. CASE \E e \in batch : e.line = OpenFile[j] /\ e.at = j - 1
    <3>1. PICK e \in batch : e.line = OpenFile[j] /\ e.at = j - 1
      BY <2>4
    <3>2. e \in Kept
      BY <1>5, <3>1 DEF Kept
    <3> QED BY <1>0, <1>2, <3>1, <3>2, StoreCounts
  <2> QED BY <1>0, <2>1, <2>3, <2>4 DEF SafeRun
<1>7. \A n \in 1..Len(copies) : n \in Left \/ Whole(n)'
  BY <1>0, <1>3, RunStays
<1>8. CASE OnLive
  <2>1. Tail(todo) = <<>> /\ Left = {0}
    BY <1>0, <1>8, LiveIsLast
  <2>2. pc' = "idle" /\ unread' = 0
    BY <2>1 DEF EndOfFile, NoRun
  <2>3. cursor' = [offset |-> End, head |-> head] /\ OpenFile = live
    BY <1>0, <1>8 DEF Store, OpenFile
  <2>4. AtLive'
    BY <1>0, <1>1, <1>5, <2>2, <2>3 DEF AtLive, Order
  <2>5. Done(live, cursor.offset)'
    BY <1>0, <1>6, <2>3 DEF Done, IsReply
  <2>6. \A n \in 1..Len(copies) : Whole(n)'
    BY <1>7, <2>1 DEF TypeInv, LogTyped
  <2>7. \A c \in Settled' : Done(copies[c], Len(copies[c]))'
    BY <1>0, <1>1, <2>6, AllSettledLater
  <2>8. SafeCursor'
    BY <2>4, <2>5, <2>7 DEF SafeCursor
  <2> QED BY <2>2, <2>8 DEF Safe, OneRotation, SafeRun, Busy
<1>9. CASE ~OnLive
  <2>1. Tail(todo) # <<>> /\ Head(todo).copy \in 1..Len(copies)
    BY <1>0, <1>9, LiveIsLast
  <2>2. /\ pc' = "open" /\ todo' = Tail(todo) /\ cursor' = cursor
        /\ UNCHANGED <<size, unread>>
    BY <1>0, <1>9, <2>1 DEF EndOfFile, Store
  <2>3. SafeCursor'
    BY <1>0, <1>3, <2>2, SafeCursorStays DEF Safe
  <2>4. /\ Len(todo) \in Nat /\ Len(todo') = Len(todo) - 1 /\ Head(todo) = todo[1]
        /\ \A t \in 1..Len(todo') : todo'[t] = todo[t + 1] /\ t + 1 \in 1..Len(todo)
    <3>1. todo \in Seq(Entry) /\ todo # <<>>
      BY <1>0 DEF TypeInv, RunTyped, RunOK
    <3> QED BY <2>2, <3>1
  <2>5. \A t \in 1..Len(todo') : Done(File(todo[t].copy), todo[t].from)'
    <3> SUFFICES ASSUME NEW t \in 1..Len(todo')
                 PROVE  Done(File(todo[t].copy), todo[t].from)'
      OBVIOUS
    <3>1. t + 1 \in 1..Len(todo) /\ todo'[t] = todo[t + 1]
      BY <2>4
    <3>2. \A n \in Numbers, m \in Nat :
             n = todo'[t].copy /\ m = todo'[t].from => Done(File(n), m)'
      BY <1>0, <1>3, <3>1, RunStays
    <3>3. todo'[t].copy \in Numbers /\ todo'[t].from \in Nat
      BY <1>0, <3>1, TodoFacts
    <3> QED BY <3>2, <3>3
  <2>6. ASSUME NEW n \in 1..Len(copies) PROVE n \in Left' \/ Whole(n)'
    <3>1. CASE n = Head(todo).copy
      <4>1. File(n) = OpenFile
        BY <1>0, <1>1, <3>1 DEF Order
      <4>2. \A j \in 1..Len(OpenFile) : IsReply(OpenFile[j]) => counted'[OpenFile[j]] > 0
        BY <1>1, <1>5, <1>6, <1>9
      <4> QED BY <1>0, <1>4, <4>1, <4>2 DEF Whole, Done, IsReply
    <3>2. CASE n \in Left /\ n # Head(todo).copy
      <4>1. PICK t \in 1..Len(todo) : todo[t].copy = n
        BY <3>2 DEF Left
      <4>2. t # 1
        BY <2>4, <3>2, <4>1
      <4>3. t - 1 \in 1..Len(todo') /\ (t - 1) + 1 = t
        BY <2>4, <4>2
      <4>4. todo'[t - 1].copy = n
        BY <2>4, <4>1, <4>3
      <4> QED BY <4>3, <4>4 DEF Left
    <3> QED BY <1>7, <3>1, <3>2
  <2>7. SafeRun'
    BY <1>0, <2>2, <2>5, <2>6 DEF SafeRun, Busy
  <2> QED BY <1>0, <1>1, <2>2, <2>3, <2>7 DEF Safe, OneRotation
<1> QED BY <1>8, <1>9

LEMMA SafeNext == TypeInv /\ OrderInv /\ LossInv /\ [Next]_vars => LossInv'
<1> SUFFICES ASSUME TypeInv, OrderInv, LossInv, [Next]_vars, orderly', named'
             PROVE  Safe'
  BY DEF LossInv, Safe
<1>0. TypeInv' /\ OrderInv' /\ (orderly /\ named => Safe)
  BY TypeNext, OrderNext DEF LossInv, Safe
<1>1. CASE Log
  <2>1. orderly /\ named
    BY <1>1 DEF Log, Tick, LogRPZ, LogReply, Append1
  <2> QED BY <1>0, <1>1, <2>1, SafeLog
<1>2. CASE Rotate
  BY <1>0, <1>2, SafeRotate
<1>3. CASE Begin
  <2>1. /\ orderly /\ named /\ Safe /\ pc' = "head" /\ size' = Len(live) /\ ~rotating
        /\ UNCHANGED <<live, copies, rotating, written, cursor, counted, named, unread>>
    BY <1>0, <1>3 DEF Begin, logVars, dbVars
  <2>2. Grown
    BY <2>1, WrittenLines DEF Grown, TypeInv, DbTyped
  <2>3. SafeCursor'
    BY <1>0, <2>1, <2>2, SafeCursorStays DEF Safe
  <2> QED BY <2>1, <2>3 DEF Safe, OneRotation, SafeRun, Busy
<1>4. CASE Decide
  BY <1>0, <1>4, SafeDecide DEF Decide
<1>5. CASE Open
  BY <1>0, <1>5, SafeOpen DEF Open
<1>6. CASE ReadLine
  BY <1>0, <1>6, SafeReadLine DEF ReadLine
<1>7. CASE EndOfFile
  BY <1>0, <1>7, SafeEndOfFile DEF EndOfFile
<1>8. CASE Crash
  <2>1. /\ orderly /\ named /\ Safe /\ pc' = "idle"
        /\ UNCHANGED <<live, copies, rotating, written, cursor, counted, named, unread>>
    BY <1>0, <1>8 DEF Crash, NoRun, logVars, dbVars
  <2>2. Grown
    BY <2>1, WrittenLines DEF Grown, TypeInv, DbTyped
  <2>3. SafeCursor'
    BY <1>0, <2>1, <2>2, SafeCursorStays DEF Safe
  <2> QED BY <2>1, <2>3 DEF Safe, OneRotation, SafeRun, Busy
<1>9. CASE UNCHANGED vars
  <2>1. /\ orderly /\ named /\ Safe
        /\ UNCHANGED <<live, copies, rotating, written, cursor, counted, named, unread,
                       pc, size, todo, text, pos, batch>>
    BY <1>0, <1>9 DEF vars, logVars, dbVars, runVars
  <2>2. Grown
    BY <2>1, WrittenLines DEF Grown, TypeInv, DbTyped
  <2>3. SafeCursor'
    BY <1>0, <2>1, <2>2, SafeCursorStays DEF Safe
  <2>4. SafeRun'
    <3> SUFFICES ASSUME Busy PROVE SafeRun'
      BY <2>1 DEF SafeRun, Busy
    <3>1. OpenFile' = OpenFile /\ Left' = Left /\ \A n : File(n)' = File(n)
      BY <2>1 DEF OpenFile, OnLive, Left, File, CopyNamed
    <3>2. \A n \in 1..Len(copies) : n \in Left' \/ Whole(n)'
      BY <2>1, <3>1 DEF Safe, SafeRun, Whole, Done, IsReply
    <3>3. \A t \in 1..Len(todo) : Done(File(todo[t].copy), todo[t].from)'
      BY <2>1, <3>1 DEF Safe, SafeRun, Done, IsReply
    <3> QED BY <2>1, <3>1, <3>2, <3>3 DEF Safe, SafeRun, IsReply
  <2> QED BY <2>1, <2>3, <2>4 DEF Safe, OneRotation
<1> QED BY <1>1, <1>2, <1>3, <1>4, <1>5, <1>6, <1>7, <1>8, <1>9 DEF Next, Run

LEMMA SafeInit == Init => LossInv
BY DEF Init, LossInv, OneRotation, SafeCursor, SafeRun, Busy

\* What is on disk is in a file, and what is past an offset is ahead.
LEMMA InFiles ==
  ASSUME TypeInv, NEW i \in OnDisk
  PROVE  \E n \in Numbers : \E j \in 1..Len(File(n)) : File(n)[j] = i
<1>1. Len(copies) \in Nat
  BY DEF TypeInv, LogTyped
<1>2. CASE i \in ToSet(live)
  <2>1. 0 \in Numbers /\ File(0) = live /\ live \in Seq(Lines)
    BY <1>1 DEF Numbers, File, TypeInv, LogTyped, LogFile
  <2>2. \E j \in 1..Len(live) : live[j] = i
    BY <1>2, <2>1 DEF ToSet
  <2> QED BY <2>1, <2>2
<1>3. CASE \E c \in DOMAIN copies : i \in ToSet(copies[c])
  <2>1. PICK c \in DOMAIN copies : i \in ToSet(copies[c])
    BY <1>3
  <2>2. c \in 1..Len(copies)
    BY <2>1 DEF TypeInv, LogTyped
  <2>3. /\ Len(copies) + 1 - c \in Numbers
        /\ File(Len(copies) + 1 - c) = copies[c]
    BY <1>1, <2>2 DEF Numbers, File, CopyNamed
  <2>4. copies[c] \in Seq(Lines)
    BY <2>3, FileFacts DEF LogFile
  <2>5. \E j \in 1..Len(copies[c]) : copies[c][j] = i
    BY <2>1, <2>4 DEF ToSet
  <2> QED BY <2>3, <2>5
<1> QED BY <1>2, <1>3 DEF OnDisk

LEMMA InTail ==
  ASSUME NEW f \in LogFile, NEW from \in Nat, NEW j \in from + 1 .. Len(f)
  PROVE  f[j] \in ToSet(SubSeq(f, from + 1, Len(f)))
<1> DEFINE s == SubSeq(f, from + 1, Len(f))
<1>1. f \in Seq(Lines) /\ Len(f) \in Nat
  BY DEF LogFile
<1>2. /\ Len(s) = Len(f) - from /\ DOMAIN s = 1..Len(f) - from
      /\ \A k \in 1..Len(f) - from : s[k] = f[from + k]
  BY <1>1
<1>3. j - from \in DOMAIN s /\ s[j - from] = f[j]
  BY <1>1, <1>2
<1> QED BY <1>3 DEF ToSet

(***************************************************************************)
(* Nothing is lost: between the runs, whichever were killed, a reply in a  *)
(* log file is counted or is in what the next run reads.                   *)
(***************************************************************************)
THEOREM LosesNothing == Spec => []NothingLost
<1>1. ASSUME TypeInv, LossInv PROVE NothingLost
  <2> SUFFICES ASSUME orderly, named, NEW i \in Replies \cap OnDisk
               PROVE  counted[i] > 0 \/ i \in Ahead
    BY DEF NothingLost, AllCountedOrAhead
  <2>1. PICK n \in Numbers : \E j \in 1..Len(File(n)) : File(n)[j] = i
    BY <1>1, InFiles
  <2>2. PICK j \in 1..Len(File(n)) : File(n)[j] = i
    BY <2>1
  <2>3. /\ File(n) \in LogFile /\ Len(File(n)) \in Nat /\ i \in Lines /\ Len(copies) \in Nat
        /\ i \in 1..Len(written)
    BY <1>1, <2>2, FileFacts, WrittenLines DEF TypeInv, LogTyped
  <2>4. IsReply(i)
    BY DEF Replies, IsReply
  <2>5. CASE cursor = NoCursor
    BY <2>3, <2>5 DEF Ahead
  <2>6. CASE cursor # NoCursor
    <3>0. cursor.offset \in Nat /\ unread \in Nat
      BY <1>1, <2>6 DEF TypeInv, DbTyped, RestTyped, Cursor
    <3>1. OneRotation /\ SafeCursor
      BY <1>1 DEF LossInv
    <3>2. ASSUME NEW from \in Nat, Done(File(n), from), NEW t,
                 t = SubSeq(File(n), from + 1, Len(File(n)))
          PROVE  counted[i] > 0 \/ i \in ToSet(t)
      <4>1. CASE j <= from
        BY <2>2, <2>4, <3>2, <4>1 DEF Done
      <4>2. CASE j > from
        BY <2>2, <2>3, <3>2, <4>2, InTail
      <4> QED BY <2>3, <4>1, <4>2
    <3>3. CASE /\ AtLive /\ Done(live, cursor.offset)
               /\ \A c \in Settled : Done(copies[c], Len(copies[c]))
      <4>1. CASE n = 0
        <5>1. counted[i] > 0 \/ i \in ToSet(SubSeq(live, cursor.offset + 1, Len(live)))
          BY <3>0, <3>2, <3>3, <4>1 DEF File
        <5>2. i \in ToSet(live)
          BY <2>2, <2>3, <4>1 DEF File, ToSet, LogFile
        <5> QED BY <2>6, <5>1, <5>2 DEF Ahead
      <4>2. CASE n # 0 /\ Len(copies) + 1 - n \in Settled
        <5>1. Done(File(n), Len(File(n)))
          BY <3>3, <4>2 DEF File, CopyNamed
        <5> QED BY <2>2, <2>4, <5>1 DEF Done
      <4>3. CASE n # 0 /\ Len(copies) + 1 - n \notin Settled
        \* The copy logrotate has just made: its lines are the live log's.
        <5>1. n = 1 /\ rotating /\ unread = 0
          BY <2>3, <2>6, <3>1, <4>3 DEF Numbers, Settled, OneRotation
        <5>2. CopyNamed(1) = copies[Len(copies)] /\ File(n) = CopyNamed(1)
          BY <2>3, <5>1 DEF CopyNamed, File
        <5>3. j \in 1..Len(live) /\ live[j] = i /\ live \in LogFile /\ Len(live) \in Nat
          <6>1. live \in LogFile /\ Len(live) \in Nat
            BY <1>1, LogFileFacts DEF TypeInv, LogTyped
          <6> QED BY <1>1, <2>2, <2>3, <5>1, <5>2, <6>1 DEF TypeInv, LogOK, Copying
        <5>4. CASE j <= cursor.offset
          BY <2>4, <3>3, <5>3, <5>4, <3>0 DEF Done
        <5>5. CASE j > cursor.offset
          <6>1. j \in cursor.offset + 1 .. Len(live)
            BY <3>0, <5>3, <5>5
          <6>2. i \in ToSet(SubSeq(live, cursor.offset + 1, Len(live)))
            BY <3>0, <5>3, <6>1, InTail
          <6> QED BY <2>6, <5>1, <6>2 DEF Ahead
        <5> QED BY <3>0, <5>3, <5>4, <5>5
      <4> QED BY <4>1, <4>2, <4>3
    <3>4. CASE /\ AtCopy /\ Done(CopyNamed(1), cursor.offset)
               /\ \A m \in 2..Len(copies) : Whole(m)
      <4>1. Ahead = ToSet(live) \cup
               ToSet(SubSeq(CopyNamed(1), cursor.offset + 1, Len(CopyNamed(1))))
        BY <2>6, <3>0, <3>4 DEF Ahead, AtCopy
      <4>2. CASE n = 0
        <5>1. i \in ToSet(live)
          BY <2>2, <2>3, <4>2 DEF File, ToSet, LogFile
        <5> QED BY <4>1, <5>1
      <4>3. CASE n = 1
        <5>1. File(n) = CopyNamed(1)
          BY <4>3 DEF File
        <5>2. Done(File(n), cursor.offset)
          BY <3>4, <5>1
        <5>3. counted[i] > 0 \/
              i \in ToSet(SubSeq(File(n), cursor.offset + 1, Len(File(n))))
          BY <3>0, <3>2, <5>2
        <5> QED BY <4>1, <5>1, <5>3
      <4>4. CASE n \in 2..Len(copies)
        BY <2>2, <2>4, <3>4, <4>4 DEF Whole, Done
      <4> QED BY <2>3, <4>2, <4>3, <4>4 DEF Numbers
    <3> QED BY <2>6, <3>1, <3>3, <3>4 DEF SafeCursor
  <2> QED BY <2>5, <2>6
<1> QED BY <1>1, TypeInit, OrderInit, SafeInit, TypeNext, OrderNext, SafeNext, PTL DEF Spec

-----------------------------------------------------------------------------
(* Nothing is counted twice.                                               *)

\* No line is twice in the logs.
LEMMA FilesOrdered ==
  ASSUME TypeInv, NEW n \in Numbers, NEW j \in 1..Len(File(n)), NEW k \in 1..Len(File(n)),
         j < k
  PROVE  File(n)[j] # File(n)[k] /\ File(n)[j] < File(n)[k]
<1>1. Len(copies) \in Nat /\ Len(live) \in Nat /\ Len(written) \in Nat
  BY LogFileFacts DEF TypeInv, LogTyped
<1>2. CASE n = 0
  <2>1. File(n) = live /\ Base \in Int
    BY <1>1, <1>2 DEF File, Base
  <2>2. live[j] = Base + j /\ live[k] = Base + k
    BY <2>1 DEF TypeInv, LogOK, LiveOK
  <2> QED BY <2>1, <2>2
<1>3. CASE n # 0
  <2>1. n \in 1..Len(copies)
    BY <1>1, <1>3 DEF Numbers
  <2>2. PICK c \in 1..Len(copies) : File(n) = copies[c]
    BY <2>1, CopyIndex
  <2>3. copies[c][j] < copies[c][k]
    BY <2>2 DEF TypeInv, LogOK, CopiesOK
  <2>4. File(n)[j] \in Nat /\ File(n)[k] \in Nat
    BY FileFacts DEF TypeInv, LogTyped
  <2> QED BY <2>2, <2>3, <2>4
<1> QED BY <1>2, <1>3

LEMMA FilesDiffer ==
  ASSUME TypeInv, ~rotating, NEW n \in Numbers, NEW m \in Numbers, m < n,
         NEW j \in 1..Len(File(n)), NEW k \in 1..Len(File(m))
  PROVE  File(n)[j] # File(m)[k]
<1>1. Len(copies) \in Nat /\ Len(live) \in Nat /\ Len(written) \in Nat
  BY LogFileFacts DEF TypeInv, LogTyped
<1>2. n \in 1..Len(copies)
  BY <1>1 DEF Numbers
<1>3. PICK c \in 1..Len(copies) : c = Len(copies) + 1 - n /\ File(n) = copies[c]
  BY <1>2, CopyIndex
<1>4. File(n)[j] \in Nat /\ File(m)[k] \in Nat
  BY FileFacts DEF TypeInv, LogTyped
<1>5. CASE m = 0
  <2>1. c \in Settled
    BY DEF Settled
  <2>2. copies[c][j] <= Base
    BY <1>3, <2>1 DEF TypeInv, LogOK, CopiesOK
  <2>3. File(m)[k] = Base + k /\ Base \in Nat /\ k \in Nat /\ k >= 1
    BY <1>1, <1>5 DEF File, TypeInv, LogOK, LiveOK, Base
  <2> QED BY <1>3, <1>4, <2>2, <2>3
<1>6. CASE m # 0
  <2>1. m \in 1..Len(copies)
    BY <1>1, <1>6 DEF Numbers
  <2>2. PICK d \in 1..Len(copies) : d = Len(copies) + 1 - m /\ File(m) = copies[d]
    BY <2>1, CopyIndex
  <2>3. c < d
    BY <1>1, <1>3, <2>2 DEF Numbers
  <2>4. copies[c][j] < copies[d][k]
    BY <1>3, <2>2, <2>3 DEF TypeInv, LogOK, CopiesOK
  <2> QED BY <1>3, <1>4, <2>2, <2>4
<1> QED BY <1>5, <1>6

LEMMA StoreOnce ==
  ASSUME TypeInv, NEW events, events \subseteq Event, NEW offset, Store(events, offset),
         \A i \in Lines : counted[i] <= 1, \A e \in events : counted[e.line] = 0
  PROVE  /\ \A i \in Lines : counted'[i] <= 1
         /\ \A i \in Lines : (\A e \in events : e.line # i) => counted'[i] = counted[i]
<1>1. \A i \in Lines : counted[i] \in Nat /\ counted'[i] =
         IF \E e \in events : e.line = i THEN counted[i] + 1 ELSE counted[i]
  BY DEF Store, TypeInv, DbTyped
<1>2. \A i \in Lines : (\E e \in events : e.line = i) => counted[i] = 0
  OBVIOUS
<1> QED BY <1>1, <1>2

\* Lines not logged yet.
LEMMA LaterNext == TypeInv /\ LaterUncounted /\ [Next]_vars => LaterUncounted'
<1> SUFFICES ASSUME TypeInv, LaterUncounted, [Next]_vars PROVE LaterUncounted'
  OBVIOUS
<1>0. Len(written) \in Nat /\ \A i \in Lines : i \in Nat
  BY IngestAssumption DEF TypeInv, LogTyped, Lines
<1>1. ASSUME NEW kind, NEW k, NEW by, Append1(kind, k, by)
      PROVE  LaterUncounted'
  <2>1. Len(written') = Len(written) + 1 /\ counted' = counted /\ batch' = batch
    BY <1>1, LogGrows DEF dbVars, runVars
  <2>2. \A e \in batch : e.line \in Nat
    BY <1>0 DEF TypeInv, RunTyped, Event
  <2> QED BY <1>0, <2>1, <2>2 DEF LaterUncounted
<1>2. CASE Log
  <2>1. Tick => UNCHANGED <<written, counted, batch>>
    BY DEF Tick, dbVars, runVars
  <2>2. CASE Tick
    BY <2>1, <2>2 DEF LaterUncounted
  <2> QED BY <1>1, <1>2, <2>2 DEF Log, LogRPZ, LogReply
<1>3. ASSUME written' = written, NEW events, events \subseteq Event, NEW offset,
             Store(events, offset), \A e \in events : e.line <= Len(written),
             NEW i \in Lines, i > Len(written)
      PROVE  counted'[i] = 0
  <2>1. ~ \E e \in events : e.line = i
    BY <1>0, <1>3
  <2> QED BY <1>3, <2>1 DEF Store, LaterUncounted
<1>4. CASE ReadLine
  <2> DEFINE l == OpenFile[pos + 1]
  <2>1. written' = written /\ l \in Lines /\ written[l] \in LineType /\ l <= Len(written)
    BY <1>0, <1>4, LineAtHand DEF ReadLine, logVars
  <2>2. \A e \in BatchAfter(l) : e \in batch \/ e.line = l
    BY DEF BatchAfter
  <2>3. BatchAfter(l) \subseteq Event /\ \A e \in BatchAfter(l) : e.line <= Len(written)
    BY <2>1, <2>2, AfterType DEF LaterUncounted
  <2>4. \/ Store(BatchAfter(l), pos + 1) /\ batch' = {}
        \/ batch' = BatchAfter(l) /\ counted' = counted
    BY <1>4 DEF ReadLine, dbVars
  <2> QED BY <1>3, <2>1, <2>3, <2>4 DEF LaterUncounted
<1>5. CASE EndOfFile
  <2>1. /\ written' = written /\ Store(Kept, End) /\ Kept \subseteq Event
        /\ \A e \in Kept : e.line <= Len(written)
    BY <1>5 DEF EndOfFile, logVars, Kept, TypeInv, RunTyped, LaterUncounted
  <2>2. batch' = {}
    BY <1>5 DEF EndOfFile, NoRun
  <2> QED BY <1>3, <2>1, <2>2 DEF LaterUncounted
<1>6. CASE UNCHANGED <<written, counted>> /\ batch' \in {{}, batch}
  BY <1>6 DEF LaterUncounted
<1>7. CASE Rotate \/ Begin \/ Decide \/ Open \/ Crash \/ UNCHANGED vars
  <2>1. UNCHANGED <<written, counted>> /\ batch' \in {{}, batch}
    BY <1>7 DEF Rotate, CopyLog, TruncateLog, Begin, Decide, Open, Crash, NoRun,
                vars, logVars, dbVars, runVars
  <2> QED BY <1>6, <2>1
<1> QED BY <1>2, <1>4, <1>5, <1>7 DEF Next, Run

LEMMA OnceLog ==
  ASSUME TypeInv, OrderInv, orderly, LaterUncounted, Once, Log
  PROVE  Once'
<1>1. CASE Tick
  BY <1>1 DEF Tick, dbVars, runVars, Once, OneRotation, FreshCursor, FreshRun, AtLive,
              AtCopy, Base, Fresh, Numbers, File, CopyNamed, OpenFile, OnLive
<1>2. ASSUME NEW kind, NEW k, NEW by, Append1(kind, k, by)
      PROVE  Once'
  <2>0. /\ Len(live') = Len(live) + 1
        /\ \A j \in 1..Len(live) : live'[j] = live[j]
        /\ live'[Len(live) + 1] = Len(written) + 1
        /\ Numbers' = Numbers
        /\ \A n \in 1..Len(copies) : CopyNamed(n)' = CopyNamed(n)
        /\ UNCHANGED <<copies, rotating, cursor, counted, pc, size, head, todo, text, pos,
                       batch, pending, unread, orderly, named>>
    BY <1>2, LogGrows DEF dbVars, runVars
  <2>1. Len(live) \in Nat /\ Len(copies) \in Nat /\ Len(written) \in Nat
    BY LogFileFacts DEF TypeInv, LogTyped
  <2>2. counted[Len(written) + 1] = 0
    <3>1. Len(written) + 1 \in Lines
      BY <1>2, <2>1, IngestAssumption DEF Append1, Lines
    <3> QED BY <2>1, <3>1 DEF LaterUncounted
  <2>3. ASSUME NEW n \in Numbers, NEW from \in Nat, Fresh(File(n), from)
        PROVE  Fresh(File(n), from)'
    <3>1. CASE n = 0
      <4>1. File(n) = live /\ File(n)' = live'
        BY <3>1 DEF File
      <4>2. \A j \in from + 1 .. Len(live') : j \in from + 1 .. Len(live) \/ j = Len(live) + 1
        BY <2>0, <2>1
      <4>3. \A j \in from + 1 .. Len(live) : live'[j] = live[j]
        BY <2>0, <2>1
      <4> QED BY <2>0, <2>2, <2>3, <4>1, <4>2, <4>3 DEF Fresh
    <3>2. CASE n # 0
      <4>1. File(n)' = File(n)
        BY <2>0, <2>1, <3>2 DEF File, Numbers
      <4> QED BY <2>0, <2>3, <4>1 DEF Fresh
    <3> QED BY <3>1, <3>2
  <2>4. 0 \in Numbers /\ File(0) = live /\ File(0)' = live'
    BY <2>1 DEF Numbers, File
  <2>5. FreshCursor'
    <3> SUFFICES ASSUME pc \in {"idle", "head"} \/ copies = <<>> PROVE FreshCursor'
      BY <2>0 DEF FreshCursor
    <3>1. CASE cursor = NoCursor
      BY <2>0, <2>3, <3>1 DEF Once, FreshCursor
    <3>2. CASE cursor # NoCursor
      <4>1. cursor.offset \in Nat
        BY <3>2 DEF TypeInv, DbTyped, Cursor
      <4>2. CASE AtLive /\ Fresh(live, cursor.offset)
        <5>1. AtLive'
          BY <1>2, <3>2, <4>2, CursorLog
        <5>2. Fresh(live, cursor.offset)'
          BY <2>0, <2>3, <2>4, <4>1, <4>2
        <5> QED BY <2>0, <3>2, <5>1, <5>2 DEF FreshCursor
      <4>3. CASE AtCopy /\ Fresh(CopyNamed(1), cursor.offset) /\ Fresh(live, 0)
        <5>1. AtCopy'
          BY <1>2, <3>2, <4>3, CursorLog
        <5>2. Fresh(live, 0)'
          BY <2>3, <2>4, <4>3
        <5>3. CopyNamed(1)' = CopyNamed(1)
          BY <2>0 DEF CopyNamed
        <5>4. Fresh(CopyNamed(1), cursor.offset)'
          BY <2>0, <4>3, <5>3 DEF Fresh
        <5> QED BY <2>0, <3>2, <5>1, <5>2, <5>4 DEF FreshCursor
      <4> QED BY <3>2, <4>2, <4>3 DEF Once, FreshCursor
    <3> QED BY <3>1, <3>2
  <2>6. FreshRun'
    <3>1. ASSUME Busy, NEW t \in 1..Len(todo), Fresh(File(todo[t].copy), todo[t].from)
          PROVE  Fresh(File(todo[t].copy), todo[t].from)'
      <4>1. todo[t].copy \in Numbers /\ todo[t].from \in Nat
        BY <3>1, TodoFacts
      <4>2. \A n \in Numbers, from \in Nat :
               n = todo[t].copy /\ from = todo[t].from => Fresh(File(n), from)'
        BY <2>3, <3>1
      <4> QED BY <2>0, <4>1, <4>2
    <3>2. ASSUME pc = "read", NEW j \in 1..Len(OpenFile'),
                 j > pos \/ \E p \in pending : p.at < j
          PROVE  counted[OpenFile'[j]] = 0
      <4>1. CASE OnLive
        <5>1. OpenFile = live /\ OpenFile' = live'
          BY <2>0, <4>1 DEF OpenFile, OnLive
        <5>2. j \in 1..Len(live) \/ j = Len(live) + 1
          BY <2>0, <2>1, <5>1
        <5> QED BY <2>0, <2>2, <3>2, <5>1, <5>2 DEF Once, FreshRun
      <4>2. CASE ~OnLive
        <5>1. OpenFile' = OpenFile
          BY <2>0, <4>2 DEF OpenFile, OnLive
        <5> QED BY <3>2, <5>1 DEF Once, FreshRun
      <4> QED BY <4>1, <4>2
    <3>3. CASE pc = "open"
      <4>1. \A t \in 1..Len(todo) : Fresh(File(todo[t].copy), todo[t].from)'
        BY <3>1, <3>3 DEF Once, FreshRun, Busy
      <4> QED BY <2>0, <3>3, <4>1 DEF FreshRun
    <3>4. CASE pc = "read"
      <4>1. \A t \in 2..Len(todo) : Fresh(File(todo[t].copy), todo[t].from)'
        <5>1. Len(todo) \in Nat
          BY <3>4, TodoFacts DEF Busy
        <5>2. \A t \in 2..Len(todo) : t \in 1..Len(todo)
          BY <5>1
        <5> QED BY <3>1, <3>4, <5>2 DEF Once, FreshRun, Busy
      <4> QED BY <2>0, <3>2, <3>4, <4>1 DEF Once, FreshRun
    <3>5. CASE pc \notin {"open", "read"}
      BY <2>0, <3>5 DEF FreshRun
    <3> QED BY <3>3, <3>4, <3>5
  <2> QED BY <2>0, <2>5, <2>6 DEF Once, OneRotation
<1> QED BY <1>1, <1>2 DEF Log, LogRPZ, LogReply

LEMMA OnceRotate ==
  ASSUME TypeInv, OrderInv, orderly', Once, Rotate
  PROVE  Once'
<1>0. /\ pc = "idle" /\ pc' = "idle" /\ UNCHANGED <<cursor, counted>>
  BY DEF Rotate, CopyLog, TruncateLog, runVars, dbVars
<1>1. Len(live) \in Nat /\ Len(copies) \in Nat /\ Len(written) \in Nat
  BY LogFileFacts DEF TypeInv, LogTyped
<1>2. cursor # NoCursor => cursor.offset \in Nat
  BY DEF TypeInv, DbTyped, Cursor
<1>3. FreshRun' /\ \A i \in Lines : counted'[i] <= 1
  BY <1>0 DEF Once, FreshRun
<1>4. FreshCursor
  BY DEF Once
<1>5. CASE CopyLog
  <2>0. /\ rotating' /\ copies' = Append(copies, live) /\ ~rotating
        /\ UNCHANGED <<live, unread, named>>
    BY <1>5 DEF CopyLog
  <2>1. cursor = NoCursor \/ unread = 0
    BY <1>0, <1>5 DEF CopyLog
  <2>2. /\ Len(copies') = Len(copies) + 1 /\ copies'[Len(copies) + 1] = live
        /\ \A c \in 1..Len(copies) : copies'[c] = copies[c]
    BY <2>0 DEF TypeInv, LogTyped
  <2>3. CopyNamed(1)' = live
    <3>1. CopyNamed(1)' = copies'[Len(copies') + 1 - 1]
      BY DEF CopyNamed
    <3>2. Len(copies') + 1 - 1 = Len(copies) + 1
      BY <1>1, <2>2
    <3> QED BY <2>2, <3>1, <3>2
  <2>4. ASSUME cursor = NoCursor PROVE FreshCursor'
    <3>1. ASSUME NEW n \in Numbers' PROVE Fresh(File(n), 0)'
      <4>1. \E m \in Numbers : File(n)' = File(m)
        <5>1. CASE n = 0
          BY <1>1, <2>0, <5>1 DEF File, Numbers
        <5>2. CASE n = 1
          <6>1. File(n)' = live /\ File(0) = live /\ 0 \in Numbers
            BY <1>1, <2>3, <5>2 DEF File, Numbers
          <6> QED BY <6>1
        <5>3. CASE n \notin {0, 1}
          <6>1. n - 1 \in Numbers /\ n - 1 # 0 /\ Len(copies) + 1 - (n - 1) \in 1..Len(copies)
                  /\ Len(copies') + 1 - n = Len(copies) + 1 - (n - 1)
            BY <1>1, <2>2, <5>3 DEF Numbers
          <6>2. File(n)' = copies'[Len(copies') + 1 - n] /\ File(n - 1) = copies[Len(copies) + 1 - (n - 1)]
            BY <5>3, <6>1 DEF File, CopyNamed
          <6> QED BY <2>2, <6>1, <6>2
        <5> QED BY <5>1, <5>2, <5>3
      <4> QED BY <1>0, <1>4, <2>4, <4>1 DEF FreshCursor, Fresh
    <3> QED BY <1>0, <2>4, <3>1 DEF FreshCursor
  <2>5. ASSUME cursor # NoCursor PROVE FreshCursor'
    <3>1. AtLive /\ Fresh(live, cursor.offset)
      BY <1>0, <1>4, <2>1, <2>5 DEF FreshCursor, AtCopy
    <3>2. AtLive'
      BY <1>0, <2>0, <2>3, <3>1 DEF AtLive
    <3>3. Fresh(live, cursor.offset)'
      BY <1>0, <2>0, <3>1 DEF Fresh
    <3> QED BY <1>0, <2>5, <3>2, <3>3 DEF FreshCursor
  <2>6. FreshCursor'
    BY <2>4, <2>5
  <2> QED BY <1>0, <1>3, <2>0, <2>1, <2>6 DEF Once, OneRotation
<1>6. CASE TruncateLog
  <2>0. rotating /\ rotating' = FALSE /\ live' = <<>> /\ UNCHANGED copies
    BY <1>6 DEF TruncateLog
  <2>1. ASSUME cursor = NoCursor PROVE FreshCursor'
    <3>1. \A n \in Numbers' : Fresh(File(n), 0)'
      <4>1. ASSUME NEW n \in Numbers', n # 0 PROVE Fresh(File(n), 0)'
        <5>1. File(n)' = File(n) /\ n \in Numbers
          BY <2>0, <4>1 DEF File, CopyNamed, Numbers
        <5> QED BY <1>0, <1>4, <2>1, <5>1 DEF FreshCursor, Fresh
      <4>2. Fresh(File(0), 0)'
        BY <2>0 DEF File, Fresh
      <4> QED BY <4>1, <4>2
    <3> QED BY <1>0, <2>1, <3>1 DEF FreshCursor
  <2>2. ASSUME cursor # NoCursor PROVE FreshCursor'
    <3>1. AtLive /\ Fresh(live, cursor.offset)
      BY <1>0, <1>4, <2>0, <2>2 DEF FreshCursor, AtCopy
    <3>2. /\ AtCopy' /\ CopyNamed(1)' = CopyNamed(1) /\ Len(CopyNamed(1)) \in Nat
          /\ Len(CopyNamed(1)) <= Len(live)
          /\ \A j \in 1..Len(CopyNamed(1)) : CopyNamed(1)[j] = live[j]
      BY <1>0, <1>6, <2>2, <3>1, CursorTruncated
    <3>3. \A j \in cursor.offset + 1 .. Len(CopyNamed(1)) :
             j \in cursor.offset + 1 .. Len(live) /\ j \in 1..Len(CopyNamed(1))
      BY <1>1, <1>2, <2>2, <3>2
    <3>4. Fresh(CopyNamed(1), cursor.offset)' /\ Fresh(live, 0)'
      BY <1>0, <2>0, <3>1, <3>2, <3>3 DEF Fresh
    <3> QED BY <1>0, <2>2, <3>2, <3>4 DEF FreshCursor
  <2>3. FreshCursor'
    BY <2>1, <2>2
  <2> QED BY <1>3, <2>0, <2>3 DEF Once, OneRotation
<1> QED BY <1>5, <1>6 DEF Rotate

LEMMA FreshCursorStays ==
  ASSUME TypeInv, FreshCursor, pc \in {"idle", "head"} \/ copies = <<>>,
         UNCHANGED <<live, copies, rotating, written, cursor, counted, unread, named>>,
         pc' = "head" => (pc = "head" /\ size' = size) \/ size' = Len(live)
  PROVE  FreshCursor'
<1>1. \A n : File(n)' = File(n) /\ Numbers' = Numbers
  BY DEF File, CopyNamed, Numbers
<1>2. CASE cursor = NoCursor
  BY <1>1, <1>2 DEF FreshCursor, Fresh
<1>3. CASE cursor # NoCursor
  <2>1. CASE AtLive /\ Fresh(live, cursor.offset)
    <3>1. AtLive' /\ Fresh(live, cursor.offset)'
      BY <2>1, CursorStays DEF Fresh
    <3> QED BY <1>3, <3>1 DEF FreshCursor
  <2>2. CASE AtCopy /\ Fresh(CopyNamed(1), cursor.offset) /\ Fresh(live, 0)
    <3>1. AtCopy' /\ Fresh(CopyNamed(1), cursor.offset)' /\ Fresh(live, 0)'
      BY <2>2, CursorStays DEF Fresh, CopyNamed
    <3> QED BY <1>3, <3>1 DEF FreshCursor
  <2> QED BY <1>3, <2>1, <2>2 DEF FreshCursor
<1> QED BY <1>2, <1>3

LEMMA OnceDecide ==
  ASSUME TypeInv, OrderInv, orderly, Once, Decide
  PROVE  Once'
<1>0. /\ pc = "head" /\ pc' = "open" /\ todo' = ToRead
      /\ UNCHANGED <<written, live, copies, rotating, cursor, counted, size, unread, named>>
  BY DEF Decide, logVars, dbVars
<1>1. /\ ~rotating /\ size \in Nat /\ Len(live) \in Nat /\ Len(copies) \in Nat
  BY <1>0, LogFileFacts DEF OrderInv, Calm, TypeInv, LogTyped, RunTyped
<1>2. FreshCursor'
  BY <1>0, FreshCursorStays DEF Once
<1>3. \A t \in 1..Len(ToRead) : Fresh(File(ToRead[t].copy), ToRead[t].from)
  <2>0. FreshCursor
    BY DEF Once
  <2>1. CASE cursor = NoCursor
    <3>1. ToRead = [i \in 1..Len(copies) + 1 |->
                      [copy |-> Len(copies) + 1 - i, from |-> 0]]
      BY <2>1 DEF ToRead
    <3>2. Len(ToRead) = Len(copies) + 1
      BY <1>1, <3>1
    <3>3. \A i \in 1..Len(copies) + 1 :
             ToRead[i].copy \in Numbers /\ ToRead[i].from = 0
      BY <1>1, <3>1 DEF Numbers
    <3>4. \A n \in Numbers : Fresh(File(n), 0)
      BY <1>0, <2>0, <2>1 DEF FreshCursor
    <3> QED BY <3>2, <3>3, <3>4
  <2>2. CASE cursor # NoCursor
    <3>0. cursor.offset \in Nat
      BY <2>2 DEF TypeInv, DbTyped, Cursor
    <3>1. /\ Fresh(live, cursor.offset)
          /\ Rotated => Fresh(live, 0) /\ copies # <<>> /\ Fresh(CopyNamed(1), cursor.offset)
      <4>1. CASE AtLive /\ Fresh(live, cursor.offset)
        <5>1. ~Rotated
          BY <1>0, <1>1, <3>0, <4>1 DEF AtLive, Rotated, FirstLine
        <5> QED BY <4>1, <5>1
      <4>2. CASE AtCopy /\ Fresh(CopyNamed(1), cursor.offset) /\ Fresh(live, 0)
        <5>1. \A j \in cursor.offset + 1 .. Len(live) : j \in 0 + 1 .. Len(live)
          BY <1>1, <3>0
        <5> QED BY <4>2, <5>1 DEF AtCopy, Fresh
      <4> QED BY <1>0, <2>0, <2>2, <4>1, <4>2 DEF FreshCursor
    <3>2. CASE ~Rotated
      <4>1. ToRead = <<[copy |-> 0, from |-> cursor.offset]>>
        BY <2>2, <3>2 DEF ToRead
      <4>2. Len(ToRead) = 1 /\ ToRead[1].copy = 0 /\ ToRead[1].from = cursor.offset
        BY <4>1
      <4> QED BY <3>1, <4>2 DEF File
    <3>3. CASE Rotated /\ Len(CopyNamed(1)) > cursor.offset
      <4>1. ToRead = <<[copy |-> 1, from |-> cursor.offset], [copy |-> 0, from |-> 0]>>
        BY <2>2, <3>1, <3>3 DEF ToRead
      <4>2. /\ Len(ToRead) = 2 /\ ToRead[1].copy = 1 /\ ToRead[1].from = cursor.offset
            /\ ToRead[2].copy = 0 /\ ToRead[2].from = 0
        BY <4>1
      <4>3. /\ \A t \in 1..2 : t = 1 \/ t = 2
            /\ File(1) = CopyNamed(1) /\ File(0) = live
        BY DEF File
      <4> QED BY <3>1, <3>3, <4>2, <4>3
    <3>4. CASE Rotated /\ ~(Len(CopyNamed(1)) > cursor.offset)
      <4>1. ToRead = <<[copy |-> 0, from |-> 0]>>
        BY <2>2, <3>4 DEF ToRead
      <4>2. Len(ToRead) = 1 /\ ToRead[1].copy = 0 /\ ToRead[1].from = 0
        BY <4>1
      <4> QED BY <3>1, <3>4, <4>2 DEF File
    <3> QED BY <3>2, <3>3, <3>4
  <2> QED BY <2>1, <2>2
<1>4. \A f, m : Fresh(f, m) => Fresh(f, m)'
  BY <1>0 DEF Fresh
<1>5. FreshRun'
  <2>1. \A n : File(n)' = File(n)
    BY <1>0 DEF File, CopyNamed
  <2> QED BY <1>0, <1>3, <2>1 DEF FreshRun, Fresh
<1> QED BY <1>0, <1>2, <1>5 DEF Once, OneRotation

LEMMA OnceOpen ==
  ASSUME TypeInv, OrderInv, orderly, Once, Open
  PROVE  Once'
<1>0. /\ pc = "open" /\ pc' = "read" /\ pos' = Head(todo).from
      /\ text' = IF OnLive THEN <<>> ELSE CopyNamed(Head(todo).copy)
      /\ UNCHANGED <<written, live, copies, rotating, cursor, counted, todo, size, batch,
                     pending, unread, named>>
      /\ batch = {} /\ pending = {} /\ Busy
  BY DEF Open, logVars, dbVars, Busy, TypeInv, RunOK
<1>1. OpenFile' = File(Head(todo).copy) /\ \A n : File(n)' = File(n)
  BY <1>0 DEF OpenFile, OnLive, File, CopyNamed
<1>2. FreshCursor'
  <2>1. CASE copies = <<>>
    BY <1>0, <2>1, FreshCursorStays DEF Once
  <2>2. CASE copies # <<>>
    BY <1>0, <2>2 DEF FreshCursor
  <2> QED BY <2>1, <2>2
<1>3. /\ Len(todo) \in Nat /\ 1 \in 1..Len(todo) /\ Head(todo) = todo[1]
      /\ \A t \in 2..Len(todo) : t \in 1..Len(todo)
  BY <1>0, TodoFacts
<1>4. \A t \in 1..Len(todo) : Fresh(File(todo[t].copy), todo[t].from)
  BY <1>0 DEF Once, FreshRun
<1>5. Head(todo).from \in Nat /\ Len(OpenFile') \in Nat
  BY <1>0, <1>1, <1>3, TodoFacts, FileFacts
<1>6. \A j \in 1..Len(OpenFile') : j > pos' => counted[OpenFile'[j]] = 0
  BY <1>0, <1>1, <1>3, <1>4, <1>5 DEF Fresh
<1>7. \A t \in 2..Len(todo) : Fresh(File(todo[t].copy), todo[t].from)'
  BY <1>0, <1>1, <1>3, <1>4 DEF Fresh
<1>8. FreshRun'
  BY <1>0, <1>6, <1>7 DEF FreshRun
<1> QED BY <1>0, <1>2, <1>8 DEF Once, OneRotation

\* Events of the open file, each where its line is.
LEMMA OnceStore ==
  ASSUME TypeInv, OrderInv, orderly, Once, pc = "read", UNCHANGED <<live, copies>>,
         NEW events, events \subseteq Event, NEW offset \in Nat, Store(events, offset),
         \A e \in events : e.at < offset /\ e.at + 1 \in 1..Len(OpenFile)
                           /\ e.line = OpenFile[e.at + 1] /\ counted[e.line] = 0
  PROVE  /\ \A i \in Lines : counted'[i] <= 1
         /\ \A t \in 2..Len(todo), n \in Numbers, m \in Nat :
              n = todo[t].copy /\ m = todo[t].from => Fresh(File(n), m)'
         /\ \A j \in 1..Len(OpenFile) :
              j > offset /\ counted[OpenFile[j]] = 0 => counted'[OpenFile[j]] = 0
<1>1. /\ \A i \in Lines : counted'[i] <= 1
      /\ \A i \in Lines : (\A e \in events : e.line # i) => counted'[i] = counted[i]
  BY StoreOnce DEF Once
<1>2. /\ Busy /\ Order /\ ~rotating /\ OpenFile = File(Head(todo).copy)
      /\ Head(todo).copy \in Numbers /\ Head(todo) = todo[1] /\ Len(todo) \in Nat
      /\ \A n : File(n)' = File(n)
  BY TodoFacts DEF Busy, OrderInv, Order, File, CopyNamed
<1>3. ASSUME NEW t \in 2..Len(todo), NEW n \in Numbers, NEW m \in Nat,
             n = todo[t].copy, m = todo[t].from
      PROVE  Fresh(File(n), m)'
  <2> SUFFICES ASSUME NEW j \in m + 1 .. Len(File(n)) PROVE counted'[File(n)[j]] = 0
    BY <1>2 DEF Fresh
  <2>1. Len(File(n)) \in Nat /\ j \in 1..Len(File(n)) /\ File(n)[j] \in Lines
    BY FileFacts, WrittenLines
  <2>2. counted[File(n)[j]] = 0
    BY <1>3 DEF Once, FreshRun, Fresh
  <2>3. n < Head(todo).copy
    <3>1. 1 \in 1..Len(todo) /\ t \in 1..Len(todo) /\ 1 < t
      BY <1>2
    <3>2. todo[1].copy > todo[t].copy
      BY <1>2, <3>1 DEF Order
    <3> QED BY <1>2, <1>3, <3>2 DEF Numbers
  <2>4. \A e \in events : e.line # File(n)[j]
    BY <1>2, <2>1, <2>3, FilesDiffer
  <2> QED BY <1>1, <2>1, <2>2, <2>4
<1>4. ASSUME NEW j \in 1..Len(OpenFile), j > offset, counted[OpenFile[j]] = 0
      PROVE  counted'[OpenFile[j]] = 0
  <2>1. OpenFile[j] \in Lines
    BY <1>2, FileFacts, WrittenLines
  <2>2. ASSUME NEW e \in events PROVE e.line # OpenFile[j]
    <3>1. e.at + 1 \in 1..Len(File(Head(todo).copy)) /\ e.at \in Nat /\ e.at + 1 < j
      BY <1>2, <1>4 DEF Event
    <3>2. j \in 1..Len(File(Head(todo).copy))
      BY <1>2
    <3> QED BY <1>2, <3>1, <3>2, FilesOrdered
  <2> QED BY <1>1, <1>4, <2>1, <2>2
<1> QED BY <1>1, <1>3, <1>4

LEMMA OnceReadLine ==
  ASSUME TypeInv, OrderInv, orderly, Once, ReadLine
  PROVE  Once'
<1> DEFINE i == OpenFile[pos + 1]
<1>0. /\ pc = "read" /\ pos < Len(OpenFile) /\ pos' = pos + 1
      /\ pending' = PendingAfter(i)
      /\ UNCHANGED <<written, live, copies, rotating, pc, todo, head, text, size,
                     unread, orderly, named>>
      /\ \/ Store(BatchAfter(i), pos + 1) /\ batch' = {} /\ PendingAfter(i) = {}
         \/ batch' = BatchAfter(i) /\ UNCHANGED <<cursor, counted>>
      /\ Busy
  BY DEF ReadLine, logVars, dbVars, Busy
<1>1. /\ i \in Lines /\ written[i] \in LineType /\ pos \in Nat /\ Len(OpenFile) \in Nat
      /\ \A e \in batch : e.at \in Nat /\ e.at < pos /\ e.line = OpenFile[e.at + 1]
      /\ ~rotating /\ Order
  BY <1>0, LineAtHand, LogFileFacts DEF TypeInv, RunTyped, Event, OrderInv, Order
<1> HIDE DEF i
<1>2. BatchAfter(i) \subseteq Event /\ PendingAfter(i) \subseteq Waiting
  BY <1>1, AfterType
<1>3. \A e \in BatchAfter(i) : e \in batch \/ (e.line = i /\ e.at = pos)
  BY DEF BatchAfter, LineStart
<1>4. \A p \in PendingAfter(i) : p \in pending \/ p.at = pos
  BY DEF PendingAfter, LineStart
<1>5. counted[i] = 0 /\ \A e \in batch : counted[e.line] = 0
  BY <1>0, <1>1 DEF Once, FreshRun, i
<1>6. OpenFile' = OpenFile /\ \A n : File(n)' = File(n)
  BY <1>0 DEF File, CopyNamed, OpenFile, OnLive
<1>7. \A e \in BatchAfter(i) :
         /\ e.at < pos + 1 /\ e.at + 1 \in 1..Len(OpenFile)
         /\ e.line = OpenFile[e.at + 1] /\ counted[e.line] = 0
  BY <1>0, <1>1, <1>3, <1>5 DEF i
<1>8. CASE Store(BatchAfter(i), pos + 1) /\ batch' = {} /\ PendingAfter(i) = {}
  <2>1. /\ \A l \in Lines : counted'[l] <= 1
        /\ \A t \in 2..Len(todo), n \in Numbers, m \in Nat :
             n = todo[t].copy /\ m = todo[t].from => Fresh(File(n), m)'
        /\ \A j \in 1..Len(OpenFile) :
             j > pos + 1 /\ counted[OpenFile[j]] = 0 => counted'[OpenFile[j]] = 0
    <3>1. pos + 1 \in Nat /\ UNCHANGED <<live, copies>> /\ pc = "read"
      BY <1>0, <1>1
    <3>2. Store(BatchAfter(i), pos + 1)
      BY <1>8
    <3> QED BY <1>2, <1>7, <3>1, <3>2, OnceStore
  <2>2. \A j \in 1..Len(OpenFile) : j > pos + 1 => counted'[OpenFile[j]] = 0
    BY <1>0, <1>1, <2>1 DEF Once, FreshRun
  <2>3. FreshRun'
    <3>1. \A t \in 2..Len(todo) : t \in 1..Len(todo)
      BY <1>0, TodoFacts
    <3>2. \A t \in 2..Len(todo) : todo[t].copy \in Numbers /\ todo[t].from \in Nat
      BY <1>0, <3>1, TodoFacts
    <3>3. \A t \in 2..Len(todo) : Fresh(File(todo[t].copy), todo[t].from)'
      BY <1>0, <2>1, <3>2
    <3> QED BY <1>0, <1>6, <1>8, <2>2, <3>3 DEF FreshRun
  <2>4. FreshCursor'
    <3> SUFFICES ASSUME copies = <<>> PROVE FreshCursor'
      BY <1>0 DEF FreshCursor
    <3>1. OnLive
      BY <1>0, LiveIsLast
    <3>2. cursor' = [offset |-> pos + 1, head |-> head] /\ OpenFile = live
      BY <1>8, <3>1 DEF Store, OpenFile
    <3>3. AtLive'
      BY <1>0, <1>1, <3>2 DEF AtLive, Order
    <3>4. Fresh(live, cursor.offset)'
      BY <1>0, <1>1, <2>2, <3>2 DEF Fresh
    <3>5. cursor' # NoCursor
      <4>1. head \in Nat
        BY IngestAssumption DEF TypeInv, RunTyped
      <4> QED BY <3>2, <4>1 DEF NoCursor
    <3> QED BY <3>3, <3>4, <3>5 DEF FreshCursor
  <2> QED BY <1>0, <1>1, <2>1, <2>3, <2>4 DEF Once, OneRotation
<1>9. CASE batch' = BatchAfter(i) /\ UNCHANGED <<cursor, counted>>
  <2>1. \A t \in 2..Len(todo) : Fresh(File(todo[t].copy), todo[t].from)'
    BY <1>0, <1>6, <1>9 DEF Once, FreshRun, Fresh
  <2>2. ASSUME NEW j \in 1..Len(OpenFile), j > pos + 1 \/ \E p \in PendingAfter(i) : p.at < j
        PROVE  counted[OpenFile[j]] = 0
    BY <1>0, <1>1, <1>4, <2>2 DEF Once, FreshRun
  <2>3. FreshRun'
    BY <1>0, <1>6, <1>7, <1>9, <2>1, <2>2 DEF FreshRun
  <2>4. FreshCursor'
    <3>1. CASE copies = <<>>
      BY <1>0, <1>9, <3>1, FreshCursorStays DEF Once
    <3>2. CASE copies # <<>>
      BY <1>0, <3>2 DEF FreshCursor
    <3> QED BY <3>1, <3>2
  <2> QED BY <1>0, <1>9, <2>3, <2>4 DEF Once, OneRotation
<1> QED BY <1>0, <1>8, <1>9

LEMMA OnceEndOfFile ==
  ASSUME TypeInv, OrderInv, orderly, Once, EndOfFile
  PROVE  Once'
<1>0. /\ pc = "read" /\ pos >= Len(OpenFile) /\ Store(Kept, End)
      /\ UNCHANGED <<written, live, copies, rotating, orderly, named>>
      /\ Busy
  BY DEF EndOfFile, logVars, Busy
<1>1. /\ pos \in Nat /\ Len(OpenFile) = pos /\ Order /\ ~rotating
      /\ \A e \in batch : e.at \in Nat /\ e.at < pos /\ e.line = OpenFile[e.at + 1]
      /\ \A p \in pending : p.at \in Nat
  BY <1>0, OpenLines DEF OrderInv, Order, TypeInv, RunTyped, Event, Waiting
<1>2. Kept \subseteq Event
  BY DEF Kept, TypeInv, RunTyped
<1>3. /\ End \in Nat /\ End <= pos /\ (~OnLive => End = pos)
      /\ End # pos => \E p \in pending : p.at = End
  BY <1>1, EndOf
<1>4. \A e \in Kept :
         /\ e.at < End /\ e.at + 1 \in 1..Len(OpenFile)
         /\ e.line = OpenFile[e.at + 1] /\ counted[e.line] = 0
  BY <1>0, <1>1, <1>3 DEF Kept, Once, FreshRun
<1>5. /\ \A l \in Lines : counted'[l] <= 1
      /\ \A t \in 2..Len(todo), n \in Numbers, m \in Nat :
           n = todo[t].copy /\ m = todo[t].from => Fresh(File(n), m)'
      /\ \A j \in 1..Len(OpenFile) :
           j > End /\ counted[OpenFile[j]] = 0 => counted'[OpenFile[j]] = 0
  BY <1>0, <1>2, <1>3, <1>4, OnceStore
<1>6. CASE OnLive
  <2>1. Tail(todo) = <<>>
    BY <1>0, <1>6, LiveIsLast
  <2>2. pc' = "idle" /\ unread' = 0
    BY <2>1 DEF EndOfFile, NoRun
  <2>3. cursor' = [offset |-> End, head |-> head] /\ OpenFile = live
    BY <1>0, <1>6 DEF Store, OpenFile
  <2>4. AtLive'
    BY <1>0, <1>1, <1>3, <2>2, <2>3 DEF AtLive, Order
  <2>5. \A j \in 1..Len(OpenFile) : j > End => counted'[OpenFile[j]] = 0
    <3> SUFFICES ASSUME NEW j \in 1..Len(OpenFile), j > End PROVE counted'[OpenFile[j]] = 0
      OBVIOUS
    <3>1. \E p \in pending : p.at < j
      BY <1>1, <1>3
    <3>2. counted[OpenFile[j]] = 0
      BY <1>0, <3>1 DEF Once, FreshRun
    <3> QED BY <1>5, <3>2
  <2>6. Fresh(live, cursor.offset)'
    BY <1>0, <1>1, <1>3, <2>3, <2>5 DEF Fresh
  <2>7. cursor' # NoCursor
    <3>1. head \in Nat
      BY IngestAssumption DEF TypeInv, RunTyped
    <3> QED BY <2>3, <3>1 DEF NoCursor
  <2> QED BY <1>5, <2>2, <2>4, <2>6, <2>7 DEF Once, OneRotation, FreshCursor, FreshRun
<1>7. CASE ~OnLive
  <2>1. Tail(todo) # <<>> /\ Head(todo).copy \in 1..Len(copies)
    BY <1>0, <1>7, LiveIsLast
  <2>2. pc' = "open" /\ todo' = Tail(todo)
    BY <2>1 DEF EndOfFile
  <2>3. /\ Len(todo) \in Nat /\ Len(todo') = Len(todo) - 1
        /\ \A t \in 1..Len(todo') : todo'[t] = todo[t + 1] /\ t + 1 \in 2..Len(todo)
                                      /\ t + 1 \in 1..Len(todo)
    <3>1. todo \in Seq(Entry) /\ todo # <<>>
      BY <1>0 DEF TypeInv, RunTyped, RunOK
    <3> QED BY <2>2, <3>1
  <2>4. \A t \in 1..Len(todo') : Fresh(File(todo[t].copy), todo[t].from)'
    <3> SUFFICES ASSUME NEW t \in 1..Len(todo')
                 PROVE  Fresh(File(todo[t].copy), todo[t].from)'
      OBVIOUS
    <3>1. t + 1 \in 2..Len(todo) /\ t + 1 \in 1..Len(todo) /\ todo'[t] = todo[t + 1]
      BY <2>3
    <3>2. \A n \in Numbers, m \in Nat :
             n = todo'[t].copy /\ m = todo'[t].from => Fresh(File(n), m)'
      BY <1>5, <3>1
    <3>3. todo'[t].copy \in Numbers /\ todo'[t].from \in Nat
      BY <1>0, <3>1, TodoFacts
    <3> QED BY <3>2, <3>3
  <2>5. copies' # <<>>
    BY <1>0, <2>1 DEF TypeInv, LogTyped
  <2> QED BY <1>0, <1>1, <1>5, <2>2, <2>4, <2>5 DEF Once, OneRotation, FreshCursor, FreshRun
<1> QED BY <1>6, <1>7

LEMMA OnceNext == TypeInv /\ OrderInv /\ OnceInv /\ [Next]_vars => OnceInv'
<1> SUFFICES ASSUME TypeInv, OrderInv, OnceInv, [Next]_vars, Unharmed' PROVE Once'
  BY LaterNext DEF OnceInv
<1>0. Unharmed /\ orderly /\ LaterUncounted /\ Once
  <2>1. orderly' => orderly
    BY DEF Next, Log, Tick, LogRPZ, LogReply, Append1, Rotate, CopyLog, TruncateLog, Run,
           Begin, Decide, Open, ReadLine, EndOfFile, Crash, vars
  <2>2. crashes' = 0 => crashes = 0
    <3>1. crashes \in Nat
      BY IngestAssumption DEF TypeInv, RestTyped
    <3>2. crashes' = crashes \/ crashes' = crashes + 1
      BY DEF Next, Log, Tick, LogRPZ, LogReply, Append1, Rotate, CopyLog,
             TruncateLog, Run, Begin, Decide, Open, ReadLine, EndOfFile, Crash, vars
    <3> QED BY <3>1, <3>2
  <2>3. copies' = <<>> => copies = <<>>
    <3>1. CopyLog => copies' # <<>>
      <4>1. copies \in Seq(LogFile) /\ Len(copies) \in Nat
        BY DEF TypeInv, LogTyped
      <4>2. copies' = Append(copies, live) => Len(copies') = Len(copies) + 1
        BY <4>1
      <4> QED BY <4>1, <4>2 DEF CopyLog
    <3> QED BY <3>1 DEF Next, Log, Tick, LogRPZ, LogReply, Append1, Rotate, TruncateLog,
               Run, Begin, Decide, Open, ReadLine, EndOfFile, Crash, vars, logVars
  <2> QED BY <2>1, <2>2, <2>3 DEF Unharmed, OnceInv
<1>1. CASE Log
  BY <1>0, <1>1, OnceLog
<1>2. CASE Rotate
  BY <1>0, <1>2, OnceRotate DEF Unharmed
<1>3. CASE Begin
  <2>1. /\ pc = "idle" /\ pc' = "head" /\ size' = Len(live)
        /\ UNCHANGED <<live, copies, rotating, written, cursor, counted, named, unread>>
    BY <1>3 DEF Begin, logVars, dbVars
  <2>2. FreshCursor'
    BY <1>0, <2>1, FreshCursorStays DEF Once
  <2> QED BY <1>0, <2>1, <2>2 DEF Once, OneRotation, FreshRun
<1>4. CASE Decide
  BY <1>0, <1>4, OnceDecide
<1>5. CASE Open
  BY <1>0, <1>5, OnceOpen
<1>6. CASE ReadLine
  BY <1>0, <1>6, OnceReadLine
<1>7. CASE EndOfFile
  BY <1>0, <1>7, OnceEndOfFile
<1>8. CASE Crash
  \* A killed run leaves no trace as long as nothing was rotated.
  <2>1. /\ pc' = "idle" /\ crashes' = crashes + 1 /\ crashes \in Nat
        /\ UNCHANGED <<live, copies, rotating, written, cursor, counted, named, unread>>
    BY <1>8, IngestAssumption DEF Crash, NoRun, logVars, dbVars, TypeInv, RestTyped
  <2>2. copies = <<>>
    BY <2>1 DEF Unharmed
  <2>3. FreshCursor'
    BY <1>0, <2>1, <2>2, FreshCursorStays DEF Once
  <2> QED BY <1>0, <2>1, <2>3 DEF Once, OneRotation, FreshRun
<1>9. CASE UNCHANGED vars
  BY <1>0, <1>9, SMTT(60) DEF vars, logVars, dbVars, runVars, Once, OneRotation, FreshCursor, FreshRun,
         AtLive, AtCopy, Base, Fresh, Numbers, File, CopyNamed, OpenFile, OnLive
<1> QED BY <1>1, <1>2, <1>3, <1>4, <1>5, <1>6, <1>7, <1>8, <1>9 DEF Next, Run

(***************************************************************************)
(* Nothing is counted twice: no reply, by no run and no two runs, as long  *)
(* as none was killed or nothing was rotated.                              *)
(***************************************************************************)
THEOREM CountsOnce == Spec => []CountedOnce
<1>1. Init => OnceInv
  BY DEF Init, OnceInv, LaterUncounted, Once, OneRotation, FreshCursor, FreshRun, Fresh,
         Numbers, File
<1>2. OnceInv => CountedOnce
  BY DEF OnceInv, Unharmed, Once, CountedOnce
<1> QED BY <1>1, <1>2, TypeInit, OrderInit, TypeNext, OrderNext, OnceNext, PTL DEF Spec

-----------------------------------------------------------------------------
(* Policies.  unbound writes the reply to an RPZ line before another line  *)
(* of the same key and before time passes (Answers), so that the RPZ line  *)
(* waits in pending when its reply is read (CutRead).  It would be missing *)
(* only if the run began between the two; but where a run begins divides   *)
(* no query from its reply, unless another RPZ line does (Cut).            *)

\* Line b of the log w is an RPZ line that line n, of this key and time, answers.
Answers(w, b, k, n, t) ==
  /\ b \in 1..n - 1
  /\ w[b].kind = "rpz" /\ w[b].key = k /\ w[b].ts = t
  /\ \A j \in b + 1..n - 1 : w[j].key # k /\ w[j].ts = t

QueryInv ==
  /\ \A i \in 1..Len(written) : written[i].by # 0 =>
       IsReply(i) /\ Answers(written, written[i].by, written[i].key, i, written[i].ts)
  /\ \A k \in Keys : asked[k] # 0 => Answers(written, asked[k], k, Len(written) + 1, clock)

\* A query before offset o of f and its reply behind it have an RPZ line
\* between them, and no reply is still to come to a query before o.
Cut(w, f, o) ==
  \A q \in 1..o, r \in o + 1..Len(f) :
    w[f[r]].by = f[q] => \E j \in f[q] + 1..f[r] - 1 : w[j].kind = "rpz"
NoneAsked(f, o) == \A q \in 1..o, k \in Keys : asked[k] # f[q]

CutCursor ==
  cursor # NoCursor =>
    \/ AtLive /\ Cut(written, live, cursor.offset) /\ NoneAsked(live, cursor.offset)
    \/ AtCopy /\ Cut(written, CopyNamed(1), cursor.offset)

CutTodo ==
  \A t \in 1..Len(todo) :
    /\ Cut(written, File(todo[t].copy), todo[t].from)
    /\ todo[t].copy = 0 => NoneAsked(live, todo[t].from)

\* Between where it began and where it is, a run waits for the replies to come.
ReadSoFar == Head(todo).from + 1..pos
WaitsFor(q) ==
  [key |-> written[OpenFile[q]].key, ts |-> written[OpenFile[q]].ts, at |-> q - 1] \in pending
OnlyQueries == \A p \in pending : written[OpenFile[p.at + 1]].kind = "rpz"
WaitsForReplies ==
  \A q \in ReadSoFar, r \in pos + 1..Len(OpenFile) :
    written[OpenFile[r]].by = OpenFile[q] => WaitsFor(q)
WaitsForAsked ==
  OnLive => \A q \in ReadSoFar, k \in Keys : asked[k] = OpenFile[q] => WaitsFor(q)
BatchLabelled ==
  \A e \in batch, q \in 1..Len(OpenFile) :
    written[e.line].by = OpenFile[q] /\ Undivided(e.line) => e.policy
CutRead == OnlyQueries /\ WaitsForReplies /\ WaitsForAsked /\ BatchLabelled

Labelled == \A i \in Replies : SameFile(i) /\ Undivided(i) => Paired(i)

Together ==
  CutCursor /\ (Busy => CutTodo) /\ (pc = "read" => CutRead) /\ Labelled

PolicyInv == orderly /\ named => Together

\* The first n - 1 lines of a log decide what line n answers.
LEMMA AnswersStays ==
  ASSUME NEW w, NEW v, NEW b, NEW k, NEW n \in Nat, NEW t, Answers(w, b, k, n, t),
         \A j \in 1..n - 1 : v[j] = w[j]
  PROVE  Answers(v, b, k, n, t)
<1>1. \A j \in b + 1..n - 1 : j \in 1..n - 1
  BY DEF Answers
<1> QED BY <1>1 DEF Answers

LEMMA QueryNext == TypeInv /\ QueryInv /\ [Next]_vars => QueryInv'
<1> SUFFICES ASSUME TypeInv, QueryInv, [Next]_vars PROVE QueryInv'
  OBVIOUS
<1>0. Len(written) \in Nat
  BY DEF TypeInv, LogTyped
<1>1. ASSUME NEW kind, NEW k \in Keys, NEW by, Append1(kind, k, by), NEW a,
             asked' = [asked EXCEPT ![k] = a],
             by # 0 => kind = "reply" /\ by = asked[k],
             a # 0 => kind = "rpz" /\ a = Len(written) + 1
      PROVE  QueryInv'
  <2>1. /\ Len(written') = Len(written) + 1 /\ clock' = clock
        /\ \A i \in 1..Len(written) : written'[i] = written[i]
        /\ written'[Len(written) + 1] = [kind |-> kind, key |-> k, ts |-> clock, by |-> by]
    <3>1. /\ written' = Append(written, [kind |-> kind, key |-> k, ts |-> clock, by |-> by])
          /\ clock' = clock
      BY <1>1 DEF Append1
    <3> QED BY <1>0, <3>1 DEF TypeInv, LogTyped
  <2>2. asked'[k] = a /\ \A x \in Keys : x # k => asked'[x] = asked[x]
    BY <1>1 DEF TypeInv, LogTyped
  <2>3. ASSUME NEW b, NEW x, NEW n \in 1..Len(written) + 1, NEW t, Answers(written, b, x, n, t)
        PROVE  Answers(written', b, x, n, t)
    <3>1. n \in Nat /\ \A j \in 1..n - 1 : written'[j] = written[j]
      BY <1>0, <2>1
    <3> QED BY <2>3, <3>1, AnswersStays
  <2>4. ASSUME NEW i \in 1..Len(written'), written'[i].by # 0
        PROVE  /\ written'[i].kind = "reply"
               /\ Answers(written', written'[i].by, written'[i].key, i, written'[i].ts)
    <3>1. CASE i \in 1..Len(written)
      <4>1. /\ written'[i] = written[i] /\ written[i].kind = "reply"
            /\ Answers(written, written[i].by, written[i].key, i, written[i].ts)
        BY <2>1, <2>4, <3>1 DEF QueryInv, IsReply
      <4>2. i \in 1..Len(written) + 1
        BY <1>0, <3>1
      <4>3. Answers(written', written[i].by, written[i].key, i, written[i].ts)
        BY <2>3, <4>1, <4>2
      <4> QED BY <4>1, <4>3
    <3>2. CASE i = Len(written) + 1
      <4>1. /\ written'[i].by = by /\ written'[i].kind = kind /\ written'[i].key = k
            /\ written'[i].ts = clock
        BY <2>1, <3>2
      <4>2. kind = "reply" /\ by = asked[k] /\ Answers(written, by, k, i, clock)
        BY <1>1, <2>4, <3>2, <4>1 DEF QueryInv
      <4>3. Answers(written', by, k, i, clock)
        BY <1>0, <2>3, <3>2, <4>2
      <4> QED BY <4>1, <4>2, <4>3
    <3> QED BY <1>0, <2>1, <3>1, <3>2
  <2>5. ASSUME NEW x \in Keys, asked'[x] # 0
        PROVE  Answers(written', asked'[x], x, Len(written') + 1, clock)
    <3>1. CASE x = k
      <4>1. asked'[x] = Len(written) + 1 /\ kind = "rpz"
        BY <1>1, <2>2, <2>5, <3>1
      <4> QED BY <1>0, <2>1, <3>1, <4>1 DEF Answers
    <3>2. CASE x # k
      <4>1. /\ asked'[x] = asked[x] /\ Answers(written, asked[x], x, Len(written) + 1, clock)
        BY <2>2, <2>5, <3>2 DEF QueryInv
      <4>2. Answers(written', asked[x], x, Len(written) + 1, clock)
        BY <1>0, <2>3, <4>1
      <4> QED BY <1>0, <2>1, <3>2, <4>1, <4>2 DEF Answers
    <3> QED BY <3>1, <3>2
  <2> QED BY <2>1, <2>4, <2>5 DEF QueryInv, IsReply
<1>2. CASE Tick
  BY <1>2 DEF Tick, QueryInv, IsReply
<1>3. ASSUME NEW k \in Keys, LogRPZ(k) PROVE QueryInv'
  <2>1. /\ Append1("rpz", k, 0) /\ asked' = [asked EXCEPT ![k] = Len(written) + 1]
        /\ asked[k] = 0
    BY <1>3 DEF LogRPZ
  <2> QED BY <1>1, <2>1
<1>4. ASSUME NEW k \in Keys, LogReply(k) PROVE QueryInv'
  <2>1. Append1("reply", k, asked[k]) /\ asked' = [asked EXCEPT ![k] = 0]
    BY <1>4 DEF LogReply
  <2> QED BY <1>1, <2>1
<1>5. CASE UNCHANGED <<written, asked, clock>>
  BY <1>5 DEF QueryInv, IsReply
<1> QED BY <1>2, <1>3, <1>4, <1>5 DEF Next, Log, Rotate, CopyLog, TruncateLog, Run, Begin,
           Decide, Open, ReadLine, EndOfFile, Crash, vars, logVars

\* An offset that divides no query from its reply goes on dividing none when
\* the log grows by lines that answer nothing before it.
LEMMA CutOf ==
  ASSUME NEW w, NEW v, NEW f, NEW g, NEW o \in Nat, NEW m \in Nat,
         Len(f) \in Nat, Len(g) \in Nat, Cut(w, f, o),
         \A i \in 1..m : v[i] = w[i],
         \A j \in 1..Len(f) : f[j] \in 1..m,
         \A j \in 1..Len(g) : j <= Len(f) => g[j] = f[j],
         \A j \in 1..Len(g) : j > Len(f) => \A q \in 1..o : v[g[j]].by # g[q]
  PROVE  Cut(v, g, o)
<1> SUFFICES ASSUME NEW q \in 1..o, NEW r \in o + 1..Len(g), v[g[r]].by = g[q]
             PROVE  \E j \in g[q] + 1..g[r] - 1 : v[j].kind = "rpz"
  BY DEF Cut
<1>1. r <= Len(f)
  OBVIOUS
<1>2. r \in 1..Len(f) /\ q \in 1..Len(f) /\ r \in o + 1..Len(f)
      /\ r \in 1..Len(g) /\ q \in 1..Len(g) /\ q <= Len(f)
  BY <1>1
<1>3. g[r] = f[r] /\ g[q] = f[q] /\ f[r] \in 1..m /\ f[q] \in 1..m
  BY <1>2
<1>4. w[f[r]].by = f[q]
  BY <1>3
<1>5. PICK j \in f[q] + 1..f[r] - 1 : w[j].kind = "rpz"
  BY <1>2, <1>4 DEF Cut
<1>6. j \in 1..m
  BY <1>3
<1> QED BY <1>3, <1>5, <1>6

\* Without rotation a line is in one file.
LEMMA OneFile ==
  ASSUME TypeInv, ~rotating, NEW n \in Numbers, NEW j \in 1..Len(File(n)),
         SameFile(File(n)[j])
  PROVE  \E q \in 1..Len(File(n)) : File(n)[q] = written[File(n)[j]].by
<1> DEFINE i == File(n)[j]
           b == written[i].by
<1>0. Len(copies) \in Nat /\ n \in Nat
  BY DEF TypeInv, LogTyped, Numbers
<1>1. PICK f \in {live} \cup ToSet(copies) : {i, b} \subseteq ToSet(f)
  BY DEF SameFile
<1>2. \E m \in Numbers : f = File(m)
  <2>1. CASE f = live
    BY <1>0, <2>1 DEF Numbers, File
  <2>2. CASE f \in ToSet(copies)
    <3>1. PICK c \in DOMAIN copies : f = copies[c]
      BY <2>2 DEF ToSet
    <3>2. /\ c \in 1..Len(copies) /\ Len(copies) + 1 - c \in Numbers
          /\ Len(copies) + 1 - c # 0
          /\ Len(copies) + 1 - (Len(copies) + 1 - c) = c
      BY <1>0, <3>1 DEF TypeInv, LogTyped, Numbers
    <3> QED BY <3>1, <3>2 DEF File, CopyNamed
  <2> QED BY <2>1, <2>2
<1>3. PICK m \in Numbers : f = File(m)
  BY <1>2
<1>4. f \in Seq(Lines) /\ DOMAIN f = 1..Len(f)
  BY <1>3, FileFacts DEF LogFile
<1>5. \E k \in 1..Len(f) : f[k] = i
  BY <1>1, <1>4 DEF ToSet
<1>6. \E q \in 1..Len(f) : f[q] = b
  BY <1>1, <1>4 DEF ToSet
<1>7. m = n
  <2>1. m \in Nat
    BY <1>0 DEF Numbers
  <2>2. ~(m < n) /\ ~(n < m)
    BY <1>3, <1>5, FilesDiffer
  <2> QED BY <1>0, <2>1, <2>2
<1> QED BY <1>3, <1>6, <1>7

\* A line between a query and its reply leaves the query waiting.
LEMMA WaitsOn ==
  ASSUME TypeInv, NEW i \in 1..Len(written), NEW b \in 1..Len(written),
         written[i].key # written[b].key, written[i].ts = written[b].ts, NEW at,
         [key |-> written[b].key, ts |-> written[b].ts, at |-> at] \in pending
  PROVE  [key |-> written[b].key, ts |-> written[b].ts, at |-> at] \in PendingAfter(i)
<1> DEFINE p == [key |-> written[b].key, ts |-> written[b].ts, at |-> at]
<1>1. written[i] \in LineType /\ written[b] \in LineType
  BY DEF TypeInv, LogTyped
<1>2. written[i].ts - p.ts <= Window
  BY <1>1, IngestAssumption DEF LineType
<1>3. p \in pending /\ p.key # written[i].key
  OBVIOUS
<1> HIDE DEF p
<1>4. p \in PendingAfter(i)
  BY <1>2, <1>3 DEF PendingAfter
<1> QED BY <1>4 DEF p

LEMMA UndividedStays ==
  ASSUME TypeInv, \A j \in 1..Len(written) : written'[j] = written[j],
         NEW i \in 1..Len(written)
  PROVE  Undivided(i)' <=> Undivided(i)
<1>1. written[i].by \in Nat /\ Len(written) \in Nat
  <2>1. written[i] \in LineType /\ Len(written) \in Nat
    BY DEF TypeInv, LogTyped
  <2> QED BY <2>1, IngestAssumption DEF LineType
<1>2. \A j \in written[i].by + 1 .. i - 1 : j \in 1..Len(written)
  BY <1>1
<1> QED BY <1>2 DEF Undivided

\* A line with another line's place in by is its reply.
LEMMA ReplyTo ==
  ASSUME TypeInv, QueryInv, NEW i \in 1..Len(written), NEW b \in 1..Len(written),
         written[i].by = b
  PROVE  /\ written[i].kind = "reply" /\ b < i
         /\ written[b].kind = "rpz"
         /\ written[b].key = written[i].key /\ written[b].ts = written[i].ts
         /\ \A j \in b + 1..i - 1 :
              written[j].key # written[b].key /\ written[j].ts = written[b].ts
<1>1. Answers(written, b, written[i].key, i, written[i].ts) /\ IsReply(i)
  BY DEF QueryInv
<1>2. b < i
  BY <1>1 DEF Answers
<1> QED BY <1>1, <1>2 DEF Answers, IsReply

\* What unbound's lines and pauses do to what the policies rest on: another
\* line answers no query but the one that was asked.
LogStep ==
  /\ Len(live) <= Len(live') /\ Len(live') <= Len(live) + 1
  /\ \A j \in 1..Len(live) : live'[j] = live[j]
  /\ \A i \in 1..Len(written) : written'[i] = written[i]
  /\ \A x \in Keys : asked'[x] \in {asked[x], 0, Len(written) + 1}
  /\ \A j \in 1..Len(live') : j > Len(live) =>
       /\ live'[j] = Len(written) + 1
       /\ \/ written'[live'[j]].by = 0
          \/ \E x \in Keys : written'[live'[j]].by = asked[x]
  /\ UNCHANGED <<copies, rotating, cursor, counted, labelled, pc, size, head, todo, text,
                 pos, batch, pending, unread, orderly, named>>
  /\ cursor # NoCursor => (AtLive => AtLive') /\ (AtCopy => AtCopy')

LEMMA LogSteps ==
  ASSUME TypeInv, Log
  PROVE  LogStep
<1>0. Len(live) \in Nat /\ Len(written) \in Nat
  BY LogFileFacts DEF TypeInv, LogTyped
<1>1. CASE Tick
  <2>1. \A x \in Keys : asked'[x] = 0
    BY <1>1 DEF Tick
  <2>2. (AtLive => AtLive') /\ (AtCopy => AtCopy')
    BY <1>1 DEF Tick, dbVars, runVars, AtLive, AtCopy, CopyNamed, Base
  <2> QED BY <1>0, <1>1, <2>1, <2>2 DEF Tick, dbVars, runVars, LogStep
<1>2. ASSUME NEW kind, NEW k \in Keys, NEW by, Append1(kind, k, by),
             NEW a, asked' = [asked EXCEPT ![k] = a],
             a \in {0, Len(written) + 1}, by = 0 \/ by = asked[k]
      PROVE  LogStep
  <2>1. /\ Len(live') = Len(live) + 1
        /\ \A j \in 1..Len(live) : live'[j] = live[j]
        /\ live'[Len(live) + 1] = Len(written) + 1
        /\ \A i \in 1..Len(written) : written'[i] = written[i]
        /\ UNCHANGED <<copies, rotating, dbVars, runVars, unread, orderly, named>>
    BY <1>2, LogGrows
  <2>2. written'[Len(written) + 1].by = by
    <3>1. written' = Append(written, [kind |-> kind, key |-> k, ts |-> clock, by |-> by])
      BY <1>2 DEF Append1
    <3>2. written \in Seq(LineType)
      BY DEF TypeInv, LogTyped
    <3>3. written'[Len(written) + 1] = [kind |-> kind, key |-> k, ts |-> clock, by |-> by]
      BY <3>1, <3>2
    <3> QED BY <3>3
  <2>3. \A x \in Keys : asked'[x] \in {asked[x], 0, Len(written) + 1}
    BY <1>2 DEF TypeInv, LogTyped
  <2>4. \A j \in 1..Len(live') : j > Len(live) =>
           /\ live'[j] = Len(written) + 1
           /\ \/ written'[live'[j]].by = 0
              \/ \E x \in Keys : written'[live'[j]].by = asked[x]
    <3> SUFFICES ASSUME NEW j \in 1..Len(live'), j > Len(live)
                 PROVE  /\ live'[j] = Len(written) + 1
                        /\ written'[live'[j]].by = 0 \/ written'[live'[j]].by = asked[k]
      OBVIOUS
    <3>1. j = Len(live) + 1
      BY <1>0, <2>1
    <3> QED BY <1>2, <2>1, <2>2, <3>1
  <2>5. cursor # NoCursor => (AtLive => AtLive') /\ (AtCopy => AtCopy')
    BY <1>2, CursorLog
  <2>6. UNCHANGED <<cursor, counted, labelled, pc, size, head, todo, text, pos, batch, pending>>
    BY <2>1 DEF dbVars, runVars
  <2> QED BY <1>0, <2>1, <2>3, <2>4, <2>5, <2>6 DEF LogStep
<1>3. ASSUME NEW k \in Keys, LogRPZ(k) PROVE LogStep
  BY <1>2, <1>3 DEF LogRPZ
<1>4. ASSUME NEW k \in Keys, LogReply(k) PROVE LogStep
  BY <1>2, <1>4 DEF LogReply
<1> QED BY <1>1, <1>3, <1>4 DEF Log

\* Nothing before an offset of the live log is answered by what comes.
LEMMA LogCut ==
  ASSUME TypeInv, LogStep, NEW o \in Nat, o <= Len(live),
         Cut(written, live, o), NoneAsked(live, o)
  PROVE  Cut(written', live', o) /\ NoneAsked(live, o)'
<1>0. Len(live) \in Nat /\ Len(written) \in Nat /\ Len(live') \in Nat
        /\ \A j \in 1..Len(live) : live[j] \in 1..Len(written)
  <2>1. 0 \in Numbers /\ File(0) = live
    BY DEF Numbers, File, TypeInv, LogTyped
  <2>2. Len(live) \in Nat /\ \A j \in 1..Len(live) : live[j] \in 1..Len(written)
    BY <2>1, FileFacts
  <2>3. Len(written) \in Nat
    BY DEF TypeInv, LogTyped
  <2>4. Len(live') = Len(live) \/ Len(live') = Len(live) + 1
    BY <2>2 DEF LogStep
  <2> QED BY <2>2, <2>3, <2>4
<1>1. \A q \in 1..o : q \in 1..Len(live) /\ live'[q] = live[q]
        /\ live[q] # 0 /\ live[q] # Len(written) + 1
  BY <1>0 DEF LogStep
<1>2. \A q \in 1..o, x \in Keys : asked'[x] # live'[q]
  BY <1>1 DEF NoneAsked, LogStep
<1>3. \A j \in 1..Len(live') : j > Len(live) => \A q \in 1..o : written'[live'[j]].by # live'[q]
  BY <1>1 DEF NoneAsked, LogStep
<1>4. Cut(written', live', o)
  BY <1>0, <1>3, CutOf DEF LogStep
<1> QED BY <1>2, <1>4 DEF NoneAsked

\* The file that is open, and the line at each place.
LEMMA LogOpen ==
  ASSUME TypeInv, OrderInv, orderly, LogStep, pc = "read"
  PROVE  /\ Len(OpenFile) \in Nat /\ Len(OpenFile') \in Nat
         /\ Len(OpenFile) <= Len(OpenFile') /\ pos \in Nat /\ pos <= Len(OpenFile)
         /\ Head(todo).from \in Nat /\ ReadSoFar' = ReadSoFar /\ OnLive' = OnLive
         /\ \A j \in 1..Len(OpenFile) :
              OpenFile'[j] = OpenFile[j] /\ OpenFile[j] \in 1..Len(written)
         /\ \A j \in 1..Len(OpenFile') : j > Len(OpenFile) =>
              /\ OnLive /\ OpenFile'[j] = Len(written) + 1
              /\ \/ written'[OpenFile'[j]].by = 0
                 \/ \E x \in Keys : written'[OpenFile'[j]].by = asked[x]
<1>1. /\ Len(OpenFile) \in Nat /\ \A j \in 1..Len(OpenFile) : OpenFile[j] \in 1..Len(written)
      /\ pos \in Nat /\ pos <= Len(OpenFile) /\ Head(todo).from \in Nat
  BY OpenLines, TodoFacts DEF OrderInv, Order, Busy, TypeInv, RunTyped
<1>2. OnLive' = OnLive /\ ReadSoFar' = ReadSoFar
  BY DEF OnLive, ReadSoFar, LogStep
<1>3. CASE OnLive
  <2>1. OpenFile = live /\ OpenFile' = live'
    BY <1>2, <1>3 DEF OpenFile
  <2>2. Len(live') = Len(live) \/ Len(live') = Len(live) + 1
    BY <1>1, <2>1 DEF LogStep
  <2> QED BY <1>1, <1>2, <1>3, <2>1, <2>2 DEF LogStep
<1>4. CASE ~OnLive
  <2>1. OpenFile' = OpenFile
    BY <1>2, <1>4 DEF OpenFile, LogStep
  <2> QED BY <1>1, <1>2, <2>1
<1> QED BY <1>3, <1>4

LEMMA ReadLog ==
  ASSUME TypeInv, OrderInv, orderly, QueryInv, LaterUncounted, LogStep, pc = "read", CutRead
  PROVE  CutRead'
<1>0. /\ Len(OpenFile) \in Nat /\ Len(OpenFile') \in Nat
      /\ Len(OpenFile) <= Len(OpenFile') /\ pos \in Nat /\ pos <= Len(OpenFile)
      /\ Head(todo).from \in Nat /\ ReadSoFar' = ReadSoFar /\ OnLive' = OnLive
      /\ pos' = pos /\ pending' = pending /\ batch' = batch /\ Len(written) \in Nat
  BY LogOpen DEF LogStep, TypeInv, LogTyped
<1>1. \A j \in 1..Len(OpenFile) :
        /\ OpenFile'[j] = OpenFile[j] /\ OpenFile[j] \in 1..Len(written)
        /\ written'[OpenFile[j]] = written[OpenFile[j]]
  BY LogOpen DEF LogStep
<1>2. \A j \in 1..Len(OpenFile') : j > Len(OpenFile) =>
        /\ OnLive /\ OpenFile'[j] = Len(written) + 1
        /\ \/ written'[OpenFile'[j]].by = 0
           \/ \E x \in Keys : written'[OpenFile'[j]].by = asked[x]
  BY LogOpen
<1>3. \A q \in ReadSoFar : q \in 1..Len(OpenFile)
  BY <1>0 DEF ReadSoFar
<1>4. \A q \in 1..Len(OpenFile) : WaitsFor(q)' <=> WaitsFor(q)
  BY <1>0, <1>1 DEF WaitsFor
<1>5. OnlyQueries'
  <2> SUFFICES ASSUME NEW p \in pending PROVE written'[OpenFile'[p.at + 1]].kind = "rpz"
    BY <1>0 DEF OnlyQueries
  <2>1. p.at + 1 \in 1..Len(OpenFile)
    BY <1>0 DEF OrderInv, Order, TypeInv, RunTyped, Waiting
  <2> QED BY <1>1, <2>1 DEF CutRead, OnlyQueries
<1>6. WaitsForReplies'
  <2> SUFFICES ASSUME NEW q \in ReadSoFar, NEW r \in pos + 1..Len(OpenFile'),
                      written'[OpenFile'[r]].by = OpenFile'[q]
               PROVE  WaitsFor(q)
    BY <1>0, <1>3, <1>4 DEF WaitsForReplies
  <2>1. q \in 1..Len(OpenFile) /\ OpenFile'[q] = OpenFile[q] /\ OpenFile[q] # 0
    BY <1>1, <1>3
  <2>2. CASE r <= Len(OpenFile)
    <3>1. r \in pos + 1..Len(OpenFile) /\ r \in 1..Len(OpenFile)
      BY <1>0, <2>2
    <3> QED BY <1>1, <2>1, <3>1 DEF CutRead, WaitsForReplies
  <2>3. CASE r > Len(OpenFile)
    <3>1. r \in 1..Len(OpenFile')
      BY <1>0
    <3>2. OnLive /\ \E x \in Keys : OpenFile[q] = asked[x]
      BY <1>2, <2>1, <2>3, <3>1
    <3> QED BY <3>2 DEF CutRead, WaitsForAsked
  <2> QED BY <1>0, <2>2, <2>3
<1>7. WaitsForAsked'
  <2> SUFFICES ASSUME OnLive, NEW q \in ReadSoFar, NEW x \in Keys, asked'[x] = OpenFile'[q]
               PROVE  WaitsFor(q)
    BY <1>0, <1>3, <1>4 DEF WaitsForAsked
  <2>1. /\ q \in 1..Len(OpenFile) /\ OpenFile'[q] = OpenFile[q]
        /\ OpenFile[q] # 0 /\ OpenFile[q] # Len(written) + 1
    BY <1>0, <1>1, <1>3
  <2>2. asked[x] = OpenFile[q]
    BY <2>1 DEF LogStep
  <2> QED BY <2>2 DEF CutRead, WaitsForAsked
<1>8. BatchLabelled'
  <2> SUFFICES ASSUME NEW e \in batch, NEW q \in 1..Len(OpenFile'),
                      written'[e.line].by = OpenFile'[q], Undivided(e.line)'
               PROVE  e.policy
    BY <1>0 DEF BatchLabelled
  <2>1. e.line \in 1..Len(written)
    BY <1>0, IngestAssumption DEF LaterUncounted, TypeInv, RunTyped, Event, Lines
  <2>2. written'[e.line] = written[e.line] /\ Undivided(e.line)
    BY <2>1, UndividedStays DEF LogStep
  <2>3. CASE q \in 1..Len(OpenFile)
    BY <1>1, <2>2, <2>3 DEF CutRead, BatchLabelled
  <2>4. CASE q > Len(OpenFile)
    <3>1. written[e.line].by = Len(written) + 1
      BY <1>2, <2>2, <2>4
    <3>2. written[e.line].by \in 1..e.line - 1
      BY <1>0, <2>1, <3>1 DEF QueryInv, Answers
    <3> QED BY <1>0, <2>1, <3>1, <3>2
  <2> QED BY <1>0, <2>3, <2>4
<1> QED BY <1>5, <1>6, <1>7, <1>8 DEF CutRead

LEMMA LabelledLog ==
  ASSUME TypeInv, TypeInv', QueryInv, LaterUncounted, LogStep, Labelled
  PROVE  Labelled'
<1> SUFFICES ASSUME NEW i \in Replies', SameFile(i)', Undivided(i)',
                    counted[i] > 0, written'[i].by # 0
             PROVE  i \in labelled
  BY DEF Labelled, Paired, LogStep
<1>0. Len(written) \in Nat /\ Len(live) \in Nat /\ i \in 1..Len(written')
        /\ copies' = copies
  BY LogFileFacts DEF TypeInv, LogTyped, Replies, LogStep
<1>1. i \in 1..Len(written)
  <2>1. i \in Lines
    BY <1>0, IngestAssumption DEF TypeInv, LogTyped, Lines
  <2>2. ~(i > Len(written))
    BY <2>1 DEF LaterUncounted
  <2> QED BY <1>0, <2>2
<1>2. /\ written'[i] = written[i] /\ Undivided(i) /\ i \in Replies
  BY <1>0, <1>1, UndividedStays DEF Replies, LogStep
<1>3. SameFile(i)
  <2>1. PICK f \in {live'} \cup ToSet(copies) : {i, written[i].by} \subseteq ToSet(f)
    BY <1>0, <1>2 DEF SameFile
  <2>2. CASE f \in ToSet(copies)
    BY <2>1, <2>2 DEF SameFile
  <2>3. CASE f = live'
    <3>1. /\ live \in Seq(Lines) /\ live' \in Seq(Lines)
          /\ DOMAIN live = 1..Len(live) /\ DOMAIN live' = 1..Len(live')
      BY DEF TypeInv, LogTyped, LogFile
    <3>2. \A x \in 1..Len(written) : x \in ToSet(live') => x \in ToSet(live)
      <4> SUFFICES ASSUME NEW x \in 1..Len(written), NEW j \in 1..Len(live'), live'[j] = x
                   PROVE  x \in ToSet(live)
        BY <3>1 DEF ToSet
      <4>1. j <= Len(live)
        BY <1>0 DEF LogStep
      <4>2. j \in 1..Len(live) /\ live[j] = x
        BY <1>0, <4>1 DEF LogStep
      <4> QED BY <3>1, <4>2 DEF ToSet
    <3>3. written[i].by \in 1..Len(written)
      BY <1>0, <1>1, <1>2 DEF QueryInv, Answers
    <3> QED BY <1>1, <2>1, <2>3, <3>2, <3>3 DEF SameFile
  <2> QED BY <2>1, <2>2, <2>3
<1> QED BY <1>2, <1>3 DEF Labelled, Paired, LogStep

LEMMA TogetherLog ==
  ASSUME TypeInv, TypeInv', OrderInv, orderly, QueryInv, LaterUncounted, Together, Log
  PROVE  Together'
<1>0. LogStep
  BY LogSteps
<1>1. Len(live) \in Nat /\ Len(copies) \in Nat /\ Len(written) \in Nat
  BY LogFileFacts DEF TypeInv, LogTyped
<1>2. ASSUME NEW n \in 1..Len(copies), NEW o \in Nat, Cut(written, CopyNamed(n), o)
      PROVE  Cut(written, CopyNamed(n), o)'
  <2>1. n \in Numbers /\ File(n) = CopyNamed(n) /\ CopyNamed(n)' = CopyNamed(n)
    BY <1>0, <1>1 DEF Numbers, File, CopyNamed, LogStep
  <2>2. Len(CopyNamed(n)) \in Nat
        /\ \A j \in 1..Len(CopyNamed(n)) : CopyNamed(n)[j] \in 1..Len(written)
    BY <2>1, FileFacts
  <2>3. Cut(written', CopyNamed(n), o)
    BY <1>0, <1>1, <1>2, <2>2, CutOf DEF LogStep
  <2> QED BY <2>1, <2>3
<1>3. CutCursor'
  <2> SUFFICES ASSUME cursor # NoCursor PROVE CutCursor'
    BY <1>0 DEF CutCursor, LogStep
  <2>0. cursor.offset \in Nat /\ cursor' = cursor
    BY <1>0 DEF TypeInv, DbTyped, Cursor, LogStep
  <2>1. CASE AtLive /\ Cut(written, live, cursor.offset) /\ NoneAsked(live, cursor.offset)
    <3>1. AtLive' /\ cursor.offset <= Len(live)
      BY <1>0, <2>1 DEF LogStep, AtLive
    <3>2. Cut(written', live', cursor.offset) /\ NoneAsked(live, cursor.offset)'
      <4>1. \A o \in Nat : o = cursor.offset =>
               Cut(written', live', o) /\ \A q \in 1..o, k \in Keys : asked'[k] # live'[q]
        BY <1>0, <2>1, <3>1, LogCut DEF NoneAsked
      <4> QED BY <2>0, <4>1 DEF NoneAsked
    <3> QED BY <2>0, <3>1, <3>2 DEF CutCursor
  <2>2. CASE AtCopy /\ Cut(written, CopyNamed(1), cursor.offset)
    <3>1. AtCopy' /\ 1 \in 1..Len(copies)
      BY <1>0, <1>1, <2>2 DEF LogStep, AtCopy, TypeInv, LogTyped
    <3>2. Cut(written, CopyNamed(1), cursor.offset)'
      BY <1>2, <2>0, <2>2, <3>1
    <3> QED BY <3>1, <3>2 DEF CutCursor
  <2> QED BY <2>1, <2>2 DEF Together, CutCursor
<1>4. Busy => CutTodo'
  <2> SUFFICES ASSUME Busy, NEW t \in 1..Len(todo)
               PROVE  /\ Cut(written, File(todo[t].copy), todo[t].from)'
                      /\ todo[t].copy = 0 => NoneAsked(live, todo[t].from)'
    BY <1>0 DEF CutTodo, LogStep
  <2>0. /\ todo[t].copy \in Numbers /\ todo[t].from \in Nat /\ todo' = todo
        /\ todo[t].from <= Len(File(todo[t].copy))
    BY <1>0, TodoFacts DEF OrderInv, Order, LogStep
  <2>1. Cut(written, File(todo[t].copy), todo[t].from)
        /\ (todo[t].copy = 0 => NoneAsked(live, todo[t].from))
    BY DEF Together, CutTodo
  <2>2. CASE todo[t].copy = 0
    <3>1. File(todo[t].copy) = live /\ File(todo[t].copy)' = live'
      BY <2>0, <2>2 DEF File
    <3>2. \A o \in Nat : o = todo[t].from =>
             Cut(written', live', o) /\ \A q \in 1..o, k \in Keys : asked'[k] # live'[q]
      BY <1>0, <2>0, <2>1, <2>2, <3>1, LogCut DEF NoneAsked
    <3> QED BY <2>0, <3>1, <3>2 DEF NoneAsked
  <2>3. CASE todo[t].copy # 0
    <3>1. \A n \in 1..Len(copies), o \in Nat :
             n = todo[t].copy /\ o = todo[t].from => Cut(written', CopyNamed(n)', o)
      BY <1>2, <2>1, <2>3 DEF File
    <3>2. todo[t].copy \in 1..Len(copies) /\ File(todo[t].copy)' = CopyNamed(todo[t].copy)'
      BY <1>1, <2>0, <2>3 DEF Numbers, File
    <3> QED BY <2>0, <2>3, <3>1, <3>2
  <2> QED BY <2>2, <2>3
<1>5. pc = "read" => CutRead'
  BY <1>0, ReadLog DEF Together
<1>6. Labelled'
  BY <1>0, LabelledLog DEF Together
<1>7. pc' = pc /\ Busy' = Busy
  BY <1>0 DEF LogStep, Busy
<1> QED BY <1>3, <1>4, <1>5, <1>6, <1>7 DEF Together

LEMMA LabelledSame ==
  ASSUME Labelled, UNCHANGED <<written, counted, labelled>>,
         \A f \in {live'} \cup ToSet(copies') :
           f \in {live} \cup ToSet(copies) \/ ToSet(f) = {}
  PROVE  Labelled'
<1> SUFFICES ASSUME NEW i \in Replies', SameFile(i)', Undivided(i)' PROVE Paired(i)'
  BY DEF Labelled
<1>1. i \in Replies /\ Undivided(i)
  BY DEF Replies, Undivided
<1>2. PICK f \in {live'} \cup ToSet(copies') : {i, written[i].by} \subseteq ToSet(f)
  BY DEF SameFile
<1>3. SameFile(i)
  BY <1>2 DEF SameFile
<1> QED BY <1>1, <1>3 DEF Labelled, Paired

LEMMA CutCursorSame ==
  ASSUME CutCursor,
         UNCHANGED <<live, copies, rotating, written, asked, cursor, unread, named>>,
         pc' = "head" => (pc = "head" /\ size' = size) \/ size' = Len(live)
  PROVE  CutCursor'
<1>1. (AtLive => AtLive') /\ (AtCopy => AtCopy')
  BY CursorStays
<1> QED BY <1>1 DEF CutCursor, CopyNamed, NoneAsked

LEMMA TogetherRotate ==
  ASSUME TypeInv, TypeInv', OrderInv, orderly', named',
         orderly /\ named => OneRotation /\ Together, Rotate
  PROVE  Together'
<1>0. /\ pc = "idle" /\ pc' = "idle" /\ OneRotation /\ Together
      /\ UNCHANGED <<written, cursor, counted, labelled>> /\ ~Busy'
  BY DEF Rotate, CopyLog, TruncateLog, runVars, dbVars, Busy
<1>1. Len(live) \in Nat /\ Len(copies) \in Nat /\ Len(written) \in Nat
  BY LogFileFacts DEF TypeInv, LogTyped
<1>2. cursor # NoCursor => cursor.offset \in Nat
  BY DEF TypeInv, DbTyped, Cursor
<1>3. CASE CopyLog
  <2>0. /\ ~rotating /\ rotating' /\ copies' = Append(copies, live)
        /\ UNCHANGED <<live, asked, unread, named>>
    BY <1>3 DEF CopyLog
  <2>1. cursor = NoCursor \/ unread = 0
    BY <1>0, <1>3 DEF CopyLog
  <2>2. /\ Len(copies') = Len(copies) + 1 /\ copies'[Len(copies) + 1] = live
        /\ \A c \in 1..Len(copies) : copies'[c] = copies[c]
    BY <2>0 DEF TypeInv, LogTyped
  <2>3. CopyNamed(1)' = live
    <3>1. CopyNamed(1)' = copies'[Len(copies') + 1 - 1]
      BY DEF CopyNamed
    <3>2. Len(copies') + 1 - 1 = Len(copies) + 1
      BY <1>1, <2>2
    <3> QED BY <2>2, <3>1, <3>2
  <2>4. CutCursor'
    <3> SUFFICES ASSUME cursor # NoCursor PROVE CutCursor'
      BY <1>0 DEF CutCursor
    <3>1. AtLive /\ Cut(written, live, cursor.offset) /\ NoneAsked(live, cursor.offset)
      BY <1>0, <2>1 DEF Together, CutCursor, AtCopy
    <3>2. AtLive'
      BY <1>0, <2>0, <2>3, <3>1 DEF AtLive
    <3> QED BY <1>0, <2>0, <3>1, <3>2 DEF CutCursor, NoneAsked
  <2>5. Labelled'
    <3>1. ToSet(copies') = ToSet(copies) \cup {live}
      <4>1. DOMAIN copies = 1..Len(copies) /\ DOMAIN copies' = 1..Len(copies) + 1
        BY <2>2 DEF TypeInv, LogTyped
      <4>2. 1..Len(copies) + 1 = 1..Len(copies) \cup {Len(copies) + 1}
        BY <1>1
      <4> QED BY <2>2, <4>1, <4>2 DEF ToSet
    <3> QED BY <1>0, <2>0, <3>1, LabelledSame DEF Together
  <2> QED BY <1>0, <2>4, <2>5 DEF Together
<1>4. CASE TruncateLog
  <2>0. rotating /\ live' = <<>> /\ UNCHANGED <<copies, asked>>
    BY <1>4 DEF TruncateLog
  <2>1. CutCursor'
    <3> SUFFICES ASSUME cursor # NoCursor PROVE CutCursor'
      BY <1>0 DEF CutCursor
    <3>1. AtLive /\ Cut(written, live, cursor.offset)
      BY <1>0, <2>0 DEF Together, CutCursor, AtCopy
    <3>2. /\ AtCopy' /\ CopyNamed(1)' = CopyNamed(1)
          /\ Len(CopyNamed(1)) \in Nat /\ Len(CopyNamed(1)) <= Len(live)
          /\ \A j \in 1..Len(CopyNamed(1)) : CopyNamed(1)[j] = live[j]
      BY <1>0, <1>4, <3>1, CursorTruncated
    <3>3. \A j \in 1..Len(live) : live[j] \in 1..Len(written)
      <4>1. 0 \in Numbers /\ File(0) = live
        BY <1>1 DEF Numbers, File
      <4> QED BY <4>1, FileFacts
    <3>4. Cut(written, CopyNamed(1), cursor.offset)
      <4> DEFINE f == live
                 g == CopyNamed(1)
                 o == cursor.offset
                 m == Len(written)
      <4>1. /\ \A j \in 1..Len(g) : j <= Len(f) => g[j] = f[j]
            /\ \A j \in 1..Len(g) : ~(j > Len(f))
            /\ \A j \in 1..Len(f) : f[j] \in 1..m
        BY <1>1, <3>2, <3>3
      <4>2. o \in Nat /\ m \in Nat /\ Len(f) \in Nat /\ Len(g) \in Nat /\ Cut(written, f, o)
        BY <1>1, <1>2, <3>1, <3>2
      <4> HIDE DEF f, g, o, m
      <4>3. Cut(written, g, o)
        BY <4>1, <4>2, CutOf
      <4> QED BY <4>3 DEF g, o
    <3> QED BY <1>0, <3>2, <3>4 DEF CutCursor
  <2>2. Labelled'
    <3>1. ToSet(<<>>) = {}
      BY DEF ToSet
    <3> QED BY <1>0, <2>0, <3>1, LabelledSame DEF Together
  <2> QED BY <1>0, <2>1, <2>2 DEF Together
<1> QED BY <1>3, <1>4 DEF Rotate

\* A run takes the log for rotated when the cursor is in what became .1.
LEMMA RotatedWhen ==
  ASSUME TypeInv, OrderInv, orderly, named, pc = "head", cursor # NoCursor
  PROVE  (AtLive => ~Rotated) /\ (AtCopy => Rotated)
<1>0. size \in Nat /\ Len(live) \in Nat /\ Len(written) \in Nat
        /\ cursor.offset \in Nat /\ cursor.head \in Nat
  BY LogFileFacts, IngestAssumption DEF TypeInv, LogTyped, RunTyped, DbTyped, Cursor
<1>1. ASSUME AtLive PROVE ~Rotated
  BY <1>0, <1>1 DEF AtLive, Rotated, FirstLine
<1>2. ASSUME AtCopy PROVE Rotated
  <2>1. live # <<>> => 1 \in 1..Len(live)
    BY <1>0 DEF TypeInv, LogTyped, LogFile
  <2>2. live # <<>> => live[1] = Base + 1
    BY <2>1 DEF TypeInv, LogOK, LiveOK
  <2>3. Base \in Int /\ cursor.head # 0 /\ cursor.head <= Base
    BY <1>0, <1>2 DEF AtCopy, Base
  <2> QED BY <1>0, <2>2, <2>3 DEF Rotated, FirstLine
<1> QED BY <1>1, <1>2

LEMMA TogetherDecide ==
  ASSUME TypeInv, OrderInv, orderly, named, Together, Decide
  PROVE  Together'
<1>0. /\ pc = "head" /\ pc' = "open" /\ todo' = ToRead
      /\ UNCHANGED <<written, live, copies, rotating, asked, cursor, counted, labelled,
                     size, unread, named>>
  BY DEF Decide, logVars, dbVars
<1>1. Len(copies) \in Nat
  BY DEF TypeInv, LogTyped
<1>2. \A w, f : Cut(w, f, 0) /\ NoneAsked(f, 0)
  BY DEF Cut, NoneAsked
<1>3. \A t \in 1..Len(ToRead) :
        /\ Cut(written, File(ToRead[t].copy), ToRead[t].from)
        /\ ToRead[t].copy = 0 => NoneAsked(live, ToRead[t].from)
  <2>1. CASE cursor = NoCursor
    <3>1. ToRead = [i \in 1..Len(copies) + 1 |->
                      [copy |-> Len(copies) + 1 - i, from |-> 0]]
      BY <2>1 DEF ToRead
    <3>2. \A t \in 1..Len(ToRead) : ToRead[t].from = 0
      BY <1>1, <3>1
    <3> QED BY <1>2, <3>2
  <2>2. CASE cursor # NoCursor /\ ~Rotated
    <3>1. ToRead = <<[copy |-> 0, from |-> cursor.offset]>>
      BY <2>2 DEF ToRead
    <3>2. Cut(written, live, cursor.offset) /\ NoneAsked(live, cursor.offset)
      BY <1>0, <2>2, RotatedWhen DEF Together, CutCursor
    <3>3. Len(ToRead) = 1 /\ ToRead[1].copy = 0 /\ ToRead[1].from = cursor.offset
      BY <3>1
    <3> QED BY <3>2, <3>3 DEF File
  <2>3. CASE /\ cursor # NoCursor /\ Rotated
             /\ copies # <<>> /\ Len(CopyNamed(1)) > cursor.offset
    <3>1. ToRead = <<[copy |-> 1, from |-> cursor.offset], [copy |-> 0, from |-> 0]>>
      BY <2>3 DEF ToRead
    <3>2. Cut(written, CopyNamed(1), cursor.offset)
      BY <1>0, <2>3, RotatedWhen DEF Together, CutCursor
    <3>3. /\ Len(ToRead) = 2 /\ ToRead[1].copy = 1 /\ ToRead[1].from = cursor.offset
          /\ ToRead[2].copy = 0 /\ ToRead[2].from = 0
      BY <3>1
    <3>4. \A t \in 1..2 : t = 1 \/ t = 2
      OBVIOUS
    <3>5. Cut(written, File(1), cursor.offset) /\ Cut(written, File(0), 0) /\ NoneAsked(live, 0)
      BY <1>2, <3>2 DEF File
    <3> QED BY <3>3, <3>4, <3>5
  <2>4. CASE /\ cursor # NoCursor /\ Rotated
             /\ ~(copies # <<>> /\ Len(CopyNamed(1)) > cursor.offset)
    <3>1. ToRead = <<[copy |-> 0, from |-> 0]>>
      BY <2>4 DEF ToRead
    <3>2. Len(ToRead) = 1 /\ ToRead[1].from = 0
      BY <3>1
    <3> QED BY <1>2, <3>2
  <2> QED BY <2>1, <2>2, <2>3, <2>4
<1>4. CutTodo'
  <2>1. \A n : File(n)' = File(n)
    BY <1>0 DEF File, CopyNamed
  <2> QED BY <1>0, <1>3, <2>1 DEF CutTodo, NoneAsked
<1>5. CutCursor' /\ Labelled'
  BY <1>0, CutCursorSame, LabelledSame DEF Together
<1> QED BY <1>0, <1>4, <1>5 DEF Together

LEMMA TogetherOpen ==
  ASSUME TypeInv, Together, Open
  PROVE  Together'
<1>0. /\ pc = "open" /\ pc' = "read" /\ pos' = Head(todo).from /\ batch = {} /\ pending = {}
      /\ UNCHANGED <<written, live, copies, rotating, asked, cursor, counted, labelled,
                     todo, batch, pending, size, unread, named>>
  BY DEF Open, logVars, dbVars, TypeInv, RunOK
<1>1. ReadSoFar' = {}
  BY <1>0, TodoFacts DEF ReadSoFar, Busy
<1>2. CutRead'
  BY <1>0, <1>1 DEF CutRead, OnlyQueries, WaitsForReplies, WaitsForAsked, BatchLabelled
<1>3. CutTodo'
  <2>1. CutTodo
    BY <1>0 DEF Together, Busy
  <2>2. \A n : File(n)' = File(n)
    BY <1>0 DEF File, CopyNamed
  <2> QED BY <1>0, <2>1, <2>2 DEF CutTodo, NoneAsked
<1>4. CutCursor' /\ Labelled'
  BY <1>0, CutCursorSame, LabelledSame DEF Together
<1> QED BY <1>2, <1>3, <1>4 DEF Together

\* A run begins, or is killed.
LEMMA TogetherQuiet ==
  ASSUME Together, Begin \/ Crash
  PROVE  Together'
<1>0. /\ pc' \in {"idle", "head"} /\ (pc' = "head" => size' = Len(live))
      /\ UNCHANGED <<written, live, copies, rotating, asked, cursor, counted, labelled,
                     unread, named>>
  BY DEF Begin, Crash, NoRun, logVars, dbVars
<1>1. CutCursor' /\ Labelled'
  BY <1>0, CutCursorSame, LabelledSame DEF Together
<1> QED BY <1>0, <1>1 DEF Together, Busy

\* A run that reads.
Reading ==
  TypeInv /\ OrderInv /\ QueryInv /\ orderly /\ pc = "read" /\ CutTodo /\ CutRead

LEMMA ReadFacts ==
  ASSUME Reading
  PROVE  /\ Len(OpenFile) \in Nat /\ pos \in Nat /\ Head(todo).from \in Nat
         /\ Head(todo).from <= pos /\ pos <= Len(OpenFile) /\ ~rotating
         /\ Head(todo).copy \in Numbers /\ OpenFile = File(Head(todo).copy)
         /\ \A j \in 1..Len(OpenFile) : OpenFile[j] \in 1..Len(written)
         /\ \A j, k \in 1..Len(OpenFile) : j < k => OpenFile[j] < OpenFile[k]
         /\ Cut(written, OpenFile, Head(todo).from)
         /\ OnLive => OpenFile = live /\ NoneAsked(live, Head(todo).from)
         /\ \A p \in pending : p.at \in Nat /\ p.at < pos
         /\ \A e \in batch : e.at + 1 \in 1..Len(OpenFile) /\ OpenFile[e.at + 1] = e.line
<1>0. TypeInv /\ OrderInv /\ orderly /\ pc = "read" /\ Busy /\ Order
  BY DEF Reading, Busy, OrderInv
<1>1. /\ Len(OpenFile) \in Nat /\ \A j \in 1..Len(OpenFile) : OpenFile[j] \in 1..Len(written)
      /\ pos \in Nat /\ pos <= Len(OpenFile)
      /\ Head(todo).from \in Nat /\ Head(todo).from <= pos
      /\ Head(todo).copy \in Numbers /\ OpenFile = File(Head(todo).copy)
      /\ Head(todo) = todo[1] /\ 1 \in 1..Len(todo)
  BY <1>0, OpenLines, TodoFacts DEF Order, TypeInv, RunTyped
<1>2. ~rotating
  BY <1>0 DEF Order
<1>3. \A j, k \in 1..Len(OpenFile) : j < k => OpenFile[j] < OpenFile[k]
  BY <1>0, <1>1, FilesOrdered
<1>4. /\ Cut(written, OpenFile, Head(todo).from)
      /\ OnLive => OpenFile = live /\ NoneAsked(live, Head(todo).from)
  BY <1>1 DEF Reading, CutTodo, OnLive, OpenFile
<1>5. \A p \in pending : p.at \in Nat /\ p.at < pos
  BY <1>0 DEF Order, TypeInv, RunTyped, Waiting
<1>6. \A e \in batch : e.at \in Nat /\ e.at < pos /\ OpenFile[e.at + 1] = e.line
  BY <1>0 DEF Order, TypeInv, RunTyped, Event
<1>7. \A e \in batch : e.at + 1 \in 1..Len(OpenFile)
  BY <1>1, <1>6
<1> QED BY <1>1, <1>2, <1>3, <1>4, <1>5, <1>6, <1>7

\* Where a run saves the cursor it divides nothing: what it has read before
\* waits for no reply, and an RPZ line comes next if it is not at the end.
Saves(o) ==
  /\ o <= pos
  /\ \A p \in pending : o <= p.at
  /\ o # pos => \E p \in pending : p.at = o

LEMMA CutSaved ==
  Reading /\ OnLive =>
    \A o \in Nat : Saves(o) => Cut(written, live, o) /\ NoneAsked(live, o)
<1> SUFFICES ASSUME Reading, OnLive, NEW o \in Nat, Saves(o)
             PROVE  Cut(written, live, o) /\ NoneAsked(live, o)
  OBVIOUS
<1> DEFINE from == Head(todo).from
<1>0. /\ Len(live) \in Nat /\ pos \in Nat /\ from \in Nat /\ from <= pos /\ pos <= Len(live)
      /\ OpenFile = live /\ Cut(written, live, from) /\ NoneAsked(live, from)
      /\ o <= pos
  BY ReadFacts DEF Saves
<1>1. /\ \A j \in 1..Len(live) : live[j] \in 1..Len(written)
      /\ \A j, k \in 1..Len(live) : j < k => live[j] < live[k]
  BY <1>0, ReadFacts
<1>2. ReadSoFar = from + 1..pos /\ TypeInv /\ QueryInv /\ CutRead
  BY DEF ReadSoFar, Reading
<1> HIDE DEF from
<1>3. \A q \in 1..o : q > from => ~WaitsFor(q)
  <2> SUFFICES ASSUME NEW q \in 1..o, WaitsFor(q) PROVE FALSE
    OBVIOUS
  <2>1. \E p \in pending : p.at = q - 1
    BY DEF WaitsFor
  <2> QED BY <2>1 DEF Saves
<1>4. Cut(written, live, o)
  <2> SUFFICES ASSUME NEW q \in 1..o, NEW r \in o + 1..Len(live),
                      written[live[r]].by = live[q]
               PROVE  \E j \in live[q] + 1..live[r] - 1 : written[j].kind = "rpz"
    BY DEF Cut
  <2>0. /\ q \in 1..Len(live) /\ r \in 1..Len(live)
        /\ live[q] \in 1..Len(written) /\ live[r] \in 1..Len(written)
    BY <1>0, <1>1
  <2>1. CASE r <= pos
    <3>1. PICK p \in pending : p.at = o
      BY <1>0, <2>1 DEF Saves
    <3>2. written[live[o + 1]].kind = "rpz" /\ o + 1 \in 1..Len(live)
      BY <1>0, <1>2, <2>0, <3>1 DEF CutRead, OnlyQueries
    <3>3. written[live[r]].kind = "reply"
      BY <1>2, <2>0, ReplyTo
    <3>4. r # o + 1
      BY <3>2, <3>3
    <3>5. q < o + 1 /\ o + 1 < r
      BY <2>0, <3>4
    <3>6. live[q] < live[o + 1] /\ live[o + 1] < live[r] /\ live[o + 1] \in Nat
      BY <1>1, <2>0, <3>2, <3>5
    <3>7. live[o + 1] \in live[q] + 1..live[r] - 1
      BY <2>0, <3>6
    <3> QED BY <3>2, <3>7
  <2>2. CASE r > pos
    <3>1. r \in pos + 1..Len(live) /\ r \in from + 1..Len(live)
      BY <1>0, <2>2
    <3>2. CASE q <= from
      <4>1. q \in 1..from
        BY <1>0, <3>2
      <4> QED BY <1>0, <3>1, <4>1 DEF Cut
    <3>3. CASE q > from
      <4>1. q \in ReadSoFar
        BY <1>0, <1>2, <3>3
      <4>2. WaitsFor(q)
        BY <1>0, <1>2, <3>1, <4>1 DEF CutRead, WaitsForReplies
      <4> QED BY <1>3, <3>3, <4>2
    <3> QED BY <1>0, <3>2, <3>3
  <2> QED BY <1>0, <2>0, <2>1, <2>2
<1>5. NoneAsked(live, o)
  <2> SUFFICES ASSUME NEW q \in 1..o, NEW k \in Keys, asked[k] = live[q] PROVE FALSE
    BY DEF NoneAsked
  <2>1. CASE q <= from
    <3>1. q \in 1..from
      BY <1>0, <2>1
    <3> QED BY <1>0, <3>1 DEF NoneAsked
  <2>2. CASE q > from
    <3>1. q \in ReadSoFar
      BY <1>0, <1>2, <2>2
    <3>2. WaitsFor(q)
      BY <1>0, <1>2, <3>1 DEF CutRead, WaitsForAsked
    <3> QED BY <1>3, <2>2, <3>2
  <2> QED BY <1>0, <2>1, <2>2
<1> QED BY <1>4, <1>5

\* What a run stores is labelled.
LEMMA LabelledStore ==
  ASSUME Reading, Labelled, NEW events, events \subseteq Event, NEW offset, Store(events, offset),
         UNCHANGED <<written, live, copies>>,
         \A e \in events : \E j \in 1..Len(OpenFile) : OpenFile[j] = e.line,
         \A e \in events : Undivided(e.line) =>
           \A q \in 1..Len(OpenFile) : written[e.line].by = OpenFile[q] => e.policy
  PROVE  Labelled'
<1> SUFFICES ASSUME NEW i \in Replies', SameFile(i)', Undivided(i)',
                    counted'[i] > 0, written'[i].by # 0
             PROVE  i \in labelled'
  BY DEF Labelled, Paired
<1>1. i \in Replies /\ SameFile(i) /\ Undivided(i) /\ written[i].by # 0
  BY DEF Replies, SameFile, Undivided
<1>2. i \in Lines
  BY <1>1, WrittenLines DEF Reading, Replies
<1>3. CASE counted[i] > 0
  BY <1>1, <1>3 DEF Labelled, Paired, Store
<1>4. CASE \E e \in events : e.line = i
  <2>1. PICK e \in events : e.line = i
    BY <1>4
  <2>2. PICK j \in 1..Len(OpenFile) : OpenFile[j] = i
    BY <2>1
  <2>3. Head(todo).copy \in Numbers /\ OpenFile = File(Head(todo).copy) /\ ~rotating /\ TypeInv
    BY ReadFacts DEF Reading
  <2>4. \E q \in 1..Len(OpenFile) : OpenFile[q] = written[i].by
    BY <1>1, <2>2, <2>3, OneFile
  <2>5. e.policy
    BY <1>1, <2>1, <2>4
  <2> QED BY <2>1, <2>5 DEF Store
<1>5. counted[i] > 0 \/ \E e \in events : e.line = i
  BY <1>2 DEF Store
<1> QED BY <1>3, <1>4, <1>5

\* An RPZ line waits once it is read, till its reply comes.
LEMMA ReadOn ==
  ASSUME Reading, ReadLine
  PROVE  OnlyQueries' /\ WaitsForReplies' /\ WaitsForAsked'
<1> DEFINE i == OpenFile[pos + 1]
           from == Head(todo).from
           f == OpenFile
<1>0. /\ pos < Len(f) /\ pos' = pos + 1 /\ pending' = PendingAfter(i)
      /\ f' = f /\ OnLive' = OnLive /\ from' = from
      /\ UNCHANGED <<written, asked, clock>>
  BY DEF ReadLine, logVars, OpenFile, OnLive
<1>1. /\ Len(f) \in Nat /\ pos \in Nat /\ from \in Nat /\ from <= pos
      /\ \A j \in 1..Len(f) : f[j] \in 1..Len(written)
      /\ \A j, k \in 1..Len(f) : j < k => f[j] < f[k]
      /\ \A p \in pending : p.at \in Nat /\ p.at < pos
  BY ReadFacts
<1>2. TypeInv /\ QueryInv /\ CutRead
  BY DEF Reading
<1>3. ReadSoFar = from + 1..pos /\ ReadSoFar' = from + 1..pos + 1
  BY <1>0 DEF ReadSoFar
<1>4. i = f[pos + 1] /\ pos + 1 \in 1..Len(f) /\ i \in 1..Len(written)
  BY <1>0, <1>1
<1>5. WaitsForReplies = (\A q \in ReadSoFar, r \in pos + 1..Len(f) :
                          written[f[r]].by = f[q] => WaitsFor(q))
      /\ WaitsForAsked = (OnLive => \A q \in ReadSoFar, k \in Keys : asked[k] = f[q] => WaitsFor(q))
  BY DEF WaitsForReplies, WaitsForAsked
<1>6. \A q : WaitsFor(q)' <=>
         [key |-> written[f[q]].key, ts |-> written[f[q]].ts, at |-> q - 1] \in PendingAfter(i)
  BY <1>0 DEF WaitsFor
<1>7. \A q : WaitsFor(q) <=>
         [key |-> written[f[q]].key, ts |-> written[f[q]].ts, at |-> q - 1] \in pending
  BY DEF WaitsFor
<1>8. OnlyQueries'
  <2> SUFFICES ASSUME NEW p \in PendingAfter(i) PROVE written[f[p.at + 1]].kind = "rpz"
    BY <1>0 DEF OnlyQueries
  <2>1. CASE p \in pending
    BY <1>2, <2>1 DEF CutRead, OnlyQueries
  <2>2. CASE p \notin pending
    <3>1. written[i].kind = "rpz" /\ p.at = pos
      BY <2>2 DEF PendingAfter, LineStart
    <3> QED BY <1>4, <3>1
  <2> QED BY <2>1, <2>2
<1> HIDE DEF i, f, from
<1>9. ASSUME NEW q \in 1..Len(f), q = pos + 1, written[f[q]].kind = "rpz"
      PROVE  WaitsFor(q)'
  <2>1. f[q] = i /\ q - 1 = pos
    BY <1>1, <1>4, <1>9
  <2>2. [key |-> written[i].key, ts |-> written[i].ts, at |-> pos] \in PendingAfter(i)
    BY <1>9, <2>1 DEF PendingAfter, LineStart
  <2>3. [key |-> written[f[q]].key, ts |-> written[f[q]].ts, at |-> q - 1] \in PendingAfter(i)
    BY <2>1, <2>2
  <2> QED BY <1>6, <2>3
\* The line at hand leaves q waiting if it comes between q and its reply.
<1>10. ASSUME NEW q \in 1..Len(f), q <= pos, WaitsFor(q),
              written[i].key # written[f[q]].key, written[i].ts = written[f[q]].ts
       PROVE  WaitsFor(q)'
  <2>1. f[q] \in 1..Len(written)
    BY <1>1
  <2>2. [key |-> written[f[q]].key, ts |-> written[f[q]].ts, at |-> q - 1] \in pending
    BY <1>7, <1>10
  <2>3. [key |-> written[f[q]].key, ts |-> written[f[q]].ts, at |-> q - 1] \in PendingAfter(i)
    BY <1>2, <1>4, <1>10, <2>1, <2>2, WaitsOn
  <2> QED BY <1>6, <2>3
<1>11. WaitsForReplies'
  <2> SUFFICES ASSUME NEW q \in from + 1..pos + 1, NEW r \in pos + 2..Len(f),
                      written[f[r]].by = f[q]
               PROVE  WaitsFor(q)'
    <3>1. WaitsForReplies' = (\A q \in ReadSoFar', r \in pos' + 1..Len(f') :
                                written'[f'[r]].by = f'[q] => WaitsFor(q)')
      BY DEF WaitsForReplies, f
    <3>2. pos' + 1 = pos + 2
      BY <1>0, <1>1
    <3> QED BY <1>0, <1>3, <3>1, <3>2
  <2>0. /\ q \in 1..Len(f) /\ r \in 1..Len(f) /\ r \in pos + 1..Len(f)
        /\ f[q] \in 1..Len(written) /\ f[r] \in 1..Len(written)
    BY <1>0, <1>1
  <2>1. /\ written[f[q]].kind = "rpz"
        /\ \A j \in f[q] + 1..f[r] - 1 :
             written[j].key # written[f[q]].key /\ written[j].ts = written[f[q]].ts
    BY <1>2, <2>0, ReplyTo
  <2>2. CASE q = pos + 1
    BY <1>9, <2>0, <2>1, <2>2
  <2>3. CASE q # pos + 1
    <3>1. q <= pos /\ q \in ReadSoFar
      BY <1>1, <1>3, <2>3
    <3>2. WaitsFor(q)
      BY <1>2, <1>5, <2>0, <3>1 DEF CutRead
    <3>3. i \in f[q] + 1..f[r] - 1
      <4>1. q < pos + 1 /\ pos + 1 < r
        BY <1>1, <3>1
      <4>2. f[q] < i /\ i < f[r]
        BY <1>1, <1>4, <2>0, <4>1
      <4> QED BY <1>4, <2>0, <4>2
    <3> QED BY <1>10, <2>0, <2>1, <3>1, <3>2, <3>3
  <2> QED BY <2>2, <2>3
<1>12. WaitsForAsked'
  <2> SUFFICES ASSUME OnLive, NEW q \in from + 1..pos + 1, NEW k \in Keys, asked[k] = f[q]
               PROVE  WaitsFor(q)'
    <3>1. WaitsForAsked' = (OnLive' => \A q \in ReadSoFar', k \in Keys :
                              asked'[k] = f'[q] => WaitsFor(q)')
      BY DEF WaitsForAsked, f
    <3> QED BY <1>0, <1>3, <3>1
  <2>0. q \in 1..Len(f) /\ f[q] \in 1..Len(written) /\ Len(written) \in Nat
    BY <1>0, <1>1, <1>2 DEF TypeInv, LogTyped
  <2>1. Answers(written, f[q], k, Len(written) + 1, clock)
    BY <1>2, <2>0 DEF QueryInv
  <2>2. /\ written[f[q]].kind = "rpz"
        /\ \A j \in f[q] + 1..Len(written) :
             written[j].key # written[f[q]].key /\ written[j].ts = written[f[q]].ts
    BY <2>0, <2>1 DEF Answers
  <2>3. CASE q = pos + 1
    BY <1>9, <2>0, <2>2, <2>3
  <2>4. CASE q # pos + 1
    <3>1. q <= pos /\ q \in ReadSoFar
      BY <1>1, <1>3, <2>4
    <3>2. WaitsFor(q)
      BY <1>2, <1>5, <3>1 DEF CutRead
    <3>3. i \in f[q] + 1..Len(written)
      <4>1. q < pos + 1
        BY <1>1, <3>1
      <4>2. f[q] < i
        BY <1>1, <1>4, <2>0, <4>1
      <4> QED BY <1>4, <2>0, <4>2
    <3> QED BY <1>10, <2>0, <2>2, <3>1, <3>2, <3>3
  <2> QED BY <2>3, <2>4
<1> QED BY <1>8, <1>11, <1>12

\* A reply whose query is in the file is explained by it when it is read.
LEMMA Explained ==
  ASSUME Reading, pos < Len(OpenFile), NEW q \in 1..Len(OpenFile),
         written[OpenFile[pos + 1]].by = OpenFile[q], Undivided(OpenFile[pos + 1])
  PROVE  \E p \in pending : /\ p.key = written[OpenFile[pos + 1]].key
                            /\ written[OpenFile[pos + 1]].ts - p.ts <= Window
<1> DEFINE i == OpenFile[pos + 1]
           b == OpenFile[q]
           from == Head(todo).from
<1>0. /\ Len(OpenFile) \in Nat /\ pos \in Nat /\ from \in Nat /\ from <= pos
      /\ \A j \in 1..Len(OpenFile) : OpenFile[j] \in 1..Len(written)
      /\ \A j, k \in 1..Len(OpenFile) : j < k => OpenFile[j] < OpenFile[k]
      /\ Cut(written, OpenFile, from)
  BY ReadFacts
<1>1. TypeInv /\ QueryInv /\ CutRead
  BY DEF Reading
<1>2. i \in 1..Len(written) /\ b \in 1..Len(written) /\ pos + 1 \in 1..Len(OpenFile)
  BY <1>0
<1>3. /\ b < i /\ written[b].key = written[i].key /\ written[b].ts = written[i].ts
  BY <1>1, <1>2, ReplyTo
<1>4. q <= pos
  <2>1. CASE q = pos + 1
    BY <1>2, <1>3, <2>1
  <2>2. CASE pos + 1 < q
    <3>1. i < b
      BY <1>0, <1>2, <2>2
    <3> QED BY <1>2, <1>3, <3>1
  <2> QED BY <1>0, <2>1, <2>2
<1>5. q > from
  <2> SUFFICES ASSUME q <= from PROVE FALSE
    BY <1>0
  <2>1. q \in 1..from /\ pos + 1 \in from + 1..Len(OpenFile)
    BY <1>0
  <2>2. \E j \in b + 1..i - 1 : written[j].kind = "rpz"
    BY <1>0, <2>1 DEF Cut
  <2> QED BY <2>2 DEF Undivided
<1>6. WaitsFor(q)
  <2>1. q \in ReadSoFar /\ pos + 1 \in pos + 1..Len(OpenFile)
    BY <1>0, <1>4, <1>5 DEF ReadSoFar
  <2> QED BY <1>1, <2>1 DEF CutRead, WaitsForReplies
<1>7. PICK p \in pending : p.key = written[b].key /\ p.ts = written[b].ts
  BY <1>6 DEF WaitsFor
<1>8. written[i].ts - p.ts <= Window
  <2>1. written[i] \in LineType
    BY <1>1, <1>2 DEF TypeInv, LogTyped
  <2> QED BY <1>3, <1>7, <2>1, IngestAssumption DEF LineType
<1> QED BY <1>3, <1>7, <1>8

LEMMA TogetherReadLine ==
  ASSUME TypeInv, TypeInv', OrderInv, OrderInv', orderly, QueryInv, QueryInv', Together, ReadLine
  PROVE  Together'
<1> DEFINE i == OpenFile[pos + 1]
<1>0. /\ pc = "read" /\ pos < Len(OpenFile) /\ pos' = pos + 1 /\ pc' = "read"
      /\ pending' = PendingAfter(i)
      /\ UNCHANGED <<written, live, copies, rotating, asked, todo, text, size, head,
                     unread, orderly, named>>
      /\ \/ /\ Cardinality(BatchAfter(i)) >= BatchSize /\ PendingAfter(i) = {}
            /\ Store(BatchAfter(i), pos + 1) /\ batch' = {}
         \/ batch' = BatchAfter(i) /\ UNCHANGED <<cursor, counted, labelled>>
  BY DEF ReadLine, logVars, dbVars
<1>1. Reading
  BY <1>0 DEF Reading, Together, Busy
<1>2. OpenFile' = OpenFile /\ OnLive' = OnLive /\ \A n : File(n)' = File(n)
  BY <1>0 DEF File, CopyNamed, OpenFile, OnLive
<1>3. pos \in Nat /\ Len(OpenFile) \in Nat /\ i \in Lines /\ written[i] \in LineType
        /\ pos + 1 \in 1..Len(OpenFile)
  BY <1>0, LineAtHand, LogFileFacts DEF TypeInv, RunTyped
<1>4. \A e \in BatchAfter(i) :
        /\ \E j \in 1..Len(OpenFile) : OpenFile[j] = e.line
        /\ Undivided(e.line) =>
             \A q \in 1..Len(OpenFile) : written[e.line].by = OpenFile[q] => e.policy
  <2> SUFFICES ASSUME NEW e \in BatchAfter(i)
               PROVE  /\ \E j \in 1..Len(OpenFile) : OpenFile[j] = e.line
                      /\ Undivided(e.line) =>
                           \A q \in 1..Len(OpenFile) : written[e.line].by = OpenFile[q] => e.policy
    OBVIOUS
  <2>1. CASE e \in batch
    <3>1. \E j \in 1..Len(OpenFile) : OpenFile[j] = e.line
      BY <1>1, <2>1, ReadFacts
    <3> QED BY <1>1, <2>1, <3>1 DEF Reading, CutRead, BatchLabelled
  <2>2. CASE e \notin batch
    <3> DEFINE explained == \E p \in pending : p.key = written[i].key
                                             /\ written[i].ts - p.ts <= Window
    <3>0. BatchAfter(i) = IF written[i].kind = "rpz" THEN batch
                          ELSE batch \cup {[line |-> i, at |-> LineStart, policy |-> explained]}
      BY DEF BatchAfter
    <3> HIDE DEF i, explained
    <3>4. e = [line |-> i, at |-> LineStart, policy |-> explained]
      BY <2>2, <3>0, ZenonT(60)
    <3>5. e.line = i /\ e.policy = explained
      BY <3>4, ZenonT(60)
    <3>1. e.line = i /\ e.policy = (\E p \in pending : p.key = written[i].key
                                       /\ written[i].ts - p.ts <= Window)
      BY <3>5 DEF explained
    <3> USE DEF i
    <3>2. \A q \in 1..Len(OpenFile) : written[i].by = OpenFile[q] /\ Undivided(i) => e.policy
      BY <1>0, <1>1, <3>1, Explained
    <3> QED BY <1>3, <3>1, <3>2
  <2> QED BY <2>1, <2>2
<1> HIDE DEF i
<1>5. CutTodo'
  BY <1>0, <1>2 DEF Together, Busy, CutTodo, NoneAsked
<1>6. CutRead'
  <2>1. OnlyQueries' /\ WaitsForReplies' /\ WaitsForAsked'
    BY <1>1, ReadOn
  <2>2. BatchLabelled'
    <3> SUFFICES ASSUME NEW e \in batch', NEW q \in 1..Len(OpenFile),
                        written[e.line].by = OpenFile[q], Undivided(e.line)
                 PROVE  e.policy
      BY <1>0, <1>2 DEF BatchLabelled, Undivided
    <3>1. e \in BatchAfter(i)
      BY <1>0
    <3> QED BY <1>4, <3>1
  <2> QED BY <2>1, <2>2 DEF CutRead
<1>7. Reading'
  BY <1>0, <1>5, <1>6 DEF Reading
<1>8. CASE UNCHANGED <<cursor, counted, labelled>>
  <2>1. CutCursor' /\ Labelled'
    BY <1>0, <1>8, CutCursorSame, LabelledSame DEF Together
  <2> QED BY <1>0, <1>5, <1>6, <2>1 DEF Together
<1>9. CASE Store(BatchAfter(i), pos + 1) /\ PendingAfter(i) = {}
  <2>1. Labelled'
    <3>1. BatchAfter(i) \subseteq Event
      BY <1>3, AfterType
    <3> QED BY <1>0, <1>1, <1>4, <1>9, <3>1, LabelledStore DEF Together
  <2>2. CASE ~OnLive
    <3>1. cursor' = cursor
      BY <1>9, <2>2 DEF Store
    <3>2. CutCursor'
      BY <1>0, <3>1, CutCursorSame DEF Together
    <3> QED BY <1>0, <1>5, <1>6, <2>1, <3>2 DEF Together
  <2>3. CASE OnLive
    <3>1. cursor' = [offset |-> pos + 1, head |-> head] /\ OpenFile = live
      BY <1>9, <2>3 DEF Store, OpenFile
    <3>2. AtLive'
      BY <1>0, <1>1, <1>3, <3>1, ReadFacts DEF AtLive, OrderInv, Order, Busy
    <3>3. Cut(written, live, cursor.offset)' /\ NoneAsked(live, cursor.offset)'
      <4>1. (Reading /\ OnLive =>
               \A o \in Nat : Saves(o) => Cut(written, live, o) /\ NoneAsked(live, o))'
        BY CutSaved, PTL
      <4>2. cursor'.offset = pos' /\ pos' \in Nat /\ pending' = {}
        BY <1>0, <1>3, <1>9, <3>1
      <4>3. \A o \in Nat : o = pos' => Saves(o)'
        BY <4>2 DEF Saves
      <4>4. \A o \in Nat : Saves(o)' => Cut(written', live', o) /\ NoneAsked(live, o)'
        BY <1>2, <1>7, <2>3, <4>1
      <4> QED BY <4>2, <4>3, <4>4 DEF NoneAsked
    <3> QED BY <1>0, <1>5, <1>6, <2>1, <3>2, <3>3 DEF Together, CutCursor
  <2> QED BY <2>2, <2>3
<1> QED BY <1>0, <1>8, <1>9

LEMMA TogetherEndOfFile ==
  ASSUME TypeInv, OrderInv, orderly, QueryInv, Together, EndOfFile
  PROVE  Together'
<1>0. /\ pc = "read" /\ pos >= Len(OpenFile) /\ Store(Kept, End)
      /\ UNCHANGED <<written, live, copies, rotating, asked, orderly, named>>
  BY DEF EndOfFile, logVars
<1>1. Reading
  BY <1>0 DEF Reading, Together, Busy
<1>2. \A n : File(n)' = File(n)
  BY <1>0 DEF File, CopyNamed
<1>3. /\ pos \in Nat /\ Len(OpenFile) \in Nat /\ pos <= Len(OpenFile)
      /\ \A p \in pending : p.at \in Nat /\ p.at < pos
  BY <1>1, ReadFacts
<1>4. End \in Nat /\ End <= pos
        /\ (OnLive => \A p \in pending : End <= p.at \/ pos <= p.at)
        /\ (End # pos => \E p \in pending : p.at = End)
  BY <1>3, EndOf
<1>5. Labelled'
  <2>1. Kept \subseteq Event /\ Kept \subseteq batch
    BY DEF Kept, TypeInv, RunTyped
  <2>2. \A e \in Kept : \E j \in 1..Len(OpenFile) : OpenFile[j] = e.line
    BY <1>1, <2>1, ReadFacts
  <2>3. \A e \in Kept : Undivided(e.line) =>
           \A q \in 1..Len(OpenFile) : written[e.line].by = OpenFile[q] => e.policy
    BY <1>1, <2>1 DEF Reading, CutRead, BatchLabelled
  <2> QED BY <1>0, <1>1, <2>1, <2>2, <2>3, LabelledStore DEF Together
<1>6. CASE OnLive
  <2>1. Tail(todo) = <<>>
    BY <1>0, <1>6, LiveIsLast DEF Busy
  <2>2. pc' = "idle"
    BY <2>1 DEF EndOfFile, NoRun
  <2>3. cursor' = [offset |-> End, head |-> head] /\ OpenFile = live
    BY <1>0, <1>6 DEF Store, OpenFile
  <2>4. AtLive'
    BY <1>0, <1>1, <1>3, <1>4, <2>2, <2>3, ReadFacts DEF AtLive, OrderInv, Order, Busy
  <2>5. Saves(End)
    <3>1. \A p \in pending : End <= p.at
      BY <1>3, <1>4, <1>6
    <3> QED BY <1>4, <3>1 DEF Saves
  <2>6. Cut(written, live, End) /\ NoneAsked(live, End)
    BY <1>1, <1>4, <1>6, <2>5, CutSaved
  <2>7. CutCursor'
    <3>1. cursor'.offset = End
      BY <2>3
    <3> QED BY <1>0, <2>4, <2>6, <3>1 DEF CutCursor, NoneAsked
  <2> QED BY <1>5, <2>2, <2>7 DEF Together, Busy
<1>7. CASE ~OnLive
  <2>1. Tail(todo) # <<>>
    BY <1>0, <1>7, LiveIsLast DEF Busy
  <2>2. /\ pc' = "open" /\ todo' = Tail(todo) /\ cursor' = cursor
        /\ UNCHANGED <<size, unread>>
    BY <1>0, <1>7, <2>1 DEF EndOfFile, Store
  <2>3. CutCursor'
    BY <1>0, <2>2, CutCursorSame DEF Together
  <2>4. \A t \in 1..Len(todo') : todo'[t] = todo[t + 1] /\ t + 1 \in 1..Len(todo)
    <3>1. todo \in Seq(Entry) /\ todo # <<>>
      BY <1>0 DEF TypeInv, RunTyped, RunOK
    <3> QED BY <2>2, <3>1
  <2>5. CutTodo'
    <3>1. CutTodo
      BY <1>1 DEF Reading
    <3> QED BY <1>0, <1>2, <2>4, <3>1 DEF CutTodo, NoneAsked
  <2> QED BY <1>5, <2>2, <2>3, <2>5 DEF Together
<1> QED BY <1>6, <1>7

PolicyFacts == TypeInv /\ OrderInv /\ LossInv /\ QueryInv /\ LaterUncounted

LEMMA PolicyNext == PolicyFacts /\ PolicyInv /\ [Next]_vars => PolicyInv'
<1> SUFFICES ASSUME TypeInv, OrderInv, LossInv, QueryInv, LaterUncounted, PolicyInv,
                    [Next]_vars, orderly', named'
             PROVE  Together'
  BY DEF PolicyFacts, PolicyInv
<1>0. /\ TypeInv' /\ OrderInv' /\ QueryInv'
      /\ orderly /\ named => OneRotation /\ Together
  BY TypeNext, OrderNext, QueryNext DEF PolicyInv, LossInv
<1>1. CASE Log
  <2>1. orderly /\ named
    BY <1>1 DEF Log, Tick, LogRPZ, LogReply, Append1
  <2> QED BY <1>0, <1>1, <2>1, TogetherLog
<1>2. CASE Rotate
  BY <1>0, <1>2, TogetherRotate
<1>3. CASE Begin \/ Crash
  <2>1. orderly /\ named
    BY <1>3 DEF Begin, Crash
  <2> QED BY <1>0, <1>3, <2>1, TogetherQuiet
<1>4. CASE Decide
  BY <1>0, <1>4, TogetherDecide DEF Decide
<1>5. CASE Open
  BY <1>0, <1>5, TogetherOpen DEF Open
<1>6. CASE ReadLine
  BY <1>0, <1>6, TogetherReadLine DEF ReadLine
<1>7. CASE EndOfFile
  BY <1>0, <1>7, TogetherEndOfFile DEF EndOfFile
<1>8. CASE UNCHANGED vars
  <2>1. /\ orderly /\ named /\ Together
        /\ UNCHANGED <<written, live, copies, rotating, asked, cursor, counted, labelled,
                       unread, pc, size, todo, text, pos, batch, pending>>
    BY <1>0, <1>8 DEF vars, logVars, dbVars, runVars
  <2>2. CutCursor' /\ Labelled'
    BY <1>0, <2>1, CutCursorSame, LabelledSame DEF Together
  <2>3. Busy => CutTodo'
    <3>1. \A n : File(n)' = File(n)
      BY <2>1 DEF File, CopyNamed
    <3> QED BY <2>1, <3>1 DEF Together, CutTodo, NoneAsked
  <2>4. pc = "read" => CutRead'
    BY <2>1 DEF Together, CutRead, OnlyQueries, WaitsForReplies, WaitsForAsked,
                BatchLabelled, WaitsFor, ReadSoFar, OpenFile, OnLive, Undivided
  <2> QED BY <2>1, <2>2, <2>3, <2>4 DEF Together, Busy
<1> QED BY <1>1, <1>2, <1>3, <1>4, <1>5, <1>6, <1>7, <1>8 DEF Next, Run

LEMMA PolicyInit == Init => QueryInv /\ LaterUncounted /\ PolicyInv
<1> SUFFICES ASSUME Init PROVE QueryInv /\ LaterUncounted /\ PolicyInv
  OBVIOUS
<1>1. Len(written) = 0 /\ \A k \in Keys : asked[k] = 0
  BY DEF Init
<1>2. QueryInv /\ LaterUncounted
  BY <1>1 DEF Init, QueryInv, LaterUncounted
<1>3. Replies = {}
  BY <1>1 DEF Replies
<1>4. PolicyInv
  BY <1>3 DEF Init, PolicyInv, Together, CutCursor, Busy, Labelled
<1> QED BY <1>2, <1>4

(***************************************************************************)
(* A filtered query is stored with its policy: a reply that is counted has *)
(* the policy of its RPZ line, when the line is in the same log file and   *)
(* no RPZ line of another query comes between them.                        *)
(***************************************************************************)
THEOREM PolicyIsKept == Spec => []PolicyKept
<1>1. PolicyInv => PolicyKept
  BY DEF PolicyInv, Together, Labelled, PolicyKept
<1>2. TypeInv /\ OrderInv /\ LossInv /\ QueryInv /\ LaterUncounted => PolicyFacts
  BY DEF PolicyFacts
<1> QED BY <1>1, <1>2, TypeInit, OrderInit, SafeInit, PolicyInit, TypeNext, OrderNext,
           SafeNext, QueryNext, LaterNext, PolicyNext, PTL DEF Spec
=============================================================================
