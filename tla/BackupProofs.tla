---------------------------- MODULE BackupProofs ----------------------------
(***************************************************************************)
(* Proofs about Backup, for any files, contents and bounds, and any Keep   *)
(* of two or more: a restore always has a way back; one that ends is whole *)
(* or put back; and retention keeps to its bound.                          *)
(***************************************************************************)
EXTENDS Backup, FiniteSetTheorems, WellFoundedInduction, TLAPS

\* An archive of the files before carries the name of the safety copy.
Secured == \E a \in archives : a.name = safety /\ a.data = before

Typed ==
  /\ archives \in SUBSET Archive
  /\ safety \in Name /\ clock \in 0 .. MaxTime
  /\ live \in State /\ members \in State

OneOfAName == \A a, b \in archives : a.name = b.name => a = b

\* While the clock goes forward, no archive is of a later second,
Ordered == inOrder => \A a \in archives : a.name.time <= clock

\* not even than the one that is being made.
Latest ==
  inOrder /\ pc \in {"archive", "prune"} =>
    /\ safety.time <= clock
    /\ \A a \in archives : a.name.time <= safety.time

\* A restore changes nothing before it has its safety copy, and has it then.
Untouched ==
  op = "restore" /\ pc \in {"archive", "prune", "read"} => live = before
Held ==
  op = "restore" /\ inOrder =>
    /\ pc = "idle" => live = before \/ Secured
    /\ pc \notin {"archive", "idle"} => Secured

IInv ==
  Typed /\ OneOfAName /\ Ordered /\ Latest /\ Untouched /\ Held

\* Nothing but the other backup of its second comes before the safety copy.
LEMMA OneIsNewer ==
  ASSUME Typed, OneOfAName, inOrder, pc = "prune", Latest,
         NEW s \in archives, s.name = safety
  PROVE  \A b, c \in Newer(s) : b = c
<1> SUFFICES ASSUME NEW b \in Newer(s), NEW c \in Newer(s) PROVE b = c
  OBVIOUS
<1>1. b \in archives /\ c \in archives /\ b.name.time <= safety.time
        /\ c.name.time <= safety.time
  BY DEF Newer, Latest
<1>2. b.name \in Name /\ c.name \in Name /\ safety \in Name
  BY <1>1 DEF Typed, Archive
<1>3. Rank(b.name) > Rank(safety) /\ Rank(c.name) > Rank(safety)
  BY DEF Newer
<1>4. ASSUME NEW n \in Name, n.time <= safety.time, Rank(n) > Rank(safety)
      PROVE  n.time = safety.time /\ n.safety = FALSE
  BY <1>2, <1>4 DEF Rank, Name
<1>5. b.name = [time |-> safety.time, safety |-> FALSE]
  BY <1>1, <1>2, <1>3, <1>4 DEF Name
<1>6. c.name = [time |-> safety.time, safety |-> FALSE]
  BY <1>1, <1>2, <1>3, <1>4 DEF Name
<1> QED BY <1>1, <1>5, <1>6 DEF OneOfAName

LEMMA SafetyStays ==
  ASSUME Typed, OneOfAName, inOrder, pc = "prune", Latest,
         NEW s \in archives, s.name = safety
  PROVE  s \in Pruned
<1>1. CASE Newer(s) = {}
  BY <1>1, FS_EmptySet, BackupAssumption DEF Pruned
<1>2. CASE Newer(s) # {}
  <2>1. PICK b : b \in Newer(s)
    BY <1>2
  <2>2. Newer(s) = {b}
    BY <2>1, OneIsNewer
  <2>3. Cardinality(Newer(s)) = 1
    BY <2>2, FS_Singleton
  <2> QED BY <2>3, BackupAssumption DEF Pruned
<1> QED BY <1>1, <1>2

LEMMA Initially == Init => IInv
<1> SUFFICES ASSUME Init PROVE IInv
  OBVIOUS
<1>1. Typed
  <2>1. MaxTime \in Nat => 0 \in 0 .. MaxTime
    OBVIOUS
  <2> QED BY <2>1, BoundsAssumption DEF Init, Typed, Name, NoName, State,
                                      Empty
<1>2. OneOfAName /\ Ordered /\ Latest /\ Untouched /\ Held
  BY DEF Init, OneOfAName, Ordered, Latest, Untouched, Held
<1> QED BY <1>1, <1>2 DEF IInv, Init

-----------------------------------------------------------------------------
\* One lemma per step that touches the archives, one for the others.

LEMMA BeginKeeps ==
  ASSUME IInv, NEW name \in {"create", "restore"}, Begin(name),
         members' \in State
  PROVE  IInv'
<1> USE DEF Begin
<1>1. safety' = [time |-> clock, safety |-> name = "restore"] /\ safety' \in Name
  BY DEF IInv, Typed, Name
<1>2. Typed' /\ OneOfAName' /\ Ordered'
  BY <1>1 DEF IInv, Typed, OneOfAName, Ordered
<1>3. Latest'
  BY <1>1 DEF IInv, Typed, Ordered, Latest
<1>4. Untouched' /\ Held'
  BY DEF Untouched, Held
<1> QED BY <1>2, <1>3, <1>4 DEF IInv

LEMMA CreateKeeps ==
  ASSUME IInv, Create
  PROVE  IInv'
<1> USE DEF Create, Running
<1> DEFINE new == [name |-> safety, data |-> live]
<1>1. CASE /\ archives' = {a \in archives : a.name # safety} \cup {new}
           /\ GoTo("prune")
  <2>1. new \in Archive /\ new.name = safety /\ new.data = live
    BY DEF IInv, Typed, Archive
  <2> HIDE DEF new
  <2>2. Typed' /\ OneOfAName'
    BY <1>1, <2>1 DEF IInv, Typed, OneOfAName
  <2>3. safety.time \in Nat
    BY BoundsAssumption DEF IInv, Typed, Name
  <2>7. Ordered' /\ Latest'
    BY <1>1, <2>1, <2>3 DEF IInv, Ordered, Latest, GoTo
  <2>4. op = "restore" => live = before
    BY DEF IInv, Untouched
  <2>5. Untouched'
    BY <1>1, <2>4 DEF IInv, Untouched, GoTo
  <2>6. op = "restore" => Secured'
    BY <1>1, <2>1, <2>4 DEF Secured
  <2> QED BY <1>1, <2>2, <2>5, <2>6, <2>7 DEF IInv, Held, GoTo
<1>2. CASE UNCHANGED archives /\ End("failed")
  <2>1. op = "restore" => live = before
    BY DEF IInv, Untouched
  <2> QED BY <1>2, <2>1
       DEF IInv, Typed, OneOfAName, Ordered, Latest, Untouched, Held, End
<1> QED BY <1>1, <1>2

LEMMA PruneKeeps ==
  ASSUME IInv, Prune
  PROVE  IInv'
<1> USE DEF Prune, Running
<1>1. archives' = Pruned /\ Pruned \subseteq archives
  BY DEF Pruned
<1>2. Typed' /\ OneOfAName' /\ Ordered'
  BY <1>1 DEF IInv, Typed, OneOfAName, Ordered
<1>3. op = "restore" /\ inOrder => Secured'
  <2> SUFFICES ASSUME op = "restore", inOrder PROVE Secured'
    OBVIOUS
  <2>1. PICK s \in archives : s.name = safety /\ s.data = before
    BY DEF IInv, Held, Secured
  <2>2. s \in Pruned
    BY <2>1, SafetyStays DEF IInv
  <2> QED BY <1>1, <2>1, <2>2 DEF Secured
<1>4. pc' \in {"idle", "read"} /\ (op = "restore" => pc' = "read")
  BY DEF End, GoTo
<1>5. Latest' /\ Untouched' /\ Held'
  BY <1>3, <1>4 DEF IInv, Latest, Untouched, Held
<1> QED BY <1>2, <1>5 DEF IInv

\* A later step of a restore, or a kill of any.
LEMMA LaterKeeps ==
  ASSUME IInv, live' \in State, members' \in State,
         UNCHANGED <<archives, clock, op, safety, before, inOrder>>,
         pc' \notin {"archive", "prune"},
         pc' = "read" => FALSE,
         live' # live => pc \notin {"idle", "archive", "prune", "read"},
         pc' # "idle" => pc \notin {"idle", "archive"}
  PROVE  IInv'
<1>1. Typed' /\ OneOfAName' /\ Ordered' /\ Latest' /\ Untouched'
  BY DEF IInv, Typed, OneOfAName, Ordered, Latest, Untouched
<1>2. Secured' = Secured
  BY DEF Secured
<1>3. Held'
  BY <1>2 DEF IInv, Held, Untouched
<1> QED BY <1>1, <1>3 DEF IInv

LEMMA EditKeeps ==
  ASSUME IInv, NEW f \in Files, NEW c \in Contents \cup {Gone}, Edit(f, c)
  PROVE  IInv'
<1> USE DEF Edit, job
<1>1. live' \in State
  BY DEF IInv, Typed, State
<1>2. Typed' /\ OneOfAName' /\ Ordered'
  BY <1>1 DEF IInv, Typed, OneOfAName, Ordered
<1> QED BY <1>2 DEF IInv, Latest, Untouched, Held

LEMMA ClockKeeps ==
  ASSUME IInv, ClockChanges
  PROVE  IInv'
<1> USE DEF ClockChanges, job
<1>1. Typed' /\ OneOfAName'
  BY DEF IInv, Typed, OneOfAName
<1>2. \A a \in archives : a.name.time \in Nat
  BY BoundsAssumption DEF IInv, Typed, Archive, Name
<1>3. clock \in Nat /\ clock' \in Nat /\ safety.time \in Nat
  BY BoundsAssumption DEF IInv, Typed, Name
<1>4. inOrder' => inOrder /\ clock' >= clock
  OBVIOUS
<1>5. Ordered'
  BY <1>2, <1>3, <1>4 DEF IInv, Ordered
<1>6. Latest'
  BY <1>2, <1>3, <1>4 DEF IInv, Latest
<1>7. Untouched'
  BY DEF IInv, Untouched
<1>8. Held'
  BY DEF IInv, Held, Secured
<1> QED BY <1>1, <1>5, <1>6, <1>7, <1>8 DEF IInv

LEMMA ContentsOfArchive ==
  ASSUME Typed, NEW n, Has(n)
  PROVE  DataOf(n) \in State
<1>1. PICK a \in archives : a.name = n
  BY DEF Has
<1>2. (CHOOSE b \in archives : b.name = n) \in archives
  BY <1>1
<1> QED BY <1>2 DEF Typed, DataOf, Archive

LEMMA NextKeeps ==
  ASSUME IInv, [Next]_vars
  PROVE  IInv'
<1>1. ASSUME BackupCreate PROVE IInv'
  BY <1>1, BeginKeeps DEF BackupCreate, IInv, Typed
<1>2. ASSUME NEW a \in archives, Restore(a.name) PROVE IInv'
  <2>1. Empty \in State
    BY DEF Empty, State
  <2> QED BY <1>2, <2>1, BeginKeeps DEF Restore
<1>3. ASSUME Create PROVE IInv'
  BY <1>3, CreateKeeps
<1>4. ASSUME Prune PROVE IInv'
  BY <1>4, PruneKeeps
<1>5. ASSUME Read PROVE IInv'
  <2>1. live' = live /\ live' \in State
    BY <1>5 DEF Read, IInv, Typed
  <2>2. members' \in State
    BY <1>5, ContentsOfArchive DEF Read, Readable, IInv, Typed
  <2> QED BY <1>5, <2>1, <2>2, LaterKeeps DEF Read, Running, GoTo, End
<1>6. ASSUME Write \/ WriteBack PROVE IInv'
  <2>1. live' \in State
    <3>1. ASSUME NEW f \in todo, live' = [live EXCEPT ![f] = members[f]]
          PROVE  live' \in State
      <4>1. f \in Files => members[f] \in Contents \cup {Gone}
        BY DEF IInv, Typed, State
      <4> QED BY <3>1, <4>1 DEF IInv, Typed, State
    <3> QED BY <1>6, <3>1 DEF Write, WriteBack, IInv, Typed
  <2>2. members' = members /\ members' \in State
    BY <1>6 DEF Write, WriteBack, IInv, Typed
  <2> QED BY <1>6, <2>1, <2>2, LaterKeeps DEF Write, WriteBack, Running, GoTo, End
<1>7. ASSUME Apply \/ Reload \/ ApplyBack \/ ReloadBack PROVE IInv'
  <2>1. live' = live /\ live' \in State /\ members' \in State
    BY <1>7 DEF Apply, Reload, ApplyBack, ReloadBack, IInv, Typed
  <2> QED BY <1>7, <2>1, LaterKeeps
       DEF Apply, Reload, ApplyBack, ReloadBack, Running, GoTo, End
<1>10. ASSUME ReadBack PROVE IInv'
  <2>1. live' = live /\ live' \in State
    BY <1>10 DEF ReadBack, IInv, Typed
  <2>2. members' \in State
    BY <1>10, ContentsOfArchive DEF ReadBack, Readable, IInv, Typed
  <2> QED BY <1>10, <2>1, <2>2, LaterKeeps DEF ReadBack, Running, GoTo, End
<1>11. ASSUME Daemon PROVE IInv'
  BY <1>11 DEF Daemon, job, IInv, Typed, OneOfAName, Ordered, Latest, Untouched,
               Held, Secured
<1>8. ASSUME Kill PROVE IInv'
  <2>1. live' = live /\ live' \in State /\ members' \in State
    BY <1>8 DEF Kill, IInv, Typed, job
  <2> QED BY <1>8, <2>1, LaterKeeps DEF Kill, job
<1>9. ASSUME UNCHANGED vars PROVE IInv'
  BY <1>9 DEF vars, IInv, Typed, OneOfAName, Ordered, Latest, Untouched, Held,
              Secured
<1> QED
  <2>1. ASSUME Command PROVE IInv'
    BY <2>1, <1>1, <1>2, EditKeeps DEF Command
  <2>2. ASSUME Step PROVE IInv'
    BY <2>2, <1>3, <1>4, <1>5, <1>6, <1>7, <1>10 DEF Step
  <2> QED BY <2>1, <2>2, <1>8, <1>9, <1>11, ClockKeeps DEF Next

(***************************************************************************)
(* From the first file a restore writes until the next command there is an *)
(* archive of the files before, as long as the clock is not set back.      *)
(***************************************************************************)
THEOREM RestoreHasAWayBack == Spec => []WayBack
<1>1. IInv => WayBack
  BY DEF IInv, Held, Untouched, Secured, WayBack
<1> QED BY <1>1, Initially, NextKeeps, PTL DEF Spec

-----------------------------------------------------------------------------
(* What is on disk at each step of a restore, and what unbound has.        *)

Reads == conf \in Fragment /\ served \in State \cup {Down}

Kinds ==
  /\ arg \in Name /\ todo \in SUBSET Files /\ way \in {"none", "apply", "reload"}
  /\ report \in {"none", "ok", "failed", "rejected"}
  /\ pc \in {"idle", "archive", "prune", "read", "write", "apply", "reload",
             "readBack", "writeBack", "applyBack", "reloadBack"}
  /\ pc \notin {"idle", "archive", "prune"} => op = "restore"
  /\ op = "create" => pc \in {"idle", "archive", "prune"}
  /\ pc # "idle" => op \in {"create", "restore"}
  /\ faults \in Nat

\* What is no longer to be written is there.
Written == \A f \in In(members) \ todo : live[f] = members[f]

\* On the way in ...
WayIn ==
  /\ pc = "write" => Written
  /\ pc = "apply" => Holds(members)
  /\ pc = "reload" => Holds(members) /\ conf = Rendered(live)

\* ... and back, where something has failed already: nothing else may.
WayOut ==
  /\ pc \in {"readBack", "writeBack", "applyBack", "reloadBack"} => faults >= 1
  /\ pc = "writeBack" /\ OneFault => members = before /\ Written
  /\ pc = "applyBack" /\ OneFault => Holds(before)
  /\ pc = "reloadBack" /\ OneFault => Holds(before) /\ conf = Rendered(live)
  /\ pc = "idle" /\ report = "rejected" => faults >= 1

Sound == Reads /\ Kinds /\ WayIn /\ WayOut /\ RestoresWhole

LEMMA RenderedIsFragment ==
  ASSUME NEW data \in State
  PROVE  Rendered(data) \in Fragment
BY FilesAssumption DEF Rendered, Fragment, In, State

LEMMA LoadedIsState ==
  ASSUME NEW c \in Fragment, NEW data \in State
  PROVE  Loaded(c, data) \in State
<1>1. ASSUME NEW f \in Files
      PROVE  (IF f = Config THEN c.config ELSE IF f \in c.refs THEN data[f] ELSE Gone)
               \in Contents \cup {Gone}
  BY DEF Fragment, State
<1> QED BY <1>1 DEF Loaded, State

\* Whoever reads a rendered minidns.conf has the files it was rendered from.
LEMMA LoadedIsLive ==
  ASSUME live \in State, conf = Rendered(live)
  PROVE  Loaded(conf, live) = live
<1>1. \A f \in Files :
        (IF f = Config THEN conf.config ELSE IF f \in conf.refs THEN live[f] ELSE Gone)
          = live[f]
  BY DEF Rendered, In
<1> QED BY <1>1 DEF Loaded, State

LEMMA ActivatedReads ==
  ASSUME Reads, NEW data \in State, Activated(data)
  PROVE  Reads'
<1>1. conf' \in Fragment
  BY RenderedIsFragment DEF Activated
<1> QED BY <1>1, LoadedIsState DEF Activated, Reads

LEMMA RefusedReads ==
  ASSUME Reads, live \in State, Refused
  PROVE  Reads'
<1>1. Rendered(live) \in Fragment
  BY RenderedIsFragment
<1> QED BY <1>1, LoadedIsState DEF Refused, Reads

LEMMA ReadsKept ==
  ASSUME IInv, Reads, [Next]_vars
  PROVE  Reads'
<1>0. live \in State /\ Loaded(conf, live) \in State
  BY LoadedIsState DEF IInv, Typed, Reads
<1>1. ASSUME UNCHANGED daemon PROVE Reads'
  BY <1>1 DEF daemon, Reads
<1>2. ASSUME Command PROVE Reads'
  <2>1. ASSUME NEW f \in Files, NEW c \in Contents \cup {Gone}, Edit(f, c)
        PROVE  Reads'
    <3>1. live' \in State
      BY <1>0, <2>1 DEF Edit, State
    <3>2. CASE Activated(live')
      BY <3>1, <3>2, ActivatedReads
    <3>3. CASE /\ UNCHANGED conf
               /\ served' = IF served # Down /\ f \in conf.refs
                              THEN [served EXCEPT ![f] = c] ELSE served
      BY <3>3 DEF Reads, State
    <3> QED BY <2>1, <3>2, <3>3 DEF Edit
  <2> QED BY <1>1, <1>2, <2>1 DEF Command, BackupCreate, Restore, Begin
<1>3. ASSUME Create \/ Prune \/ Read \/ Write \/ ReadBack \/ WriteBack PROVE Reads'
  BY <1>1, <1>3 DEF Create, Prune, Read, Write, ReadBack, WriteBack, OnDisk
<1>4. ASSUME Apply \/ ApplyBack PROVE Reads'
  BY <1>0, <1>4, ActivatedReads, RefusedReads DEF Apply, ApplyBack
<1>5. ASSUME Reload \/ ReloadBack PROVE Reads'
  BY <1>0, <1>5 DEF Reload, ReloadBack, Reloaded, NotReloaded, Reads
<1>6. ASSUME Kill PROVE Reads'
  BY <1>0, <1>6, RenderedIsFragment DEF Kill, Reads
<1>7. ASSUME Daemon PROVE Reads'
  BY <1>0, <1>7 DEF Daemon, Reads
<1>8. ASSUME ClockChanges \/ UNCHANGED vars PROVE Reads'
  BY <1>1, <1>8 DEF ClockChanges, vars, daemon
<1> QED BY <1>2, <1>3, <1>4, <1>5, <1>6, <1>7, <1>8 DEF Next, Step

LEMMA SoundInitially == Init => Sound
<1> SUFFICES ASSUME Init PROVE Sound
  OBVIOUS
<1>1. MaxTime \in Nat => 0 \in 0 .. MaxTime
  OBVIOUS
<1>2. Kinds
  BY <1>1, BoundsAssumption DEF Init, Kinds, Name, NoName
<1>3. live \in State
  BY DEF Init, State
<1>4. Reads
  BY <1>3, RenderedIsFragment DEF Init, Reads
<1> QED BY <1>2, <1>4 DEF Init, Sound, WayIn, WayOut, RestoresWhole

\* A step before the first file is written: nothing to show yet.
LEMMA EarlySound ==
  ASSUME Sound, Reads', Kinds', pc' \in {"archive", "prune", "read", "idle"},
         pc' = "idle" /\ op' = "restore" => report' \in {"none", "failed"},
         report' = "rejected" => pc' # "idle"
  PROVE  Sound'
BY DEF Sound, WayIn, WayOut, RestoresWhole

LEMMA ReadSound ==
  ASSUME IInv, Sound, Reads', Read
  PROVE  Sound'
<1> USE DEF Read, Running, OnDisk
<1>1. op' = "restore"
  BY DEF Sound, Kinds
<1>2. CASE /\ Readable(arg) /\ NoFault
           /\ members' = DataOf(arg) /\ todo' = In(DataOf(arg))
           /\ GoTo("write")
  <2>1. todo' \in SUBSET Files /\ todo' = In(members)'
    BY <1>2 DEF In
  <2> QED BY <1>1, <1>2, <2>1
       DEF Sound, Kinds, WayIn, WayOut, RestoresWhole, Written, GoTo, NoFault
<1>3. CASE /\ IF Readable(arg) THEN Fault ELSE NoFault
           /\ End("failed")
           /\ UNCHANGED <<members, todo>>
  <2>1. faults' \in Nat
    BY <1>3 DEF Fault, NoFault, Sound, Kinds
  <2>2. Kinds'
    BY <1>1, <1>3, <2>1 DEF Sound, Kinds, End
  <2> QED BY <1>3, <2>2, EarlySound DEF End
<1> QED BY <1>2, <1>3

\* A file is written.
LEMMA WriteProgress ==
  ASSUME IInv, Sound, Written, NEW f \in todo,
         live' = [live EXCEPT ![f] = members[f]], UNCHANGED members,
         todo' = todo \ {f}
  PROVE  Written' /\ (todo = {f} => Holds(members)')
<1>1. f \in Files /\ live \in [Files -> Contents \cup {Gone}]
  BY DEF Sound, Kinds, IInv, Typed, State
<1>2. \A g \in Files : live'[g] = IF g = f THEN members[f] ELSE live[g]
  BY <1>1
<1>3. Written'
  BY <1>2 DEF Written, In
<1> QED BY <1>3 DEF Written, Holds

LEMMA WriteSound ==
  ASSUME IInv, Sound, Reads', Write
  PROVE  Sound'
<1> USE DEF Write, Running, OnDisk
<1>0. Written /\ op' = "restore"
  BY DEF Sound, WayIn, Kinds
<1>1. PICK f \in todo :
       \/ /\ live' = [live EXCEPT ![f] = members[f]] /\ NoFault
          /\ todo' = todo \ {f}
          /\ GoTo(IF todo = {f} THEN "apply" ELSE "write")
       \/ Fault /\ UNCHANGED <<live, todo>> /\ End("failed")
  OBVIOUS
<1>2. CASE /\ live' = [live EXCEPT ![f] = members[f]] /\ NoFault
           /\ todo' = todo \ {f}
           /\ GoTo(IF todo = {f} THEN "apply" ELSE "write")
  <2>1. Written' /\ (todo = {f} => Holds(members)')
    BY <1>0, <1>2, WriteProgress
  <2>2. Kinds'
    BY <1>0, <1>2 DEF Sound, Kinds, GoTo, NoFault
  <2> QED BY <1>2, <2>1, <2>2 DEF Sound, WayIn, WayOut, RestoresWhole, GoTo, NoFault
<1>3. CASE Fault /\ UNCHANGED <<live, todo>> /\ End("failed")
  <2>1. Kinds'
    BY <1>0, <1>3 DEF Sound, Kinds, End, Fault
  <2> QED BY <1>3, <2>1, EarlySound DEF End
<1> QED BY <1>1, <1>2, <1>3

LEMMA ApplySound ==
  ASSUME IInv, Sound, Reads', Apply
  PROVE  Sound'
<1> USE DEF Apply, Running
<1>0. Holds(members) /\ op' = "restore" /\ faults \in Nat
  BY DEF Sound, WayIn, Kinds
<1>1. CASE Activated(live) /\ GoTo("reload") /\ NoFault /\ UNCHANGED way
  <2>1. Holds(members)' /\ (conf = Rendered(live))'
    BY <1>0, <1>1 DEF Holds, In, Activated, Rendered
  <2>2. Kinds'
    BY <1>0, <1>1 DEF Sound, Kinds, GoTo, NoFault
  <2> QED BY <1>1, <2>1, <2>2 DEF Sound, WayIn, WayOut, RestoresWhole, GoTo
<1>2. CASE Refused /\ GoTo("readBack") /\ Fault /\ way' = "apply"
  <2>1. faults' \in Nat /\ faults' >= 1
    BY <1>0, <1>2 DEF Fault
  <2>2. Kinds'
    BY <1>0, <1>2, <2>1 DEF Sound, Kinds, GoTo
  <2> QED BY <1>2, <2>1, <2>2 DEF Sound, WayIn, WayOut, RestoresWhole, GoTo
<1> QED BY <1>1, <1>2

LEMMA ReloadSound ==
  ASSUME IInv, Sound, Reads', Reload
  PROVE  Sound'
<1> USE DEF Reload, Running
<1>0. Holds(members) /\ conf = Rendered(live) /\ op' = "restore" /\ faults \in Nat
  BY DEF Sound, WayIn, Kinds
<1>1. CASE /\ IF served = Down THEN UNCHANGED served ELSE Reloaded
           /\ End("ok") /\ NoFault /\ UNCHANGED way
  <2>1. Holds(members)' /\ (conf = Rendered(live))'
    BY <1>0 DEF Holds, In, Rendered
  <2>2. Loaded(conf, live) = live
    BY <1>0, LoadedIsLive DEF IInv, Typed
  <2>3. Serves'
    BY <1>1, <2>1, <2>2 DEF Serves, Reloaded
  <2>4. Kinds'
    BY <1>0, <1>1 DEF Sound, Kinds, End, NoFault
  <2> QED BY <1>1, <2>1, <2>3, <2>4 DEF Sound, WayIn, WayOut, RestoresWhole, End
<1>2. CASE /\ served # Down /\ NotReloaded
           /\ GoTo("readBack") /\ Fault /\ way' = "reload"
  <2>1. faults' \in Nat /\ faults' >= 1
    BY <1>0, <1>2 DEF Fault
  <2>2. Kinds'
    BY <1>0, <1>2, <2>1 DEF Sound, Kinds, GoTo
  <2> QED BY <1>2, <2>1, <2>2 DEF Sound, WayIn, WayOut, RestoresWhole, GoTo
<1> QED BY <1>1, <1>2

LEMMA SecuredIsFound ==
  ASSUME IInv, Secured
  PROVE  Has(safety) /\ DataOf(safety) = before
<1>1. PICK s \in archives : s.name = safety /\ s.data = before
  BY DEF Secured
<1>2. (CHOOSE a \in archives : a.name = safety) = s
  BY <1>1 DEF IInv, OneOfAName
<1> QED BY <1>1, <1>2 DEF Has, DataOf

LEMMA ReadBackSound ==
  ASSUME IInv, Sound, Reads', ReadBack
  PROVE  Sound'
<1> USE DEF ReadBack, Running, OnDisk
<1>0. op' = "restore" /\ faults \in Nat /\ faults >= 1
  BY DEF Sound, Kinds, WayOut
<1>1. inOrder => Has(safety) /\ DataOf(safety) = before
  BY SecuredIsFound DEF IInv, Held, Sound, Kinds
<1>4. Readable(safety) \/ ~Has(safety) \/ In(DataOf(safety)) = {}
  BY DEF Readable
<1>2. CASE /\ Readable(safety) /\ NoFault
           /\ members' = DataOf(safety) /\ todo' = In(DataOf(safety))
           /\ GoTo("writeBack")
  <2>1. todo' \in SUBSET Files /\ Written'
    BY <1>2 DEF In, Written
  <2>2. Kinds'
    BY <1>0, <1>2, <2>1 DEF Sound, Kinds, GoTo, NoFault
  <2>3. OneFault' => members' = before'
    BY <1>1, <1>2 DEF OneFault
  <2> QED BY <1>0, <1>2, <2>1, <2>2, <2>3
       DEF Sound, WayIn, WayOut, RestoresWhole, GoTo, NoFault
<1>3. CASE /\ IF Readable(safety) THEN Fault ELSE NoFault
           /\ GoTo("applyBack")
           /\ UNCHANGED <<members, todo>>
  <2>1. faults' \in Nat /\ faults' >= 1
    BY <1>0, <1>3 DEF Fault, NoFault
  <2>2. OneFault' => Holds(before)'
    <3>1. OneFault' => In(before) = {}
      BY <1>0, <1>1, <1>3, <1>4 DEF OneFault, Fault
    <3> QED BY <3>1 DEF Holds, In
  <2>3. Kinds'
    BY <1>0, <1>3, <2>1 DEF Sound, Kinds, GoTo, NoFault, Fault
  <2> QED BY <1>3, <2>1, <2>2, <2>3 DEF Sound, WayIn, WayOut, RestoresWhole, GoTo
<1> QED BY <1>2, <1>3

LEMMA WriteBackSound ==
  ASSUME IInv, Sound, Reads', WriteBack
  PROVE  Sound'
<1> USE DEF WriteBack, Running, OnDisk
<1>0. op' = "restore" /\ faults \in Nat /\ faults >= 1
  BY DEF Sound, Kinds, WayOut
<1>1. PICK f \in todo :
       \/ /\ live' = [live EXCEPT ![f] = members[f]] /\ NoFault
          /\ todo' = todo \ {f}
          /\ GoTo(IF todo = {f} THEN "applyBack" ELSE "writeBack")
       \/ Fault /\ UNCHANGED <<live, todo>> /\ GoTo("applyBack")
  OBVIOUS
<1>2. CASE /\ live' = [live EXCEPT ![f] = members[f]] /\ NoFault
           /\ todo' = todo \ {f}
           /\ GoTo(IF todo = {f} THEN "applyBack" ELSE "writeBack")
  <2>1. ASSUME OneFault' PROVE members' = before' /\ Written' /\
                                 (todo = {f} => Holds(before)')
    <3>1. members = before /\ Written
      BY <1>2, <2>1 DEF OneFault, NoFault, Sound, WayOut
    <3> QED BY <1>2, <3>1, WriteProgress DEF Holds, In
  <2>2. Kinds'
    BY <1>0, <1>2 DEF Sound, Kinds, GoTo, NoFault
  <2> QED BY <1>0, <1>2, <2>1, <2>2
       DEF Sound, WayIn, WayOut, RestoresWhole, GoTo, NoFault
<1>3. CASE Fault /\ UNCHANGED <<live, todo>> /\ GoTo("applyBack")
  <2>1. faults' \in Nat /\ faults' >= 1 /\ ~OneFault'
    BY <1>0, <1>3 DEF Fault, OneFault
  <2>2. Kinds'
    BY <1>0, <1>3, <2>1 DEF Sound, Kinds, GoTo
  <2> QED BY <1>3, <2>1, <2>2 DEF Sound, WayIn, WayOut, RestoresWhole, GoTo
<1> QED BY <1>1, <1>2, <1>3

LEMMA ApplyBackSound ==
  ASSUME IInv, Sound, Reads', ApplyBack
  PROVE  Sound'
<1> USE DEF ApplyBack, Running
<1>0. op' = "restore" /\ faults \in Nat /\ faults >= 1
  BY DEF Sound, Kinds, WayOut
<1>1. faults' \in Nat /\ faults' >= 1
  BY <1>0 DEF Fault, NoFault
<1>2. OneFault' => Holds(before)' /\ (conf = Rendered(live))'
  <2>1. CASE Activated(live) /\ NoFault
    <3>1. OneFault' => Holds(before)'
      BY <2>1 DEF OneFault, NoFault, Sound, WayOut, Holds
    <3> QED BY <2>1, <3>1 DEF Activated, Rendered, In
  <2>2. CASE Refused /\ Fault
    BY <1>0, <2>2 DEF Fault, OneFault
  <2> QED BY <2>1, <2>2
<1>3. Kinds'
  BY <1>0, <1>1 DEF Sound, Kinds, GoTo, End
<1>4. CASE way = "reload" /\ GoTo("reloadBack")
  BY <1>1, <1>2, <1>3, <1>4 DEF Sound, WayIn, WayOut, RestoresWhole, GoTo
<1>5. CASE way # "reload" /\ End("rejected")
  BY <1>1, <1>2, <1>3, <1>5 DEF Sound, WayIn, WayOut, RestoresWhole, End
<1> QED BY <1>4, <1>5

LEMMA ReloadBackSound ==
  ASSUME IInv, Sound, Reads', ReloadBack
  PROVE  Sound'
<1> USE DEF ReloadBack, Running
<1>0. op' = "restore" /\ faults \in Nat /\ faults >= 1
  BY DEF Sound, Kinds, WayOut
<1>1. faults' \in Nat /\ faults' >= 1
  BY <1>0 DEF Fault, NoFault
<1>2. OneFault' => Reloaded /\ OneFault
  BY <1>0 DEF OneFault, Fault, NoFault
<1>3. OneFault' => Holds(before)' /\ Serves'
  <2> SUFFICES ASSUME OneFault' PROVE Holds(before)' /\ Serves'
    OBVIOUS
  <2>1. Holds(before) /\ conf = Rendered(live)
    BY <1>2 DEF Sound, WayOut
  <2>2. Loaded(conf, live) = live
    BY <2>1, LoadedIsLive DEF IInv, Typed
  <2> QED BY <1>2, <2>1, <2>2 DEF Holds, In, Serves, Rendered, Reloaded
<1>4. Kinds'
  BY <1>0, <1>1 DEF Sound, Kinds, End
<1> QED BY <1>1, <1>3, <1>4 DEF Sound, WayIn, WayOut, RestoresWhole, End, Serves

\* The clock of a restore at work, or when it is over.
LEMMA ClockSound ==
  ASSUME Sound, Reads', ClockChanges
  PROVE  Sound'
<1> USE DEF ClockChanges, job
<1>1. Kinds' /\ WayIn'
  BY DEF Sound, Kinds, WayIn, Written, Holds, In, Rendered, daemon
<1>2. OneFault' => OneFault
  BY DEF OneFault
<1>3. WayOut'
  BY <1>2 DEF Sound, WayOut, Written, Holds, In, Rendered, daemon
<1>4. RestoresWhole'
  BY <1>2 DEF Sound, RestoresWhole, Holds, In, Serves, Rendered, daemon
<1> QED BY <1>1, <1>3, <1>4 DEF Sound

\* Unbound stops, or starts with the files there are.
LEMMA DaemonSound ==
  ASSUME IInv, Sound, Reads', Daemon
  PROVE  Sound'
<1> USE DEF Daemon, job
<1>1. Kinds' /\ WayIn' /\ WayOut'
  BY DEF Sound, Kinds, WayIn, WayOut, Written, Holds, In, Rendered, OneFault
<1>2. Serves => Serves'
  <2> SUFFICES ASSUME Serves PROVE Serves'
    OBVIOUS
  <2>1. Loaded(conf, live) = live
    BY LoadedIsLive DEF IInv, Typed, Serves
  <2> QED BY <2>1 DEF Serves, Rendered, In
<1>3. RestoresWhole'
  BY <1>2 DEF Sound, RestoresWhole, Holds, In, Rendered, OneFault
<1> QED BY <1>1, <1>3 DEF Sound

LEMMA SoundKept ==
  ASSUME IInv, Sound, [Next]_vars
  PROVE  Sound'
<1>0. Reads'
  BY ReadsKept DEF Sound
<1>1. ASSUME NEW name \in {"create", "restore"}, Begin(name), Kinds' PROVE Sound'
  BY <1>0, <1>1, EarlySound DEF Begin
<1>2. ASSUME BackupCreate PROVE Sound'
  <2>1. Kinds'
    BY <1>2 DEF BackupCreate, Begin, Sound, Kinds
  <2> QED BY <1>1, <1>2, <2>1 DEF BackupCreate
<1>3. ASSUME NEW a \in archives, Restore(a.name) PROVE Sound'
  <2>1. a.name \in Name
    BY DEF IInv, Typed, Archive
  <2>2. Kinds'
    BY <1>3, <2>1 DEF Restore, Begin, Sound, Kinds
  <2> QED BY <1>1, <1>3, <2>2 DEF Restore
<1>4. ASSUME NEW f \in Files, NEW c \in Contents \cup {Gone}, Edit(f, c)
      PROVE  Sound'
  <2>1. Kinds'
    BY <1>4 DEF Edit, job, Sound, Kinds
  <2> QED BY <1>0, <1>4, <2>1 DEF Edit, Sound, WayIn, WayOut, RestoresWhole
<1>5. ASSUME Create PROVE Sound'
  <2>1. Kinds'
    BY <1>5 DEF Create, Running, OnDisk, GoTo, End, Fault, NoFault, Sound, Kinds
  <2> QED BY <1>0, <1>5, <2>1, EarlySound DEF Create, GoTo, End
<1>6. ASSUME Prune PROVE Sound'
  <2>1. Kinds'
    BY <1>6 DEF Prune, Running, OnDisk, GoTo, End, Sound, Kinds
  <2> QED BY <1>0, <1>6, <2>1 DEF Prune, Running, GoTo, End, Sound, WayIn, WayOut,
                            RestoresWhole
<1>7. ASSUME Kill PROVE Sound'
  <2>1. Kinds'
    BY <1>7 DEF Kill, job, Sound, Kinds
  <2> QED BY <1>0, <1>7, <2>1, EarlySound DEF Kill
<1>8. ASSUME UNCHANGED vars PROVE Sound'
  BY <1>0, <1>8 DEF vars, Sound, Kinds, WayIn, WayOut, RestoresWhole, Written,
                    Holds, In, OneFault, Serves, Rendered
<1> QED
  <2>1. ASSUME Command PROVE Sound'
    BY <2>1, <1>2, <1>3, <1>4 DEF Command
  <2>2. ASSUME Step PROVE Sound'
    BY <2>2, <1>0, <1>5, <1>6, ReadSound, WriteSound, ApplySound, ReloadSound,
       ReadBackSound, WriteBackSound, ApplyBackSound, ReloadBackSound DEF Step
  <2> QED BY <2>1, <2>2, <1>0, <1>7, <1>8, DaemonSound, ClockSound DEF Next

(***************************************************************************)
(* A restore that succeeds leaves every file of the archive, and unbound,  *)
(* if it runs, has exactly the files there are.  One that is rejected, if  *)
(* nothing else fails, leaves every file there was before and the          *)
(* minidns.conf rendered from them; and unbound has them too if it was     *)
(* Reload that failed.  After a failed cmdApplyQuiet it may not: PutBack   *)
(* is not a theorem.                                                       *)
(***************************************************************************)
THEOREM RestoreIsWhole == Spec => []RestoresWhole
<1>1. Init => IInv /\ Sound
  BY Initially, SoundInitially
<1>2. IInv /\ Sound /\ [Next]_vars => (IInv /\ Sound)'
  BY NextKeeps, SoundKept
<1>3. Sound => RestoresWhole
  BY DEF Sound
<1> QED BY <1>1, <1>2, <1>3, PTL DEF Spec

-----------------------------------------------------------------------------
(* Retention: a command that ends by itself leaves Keep archives at most.  *)

LEMMA LeastNumber ==
  ASSUME NEW S \in SUBSET Nat, S # {}
  PROVE  \E m \in S : \A n \in S : m <= n
<1>1. PICK m \in S : \A n \in S : <<n, m>> \notin OpToRel(<, Nat)
  BY NatLessThanWellFounded, WFMin
<1>2. \A n \in S : ~(n < m)
  BY <1>1 DEF OpToRel
<1> QED BY <1>2

Counted ==
  /\ IsFiniteSet(archives) /\ killed \in Nat
  /\ killed = 0 /\ pc # "prune" => Cardinality(archives) <= Keep

\* The archive that comes last has all the others before it.
LEMMA KeepStay ==
  ASSUME Typed, OneOfAName, IsFiniteSet(archives)
  PROVE  IsFiniteSet(Pruned) /\ Cardinality(Pruned) <= Keep
<1> DEFINE ranks == {Rank(a.name) : a \in Pruned}
<1>0. IsFiniteSet(Pruned) /\ Pruned \subseteq archives
  BY FS_Subset DEF Pruned
<1>1. CASE Pruned = {}
  BY <1>0, <1>1, FS_EmptySet, BackupAssumption
<1>2. CASE Pruned # {}
  <2>1. \A n \in Name : n.time \in Nat /\ n.safety \in BOOLEAN /\ Rank(n) \in Nat
    BY BoundsAssumption DEF Name, Rank
  <2>2. \A a \in Pruned : a.name \in Name
    BY <1>0 DEF Typed, Archive
  <2>3. ranks \in SUBSET Nat /\ ranks # {}
    BY <1>2, <2>1, <2>2
  <2>4. PICK r \in ranks : \A q \in ranks : r <= q
    BY <2>3, LeastNumber
  <2>5. PICK s \in Pruned : r = Rank(s.name)
    BY <2>4
  <2>6. ASSUME NEW a \in Pruned \ {s} PROVE a \in Newer(s)
    <3>1. Rank(a.name) >= Rank(s.name)
      BY <2>4, <2>5
    <3>2. Rank(a.name) # Rank(s.name)
      <4>1. a.name # s.name
        BY <1>0, <2>6 DEF OneOfAName
      <4>2. a.name.time # s.name.time \/ a.name.safety # s.name.safety
        BY <2>2, <2>6, <4>1 DEF Name
      <4> QED BY <2>1, <2>2, <2>6, <4>2 DEF Rank
    <3> QED BY <1>0, <2>1, <2>2, <2>6, <3>1, <3>2 DEF Newer
  <2>7. IsFiniteSet(Newer(s)) /\ Cardinality(Newer(s)) < Keep
    BY <2>5, FS_Subset DEF Pruned, Newer
  <2>8. Cardinality(Pruned \ {s}) <= Cardinality(Newer(s))
    BY <2>6, <2>7, FS_Subset
  <2>9. Cardinality(Pruned \ {s}) = Cardinality(Pruned) - 1
    BY <1>0, FS_RemoveElement
  <2> QED BY <1>0, <2>7, <2>8, <2>9, FS_CardinalityType, BackupAssumption
<1> QED BY <1>1, <1>2

LEMMA CountedKept ==
  ASSUME IInv, Counted, [Next]_vars
  PROVE  Counted'
<1>1. ASSUME Create PROVE Counted'
  <2>1. IsFiniteSet({a \in archives : a.name # safety})
    BY FS_Subset DEF Counted
  <2>2. IsFiniteSet(archives')
    BY <1>1, <2>1, FS_AddElement DEF Create, Counted
  <2>3. pc' = "prune" \/ archives' = archives
    BY <1>1 DEF Create, GoTo
  <2> QED BY <1>1, <2>2, <2>3 DEF Create, Running, Counted
<1>2. ASSUME Prune PROVE Counted'
  BY <1>2, KeepStay DEF Prune, Running, GoTo, End, Counted, IInv
<1>3. ASSUME pc # "prune", UNCHANGED archives, pc' # "prune",
             killed' \in Nat, killed' = 0 => killed = 0
      PROVE  Counted'
  BY <1>3 DEF Counted
<1>4. ASSUME Command PROVE Counted'
  BY <1>4, <1>3 DEF Command, BackupCreate, Restore, Begin, Edit, Counted
<1>5. ASSUME \/ Read \/ Write \/ Apply \/ Reload
             \/ ReadBack \/ WriteBack \/ ApplyBack \/ ReloadBack
      PROVE  Counted'
  BY <1>5, <1>3 DEF Read, Write, Apply, Reload, ReadBack, WriteBack, ApplyBack,
                    ReloadBack, Running, GoTo, End, Counted
<1>6. ASSUME Kill PROVE Counted'
  BY <1>6 DEF Kill, Counted
<1>7. ASSUME Daemon \/ ClockChanges \/ UNCHANGED vars PROVE Counted'
  BY <1>7 DEF Daemon, ClockChanges, vars, Counted
<1> QED BY <1>1, <1>2, <1>4, <1>5, <1>6, <1>7 DEF Next, Step

(***************************************************************************)
(* The variables have their types, no two archives have a name, and a      *)
(* command that was not killed leaves Keep archives at most, the clock set *)
(* back or not.                                                            *)
(***************************************************************************)
THEOREM BackupTypes == Spec => []TypeOK
<1>1. Init => IInv /\ Sound /\ Counted
  <2>1. Init => Counted
    BY FS_EmptySet, BackupAssumption DEF Init, Counted
  <2> QED BY <2>1, Initially, SoundInitially
<1>2. IInv /\ Sound /\ Counted /\ [Next]_vars => (IInv /\ Sound /\ Counted)'
  BY NextKeeps, SoundKept, CountedKept
<1>3. IInv /\ Sound /\ Counted => TypeOK
  BY DEF IInv, Typed, OneOfAName, Sound, Reads, Kinds, Counted, TypeOK
<1> QED BY <1>1, <1>2, <1>3, PTL DEF Spec
=============================================================================
