------------------------------- MODULE Backup -------------------------------
(***************************************************************************)
(* backup create and restore (cmd/minidns/backup.go): archives named after *)
(* the second they were made in, of which the last Keep stay, and a        *)
(* restore that backs up the current state first and puts it back if       *)
(* unbound rejects the restored one.                                       *)
(*                                                                         *)
(* Files are written one after the other, over the ones there are; a file  *)
(* the archive does not have stays.  Each write can fail and a command can *)
(* be killed between any two steps; the commands exclude each other.       *)
(* unbound has read minidns.conf, which comes from config.yaml and refers  *)
(* to the other files there are; it can stop and start at any time.        *)
(***************************************************************************)
EXTENDS Integers, FiniteSets

CONSTANTS
  Files,      \* what is backed up: config.yaml, zones, overlays, rules, ...
  Config,     \* config.yaml
  Contents,   \* what can be in one of them
  Gone,       \* there is no such file
  Down,       \* unbound does not run
  Keep,       \* keepBackups
  MaxTime, MaxCommands, MaxFaults, MaxKills   \* bounds of a run

\* Two archives can be of one second, see Rank.
ASSUME BackupAssumption == Keep \in Nat /\ Keep >= 2 /\ Gone \notin Contents
ASSUME FilesAssumption == Config \in Files /\ Down \notin [Files -> Contents \cup {Gone}]
ASSUME BoundsAssumption == MaxTime \in Nat

State == [Files -> Contents \cup {Gone}]

\* minidns.conf: what config.yaml was and which other files there were.
Fragment == [config: Contents \cup {Gone}, refs: SUBSET Files]

\* What the name of an archive says of it, and what is in it.
Name == [time: 0 .. MaxTime, safety: BOOLEAN]
Archive == [name: Name, data: State]
NoName == [time |-> 0, safety |-> FALSE]

VARIABLES
  live,      \* the files
  conf,      \* minidns.conf
  served,    \* the files unbound has loaded, or Down
  archives,  \* /var/lib/minidns/backups
  clock,     \* in seconds
  pc, op,    \* the running command: its next step, and which one it is
  arg,       \* the archive to restore
  safety,    \* the one made before
  members,   \* what an archive held
  todo,      \* the files still to be written
  way,       \* what made a restore go back: cmdApplyQuiet or Reload
  report,    \* what the last command reported
  before,    \* history: the files when it began
  inOrder,   \* history: the clock has never been set back
  killed, commands, faults

job == <<arg, safety, members, todo>>
daemon == <<conf, served>>
vars == <<live, conf, served, archives, clock, pc, op, arg, safety, members,
          todo, way, report, before, inOrder, killed, commands, faults>>

\* At most Keep archives stay, unless a command was killed before it pruned.
TypeOK ==
  /\ live \in State /\ members \in State
  /\ conf \in Fragment /\ served \in State \cup {Down}
  /\ archives \in SUBSET Archive
  /\ \A a, b \in archives : a.name = b.name => a = b
  /\ pc = "idle" /\ killed = 0 => Cardinality(archives) <= Keep
  /\ arg \in Name /\ safety \in Name /\ todo \in SUBSET Files
  /\ way \in {"none", "apply", "reload"}
  /\ report \in {"none", "ok", "failed", "rejected"}

Empty == [f \in Files |-> Gone]

In(data) == {f \in Files : data[f] # Gone}

\* Render refers to the files there are (fileExists).
Rendered(data) == [config |-> data[Config], refs |-> In(data) \ {Config}]

\* What unbound has when it has read c and the files it refers to.
Loaded(c, data) ==
  [f \in Files |-> IF f = Config THEN c.config ELSE IF f \in c.refs THEN data[f] ELSE Gone]

Init ==
  /\ live \in [Files -> Contents]
  /\ conf = Rendered(live) /\ served = live
  /\ archives = {} /\ clock = 0
  /\ pc = "idle" /\ op = "none"
  /\ arg = NoName /\ safety = NoName /\ members = Empty /\ todo = {}
  /\ way = "none" /\ report = "none" /\ before = Empty /\ inOrder = TRUE
  /\ killed = 0 /\ commands = 0 /\ faults = 0

-----------------------------------------------------------------------------
\* listBackups sorts by name: in one second, a safety copy before a backup.
Rank(n) == 2 * n.time + (IF n.safety THEN 0 ELSE 1)
Newer(a) == {b \in archives : Rank(b.name) > Rank(a.name)}

\* Mutant: one too many stays.
PrunedLate == {a \in archives : Cardinality(Newer(a)) <= Keep}

\* Mutant: the oldest stay.
PrunedNewest ==
  {a \in archives : Cardinality({b \in archives : Rank(b.name) < Rank(a.name)}) < Keep}

\* pruneBackups.
Pruned == {a \in archives : Cardinality(Newer(a)) < Keep}

Has(n) == \E a \in archives : a.name = n
DataOf(n) == (CHOOSE a \in archives : a.name = n).data
Readable(n) == Has(n) /\ In(DataOf(n)) # {}

-----------------------------------------------------------------------------
Fault == faults < MaxFaults /\ faults' = faults + 1
NoFault == UNCHANGED faults

Begin(name) ==
  /\ pc = "idle" /\ commands < MaxCommands
  /\ commands' = commands + 1
  /\ pc' = "archive" /\ op' = name /\ way' = "none" /\ report' = "none"
  /\ before' = live
  /\ safety' = [time |-> clock, safety |-> name = "restore"]
  /\ UNCHANGED <<live, daemon, archives, clock, inOrder, killed, faults>>

GoTo(step) == pc' = step /\ UNCHANGED report
End(r) == pc' = "idle" /\ report' = r
Running == UNCHANGED <<clock, op, arg, safety, before, inOrder, killed, commands>>
OnDisk == UNCHANGED <<daemon, way>>

BackupCreate == Begin("create") /\ UNCHANGED <<arg, members, todo>>

Restore(n) ==
  /\ Has(n)
  /\ Begin("restore")
  /\ arg' = n /\ members' = Empty /\ todo' = {}

\* createBackup: complete under another name first, then renamed.
Create ==
  /\ pc = "archive"
  /\ \/ /\ archives' = {a \in archives : a.name # safety}
                         \cup {[name |-> safety, data |-> live]}
        /\ GoTo("prune") /\ NoFault
     \/ Fault /\ UNCHANGED archives /\ End("failed")
  /\ Running /\ OnDisk
  /\ UNCHANGED <<live, members, todo>>

Prune ==
  /\ pc = "prune"
  /\ archives' = Pruned
  /\ IF op = "create" THEN End("ok") ELSE GoTo("read")
  /\ Running /\ OnDisk
  /\ UNCHANGED <<live, members, todo, faults>>

\* restoreBackup reads the whole archive, if it is still there and sound, ...
Read ==
  /\ pc = "read"
  /\ \/ /\ Readable(arg) /\ NoFault
        /\ members' = DataOf(arg) /\ todo' = In(DataOf(arg))
        /\ GoTo("write")
     \/ /\ IF Readable(arg) THEN Fault ELSE NoFault
        /\ End("failed")
        /\ UNCHANGED <<members, todo>>
  /\ Running /\ OnDisk
  /\ UNCHANGED <<live, archives>>

\* ... and then writes its files.
Write ==
  /\ pc = "write"
  /\ \E f \in todo :
       \/ /\ live' = [live EXCEPT ![f] = members[f]] /\ NoFault
          /\ todo' = todo \ {f}
          /\ GoTo(IF todo = {f} THEN "apply" ELSE "write")
       \/ Fault /\ UNCHANGED <<live, todo>> /\ End("failed")
  /\ Running /\ OnDisk
  /\ UNCHANGED <<archives, members>>

\* cmdApplyQuiet: unbound reloads if minidns.conf has changed, and only then.
Activated(data) ==
  /\ conf' = Rendered(data)
  /\ served' = IF served # Down /\ conf' # conf THEN Loaded(conf', data) ELSE served

\* It fails: the minidns.conf of before is there again.  Unbound has not been
\* asked; or it has been, and then reads that one, with the files there are now;
\* or this reload fails as well.
Refused ==
  /\ UNCHANGED conf
  /\ \/ UNCHANGED served
     \/ /\ served # Down /\ conf # Rendered(live)
        /\ \/ served' = Loaded(conf, live)
           \/ served' \in {Down, Loaded(Rendered(live), live)}

\* Reload: unbound reads everything again, or is started.
Reloaded == served' = Loaded(conf, live)
NotReloaded == served' \in {Down, served, Loaded(conf, live)}

Apply ==
  /\ pc = "apply"
  /\ \/ Activated(live) /\ GoTo("reload") /\ NoFault /\ UNCHANGED way
     \/ Refused /\ GoTo("readBack") /\ Fault /\ way' = "apply"
  /\ Running
  /\ UNCHANGED <<live, archives, members, todo>>

\* "zone and rule files may have changed under an unchanged config"
Reload ==
  /\ pc = "reload"
  /\ \/ /\ IF served = Down THEN UNCHANGED served ELSE Reloaded
        /\ End("ok") /\ NoFault /\ UNCHANGED way
     \/ /\ served # Down /\ NotReloaded
        /\ GoTo("readBack") /\ Fault /\ way' = "reload"
  /\ Running
  /\ UNCHANGED <<live, conf, archives, members, todo>>

\* restoreBackup of the safety copy: nobody asks how it went.
ReadBack ==
  /\ pc = "readBack"
  /\ \/ /\ Readable(safety) /\ NoFault
        /\ members' = DataOf(safety) /\ todo' = In(DataOf(safety))
        /\ GoTo("writeBack")
     \/ /\ IF Readable(safety) THEN Fault ELSE NoFault
        /\ GoTo("applyBack")
        /\ UNCHANGED <<members, todo>>
  /\ Running /\ OnDisk
  /\ UNCHANGED <<live, archives>>

WriteBack ==
  /\ pc = "writeBack"
  /\ \E f \in todo :
       \/ /\ live' = [live EXCEPT ![f] = members[f]] /\ NoFault
          /\ todo' = todo \ {f}
          /\ GoTo(IF todo = {f} THEN "applyBack" ELSE "writeBack")
       \/ Fault /\ UNCHANGED <<live, todo>> /\ GoTo("applyBack")
  /\ Running /\ OnDisk
  /\ UNCHANGED <<archives, members>>

\* The second cmdApplyQuiet.  Only after a failed Reload another one follows.
ApplyBack ==
  /\ pc = "applyBack"
  /\ \/ Activated(live) /\ NoFault
     \/ Refused /\ Fault
  /\ IF way = "reload" THEN GoTo("reloadBack") ELSE End("rejected")
  /\ Running
  /\ UNCHANGED <<live, archives, members, todo, way>>

\* Mutant: as after a failed cmdApplyQuiet.
NoReloadBack ==
  /\ pc = "reloadBack"
  /\ End("rejected") /\ NoFault
  /\ Running
  /\ UNCHANGED <<live, daemon, archives, members, todo, way>>

ReloadBack ==
  /\ pc = "reloadBack"
  /\ \/ Reloaded /\ NoFault
     \/ NotReloaded /\ Fault
  /\ End("rejected")
  /\ Running
  /\ UNCHANGED <<live, conf, archives, members, todo, way>>

-----------------------------------------------------------------------------
\* Any other command, wholly or not at all (ConfigTransaction).  One that
\* changes neither config.yaml nor which files there are reloads its file only.
Edit(f, c) ==
  /\ pc = "idle" /\ commands < MaxCommands
  /\ commands' = commands + 1
  /\ live' = [live EXCEPT ![f] = c]
  /\ IF f = Config \/ (c = Gone) # (live[f] = Gone)
       THEN Activated(live')
       ELSE /\ UNCHANGED conf
            /\ served' = IF served # Down /\ f \in conf.refs
                           THEN [served EXCEPT ![f] = c] ELSE served
  /\ op' = "edit" /\ way' = "none" /\ report' = "ok"
  /\ UNCHANGED <<archives, clock, pc, job, before, inOrder, killed, faults>>

\* Within cmdApplyQuiet minidns.conf may have been written already.
Kill ==
  /\ pc # "idle" /\ killed < MaxKills
  /\ killed' = killed + 1
  /\ pc' = "idle" /\ report' = "none"
  /\ conf' \in IF pc \in {"apply", "applyBack"} THEN {conf, Rendered(live)} ELSE {conf}
  /\ UNCHANGED <<live, served, archives, clock, op, job, way, before, inOrder,
                 commands, faults>>

\* unbound stops, or starts with the files there are.
Daemon ==
  /\ served' = IF served = Down THEN Loaded(conf, live) ELSE Down
  /\ UNCHANGED <<live, conf, archives, clock, pc, op, job, way, report, before,
                 inOrder, killed, commands, faults>>

\* Time passes, or the clock is set.
ClockChanges ==
  /\ clock' \in 0 .. MaxTime
  /\ inOrder' = (inOrder /\ clock' >= clock)
  /\ UNCHANGED <<live, daemon, archives, pc, op, job, way, report, before, killed,
                 commands, faults>>

Command ==
  \/ BackupCreate
  \/ \E a \in archives : Restore(a.name)
  \/ \E f \in Files, c \in Contents \cup {Gone} : Edit(f, c)

Step ==
  \/ Create \/ Prune \/ Read \/ Write \/ Apply \/ Reload
  \/ ReadBack \/ WriteBack \/ ApplyBack \/ ReloadBack

Next == Command \/ Step \/ Kill \/ Daemon \/ ClockChanges

Spec == Init /\ [][Next]_vars

-----------------------------------------------------------------------------
\* What a restore promises

Holds(data) == \A f \in In(data) : live[f] = data[f]

\* A single failure, and retention has kept the safety copy.
OneFault == faults = 1 /\ inOrder

(***************************************************************************)
(* "The current state is backed up first, and put back if unbound rejects  *)
(* the restored one" (restoreCmd).  A restore that succeeds leaves every   *)
(* file of the archive, and unbound, if it runs, has exactly the files     *)
(* there are.  One that is rejected, if nothing else fails, leaves every   *)
(* file of before, and a minidns.conf that is rendered from them; unbound  *)
(* has them for sure only if it was Reload that failed, see PutBack.       *)
(***************************************************************************)
Serves == conf = Rendered(live) /\ (served # Down => served = live)
RestoresWhole ==
  pc = "idle" /\ op = "restore" =>
    /\ report = "ok" => Holds(members) /\ Serves
    /\ report = "rejected" /\ OneFault =>
         /\ Holds(before) /\ conf = Rendered(live)
         /\ way = "reload" => Serves

(***************************************************************************)
(* The same sentence, taken at its word: after a restore that was rejected *)
(* because of one failure, unbound answers from the zones and rules of     *)
(* before.  It does not always: cmdApplyQuiet, when its reload fails, puts *)
(* the old minidns.conf back and has unbound read it, with the restored    *)
(* files; the second one finds minidns.conf unchanged and reloads nothing. *)
(***************************************************************************)
PutBack ==
  /\ pc = "idle" /\ op = "restore" /\ report = "rejected"
  /\ OneFault /\ killed = 0 /\ served # Down
  => \A f \in In(before) \ {Config} : served[f] = before[f]

(***************************************************************************)
(* The way back: from the first file a restore writes until the next       *)
(* command, whatever failed and even if it was killed, there is an archive *)
(* of the files before; retention has not taken it.                        *)
(***************************************************************************)
WayBack ==
  op = "restore" /\ inOrder /\ live # before =>
    \E a \in archives : a.data = before
=============================================================================
