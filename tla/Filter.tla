------------------------------- MODULE Filter -------------------------------
(***************************************************************************)
(* Filtering (cmd/minidns/filter.go and firewall.go, internal/adblock,     *)
(* internal/rpz): the manual rules `allow` and `block` edit, the block     *)
(* lists a timer downloads again, and the answer unbound gives from the    *)
(* rule files it has loaded, against the one `block explain` reads from    *)
(* the disk.                                                               *)
(*                                                                         *)
(* A rule file is the set of owner names in it.  Every write and every     *)
(* reload can fail and a command can be killed between any two steps; the  *)
(* commands exclude each other.  A change of config.yaml comes wholly or   *)
(* not at all (ConfigTransaction).                                         *)
(***************************************************************************)
EXTENDS Integers, FiniteSets, Sequences

CONSTANTS
  Names,       \* domain names
  Under,       \* Under[n]: the names below n
  Lists,       \* names block lists can have
  Format,      \* "hosts", "domains" or "rpz", for each list
  Downloads,   \* what each list's URL answers with, one after the other
  ShrinkMin,   \* entries a list needs before a shrunken one is refused
  Rules,       \* the manual rules to add and remove: file, owner name
  Unfetched,   \* lists subscribed to from the beginning, without a file
  MaxCommands, MaxFaults, MaxKills   \* bounds of a run

Manual == {"allow", "block"}
RuleFiles == Manual \cup Lists
Owner == [name: Names, wild: BOOLEAN]

\* Every download: its names, and how many lines it has, duplicates included.
Download == [names: SUBSET Owner, lines: Nat]

ASSUME FilterAssumption ==
  /\ Under \in [Names -> SUBSET Names]
  /\ Lists \cap Manual = {}
  /\ Format \in [Lists -> {"hosts", "domains", "rpz"}]
  /\ Downloads \in [Lists -> Seq(Download) \ {<< >>}]
  /\ Rules \subseteq Manual \X Owner
  /\ Unfetched \subseteq Lists

VARIABLES
  lists,      \* config.yaml: each list is "none", "on" or "off",
  blocking,   \* and all of them are switched on
  file,       \* the rule files; a list's is never empty, {} is none
  prev,       \* the copy an update has replaced, {} if there is none
  refs,       \* the rule files minidns.conf references
  up, served, \* unbound: running, and the rules it has loaded
  feed,       \* where each list's Downloads are
  pc, op,     \* the running command: its next step, and which one it is
  job,        \* what it keeps in memory, see NoJob
  report,     \* what the last command reported
  before,     \* history: what the update that runs or has failed found
  unloaded,   \* history: manual rules written and not taken by unbound
  killed, commands, faults

config == <<lists, blocking>>
disk == <<file, prev, refs>>
daemon == <<up, served>>
counts == <<killed, commands, faults>>
vars == <<lists, blocking, file, prev, refs, up, served, feed, pc, op,
          job, report, before, unloaded, killed, commands, faults>>

TypeOK ==
  /\ lists \in [Lists -> {"none", "on", "off"}] /\ blocking \in BOOLEAN
  /\ file \in [RuleFiles -> SUBSET Owner]
  /\ prev \in [Lists -> SUBSET Owner]
  /\ refs \in SUBSET RuleFiles /\ Manual \subseteq refs
  /\ \A l \in refs \ Manual : file[l] # {}   \* or unbound would not start
  /\ up \in BOOLEAN /\ served \in [RuleFiles -> SUBSET Owner]
  /\ job.todo \in SUBSET Lists /\ job.changed \in SUBSET Lists
  /\ report \in {"none", "ok", "refused", "failed"}

NoBefore == [file |-> [f \in RuleFiles |-> {}], faults |-> 0]

\* What a command keeps in memory.
NoJob ==
  [arg |-> "block",   \* the rule file it is about,
   mem |-> {},        \* what it is going to write there, or has replaced
   goal |-> [lists |-> [l \in Lists |-> "none"], blocking |-> TRUE],
                      \* the configuration it is going to save
   todo |-> {},       \* the lists still to be fetched,
   changed |-> {},    \* and those whose file was replaced
   problem |-> FALSE, \* one of them could not be fetched
   force |-> FALSE]   \* update --force

Init ==
  /\ lists = [l \in Lists |-> IF l \in Unfetched THEN "on" ELSE "none"]
  /\ blocking = TRUE
  /\ file = [f \in RuleFiles |-> {}] /\ prev = [l \in Lists |-> {}]
  /\ refs = Manual
  /\ up = TRUE /\ served = file
  /\ feed = [l \in Lists |-> 1]
  /\ pc = "idle" /\ op = "none" /\ job = NoJob
  /\ report = "none" /\ unloaded = {}
  /\ before = NoBefore
  /\ killed = 0 /\ commands = 0 /\ faults = 0

-----------------------------------------------------------------------------
\* Rule files

Wild(o) == [o EXCEPT !.wild = TRUE]

\* rpz.Write: with wildcard, each name covers the names below it as well.
Rendered(owners, wildcard) ==
  owners \cup (IF wildcard THEN {Wild(o) : o \in owners} ELSE {})

\* rpz.ReadDomains: what was entered, without the companions Write adds.
Entered(owners) ==
  {o \in owners : ~(o.wild /\ [o EXCEPT !.wild = FALSE] \in owners)}

\* rpz.Contains.
Covers(owners, n) ==
  \E o \in owners : IF o.wild THEN n \in Under[o.name] ELSE n = o.name

\* The verdict of some rules: the first match wins, and the allow list is first.
Verdict(rules, n) ==
  CASE Covers(rules["allow"], n) -> "allow"
    [] ~Covers(rules["allow"], n)
         /\ \E f \in RuleFiles \ {"allow"} : Covers(rules[f], n) -> "nxdomain"
    [] OTHER -> "none"

\* A rule file counts: manual rules always, a list while it is switched on.
Active(c, f) == f \in Manual \/ (c.blocking /\ c.lists[f] = "on")

Config == [lists |-> lists, blocking |-> blocking]

\* block explain, from config.yaml and the files; and what unbound answers.
Explained(n) ==
  Verdict([f \in RuleFiles |-> IF Active(Config, f) THEN file[f] ELSE {}], n)
Answered(n) == Verdict(served, n)

\* Render: the active rule files that exist.
References(c) ==
  {f \in RuleFiles : Active(c, f) /\ (f \in Manual \/ file[f] # {})}

\* What unbound has after it has read everything minidns.conf references.
Loaded(references) ==
  [f \in RuleFiles |-> IF f \in references THEN file[f] ELSE {}]

-----------------------------------------------------------------------------
\* Beginning and ending a command

Fault == faults < MaxFaults /\ faults' = faults + 1
NoFault == UNCHANGED faults
Counted == commands < MaxCommands /\ commands' = commands + 1

Begin(name, step, j) ==
  /\ pc = "idle"
  /\ pc' = step /\ op' = name /\ job' = j /\ report' = "none"
  /\ before' = IF name # "update" THEN NoBefore
               ELSE [file |-> file, faults |-> faults]
  /\ UNCHANGED <<config, disk, daemon, feed, unloaded, killed, faults>>

End(r) ==
  /\ pc' = "idle" /\ report' = r /\ job' = NoJob
  /\ before' = IF r = "failed" /\ op = "update" THEN before ELSE NoBefore

Go(step, j) == pc' = step /\ job' = j /\ UNCHANGED <<report, before>>
GoTo(step) == Go(step, job)

\* What every step of a running command leaves alone.
Running == UNCHANGED <<feed, op, killed, commands>>

(***************************************************************************)
(* block add, allow add.  A rule that is there already is not written and  *)
(* not loaded again.                                                       *)
(***************************************************************************)
RuleAdd(f, o) ==
  /\ Counted
  /\ Begin("edit", IF o \in file[f] THEN "present" ELSE "writeRules",
           [NoJob EXCEPT !.arg = f, !.mem = Entered(file[f]) \cup {o}])

RuleRemove(f, o) ==
  /\ o \in Entered(file[f])
  /\ Counted
  /\ Begin("edit", "writeRules",
           [NoJob EXCEPT !.arg = f, !.mem = Entered(file[f]) \ {o}])

Present ==
  /\ pc = "present"
  /\ End("ok")
  /\ Running
  /\ UNCHANGED <<config, disk, daemon, unloaded, faults>>

\* editRPZ: the whole file, then a reload of its zone.
WriteRules ==
  /\ pc = "writeRules"
  /\ \/ /\ file' = [file EXCEPT ![job.arg] = Rendered(job.mem, TRUE)] /\ NoFault
        /\ IF up THEN GoTo("reloadRules") ELSE End("ok")
     \/ Fault /\ UNCHANGED file /\ End("failed")
  /\ Running
  /\ UNCHANGED <<config, prev, refs, daemon, unloaded>>

\* Mutant: one zone name for both files.
ReloadBlock ==
  /\ pc = "reloadRules" /\ up
  /\ served' = [served EXCEPT !["block"] = file["block"]]
  /\ unloaded' = unloaded \ {job.arg}
  /\ End("ok")
  /\ Running
  /\ UNCHANGED <<config, disk, up, faults>>

\* ReloadZone; a daemon that no longer answers is started again.
ReloadRules ==
  /\ pc = "reloadRules"
  /\ \/ /\ NoFault
        /\ up' = TRUE
        /\ served' = IF up THEN [served EXCEPT ![job.arg] = file[job.arg]]
                     ELSE Loaded(refs)
        /\ unloaded' = IF up THEN unloaded \ {job.arg} ELSE {}
        /\ End("ok")
     \/ /\ Fault
        /\ UNCHANGED daemon
        /\ unloaded' = unloaded \cup {job.arg}
        /\ End("failed")
  /\ Running
  /\ UNCHANGED <<config, disk>>

-----------------------------------------------------------------------------
\* Block lists

Fetched(l) == Downloads[l][feed[l]]
NewFile(l) == Rendered(Fetched(l).names, Format[l] = "domains")

\* Update's two refusals: nothing in it, or too little of what is active.
Empty(l) == Fetched(l).names = {}
Shrunk(l) ==
  /\ Cardinality(file[l]) >= ShrinkMin
  /\ 2 * Fetched(l).lines < Cardinality(file[l])
Refused(l) == Empty(l) \/ (~job.force /\ Shrunk(l))

\* blocklist update, of all lists that are on (and by the timer every day)
\* and of one list by its name.
Update(ls, forced) ==
  /\ ls # {}
  /\ Begin("update", "fetch", [NoJob EXCEPT !.todo = ls, !.force = forced])

UpdateAll ==
  /\ Update({l \in Lists : lists[l] = "on"}, FALSE)
  /\ UNCHANGED commands

UpdateNamed(l) ==
  /\ lists[l] # "none" /\ Counted
  /\ \E forced \in BOOLEAN : Update({l}, forced)

\* The commands that save a configuration with list l in state s.
Change(name, step, l, s) ==
  /\ Counted
  /\ Begin(name, step,
           [NoJob EXCEPT !.arg = l, !.todo = {l},
                         !.goal = [Config EXCEPT !.lists[l] = s]])

ListAdd(l) == lists[l] = "none" /\ Change("add", "fetch", l, "on")

\* Mutant: the file first, the configuration second.
RemoveFileFirst(l) == lists[l] # "none" /\ Change("remove", "dropFile", l, "none")

ListRemove(l) == lists[l] # "none" /\ Change("remove", "config", l, "none")

\* blocklist enable and disable, of one list and of all of them.
Toggle(l, s) == lists[l] # "none" /\ Change("toggle", "config", l, s)

ToggleAll(b) ==
  /\ Counted
  /\ Begin("toggle", "config", [NoJob EXCEPT !.goal = [Config EXCEPT !.blocking = b]])

\* Mutant: nothing more is fetched after a list that could not be.
StopAtProblem(j) ==
  CASE j.problem -> End("failed")
    [] ~j.problem /\ j.todo # {} -> Go("fetch", j)
    [] ~j.problem /\ j.todo = {} /\ op = "add" -> Go("config", j)
    [] ~j.problem /\ j.todo = {} /\ op = "update" /\ j.changed # {} -> Go("wire", j)
    [] OTHER -> End("ok")

\* After a list: the next one, then what came of them all.
NextList(j) ==
  CASE j.todo # {} -> Go("fetch", j)
    [] j.todo = {} /\ op = "add" ->
           IF j.problem THEN End("failed") ELSE Go("config", j)
    [] j.todo = {} /\ op = "update" /\ j.changed # {} -> Go("wire", j)
    [] OTHER -> End(IF j.problem THEN "refused" ELSE "ok")

Fetch ==
  /\ pc = "fetch"
  /\ \E l \in job.todo :
       LET rest == [job EXCEPT !.todo = @ \ {l}] IN
       \/ /\ IF Refused(l) THEN NoFault ELSE Fault
          /\ NextList([rest EXCEPT !.problem = TRUE])
          /\ UNCHANGED file
       \/ /\ ~Refused(l) /\ file[l] = NewFile(l) /\ NoFault
          /\ NextList(rest)
          /\ UNCHANGED file
       \/ /\ ~Refused(l) /\ file[l] # NewFile(l) /\ NoFault
          /\ file' = [file EXCEPT ![l] = NewFile(l)]
          /\ Go("keepPrev", [rest EXCEPT !.arg = l, !.mem = file[l]])
  /\ Running
  /\ UNCHANGED <<config, prev, refs, daemon, unloaded>>

\* The replaced file is kept after it has been replaced, and nobody asks
\* whether that worked.
KeepPrev ==
  /\ pc = "keepPrev"
  /\ \/ prev' = [prev EXCEPT ![job.arg] = IF job.mem # {} THEN job.mem ELSE @]
        /\ NoFault
     \/ UNCHANGED prev /\ job.mem # {} /\ Fault
  /\ NextList([job EXCEPT !.changed = @ \cup {job.arg}])
  /\ Running
  /\ UNCHANGED <<config, file, refs, daemon, unloaded>>

\* cmdApply(false): minidns.conf is written, whatever it was.
Wire ==
  /\ pc = "wire"
  /\ \/ /\ refs' = References(Config) /\ NoFault
        /\ IF up THEN GoTo("activate") ELSE End(IF job.problem THEN "refused" ELSE "ok")
     \/ Fault /\ UNCHANGED refs /\ GoTo("restore")
  /\ Running
  /\ UNCHANGED <<config, file, prev, daemon, unloaded>>

\* Unbound has read all its files.
Reloaded == up' = TRUE /\ served' = Loaded(refs) /\ unloaded' = {}

\* Reload: unbound has the new files; or it goes on with the old ones, comes
\* back too late, or exits.
Activate ==
  /\ pc = "activate"
  /\ \/ NoFault /\ Reloaded /\ End(IF job.problem THEN "refused" ELSE "ok")
     \/ /\ Fault
        /\ \/ UNCHANGED <<daemon, unloaded>>
           \/ up /\ Reloaded
           \/ up' = FALSE /\ served' = Loaded({}) /\ UNCHANGED unloaded
        /\ GoTo("restore")
  /\ Running
  /\ UNCHANGED <<config, disk>>

\* Mutant: unbound is reloaded with the files it has just refused.
RestoreNothing ==
  /\ pc = "restore"
  /\ GoTo("reloadBack")
  /\ Running
  /\ UNCHANGED <<config, disk, daemon, unloaded, faults>>

\* adblock.Restore, for every list that was replaced and has a copy.
Restore ==
  /\ pc = "restore"
  /\ \E l \in job.changed :
       /\ IF prev[l] # {}
          THEN /\ file' = [file EXCEPT ![l] = prev[l]]
               /\ prev' = [prev EXCEPT ![l] = {}]
          ELSE UNCHANGED <<file, prev>>
       /\ Go(IF job.changed = {l} THEN "reloadBack" ELSE "restore",
             [job EXCEPT !.changed = @ \ {l}])
  /\ Running
  /\ UNCHANGED <<config, refs, daemon, unloaded, faults>>

\* Reload, or Restart if unbound is not there; nobody asks how it went.
ReloadBack ==
  /\ pc = "reloadBack"
  /\ \/ NoFault /\ Reloaded
     \/ Fault /\ UNCHANGED <<daemon, unloaded>>
  /\ End("failed")
  /\ Running
  /\ UNCHANGED <<config, disk>>

\* changeConfig; unbound is reloaded only if minidns.conf comes out different.
ChangeConfig ==
  /\ pc = "config"
  /\ \/ /\ NoFault
        /\ lists' = job.goal.lists /\ blocking' = job.goal.blocking
        /\ refs' = References(job.goal)
        /\ IF up /\ refs' # refs
           THEN served' = Loaded(refs') /\ unloaded' = {}
           ELSE UNCHANGED <<served, unloaded>>
        /\ IF op = "remove" THEN GoTo("dropFile") ELSE End("ok")
     \/ /\ Fault
        /\ \/ UNCHANGED <<served, unloaded>>
           \/ up /\ served' = Loaded(refs) /\ unloaded' = {}
        /\ IF op = "add" THEN GoTo("dropFile") ELSE End("failed")
        /\ UNCHANGED <<config, refs>>
  /\ Running
  /\ UNCHANGED <<file, prev, up>>

\* remove, after the change; add, if the change was not taken.
DropFile ==
  /\ pc = "dropFile"
  /\ file' = [file EXCEPT ![job.arg] = {}]
  /\ IF op = "remove" THEN GoTo("dropPrev") ELSE End("failed")
  /\ Running
  /\ UNCHANGED <<config, prev, refs, daemon, unloaded, faults>>

DropPrev ==
  /\ pc = "dropPrev"
  /\ prev' = [prev EXCEPT ![job.arg] = {}]
  /\ End("ok")
  /\ Running
  /\ UNCHANGED <<config, file, refs, daemon, unloaded, faults>>

-----------------------------------------------------------------------------
\* The rest of the world

Kill ==
  /\ pc # "idle" /\ killed < MaxKills
  /\ killed' = killed + 1
  /\ pc' = "idle" /\ job' = NoJob /\ report' = "none" /\ before' = NoBefore
  /\ UNCHANGED <<config, disk, daemon, feed, op, unloaded,
                 commands, faults>>

FeedChanges(l) ==
  /\ feed[l] < Len(Downloads[l])
  /\ feed' = [feed EXCEPT ![l] = @ + 1]
  /\ UNCHANGED <<config, disk, daemon, pc, op, job, report, before, unloaded,
                 counts>>

DaemonStops ==
  /\ up /\ Fault
  /\ up' = FALSE /\ served' = Loaded({})
  /\ UNCHANGED <<config, disk, feed, pc, op, job, report, before, unloaded,
                 killed, commands>>

DaemonStarts ==
  /\ ~up
  /\ up' = TRUE /\ served' = Loaded(refs) /\ unloaded' = {}
  /\ UNCHANGED <<config, disk, feed, pc, op, job, report, before, counts>>

Command ==
  \/ \E r \in Rules : RuleAdd(r[1], r[2]) \/ RuleRemove(r[1], r[2])
  \/ \E l \in Lists : UpdateNamed(l) \/ ListAdd(l) \/ ListRemove(l)
  \/ \E l \in Lists, s \in {"on", "off"} : Toggle(l, s)
  \/ \E b \in BOOLEAN : ToggleAll(b)

Step ==
  \/ Present \/ WriteRules \/ ReloadRules
  \/ Fetch \/ KeepPrev \/ Wire \/ Activate \/ Restore \/ ReloadBack
  \/ ChangeConfig \/ DropFile \/ DropPrev

World == Kill \/ DaemonStops \/ DaemonStarts \/ \E l \in Lists : FeedChanges(l)

Next == UpdateAll \/ Command \/ Step \/ World

Spec == Init /\ [][Next]_vars

\* A command that runs goes on, and the timer keeps starting an update.
FairSpec == Spec /\ WF_vars(Step) /\ WF_vars(UpdateAll)

-----------------------------------------------------------------------------
\* What filtering promises

(***************************************************************************)
(* "derived from the same files, in the same order, that unbound applies"  *)
(* (filter.go): between commands none of which was killed, unbound answers *)
(* what block explain says, whatever was added, refreshed, switched off or *)
(* restored; except while it has not taken a manual rule or the first copy *)
(* of a list, and after two failures.                                      *)
(***************************************************************************)
ExplainsServer ==
  /\ pc = "idle" /\ up /\ killed = 0 /\ unloaded = {}
  /\ faults <= 1
  /\ faults = 1 => \A l \in Unfetched : file[l] # {} => l \in refs \/ lists[l] = "off"
  => \A n \in Names : Explained(n) = Answered(n)

(***************************************************************************)
(* "if unbound does not come back with the new data the previous files are *)
(* restored" (CHANGELOG.md): after one failure every list has the copy it  *)
(* had, if it had one, and unbound answers from those.                     *)
(***************************************************************************)
RefreshUndone ==
  /\ pc = "idle" /\ op = "update" /\ report = "failed"
  /\ faults = before.faults + 1
  => \A l \in Lists :
       /\ before.file[l] # {} => file[l] = before.file[l]
       /\ l \in refs => served[l] = file[l]

(***************************************************************************)
(* While updates keep coming, every list that is switched on ends with the *)
(* last download, unless that one is refused, whatever failed or was       *)
(* killed; and without kills unbound serves it, a first copy apart.        *)
(***************************************************************************)
FeedsConverge ==
  <>[](\A l \in Lists :
         lists[l] = "on" /\ ~Empty(l) /\ ~Shrunk(l) =>
           /\ file[l] = NewFile(l)
           /\ up /\ blocking /\ killed = 0 /\ l \notin Unfetched =>
                served[l] = file[l])
=============================================================================
