---------------------------- MODULE FilterProofs ----------------------------
(***************************************************************************)
(* Proofs about Filter, for any names, lists, downloads and rules and any  *)
(* number of commands, faults and kills: `block explain` says what unbound *)
(* answers, and a refresh that fails is undone.                            *)
(***************************************************************************)
EXTENDS Filter, TLAPS

-----------------------------------------------------------------------------
(* Types, and what a command remembers at each of its steps.               *)

Configs == [lists: [Lists -> {"none", "on", "off"}], blocking: BOOLEAN]
Job == [arg: RuleFiles, mem: SUBSET Owner, goal: Configs, todo: SUBSET Lists,
        changed: SUBSET Lists, problem: BOOLEAN, force: BOOLEAN]

Files == [RuleFiles -> SUBSET Owner]

\* Which command is at which step.
Shaped ==
  /\ pc \in {"present", "writeRules", "reloadRules"} => op = "edit" /\ job.arg \in Manual
  /\ pc \in {"fetch", "keepPrev"} => op \in {"add", "update"}
  /\ pc = "fetch" => job.todo # {}
  /\ pc = "keepPrev" => job.arg \in Lists
  /\ pc \in {"wire", "activate", "restore", "reloadBack"} => op = "update"
  /\ pc = "config" => op \in {"add", "remove", "toggle"}
  /\ pc = "dropFile" => op \in {"add", "remove"}
  /\ pc = "dropPrev" => op = "remove"

Memory ==
  /\ prev \in [Lists -> SUBSET Owner]
  /\ feed \in [Lists -> Nat] /\ \A l \in Lists : feed[l] \in 1..Len(Downloads[l])
  /\ job \in Job
  /\ before.file \in Files /\ before.faults \in Nat
  /\ killed \in Nat /\ faults \in Nat

\* A list that is being added or has been removed is in no configuration.
Unlisted ==
  /\ op = "add" /\ pc \in {"fetch", "keepPrev", "config", "dropFile"} =>
       job.arg \in Lists /\ lists[job.arg] = "none" /\ job.todo \subseteq {job.arg}
  /\ op = "remove" /\ pc = "config" => job.arg \in Lists /\ job.goal.lists[job.arg] = "none"
  /\ op = "remove" /\ pc \in {"dropFile", "dropPrev"} =>
       job.arg \in Lists /\ lists[job.arg] = "none"

\* Only what the configuration switches on is referenced.
Wired == \A f \in refs : Active(Config, f)

\* The part of TypeOK that is about the tables and files.
DiskTyped ==
  /\ lists \in [Lists -> {"none", "on", "off"}] /\ blocking \in BOOLEAN
  /\ file \in Files
  /\ refs \in SUBSET RuleFiles /\ Manual \subseteq refs
  /\ \A l \in refs \ Manual : file[l] # {}
  /\ up \in BOOLEAN /\ served \in Files
  /\ report \in {"none", "ok", "refused", "failed"}

TypeInv == DiskTyped /\ Memory /\ Shaped /\ Unlisted /\ Wired

LEMMA Apart == Manual \subseteq RuleFiles /\ Lists \subseteq RuleFiles /\ Manual \cap Lists = {}
BY FilterAssumption DEF RuleFiles

LEMMA NoJobTyped == NoJob \in Job
BY DEF NoJob, Job, RuleFiles, Manual, Configs

LEMMA NoBeforeTyped == NoBefore.file \in Files /\ NoBefore.faults = 0
BY DEF NoBefore, Files

LEMMA RenderedFacts ==
  ASSUME NEW owners \in SUBSET Owner, NEW w
  PROVE  Rendered(owners, w) \in SUBSET Owner /\ owners \subseteq Rendered(owners, w)
BY DEF Rendered, Wild, Owner

LEMMA EnteredFacts ==
  ASSUME NEW owners \in SUBSET Owner PROVE Entered(owners) \in SUBSET Owner
BY DEF Entered

\* What is downloaded is something, or refused.
LEMMA NewFileFacts ==
  ASSUME Memory, NEW l \in Lists
  PROVE  NewFile(l) \in SUBSET Owner /\ (~Refused(l) => NewFile(l) # {})
<1>1. Fetched(l) \in Download
  <2>1. Downloads[l] \in Seq(Download) /\ feed[l] \in 1..Len(Downloads[l])
    BY FilterAssumption DEF Memory
  <2> QED BY <2>1 DEF Fetched
<1>2. Fetched(l).names \in SUBSET Owner
  BY <1>1 DEF Download
<1> QED BY <1>2, RenderedFacts DEF NewFile, Refused, Empty

LEMMA LoadedTyped ==
  ASSUME file \in Files, NEW references PROVE Loaded(references) \in Files
BY DEF Loaded, Files

LEMMA ReferencesFacts ==
  ASSUME NEW c PROVE
    /\ References(c) \in SUBSET RuleFiles /\ Manual \subseteq References(c)
    /\ \A f \in References(c) : Active(c, f) /\ (f \notin Manual => file[f] # {})
    /\ \A f \in RuleFiles : Active(c, f) /\ file[f] # {} => f \in References(c)
BY Apart DEF References, Active

\* After a list comes another one, the end of the downloads, or of the command.
LEMMA NextListCases ==
  ASSUME NEW j, NextList(j), op \in {"add", "update"}
  PROVE  \/ pc' = "fetch" /\ job' = j /\ j.todo # {} /\ UNCHANGED <<report, before>>
         \/ /\ op = "add" /\ pc' = "config" /\ job' = j /\ j.todo = {} /\ ~j.problem
            /\ UNCHANGED <<report, before>>
         \/ /\ op = "update" /\ pc' = "wire" /\ job' = j /\ j.todo = {} /\ j.changed # {}
            /\ UNCHANGED <<report, before>>
         \/ /\ pc' = "idle" /\ job' = NoJob /\ before' = NoBefore /\ j.todo = {}
            /\ op = "update" => report' \in {"ok", "refused"} /\ j.changed = {}
            /\ op = "add" => report' = "failed" /\ j.problem
BY DEF NextList, Go, End

LEMMA TypeInit == Init => TypeInv
<1> SUFFICES ASSUME Init PROVE TypeInv
  OBVIOUS
<1>1. \A l \in Lists : Downloads[l] \in Seq(Download) \ {<< >>} /\ 1 \in 1..Len(Downloads[l])
  BY FilterAssumption
<1>2. DiskTyped
  BY Apart DEF Init, DiskTyped, Files
<1>3. Memory
  BY <1>1, NoJobTyped, NoBeforeTyped DEF Init, Memory
<1> QED BY <1>2, <1>3 DEF Init, TypeInv, Shaped, Unlisted, Wired, Active

\* What the end of a command leaves behind.
LEMMA EndFacts ==
  ASSUME TypeInv, NEW r \in {"none", "ok", "refused", "failed"}, End(r)
  PROVE  /\ pc' = "idle" /\ report' = r /\ job' = NoJob
         /\ report' \in {"none", "ok", "refused", "failed"}
         /\ job' \in Job /\ before'.file \in Files /\ before'.faults \in Nat
         /\ Shaped' /\ Unlisted'
<1>1. before'.file \in Files /\ before'.faults \in Nat
  BY NoBeforeTyped DEF End, TypeInv, Memory
<1>2. pc' = "idle" /\ report' = r /\ job' = NoJob
  BY DEF End
<1> QED BY <1>1, <1>2, NoJobTyped DEF Shaped, Unlisted

LEMMA GoFacts ==
  ASSUME TypeInv, NEW step, NEW j \in Job, Go(step, j)
  PROVE  /\ pc' = step /\ job' = j /\ report' = report /\ before' = before
         /\ report' \in {"none", "ok", "refused", "failed"}
         /\ job' \in Job /\ before'.file \in Files /\ before'.faults \in Nat
BY DEF Go, TypeInv, DiskTyped, Memory

LEMMA FaultTyped == Memory /\ (NoFault \/ Fault) => faults' \in Nat
BY DEF Memory, NoFault, Fault

LEMMA BeginTyped ==
  ASSUME TypeInv, NEW name, NEW step, NEW j \in Job, Begin(name, step, j),
         Shaped', Unlisted'
  PROVE  TypeInv'
<1>1. UNCHANGED <<config, disk, daemon, feed, unloaded, killed, faults>>
  BY DEF Begin
<1>2. DiskTyped' /\ Wired'
  BY <1>1 DEF Begin, TypeInv, DiskTyped, Wired, Active, Config, config, disk, daemon
<1>3. before'.file \in Files /\ before'.faults \in Nat
  BY NoBeforeTyped DEF Begin, TypeInv, DiskTyped, Memory
<1>4. Memory'
  BY <1>1, <1>3 DEF Begin, TypeInv, Memory, disk
<1> QED BY <1>2, <1>4 DEF TypeInv

LEMMA CommandTyped == TypeInv /\ (UpdateAll \/ Command) => TypeInv'
<1> SUFFICES ASSUME TypeInv, UpdateAll \/ Command PROVE TypeInv'
  OBVIOUS
<1>0. Config \in Configs /\ file \in Files /\ NoJob \in Job
  BY NoJobTyped DEF TypeInv, DiskTyped, Config, Configs
<1>1. ASSUME NEW ls \in SUBSET Lists, NEW forced \in BOOLEAN, Update(ls, forced)
      PROVE  TypeInv'
  <2> DEFINE j == [NoJob EXCEPT !.todo = ls, !.force = forced]
  <2>1. j \in Job
    BY <1>0 DEF Job
  <2>2. Begin("update", "fetch", j) /\ ls # {} /\ j.todo = ls
    BY <1>1, <1>0 DEF Update, Job
  <2>3. pc' = "fetch" /\ op' = "update" /\ job' = j
    BY <2>2 DEF Begin
  <2> QED BY <2>1, <2>2, <2>3, BeginTyped DEF Shaped, Unlisted
<1>2. ASSUME NEW f \in Manual, NEW mem \in SUBSET Owner, NEW step \in {"present", "writeRules"},
             Begin("edit", step, [NoJob EXCEPT !.arg = f, !.mem = mem])
      PROVE  TypeInv'
  <2> DEFINE j == [NoJob EXCEPT !.arg = f, !.mem = mem]
  <2>1. j \in Job /\ j.arg = f
    BY <1>0, Apart DEF Job
  <2>3. pc' = step /\ op' = "edit" /\ job' = j
    BY <1>2 DEF Begin
  <2> QED BY <1>2, <2>1, <2>3, BeginTyped DEF Shaped, Unlisted
<1>3. ASSUME NEW l \in Lists, NEW s \in {"none", "on", "off"},
             NEW name, NEW step,
             \/ name = "add" /\ step = "fetch" /\ lists[l] = "none"
             \/ name = "remove" /\ step = "config" /\ s = "none"
             \/ name = "toggle" /\ step = "config",
             Change(name, step, l, s)
      PROVE  TypeInv'
  <2> DEFINE goal == [Config EXCEPT !.lists[l] = s]
             j == [NoJob EXCEPT !.arg = l, !.todo = {l}, !.goal = goal]
  <2>1. goal \in Configs /\ goal.lists[l] = s
    BY <1>0 DEF Configs
  <2>2. j \in Job /\ j.arg = l /\ j.todo = {l} /\ j.goal = goal
    BY <1>0, <2>1, Apart DEF Job
  <2>3. pc' = step /\ op' = name /\ job' = j /\ lists' = lists /\ Begin(name, step, j)
    BY <1>3 DEF Change, Begin, config
  <2> HIDE DEF goal, j
  <2>4. Shaped' /\ Unlisted'
    BY <1>3, <2>1, <2>2, <2>3 DEF Shaped, Unlisted
  <2> QED BY <2>2, <2>3, <2>4, BeginTyped
<1>4. ASSUME NEW b \in BOOLEAN, ToggleAll(b) PROVE TypeInv'
  <2> DEFINE goal == [Config EXCEPT !.blocking = b]
             j == [NoJob EXCEPT !.goal = goal]
  <2>1. j \in Job
    BY <1>0 DEF Job, Configs
  <2>2. pc' = "config" /\ op' = "toggle" /\ job' = j /\ Begin("toggle", "config", j)
    BY <1>4 DEF ToggleAll, Begin
  <2> QED BY <2>1, <2>2, BeginTyped DEF Shaped, Unlisted
<1>5. CASE UpdateAll
  BY <1>1, <1>5 DEF UpdateAll
<1>6. ASSUME NEW r \in Rules, RuleAdd(r[1], r[2]) \/ RuleRemove(r[1], r[2]) PROVE TypeInv'
  <2>1. r[1] \in Manual /\ r[2] \in Owner /\ file[r[1]] \in SUBSET Owner
    BY <1>0, Apart, FilterAssumption DEF Files
  <2>2. Entered(file[r[1]]) \in SUBSET Owner
    BY <2>1, EnteredFacts
  <2> QED BY <1>2, <1>6, <2>1, <2>2 DEF RuleAdd, RuleRemove
<1>7. ASSUME NEW l \in Lists, UpdateNamed(l) \/ ListAdd(l) \/ ListRemove(l) PROVE TypeInv'
  BY <1>1, <1>3, <1>7 DEF UpdateNamed, ListAdd, ListRemove
<1>8. ASSUME NEW l \in Lists, NEW s \in {"on", "off"}, Toggle(l, s) PROVE TypeInv'
  BY <1>3, <1>8 DEF Toggle
<1> QED BY <1>4, <1>5, <1>6, <1>7, <1>8 DEF Command
LEMMA EditTyped ==
  TypeInv /\ (Present \/ WriteRules \/ ReloadRules) => TypeInv'
<1> SUFFICES ASSUME TypeInv, Present \/ WriteRules \/ ReloadRules PROVE TypeInv'
  OBVIOUS
<1>0. file \in Files /\ job \in Job /\ faults' \in Nat
  BY FaultTyped DEF TypeInv, DiskTyped, Memory, Present, WriteRules, ReloadRules, NoFault
<1>1. CASE Present
  <2>1. UNCHANGED <<config, disk, daemon, feed, op, unloaded, counts>> /\ End("ok")
    BY <1>1 DEF Present, Running, counts
  <2> QED BY <1>0, <2>1, EndFacts
          DEF TypeInv, DiskTyped, Memory, Wired, Active, Config, config, disk, daemon, counts
<1>2. CASE WriteRules
  <2>1. job.arg \in Manual /\ job.mem \in SUBSET Owner /\ op = "edit"
    BY <1>2 DEF WriteRules, TypeInv, Memory, Job, Shaped
  <2>2. UNCHANGED <<config, prev, refs, daemon, feed, op, unloaded, killed>>
    BY <1>2 DEF WriteRules, Running
  <2>3. file' \in Files /\ \A l \in RuleFiles \ Manual : file'[l] = file[l]
    <3>1. Rendered(job.mem, TRUE) \in SUBSET Owner
      BY <2>1, RenderedFacts
    <3>2. file' = file \/ file' = [file EXCEPT ![job.arg] = Rendered(job.mem, TRUE)]
      BY <1>2 DEF WriteRules
    <3> QED BY <1>0, <2>1, <3>1, <3>2, Apart DEF Files
  <2>4. DiskTyped' /\ Memory' /\ Shaped' /\ Unlisted'
    <3>1. CASE End("ok") \/ End("failed")
      BY <1>0, <2>2, <2>3, <3>1, EndFacts DEF TypeInv, DiskTyped, Memory, config, daemon
    <3>2. CASE GoTo("reloadRules")
      <4>1. Shaped' /\ Unlisted'
        BY <2>1, <2>2, <3>2 DEF GoTo, Go, Shaped, Unlisted
      <4> QED BY <1>0, <2>2, <2>3, <3>2, <4>1, GoFacts
              DEF GoTo, TypeInv, DiskTyped, Memory, config, daemon
    <3> QED BY <1>2, <3>1, <3>2 DEF WriteRules
  <2> QED BY <2>2, <2>4 DEF TypeInv, Wired, Active, Config, config
<1>3. CASE ReloadRules
  <2>1. UNCHANGED <<config, disk, feed, op, killed>> /\ (End("ok") \/ End("failed"))
    BY <1>3 DEF ReloadRules, Running
  <2>2. served' \in Files /\ up' \in BOOLEAN
    BY <1>0, <1>3, LoadedTyped DEF ReloadRules, TypeInv, DiskTyped, Files, daemon
  <2> QED BY <1>0, <2>1, <2>2, EndFacts
          DEF TypeInv, DiskTyped, Memory, Wired, Active, Config, config, disk
<1> QED BY <1>1, <1>2, <1>3

\* After a list, whatever the command goes on with.
LEMMA NextListTyped ==
  ASSUME TypeInv, NEW j \in Job, NextList(j), UNCHANGED <<config, op>>,
         op \in {"add", "update"}, j.todo \subseteq job.todo, j.arg = job.arg,
         pc \in {"fetch", "keepPrev"}
  PROVE  /\ report' \in {"none", "ok", "refused", "failed"}
         /\ job' \in Job /\ before'.file \in Files /\ before'.faults \in Nat
         /\ Shaped' /\ Unlisted'
<1>1. CASE pc' = "idle" /\ job' = NoJob /\ before' = NoBefore
  <2>1. report' \in {"none", "ok", "refused", "failed"}
    BY <1>1 DEF NextList, End, Go
  <2> QED BY <1>1, <2>1, NoJobTyped, NoBeforeTyped DEF Shaped, Unlisted
<1>2. CASE pc' = "fetch" /\ job' = j /\ j.todo # {} /\ UNCHANGED <<report, before>>
  BY <1>2 DEF TypeInv, DiskTyped, Memory, Shaped, Unlisted, config
<1>3. CASE op = "add" /\ pc' = "config" /\ job' = j /\ j.todo = {} /\ UNCHANGED <<report, before>>
  BY <1>3 DEF TypeInv, DiskTyped, Memory, Shaped, Unlisted, config
<1>4. CASE op = "update" /\ pc' = "wire" /\ job' = j /\ UNCHANGED <<report, before>>
  BY <1>4 DEF TypeInv, DiskTyped, Memory, Shaped, Unlisted, config
<1> QED BY <1>1, <1>2, <1>3, <1>4, NextListCases

LEMMA FetchTyped == TypeInv /\ Fetch => TypeInv'
<1> SUFFICES ASSUME TypeInv, Fetch PROVE TypeInv'
  OBVIOUS
<1>0. /\ pc = "fetch" /\ job \in Job /\ faults' \in Nat /\ op \in {"add", "update"}
      /\ UNCHANGED <<config, prev, refs, daemon, unloaded, feed, op, killed, commands>>
  <2>1. NoFault \/ Fault
    BY DEF Fetch
  <2> QED BY <2>1, FaultTyped DEF Fetch, Running, TypeInv, Memory, Shaped
<1>1. PICK l \in job.todo :
        LET rest == [job EXCEPT !.todo = @ \ {l}] IN
          \/ NextList([rest EXCEPT !.problem = TRUE]) /\ UNCHANGED file
          \/ NextList(rest) /\ UNCHANGED file
          \/ /\ ~Refused(l) /\ file' = [file EXCEPT ![l] = NewFile(l)]
             /\ Go("keepPrev", [rest EXCEPT !.arg = l, !.mem = file[l]])
  BY DEF Fetch
<1> DEFINE rest == [job EXCEPT !.todo = @ \ {l}]
           bad == [rest EXCEPT !.problem = TRUE]
           new == [rest EXCEPT !.arg = l, !.mem = file[l]]
<1>2. l \in Lists /\ l \in RuleFiles /\ file[l] \in SUBSET Owner /\ file \in Files
  BY <1>0, Apart DEF Job, TypeInv, DiskTyped, Files
<1>3. /\ rest \in Job /\ rest.todo = job.todo \ {l} /\ rest.arg = job.arg
      /\ bad \in Job /\ bad.todo = job.todo \ {l} /\ bad.arg = job.arg
      /\ new \in Job /\ new.todo = job.todo \ {l} /\ new.arg = l
  BY <1>0, <1>2 DEF Job
<1> HIDE DEF rest, bad, new
<1>4. CASE UNCHANGED file /\ (NextList(rest) \/ NextList(bad))
  <2>1. PICK j \in {rest, bad} : NextList(j)
    BY <1>4
  <2>2. /\ report' \in {"none", "ok", "refused", "failed"}
        /\ job' \in Job /\ before'.file \in Files /\ before'.faults \in Nat
        /\ Shaped' /\ Unlisted'
    BY <1>0, <1>3, <2>1, NextListTyped DEF config
  <2> QED BY <1>0, <1>4, <2>2 DEF TypeInv, DiskTyped, Memory, Wired, Active, Config, config, daemon
<1>5. CASE ~Refused(l) /\ file' = [file EXCEPT ![l] = NewFile(l)] /\ Go("keepPrev", new)
  <2>1. NewFile(l) \in SUBSET Owner /\ NewFile(l) # {}
    BY <1>2, <1>5, NewFileFacts DEF TypeInv
  <2>2. file' \in Files /\ \A f \in RuleFiles \ Manual : file[f] # {} => file'[f] # {}
    BY <1>2, <1>5, <2>1 DEF Files
  <2>3. Shaped' /\ Unlisted'
    BY <1>0, <1>2, <1>3, <1>5 DEF Go, TypeInv, Shaped, Unlisted, config
  <2> QED BY <1>0, <1>3, <1>5, <2>2, <2>3, GoFacts
          DEF TypeInv, DiskTyped, Memory, Wired, Active, Config, config, daemon
<1> QED BY <1>1, <1>4, <1>5 DEF rest, bad, new

LEMMA KeepPrevTyped == TypeInv /\ KeepPrev => TypeInv'
<1> SUFFICES ASSUME TypeInv, KeepPrev PROVE TypeInv'
  OBVIOUS
<1>0. /\ pc = "keepPrev" /\ job \in Job /\ faults' \in Nat /\ op \in {"add", "update"}
      /\ UNCHANGED <<config, file, refs, daemon, unloaded, feed, op, killed, commands>>
      /\ job.arg \in Lists
  <2>1. NoFault \/ Fault
    BY DEF KeepPrev
  <2> QED BY <2>1, FaultTyped DEF KeepPrev, Running, TypeInv, Memory, Shaped
<1> DEFINE j == [job EXCEPT !.changed = @ \cup {job.arg}]
<1>1. j \in Job /\ j.todo = job.todo /\ j.arg = job.arg /\ NextList(j)
  BY <1>0 DEF Job, KeepPrev
<1>2. prev' \in [Lists -> SUBSET Owner]
  BY <1>0 DEF KeepPrev, TypeInv, Memory, Job
<1> HIDE DEF j
<1>3. /\ report' \in {"none", "ok", "refused", "failed"}
      /\ job' \in Job /\ before'.file \in Files /\ before'.faults \in Nat
      /\ Shaped' /\ Unlisted'
  BY <1>0, <1>1, NextListTyped DEF config
<1> QED BY <1>0, <1>2, <1>3 DEF TypeInv, DiskTyped, Memory, Wired, Active, Config, config, daemon

\* A step of an update that has replaced files.
LEMMA UpdateTyped == TypeInv /\ (Wire \/ Activate \/ Restore \/ ReloadBack) => TypeInv'
<1> SUFFICES ASSUME TypeInv, Wire \/ Activate \/ Restore \/ ReloadBack PROVE TypeInv'
  OBVIOUS
<1>0. /\ op = "update" /\ job \in Job /\ faults' \in Nat /\ file \in Files
      /\ UNCHANGED <<config, feed, op, killed>>
  <2>1. op = "update"
    BY DEF Wire, Activate, Restore, ReloadBack, TypeInv, Shaped
  <2>2. faults' \in Nat
    BY FaultTyped DEF Wire, Activate, Restore, ReloadBack, NoFault, TypeInv, Memory
  <2> QED BY <2>1, <2>2 DEF Wire, Activate, Restore, ReloadBack, Running, TypeInv, DiskTyped, Memory
<1>1. ASSUME NEW r \in {"none", "ok", "refused", "failed"}, End(r)
      PROVE  /\ report' \in {"none", "ok", "refused", "failed"}
             /\ job' \in Job /\ before'.file \in Files /\ before'.faults \in Nat
             /\ Shaped' /\ Unlisted'
  BY <1>1, EndFacts
<1>2. ASSUME NEW step \in {"activate", "restore", "reloadBack"}, NEW j \in Job, Go(step, j)
      PROVE  /\ report' \in {"none", "ok", "refused", "failed"}
             /\ job' \in Job /\ before'.file \in Files /\ before'.faults \in Nat
             /\ Shaped' /\ Unlisted'
  BY <1>0, <1>2, GoFacts DEF Shaped, Unlisted
<1>3. CASE Wire
  <2>1. References(Config) \in SUBSET RuleFiles
    BY ReferencesFacts
  <2>2. /\ report' \in {"none", "ok", "refused", "failed"}
        /\ job' \in Job /\ before'.file \in Files /\ before'.faults \in Nat
        /\ Shaped' /\ Unlisted'
    BY <1>0, <1>1, <1>2, <1>3 DEF Wire, GoTo
  <2>3. UNCHANGED <<config, file, prev, daemon>> /\ (refs' = refs \/ refs' = References(Config))
    BY <1>3 DEF Wire
  <2> QED BY <1>0, <2>2, <2>3, ReferencesFacts
          DEF TypeInv, DiskTyped, Memory, Wired, Active, Config, config, daemon
<1>4. CASE Activate
  <2>1. up' \in BOOLEAN /\ served' \in Files
    BY <1>0, <1>4, LoadedTyped DEF Activate, Reloaded, TypeInv, DiskTyped, daemon
  <2>2. /\ report' \in {"none", "ok", "refused", "failed"}
        /\ job' \in Job /\ before'.file \in Files /\ before'.faults \in Nat
        /\ Shaped' /\ Unlisted'
    BY <1>0, <1>1, <1>2, <1>4 DEF Activate, GoTo
  <2>3. UNCHANGED disk
    BY <1>4 DEF Activate
  <2> QED BY <1>0, <2>1, <2>2, <2>3
          DEF TypeInv, DiskTyped, Memory, Wired, Active, Config, config, disk
<1>5. CASE Restore
  <2>1. PICK l \in job.changed :
          /\ IF prev[l] # {}
             THEN /\ file' = [file EXCEPT ![l] = prev[l]]
                  /\ prev' = [prev EXCEPT ![l] = {}]
             ELSE UNCHANGED <<file, prev>>
          /\ Go(IF job.changed = {l} THEN "reloadBack" ELSE "restore",
                [job EXCEPT !.changed = @ \ {l}])
    BY <1>5 DEF Restore
  <2>2. l \in Lists /\ l \in RuleFiles
    BY <1>0, Apart DEF Job
  <2>3. /\ file' \in Files /\ prev' \in [Lists -> SUBSET Owner]
        /\ \A f \in RuleFiles : file[f] # {} => file'[f] # {}
    BY <1>0, <2>1, <2>2 DEF TypeInv, Memory, Files
  <2>4. [job EXCEPT !.changed = @ \ {l}] \in Job
    BY <1>0 DEF Job
  <2>5. /\ report' \in {"none", "ok", "refused", "failed"}
        /\ job' \in Job /\ before'.file \in Files /\ before'.faults \in Nat
        /\ Shaped' /\ Unlisted'
    BY <1>2, <2>1, <2>4
  <2>6. UNCHANGED <<refs, daemon>>
    BY <1>5 DEF Restore
  <2> QED BY <1>0, <2>3, <2>5, <2>6
          DEF TypeInv, DiskTyped, Memory, Wired, Active, Config, config, daemon
<1>6. CASE ReloadBack
  <2>1. up' \in BOOLEAN /\ served' \in Files
    BY <1>0, <1>6, LoadedTyped DEF ReloadBack, Reloaded, TypeInv, DiskTyped, daemon
  <2>2. End("failed") /\ UNCHANGED disk
    BY <1>6 DEF ReloadBack
  <2> QED BY <1>0, <1>1, <2>1, <2>2
          DEF TypeInv, DiskTyped, Memory, Wired, Active, Config, config, disk
<1> QED BY <1>3, <1>4, <1>5, <1>6

LEMMA ChangeTyped == TypeInv /\ (ChangeConfig \/ DropFile \/ DropPrev) => TypeInv'
<1> SUFFICES ASSUME TypeInv, ChangeConfig \/ DropFile \/ DropPrev PROVE TypeInv'
  OBVIOUS
<1>0. /\ job \in Job /\ faults' \in Nat /\ file \in Files
      /\ UNCHANGED <<feed, op, killed>>
  <2>1. faults' \in Nat
    BY FaultTyped DEF ChangeConfig, DropFile, DropPrev, NoFault, TypeInv, Memory
  <2> QED BY <2>1 DEF ChangeConfig, DropFile, DropPrev, Running, TypeInv, DiskTyped, Memory
<1>1. ASSUME NEW r \in {"none", "ok", "refused", "failed"}, End(r)
      PROVE  /\ report' \in {"none", "ok", "refused", "failed"}
             /\ job' \in Job /\ before'.file \in Files /\ before'.faults \in Nat
             /\ Shaped' /\ Unlisted'
  BY <1>1, EndFacts
<1>2. ASSUME NEW step, GoTo(step)
      PROVE  /\ report' \in {"none", "ok", "refused", "failed"}
             /\ job' \in Job /\ before'.file \in Files /\ before'.faults \in Nat
             /\ pc' = step /\ job' = job
  BY <1>0, <1>2, GoFacts DEF GoTo
<1>3. CASE ChangeConfig
  <2>0. pc = "config" /\ op \in {"add", "remove", "toggle"} /\ UNCHANGED <<file, prev, up>>
    BY <1>3 DEF ChangeConfig, TypeInv, Shaped
  <2>1. CASE /\ lists' = job.goal.lists /\ blocking' = job.goal.blocking
             /\ refs' = References(job.goal)
             /\ IF up /\ refs' # refs
                THEN served' = Loaded(refs') /\ unloaded' = {}
                ELSE UNCHANGED <<served, unloaded>>
             /\ IF op = "remove" THEN GoTo("dropFile") ELSE End("ok")
    <3>1. lists' \in [Lists -> {"none", "on", "off"}] /\ blocking' \in BOOLEAN
      BY <1>0, <2>1 DEF Job, Configs
    <3>2. \A f : Active(job.goal, f) <=> Active(Config, f)'
      BY <2>1 DEF Active, Config
    <3>3. /\ refs' \in SUBSET RuleFiles /\ Manual \subseteq refs'
          /\ \A l \in refs' \ Manual : file'[l] # {}
          /\ Wired'
      BY <2>0, <2>1, <3>2, ReferencesFacts DEF Wired
    <3>4. served' \in Files
      BY <1>0, <2>1, LoadedTyped DEF TypeInv, DiskTyped
    <3>5. /\ report' \in {"none", "ok", "refused", "failed"}
          /\ job' \in Job /\ before'.file \in Files /\ before'.faults \in Nat
          /\ Shaped' /\ Unlisted'
      <4>1. CASE op = "remove"
        <5>1. job.arg \in Lists /\ job.goal.lists[job.arg] = "none"
          BY <2>0, <4>1 DEF TypeInv, Unlisted
        <5>2. GoTo("dropFile")
          BY <2>1, <4>1
        <5> QED BY <1>0, <1>2, <2>1, <4>1, <5>1, <5>2 DEF Shaped, Unlisted
      <4>2. CASE op # "remove"
        BY <1>1, <2>1, <4>2
      <4> QED BY <4>1, <4>2
    <3> QED BY <1>0, <2>0, <3>1, <3>3, <3>4, <3>5 DEF TypeInv, DiskTyped, Memory
  <2>2. CASE /\ UNCHANGED <<config, refs>>
             /\ \/ UNCHANGED <<served, unloaded>>
                \/ up /\ served' = Loaded(refs) /\ unloaded' = {}
             /\ IF op = "add" THEN GoTo("dropFile") ELSE End("failed")
    <3>1. served' \in Files
      BY <1>0, <2>2, LoadedTyped DEF TypeInv, DiskTyped
    <3>2. /\ report' \in {"none", "ok", "refused", "failed"}
          /\ job' \in Job /\ before'.file \in Files /\ before'.faults \in Nat
          /\ Shaped' /\ Unlisted'
      <4>1. CASE op = "add"
        <5>1. job.arg \in Lists /\ lists[job.arg] = "none" /\ job.todo \subseteq {job.arg}
          BY <2>0, <4>1 DEF TypeInv, Unlisted
        <5>2. GoTo("dropFile")
          BY <2>2, <4>1
        <5> QED BY <1>0, <1>2, <2>2, <4>1, <5>1, <5>2 DEF Shaped, Unlisted, config
      <4>2. CASE op # "add"
        BY <1>1, <2>2, <4>2
      <4> QED BY <4>1, <4>2
    <3> QED BY <1>0, <2>0, <2>2, <3>1, <3>2
            DEF TypeInv, DiskTyped, Memory, Wired, Active, Config, config
  <2> QED BY <1>3, <2>1, <2>2 DEF ChangeConfig
<1>4. CASE DropFile
  <2>1. /\ job.arg \in Lists /\ lists[job.arg] = "none" /\ op \in {"add", "remove"}
        /\ UNCHANGED <<config, prev, refs, daemon>>
        /\ file' = [file EXCEPT ![job.arg] = {}]
    BY <1>4 DEF DropFile, TypeInv, Shaped, Unlisted
  <2>2. job.arg \notin refs
    BY <2>1, Apart DEF TypeInv, Wired, Active, Config
  <2>3. file' \in Files /\ \A f \in refs : file'[f] = file[f]
    BY <1>0, <2>1, <2>2, Apart DEF Files, TypeInv, DiskTyped
  <2>4. /\ report' \in {"none", "ok", "refused", "failed"}
        /\ job' \in Job /\ before'.file \in Files /\ before'.faults \in Nat
        /\ Shaped' /\ Unlisted'
    <3>1. CASE op = "remove" /\ GoTo("dropPrev")
      BY <1>0, <1>2, <2>1, <3>1 DEF Shaped, Unlisted, config
    <3>2. CASE End("failed")
      BY <1>1, <3>2
    <3> QED BY <1>4, <3>1, <3>2 DEF DropFile
  <2> QED BY <1>0, <2>1, <2>3, <2>4
          DEF TypeInv, DiskTyped, Memory, Wired, Active, Config, config, daemon
<1>5. CASE DropPrev
  <2>1. prev' \in [Lists -> SUBSET Owner]
    BY <1>5 DEF DropPrev, TypeInv, Memory
  <2>2. UNCHANGED <<config, file, refs, daemon>> /\ End("ok")
    BY <1>5 DEF DropPrev
  <2> QED BY <1>0, <1>1, <2>1, <2>2
          DEF TypeInv, DiskTyped, Memory, Wired, Active, Config, config, daemon
<1> QED BY <1>3, <1>4, <1>5

LEMMA WorldTyped == TypeInv /\ World => TypeInv'
<1> SUFFICES ASSUME TypeInv, World PROVE TypeInv'
  OBVIOUS
<1>1. CASE Kill
  <2>1. /\ killed' = killed + 1 /\ pc' = "idle" /\ job' = NoJob /\ report' = "none"
        /\ before' = NoBefore
        /\ UNCHANGED <<config, disk, daemon, feed, op, unloaded, commands, faults>>
    BY <1>1 DEF Kill
  <2>2. Memory' /\ Shaped' /\ Unlisted'
    BY <2>1, NoJobTyped, NoBeforeTyped DEF TypeInv, Memory, Shaped, Unlisted, disk
  <2> QED BY <2>1, <2>2 DEF TypeInv, DiskTyped, Wired, Active, Config, config, disk, daemon
<1>2. CASE DaemonStops \/ DaemonStarts
  <2>1. /\ UNCHANGED <<config, disk, feed, pc, op, job, report, before, killed>>
        /\ faults' \in Nat
    BY <1>2, FaultTyped DEF DaemonStops, DaemonStarts, NoFault, counts, TypeInv, Memory
  <2>2. served' \in Files /\ up' \in BOOLEAN
    BY <1>2, LoadedTyped DEF DaemonStops, DaemonStarts, TypeInv, DiskTyped
  <2> QED BY <2>1, <2>2
          DEF TypeInv, DiskTyped, Memory, Shaped, Unlisted, Wired, Active, Config, config, disk
<1>3. ASSUME NEW l \in Lists, FeedChanges(l) PROVE TypeInv'
  <2>1. UNCHANGED <<config, disk, daemon, pc, op, job, report, before, unloaded, counts>>
    BY <1>3 DEF FeedChanges
  <2>2. /\ feed' \in [Lists -> Nat]
        /\ \A m \in Lists : feed'[m] \in 1..Len(Downloads[m])
    <3>1. Len(Downloads[l]) \in Nat /\ feed[l] \in 1..Len(Downloads[l]) /\ feed[l] < Len(Downloads[l])
      BY <1>3, FilterAssumption DEF FeedChanges, TypeInv, Memory
    <3> QED BY <1>3, <3>1 DEF FeedChanges, TypeInv, Memory
  <2>3. DiskTyped' /\ Shaped' /\ Unlisted' /\ Wired'
    BY <2>1 DEF TypeInv, DiskTyped, Shaped, Unlisted, Wired, Active, Config, config, disk, daemon
  <2>4. Memory'
    BY <2>1, <2>2 DEF TypeInv, Memory, disk, counts
  <2> QED BY <2>3, <2>4 DEF TypeInv
<1> QED BY <1>1, <1>2, <1>3 DEF World

LEMMA TypeStep == TypeInv /\ [Next]_vars => TypeInv'
<1> SUFFICES ASSUME TypeInv, [Next]_vars PROVE TypeInv'
  OBVIOUS
<1>1. CASE UNCHANGED vars
  BY <1>1 DEF vars, TypeInv, DiskTyped, Memory, Shaped, Unlisted, Wired, Active, Config
<1>2. CASE Next
  BY <1>2, CommandTyped, EditTyped, FetchTyped, KeepPrevTyped, UpdateTyped, ChangeTyped, WorldTyped
     DEF Next, Step
<1> QED BY <1>1, <1>2

LEMMA TypesHold == Spec => []TypeInv
BY TypeInit, TypeStep, PTL DEF Spec

\* Everything has its type, and minidns.conf never references a list that has
\* no file: unbound, which refuses to start then, always can (Render skips
\* them, Update never writes an empty one, remove and a failed add take the
\* file away only when no configuration has the list).
THEOREM FilterTypes == Spec => []TypeOK
<1>1. TypeInv => TypeOK
  BY DEF TypeInv, DiskTyped, Memory, Job, Files, TypeOK
<1> QED BY <1>1, TypesHold, PTL

-----------------------------------------------------------------------------
(***************************************************************************)
(* Block explain and unbound.  While nothing was killed and at most one    *)
(* step failed: a list that is configured has its file; one that has a     *)
(* file and is not referenced had none in the beginning; and unbound has   *)
(* the rule files as minidns.conf references them, except the ones the     *)
(* running command is about to have it load.                               *)
(***************************************************************************)
Quiet == killed = 0 /\ faults <= 1

\* A configuration about to be saved has no list the present one has not,
\* but the one that is being added.
Goals ==
  op # "update" /\ pc \in {"fetch", "keepPrev", "config"} =>
    \A l \in Lists : job.goal.lists[l] # "none" =>
       lists[l] # "none" \/ (op = "add" /\ l = job.arg)

\* The running update has replaced the file of l and not yet minidns.conf.
Fresh(l) ==
  /\ op = "update"
  /\ \/ pc \in {"fetch", "keepPrev", "wire"} /\ l \in job.changed
     \/ pc = "keepPrev" /\ l = job.arg

HaveFiles ==
  /\ \A l \in Lists \ Unfetched : lists[l] # "none" => file[l] # {}
  /\ op = "add" /\ pc \in {"keepPrev", "config"} => file[job.arg] # {}

FirstCopies ==
  \A l \in Lists : Active(Config, l) /\ file[l] # {} /\ l \notin refs =>
     l \in Unfetched /\ (faults = 1 \/ Fresh(l))

\* The running command is about to have unbound load f.
Pending(f) ==
  \/ pc = "reloadRules" /\ f = job.arg
  \/ Fresh(f)
  \/ pc \in {"activate", "restore", "reloadBack"} /\ f \in Lists

UpToDate ==
  up => \A f \in RuleFiles \ unloaded : ~Pending(f) => served[f] = Loaded(refs)[f]

Late == pc \in {"restore", "reloadBack"} => faults = 1

Good == HaveFiles /\ FirstCopies /\ UpToDate /\ Late

ExplainInv == Goals /\ (Quiet => Good)

\* Failures and kills are counted and never forgotten.
LEMMA Onward ==
  ASSUME TypeInv, Next PROVE faults' >= faults /\ (Quiet' => Quiet)
<1>0. faults \in Nat /\ killed \in Nat
  BY DEF TypeInv, Memory
<1>1. faults' = faults \/ faults' = faults + 1
  BY DEF Next, UpdateAll, Command, RuleAdd, RuleRemove, UpdateNamed, Update, ListAdd, ListRemove,
         Toggle, ToggleAll, Change, Begin, Step, Present, WriteRules, ReloadRules, Fetch, KeepPrev,
         Wire, Activate, Restore, ReloadBack, ChangeConfig, DropFile, DropPrev, World, Kill,
         DaemonStops, DaemonStarts, FeedChanges, NoFault, Fault, counts
<1>2. killed' = killed \/ killed' = killed + 1
  BY DEF Next, UpdateAll, Command, RuleAdd, RuleRemove, UpdateNamed, Update, ListAdd, ListRemove,
         Toggle, ToggleAll, Change, Begin, Step, Present, WriteRules, ReloadRules, Fetch, KeepPrev,
         Wire, Activate, Restore, ReloadBack, ChangeConfig, DropFile, DropPrev, World, Kill,
         DaemonStops, DaemonStarts, FeedChanges, Running, counts
<1> QED BY <1>0, <1>1, <1>2 DEF Quiet

\* What is loaded depends on the files that are referenced.
LEMMA LoadedSame ==
  ASSUME NEW f \in RuleFiles, f \in refs => f \in refs' /\ file'[f] = file[f],
         f \in refs' => f \in refs
  PROVE  Loaded(refs)[f]' = Loaded(refs)[f]
BY DEF Loaded

LEMMA GoodInit == Init => ExplainInv
<1> SUFFICES ASSUME Init PROVE ExplainInv
  OBVIOUS
<1>1. \A f \in RuleFiles : file[f] = {} /\ served[f] = {} /\ Loaded(refs)[f] = {}
  BY DEF Init, Loaded
<1>2. \A l \in Lists : file[l] = {}
  BY <1>1, Apart
<1> QED BY <1>1, <1>2 DEF Init, ExplainInv, Goals, Good, HaveFiles, FirstCopies, UpToDate, Late

LEMMA BeginGood ==
  ASSUME TypeInv, ExplainInv, NEW name, NEW step, NEW j, Begin(name, step, j),
         name = "edit" => step \in {"present", "writeRules"},
         name # "edit" => step \in {"fetch", "config"},
         name = "add" => step = "fetch",
         name # "update" /\ step \in {"fetch", "config"} =>
            \A l \in Lists : j.goal.lists[l] # "none" =>
               lists[l] # "none" \/ (name = "add" /\ l = j.arg)
  PROVE  Goals' /\ (Quiet => Good')
<1>1. /\ pc = "idle" /\ pc' = step /\ op' = name /\ job' = j
      /\ lists' = lists /\ blocking' = blocking /\ file' = file /\ refs' = refs
      /\ up' = up /\ served' = served /\ unloaded' = unloaded /\ faults' = faults
  BY DEF Begin, config, disk, daemon
<1>2. Goals'
  BY <1>1 DEF Goals
<1>3. ASSUME Quiet PROVE HaveFiles' /\ FirstCopies' /\ UpToDate' /\ Late'
  <2>1. HaveFiles /\ FirstCopies /\ UpToDate
    BY <1>3 DEF ExplainInv, Good
  <2>2. HaveFiles'
    BY <1>1, <2>1 DEF HaveFiles
  <2>3. FirstCopies'
    BY <1>1, <2>1 DEF FirstCopies, Fresh, Active, Config
  <2>4. UpToDate'
    BY <1>1, <2>1 DEF UpToDate, Pending, Fresh, Loaded
  <2> QED BY <1>1, <2>2, <2>3, <2>4 DEF Late
<1> QED BY <1>2, <1>3 DEF Good

LEMMA CommandGood ==
  ASSUME TypeInv, ExplainInv, UpdateAll \/ Command PROVE Goals' /\ (Quiet => Good')
<1>0. Config \in Configs /\ lists \in [Lists -> {"none", "on", "off"}]
  BY DEF TypeInv, DiskTyped, Config, Configs
<1>1. ASSUME NEW ls, NEW forced, Update(ls, forced) PROVE Goals' /\ (Quiet => Good')
  BY <1>1, BeginGood DEF Update
<1>2. ASSUME NEW r, RuleAdd(r[1], r[2]) \/ RuleRemove(r[1], r[2]) PROVE Goals' /\ (Quiet => Good')
  <2> PICK step, j : step \in {"present", "writeRules"} /\ Begin("edit", step, j)
    BY <1>2 DEF RuleAdd, RuleRemove
  <2> QED BY BeginGood
<1>3. ASSUME NEW l \in Lists, NEW s \in {"none", "on", "off"}, NEW name, NEW step,
             \/ name = "add" /\ step = "fetch"
             \/ name \in {"remove", "toggle"} /\ step = "config" /\ lists[l] # "none",
             Change(name, step, l, s)
      PROVE  Goals' /\ (Quiet => Good')
  <2> DEFINE goal == [Config EXCEPT !.lists[l] = s]
             j == [NoJob EXCEPT !.arg = l, !.todo = {l}, !.goal = goal]
  <2>1. \A m \in Lists \ {l} : goal.lists[m] = lists[m]
    BY <1>0 DEF Configs, Config
  <2>2. j.arg = l /\ j.goal = goal
    BY DEF NoJob
  <2>3. Begin(name, step, j)
    BY <1>3 DEF Change
  <2> HIDE DEF goal, j
  <2>4. \A m \in Lists : j.goal.lists[m] # "none" =>
               lists[m] # "none" \/ (name = "add" /\ m = j.arg)
    BY <1>3, <2>1, <2>2
  <2> QED BY <1>3, <2>3, <2>4, BeginGood
<1>4. ASSUME NEW b \in BOOLEAN, ToggleAll(b) PROVE Goals' /\ (Quiet => Good')
  <2> DEFINE j == [NoJob EXCEPT !.goal = [Config EXCEPT !.blocking = b]]
  <2>1. j.goal.lists = lists
    BY DEF NoJob, Config
  <2>2. Begin("toggle", "config", j)
    BY <1>4 DEF ToggleAll
  <2> HIDE DEF j
  <2> QED BY <2>1, <2>2, BeginGood
<1>5. ASSUME NEW l \in Lists, UpdateNamed(l) \/ ListAdd(l) \/ ListRemove(l)
      PROVE  Goals' /\ (Quiet => Good')
  BY <1>1, <1>3, <1>5 DEF UpdateNamed, ListAdd, ListRemove
<1>6. ASSUME NEW l \in Lists, NEW s \in {"on", "off"}, Toggle(l, s)
      PROVE  Goals' /\ (Quiet => Good')
  BY <1>3, <1>6 DEF Toggle
<1> QED BY <1>1, <1>2, <1>4, <1>5, <1>6 DEF UpdateAll, Command

LEMMA GoalsStep == ASSUME TypeInv, Goals, Step \/ World PROVE Goals'
<1>1. CASE Fetch
  <2>0. pc = "fetch" /\ op \in {"add", "update"} /\ UNCHANGED <<config, op>> /\ job \in Job
    BY <1>1 DEF Fetch, Running, TypeInv, Memory, Shaped
  <2>1. PICK l \in job.todo :
          LET rest == [job EXCEPT !.todo = @ \ {l}] IN
            \/ NextList([rest EXCEPT !.problem = TRUE])
            \/ NextList(rest)
            \/ Go("keepPrev", [rest EXCEPT !.arg = l, !.mem = file[l]])
    BY <1>1 DEF Fetch
  <2> DEFINE rest == [job EXCEPT !.todo = @ \ {l}]
             bad == [rest EXCEPT !.problem = TRUE]
             new == [rest EXCEPT !.arg = l, !.mem = file[l]]
  <2>2. op = "add" => l = job.arg
    BY <2>0, <2>1 DEF TypeInv, Unlisted
  <2>3. /\ rest.goal = job.goal /\ rest.arg = job.arg
        /\ bad.goal = job.goal /\ bad.arg = job.arg
        /\ new.goal = job.goal /\ new.arg = l
    BY <2>0 DEF Job
  <2> HIDE DEF rest, bad, new
  <2>4. CASE NextList(rest) \/ NextList(bad)
    <3>1. PICK j \in {rest, bad} : NextList(j)
      BY <2>4
    <3>2. pc' \in {"idle", "wire"} \/ job' = j
      BY <2>0, <3>1, NextListCases
    <3> QED BY <2>0, <2>3, <3>2 DEF Goals, config
  <2>5. CASE Go("keepPrev", new)
    BY <2>0, <2>2, <2>3, <2>5 DEF Go, Goals, config
  <2> QED BY <2>1, <2>4, <2>5 DEF rest, bad, new
<1>2. CASE KeepPrev
  <2> DEFINE j == [job EXCEPT !.changed = @ \cup {job.arg}]
  <2>0. /\ pc = "keepPrev" /\ op \in {"add", "update"} /\ UNCHANGED <<config, op>>
        /\ NextList(j) /\ j.goal = job.goal /\ j.arg = job.arg
    BY <1>2 DEF KeepPrev, Running, TypeInv, Memory, Shaped, Job
  <2> HIDE DEF j
  <2>1. pc' \in {"idle", "wire"} \/ job' = j
    BY <2>0, NextListCases
  <2> QED BY <2>0, <2>1 DEF Goals, config
<1>3. CASE \/ Present \/ WriteRules \/ ReloadRules \/ Wire \/ Activate \/ Restore \/ ReloadBack
           \/ ChangeConfig \/ DropFile \/ DropPrev \/ Kill
  <2>1. pc' \notin {"fetch", "keepPrev", "config"}
    BY <1>3 DEF Present, WriteRules, ReloadRules, Wire, Activate, Restore, ReloadBack, ChangeConfig,
                DropFile, DropPrev, Kill, End, GoTo, Go
  <2> QED BY <2>1 DEF Goals
<1>4. CASE DaemonStops \/ DaemonStarts \/ \E l \in Lists : FeedChanges(l)
  <2>1. UNCHANGED <<config, pc, op, job>>
    BY <1>4 DEF DaemonStops, DaemonStarts, FeedChanges
  <2> QED BY <2>1 DEF Goals, config
<1> QED BY <1>1, <1>2, <1>3, <1>4 DEF Step, World

\* The steps of an edit, and of a change, after which unbound has its files.
LEMMA EditGood ==
  ASSUME TypeInv, Good, Quiet, Quiet', Present \/ WriteRules \/ ReloadRules
  PROVE  Good'
<1>0. /\ pc \in {"present", "writeRules", "reloadRules"} /\ op = "edit" /\ job.arg \in Manual
      /\ lists' = lists /\ blocking' = blocking /\ refs' = refs /\ op' = op
      /\ Manual \subseteq refs /\ file \in Files /\ served \in Files
  BY DEF Present, WriteRules, ReloadRules, Running, config, disk, TypeInv, Shaped, DiskTyped
<1>1. pc' \in {"idle", "reloadRules"} /\ faults' >= faults /\ faults' \in Nat /\ faults \in Nat
  <2>1. pc' \in {"idle", "reloadRules"}
    BY DEF Present, WriteRules, ReloadRules, End, GoTo, Go
  <2>2. faults' >= faults
    BY Onward DEF Next, Step
  <2> QED BY <2>1, <2>2, TypeStep DEF Next, Step, TypeInv, Memory
<1>2. \A l \in Lists : file'[l] = file[l]
  BY <1>0, Apart DEF Present, WriteRules, ReloadRules, disk, Files
<1>3. HaveFiles' /\ Late'
  BY <1>0, <1>1, <1>2 DEF Good, HaveFiles, Late
<1>4. FirstCopies'
  <2> SUFFICES ASSUME NEW l \in Lists, Active(Config, l)', file'[l] # {}, l \notin refs'
               PROVE  l \in Unfetched /\ faults' = 1
    BY DEF FirstCopies
  <2>1. l \in Unfetched /\ faults = 1
    BY <1>0, <1>2 DEF Good, FirstCopies, Fresh, Active, Config
  <2> QED BY <1>1, <2>1 DEF Quiet
<1>5. UpToDate'
  <2> SUFFICES ASSUME up', NEW f \in RuleFiles, f \notin unloaded', ~Pending(f)'
               PROVE  served'[f] = (Loaded(refs)[f])'
    BY DEF UpToDate
  <2>1. CASE Present
    BY <1>0, <2>1 DEF Good, UpToDate, Pending, Fresh, Present, Loaded, disk, daemon
  <2>2. CASE WriteRules
    <3>1. up /\ served' = served /\ unloaded' = unloaded
      BY <2>2 DEF WriteRules, daemon
    <3>2. file'[f] = file[f]
      BY <1>0, <2>2, <3>1 DEF WriteRules, GoTo, Go, Pending, Files
    <3>3. ~Pending(f)
      BY <1>0, <2>2 DEF WriteRules, Pending, Fresh
    <3> QED BY <1>0, <3>1, <3>2, <3>3 DEF Good, UpToDate, Loaded
  <2>3. CASE ReloadRules
    <3>0. file' = file /\ pc = "reloadRules"
      BY <2>3 DEF ReloadRules, disk
    <3>1. CASE ~up
      BY <1>0, <2>3, <3>0, <3>1 DEF ReloadRules, daemon, Loaded
    <3>2. CASE up /\ f = job.arg
      <4>1. served' = [served EXCEPT ![job.arg] = file[job.arg]]
        BY <2>3, <3>2 DEF ReloadRules
      <4>2. served'[f] = file[f] /\ f \in refs
        BY <1>0, <3>2, <4>1 DEF Files
      <4> QED BY <1>0, <3>0, <4>2 DEF Loaded
    <3>3. CASE up /\ f # job.arg
      <4>1. ~Pending(f) /\ f \notin unloaded /\ served'[f] = served[f]
        BY <1>0, <2>3, <3>0, <3>3 DEF ReloadRules, Pending, Fresh, Files, daemon
      <4> QED BY <1>0, <3>0, <3>3, <4>1 DEF Good, UpToDate, Loaded
    <3> QED BY <3>1, <3>2, <3>3
  <2> QED BY <2>1, <2>2, <2>3
<1> QED BY <1>3, <1>4, <1>5 DEF Good

LEMMA FetchGood ==
  ASSUME TypeInv, Good, Quiet, Quiet', Fetch \/ KeepPrev PROVE Good'
<1>0. /\ pc \in {"fetch", "keepPrev"} /\ op \in {"add", "update"} /\ job \in Job
      /\ lists' = lists /\ blocking' = blocking /\ refs' = refs /\ op' = op
      /\ up' = up /\ served' = served /\ unloaded' = unloaded
      /\ file \in Files /\ served \in Files
  BY DEF Fetch, KeepPrev, Running, config, daemon, TypeInv, Shaped, DiskTyped, Memory
<1>1. faults' >= faults /\ faults' \in Nat /\ faults \in Nat /\ (faults = 1 => faults' = 1)
  <2>1. faults' >= faults
    BY Onward DEF Next, Step
  <2>2. faults' \in Nat /\ faults \in Nat
    BY TypeStep DEF Next, Step, TypeInv, Memory
  <2> QED BY <2>1, <2>2 DEF Quiet
\* Whatever comes after a list, its file is as new as it was.
<1>2. ASSUME NEW j \in Job, NextList(j), file' = file,
             \A m \in Lists : Fresh(m) => m \in j.changed,
             op = "add" /\ ~j.problem /\ j.todo = {} => file[job.arg] # {} /\ j.arg = job.arg
      PROVE  Good'
  <2>1. pc' \in {"fetch", "config", "wire", "idle"}
    BY <1>0, <1>2, NextListCases
  <2>2. \A m \in Lists : Fresh(m) => Fresh(m)'
    <3> SUFFICES ASSUME NEW m \in Lists, Fresh(m) PROVE Fresh(m)'
      OBVIOUS
    <3>1. op = "update" /\ m \in j.changed
      BY <1>2 DEF Fresh
    <3>2. pc' \in {"fetch", "wire"} /\ job' = j
      BY <1>0, <1>2, <3>1, NextListCases
    <3> QED BY <1>0, <3>1, <3>2 DEF Fresh
  <2>3. HaveFiles'
    <3>1. op = "add" /\ pc' = "config" => file[job.arg] # {} /\ job' = j /\ j.arg = job.arg
      BY <1>0, <1>2, NextListCases
    <3> QED BY <1>0, <1>2, <2>1, <3>1 DEF Good, HaveFiles
  <2>4. FirstCopies'
    BY <1>0, <1>1, <1>2, <2>2 DEF Good, FirstCopies, Active, Config
  <2>5. UpToDate'
    <3> SUFFICES ASSUME up, NEW f \in RuleFiles, f \notin unloaded, ~Pending(f)'
                 PROVE  served[f] = Loaded(refs)[f]
      BY <1>0, <1>2 DEF UpToDate, Loaded
    <3>1. Fresh(f) => f \in Lists
      BY <1>0 DEF Fresh, Job, TypeInv, Shaped
    <3>2. ~Pending(f)
      BY <1>0, <2>2, <3>1 DEF Pending
    <3> QED BY <3>2 DEF Good, UpToDate
  <2>6. Late'
    BY <2>1 DEF Late
  <2> QED BY <2>3, <2>4, <2>5, <2>6 DEF Good
<1>3. CASE KeepPrev
  <2> DEFINE j == [job EXCEPT !.changed = @ \cup {job.arg}]
  <2>0. pc = "keepPrev" /\ NextList(j) /\ file' = file /\ job.arg \in Lists
    BY <1>3 DEF KeepPrev, TypeInv, Shaped
  <2>1. j \in Job /\ j.changed = job.changed \cup {job.arg} /\ j.arg = job.arg
    BY <1>0, <2>0 DEF Job
  <2> HIDE DEF j
  <2>2. \A m \in Lists : Fresh(m) => m \in j.changed
    BY <2>0, <2>1 DEF Fresh
  <2>3. op = "add" => file[job.arg] # {}
    BY <2>0 DEF Good, HaveFiles
  <2> QED BY <1>2, <2>0, <2>1, <2>2, <2>3
<1>4. CASE Fetch
  <2>0. pc = "fetch"
    BY <1>4 DEF Fetch
  <2>1. PICK l \in job.todo :
          LET rest == [job EXCEPT !.todo = @ \ {l}] IN
            \/ NextList([rest EXCEPT !.problem = TRUE]) /\ UNCHANGED file
            \/ ~Refused(l) /\ file[l] = NewFile(l) /\ NextList(rest) /\ UNCHANGED file
            \/ /\ ~Refused(l) /\ file' = [file EXCEPT ![l] = NewFile(l)]
               /\ Go("keepPrev", [rest EXCEPT !.arg = l, !.mem = file[l]])
    BY <1>4 DEF Fetch
  <2> DEFINE rest == [job EXCEPT !.todo = @ \ {l}]
             bad == [rest EXCEPT !.problem = TRUE]
             new == [rest EXCEPT !.arg = l, !.mem = file[l]]
  <2>2. l \in Lists /\ l \in RuleFiles /\ l \notin Manual
    BY <1>0, Apart DEF Job
  <2>3. op = "add" => l = job.arg /\ lists[l] = "none"
    BY <2>0 DEF TypeInv, Unlisted
  <2>4. /\ rest \in Job /\ rest.changed = job.changed /\ rest.arg = job.arg
        /\ bad \in Job /\ bad.changed = job.changed /\ bad.arg = job.arg /\ bad.problem
        /\ new.changed = job.changed /\ new.arg = l
    BY <1>0 DEF Job
  <2> HIDE DEF rest, bad, new
  <2>5. \A m \in Lists : Fresh(m) => m \in job.changed
    BY <2>0 DEF Fresh
  <2>6. CASE NextList(bad) /\ file' = file
    BY <1>2, <2>4, <2>5, <2>6
  <2>7. CASE ~Refused(l) /\ file[l] = NewFile(l) /\ NextList(rest) /\ file' = file
    <3>1. file[l] # {}
      BY <2>2, <2>7, NewFileFacts DEF TypeInv
    <3> QED BY <1>2, <2>3, <2>4, <2>5, <2>7, <3>1
  <2>8. CASE /\ ~Refused(l) /\ file' = [file EXCEPT ![l] = NewFile(l)]
             /\ Go("keepPrev", new)
    <3>0. /\ pc' = "keepPrev" /\ job' = new
          /\ file'[l] # {} /\ \A f \in RuleFiles \ {l} : file'[f] = file[f]
      BY <1>0, <2>2, <2>8, NewFileFacts DEF TypeInv, Go, Files
    <3>1. HaveFiles'
      BY <1>0, <2>2, <2>4, <3>0, Apart DEF Good, HaveFiles
    <3>2. \A m \in Lists : Fresh(m) => Fresh(m)'
      BY <1>0, <2>0, <2>4, <3>0 DEF Fresh
    <3>3. FirstCopies'
      <4> SUFFICES ASSUME NEW m \in Lists, Active(Config, m), file'[m] # {}, m \notin refs
                   PROVE  m \in Unfetched /\ (faults' = 1 \/ Fresh(m)')
        BY <1>0 DEF FirstCopies, Active, Config
      <4>1. CASE m # l
        BY <1>1, <3>0, <3>2, <4>1, Apart DEF Good, FirstCopies
      <4>2. CASE m = l
        <5>1. op = "update"
          BY <1>0, <2>2, <2>3, <4>2 DEF Active, Config
        <5>2. Fresh(l)'
          BY <1>0, <2>4, <3>0, <5>1 DEF Fresh
        <5>3. l \in Unfetched
          <6>1. lists[l] # "none"
            BY <2>2, <4>2 DEF Active, Config
          <6>2. l \notin Unfetched => file[l] # {}
            BY <2>2, <6>1 DEF Good, HaveFiles
          <6> QED BY <2>2, <4>2, <6>2 DEF Good, FirstCopies
        <5> QED BY <4>2, <5>2, <5>3
      <4> QED BY <4>1, <4>2
    <3>4. UpToDate'
      <4> SUFFICES ASSUME up, NEW f \in RuleFiles, f \notin unloaded, ~Pending(f)'
                   PROVE  served[f] = (Loaded(refs)[f])'
        BY <1>0 DEF UpToDate
      <4>1. Fresh(f) => f \in Lists
        BY <1>0, <2>0 DEF Fresh, Job
      <4>2. ~Pending(f)
        BY <2>0, <3>2, <4>1 DEF Pending
      <4>3. f \in refs => file'[f] = file[f]
        <5>1. f \in refs /\ f = l => op = "update" /\ Fresh(l)'
          BY <1>0, <2>2, <2>3, <2>4, <3>0 DEF TypeInv, Wired, Active, Config, Fresh
        <5> QED BY <3>0, <5>1 DEF Pending
      <4> QED BY <1>0, <4>2, <4>3 DEF Good, UpToDate, Loaded
    <3> QED BY <3>0, <3>1, <3>3, <3>4 DEF Good, Late
  <2> QED BY <2>1, <2>6, <2>7, <2>8 DEF rest, bad, new
<1> QED BY <1>3, <1>4

LEMMA UpdateGood ==
  ASSUME TypeInv, Good, Quiet, Quiet', Wire \/ Activate \/ Restore \/ ReloadBack
  PROVE  Good'
<1>0. /\ op = "update" /\ op' = op /\ job \in Job
      /\ lists' = lists /\ blocking' = blocking
      /\ file \in Files /\ served \in Files /\ Manual \subseteq refs
  BY DEF Wire, Activate, Restore, ReloadBack, Running, config, TypeInv, Shaped, DiskTyped, Memory
<1>1. faults' >= faults /\ faults' \in Nat /\ faults \in Nat /\ (faults = 1 => faults' = 1)
  <2>1. faults' >= faults
    BY Onward DEF Next, Step
  <2>2. faults' \in Nat /\ faults \in Nat
    BY TypeStep DEF Next, Step, TypeInv, Memory
  <2> QED BY <2>1, <2>2 DEF Quiet
<1>2. Fault => faults' = 1
  BY <1>1 DEF Fault, Quiet
\* Everything loaded, or about to be; the files and references as they were.
<1>3. ASSUME UNCHANGED disk, pc \in {"activate", "reloadBack"}, pc' \in {"idle", "restore"},
             ~up' \/ served' = Loaded(refs) \/ (UNCHANGED <<served, up, unloaded>> /\ pc' = "restore"),
             pc' = "restore" => faults' = 1
      PROVE  Good'
  <2>1. HaveFiles' /\ FirstCopies' /\ Late'
    BY <1>0, <1>1, <1>3 DEF Good, HaveFiles, FirstCopies, Fresh, Active, Config, Late, disk
  <2>2. UpToDate'
    BY <1>0, <1>3, Apart DEF Good, UpToDate, Pending, Fresh, Loaded, disk, RuleFiles
  <2> QED BY <2>1, <2>2 DEF Good
<1>4. CASE Wire
  <2>0. /\ pc = "wire" /\ file' = file /\ UNCHANGED <<up, served, unloaded>>
    BY <1>4 DEF Wire, daemon
  <2>1. CASE refs' = References(Config) /\ (IF up THEN pc' = "activate" ELSE pc' = "idle")
    <3>1. HaveFiles' /\ Late'
      BY <1>0, <2>0, <2>1 DEF Good, HaveFiles, Late
    <3>2. FirstCopies'
      <4> SUFFICES ASSUME NEW m \in Lists, Active(Config, m), file[m] # {}, m \notin refs' PROVE FALSE
        BY <1>0, <2>0 DEF FirstCopies, Active, Config
      <4> QED BY <2>1, ReferencesFacts, Apart
    <3>3. UpToDate'
      <4> SUFFICES ASSUME up, NEW f \in RuleFiles \ unloaded, ~Pending(f)'
                   PROVE  served[f] = (Loaded(refs)[f])'
        BY <2>0 DEF UpToDate
      <4>1. f \in Manual /\ f \notin Lists
        BY <2>1, Apart DEF Pending, RuleFiles
      <4>2. ~Pending(f)
        BY <1>0, <2>0, <4>1 DEF Pending, Fresh, Job
      <4>3. f \in refs /\ f \in refs'
        BY <1>0, <2>1, <4>1, ReferencesFacts
      <4> QED BY <2>0, <4>2, <4>3 DEF Good, UpToDate, Loaded
    <3> QED BY <3>1, <3>2, <3>3 DEF Good
  <2>2. CASE refs' = refs /\ pc' = "restore" /\ Fault
    <3>1. HaveFiles' /\ FirstCopies' /\ Late'
      BY <1>0, <1>2, <2>0, <2>2 DEF Good, HaveFiles, FirstCopies, Active, Config, Late
    <3>2. UpToDate'
      <4> SUFFICES ASSUME up, NEW f \in RuleFiles \ unloaded, ~Pending(f)'
                   PROVE  served[f] = (Loaded(refs)[f])'
        BY <2>0 DEF UpToDate
      <4>1. f \notin Lists
        BY <2>2 DEF Pending
      <4>2. ~Pending(f)
        BY <1>0, <2>0, <4>1 DEF Pending, Fresh, Job
      <4> QED BY <2>0, <2>2, <4>2 DEF Good, UpToDate, Loaded
    <3> QED BY <3>1, <3>2 DEF Good
  <2> QED BY <1>4, <2>1, <2>2 DEF Wire, GoTo, Go, End
<1>5. CASE Activate
  <2>1. UNCHANGED disk /\ pc = "activate"
    BY <1>5 DEF Activate
  <2>2. CASE NoFault /\ Reloaded /\ pc' = "idle"
    BY <1>3, <2>1, <2>2 DEF Reloaded
  <2>3. CASE /\ Fault /\ pc' = "restore"
             /\ ~up' \/ served' = Loaded(refs) \/ UNCHANGED <<served, up, unloaded>>
    BY <1>2, <1>3, <2>1, <2>3
  <2> QED BY <1>5, <2>2, <2>3 DEF Activate, GoTo, Go, End, Reloaded, daemon
<1>6. CASE Restore
  <2>1. PICK l \in job.changed :
          /\ IF prev[l] # {}
             THEN /\ file' = [file EXCEPT ![l] = prev[l]]
                  /\ prev' = [prev EXCEPT ![l] = {}]
             ELSE UNCHANGED <<file, prev>>
          /\ pc' \in {"reloadBack", "restore"}
    BY <1>6 DEF Restore, Go
  <2>2. /\ pc = "restore" /\ faults = 1 /\ faults' = 1
        /\ refs' = refs /\ up' = up /\ served' = served /\ unloaded' = unloaded
    BY <1>6, <1>1 DEF Restore, daemon, Good, Late
  <2>3. l \in Lists /\ l \in RuleFiles
    BY <1>0, Apart DEF Job
  <2>4. \A f \in RuleFiles : (file[f] # {} => file'[f] # {}) /\ (f # l => file'[f] = file[f])
    BY <1>0, <2>1, <2>3 DEF Files
  <2>5. HaveFiles' /\ Late'
    BY <1>0, <2>1, <2>2, <2>4, Apart DEF Good, HaveFiles, Late
  <2>6. FirstCopies'
    <3> SUFFICES ASSUME NEW m \in Lists, Active(Config, m), m \notin refs PROVE m \in Unfetched
      BY <1>0, <2>2 DEF FirstCopies, Active, Config
    <3>1. lists[m] # "none"
      BY Apart DEF Active, Config
    <3> QED BY <3>1 DEF Good, HaveFiles, FirstCopies
  <2>7. UpToDate'
    <3> SUFFICES ASSUME up, NEW f \in RuleFiles \ unloaded, f \notin Lists
                 PROVE  served[f] = (Loaded(refs)[f])'
      BY <2>1, <2>2 DEF UpToDate, Pending
    <3>1. ~Pending(f)
      BY <1>0, <2>2 DEF Pending, Fresh
    <3> QED BY <2>2, <2>3, <2>4, <3>1 DEF Good, UpToDate, Loaded
  <2> QED BY <2>5, <2>6, <2>7 DEF Good
<1>7. CASE ReloadBack
  <2>1. UNCHANGED disk /\ pc = "reloadBack" /\ pc' = "idle" /\ faults = 1
    BY <1>7 DEF ReloadBack, End, Good, Late
  <2>2. Reloaded
    BY <1>7, <2>1 DEF ReloadBack, Fault, Quiet
  <2> QED BY <1>3, <2>1, <2>2 DEF Reloaded
<1> QED BY <1>4, <1>5, <1>6, <1>7

LEMMA ChangeGood ==
  ASSUME TypeInv, ExplainInv, Good, Quiet, Quiet', ChangeConfig \/ DropFile \/ DropPrev
  PROVE  Good'
<1>0. /\ op \in {"add", "remove", "toggle"} /\ op' = op /\ job \in Job /\ up' = up
      /\ file \in Files /\ Manual \subseteq refs /\ Manual \subseteq refs'
      /\ pc \in {"config", "dropFile", "dropPrev"} /\ pc' \in {"dropFile", "dropPrev", "idle"}
  <2>1. Manual \subseteq refs'
    BY TypeStep DEF Next, Step, TypeInv, DiskTyped
  <2> QED BY <2>1 DEF ChangeConfig, DropFile, DropPrev, Running, daemon, GoTo, Go, End,
                      TypeInv, Shaped, DiskTyped, Memory
<1>1. faults' >= faults /\ faults' \in Nat /\ faults \in Nat /\ (faults = 1 => faults' = 1)
  <2>1. faults' >= faults
    BY Onward DEF Next, Step
  <2>2. faults' \in Nat /\ faults \in Nat
    BY TypeStep DEF Next, Step, TypeInv, Memory
  <2> QED BY <2>1, <2>2 DEF Quiet
<1>2. Late' /\ \A f : ~Fresh(f) /\ ~Pending(f) /\ ~Fresh(f)' /\ ~Pending(f)'
  BY <1>0 DEF Late, Fresh, Pending
<1>3. CASE ChangeConfig
  <2>0. pc = "config" /\ file' = file
    BY <1>3 DEF ChangeConfig
  <2>1. CASE /\ lists' = job.goal.lists /\ blocking' = job.goal.blocking
             /\ refs' = References(job.goal)
             /\ IF up /\ refs' # refs
                THEN served' = Loaded(refs') /\ unloaded' = {}
                ELSE UNCHANGED <<served, unloaded>>
    <3>1. HaveFiles'
      <4>1. \A l \in Lists : lists'[l] # "none" => lists[l] # "none" \/ (op = "add" /\ l = job.arg)
        BY <1>0, <2>0, <2>1 DEF ExplainInv, Goals
      <4> QED BY <1>0, <2>0, <4>1 DEF Good, HaveFiles
    <3>2. FirstCopies'
      <4> SUFFICES ASSUME NEW m \in Lists, Active(job.goal, m), file[m] # {}, m \notin refs' PROVE FALSE
        BY <2>0, <2>1 DEF FirstCopies, Active, Config
      <4> QED BY <2>1, ReferencesFacts, Apart
    <3>3. UpToDate'
      BY <1>0, <1>2, <2>0, <2>1 DEF Good, UpToDate, Loaded
    <3> QED BY <1>2, <3>1, <3>2, <3>3 DEF Good
  <2>2. CASE /\ UNCHANGED <<config, refs>>
             /\ \/ UNCHANGED <<served, unloaded>>
                \/ up /\ served' = Loaded(refs) /\ unloaded' = {}
    <3>1. HaveFiles' /\ FirstCopies'
      BY <1>0, <1>1, <1>2, <2>0, <2>2 DEF Good, HaveFiles, FirstCopies, Active, Config, config
    <3>2. UpToDate'
      BY <1>0, <1>2, <2>0, <2>2 DEF Good, UpToDate, Loaded
    <3> QED BY <1>2, <3>1, <3>2 DEF Good
  <2> QED BY <1>3, <2>1, <2>2 DEF ChangeConfig
<1>4. CASE DropFile \/ DropPrev
  <2>1. /\ lists' = lists /\ blocking' = blocking /\ refs' = refs
        /\ served' = served /\ unloaded' = unloaded
        /\ job.arg \in Lists /\ job.arg \in RuleFiles /\ lists[job.arg] = "none"
    BY <1>0, <1>4, Apart DEF DropFile, DropPrev, config, daemon, TypeInv, Shaped, Unlisted
  <2>2. job.arg \notin refs
    BY <2>1, Apart DEF TypeInv, Wired, Active, Config
  <2>3. \A f \in RuleFiles : (file'[f] # {} => file[f] # {}) /\ (f # job.arg => file'[f] = file[f])
    BY <1>0, <1>4, <2>1 DEF DropFile, DropPrev, Files
  <2>4. HaveFiles'
    BY <1>0, <2>1, <2>3, Apart DEF Good, HaveFiles
  <2>5. FirstCopies'
    BY <1>1, <1>2, <2>1, <2>3, Apart DEF Good, FirstCopies, Active, Config
  <2>6. UpToDate'
    BY <1>0, <1>2, <2>1, <2>2, <2>3 DEF Good, UpToDate, Loaded
  <2> QED BY <1>2, <2>4, <2>5, <2>6 DEF Good
<1> QED BY <1>3, <1>4

LEMMA WorldGood ==
  ASSUME TypeInv, Good, Quiet, Quiet', World PROVE Good'
<1>0. faults' >= faults /\ faults' \in Nat /\ faults \in Nat /\ (faults = 1 => faults' = 1)
  <2>1. faults' >= faults
    BY Onward DEF Next
  <2>2. faults' \in Nat /\ faults \in Nat
    BY TypeStep DEF Next, TypeInv, Memory
  <2> QED BY <2>1, <2>2 DEF Quiet
<1>1. ~Kill
  BY DEF Kill, Quiet, TypeInv, Memory
<1>2. UNCHANGED <<config, disk, pc, op, job>>
  BY <1>1 DEF World, DaemonStops, DaemonStarts, FeedChanges
<1>3. ~up' \/ served' = Loaded(refs) \/ UNCHANGED <<up, served, unloaded>>
  BY <1>1 DEF World, DaemonStops, DaemonStarts, FeedChanges, daemon
<1>4. HaveFiles' /\ FirstCopies' /\ Late'
  BY <1>0, <1>2 DEF Good, HaveFiles, FirstCopies, Fresh, Active, Config, Late, config, disk
<1>5. UpToDate'
  BY <1>2, <1>3 DEF Good, UpToDate, Pending, Fresh, Loaded, disk
<1> QED BY <1>4, <1>5 DEF Good

LEMMA ExplainStep == TypeInv /\ ExplainInv /\ [Next]_vars => ExplainInv'
<1> SUFFICES ASSUME TypeInv, ExplainInv, [Next]_vars PROVE ExplainInv'
  OBVIOUS
<1>1. CASE UNCHANGED vars
  BY <1>1 DEF vars, ExplainInv, Goals, Quiet, Good, HaveFiles, FirstCopies, UpToDate, Late, Pending,
              Fresh, Loaded, Active, Config
<1>2. CASE UpdateAll \/ Command
  BY <1>2, CommandGood, Onward DEF Next, ExplainInv
<1>3. CASE Step \/ World
  <2>1. Goals'
    BY <1>3, GoalsStep DEF ExplainInv
  <2>2. Quiet' => Quiet
    BY <1>3, Onward DEF Next
  <2>3. ASSUME Quiet' PROVE Good'
    BY <1>3, <2>2, <2>3, EditGood, FetchGood, UpdateGood, ChangeGood, WorldGood DEF Step, ExplainInv
  <2> QED BY <2>1, <2>3 DEF ExplainInv
<1> QED BY <1>1, <1>2, <1>3 DEF Next

\* "derived from the same files, in the same order, that unbound applies"
\* (filter.go): between commands, after at most one failure and with no rule
\* left to load, what `block explain` finds in config.yaml and the rule files
\* is what unbound answers.
THEOREM ExplainTellsTruth == Spec => []ExplainsServer
<1>1. TypeInv /\ ExplainInv => ExplainsServer
  <2> SUFFICES ASSUME TypeInv, ExplainInv, pc = "idle", up, killed = 0, unloaded = {}, faults <= 1,
                      faults = 1 => \A l \in Unfetched :
                                      file[l] # {} => l \in refs \/ lists[l] = "off",
                      NEW n \in Names
               PROVE  Explained(n) = Answered(n)
    BY DEF ExplainsServer
  <2>1. FirstCopies /\ UpToDate
    BY DEF ExplainInv, Good, Quiet
  <2>2. \A f : ~Pending(f) /\ ~Fresh(f)
    BY DEF Pending, Fresh
  <2>3. ASSUME NEW f \in RuleFiles
        PROVE  served[f] = IF Active(Config, f) THEN file[f] ELSE {}
    <3>1. served[f] = IF f \in refs THEN file[f] ELSE {}
      BY <2>1, <2>2 DEF UpToDate, Loaded
    <3>2. f \in refs => Active(Config, f)
      BY DEF TypeInv, Wired
    <3>3. ASSUME f \notin refs, Active(Config, f), file[f] # {} PROVE FALSE
      <4>1. f \in Lists
        BY <3>3 DEF TypeInv, DiskTyped, RuleFiles
      <4>2. f \in Unfetched /\ faults = 1
        BY <2>1, <2>2, <3>3, <4>1 DEF FirstCopies
      <4>3. lists[f] = "on"
        BY <3>3, <4>1, Apart DEF Active, Config
      <4> QED BY <3>3, <4>2, <4>3
    <3> QED BY <3>1, <3>2, <3>3
  <2> DEFINE rules == [f \in RuleFiles |-> IF Active(Config, f) THEN file[f] ELSE {}]
  <2>4. served = rules
    BY <2>3 DEF TypeInv, DiskTyped, Files
  <2> QED BY <2>4 DEF Explained, Answered
<1>2. Spec => []ExplainInv
  BY GoodInit, ExplainStep, TypesHold, PTL DEF Spec
<1> QED BY <1>1, <1>2, TypesHold, PTL

-----------------------------------------------------------------------------
(***************************************************************************)
(* A refresh that fails.  Until the first failure every list has what the  *)
(* update found, in its file, in the copy beside it, or in memory between  *)
(* the two; after one failure what was replaced is put back from there.    *)
(***************************************************************************)
Kept ==
  \A l \in Lists :
    IF l \in job.changed THEN before.file[l] # {} => prev[l] = before.file[l]
    ELSE IF pc = "keepPrev" /\ l = job.arg THEN job.mem = before.file[l]
    ELSE file[l] = before.file[l]

Back ==
  \A l \in Lists : before.file[l] # {} =>
    IF l \in job.changed THEN prev[l] = before.file[l] ELSE file[l] = before.file[l]

\* Every list is fetched and replaced once.
Once ==
  /\ pc \in {"fetch", "keepPrev"} => job.todo \cap job.changed = {}
  /\ pc = "keepPrev" => job.arg \notin job.todo /\ job.arg \notin job.changed
  /\ pc = "reloadBack" => job.changed = {}

FaultsSince ==
  /\ pc # "idle" => faults >= before.faults
  /\ pc \in {"restore", "reloadBack"} \/ (pc = "idle" /\ report = "failed") =>
       faults > before.faults

UndoInv ==
  op = "update" =>
    /\ Once /\ FaultsSince
    /\ pc \in {"fetch", "keepPrev", "wire", "activate"} /\ faults = before.faults => Kept
    /\ pc \in {"restore", "reloadBack"} /\ faults = before.faults + 1 => Back
    /\ RefreshUndone

\* When an update begins, everything is as it found it.
LEMMA UndoBegin ==
  ASSUME TypeInv, UpdateAll \/ Command PROVE UndoInv'
<1>1. CASE op' = "update"
  <2>1. PICK ls, forced : Update(ls, forced)
    <3>1. ~(\E r \in Rules : RuleAdd(r[1], r[2]) \/ RuleRemove(r[1], r[2]))
      BY <1>1 DEF RuleAdd, RuleRemove, Begin
    <3>2. \A l : ~ListAdd(l) /\ ~ListRemove(l) /\ \A s : ~Toggle(l, s)
      BY <1>1 DEF ListAdd, ListRemove, Toggle, Change, Begin
    <3>3. \A b : ~ToggleAll(b)
      BY <1>1 DEF ToggleAll, Begin
    <3> QED BY <3>1, <3>2, <3>3 DEF UpdateAll, Command, UpdateNamed
  <2> DEFINE j == [NoJob EXCEPT !.todo = ls, !.force = forced]
  <2>2. j.changed = {}
    BY DEF NoJob
  <2>3. /\ pc' = "fetch" /\ job' = j /\ report' = "none"
        /\ before' = [file |-> file, faults |-> faults]
        /\ faults' = faults /\ file' = file
    BY <2>1 DEF Update, Begin, disk
  <2> HIDE DEF j
  <2>4. before'.file = file /\ before'.faults = faults /\ faults \in Nat
    BY <2>3 DEF TypeInv, Memory
  <2>5. Kept' /\ Once' /\ FaultsSince' /\ RefreshUndone'
    BY <2>2, <2>3, <2>4 DEF Kept, Once, FaultsSince, RefreshUndone
  <2> QED BY <2>3, <2>5 DEF UndoInv
<1>2. CASE op' # "update"
  BY <1>2 DEF UndoInv
<1> QED BY <1>1, <1>2

\* An update that ends without a failure, or is killed.
LEMMA UndoEnd ==
  ASSUME pc' = "idle", report' # "failed" PROVE UndoInv'
BY DEF UndoInv, Once, FaultsSince, RefreshUndone

\* After a list, with what is in memory, and what it found, where it was.
LEMMA UndoNext ==
  ASSUME TypeInv, NEW j \in Job, NextList(j), op = "update", op' = op,
         j.todo \cap j.changed = {}, faults' \in Nat, faults' >= before.faults,
         faults' = before.faults =>
           \A l \in Lists :
             IF l \in j.changed THEN before.file[l] # {} => prev'[l] = before.file[l]
             ELSE file'[l] = before.file[l]
  PROVE  UndoInv'
<1>1. CASE pc' = "idle" /\ report' \in {"ok", "refused"}
  BY <1>1, UndoEnd
<1>2. CASE pc' \in {"fetch", "wire"} /\ job' = j /\ UNCHANGED <<report, before>>
  <2>1. Once' /\ FaultsSince' /\ RefreshUndone'
    BY <1>2 DEF Once, FaultsSince, RefreshUndone
  <2>2. faults' = before'.faults => Kept'
    BY <1>2 DEF Kept
  <2> QED BY <1>2, <2>1, <2>2 DEF UndoInv
<1> QED BY <1>1, <1>2, NextListCases

LEMMA UndoFetch ==
  ASSUME TypeInv, UndoInv, op = "update", Fetch \/ KeepPrev PROVE UndoInv'
<1>0. /\ pc \in {"fetch", "keepPrev"} /\ op' = op /\ job \in Job /\ file \in Files
      /\ faults \in Nat /\ faults' \in Nat /\ before.faults \in Nat
      /\ prev \in [Lists -> SUBSET Owner]
  <2>1. faults' \in Nat
    BY TypeStep DEF Next, Step, TypeInv, Memory
  <2> QED BY <2>1 DEF Fetch, KeepPrev, Running, TypeInv, DiskTyped, Memory
<1>1. /\ faults >= before.faults /\ (faults = before.faults => Kept)
      /\ job.todo \cap job.changed = {}
      /\ pc = "keepPrev" => job.arg \notin job.todo /\ job.arg \notin job.changed
  BY <1>0 DEF UndoInv, Once, FaultsSince
<1>2. faults' >= before.faults
  BY <1>0, <1>1, Onward DEF Next, Step
<1>3. CASE KeepPrev
  <2> DEFINE j == [job EXCEPT !.changed = @ \cup {job.arg}]
  <2>0. /\ pc = "keepPrev" /\ NextList(j) /\ file' = file /\ job.arg \in Lists
        /\ \/ /\ prev' = [prev EXCEPT ![job.arg] = IF job.mem # {} THEN job.mem ELSE @]
              /\ faults' = faults
           \/ faults' = faults + 1
    BY <1>3 DEF KeepPrev, TypeInv, Shaped, NoFault, Fault
  <2>1. /\ j \in Job /\ j.changed = job.changed \cup {job.arg} /\ j.todo = job.todo
    BY <1>0, <2>0 DEF Job
  <2> HIDE DEF j
  <2>2. ASSUME faults' = before.faults, NEW l \in Lists
        PROVE  IF l \in j.changed THEN before.file[l] # {} => prev'[l] = before.file[l]
               ELSE file'[l] = before.file[l]
    <3>1. /\ Kept
          /\ prev' = [prev EXCEPT ![job.arg] = IF job.mem # {} THEN job.mem ELSE @]
      BY <1>0, <1>1, <2>0, <2>2
    <3>2. CASE l = job.arg
      <4>1. job.mem = before.file[l]
        BY <1>1, <2>0, <3>1, <3>2 DEF Kept
      <4> QED BY <1>0, <2>0, <2>1, <3>1, <3>2, <4>1
    <3>3. CASE l # job.arg
      BY <1>0, <2>0, <2>1, <3>1, <3>3 DEF Kept
    <3> QED BY <3>2, <3>3
  <2> QED BY <1>0, <1>1, <1>2, <2>0, <2>1, <2>2, UndoNext
<1>4. CASE Fetch
  <2>0. pc = "fetch" /\ prev' = prev
    BY <1>4 DEF Fetch
  <2>1. PICK l \in job.todo :
          LET rest == [job EXCEPT !.todo = @ \ {l}] IN
            \/ NextList([rest EXCEPT !.problem = TRUE]) /\ UNCHANGED file
            \/ NextList(rest) /\ UNCHANGED file
            \/ /\ file' = [file EXCEPT ![l] = NewFile(l)] /\ NoFault
               /\ Go("keepPrev", [rest EXCEPT !.arg = l, !.mem = file[l]])
    BY <1>4 DEF Fetch
  <2> DEFINE rest == [job EXCEPT !.todo = @ \ {l}]
             bad == [rest EXCEPT !.problem = TRUE]
             new == [rest EXCEPT !.arg = l, !.mem = file[l]]
  <2>2. l \in Lists /\ l \notin job.changed
    BY <1>0, <1>1 DEF Job
  <2>3. /\ rest \in Job /\ rest.changed = job.changed /\ rest.todo = job.todo \ {l}
        /\ bad \in Job /\ bad.changed = job.changed /\ bad.todo = job.todo \ {l}
        /\ new.changed = job.changed /\ new.todo = job.todo \ {l}
        /\ new.arg = l /\ new.mem = file[l]
    BY <1>0 DEF Job
  <2> HIDE DEF rest, bad, new
  <2>4. CASE (NextList(rest) \/ NextList(bad)) /\ file' = file
    <3>1. PICK j \in {rest, bad} : NextList(j)
      BY <2>4
    <3>2. j \in Job /\ j.changed = job.changed /\ j.todo \cap j.changed = {}
      BY <1>1, <2>3, <3>1
    <3>3. ASSUME faults' = before.faults, NEW m \in Lists
          PROVE  IF m \in j.changed THEN before.file[m] # {} => prev'[m] = before.file[m]
                 ELSE file'[m] = before.file[m]
      <4>1. faults = before.faults
        BY <1>0, <1>1, <3>3, Onward DEF Next, Step
      <4> QED BY <1>1, <2>0, <2>4, <3>2, <4>1 DEF Kept
    <3> QED BY <1>0, <1>2, <3>1, <3>2, <3>3, UndoNext
  <2>5. CASE /\ file' = [file EXCEPT ![l] = NewFile(l)] /\ NoFault
             /\ Go("keepPrev", new)
    <3>1. /\ pc' = "keepPrev" /\ job' = new /\ UNCHANGED <<report, before, faults>>
          /\ \A m \in Lists \ {l} : file'[m] = file[m]
      BY <1>0, <2>5, Apart DEF Go, NoFault, Files
    <3>2. Once' /\ FaultsSince' /\ RefreshUndone'
      BY <1>0, <1>1, <2>2, <2>3, <3>1 DEF Once, FaultsSince, RefreshUndone
    <3>3. faults' = before'.faults => Kept'
      BY <1>1, <2>0, <2>2, <2>3, <3>1 DEF Kept
    <3> QED BY <3>1, <3>2, <3>3 DEF UndoInv
  <2> QED BY <2>1, <2>4, <2>5 DEF rest, bad, new
<1> QED BY <1>3, <1>4

LEMMA UndoBack ==
  ASSUME TypeInv, UndoInv, op = "update", Wire \/ Activate \/ Restore \/ ReloadBack PROVE UndoInv'
<1>0. /\ pc \in {"wire", "activate", "restore", "reloadBack"} /\ op' = op /\ job \in Job
      /\ file \in Files /\ prev \in [Lists -> SUBSET Owner]
      /\ faults \in Nat /\ before.faults \in Nat /\ faults >= before.faults
  BY DEF Wire, Activate, Restore, ReloadBack, Running, TypeInv, DiskTyped, Memory, UndoInv, FaultsSince
<1>1. ASSUME pc \in {"wire", "activate"}, pc' = "activate", UNCHANGED <<file, prev, job, before, faults>>
      PROVE  UndoInv'
  <2>1. Once' /\ FaultsSince' /\ RefreshUndone'
    BY <1>0, <1>1 DEF Once, FaultsSince, RefreshUndone
  <2>2. faults = before.faults => Kept'
    BY <1>0, <1>1 DEF UndoInv, Kept
  <2> QED BY <1>1, <2>1, <2>2 DEF UndoInv
<1>2. ASSUME pc \in {"wire", "activate"}, pc' = "restore", UNCHANGED <<file, prev, job, before>>,
             faults' = faults + 1
      PROVE  UndoInv'
  <2>1. Once' /\ FaultsSince' /\ RefreshUndone'
    BY <1>0, <1>2 DEF Once, FaultsSince, RefreshUndone
  <2>2. faults' = before'.faults + 1 => Back'
    <3>1. faults' = before'.faults + 1 => Kept
      BY <1>0, <1>2 DEF UndoInv
    <3> QED BY <1>0, <1>2, <3>1 DEF Kept, Back
  <2> QED BY <1>2, <2>1, <2>2 DEF UndoInv
<1>3. CASE Wire
  <2>1. file' = file /\ prev' = prev /\ pc = "wire"
    BY <1>3 DEF Wire
  <2>2. \/ pc' = "activate" /\ UNCHANGED <<job, before, faults>>
        \/ pc' = "restore" /\ UNCHANGED <<job, before>> /\ faults' = faults + 1
        \/ pc' = "idle" /\ report' \in {"refused", "ok"}
    BY <1>3 DEF Wire, GoTo, Go, End, NoFault, Fault
  <2> QED BY <1>1, <1>2, <2>1, <2>2, UndoEnd
<1>4. CASE Activate
  <2>1. file' = file /\ prev' = prev /\ pc = "activate"
    BY <1>4 DEF Activate, disk
  <2>2. \/ pc' = "restore" /\ UNCHANGED <<job, before>> /\ faults' = faults + 1
        \/ pc' = "idle" /\ report' \in {"refused", "ok"}
    BY <1>4 DEF Activate, GoTo, Go, End, Fault
  <2> QED BY <1>2, <2>1, <2>2, UndoEnd
<1>5. CASE Restore
  <2>1. PICK l \in job.changed :
          /\ IF prev[l] # {}
             THEN /\ file' = [file EXCEPT ![l] = prev[l]]
                  /\ prev' = [prev EXCEPT ![l] = {}]
             ELSE UNCHANGED <<file, prev>>
          /\ Go(IF job.changed = {l} THEN "reloadBack" ELSE "restore",
                [job EXCEPT !.changed = @ \ {l}])
    BY <1>5 DEF Restore
  <2> DEFINE j == [job EXCEPT !.changed = @ \ {l}]
  <2>2. l \in Lists /\ l \in RuleFiles /\ j.changed = job.changed \ {l}
    BY <1>0, Apart DEF Job
  <2>3. /\ pc = "restore" /\ faults' = faults /\ before' = before /\ job' = j
        /\ pc' = IF job.changed = {l} THEN "reloadBack" ELSE "restore"
    BY <1>5, <2>1 DEF Restore, Go
  <2> HIDE DEF j
  <2>4. faults > before.faults
    BY <2>3 DEF UndoInv, FaultsSince
  <2>5. Once' /\ FaultsSince' /\ RefreshUndone'
    BY <1>0, <2>2, <2>3, <2>4 DEF Once, FaultsSince, RefreshUndone
  <2>6. faults = before.faults + 1 => Back'
    <3> SUFFICES ASSUME Back, NEW m \in Lists, before.file[m] # {}
                 PROVE  IF m \in j.changed THEN prev'[m] = before.file[m]
                        ELSE file'[m] = before.file[m]
      BY <1>0, <2>3 DEF UndoInv, Back
    <3>1. CASE m = l
      BY <1>0, <2>1, <2>2, <3>1 DEF Back, Files
    <3>2. CASE m # l
      BY <1>0, <2>1, <2>2, <3>2, Apart DEF Back, Files
    <3> QED BY <3>1, <3>2
  <2> QED BY <2>3, <2>5, <2>6 DEF UndoInv
<1>6. CASE ReloadBack
  <2>1. /\ pc = "reloadBack" /\ pc' = "idle" /\ report' = "failed" /\ before' = before
        /\ file' = file /\ refs' = refs
        /\ (faults' = faults /\ served' = Loaded(refs)) \/ faults' = faults + 1
    BY <1>6 DEF ReloadBack, End, NoFault, Fault, Reloaded, disk
  <2>2. faults > before.faults /\ job.changed = {}
    BY <2>1 DEF UndoInv, FaultsSince, Once
  <2>3. RefreshUndone'
    <3> SUFFICES ASSUME faults' = before.faults + 1, NEW l \in Lists
                 PROVE  /\ before.file[l] # {} => file[l] = before.file[l]
                        /\ l \in refs => served'[l] = file[l]
      BY <2>1 DEF RefreshUndone
    <3>1. faults = before.faults + 1 /\ served' = Loaded(refs)
      BY <1>0, <2>1, <2>2
    <3>2. Back
      BY <2>1, <3>1 DEF UndoInv
    <3> QED BY <2>2, <3>1, <3>2, Apart DEF Back, Loaded
  <2>4. Once' /\ FaultsSince'
    BY <1>0, <2>1, <2>2 DEF Once, FaultsSince
  <2> QED BY <2>1, <2>3, <2>4 DEF UndoInv
<1> QED BY <1>3, <1>4, <1>5, <1>6

LEMMA UndoWorld ==
  ASSUME TypeInv, UndoInv, op = "update", World PROVE UndoInv'
<1>0. faults \in Nat /\ before.faults \in Nat
  BY DEF TypeInv, Memory
<1>1. CASE Kill
  BY <1>1, UndoEnd DEF Kill
<1>2. CASE DaemonStops
  <2>1. UNCHANGED <<file, prev, refs, pc, op, job, report, before>> /\ faults' = faults + 1
    BY <1>2 DEF DaemonStops, disk, Fault
  <2>2. FaultsSince' /\ Once'
    BY <1>0, <2>1 DEF UndoInv, FaultsSince, Once
  <2>3. ~(pc' \in {"fetch", "keepPrev", "wire", "activate"} /\ faults' = before'.faults)
    BY <1>0, <2>1 DEF UndoInv, FaultsSince
  <2>4. ~(pc' \in {"restore", "reloadBack"} /\ faults' = before'.faults + 1)
    BY <1>0, <2>1 DEF UndoInv, FaultsSince
  <2>5. RefreshUndone'
    BY <1>0, <2>1 DEF UndoInv, FaultsSince, RefreshUndone
  <2> QED BY <2>2, <2>3, <2>4, <2>5 DEF UndoInv
<1>3. CASE DaemonStarts \/ \E l \in Lists : FeedChanges(l)
  <2>1. /\ UNCHANGED <<file, prev, refs, pc, op, job, report, before, faults>>
        /\ served' = served \/ served' = Loaded(refs)
    BY <1>3 DEF DaemonStarts, FeedChanges, disk, daemon, counts
  <2>2. RefreshUndone'
    BY <2>1, Apart DEF UndoInv, RefreshUndone, Loaded
  <2>3. /\ FaultsSince' = FaultsSince /\ Once' = Once /\ Kept' = Kept /\ Back' = Back
    BY <2>1 DEF FaultsSince, Once, Kept, Back
  <2> QED BY <2>1, <2>2, <2>3 DEF UndoInv
<1> QED BY <1>1, <1>2, <1>3 DEF World

LEMMA UndoStep == TypeInv /\ UndoInv /\ [Next]_vars => UndoInv'
<1> SUFFICES ASSUME TypeInv, UndoInv, [Next]_vars PROVE UndoInv'
  OBVIOUS
<1>1. CASE UNCHANGED vars
  BY <1>1 DEF vars, UndoInv, Once, FaultsSince, Kept, Back, RefreshUndone
<1>2. CASE UpdateAll \/ Command
  BY <1>2, UndoBegin
<1>3. CASE op # "update" /\ (Step \/ World)
  <2>1. op' = op
    BY <1>3 DEF Step, World, Present, WriteRules, ReloadRules, Fetch, KeepPrev, Wire, Activate,
                Restore, ReloadBack, ChangeConfig, DropFile, DropPrev, Running, Kill, DaemonStops,
                DaemonStarts, FeedChanges
  <2> QED BY <1>3, <2>1 DEF UndoInv
<1>4. CASE op = "update" /\ Step
  <2>1. pc \notin {"present", "writeRules", "reloadRules", "config", "dropFile", "dropPrev"}
    BY <1>4 DEF TypeInv, Shaped
  <2>2. Fetch \/ KeepPrev \/ Wire \/ Activate \/ Restore \/ ReloadBack
    BY <1>4, <2>1 DEF Step, Present, WriteRules, ReloadRules, ChangeConfig, DropFile, DropPrev
  <2> QED BY <1>4, <2>2, UndoFetch, UndoBack
<1>5. CASE op = "update" /\ World
  BY <1>5, UndoWorld
<1> QED BY <1>1, <1>2, <1>3, <1>4, <1>5 DEF Next

\* "if unbound does not come back with the new data the previous files are
\* restored" (CHANGELOG.md): the copies Update keeps are enough to put every
\* list back after one failure, wherever in the refresh it was, and unbound
\* then answers from them.
THEOREM RefreshIsUndone == Spec => []RefreshUndone
<1>1. Init => UndoInv
  BY DEF Init, UndoInv
<1>2. UndoInv => RefreshUndone
  BY DEF UndoInv, RefreshUndone
<1> QED BY <1>1, <1>2, UndoStep, TypesHold, PTL DEF Spec
=============================================================================
