------------------------------ MODULE Replica -------------------------------
(***************************************************************************)
(* One read-only replica of a zone hosted at a provider, and the local     *)
(* records laid over it (cmd/minidns/zone.go, overlay.go, `record` in      *)
(* localzone.go, Merge in internal/zones).                                 *)
(*                                                                         *)
(* Without an overlay the served zone file is the provider's data.  With   *)
(* one, the provider's data is kept beside it, the local records in a file *)
(* of their own, and the served file is merged from the two whenever       *)
(* either changes.  Every command replaces these files one after the other *)
(* and has unbound reload the zone; each write and each reload can fail,   *)
(* and the command can be killed between any two.  The commands exclude    *)
(* each other (the state lock); a timer keeps starting `cloud zone sync`.  *)
(***************************************************************************)
EXTENDS ZoneRecords, Sequences

CONSTANTS
  Apex,         \* the zone
  Versions,     \* what the provider has, in the order it comes to have it
  LocalRecords, \* the overlay records to add and remove
  MaxCommands, MaxFaults, MaxKills   \* bounds of a run

\* A sync takes no data that cannot be served (SyncRefused).
ASSUME ReplicaAssumption ==
  /\ Versions \in Seq([serial: Nat, recs: SUBSET Record]) /\ Len(Versions) > 0
  /\ \A v \in 1 .. Len(Versions) : Servable(Versions[v].recs, Apex)
  /\ LocalRecords \subseteq Record

\* A zone file: its serial, and its records, apart when they come from a
\* merge; the text of a merged file is never that of a provider's copy.
Plain(v) == [serial |-> v.serial, from |-> "provider", base |-> v.recs, ov |-> {}]
Absent == [serial |-> 0, from |-> "nowhere", base |-> {}, ov |-> {}]
Recs(f) == f.base \cup f.ov

VARIABLES
  mirrored,    \* config.yaml: the zone is in CloudZones,
  overlayOn,   \* with its overlay enabled
  zoneFile,    \* the zone file unbound reads
  upstream,    \* the provider's copy under an overlay
  overlay,     \* the overlay records
  overlayPrev, \* the ones the last save replaced
  up, served,  \* unbound: running, and the file it has loaded
  provider,    \* the provider's version
  pc, op,      \* the running command: its next step, and which one it is
  got,         \* the data it fetched, or the served file it has read
  mem,         \* the overlay records it is going to save
  report,      \* what the last command reported
  before,      \* history: what was in the files when it began
  promised,    \* history: the overlay records of commands that succeeded
  killed, commands, faults   \* kills, commands and faults so far

config == <<mirrored, overlayOn>>
files == <<zoneFile, upstream, overlay, overlayPrev>>
daemon == <<up, served>>
history == <<before, promised>>
counts == <<killed, commands, faults>>
vars == <<mirrored, overlayOn, zoneFile, upstream, overlay, overlayPrev, up,
          served, provider, pc, op, got, mem, report, before, promised,
          killed, commands, faults>>

TypeOK ==
  /\ mirrored \in BOOLEAN /\ overlayOn \in BOOLEAN /\ (overlayOn => mirrored)
  /\ \A f \in {zoneFile, upstream, served, got} :
       /\ f.serial \in Nat /\ Recs(f) \in SUBSET Record
       /\ f # Absent => Servable(Recs(f), Apex)
  /\ overlay \in SUBSET Record /\ overlayPrev \in SUBSET Record
  /\ provider \in 1 .. Len(Versions)
  /\ report \in {"none", "ok", "failed"}
  /\ mirrored => zoneFile # Absent   \* or unbound would not start

Init ==
  /\ mirrored = FALSE /\ overlayOn = FALSE
  /\ zoneFile = Absent /\ upstream = Absent
  /\ overlay = {} /\ overlayPrev = {}
  /\ up = TRUE /\ served = Absent
  /\ provider = 1
  /\ pc = "idle" /\ op = "none" /\ got = Absent /\ mem = {}
  /\ report = "none"
  /\ before = [recs |-> {}, overlay |-> {}, sound |-> FALSE] /\ promised = {}
  /\ killed = 0 /\ commands = 0 /\ faults = 0

-----------------------------------------------------------------------------
\* rebuildReplica

Merge == Merged(Recs(upstream), overlay, Apex)

RebuildRefused ==
  \/ upstream = Absent
  \/ MergeRefused(overlay, Apex)
  \/ ~Servable(Merge, Apex)

\* The provider's serial when that is ahead, otherwise one more than before.
Rebuilt ==
  [serial |-> IF upstream.serial > zoneFile.serial THEN upstream.serial
              ELSE zoneFile.serial + 1,
   from |-> "merge", base |-> Merge \ overlay, ov |-> overlay]

\* The served file is the merge of the two already: it is left as it is.
InStep == [zoneFile EXCEPT !.serial = 0] = [Rebuilt EXCEPT !.serial = 0]

-----------------------------------------------------------------------------
\* Beginning and ending a command

Fault == faults < MaxFaults /\ faults' = faults + 1
NoFault == UNCHANGED faults

Begin(name, step) ==
  /\ pc = "idle"
  /\ pc' = step /\ op' = name
  /\ report' = "none"
  /\ before' = [recs |-> Recs(zoneFile), overlay |-> overlay,
                sound |-> (overlayOn => InStep) /\ (up => served = zoneFile)]
  /\ UNCHANGED <<config, files, daemon, provider, killed>>

Counted == commands < MaxCommands /\ commands' = commands + 1

Succeed ==
  /\ pc' = "idle" /\ report' = "ok"
  /\ promised' = IF op = "edit" THEN mem ELSE promised

Fail == pc' = "idle" /\ report' = "failed" /\ UNCHANGED promised

GoTo(step) == pc' = step /\ UNCHANGED <<report, promised>>

\* What every step of a running command leaves alone.
Running ==
  UNCHANGED <<provider, op, got, mem, before, killed, commands>>

(***************************************************************************)
(* cloud zone sync, by hand or by the timer.  A provider that does not     *)
(* answer, or answers with data that cannot be served, changes nothing.    *)
(***************************************************************************)
Sync ==
  /\ mirrored
  /\ Begin("sync", IF overlayOn THEN "keepUpstream" ELSE "replace")
  /\ got' = Plain(Versions[provider])
  /\ UNCHANGED <<mem, promised, commands, faults>>

SyncRefused ==
  /\ pc = "idle" /\ mirrored /\ Fault
  /\ report' = "failed" /\ op' = "sync"
  /\ UNCHANGED <<config, files, daemon, provider, pc, got, mem, history,
                 killed, commands>>

CloudZoneAdd ==
  /\ ~mirrored /\ Counted
  /\ Begin("add", "replace")
  /\ got' = Plain(Versions[provider])
  /\ UNCHANGED <<mem, promised, faults>>

\* Mutant: the file first, the configuration second.
RemoveFileFirst ==
  /\ mirrored /\ Counted
  /\ Begin("remove", "dropFile")
  /\ UNCHANGED <<got, mem, promised, faults>>

CloudZoneRemove ==
  /\ mirrored /\ Counted
  /\ Begin("remove", "config")
  /\ UNCHANGED <<got, mem, promised, faults>>

OverlayEnable ==
  /\ mirrored /\ ~overlayOn /\ Counted
  /\ Begin("enable", "keepUpstream")
  /\ got' = zoneFile
  /\ UNCHANGED <<mem, promised, faults>>

\* With --force, if there are records.  Without a provider's copy (an
\* earlier attempt has removed it) the served file stays.
OverlayDisable ==
  /\ overlayOn /\ Counted
  /\ Begin("disable", IF upstream = Absent THEN "dropOverlay" ELSE "restore")
  /\ UNCHANGED <<got, mem, promised, faults>>

\* record add and record remove on the replica.
OverlayRecord(r) ==
  /\ overlayOn /\ Counted
  /\ \/ ~AddRefused(overlay, r, Apex, TRUE) /\ r \notin overlay
        /\ mem' = Added(overlay, r)
     \/ ~RemoveRefused(overlay, r.name, r.type, {r.value}, Apex, TRUE)
        /\ mem' = Removed(overlay, r.name, r.type, {r.value})
  /\ Begin("edit", "saveOverlay")
  /\ UNCHANGED <<got, promised, faults>>

-----------------------------------------------------------------------------
\* Their steps

\* syncZone without an overlay: unchanged data is not written, nor reloaded.
Replace ==
  /\ pc = "replace"
  /\ \/ zoneFile = got /\ NoFault /\ UNCHANGED zoneFile
        /\ IF op = "add" THEN GoTo("config") ELSE Succeed
     \/ zoneFile # got /\ NoFault /\ zoneFile' = got /\ GoTo("reload")
     \/ zoneFile # got /\ Fault /\ UNCHANGED zoneFile /\ Fail
  /\ Running
  /\ UNCHANGED <<config, upstream, overlay, overlayPrev, daemon>>

\* Mutant: a provider's copy that is there is not replaced.
KeepFirstUpstream ==
  /\ pc = "keepUpstream"
  /\ NoFault /\ GoTo("merge")
  /\ upstream' = IF upstream = Absent THEN got ELSE upstream
  /\ Running
  /\ UNCHANGED <<config, zoneFile, overlay, overlayPrev, daemon>>

\* syncOverlaid and overlay enable: the provider's copy, beside the served one.
KeepUpstream ==
  /\ pc = "keepUpstream"
  /\ \/ NoFault /\ upstream' = got /\ GoTo("merge")
     \/ /\ op = "enable" \/ upstream # got   \* the same data is not written
        /\ Fault /\ UNCHANGED upstream /\ Fail
  /\ Running
  /\ UNCHANGED <<config, zoneFile, overlay, overlayPrev, daemon>>

\* After the merge: sync reloads, enable and record reload and verify.
AfterMerge ==
  CASE op = "sync" -> GoTo("reload")
    [] op = "enable" -> GoTo(IF up THEN "activate" ELSE "config")
    [] op = "edit" -> IF up THEN GoTo("activate") ELSE Succeed

MergeFiles ==
  /\ pc = "merge"
  /\ \/ /\ ~RebuildRefused /\ ~InStep
        /\ zoneFile' = Rebuilt
        /\ AfterMerge
        /\ NoFault /\ UNCHANGED overlay
     \/ /\ ~RebuildRefused /\ InStep
        /\ IF op = "enable" THEN AfterMerge ELSE Succeed
        /\ NoFault /\ UNCHANGED <<zoneFile, overlay>>
     \/ /\ IF RebuildRefused THEN NoFault ELSE ~InStep /\ Fault
        /\ CASE op = "sync" -> Fail /\ UNCHANGED overlay
             [] op = "enable" -> GoTo("putBack") /\ UNCHANGED overlay
             [] op = "edit" -> Fail /\ overlay' = overlayPrev
        /\ UNCHANGED zoneFile
  /\ Running
  /\ UNCHANGED <<config, upstream, overlayPrev, daemon>>

\* ReloadZone, which nobody verifies: unbound loads the file, refuses, or
\* accepts and goes on serving what it had.  The zone of `add` it does not
\* know yet.
ReloadZone ==
  /\ pc = "reload"
  /\ LET next == CASE op = "sync" -> Succeed
                   [] op = "add" -> GoTo("config")
                   [] op = "disable" -> GoTo("dropOverlay")
     IN \/ served' = (IF up /\ mirrored THEN zoneFile ELSE served) /\ next /\ NoFault
        \/ Fault /\ up /\ UNCHANGED served /\ (next \/ Fail)
  /\ Running
  /\ UNCHANGED <<config, files, up>>

\* reloadAndVerify: it succeeds when unbound answers with the new serial.
Activate ==
  /\ pc = "activate"
  /\ \/ /\ up /\ served' = zoneFile /\ NoFault
        /\ IF op = "enable" THEN GoTo("config") ELSE Succeed
     \/ /\ IF up THEN Fault /\ served' \in {served, zoneFile}
           ELSE NoFault /\ UNCHANGED served
        /\ GoTo(IF op = "enable" THEN "putBack" ELSE "undoOverlay")
  /\ Running
  /\ UNCHANGED <<config, files, up>>

\* enable: the served file as it was, no provider's copy, loaded again.
PutBack ==
  /\ pc = "putBack"
  /\ zoneFile' = got
  /\ GoTo("dropUpstream")
  /\ Running
  /\ UNCHANGED <<config, upstream, overlay, overlayPrev, daemon, faults>>

\* Mutant: the zone is loaded again, but not merged.
SaveWithoutMerge ==
  /\ pc = "saveOverlay"
  /\ overlay' = mem /\ overlayPrev' = overlay
  /\ GoTo("activate")
  /\ Running
  /\ UNCHANGED <<config, zoneFile, upstream, daemon, faults>>

SaveOverlay ==
  /\ pc = "saveOverlay"
  /\ \/ NoFault /\ overlay' = mem /\ overlayPrev' = overlay /\ GoTo("merge")
     \/ Fault /\ UNCHANGED overlay /\ overlayPrev' \in {overlay, overlayPrev} /\ Fail
  /\ Running
  /\ UNCHANGED <<config, zoneFile, upstream, daemon>>

\* Mutant: the served file is put back, the overlay is not.
KeepOverlay ==
  /\ pc = "undoOverlay"
  /\ GoTo("undoMerge")
  /\ Running
  /\ UNCHANGED <<config, files, daemon, faults>>

\* undoZone: the records of before, merged again, loaded again; what fails on
\* the way is not reported.
UndoOverlay ==
  /\ pc = "undoOverlay"
  /\ overlay' = overlayPrev
  /\ GoTo("undoMerge")
  /\ Running
  /\ UNCHANGED <<config, zoneFile, upstream, overlayPrev, daemon, faults>>

\* Mutant: the overlay is put back, the served file is not.
UndoWithoutMerge ==
  /\ pc = "undoMerge"
  /\ GoTo("reloadBack")
  /\ Running
  /\ UNCHANGED <<config, files, daemon, faults>>

UndoMerge ==
  /\ pc = "undoMerge"
  /\ \/ /\ zoneFile' = (IF RebuildRefused \/ InStep THEN zoneFile ELSE Rebuilt)
        /\ NoFault
     \/ Fault /\ UNCHANGED zoneFile
  /\ GoTo("reloadBack")
  /\ Running
  /\ UNCHANGED <<config, upstream, overlay, overlayPrev, daemon>>

ReloadBack ==
  /\ pc = "reloadBack"
  /\ \/ served' = (IF up THEN zoneFile ELSE served) /\ NoFault
     \/ up /\ Fault /\ UNCHANGED served
  /\ Fail
  /\ Running
  /\ UNCHANGED <<config, files, up>>

\* dropOverlay: the provider's copy served again, then no overlay state.
Restore ==
  /\ pc = "restore"
  /\ \/ NoFault /\ zoneFile' = upstream /\ GoTo("reload")
     \/ Fault /\ UNCHANGED zoneFile /\ Fail
  /\ Running
  /\ UNCHANGED <<config, upstream, overlay, overlayPrev, daemon>>

DropOverlay ==
  /\ pc = "dropOverlay"
  /\ overlay' = {} /\ overlayPrev' = {}
  /\ promised' = {}
  /\ IF op = "disable" THEN pc' = "dropUpstream" /\ UNCHANGED report
     ELSE pc' = "idle" /\ report' = "ok"
  /\ Running
  /\ UNCHANGED <<config, zoneFile, upstream, daemon, faults>>

DropUpstream ==
  /\ pc = "dropUpstream"
  /\ upstream' = Absent
  /\ GoTo(CASE op = "disable" -> "config"
            [] op = "enable" -> "reloadBack"
            [] op = "remove" -> "dropOverlay")
  /\ Running
  /\ UNCHANGED <<config, zoneFile, overlay, overlayPrev, daemon, faults>>

\* remove, after the config; add, when the config was not accepted.
DropFile ==
  /\ pc = "dropFile"
  /\ zoneFile' = Absent
  /\ IF op = "remove" THEN GoTo("dropUpstream") ELSE Fail
  /\ Running
  /\ UNCHANGED <<config, upstream, overlay, overlayPrev, daemon, faults>>

\* enable and disable save config.yaml; add and remove change the running
\* configuration as well, wholly or (ConfigTransaction) not at all.
ChangeConfig ==
  /\ pc = "config"
  /\ \/ /\ NoFault
        /\ mirrored' = (op # "remove")
        /\ overlayOn' = (op = "enable")
        /\ served' = CASE op = "remove" -> Absent
                       [] op = "add" /\ up -> zoneFile
                       [] OTHER -> served
        /\ IF op = "remove" THEN GoTo("dropFile") ELSE Succeed
     \/ /\ Fault
        /\ CASE op = "enable" -> GoTo("putBack")
             [] op = "add" -> GoTo("dropFile")
             [] OTHER -> Fail
        /\ UNCHANGED <<config, served>>
  /\ Running
  /\ UNCHANGED <<files, up>>

-----------------------------------------------------------------------------
\* The rest of the world

Kill ==
  /\ pc # "idle" /\ killed < MaxKills
  /\ killed' = killed + 1
  /\ pc' = "idle" /\ report' = "none"
  /\ UNCHANGED <<config, files, daemon, provider, op, got, mem, history,
                 commands, faults>>

ProviderEdits ==
  /\ provider < Len(Versions)
  /\ provider' = provider + 1
  /\ UNCHANGED <<config, files, daemon, pc, op, got, mem, report, history, counts>>

DaemonStops ==
  /\ up /\ Fault
  /\ up' = FALSE /\ served' = Absent
  /\ UNCHANGED <<config, files, provider, pc, op, got, mem, report, history,
                 killed, commands>>

DaemonStarts ==
  /\ ~up
  /\ up' = TRUE /\ served' = IF mirrored THEN zoneFile ELSE Absent
  /\ UNCHANGED <<config, files, provider, pc, op, got, mem, report, history,
                 counts>>

Command ==
  \/ SyncRefused \/ CloudZoneAdd \/ CloudZoneRemove
  \/ OverlayEnable \/ OverlayDisable
  \/ \E r \in LocalRecords : OverlayRecord(r)

Step ==
  \/ Replace \/ KeepUpstream \/ MergeFiles \/ ReloadZone \/ Activate
  \/ PutBack \/ SaveOverlay \/ UndoOverlay \/ UndoMerge \/ ReloadBack
  \/ Restore \/ DropOverlay \/ DropUpstream \/ DropFile \/ ChangeConfig

Next ==
  \/ Sync \/ Command \/ Step
  \/ Kill \/ ProviderEdits \/ DaemonStops \/ DaemonStarts

Spec == Init /\ [][Next]_vars

\* A command that runs goes on, and the timer keeps starting a sync.
FairSpec == Spec /\ WF_vars(Step) /\ WF_vars(Sync)

-----------------------------------------------------------------------------
\* What the commands promise

(***************************************************************************)
(* A command that succeeded leaves the served file in step with what it is *)
(* made from, whatever was killed before it: the merge of the provider's   *)
(* copy and the overlay while that is enabled.  Without kills there is     *)
(* otherwise nothing but a version of the provider's.                      *)
(***************************************************************************)
SuccessMerges ==
  pc = "idle" /\ report = "ok" /\ mirrored =>
    /\ overlayOn => upstream # Absent /\ InStep
    /\ ~overlayOn /\ killed = 0 =>
         /\ zoneFile \in {Plain(Versions[v]) : v \in 1 .. provider}
         /\ upstream = Absent /\ overlay = {}

(***************************************************************************)
(* The overlay survives everything but its removal: between commands the   *)
(* overlay records are the ones of the commands that succeeded, whatever   *)
(* the provider changed, syncs merged or failed changes took back.         *)
(***************************************************************************)
LocalRecordsKept ==
  pc = "idle" /\ killed = 0 /\ overlayOn => overlay = promised

\* A failed command has put back the records that were served.
UndoneBy(ops) ==
  pc = "idle" /\ report = "failed" /\ op \in ops /\ faults = 1 /\ before.sound =>
    /\ overlay = before.overlay
    /\ Recs(zoneFile) = before.recs
    /\ up => served = zoneFile

(***************************************************************************)
(* "could not enable the overlay (nothing was changed)", "previous records *)
(* restored" (overlay.go): after one failure, of any step, the files and   *)
(* unbound hold the records they held before.                              *)
(***************************************************************************)
FailureUndone == UndoneBy({"enable", "edit"})

(***************************************************************************)
(* While syncs keep coming, whatever was killed or failed, the served file *)
(* ends as the provider's current version with the overlay over it.        *)
(***************************************************************************)
FilesConverge ==
  <>[](mirrored =>
         IF overlayOn THEN upstream = Plain(Versions[provider]) /\ InStep
         ELSE zoneFile = Plain(Versions[provider]))
=============================================================================
