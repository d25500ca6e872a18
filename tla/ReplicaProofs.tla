---------------------------- MODULE ReplicaProofs ----------------------------
(***************************************************************************)
(* Proofs about Replica, for any zone, any versions of the provider's that *)
(* can be served, any local records and any number of commands, faults and *)
(* kills.                                                                  *)
(***************************************************************************)
EXTENDS Replica, TLAPS

-----------------------------------------------------------------------------
(* Types, and where a command is.                                          *)

Origins == {"nowhere", "provider", "merge"}
ZoneFiles == [serial: Nat, from: Origins, base: SUBSET Record, ov: SUBSET Record]

\* A zone file that unbound can load; a merge holds nothing of the apex that
\* is the provider's.
Sound(f) ==
  /\ f \in ZoneFiles
  /\ f # Absent => Servable(Recs(f), Apex)
  /\ f.from = "merge" => ~MergeRefused(f.ov, Apex)

FilesTyped ==
  /\ Sound(zoneFile) /\ Sound(upstream) /\ Sound(got) /\ Sound(served)
  /\ overlay \in SUBSET Record /\ overlayPrev \in SUBSET Record /\ mem \in SUBSET Record
  /\ provider \in 1 .. Len(Versions)
  /\ faults \in Nat /\ killed \in Nat

\* The steps of each command.
Steps(o) ==
  CASE o = "sync" -> {"replace", "keepUpstream", "merge", "reload"}
    [] o = "add" -> {"replace", "reload", "config", "dropFile"}
    [] o = "remove" -> {"config", "dropFile", "dropUpstream", "dropOverlay"}
    [] o = "enable" -> {"keepUpstream", "merge", "activate", "config", "putBack",
                        "dropUpstream", "reloadBack"}
    [] o = "disable" -> {"restore", "reload", "dropOverlay", "dropUpstream", "config"}
    [] o = "edit" -> {"saveOverlay", "merge", "activate", "undoOverlay", "undoMerge",
                      "reloadBack"}
    [] OTHER -> {}

Ops == {"none", "sync", "add", "remove", "enable", "disable", "edit"}

\* How config.yaml has the zone at every step of a command.
Shape ==
  /\ mirrored \in BOOLEAN /\ overlayOn \in BOOLEAN /\ (overlayOn => mirrored)
  /\ op \in Ops /\ report \in {"none", "ok", "failed"}
  /\ op \in {"enable", "disable", "edit"} => mirrored
  /\ pc # "idle" =>
       /\ pc \in Steps(op)
       /\ op = "sync" => /\ mirrored
                         /\ pc \in {"keepUpstream", "merge"} => overlayOn
                         /\ pc = "replace" => ~overlayOn
       /\ op = "add" => ~mirrored
       /\ op = "enable" => ~overlayOn
       /\ op \in {"disable", "edit"} => overlayOn
       /\ op = "remove" => (mirrored <=> pc = "config")

\* What must be there at a step that has unbound read it.
Present ==
  /\ mirrored => zoneFile # Absent
  /\ pc \in {"keepUpstream", "replace", "putBack"} => got # Absent
  /\ pc # "idle" /\ op = "enable" => got # Absent
  /\ pc = "restore" => upstream # Absent
  /\ op = "add" /\ pc \in {"reload", "config"} => zoneFile # Absent

TypeInv == FilesTyped /\ Shape /\ Present

LEMMA AbsentSound == Sound(Absent)
<1>1. /\ Absent.serial \in Nat /\ Absent.from \in Origins
      /\ Absent.base \in SUBSET Record /\ Absent.ov \in SUBSET Record
  BY DEF Absent, Origins
<1>2. Absent \in ZoneFiles /\ Absent.from # "merge"
  BY <1>1 DEF Absent, ZoneFiles
<1> QED BY <1>2 DEF Sound

\* The data a sync fetches.
LEMMA PlainSound ==
  ASSUME NEW v \in 1 .. Len(Versions)
  PROVE  Sound(Plain(Versions[v])) /\ Plain(Versions[v]) # Absent
<1>1. Versions[v] \in [serial: Nat, recs: SUBSET Record] /\ Servable(Versions[v].recs, Apex)
  <2> DEFINE T == [serial: Nat, recs: SUBSET Record]
  <2>1. Versions \in Seq(T) /\ Servable(Versions[v].recs, Apex)
    BY ReplicaAssumption
  <2> HIDE DEF T
  <2>2. Versions[v] \in T
    BY <2>1
  <2> QED BY <2>1, <2>2 DEF T
<1> DEFINE p == Plain(Versions[v])
<1>2. p = [serial |-> Versions[v].serial, from |-> "provider",
           base |-> Versions[v].recs, ov |-> {}]
  BY DEF Plain
<1>3. p \in ZoneFiles /\ p.from # "merge"
  BY <1>1, <1>2 DEF ZoneFiles, Origins
<1>4. Recs(p) = Versions[v].recs
  BY <1>2 DEF Recs
<1>5. p # Absent
  BY <1>2 DEF Absent
<1> HIDE DEF p
<1>6. Sound(p)
  BY <1>1, <1>3, <1>4 DEF Sound
<1> QED BY <1>5, <1>6 DEF p

\* What rebuildReplica writes.
LEMMA RebuiltSound ==
  ASSUME Sound(zoneFile), Sound(upstream), overlay \in SUBSET Record, ~RebuildRefused
  PROVE  Sound(Rebuilt) /\ Rebuilt # Absent /\ Recs(Rebuilt) = Merge
<1> DEFINE s == IF upstream.serial > zoneFile.serial THEN upstream.serial
                ELSE zoneFile.serial + 1
<1>1. zoneFile \in ZoneFiles /\ upstream \in ZoneFiles
  BY DEF Sound
<1>2. s \in Nat
  BY <1>1 DEF ZoneFiles
<1>3. Merge \in SUBSET Record /\ overlay \subseteq Merge
  BY <1>1 DEF Merge, Merged, Recs, ZoneFiles
<1>4. Rebuilt = [serial |-> s, from |-> "merge", base |-> Merge \ overlay, ov |-> overlay]
  BY DEF Rebuilt
<1> HIDE DEF s
<1>5. Rebuilt \in ZoneFiles
  BY <1>2, <1>3, <1>4 DEF ZoneFiles, Origins
<1>6. Recs(Rebuilt) = Merge /\ Rebuilt.ov = overlay
  BY <1>3, <1>4 DEF Recs
<1>7. Rebuilt # Absent
  BY <1>4 DEF Absent
<1> QED BY <1>5, <1>6, <1>7 DEF Sound, RebuildRefused

\* What `record` is going to save.
LEMMA EditTyped ==
  ASSUME NEW recs \in SUBSET Record, NEW r \in LocalRecords
  PROVE  /\ Added(recs, r) \in SUBSET Record
         /\ Removed(recs, r.name, r.type, {r.value}) \in SUBSET Record
BY ReplicaAssumption DEF Added, Removed

LEMMA TypesInitially == Init => TypeInv
<1>1. 1 \in 1 .. Len(Versions)
  <2> DEFINE T == [serial: Nat, recs: SUBSET Record]
  <2>1. Versions \in Seq(T) /\ Len(Versions) > 0
    BY ReplicaAssumption
  <2> HIDE DEF T
  <2>2. Len(Versions) \in Nat
    BY <2>1
  <2> QED BY <2>1, <2>2
<1> SUFFICES ASSUME Init PROVE TypeInv
  OBVIOUS
<1>2. FilesTyped
  BY <1>1, AbsentSound DEF Init, FilesTyped
<1>3. Shape
  BY DEF Init, Shape, Ops
<1>4. Present
  BY DEF Init, Present
<1> QED BY <1>2, <1>3, <1>4 DEF TypeInv

\* Every step keeps the types and the shape of its command.
LEMMA TypesKept == TypeInv /\ [Next]_vars => TypeInv'
<1> SUFFICES ASSUME TypeInv, [Next]_vars PROVE TypeInv'
  OBVIOUS
<1> USE DEF TypeInv
<1>1. CASE Sync
  <2>1. FilesTyped'
    BY <1>1, PlainSound DEF FilesTyped, Sync, Begin, config, files, daemon
  <2>2. Shape'
    BY <1>1 DEF Shape, Ops, Steps, Sync, Begin, config, files, daemon
  <2>3. Present'
    BY <1>1, PlainSound DEF FilesTyped, Shape, Steps, Present, Sync, Begin, config,
                            files, daemon
  <2> QED BY <2>1, <2>2, <2>3
<1>2. CASE SyncRefused
  <2>1. FilesTyped'
    BY <1>2 DEF FilesTyped, SyncRefused, Fault, config, files, daemon, history
  <2>2. Shape'
    BY <1>2 DEF Shape, Ops, Steps, SyncRefused, Fault, config, files, daemon, history
  <2>3. Present'
    BY <1>2 DEF FilesTyped, Shape, Steps, Present, SyncRefused, Fault, config, files,
                daemon, history
  <2> QED BY <2>1, <2>2, <2>3
<1>3. CASE CloudZoneAdd
  <2>1. FilesTyped'
    BY <1>3, PlainSound DEF FilesTyped, CloudZoneAdd, Begin, Counted, config, files,
                            daemon
  <2>2. Shape'
    BY <1>3 DEF Shape, Ops, Steps, CloudZoneAdd, Begin, Counted, config, files, daemon
  <2>3. Present'
    BY <1>3, PlainSound DEF FilesTyped, Shape, Steps, Present, CloudZoneAdd, Begin,
                            Counted, config, files, daemon
  <2> QED BY <2>1, <2>2, <2>3
<1>4. CASE CloudZoneRemove
  <2>1. FilesTyped'
    BY <1>4 DEF FilesTyped, CloudZoneRemove, Begin, Counted, config, files, daemon
  <2>2. Shape'
    BY <1>4 DEF Shape, Ops, Steps, CloudZoneRemove, Begin, Counted, config, files,
                daemon
  <2>3. Present'
    BY <1>4 DEF FilesTyped, Shape, Steps, Present, CloudZoneRemove, Begin, Counted,
                config, files, daemon
  <2> QED BY <2>1, <2>2, <2>3
<1>5. CASE OverlayEnable
  <2>1. FilesTyped'
    BY <1>5 DEF FilesTyped, OverlayEnable, Begin, Counted, config, files, daemon
  <2>2. Shape'
    BY <1>5 DEF Shape, Ops, Steps, OverlayEnable, Begin, Counted, config, files, daemon
  <2>3. Present'
    BY <1>5 DEF FilesTyped, Shape, Steps, Present, OverlayEnable, Begin, Counted,
                config, files, daemon
  <2> QED BY <2>1, <2>2, <2>3
<1>6. CASE OverlayDisable
  <2>1. FilesTyped'
    BY <1>6, AbsentSound DEF FilesTyped, OverlayDisable, Begin, Counted, config, files,
                             daemon
  <2>2. Shape'
    BY <1>6 DEF Shape, Ops, Steps, OverlayDisable, Begin, Counted, config, files, daemon
  <2>3. Present'
    BY <1>6, AbsentSound DEF FilesTyped, Shape, Steps, Present, OverlayDisable, Begin,
                             Counted, config, files, daemon
  <2> QED BY <2>1, <2>2, <2>3
<1>7. CASE Replace
  <2>1. FilesTyped'
    BY <1>7 DEF FilesTyped, Replace, GoTo, Succeed, Fail, Running, Fault, NoFault,
                config, daemon
  <2>2. Shape'
    BY <1>7 DEF Shape, Ops, Steps, Replace, GoTo, Succeed, Fail, Running, Fault,
                NoFault, config, daemon
  <2>3. Present'
    BY <1>7 DEF FilesTyped, Shape, Steps, Present, Replace, GoTo, Succeed, Fail,
                Running, Fault, NoFault, config, daemon
  <2> QED BY <2>1, <2>2, <2>3
<1>8. CASE KeepUpstream
  <2>1. FilesTyped'
    BY <1>8 DEF FilesTyped, KeepUpstream, GoTo, Fail, Running, Fault, NoFault, config,
                daemon
  <2>2. Shape'
    BY <1>8 DEF Shape, Ops, Steps, KeepUpstream, GoTo, Fail, Running, Fault, NoFault,
                config, daemon
  <2>3. Present'
    BY <1>8 DEF FilesTyped, Shape, Steps, Present, KeepUpstream, GoTo, Fail, Running,
                Fault, NoFault, config, daemon
  <2> QED BY <2>1, <2>2, <2>3
<1>9. CASE MergeFiles
  <2>0. /\ zoneFile' \in {zoneFile, Rebuilt} /\ (zoneFile' # zoneFile => ~RebuildRefused)
        /\ overlay' \in {overlay, overlayPrev} /\ faults' \in {faults, faults + 1}
        /\ UNCHANGED <<upstream, overlayPrev, mem, got, served, provider, killed>>
    BY <1>9 DEF MergeFiles, AfterMerge, Running, daemon, Fault, NoFault, Shape, Steps
  <2>1. FilesTyped'
    BY <2>0, RebuiltSound DEF FilesTyped
  <2>2. Shape'
    BY <1>9 DEF Shape, Ops, Steps, MergeFiles, GoTo, Succeed, Fail, AfterMerge, Running,
                Fault, NoFault, config, daemon
  <2>3. Present'
    BY <1>9, RebuiltSound DEF FilesTyped, Shape, Steps, Present, MergeFiles, GoTo,
                              Succeed, Fail, AfterMerge, Running, Fault, NoFault,
                              config, daemon
  <2> QED BY <2>1, <2>2, <2>3
<1>10. CASE ReloadZone
  <2>0. /\ served' \in {served, zoneFile} /\ faults' \in {faults, faults + 1}
        /\ UNCHANGED <<files, mem, got, provider, killed>>
    BY <1>10 DEF ReloadZone, Running, Fault, NoFault
  <2>1. FilesTyped'
    BY <2>0 DEF FilesTyped, files
  <2>2. Shape'
    BY <1>10 DEF Shape, Ops, Steps, ReloadZone, GoTo, Succeed, Fail, Running, Fault,
                 NoFault, config, files
  <2>3. Present'
    BY <1>10 DEF FilesTyped, Shape, Steps, Present, ReloadZone, GoTo, Succeed, Fail,
                 Running, Fault, NoFault, config, files
  <2> QED BY <2>1, <2>2, <2>3
<1>11. CASE Activate
  <2>1. FilesTyped'
    BY <1>11 DEF FilesTyped, Activate, GoTo, Succeed, Running, Fault, NoFault, config,
                 files
  <2>2. Shape'
    BY <1>11 DEF Shape, Ops, Steps, Activate, GoTo, Succeed, Running, Fault, NoFault,
                 config, files
  <2>3. Present'
    BY <1>11 DEF FilesTyped, Shape, Steps, Present, Activate, GoTo, Succeed, Running,
                 Fault, NoFault, config, files
  <2> QED BY <2>1, <2>2, <2>3
<1>12. CASE PutBack
  <2>1. FilesTyped'
    BY <1>12 DEF FilesTyped, PutBack, GoTo, Running, config, daemon
  <2>2. Shape'
    BY <1>12 DEF Shape, Ops, Steps, PutBack, GoTo, Running, config, daemon
  <2>3. Present'
    BY <1>12 DEF FilesTyped, Shape, Steps, Present, PutBack, GoTo, Running, config,
                 daemon
  <2> QED BY <2>1, <2>2, <2>3
<1>13. CASE SaveOverlay
  <2>1. FilesTyped'
    BY <1>13 DEF FilesTyped, SaveOverlay, GoTo, Fail, Running, Fault, NoFault, config,
                 daemon
  <2>2. Shape'
    BY <1>13 DEF Shape, Ops, Steps, SaveOverlay, GoTo, Fail, Running, Fault, NoFault,
                 config, daemon
  <2>3. Present'
    BY <1>13 DEF FilesTyped, Shape, Steps, Present, SaveOverlay, GoTo, Fail, Running,
                 Fault, NoFault, config, daemon
  <2> QED BY <2>1, <2>2, <2>3
<1>14. CASE UndoOverlay
  <2>1. FilesTyped'
    BY <1>14 DEF FilesTyped, UndoOverlay, GoTo, Running, config, daemon
  <2>2. Shape'
    BY <1>14 DEF Shape, Ops, Steps, UndoOverlay, GoTo, Running, config, daemon
  <2>3. Present'
    BY <1>14 DEF FilesTyped, Shape, Steps, Present, UndoOverlay, GoTo, Running, config,
                 daemon
  <2> QED BY <2>1, <2>2, <2>3
<1>15. CASE UndoMerge
  <2>1. FilesTyped'
    BY <1>15, RebuiltSound DEF FilesTyped, UndoMerge, GoTo, Running, Fault, NoFault,
                               config, daemon
  <2>2. Shape'
    BY <1>15 DEF Shape, Ops, Steps, UndoMerge, GoTo, Running, Fault, NoFault, config,
                 daemon
  <2>3. Present'
    BY <1>15, RebuiltSound DEF FilesTyped, Shape, Steps, Present, UndoMerge, GoTo,
                               Running, Fault, NoFault, config, daemon
  <2> QED BY <2>1, <2>2, <2>3
<1>16. CASE ReloadBack
  <2>1. FilesTyped'
    BY <1>16 DEF FilesTyped, ReloadBack, Fail, Running, Fault, NoFault, config, files
  <2>2. Shape'
    BY <1>16 DEF Shape, Ops, Steps, ReloadBack, Fail, Running, Fault, NoFault, config,
                 files
  <2>3. Present'
    BY <1>16 DEF FilesTyped, Shape, Steps, Present, ReloadBack, Fail, Running, Fault,
                 NoFault, config, files
  <2> QED BY <2>1, <2>2, <2>3
<1>17. CASE Restore
  <2>1. FilesTyped'
    BY <1>17 DEF FilesTyped, Restore, GoTo, Fail, Running, Fault, NoFault, config,
                 daemon
  <2>2. Shape'
    BY <1>17 DEF Shape, Ops, Steps, Restore, GoTo, Fail, Running, Fault, NoFault,
                 config, daemon
  <2>3. Present'
    BY <1>17 DEF FilesTyped, Shape, Steps, Present, Restore, GoTo, Fail, Running, Fault,
                 NoFault, config, daemon
  <2> QED BY <2>1, <2>2, <2>3
<1>18. CASE DropOverlay
  <2>1. FilesTyped'
    BY <1>18 DEF FilesTyped, DropOverlay, Running, config, daemon
  <2>2. Shape'
    BY <1>18 DEF Shape, Ops, Steps, DropOverlay, Running, config, daemon
  <2>3. Present'
    BY <1>18 DEF FilesTyped, Shape, Steps, Present, DropOverlay, Running, config, daemon
  <2> QED BY <2>1, <2>2, <2>3
<1>19. CASE DropUpstream
  <2>1. FilesTyped'
    BY <1>19, AbsentSound DEF FilesTyped, DropUpstream, GoTo, Running, config, daemon
  <2>2. Shape'
    BY <1>19 DEF Shape, Ops, Steps, DropUpstream, GoTo, Running, config, daemon
  <2>3. Present'
    BY <1>19, AbsentSound DEF FilesTyped, Shape, Steps, Present, DropUpstream, GoTo,
                              Running, config, daemon
  <2> QED BY <2>1, <2>2, <2>3
<1>20. CASE DropFile
  <2>1. FilesTyped'
    BY <1>20, AbsentSound DEF FilesTyped, DropFile, GoTo, Fail, Running, config, daemon
  <2>2. Shape'
    BY <1>20 DEF Shape, Ops, Steps, DropFile, GoTo, Fail, Running, config, daemon
  <2>3. Present'
    BY <1>20, AbsentSound DEF FilesTyped, Shape, Steps, Present, DropFile, GoTo, Fail,
                              Running, config, daemon
  <2> QED BY <2>1, <2>2, <2>3
<1>21. CASE ChangeConfig
  <2>1. FilesTyped'
    BY <1>21, AbsentSound DEF FilesTyped, ChangeConfig, GoTo, Succeed, Fail, Running,
                              Fault, NoFault, config, files
  <2>2. Shape'
    <3>1. op \in {"enable", "disable", "add", "remove"} /\ op' = op
      BY <1>21 DEF Shape, Steps, Ops, ChangeConfig, Running
    <3>2. CASE UNCHANGED config
      BY <1>21, <3>1, <3>2 DEF Shape, Ops, Steps, ChangeConfig, config, GoTo, Succeed,
                               Fail, Fault, NoFault
    <3>3. CASE /\ mirrored' = (op # "remove") /\ overlayOn' = (op = "enable")
               /\ IF op = "remove" THEN GoTo("dropFile") ELSE Succeed
      <4>1. CASE op = "remove"
        <5>1. mirrored' = FALSE /\ overlayOn' = FALSE /\ pc' = "dropFile" /\ report' = report
          BY <3>3, <4>1 DEF GoTo
        <5> QED BY <3>1, <4>1, <5>1 DEF Shape, Ops, Steps
      <4>2. CASE op # "remove"
        <5>1. mirrored' = TRUE /\ overlayOn' \in BOOLEAN /\ pc' = "idle" /\ report' = "ok"
          BY <3>3, <4>2 DEF Succeed
        <5> QED BY <3>1, <5>1 DEF Shape, Ops
      <4> QED BY <4>1, <4>2
    <3> QED BY <1>21, <3>2, <3>3 DEF ChangeConfig
  <2>3. Present'
    BY <1>21, AbsentSound DEF FilesTyped, Shape, Steps, Present, ChangeConfig, GoTo,
                              Succeed, Fail, Running, Fault, NoFault, config, files
  <2> QED BY <2>1, <2>2, <2>3
<1>22. CASE Kill
  <2>1. FilesTyped'
    BY <1>22 DEF FilesTyped, Kill, config, files, daemon, history
  <2>2. Shape'
    BY <1>22 DEF Shape, Ops, Steps, Kill, config, files, daemon, history
  <2>3. Present'
    BY <1>22 DEF FilesTyped, Shape, Steps, Present, Kill, config, files, daemon, history
  <2> QED BY <2>1, <2>2, <2>3
<1>23. CASE ProviderEdits
  <2>1. FilesTyped'
    BY <1>23 DEF FilesTyped, ProviderEdits, config, files, daemon, history, counts
  <2>2. Shape'
    BY <1>23 DEF Shape, Ops, Steps, ProviderEdits, config, files, daemon, history,
                 counts
  <2>3. Present'
    BY <1>23 DEF FilesTyped, Shape, Steps, Present, ProviderEdits, config, files,
                 daemon, history, counts
  <2> QED BY <2>1, <2>2, <2>3
<1>24. CASE DaemonStops
  <2>1. FilesTyped'
    BY <1>24, AbsentSound DEF FilesTyped, DaemonStops, Fault, config, files, history
  <2>2. Shape'
    BY <1>24 DEF Shape, Ops, Steps, DaemonStops, Fault, config, files, history
  <2>3. Present'
    BY <1>24, AbsentSound DEF FilesTyped, Shape, Steps, Present, DaemonStops, Fault,
                              config, files, history
  <2> QED BY <2>1, <2>2, <2>3
<1>25. CASE DaemonStarts
  <2>1. FilesTyped'
    BY <1>25, AbsentSound DEF FilesTyped, DaemonStarts, config, files, history, counts
  <2>2. Shape'
    BY <1>25 DEF Shape, Ops, Steps, DaemonStarts, config, files, history, counts
  <2>3. Present'
    BY <1>25, AbsentSound DEF FilesTyped, Shape, Steps, Present, DaemonStarts, config,
                              files, history, counts
  <2> QED BY <2>1, <2>2, <2>3
<1>26. CASE UNCHANGED vars
  <2>1. FilesTyped'
    BY <1>26, AbsentSound DEF FilesTyped, vars
  <2>2. Shape'
    BY <1>26 DEF Shape, Ops, Steps, vars
  <2>3. Present'
    BY <1>26, AbsentSound DEF FilesTyped, Shape, Steps, Present, vars
  <2> QED BY <2>1, <2>2, <2>3
<1>27. CASE \E r \in LocalRecords : OverlayRecord(r)
  <2>0. PICK r \in LocalRecords : OverlayRecord(r)
    BY <1>27
  <2>1. FilesTyped'
    BY <2>0, EditTyped DEF FilesTyped, OverlayRecord, Begin, Counted, config, files,
                           daemon
  <2>2. Shape'
    BY <2>0 DEF Shape, Ops, Steps, OverlayRecord, Begin, Counted, config, files, daemon
  <2>3. Present'
    BY <2>0 DEF Shape, Steps, Present, OverlayRecord, Begin, Counted, config, files,
                daemon
  <2> QED BY <2>1, <2>2, <2>3
<1> QED BY <1>1, <1>2, <1>3, <1>4, <1>5, <1>6, <1>7, <1>8, <1>9, <1>10, <1>11, <1>12,
           <1>13, <1>14, <1>15, <1>16, <1>17, <1>18, <1>19, <1>20, <1>21, <1>22, <1>23,
           <1>24, <1>25, <1>26, <1>27 DEF Next, Command, Step

-----------------------------------------------------------------------------
\* File f is the merge of u and the overlay records o.
InStepWith(f, u, o) ==
  f.from = "merge" /\ f.base = Merged(Recs(u), o, Apex) \ o /\ f.ov = o

\* The served file is the merge, wherever a command is about to say so.
MergedNow == upstream # Absent /\ InStepWith(zoneFile, upstream, overlay)

MergedWhenDone ==
  /\ pc = "idle" /\ report = "ok" /\ overlayOn => MergedNow
  /\ pc = "reload" /\ op = "sync" /\ overlayOn => MergedNow
  /\ pc \in {"activate", "config"} /\ op = "enable" => MergedNow
  /\ pc = "activate" /\ op = "edit" => MergedNow

\* InStep compares everything but the serial.
LEMMA InStepIs ==
  ASSUME Sound(zoneFile), Sound(upstream), overlay \in SUBSET Record
  PROVE  /\ InStep <=> InStepWith(zoneFile, upstream, overlay)
         /\ InStepWith(Rebuilt, upstream, overlay)
         /\ InStepWith(zoneFile, upstream, overlay) => Recs(zoneFile) = Merge
<1> DEFINE s == IF upstream.serial > zoneFile.serial THEN upstream.serial
                ELSE zoneFile.serial + 1
<1>1. Rebuilt = [serial |-> s, from |-> "merge", base |-> Merge \ overlay, ov |-> overlay]
  BY DEF Rebuilt
<1> HIDE DEF s
<1>2. InStepWith(Rebuilt, upstream, overlay)
  BY <1>1 DEF InStepWith, Merge
<1>3. zoneFile \in ZoneFiles
  BY DEF Sound
<1>4. PICK n, a, b, o : zoneFile = [serial |-> n, from |-> a, base |-> b, ov |-> o]
  BY <1>3 DEF ZoneFiles
<1>5. InStep <=> a = "merge" /\ b = Merge \ overlay /\ o = overlay
  <2>1. [zoneFile EXCEPT !.serial = 0] = [serial |-> 0, from |-> a, base |-> b, ov |-> o]
    BY <1>4
  <2>2. [Rebuilt EXCEPT !.serial = 0]
          = [serial |-> 0, from |-> "merge", base |-> Merge \ overlay, ov |-> overlay]
    BY <1>1
  <2> QED BY <2>1, <2>2 DEF InStep
<1>6. InStep <=> InStepWith(zoneFile, upstream, overlay)
  BY <1>4, <1>5 DEF InStepWith, Merge
<1>7. overlay \subseteq Merge
  BY DEF Merge, Merged
<1>8. InStepWith(zoneFile, upstream, overlay) => Recs(zoneFile) = Merge
  BY <1>7 DEF InStepWith, Recs, Merge
<1> QED BY <1>2, <1>6, <1>8

\* The records of a merge are the merged records.
LEMMA InStepRecs ==
  ASSUME NEW f, NEW u, NEW o, InStepWith(f, u, o)
  PROVE  Recs(f) = Merged(Recs(u), o, Apex)
<1>1. o \subseteq Merged(Recs(u), o, Apex)
  BY DEF Merged
<1> QED BY <1>1 DEF InStepWith, Recs

\* Every step on the way to a report of success has merged.
LEMMA MergesKept == TypeInv /\ MergedWhenDone /\ [Next]_vars => MergedWhenDone'
<1> SUFFICES ASSUME TypeInv, MergedWhenDone, [Next]_vars PROVE MergedWhenDone'
  OBVIOUS
<1>0. /\ InStep <=> InStepWith(zoneFile, upstream, overlay)
      /\ InStepWith(Rebuilt, upstream, overlay)
  BY InStepIs DEF TypeInv, FilesTyped
<1> USE DEF TypeInv, Shape, Steps, MergedWhenDone, MergedNow, RebuildRefused
<1>1. CASE Sync
  BY <1>1, <1>0 DEF Sync, Begin, config, files, daemon
<1>2. CASE SyncRefused
  BY <1>2, <1>0 DEF SyncRefused, Fault, config, files, daemon, history
<1>3. CASE CloudZoneAdd
  BY <1>3, <1>0 DEF CloudZoneAdd, Begin, Counted, config, files, daemon
<1>4. CASE CloudZoneRemove
  BY <1>4, <1>0 DEF CloudZoneRemove, Begin, Counted, config, files, daemon
<1>5. CASE OverlayEnable
  BY <1>5, <1>0 DEF OverlayEnable, Begin, Counted, config, files, daemon
<1>6. CASE OverlayDisable
  BY <1>6, <1>0 DEF OverlayDisable, Begin, Counted, config, files, daemon
<1>7. CASE Replace
  BY <1>7, <1>0 DEF Replace, GoTo, Succeed, Fail, Running, Fault, NoFault, config,
                    daemon
<1>8. CASE KeepUpstream
  BY <1>8, <1>0 DEF KeepUpstream, GoTo, Fail, Running, Fault, NoFault, config, daemon
<1>9. CASE MergeFiles
  BY <1>9, <1>0 DEF MergeFiles, GoTo, Succeed, Fail, AfterMerge, Running, Fault,
                    NoFault, config, daemon
<1>10. CASE ReloadZone
  BY <1>10, <1>0 DEF ReloadZone, GoTo, Succeed, Fail, Running, Fault, NoFault, config,
                     files
<1>11. CASE Activate
  BY <1>11, <1>0 DEF Activate, GoTo, Succeed, Running, Fault, NoFault, config, files
<1>12. CASE PutBack
  BY <1>12, <1>0 DEF PutBack, GoTo, Running, config, daemon
<1>13. CASE SaveOverlay
  BY <1>13, <1>0 DEF SaveOverlay, GoTo, Fail, Running, Fault, NoFault, config, daemon
<1>14. CASE UndoOverlay
  BY <1>14, <1>0 DEF UndoOverlay, GoTo, Running, config, daemon
<1>15. CASE UndoMerge
  BY <1>15, <1>0 DEF UndoMerge, GoTo, Running, Fault, NoFault, config, daemon
<1>16. CASE ReloadBack
  BY <1>16, <1>0 DEF ReloadBack, Fail, Running, Fault, NoFault, config, files
<1>17. CASE Restore
  BY <1>17, <1>0 DEF Restore, GoTo, Fail, Running, Fault, NoFault, config, daemon
<1>18. CASE DropOverlay
  BY <1>18, <1>0 DEF DropOverlay, Running, config, daemon
<1>19. CASE DropUpstream
  BY <1>19, <1>0 DEF DropUpstream, GoTo, Running, config, daemon
<1>20. CASE DropFile
  BY <1>20, <1>0 DEF DropFile, GoTo, Fail, Running, config, daemon
<1>21. CASE ChangeConfig
  BY <1>21, <1>0 DEF ChangeConfig, GoTo, Succeed, Fail, Running, Fault, NoFault, config,
                     files
<1>22. CASE Kill
  BY <1>22, <1>0 DEF Kill, config, files, daemon, history
<1>23. CASE ProviderEdits
  BY <1>23, <1>0 DEF ProviderEdits, config, files, daemon, history, counts
<1>24. CASE DaemonStops
  BY <1>24, <1>0 DEF DaemonStops, Fault, config, files, history
<1>25. CASE DaemonStarts
  BY <1>25, <1>0 DEF DaemonStarts, config, files, history, counts
<1>26. CASE UNCHANGED vars
  BY <1>26, <1>0 DEF vars
<1>27. CASE \E r \in LocalRecords : OverlayRecord(r)
  BY <1>27, <1>0 DEF OverlayRecord, Begin, Counted, config, files, daemon
<1> QED BY <1>1, <1>2, <1>3, <1>4, <1>5, <1>6, <1>7, <1>8, <1>9, <1>10, <1>11, <1>12,
           <1>13, <1>14, <1>15, <1>16, <1>17, <1>18, <1>19, <1>20, <1>21, <1>22, <1>23,
           <1>24, <1>25, <1>26, <1>27 DEF Next, Command, Step

-----------------------------------------------------------------------------
Copies == {Plain(Versions[v]) : v \in 1 .. provider}

\* No overlay and no part of one.
BareUpstream == upstream = Absent /\ overlay = {}

\* No command is enabling, changing or dropping an overlay.
OverlayAside == pc = "idle" \/ op \in {"sync", "add"} \/ (op = "remove" /\ pc = "config")

\* Without a kill, where the provider's data is at each step of each command:
\* what is fetched, kept beside an overlay or put back is a version of it, and
\* a zone without an overlay has no part of one.
Unkilled ==
  killed = 0 =>
    /\ upstream \in Copies \cup {Absent}
    /\ pc # "idle" /\ op \in {"sync", "add", "enable"} => got \in Copies
    /\ ~overlayOn /\ OverlayAside =>
         BareUpstream /\ zoneFile \in Copies \cup {Absent}
    /\ pc # "idle" /\ op = "enable" =>
         /\ overlay = {}
         /\ pc \in {"keepUpstream", "reloadBack"} => upstream = Absent
         /\ pc \in {"keepUpstream", "dropUpstream", "reloadBack"} => zoneFile \in Copies
    /\ op = "remove" /\ pc \in {"dropUpstream", "dropOverlay"} => zoneFile = Absent
    /\ op = "remove" /\ pc = "dropOverlay" => upstream = Absent
    /\ overlayOn /\ upstream = Absent => zoneFile \in Copies
    /\ op = "disable" =>
         /\ pc \in {"reload", "dropOverlay", "dropUpstream", "config"} => zoneFile \in Copies
         /\ pc \in {"dropUpstream", "config"} => overlay = {}
         /\ pc = "config" => upstream = Absent

\* Without a kill the overlay is what was promised, except while an edit that
\* has saved its own can still take it back.
Promises ==
  killed = 0 =>
    IF op = "edit" /\ pc \in {"merge", "activate", "undoOverlay"}
    THEN overlay = mem /\ overlayPrev = promised
    ELSE overlay = promised

\* Every step of a command that is not killed has a way out to a bare version.
LEMMA UnkilledKept == TypeInv /\ MergedWhenDone /\ Unkilled /\ [Next]_vars => Unkilled'
<1> SUFFICES ASSUME TypeInv, MergedWhenDone, Unkilled, [Next]_vars PROVE Unkilled'
  OBVIOUS
<1> USE DEF TypeInv, Shape, Steps, FilesTyped, Present, Unkilled, BareUpstream, OverlayAside, Copies,
            RebuildRefused
<1>1. CASE Sync
  BY <1>1 DEF Sync, Begin, config, files, daemon
<1>2. CASE SyncRefused
  BY <1>2 DEF SyncRefused, Fault, config, files, daemon, history
<1>3. CASE CloudZoneAdd
  BY <1>3 DEF CloudZoneAdd, Begin, Counted, config, files, daemon
<1>4. CASE CloudZoneRemove
  BY <1>4 DEF CloudZoneRemove, Begin, Counted, config, files, daemon
<1>5. CASE OverlayEnable
  BY <1>5 DEF OverlayEnable, Begin, Counted, config, files, daemon
<1>6. CASE OverlayDisable
  BY <1>6 DEF OverlayDisable, Begin, Counted, config, files, daemon
<1>7. CASE Replace
  BY <1>7 DEF Replace, GoTo, Succeed, Fail, Running, Fault, NoFault, config, daemon
<1>8. CASE KeepUpstream
  BY <1>8 DEF KeepUpstream, GoTo, Fail, Running, Fault, NoFault, config, daemon
<1>9. CASE MergeFiles
  BY <1>9 DEF MergeFiles, GoTo, Succeed, Fail, AfterMerge, Running, Fault, NoFault,
              config, daemon
<1>10. CASE ReloadZone
  BY <1>10 DEF ReloadZone, GoTo, Succeed, Fail, Running, Fault, NoFault, config, files
<1>11. CASE Activate
  BY <1>11 DEF Activate, GoTo, Succeed, Running, Fault, NoFault, config, files
<1>12. CASE PutBack
  BY <1>12 DEF PutBack, GoTo, Running, config, daemon
<1>13. CASE SaveOverlay
  BY <1>13 DEF SaveOverlay, GoTo, Fail, Running, Fault, NoFault, config, daemon
<1>14. CASE UndoOverlay
  BY <1>14 DEF UndoOverlay, GoTo, Running, config, daemon
<1>15. CASE UndoMerge
  BY <1>15 DEF UndoMerge, GoTo, Running, Fault, NoFault, config, daemon
<1>16. CASE ReloadBack
  BY <1>16 DEF ReloadBack, Fail, Running, Fault, NoFault, config, files
<1>17. CASE Restore
  BY <1>17 DEF Restore, GoTo, Fail, Running, Fault, NoFault, config, daemon
<1>18. CASE DropOverlay
  BY <1>18 DEF DropOverlay, Running, config, daemon
<1>19. CASE DropUpstream
  BY <1>19 DEF DropUpstream, GoTo, Running, config, daemon
<1>20. CASE DropFile
  BY <1>20 DEF DropFile, GoTo, Fail, Running, config, daemon
<1>21. CASE ChangeConfig
  <2>1. op \in {"enable", "disable", "add", "remove"} /\ pc = "config"
    BY <1>21 DEF TypeInv, Shape, Steps, Ops, ChangeConfig
  <2>2. UNCHANGED <<op, killed, upstream, overlay, zoneFile, got, provider>>
    BY <1>21 DEF ChangeConfig, Running, files
  <2>3. CASE /\ UNCHANGED config /\ pc' \in {"putBack", "dropFile", "idle"}
             /\ op \in {"disable", "remove"} => pc' = "idle"
             /\ op = "enable" => pc' = "putBack"
    BY <2>1, <2>2, <2>3 DEF TypeInv, Shape, Unkilled, BareUpstream, OverlayAside, Copies, config
  <2>4. CASE overlayOn' = (op = "enable") /\ IF op = "remove" THEN GoTo("dropFile") ELSE Succeed
    <3>1. CASE op = "enable"
      <4>1. overlayOn' = TRUE /\ pc' = "idle" /\ upstream # Absent
        BY <2>1, <2>4, <3>1 DEF Succeed, MergedWhenDone, MergedNow
      <4> QED BY <2>1, <2>2, <3>1, <4>1 DEF Unkilled, OverlayAside, Copies
    <3>2. CASE op # "enable"
      <4>1. overlayOn' = FALSE /\ pc' = IF op = "remove" THEN "dropFile" ELSE "idle"
        BY <2>4, <3>2 DEF Succeed, GoTo
      <4> QED BY <2>1, <2>2, <3>2, <4>1 DEF TypeInv, Shape, Unkilled, BareUpstream, OverlayAside, Copies
    <3> QED BY <3>1, <3>2
  <2> QED BY <1>21, <2>1, <2>3, <2>4 DEF ChangeConfig, GoTo, Fail, config
<1>22. CASE Kill
  BY <1>22 DEF Kill, config, files, daemon, history
<1>23. CASE ProviderEdits
  BY <1>23 DEF ProviderEdits, config, files, daemon, history, counts
<1>24. CASE DaemonStops
  BY <1>24 DEF DaemonStops, Fault, config, files, history
<1>25. CASE DaemonStarts
  BY <1>25 DEF DaemonStarts, config, files, history, counts
<1>26. CASE UNCHANGED vars
  BY <1>26 DEF vars
<1>27. CASE \E r \in LocalRecords : OverlayRecord(r)
  BY <1>27 DEF OverlayRecord, Begin, Counted, config, files, daemon
<1> QED BY <1>1, <1>2, <1>3, <1>4, <1>5, <1>6, <1>7, <1>8, <1>9, <1>10, <1>11, <1>12,
           <1>13, <1>14, <1>15, <1>16, <1>17, <1>18, <1>19, <1>20, <1>21, <1>22, <1>23,
           <1>24, <1>25, <1>26, <1>27 DEF Next, Command, Step

\* Every command replaces the promised records only with its success.
LEMMA PromisesKept == TypeInv /\ Promises /\ [Next]_vars => Promises'
<1> SUFFICES ASSUME TypeInv, Promises, [Next]_vars PROVE Promises'
  OBVIOUS
<1> USE DEF TypeInv, Shape, Steps, FilesTyped, Promises
<1>1. CASE Sync
  BY <1>1 DEF Sync, Begin, config, files, daemon
<1>2. CASE SyncRefused
  BY <1>2 DEF SyncRefused, Fault, config, files, daemon, history
<1>3. CASE CloudZoneAdd
  BY <1>3 DEF CloudZoneAdd, Begin, Counted, config, files, daemon
<1>4. CASE CloudZoneRemove
  BY <1>4 DEF CloudZoneRemove, Begin, Counted, config, files, daemon
<1>5. CASE OverlayEnable
  BY <1>5 DEF OverlayEnable, Begin, Counted, config, files, daemon
<1>6. CASE OverlayDisable
  BY <1>6 DEF OverlayDisable, Begin, Counted, config, files, daemon
<1>7. CASE Replace
  BY <1>7 DEF Replace, GoTo, Succeed, Fail, Running, Fault, NoFault, config, daemon
<1>8. CASE KeepUpstream
  BY <1>8 DEF KeepUpstream, GoTo, Fail, Running, Fault, NoFault, config, daemon
<1>9. CASE MergeFiles
  BY <1>9 DEF MergeFiles, GoTo, Succeed, Fail, AfterMerge, Running, Fault, NoFault,
              config, daemon
<1>10. CASE ReloadZone
  BY <1>10 DEF ReloadZone, GoTo, Succeed, Fail, Running, Fault, NoFault, config, files
<1>11. CASE Activate
  BY <1>11 DEF Activate, GoTo, Succeed, Running, Fault, NoFault, config, files
<1>12. CASE PutBack
  BY <1>12 DEF PutBack, GoTo, Running, config, daemon
<1>13. CASE SaveOverlay
  BY <1>13 DEF SaveOverlay, GoTo, Fail, Running, Fault, NoFault, config, daemon
<1>14. CASE UndoOverlay
  BY <1>14 DEF UndoOverlay, GoTo, Running, config, daemon
<1>15. CASE UndoMerge
  BY <1>15 DEF UndoMerge, GoTo, Running, Fault, NoFault, config, daemon
<1>16. CASE ReloadBack
  BY <1>16 DEF ReloadBack, Fail, Running, Fault, NoFault, config, files
<1>17. CASE Restore
  BY <1>17 DEF Restore, GoTo, Fail, Running, Fault, NoFault, config, daemon
<1>18. CASE DropOverlay
  BY <1>18 DEF DropOverlay, Running, config, daemon
<1>19. CASE DropUpstream
  BY <1>19 DEF DropUpstream, GoTo, Running, config, daemon
<1>20. CASE DropFile
  BY <1>20 DEF DropFile, GoTo, Fail, Running, config, daemon
<1>21. CASE ChangeConfig
  BY <1>21 DEF ChangeConfig, GoTo, Succeed, Fail, Running, Fault, NoFault, config, files
<1>22. CASE Kill
  BY <1>22 DEF Kill, config, files, daemon, history
<1>23. CASE ProviderEdits
  BY <1>23 DEF ProviderEdits, config, files, daemon, history, counts
<1>24. CASE DaemonStops
  BY <1>24 DEF DaemonStops, Fault, config, files, history
<1>25. CASE DaemonStarts
  BY <1>25 DEF DaemonStarts, config, files, history, counts
<1>26. CASE UNCHANGED vars
  BY <1>26 DEF vars
<1>27. CASE \E r \in LocalRecords : OverlayRecord(r)
  BY <1>27 DEF OverlayRecord, Begin, Counted, config, files, daemon
<1> QED BY <1>1, <1>2, <1>3, <1>4, <1>5, <1>6, <1>7, <1>8, <1>9, <1>10, <1>11, <1>12,
           <1>13, <1>14, <1>15, <1>16, <1>17, <1>18, <1>19, <1>20, <1>21, <1>22, <1>23,
           <1>24, <1>25, <1>26, <1>27 DEF Next, Command, Step

-----------------------------------------------------------------------------
\* While the overlay is being enabled: got holds what was served before.
EnableBack ==
  op = "enable" /\ before.sound =>
    /\ pc # "idle" => overlay = before.overlay /\ Recs(got) = before.recs
    /\ pc \in {"keepUpstream", "merge"} => zoneFile = got /\ (up => served = zoneFile)
    /\ pc \in {"putBack", "dropUpstream", "reloadBack"} /\ faults = 0 => served = got
    /\ pc \in {"dropUpstream", "reloadBack"} => zoneFile = got

\* While an edit runs: the old overlay is kept, and merging it gives what was
\* served before.
EditBack ==
  op = "edit" /\ before.sound =>
    /\ pc = "saveOverlay" => /\ overlay = before.overlay
                             /\ InStepWith(zoneFile, upstream, overlay)
                             /\ Recs(zoneFile) = before.recs
                             /\ up => served = zoneFile
    /\ pc = "merge" => /\ overlayPrev = before.overlay
                       /\ InStepWith(zoneFile, upstream, overlayPrev)
                       /\ Recs(zoneFile) = before.recs
                       /\ up => served = zoneFile
    /\ pc \in {"activate", "undoOverlay", "undoMerge"} =>
         /\ before.recs = Merged(Recs(upstream), before.overlay, Apex)
         /\ upstream # Absent
         /\ Servable(before.recs, Apex) /\ ~MergeRefused(before.overlay, Apex)
    /\ pc \in {"activate", "undoOverlay"} => overlayPrev = before.overlay
    /\ pc \in {"undoMerge", "reloadBack"} => overlay = before.overlay
    /\ pc \in {"undoOverlay", "undoMerge", "reloadBack"} => faults >= 1
    /\ pc = "reloadBack" /\ faults <= 1 => Recs(zoneFile) = before.recs

FailedOnce ==
  /\ pc = "idle" /\ report = "failed" /\ op \in {"enable", "edit"}
  /\ faults <= 1 /\ before.sound

\* A failed command is undone, and stays so unless another fault comes.
Undone ==
  /\ faults = 0 => up
  /\ FailedOnce =>
       /\ overlay = before.overlay /\ Recs(zoneFile) = before.recs
       /\ up => served = zoneFile
  /\ EnableBack /\ EditBack

\* Every step keeps what the way back needs.
LEMMA UndoneKept == TypeInv /\ Undone /\ [Next]_vars => Undone'
<1> SUFFICES ASSUME TypeInv, Undone, [Next]_vars PROVE Undone'
  OBVIOUS
<1>0. /\ InStep <=> InStepWith(zoneFile, upstream, overlay)
      /\ InStepWith(Rebuilt, upstream, overlay)
      /\ InStepWith(zoneFile, upstream, overlay) => Recs(zoneFile) = Merge
      /\ Recs(Rebuilt) = Merge
  BY InStepIs, InStepRecs DEF TypeInv, FilesTyped, Merge
<1> USE DEF TypeInv, Shape, Steps, FilesTyped, Present, Undone, FailedOnce, EnableBack, EditBack,
            Merge, RebuildRefused
<1>1. CASE Sync
  BY <1>1, <1>0 DEF Sync, Begin, config, files, daemon
<1>2. CASE SyncRefused
  BY <1>2, <1>0 DEF SyncRefused, Fault, config, files, daemon, history
<1>3. CASE CloudZoneAdd
  BY <1>3, <1>0 DEF CloudZoneAdd, Begin, Counted, config, files, daemon
<1>4. CASE CloudZoneRemove
  BY <1>4, <1>0 DEF CloudZoneRemove, Begin, Counted, config, files, daemon
<1>5. CASE OverlayEnable
  BY <1>5, <1>0 DEF OverlayEnable, Begin, Counted, config, files, daemon
<1>6. CASE OverlayDisable
  BY <1>6, <1>0 DEF OverlayDisable, Begin, Counted, config, files, daemon
<1>7. CASE Replace
  BY <1>7, <1>0 DEF Replace, GoTo, Succeed, Fail, Running, Fault, NoFault, config,
                    daemon
<1>8. CASE KeepUpstream
  BY <1>8, <1>0 DEF KeepUpstream, GoTo, Fail, Running, Fault, NoFault, config, daemon
<1>9. CASE MergeFiles
  <2>1. /\ pc = "merge" /\ op \in {"sync", "enable", "edit"} /\ faults \in Nat
        /\ UNCHANGED <<op, before, got, up, served, overlayPrev, upstream>>
    BY <1>9 DEF TypeInv, FilesTyped, Shape, Steps, Ops, MergeFiles, Running, daemon
  <2>2. CASE op = "sync"
    BY <1>9, <2>1, <2>2 DEF Undone, FailedOnce, EnableBack, EditBack, MergeFiles, AfterMerge, GoTo,
                            Succeed, Fault, NoFault
  <2>3. CASE op = "enable"
    BY <1>9, <2>1, <2>3 DEF Undone, FailedOnce, EnableBack, EditBack, MergeFiles, AfterMerge, GoTo,
                            Fault, NoFault
  <2>4. CASE op = "edit"
    <3>1. ASSUME before.sound
          PROVE  /\ overlayPrev = before.overlay /\ Recs(zoneFile) = before.recs
                 /\ up => served = zoneFile
                 /\ before.recs = Merged(Recs(upstream), before.overlay, Apex)
                 /\ Servable(before.recs, Apex) /\ ~MergeRefused(before.overlay, Apex)
      <4>1. /\ overlayPrev = before.overlay /\ Recs(zoneFile) = before.recs
            /\ InStepWith(zoneFile, upstream, overlayPrev) /\ (up => served = zoneFile)
        BY <2>1, <2>4, <3>1 DEF Undone, FailedOnce, EditBack
      <4>2. zoneFile.from = "merge" /\ zoneFile.ov = overlayPrev /\ zoneFile # Absent
        BY <4>1 DEF InStepWith, Absent
      <4>3. Recs(zoneFile) = Merged(Recs(upstream), overlayPrev, Apex)
        BY <4>1, InStepRecs
      <4> QED BY <4>1, <4>2, <4>3 DEF TypeInv, FilesTyped, Sound
    <3>2. CASE pc' = "activate" /\ ~RebuildRefused /\ faults' = faults
      BY <2>1, <2>4, <3>1, <3>2 DEF Undone, FailedOnce, EnableBack, EditBack, RebuildRefused
    <3>3. CASE pc' = "idle" /\ report' = "ok" /\ faults' = faults
      BY <2>1, <2>4, <3>3 DEF Undone, FailedOnce, EnableBack, EditBack
    <3>4. CASE /\ pc' = "idle" /\ overlay' = overlayPrev /\ zoneFile' = zoneFile
               /\ faults' \in {faults, faults + 1}
      BY <2>1, <2>4, <3>1, <3>4 DEF Undone, FailedOnce, EnableBack, EditBack
    <3> QED BY <1>9, <2>1, <2>4, <3>2, <3>3, <3>4
         DEF MergeFiles, AfterMerge, GoTo, Succeed, Fail, Fault, NoFault
  <2> QED BY <2>1, <2>2, <2>3, <2>4
<1>10. CASE ReloadZone
  BY <1>10, <1>0 DEF ReloadZone, GoTo, Succeed, Fail, Running, Fault, NoFault, config,
                     files
<1>11. CASE Activate
  BY <1>11, <1>0 DEF Activate, GoTo, Succeed, Running, Fault, NoFault, config, files
<1>12. CASE PutBack
  BY <1>12, <1>0 DEF PutBack, GoTo, Running, config, daemon
<1>13. CASE SaveOverlay
  BY <1>13, <1>0 DEF SaveOverlay, GoTo, Fail, Running, Fault, NoFault, config, daemon
<1>14. CASE UndoOverlay
  BY <1>14, <1>0 DEF UndoOverlay, GoTo, Running, config, daemon
<1>15. CASE UndoMerge
  <2>1. /\ op = "edit" /\ pc = "undoMerge" /\ pc' = "reloadBack"
        /\ UNCHANGED <<op, before, overlay, up>>
    BY <1>15 DEF TypeInv, Shape, Steps, Ops, UndoMerge, GoTo, Running, daemon
  <2>2. faults \in Nat /\ (before.sound => faults >= 1)
    BY <2>1 DEF Undone, FailedOnce, EditBack, TypeInv, FilesTyped
  <2>3. CASE /\ zoneFile' = (IF RebuildRefused \/ InStep THEN zoneFile ELSE Rebuilt)
             /\ faults' = faults
    <3>1. ASSUME before.sound PROVE overlay = before.overlay /\ Recs(zoneFile') = before.recs
      <4>1. /\ overlay = before.overlay /\ upstream # Absent /\ ~MergeRefused(overlay, Apex)
            /\ before.recs = Merge /\ Servable(Merge, Apex)
        BY <2>1, <3>1 DEF Undone, FailedOnce, EditBack, Merge
      <4>2. ~RebuildRefused
        BY <4>1 DEF RebuildRefused
      <4> QED BY <1>0, <2>3, <4>1, <4>2
    <3> QED BY <2>1, <2>2, <2>3, <3>1 DEF Undone, FailedOnce, EnableBack, EditBack
  <2>4. CASE faults' = faults + 1
    <3>1. before.sound => faults' # 0 /\ faults' >= 1 /\ ~(faults' <= 1)
      BY <2>2, <2>4
    <3>2. faults' # 0
      BY <2>2, <2>4
    <3> QED BY <2>1, <3>1, <3>2 DEF Undone, FailedOnce, EnableBack, EditBack
  <2> QED BY <1>15, <2>3, <2>4 DEF UndoMerge, Fault, NoFault
<1>16. CASE ReloadBack
  BY <1>16, <1>0 DEF ReloadBack, Fail, Running, Fault, NoFault, config, files
<1>17. CASE Restore
  BY <1>17, <1>0 DEF Restore, GoTo, Fail, Running, Fault, NoFault, config, daemon
<1>18. CASE DropOverlay
  BY <1>18, <1>0 DEF DropOverlay, Running, config, daemon
<1>19. CASE DropUpstream
  BY <1>19, <1>0 DEF DropUpstream, GoTo, Running, config, daemon
<1>20. CASE DropFile
  BY <1>20, <1>0 DEF DropFile, GoTo, Fail, Running, config, daemon
<1>21. CASE ChangeConfig
  BY <1>21, <1>0 DEF ChangeConfig, GoTo, Succeed, Fail, Running, Fault, NoFault, config,
                     files
<1>22. CASE Kill
  BY <1>22, <1>0 DEF Kill, config, files, daemon, history
<1>23. CASE ProviderEdits
  BY <1>23, <1>0 DEF ProviderEdits, config, files, daemon, history, counts
<1>24. CASE DaemonStops
  BY <1>24, <1>0 DEF DaemonStops, Fault, config, files, history
<1>25. CASE DaemonStarts
  BY <1>25, <1>0 DEF DaemonStarts, config, files, history, counts
<1>26. CASE UNCHANGED vars
  BY <1>26, <1>0 DEF vars
<1>27. CASE \E r \in LocalRecords : OverlayRecord(r)
  <2>1. overlayOn /\ Begin("edit", "saveOverlay") /\ faults' = faults
    BY <1>27 DEF OverlayRecord
  <2>2. /\ before'.recs = Recs(zoneFile) /\ before'.overlay = overlay
        /\ before'.sound => InStep /\ (up => served = zoneFile)
    BY <2>1 DEF Begin
  <2>3. /\ pc' = "saveOverlay" /\ op' = "edit"
        /\ UNCHANGED <<zoneFile, upstream, overlay, up, served>>
    BY <2>1 DEF Begin, files, daemon
  <2> QED BY <1>0, <2>1, <2>2, <2>3 DEF Undone, FailedOnce, EnableBack, EditBack
<1> QED BY <1>1, <1>2, <1>3, <1>4, <1>5, <1>6, <1>7, <1>8, <1>9, <1>10, <1>11, <1>12,
           <1>13, <1>14, <1>15, <1>16, <1>17, <1>18, <1>19, <1>20, <1>21, <1>22, <1>23,
           <1>24, <1>25, <1>26, <1>27 DEF Next, Command, Step

-----------------------------------------------------------------------------
(* The theorems.                                                           *)

ReplicaInv == TypeInv /\ MergedWhenDone /\ Unkilled /\ Promises /\ Undone

LEMMA ReplicaInvHolds == Spec => []ReplicaInv
<1>1. Init => ReplicaInv
  <2> SUFFICES ASSUME Init PROVE ReplicaInv
    OBVIOUS
  <2>1. MergedWhenDone /\ Promises
    BY DEF Init, MergedWhenDone, Promises
  <2>2. Unkilled
    BY DEF Init, Unkilled, BareUpstream, OverlayAside
  <2>3. Undone
    BY DEF Init, Undone, FailedOnce, EnableBack, EditBack
  <2> QED BY <2>1, <2>2, <2>3, TypesInitially DEF ReplicaInv
<1>2. ReplicaInv /\ [Next]_vars => ReplicaInv'
  BY TypesKept, MergesKept, UnkilledKept, PromisesKept, UndoneKept DEF ReplicaInv
<1> QED BY <1>1, <1>2, PTL DEF Spec

(***************************************************************************)
(* Types, and what they carry: the served file of a replica that           *)
(* config.yaml names is there, and every zone file, the provider's copy    *)
(* and a merge included, can be served (zonefile.Validate).                *)
(***************************************************************************)
THEOREM ReplicaTypes == Spec => []TypeOK
<1>1. ReplicaInv => TypeOK
  <2> SUFFICES ASSUME ReplicaInv PROVE TypeOK
    OBVIOUS
  <2>1. ASSUME NEW f, Sound(f)
        PROVE  /\ f.serial \in Nat /\ Recs(f) \in SUBSET Record
               /\ f # Absent => Servable(Recs(f), Apex)
    BY <2>1 DEF Sound, ZoneFiles, Recs
  <2>2. FilesTyped /\ Shape /\ Present
    BY DEF ReplicaInv, TypeInv
  <2>3. \A f \in {zoneFile, upstream, served, got} :
          /\ f.serial \in Nat /\ Recs(f) \in SUBSET Record
          /\ f # Absent => Servable(Recs(f), Apex)
    BY <2>1, <2>2 DEF FilesTyped
  <2> QED BY <2>2, <2>3 DEF TypeOK, FilesTyped, Shape, Present
<1> QED BY <1>1, ReplicaInvHolds, PTL

(***************************************************************************)
(* A command that succeeded leaves the served file in step: the merge of   *)
(* the provider's copy and the overlay, whatever was killed before; and    *)
(* with no overlay, and no kill, a version of the provider's and no part   *)
(* of an overlay (rebuildReplica, dropOverlay).                            *)
(***************************************************************************)
THEOREM SuccessIsMerged == Spec => []SuccessMerges
<1>1. ReplicaInv => SuccessMerges
  <2> SUFFICES ASSUME ReplicaInv, pc = "idle", report = "ok", mirrored
               PROVE  /\ overlayOn => upstream # Absent /\ InStep
                      /\ ~overlayOn /\ killed = 0 =>
                           /\ zoneFile \in {Plain(Versions[v]) : v \in 1 .. provider}
                           /\ upstream = Absent /\ overlay = {}
    BY DEF SuccessMerges
  <2>1. InStep <=> InStepWith(zoneFile, upstream, overlay)
    BY InStepIs DEF ReplicaInv, TypeInv, FilesTyped
  <2>2. overlayOn => upstream # Absent /\ InStep
    BY <2>1 DEF ReplicaInv, MergedWhenDone, MergedNow
  <2>3. ~overlayOn /\ killed = 0 => BareUpstream /\ zoneFile \in Copies
    BY DEF ReplicaInv, Unkilled, OverlayAside, TypeInv, Present
  <2> QED BY <2>2, <2>3 DEF BareUpstream, Copies
<1> QED BY <1>1, ReplicaInvHolds, PTL

(***************************************************************************)
(* Without a kill the overlay's records are those of the commands that     *)
(* succeeded, whatever the provider changed, the timer synced and failed   *)
(* changes took back (undoZone in overlay.go).                             *)
(***************************************************************************)
THEOREM OverlayIsKept == Spec => []LocalRecordsKept
<1>1. ReplicaInv => LocalRecordsKept
  BY DEF ReplicaInv, Promises, LocalRecordsKept
<1> QED BY <1>1, ReplicaInvHolds, PTL

(***************************************************************************)
(* "Nothing was changed", "previous records restored" (overlay.go): after  *)
(* one failure of any step, of enabling the overlay or of editing it, the  *)
(* files hold the records of before and unbound serves them.               *)
(***************************************************************************)
THEOREM ReplicaFailureUndone == Spec => []FailureUndone
<1>1. ReplicaInv => FailureUndone
  BY DEF ReplicaInv, Undone, FailedOnce, FailureUndone, UndoneBy
<1> QED BY <1>1, ReplicaInvHolds, PTL
=============================================================================
