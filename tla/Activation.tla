----------------------------- MODULE Activation -----------------------------
(***************************************************************************)
(* How a minidns command turns a change of config.yaml into what unbound   *)
(* serves.  One command runs at a time, under the state lock; the daemon,  *)
(* the administrator and a kill of the command interleave with its steps.  *)
(*                                                                         *)
(* Every command goes through cmdApplyQuiet, the steps "apply" .. "wait"   *)
(* and, if the daemon does not take the candidate, "restore" .. "waitBack".*)
(* What a command does before and after depends on cmd; phase tells the    *)
(* attempt from the undo that changeConfig and createZone run after it.    *)
(***************************************************************************)
EXTENDS Unbound, Naturals

CONSTANTS
  MaxCrashes,   \* bound on commands killed half-way
  MaxUpsets     \* bound on events of the daemon no command asked for

ASSUME BoundsAssumption == MaxCrashes \in Nat /\ MaxUpsets \in Nat

VARIABLES
  config,    \* config.yaml, as Load returns it
  pc,        \* the step the running command is at, "idle" if none runs
  cmd,       \* the command
  zone,      \* the zone it is about
  goal,      \* the configuration it means to save
  phase,     \* "do", or "undo" after a failed attempt
  current,   \* cmdApplyQuiet's copy of the file it is about to replace
  origin,    \* config.yaml, minidns.conf and the daemon when it began
  crashes,   \* commands killed so far
  upsets     \* unasked-for daemon events so far

commandVars == <<cmd, zone, goal, phase, current, origin>>
budgets == <<crashes, upsets>>
vars == <<files, conf, daemon, loaded, started, config, pc, commandVars, budgets>>

NoZone == "nozone"

\* The commands that change config.yaml through changeConfig.
Transactions == {"change", "cloudAdd", "cloudRemove"}
Commands == Transactions \cup
  {"none", "zoneAdd", "zoneRemove", "cloudSync", "upstream", "apply", "install"}

Steps ==
  {"reloadZone", "waitZone", "save", "apply", "fill", "check", "refill",
   "activate", "wait", "restore", "reloadBack", "waitBack", "applied",
   "applyFailed", "rollback", "rollbackFill", "undoSave", "verify",
   "removeFile", "restart", "waitRestart"}

TypeOK ==
  /\ UnboundTypeOK
  /\ config \in ConfigFile
  /\ pc \in Steps \cup {"idle", "succeeded", "failed"}
  /\ cmd \in Commands
  /\ zone \in Zones \cup {NoZone}
  /\ goal \in ConfigFile
  /\ phase \in {"do", "undo"}
  /\ current \in ConfFile
  /\ origin \in [config: ConfigFile, conf: ConfFile, up: BOOLEAN]
  /\ crashes \in 0..MaxCrashes
  /\ upsets \in 0..MaxUpsets

NoOrigin == [config |-> DefaultConfig, conf |-> NoConf, up |-> FALSE]

Init ==
  /\ UnboundInit
  /\ config = DefaultConfig
  /\ pc = "idle"
  /\ cmd = "none"
  /\ zone = NoZone
  /\ goal = DefaultConfig
  /\ phase = "do"
  /\ current = NoConf
  /\ origin = NoOrigin
  /\ crashes = 0
  /\ upsets = 0

-----------------------------------------------------------------------------
(* Starting a command.  Every one loads config.yaml first and gives up if  *)
(* it is not valid; a refusal changes nothing and is not a step.           *)

Begin(c, z, g, first) ==
  /\ pc = "idle"
  /\ Valid(config)
  /\ pc' = first
  /\ cmd' = c
  /\ zone' = z
  /\ goal' = g
  /\ phase' = "do"
  /\ origin' = [config |-> config, conf |-> conf, up |-> daemon = "up"]
  /\ UNCHANGED <<conf, unboundVars, config, current, budgets>>

\* A mutation that touches no zone this host serves: forwarder add and
\* remove, recursion, query-log, blocklist ...; changeConfig validates it.
Change ==
  \E g \in {[config EXCEPT !.opt = o] : o \in Options}
            \cup {[config EXCEPT !.fwd = @ \cup {z}] : z \in Zones}
            \cup {[config EXCEPT !.fwd = @ \ {z}] : z \in Zones} :
    /\ Valid(g)
    /\ Begin("change", NoZone, g, "save")
    /\ UNCHANGED files

\* createZone: the zone file exists before anything refers to it.
ZoneAdd(z) ==
  /\ z \notin config.cloud
  /\ LocalFile(z) \notin files
  /\ Begin("zoneAdd", z, [config EXCEPT !.local = @ \cup {z}], "save")
  /\ files' = files \cup {LocalFile(z)}

\* Mutant: the file goes first, then what refers to it.
ZoneRemoveFileFirst(z) ==
  /\ z \in config.local
  /\ LocalFile(z) \in files
  /\ Begin("zoneRemove", z, [config EXCEPT !.local = @ \ {z}], "save")
  /\ files' = files \ {LocalFile(z)}

\* zone remove: loadLocal needs the zone configured and its file readable.
ZoneRemove(z) ==
  /\ z \in config.local
  /\ LocalFile(z) \in files
  /\ Begin("zoneRemove", z, [config EXCEPT !.local = @ \ {z}], "save")
  /\ UNCHANGED files

\* cloud zone add and sync start with syncZone: fetch, then replace the file.
\* A fetched copy equal to the one on disk ends syncZone right there.
FetchZone(c, z, g, next) ==
  \/ /\ CloudFile(z) \in files
     /\ Begin(c, z, g, next)
     /\ UNCHANGED files
  \/ /\ Begin(c, z, g, "reloadZone")
     /\ files' = files \cup {CloudFile(z)}

CloudAdd(z) ==
  /\ z \notin config.cloud \cup config.local
  /\ FetchZone("cloudAdd", z, [config EXCEPT !.cloud = @ \cup {z}], "save")

CloudSync(z) ==
  /\ z \in config.cloud
  /\ FetchZone("cloudSync", z, config, "succeeded")

CloudRemove(z) ==
  /\ z \in config.cloud
  /\ Begin("cloudRemove", z, [config EXCEPT !.cloud = @ \ {z}], "save")
  /\ UNCHANGED files

\* upstream set: saves, then applies; there is no way back to the old value.
UpstreamSet(o) ==
  /\ Begin("upstream", NoZone, [config EXCEPT !.opt = o], "save")
  /\ UNCHANGED files

\* minidns apply.  Its persistMigration keeps what config.yaml says.
Apply ==
  /\ Begin("apply", NoZone, config, "apply")
  /\ UNCHANGED files

\* minidns install: cmdApply without a reload, then a restart.
Install ==
  /\ Begin("install", NoZone, config, "apply")
  /\ UNCHANGED files

\* The administrator edits config.yaml between two commands.
EditConfig(o) ==
  /\ pc = "idle"
  /\ config' = [config EXCEPT !.opt = o]
  /\ UNCHANGED <<files, conf, unboundVars, pc, commandVars, budgets>>

-----------------------------------------------------------------------------
(* The steps of a command.  Goto leaves everything else as it is.          *)

Goto(next) ==
  /\ pc' = next
  /\ UNCHANGED <<cmd, zone, goal, phase, origin, budgets>>

\* syncZone's ReloadZone: one zone if the daemon knows it, else a reload.
ReloadZone ==
  LET next == IF cmd = "cloudAdd" THEN "save" ELSE "succeeded" IN
  /\ pc = "reloadZone"
  /\ IF \/ ~Active
        \/ ControlAnswers /\ CloudFile(zone) \in Referenced(loaded)
     THEN Goto(next) /\ UNCHANGED unboundVars
     ELSE Goto("waitZone") /\ RequestReload
  /\ UNCHANGED <<files, conf, config, current>>

\* config.Save replaces config.yaml by a rename.
SaveConfig ==
  /\ pc = "save"
  /\ config' = goal
  /\ Goto("apply")
  /\ cmd \in Transactions => Valid(goal)
  /\ UNCHANGED <<files, conf, unboundVars, current>>

\* changeConfig refuses the new replica; its copy is deleted again.
CloudAddInvalid ==
  /\ pc = "save"
  /\ cmd = "cloudAdd"
  /\ ~Valid(goal)
  /\ pc' = "removeFile"
  /\ phase' = "undo"
  /\ UNCHANGED <<files, conf, unboundVars, config, current, cmd, zone, goal,
                 origin, budgets>>

\* cmdApplyQuiet loads config.yaml and starts to overwrite minidns.conf.
TruncateConf ==
  /\ pc = "apply"
  /\ IF Valid(config)
     THEN current' = conf /\ conf' = EmptyConf /\ Goto("fill")
     ELSE Goto("applyFailed") /\ UNCHANGED <<current, conf>>
  /\ UNCHANGED <<files, unboundVars, config>>

\* Mutant: the bytes of config.yaml are written, not their rendering.
FillUnrendered ==
  /\ pc = "fill"
  /\ conf' = config
  /\ Goto("check")
  /\ UNCHANGED <<files, unboundVars, config, current>>

FillConf ==
  /\ pc = "fill"
  /\ conf' = Render(config, files)
  /\ Goto("check")
  /\ UNCHANGED <<files, unboundVars, config, current>>

\* WriteConf checks what it has installed, and puts the old file back.
CheckInstalled ==
  /\ pc = "check"
  /\ \/ /\ CheckConf(conf)
        /\ Goto(IF cmd = "install" THEN "restart" ELSE "activate")
        /\ UNCHANGED conf
     \/ /\ ~CheckConf(conf)
        /\ current = NoConf
        /\ conf' = NoConf
        /\ Goto("applyFailed")
     \/ /\ ~CheckConf(conf)
        /\ current # NoConf
        /\ conf' = EmptyConf
        /\ Goto("refill")
  /\ UNCHANGED <<files, unboundVars, config, current>>

\* Mutant: the old file is put back, but the error is lost.
RefillReportsSuccess ==
  /\ pc = "refill"
  /\ conf' = current
  /\ Goto("applied")
  /\ UNCHANGED <<files, unboundVars, config, current>>

RefillConf ==
  /\ pc = "refill"
  /\ conf' = current
  /\ Goto("applyFailed")
  /\ UNCHANGED <<files, unboundVars, config, current>>

\* Mutant: a reload, whatever has changed.
ActivateByReload ==
  /\ pc = "activate"
  /\ \/ /\ conf = current \/ ~Active
        /\ Goto("applied")
        /\ UNCHANGED unboundVars
     \/ /\ conf # current /\ Active
        /\ RequestReload
        /\ Goto("wait")
  /\ UNCHANGED <<files, conf, config, current>>

\* cmdApplyQuiet's choice between nothing, a restart and a reload.
Activate ==
  /\ pc = "activate"
  /\ \/ /\ conf = current \/ ~Active
        /\ Goto("applied")
        /\ UNCHANGED unboundVars
     \/ /\ conf # current /\ Active
        /\ StartupOptions(conf) # StartupOptions(current)
        /\ RequestRestart
        /\ Goto("wait")
     \/ /\ conf # current /\ Active
        /\ StartupOptions(conf) = StartupOptions(current)
        /\ RequestReload
        /\ Goto("wait")
  /\ UNCHANGED <<files, conf, config, current>>

\* WaitReady returned: the daemon answers, it is gone, or the deadline has
\* passed while it was still loading.
Ready == daemon = "up" /\ UNCHANGED budgets
Gone == daemon = "down" /\ UNCHANGED budgets
TimedOut ==
  /\ daemon \notin {"up", "down"}
  /\ upsets < MaxUpsets
  /\ upsets' = upsets + 1
  /\ UNCHANGED crashes

AfterWait(next) ==
  pc' = next /\ UNCHANGED <<cmd, zone, goal, phase, origin>>

\* Mutant: the refused candidate stays in place.
WaitWithoutRestore ==
  /\ pc = "wait"
  /\ \/ Ready /\ AfterWait("applied")
     \/ (Gone \/ TimedOut) /\ AfterWait("applyFailed")
  /\ UNCHANGED <<files, conf, unboundVars, config, current>>

\* cmdApplyQuiet's reload or restart; on failure the file that was there
\* before is written back, unless there was none or an empty one.
WaitActivated ==
  /\ pc = "wait"
  /\ \/ Ready /\ AfterWait("applied") /\ UNCHANGED conf
     \/ /\ Gone \/ TimedOut
        /\ IF HasText(current)
           THEN conf' = EmptyConf /\ AfterWait("restore")
           ELSE AfterWait("applyFailed") /\ UNCHANGED conf
  /\ UNCHANGED <<files, unboundVars, config, current>>

RestoreConf ==
  /\ pc = "restore"
  /\ conf' = current
  /\ Goto("reloadBack")
  /\ UNCHANGED <<files, unboundVars, config, current>>

ReloadBack ==
  /\ pc = "reloadBack"
  /\ RequestReload
  /\ Goto("waitBack")
  /\ UNCHANGED <<files, conf, config, current>>

\* Whether the previous file came back is not looked at.
WaitBack ==
  /\ pc = "waitBack"
  /\ Ready \/ Gone \/ TimedOut
  /\ AfterWait("applyFailed")
  /\ UNCHANGED <<files, conf, unboundVars, config, current>>

WaitZoneReloaded ==
  /\ pc = "waitZone"
  /\ \/ Ready /\ AfterWait(IF cmd = "cloudAdd" THEN "save" ELSE "succeeded")
     \/ (Gone \/ TimedOut) /\ AfterWait("failed")
  /\ UNCHANGED <<files, conf, unboundVars, config, current>>

RestartInstalled ==
  /\ pc = "restart"
  /\ RequestRestart
  /\ Goto("waitRestart")
  /\ UNCHANGED <<files, conf, config, current>>

WaitInstalled ==
  /\ pc = "waitRestart"
  /\ \/ Ready /\ AfterWait("succeeded")
     \/ (Gone \/ TimedOut) /\ AfterWait("failed")
  /\ UNCHANGED <<files, conf, unboundVars, config, current>>

-----------------------------------------------------------------------------
(* What each command makes of cmdApplyQuiet's verdict.                     *)

Removals == {"zoneRemove", "cloudRemove"}
Additions == {"zoneAdd", "cloudAdd"}

Applied ==
  /\ pc = "applied"
  /\ phase = "do"
  /\ Goto(CASE cmd = "zoneAdd"    -> "verify"
            [] cmd \in Removals   -> "removeFile"
            [] OTHER              -> "succeeded")
  /\ UNCHANGED <<files, conf, unboundVars, config, current>>

\* Mutant: changeConfig returns the error and keeps what it has saved.
FailWithoutRollBack ==
  /\ pc = "applyFailed"
  /\ phase = "do"
  /\ Goto(IF cmd = "zoneAdd" THEN "undoSave" ELSE "failed")
  /\ UNCHANGED <<files, conf, unboundVars, config, current>>

ApplyFailed ==
  /\ pc = "applyFailed"
  /\ phase = "do"
  /\ Goto(CASE cmd = "zoneAdd"        -> "undoSave"
            [] cmd \in Transactions   -> "rollback"
            [] OTHER                  -> "failed")
  /\ UNCHANGED <<files, conf, unboundVars, config, current>>

\* Mutant: an undo that fails is tried again.
UndoRetried ==
  /\ pc \in {"applied", "applyFailed"}
  /\ phase = "undo"
  /\ Goto(IF pc = "applyFailed" THEN "apply"
          ELSE IF cmd \in Additions THEN "removeFile" ELSE "failed")
  /\ UNCHANGED <<files, conf, unboundVars, config, current>>

\* The undo's own cmdApplyQuiet: its result is not looked at.
UndoApplied ==
  /\ pc \in {"applied", "applyFailed"}
  /\ phase = "undo"
  /\ Goto(IF cmd \in Additions THEN "removeFile" ELSE "failed")
  /\ UNCHANGED <<files, conf, unboundVars, config, current>>

\* changeConfig writes the previous bytes back in place: an empty file,
\* which Load takes for the defaults, comes first.
RollBack ==
  /\ pc = "rollback"
  /\ config' = DefaultConfig
  /\ Goto("rollbackFill")
  /\ UNCHANGED <<files, conf, unboundVars, current>>

Undo(c) ==
  /\ config' = c
  /\ phase' = "undo"
  /\ pc' = "apply"
  /\ UNCHANGED <<files, conf, unboundVars, current, cmd, zone, goal, origin,
                 budgets>>

\* Mutant: the bytes to go back to were read after the change was saved.
RollBackToGoal == pc = "rollbackFill" /\ Undo(goal)

RollBackFill == pc = "rollbackFill" /\ Undo(origin.config)

\* Mutant: the zone stays in config.yaml.
UndoKeepsZone == pc = "undoSave" /\ Undo(config)

\* createZone's undo.
UndoSave ==
  pc = "undoSave" /\ Undo([config EXCEPT !.local = @ \ {zone}])

\* createZone asks the daemon for the SOA it should serve by now.  Without an
\* answer, for whatever reason, the zone counts as not served.
VerifyServed ==
  /\ pc = "verify"
  /\ \/ ~Active /\ Goto("succeeded")
     \/ Active /\ LocalFile(zone) \in Referenced(loaded) /\ Goto("succeeded")
     \/ Active /\ Goto("undoSave")
  /\ UNCHANGED <<files, conf, unboundVars, config, current>>

RemoveFile ==
  /\ pc = "removeFile"
  /\ files' = files \ {IF cmd \in {"zoneAdd", "zoneRemove"}
                       THEN LocalFile(zone) ELSE CloudFile(zone)}
  /\ Goto(IF phase = "do" THEN "succeeded" ELSE "failed")
  /\ UNCHANGED <<conf, unboundVars, config, current>>

EndProcess ==
  /\ pc' = "idle"
  /\ cmd' = "none"
  /\ zone' = NoZone
  /\ goal' = DefaultConfig
  /\ phase' = "do"
  /\ current' = NoConf
  /\ origin' = NoOrigin
  /\ UNCHANGED <<files, conf, unboundVars, config, upsets>>

\* The process exits and the kernel drops its lock.
Exit ==
  /\ pc \in {"succeeded", "failed"}
  /\ EndProcess
  /\ UNCHANGED crashes

\* The command is killed, or the host goes down, between two steps.
Crash ==
  /\ pc \in Steps
  /\ crashes < MaxCrashes
  /\ crashes' = crashes + 1
  /\ EndProcess

-----------------------------------------------------------------------------
(* The daemon, and the whole.                                              *)

others == <<config, pc, commandVars, budgets>>

Upset ==
  /\ upsets < MaxUpsets
  /\ upsets' = upsets + 1
  /\ DaemonExits \/ DaemonStarted
  /\ UNCHANGED <<config, pc, commandVars, crashes>>

Daemon == (DaemonReads \/ DaemonReady) /\ UNCHANGED others

Start ==
  \/ Change \/ Apply \/ Install
  \/ \E z \in Zones : \/ ZoneAdd(z) \/ ZoneRemove(z)
                      \/ CloudAdd(z) \/ CloudSync(z) \/ CloudRemove(z)
  \/ \E o \in Options : UpstreamSet(o)

Step ==
  \/ ReloadZone \/ SaveConfig \/ CloudAddInvalid
  \/ TruncateConf \/ FillConf \/ CheckInstalled \/ RefillConf
  \/ Activate \/ WaitActivated \/ RestoreConf \/ ReloadBack \/ WaitBack
  \/ WaitZoneReloaded \/ RestartInstalled \/ WaitInstalled
  \/ Applied \/ ApplyFailed \/ UndoApplied \/ RollBack \/ RollBackFill
  \/ UndoSave \/ VerifyServed \/ RemoveFile \/ Exit

Next ==
  \/ Start \/ Step \/ Daemon \/ Upset \/ Crash
  \/ \E o \in Options : EditConfig(o)

Spec == Init /\ [][Next]_vars

\* A command that is not killed keeps running, and the daemon works off what
\* it was asked to do.  Nobody has to start a command, edit or upset anything.
Fairness == WF_vars(Step) /\ WF_vars(Daemon)

FairSpec == Spec /\ Fairness

-----------------------------------------------------------------------------
(* Correctness.                                                            *)

NoFaults == crashes = 0 /\ upsets = 0
AtRest == pc \in {"idle", "succeeded", "failed"}

\* minidns.conf never names a zone file that is not on disk: unbound exits if
\* a reload or a start comes upon one (localzone.go's "config first, file
\* second", Render's fileExists, the order of createZone's undo).
ReferencedFilesExist == NoFaults => Referenced(conf) \subseteq files

\* Whenever no command is at work, a daemon that is up serves exactly the
\* minidns.conf on disk, the options it read at start-up included.
DaemonServesActiveFile ==
  NoFaults /\ AtRest /\ daemon = "up" =>
    loaded = conf /\ started = StartupOptions(conf)

\* A command whose candidate the daemon refuses leaves the daemon as up as it
\* found it: cmdApplyQuiet's restore brings it back with the previous file.
NeverTakesDaemonDown ==
  /\ NoFaults /\ pc \in {"succeeded", "failed"}
  /\ origin.up /\ HasText(origin.conf) /\ cmd # "install"
  => daemon = "up"

\* changeConfig is a transaction, whatever the daemon does meanwhile: if it
\* fails, config.yaml is what it was and minidns.conf is what it was or what
\* that config.yaml renders to.
FailureRestores ==
  pc = "failed" /\ cmd \in Transactions /\ HasText(origin.conf) =>
    /\ config = origin.config
    /\ conf \in {origin.conf, Render(config, files)}

\* A command that reports success has installed what config.yaml renders to,
\* whatever happened to the daemon, and nothing of a removed zone is left.
SuccessInstalls ==
  pc = "succeeded" /\ cmd # "cloudSync" => conf = Render(config, files)

\* Between commands, config.yaml is one that Load accepts: otherwise every
\* later command refuses to run (createZone saves without validating).
ConfigLoads == crashes = 0 /\ AtRest => Valid(config)

\* What a command that runs is hiding: until it ends, the two files count as
\* they were when it began.
storeView == IF pc \in Steps THEN origin.config ELSE config
activeView == IF pc \in Steps THEN origin.conf ELSE conf
doneView == IF pc \in {"succeeded", "failed"} THEN cmd ELSE "none"
resultView == IF pc \in {"succeeded", "failed"} THEN pc ELSE "none"

Transaction ==
  INSTANCE ConfigTransaction WITH store <- storeView, active <- activeView,
                                  done <- doneView, result <- resultView

\* Seen from outside, the commands change config.yaml and minidns.conf the
\* way ConfigTransaction allows, as long as none is killed half-way.
ImplementsTransaction == Transaction!Spec

\* A command that is not killed comes to an end and gives up the state lock.
CommandEnds == (pc # "idle") ~> (pc = "idle")
=============================================================================
