------------------------------ MODULE Unbound -------------------------------
(***************************************************************************)
(* The unbound daemon as minidns drives it (unbound-control, systemctl).   *)
(* unbound is not part of the repository: this is the behaviour control.go *)
(* relies on.  A reload or a start is only requested; the daemon re-reads  *)
(* minidns.conf and the zone files some time later, exits if one of them   *)
(* is missing or does not load, and answers on its control channel once it *)
(* is serving again.                                                       *)
(***************************************************************************)
EXTENDS Config

VARIABLES
  files,    \* the zone files on disk
  conf,     \* minidns.conf on disk
  daemon,   \* the state of the daemon, see DaemonStates
  loaded,   \* the minidns.conf the daemon read last
  started   \* the start-up options its process was started with

DaemonStates ==
  {"down",        \* no process
   "queued",      \* serving, a reload is queued
   "reloading",   \* has re-read its files, not answering yet
   "starting",    \* a new process that has read nothing yet
   "booting",     \* a new process that has read its files
   "up"}          \* serving and answering on the control channel

unboundVars == <<daemon, loaded, started>>

StartupValues == {Startup[o] : o \in Options} \cup {NoStartup}

UnboundTypeOK ==
  /\ files \in SUBSET ZoneFiles
  /\ conf \in ConfFile
  /\ daemon \in DaemonStates
  /\ loaded \in ConfFile
  /\ started \in StartupValues

\* A freshly installed host: unbound runs without a minidns.conf.
UnboundInit ==
  /\ files = {}
  /\ conf = NoConf
  /\ daemon = "up"
  /\ loaded = NoConf
  /\ started = NoStartup

\* unbound.Active: the control channel answers, or systemd calls the unit
\* active, which it does during a reload but not before a start has ended.
Active == daemon \in {"queued", "reloading", "up"}

\* unbound.Control: the channel answers only while the daemon is serving.
ControlAnswers == daemon = "up"

\* What the daemon needs to find when it reads its configuration.
Loadable ==
  /\ Referenced(conf) \subseteq files
  /\ HasText(conf) => conf.opt \notin Rejected \cup Unstartable

\* The daemon reads minidns.conf and every file it references.  A reload
\* keeps the process and with it the options read only at start-up.
DaemonReads ==
  /\ daemon \in {"queued", "starting"}
  /\ IF Loadable
     THEN /\ loaded' = conf
          /\ daemon' = IF daemon = "queued" THEN "reloading" ELSE "booting"
          /\ started' = IF daemon = "queued" THEN started
                                             ELSE StartupOptions(conf)
     ELSE /\ daemon' = "down"
          /\ UNCHANGED <<loaded, started>>
  /\ UNCHANGED <<files, conf>>

DaemonReady ==
  /\ daemon \in {"reloading", "booting"}
  /\ daemon' = "up"
  /\ UNCHANGED <<files, conf, loaded, started>>

\* The process dies for reasons of its own.
DaemonExits ==
  /\ daemon # "down"
  /\ daemon' = "down"
  /\ UNCHANGED <<files, conf, loaded, started>>

\* systemd, a boot or the administrator starts it.
DaemonStarted ==
  /\ daemon = "down"
  /\ daemon' = "starting"
  /\ UNCHANGED <<files, conf, loaded, started>>

\* Restart: systemctl restart.
RequestRestart == daemon' = "starting" /\ UNCHANGED <<loaded, started>>

\* Reload: unbound-control reload, or systemctl restart if that fails.
RequestReload ==
  IF ControlAnswers THEN daemon' = "queued" /\ UNCHANGED <<loaded, started>>
                    ELSE RequestRestart
=============================================================================
