------------------------------- MODULE Config -------------------------------
(***************************************************************************)
(* config.yaml and the unbound fragment minidns renders from it.           *)
(*                                                                         *)
(* config.yaml is kept at the detail activation depends on: which zones    *)
(* are local, which are cloud replicas, which are forwarded elsewhere, and *)
(* one opt that stands for every remaining setting (forwarders, recursion, *)
(* listen addresses, logging, ...).  The rendered minidns.conf is the set  *)
(* of zone files it references, its forward clauses and that opt.          *)
(***************************************************************************)
EXTENDS FiniteSets

CONSTANTS
  Zones,          \* names a zone can have
  Options,        \* values of the settings that are not zones
  DefaultOption,  \* the settings config.Default() returns
  Rejected,       \* settings unbound-checkconf refuses
  Unstartable,    \* settings checkconf accepts but the daemon cannot load
  Startup,        \* the part of the settings unbound reads only at start-up
  NoConf,         \* minidns.conf does not exist
  EmptyConf       \* minidns.conf was truncated and not yet written

ConfigFile ==
  [local: SUBSET Zones, cloud: SUBSET Zones, fwd: SUBSET Zones, opt: Options]

\* What Load returns for a missing file, and for one truncated to nothing.
DefaultConfig ==
  [local |-> {}, cloud |-> {}, fwd |-> {}, opt |-> DefaultOption]

\* config.Validate: a name is local, a replica or forwarded, never two of them.
Valid(c) ==
  /\ c.local \cap c.cloud = {}
  /\ c.fwd \cap (c.local \cup c.cloud) = {}

ZoneFiles == {"local", "cloud"} \X Zones
LocalFile(z) == <<"local", z>>
CloudFile(z) == <<"cloud", z>>

RenderedConf == [refs: SUBSET ZoneFiles, fwd: SUBSET Zones, opt: Options]
ConfFile == RenderedConf \cup {NoConf, EmptyConf}

\* unbound.Render: only zone files that exist on disk are referenced.
Render(c, files) ==
  [refs |-> {f \in files : \/ f[1] = "local" /\ f[2] \in c.local
                           \/ f[1] = "cloud" /\ f[2] \in c.cloud},
   fwd  |-> c.fwd,
   opt  |-> c.opt]

HasText(conf) == conf \notin {NoConf, EmptyConf}
Referenced(conf) == IF HasText(conf) THEN conf.refs ELSE {}

\* CheckConf's verdict on the installed fragment.
CheckConf(conf) == HasText(conf) => conf.opt \notin Rejected

\* startupOptions: "" for a fragment that is missing or empty.
NoStartup == "none"
StartupOptions(conf) == IF HasText(conf) THEN Startup[conf.opt] ELSE NoStartup

ASSUME ConstantsAssumption ==
  /\ DefaultOption \in Options
  /\ DefaultOption \notin Rejected \cup Unstartable
  /\ Rejected \subseteq Options
  /\ Unstartable \subseteq Options
  /\ NoConf \notin RenderedConf
  /\ EmptyConf \notin RenderedConf
  /\ NoConf # EmptyConf
=============================================================================
