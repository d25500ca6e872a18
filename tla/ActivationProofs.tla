-------------------------- MODULE ActivationProofs --------------------------
(***************************************************************************)
(* Proofs about Activation, for any zones and settings and any number of   *)
(* kills and daemon failures.                                              *)
(***************************************************************************)
EXTENDS Activation, TLAPS

-----------------------------------------------------------------------------
(* What a rendered fragment is.                                            *)

\* Render yields a fragment, and one that is not empty.
LEMMA RenderType ==
  ASSUME NEW c \in ConfigFile, NEW fs \in SUBSET ZoneFiles
  PROVE  /\ Render(c, fs) \in RenderedConf
         /\ HasText(Render(c, fs))
  BY ConstantsAssumption DEF Render, RenderedConf, ConfigFile, HasText

-----------------------------------------------------------------------------
(* Types.                                                                  *)

LEMMA BeginType ==
  ASSUME TypeOK,
         NEW c \in Commands, NEW z \in Zones \cup {NoZone}, NEW g \in ConfigFile,
         NEW first \in Steps \cup {"succeeded"},
         Begin(c, z, g, first), files' \in SUBSET ZoneFiles
  PROVE  TypeOK'
  BY DEF TypeOK, UnboundTypeOK, Begin, unboundVars, budgets, NoZone

LEMMA TypeInit == Init => TypeOK
  BY ConstantsAssumption, BoundsAssumption
  DEF Init, UnboundInit, TypeOK, UnboundTypeOK, ConfFile, DaemonStates,
      StartupValues, NoStartup, ConfigFile, DefaultConfig, Commands, NoOrigin,
      Transactions

LEMMA TypeStart == TypeOK /\ Start => TypeOK'
<1> SUFFICES ASSUME TypeOK, Start PROVE TypeOK'
  OBVIOUS
<1> USE DEF Commands, Transactions, Steps, ZoneFiles, LocalFile, CloudFile
<1>0. config \in ConfigFile /\ files \in SUBSET ZoneFiles
  BY DEF TypeOK, UnboundTypeOK
<1>1. CASE Change
  <2>1. /\ \A o \in Options : [config EXCEPT !.opt = o] \in ConfigFile
        /\ \A z \in Zones : [config EXCEPT !.fwd = @ \cup {z}] \in ConfigFile
        /\ \A z \in Zones : [config EXCEPT !.fwd = @ \ {z}] \in ConfigFile
    BY <1>0 DEF ConfigFile
  <2>2. PICK g \in {[config EXCEPT !.opt = o] : o \in Options}
                   \cup {[config EXCEPT !.fwd = @ \cup {z}] : z \in Zones}
                   \cup {[config EXCEPT !.fwd = @ \ {z}] : z \in Zones} :
               Begin("change", NoZone, g, "save") /\ UNCHANGED files
    BY <1>1 DEF Change
  <2>3. g \in ConfigFile
    BY <2>1
  <2> QED
    BY <1>0, <2>2, <2>3, BeginType
<1>2. CASE Apply
  BY <1>0, <1>2, BeginType DEF Apply, NoZone
<1>3. CASE Install
  BY <1>0, <1>3, BeginType DEF Install, NoZone
<1>4. ASSUME NEW z \in Zones, ZoneAdd(z) PROVE TypeOK'
  <2>1. [config EXCEPT !.local = @ \cup {z}] \in ConfigFile
    BY <1>0 DEF ConfigFile
  <2>2. files' \in SUBSET ZoneFiles
    BY <1>0, <1>4 DEF ZoneAdd, Begin
  <2> QED
    BY <1>0, <1>4, <2>1, <2>2, BeginType DEF ZoneAdd
<1>5. ASSUME NEW z \in Zones, ZoneRemove(z) PROVE TypeOK'
  <2>1. [config EXCEPT !.local = @ \ {z}] \in ConfigFile
    BY <1>0 DEF ConfigFile
  <2> QED
    BY <1>0, <1>5, <2>1, BeginType DEF ZoneRemove
<1>6. ASSUME NEW z \in Zones, CloudAdd(z) PROVE TypeOK'
  <2>1. [config EXCEPT !.cloud = @ \cup {z}] \in ConfigFile
    BY <1>0 DEF ConfigFile
  <2>2. files' \in SUBSET ZoneFiles
    BY <1>0, <1>6 DEF CloudAdd, FetchZone, Begin
  <2> QED
    BY <1>0, <1>6, <2>1, <2>2, BeginType DEF CloudAdd, FetchZone
<1>7. ASSUME NEW z \in Zones, CloudSync(z) PROVE TypeOK'
  <2>1. files' \in SUBSET ZoneFiles
    BY <1>0, <1>7 DEF CloudSync, FetchZone, Begin
  <2> QED
    BY <1>0, <1>7, <2>1, BeginType DEF CloudSync, FetchZone
<1>8. ASSUME NEW z \in Zones, CloudRemove(z) PROVE TypeOK'
  <2>1. [config EXCEPT !.cloud = @ \ {z}] \in ConfigFile
    BY <1>0 DEF ConfigFile
  <2> QED
    BY <1>0, <1>8, <2>1, BeginType DEF CloudRemove
<1>9. ASSUME NEW o \in Options, UpstreamSet(o) PROVE TypeOK'
  <2>1. [config EXCEPT !.opt = o] \in ConfigFile
    BY <1>0 DEF ConfigFile
  <2> QED
    BY <1>0, <1>9, <2>1, BeginType DEF UpstreamSet, NoZone
<1> QED
  BY <1>1, <1>2, <1>3, <1>4, <1>5, <1>6, <1>7, <1>8, <1>9 DEF Start

LEMMA TypeStep == TypeOK /\ Step => TypeOK'
<1> SUFFICES ASSUME TypeOK, Step PROVE TypeOK'
  OBVIOUS
<1> USE DEF TypeOK, UnboundTypeOK, unboundVars, budgets, Goto, AfterWait, Steps
<1>1. CASE ReloadZone
  BY <1>1 DEF ReloadZone, RequestReload, RequestRestart, DaemonStates
<1>2. CASE SaveConfig
  BY <1>2 DEF SaveConfig
<1>3. CASE CloudAddInvalid
  BY <1>3 DEF CloudAddInvalid
<1>4. CASE TruncateConf
  BY <1>4 DEF TruncateConf, ConfFile
<1>5. CASE FillConf
  BY <1>5, RenderType DEF FillConf, ConfFile
<1>6. CASE CheckInstalled
  BY <1>6 DEF CheckInstalled, ConfFile
<1>7. CASE RefillConf
  BY <1>7 DEF RefillConf
<1>8. CASE Activate
  BY <1>8 DEF Activate, RequestReload, RequestRestart, DaemonStates
<1>9. CASE WaitActivated
  BY <1>9, BoundsAssumption
  DEF WaitActivated, Ready, Gone, TimedOut, ConfFile
<1>10. CASE RestoreConf
  BY <1>10 DEF RestoreConf
<1>11. CASE ReloadBack
  BY <1>11 DEF ReloadBack, RequestReload, RequestRestart, DaemonStates
<1>12. CASE WaitBack
  BY <1>12, BoundsAssumption DEF WaitBack, Ready, Gone, TimedOut
<1>13. CASE WaitZoneReloaded
  BY <1>13, BoundsAssumption DEF WaitZoneReloaded, Ready, Gone, TimedOut
<1>14. CASE RestartInstalled
  BY <1>14 DEF RestartInstalled, RequestRestart, DaemonStates
<1>15. CASE WaitInstalled
  BY <1>15, BoundsAssumption DEF WaitInstalled, Ready, Gone, TimedOut
<1>16. CASE Applied
  BY <1>16 DEF Applied
<1>17. CASE ApplyFailed
  BY <1>17 DEF ApplyFailed
<1>18. CASE UndoApplied
  BY <1>18 DEF UndoApplied
<1>19. CASE RollBack
  BY <1>19, ConstantsAssumption DEF RollBack, DefaultConfig, ConfigFile
<1>20. CASE RollBackFill
  BY <1>20 DEF RollBackFill, Undo
<1>21. CASE UndoSave
  BY <1>21 DEF UndoSave, Undo, ConfigFile
<1>22. CASE VerifyServed
  BY <1>22 DEF VerifyServed
<1>23. CASE RemoveFile
  BY <1>23 DEF RemoveFile
<1>24. CASE Exit
  BY <1>24, ConstantsAssumption
  DEF Exit, EndProcess, NoOrigin, DefaultConfig, ConfigFile, ConfFile, Commands
<1> QED
  BY <1>1, <1>2, <1>3, <1>4, <1>5, <1>6, <1>7, <1>8, <1>9, <1>10, <1>11, <1>12,
     <1>13, <1>14, <1>15, <1>16, <1>17, <1>18, <1>19, <1>20, <1>21, <1>22,
     <1>23, <1>24
  DEF Step

LEMMA TypeDaemon == TypeOK /\ (Daemon \/ Upset) => TypeOK'
  BY BoundsAssumption
  DEF TypeOK, UnboundTypeOK, Daemon, Upset, DaemonReads, DaemonReady,
      DaemonExits, DaemonStarted, DaemonStates, others, budgets, commandVars,
      StartupOptions, StartupValues, HasText, RenderedConf, ConfFile

LEMMA TypeOther ==
  TypeOK /\ (Crash \/ (\E o \in Options : EditConfig(o)) \/ UNCHANGED vars)
    => TypeOK'
<1> SUFFICES ASSUME TypeOK,
                    Crash \/ (\E o \in Options : EditConfig(o)) \/ UNCHANGED vars
             PROVE  TypeOK'
  OBVIOUS
<1> USE DEF TypeOK, UnboundTypeOK, unboundVars, commandVars, budgets
<1>1. CASE Crash
  BY <1>1, ConstantsAssumption, BoundsAssumption
  DEF Crash, EndProcess, NoOrigin, DefaultConfig, ConfigFile, ConfFile, Commands
<1>2. CASE \E o \in Options : EditConfig(o)
  BY <1>2 DEF EditConfig, ConfigFile
<1>3. CASE UNCHANGED vars
  BY <1>3 DEF vars
<1> QED
  BY <1>1, <1>2, <1>3

\* Every variable keeps to the values listed for it, in every behaviour.
THEOREM TypeCorrect == Spec => []TypeOK
<1>1. TypeOK /\ [Next]_vars => TypeOK'
  BY TypeStart, TypeStep, TypeDaemon, TypeOther DEF Next
<1> QED
  BY <1>1, TypeInit, PTL DEF Spec

-----------------------------------------------------------------------------
(* Success and failure.  The argument follows the two files along the      *)
(* steps of a command: minidns.conf is the one the command found (AtOrigin)*)
(* until it is overwritten, the copy in current is that one meanwhile      *)
(* (Holding), and once filled it is what config.yaml renders to (AtGoal).  *)
(* createZone's undo starts from its own candidate and is left out.        *)

AtOrigin == {"reloadZone", "waitZone", "save", "apply", "reloadBack",
             "waitBack", "applyFailed", "rollback", "rollbackFill"}
Holding == {"fill", "check", "refill", "activate", "wait", "restore"}
AtGoal == {"check", "activate", "wait", "restart", "waitRestart", "applied",
           "verify"}

FromOrigin == phase = "do" \/ cmd \in Transactions

CommandShape ==
  /\ pc = "idle" => cmd = "none"
  /\ pc \in {"idle", "reloadZone", "waitZone", "save", "rollback",
            "rollbackFill", "verify", "undoSave"} => phase = "do"
  /\ pc \in {"restart", "waitRestart"} => cmd = "install"
  /\ pc \in {"reloadZone", "waitZone"} => cmd \in {"cloudAdd", "cloudSync"}
  /\ pc \in {"rollback", "rollbackFill"} => cmd \in Transactions
  /\ pc \in {"verify", "undoSave"} => cmd = "zoneAdd"
  /\ pc = "removeFile" /\ phase = "do" => cmd \in Removals
  /\ pc = "removeFile" /\ phase = "undo" => cmd \in Additions
  /\ phase = "undo" => cmd \in Transactions \cup {"zoneAdd"}
  /\ cmd = "zoneRemove" => zone \notin goal.local
  /\ cmd = "cloudRemove" => zone \notin goal.cloud
  /\ cmd = "cloudAdd" => zone \notin origin.config.cloud

FragmentInv ==
  /\ pc \in AtGoal => conf = Render(config, files)
  /\ pc = "removeFile" /\ phase = "do" =>
       conf = Render(config, files) /\ config = goal
  /\ FromOrigin /\ HasText(origin.conf) =>
       /\ pc \in AtOrigin => conf = origin.conf
       /\ pc \in Holding => current = origin.conf
       /\ pc = "removeFile" /\ phase = "undo" =>
            conf \in {origin.conf, Render(config, files)}

StoreInv ==
  /\ /\ phase = "do" /\ cmd \in Removals
     /\ pc \in Holding \cup {"apply", "applied"}
     => config = goal
  /\ cmd \in Transactions =>
       (phase = "undo" \/ pc \in {"reloadZone", "waitZone", "save"}
          => config = origin.config)

TransactionInv ==
  CommandShape /\ FragmentInv /\ StoreInv /\ SuccessInstalls /\ FailureRestores

\* What Render leaves out does not depend on whether its file exists.
LEMMA RenderWithout ==
  ASSUME NEW c, NEW fs, NEW z,
         NEW f \in {LocalFile(z), CloudFile(z)},
         f = LocalFile(z) => z \notin c.local,
         f = CloudFile(z) => z \notin c.cloud
  PROVE  Render(c, fs \ {f}) = Render(c, fs)
  BY DEF Render, LocalFile, CloudFile

LEMMA TransactionInit == Init => TransactionInv
  BY DEF Init, TransactionInv, CommandShape, FragmentInv, StoreInv, AtOrigin,
         Holding, AtGoal, SuccessInstalls, FailureRestores, Transactions

\* A command that begins holds the files as it finds them.
LEMMA TransactionBegin ==
  ASSUME NEW c \in Commands, NEW z, NEW g, NEW first, Begin(c, z, g, first),
         first \in {"save", "reloadZone", "apply", "succeeded"},
         first = "succeeded" => c = "cloudSync",
         first = "reloadZone" => c \in {"cloudAdd", "cloudSync"},
         c = "zoneRemove" => z \notin g.local,
         c = "cloudRemove" => z \notin g.cloud,
         c = "cloudAdd" => z \notin config.cloud,
         first = "apply" => c \in {"apply", "install"}
  PROVE  TransactionInv'
  BY DEF Begin, TransactionInv, CommandShape, FragmentInv, StoreInv, AtOrigin,
         Holding, AtGoal, SuccessInstalls, FailureRestores, Transactions,
         Removals, Commands

LEMMA TransactionStart == TypeOK /\ Start => TransactionInv'
<1> SUFFICES ASSUME TypeOK, Start PROVE TransactionInv'
  OBVIOUS
<1> USE DEF Commands, Transactions
<1>0. config \in ConfigFile
  BY DEF TypeOK
<1>1. CASE Change
  BY <1>1, TransactionBegin DEF Change
<1>2. CASE Apply
  BY <1>2, TransactionBegin DEF Apply
<1>3. CASE Install
  BY <1>3, TransactionBegin DEF Install
<1>4. ASSUME NEW z \in Zones, ZoneAdd(z) PROVE TransactionInv'
  BY <1>4, TransactionBegin DEF ZoneAdd
<1>5. ASSUME NEW z \in Zones, ZoneRemove(z) PROVE TransactionInv'
  <2> DEFINE g == [config EXCEPT !.local = @ \ {z}]
  <2>1. z \notin g.local
    BY <1>0 DEF ConfigFile
  <2>2. Begin("zoneRemove", z, g, "save")
    BY <1>5 DEF ZoneRemove
  <2> HIDE DEF g
  <2> QED
    BY <2>1, <2>2, TransactionBegin
<1>6. ASSUME NEW z \in Zones, CloudAdd(z) PROVE TransactionInv'
  BY <1>6, TransactionBegin DEF CloudAdd, FetchZone
<1>7. ASSUME NEW z \in Zones, CloudSync(z) PROVE TransactionInv'
  BY <1>7, TransactionBegin DEF CloudSync, FetchZone
<1>8. ASSUME NEW z \in Zones, CloudRemove(z) PROVE TransactionInv'
  <2> DEFINE g == [config EXCEPT !.cloud = @ \ {z}]
  <2>1. z \notin g.cloud
    BY <1>0 DEF ConfigFile
  <2>2. Begin("cloudRemove", z, g, "save")
    BY <1>8 DEF CloudRemove
  <2> HIDE DEF g
  <2> QED
    BY <2>1, <2>2, TransactionBegin
<1>9. ASSUME NEW o \in Options, UpstreamSet(o) PROVE TransactionInv'
  BY <1>9, TransactionBegin DEF UpstreamSet
<1> QED
  BY <1>1, <1>2, <1>3, <1>4, <1>5, <1>6, <1>7, <1>8, <1>9 DEF Start

LEMMA TransactionStep == TypeOK /\ TransactionInv /\ Step => TransactionInv'
<1> SUFFICES ASSUME TypeOK, TransactionInv, Step PROVE TransactionInv'
  OBVIOUS
<1> USE DEF TransactionInv, CommandShape, FragmentInv, StoreInv, FromOrigin,
            AtOrigin, Holding, AtGoal, SuccessInstalls, FailureRestores,
            Transactions, Removals, Additions, unboundVars, budgets,
            Goto, AfterWait
<1>1. CASE ReloadZone
  BY <1>1 DEF ReloadZone
<1>2. CASE SaveConfig
  BY <1>2 DEF SaveConfig
<1>3. CASE CloudAddInvalid
  BY <1>3 DEF CloudAddInvalid
<1>4. CASE TruncateConf
  BY <1>4 DEF TruncateConf
<1>5. CASE FillConf
  BY <1>5 DEF FillConf
<1>6. CASE CheckInstalled
  BY <1>6 DEF CheckInstalled
<1>7. CASE RefillConf
  BY <1>7 DEF RefillConf
<1>8. CASE Activate
  BY <1>8 DEF Activate
<1>9. CASE WaitActivated
  BY <1>9 DEF WaitActivated
<1>10. CASE RestoreConf
  BY <1>10 DEF RestoreConf
<1>11. CASE ReloadBack
  BY <1>11 DEF ReloadBack
<1>12. CASE WaitBack
  BY <1>12 DEF WaitBack
<1>13. CASE WaitZoneReloaded
  BY <1>13 DEF WaitZoneReloaded
<1>14. CASE RestartInstalled
  BY <1>14 DEF RestartInstalled
<1>15. CASE WaitInstalled
  BY <1>15 DEF WaitInstalled
<1>16. CASE Applied
  BY <1>16 DEF Applied
<1>17. CASE ApplyFailed
  BY <1>17 DEF ApplyFailed
<1>18. CASE UndoApplied
  BY <1>18 DEF UndoApplied
<1>19. CASE RollBack
  BY <1>19 DEF RollBack
<1>20. CASE RollBackFill
  BY <1>20 DEF RollBackFill, Undo
<1>21. CASE UndoSave
  BY <1>21 DEF UndoSave, Undo
<1>22. CASE VerifyServed
  BY <1>22 DEF VerifyServed
<1>23. CASE RemoveFile
  <2> DEFINE f == IF cmd \in {"zoneAdd", "zoneRemove"}
                  THEN LocalFile(zone) ELSE CloudFile(zone)
  <2>1. files' = files \ {f} /\ conf' = conf /\ config' = config
    BY <1>23 DEF RemoveFile
  <2>2. phase = "do" => Render(config, files \ {f}) = Render(config, files)
    <3> SUFFICES ASSUME phase = "do" PROVE Render(config, files \ {f}) = Render(config, files)
      OBVIOUS
    <3>1. cmd \in Removals /\ config = goal
      BY <1>23 DEF RemoveFile
    <3> QED
      BY <3>1, RenderWithout DEF LocalFile, CloudFile
  <2>3. cmd = "cloudAdd" /\ phase = "undo"
          => Render(config, files \ {f}) = Render(config, files)
    BY RenderWithout, ZenonT(60) DEF LocalFile, CloudFile
  <2>4. /\ pc = "removeFile"
        /\ pc' = IF phase = "do" THEN "succeeded" ELSE "failed"
        /\ UNCHANGED <<cmd, zone, goal, phase, origin>>
    BY <1>23 DEF RemoveFile
  <2> HIDE DEF f
  <2>5. CASE phase = "do"
    BY <2>1, <2>2, <2>4, <2>5
  <2>6. CASE phase = "undo"
    <3>1. cmd = "cloudAdd" \/ cmd = "zoneAdd"
      BY <2>4, <2>6
    <3>2. CASE cmd = "cloudAdd"
      BY <2>1, <2>3, <2>4, <2>6, <3>2
    <3>3. CASE cmd = "zoneAdd"
      BY <2>1, <2>4, <2>6, <3>3
    <3> QED
      BY <3>1, <3>2, <3>3
  <2> QED
    BY <2>5, <2>6 DEF TypeOK
<1>24. CASE Exit
  BY <1>24 DEF Exit, EndProcess, NoOrigin
<1> QED
  BY <1>1, <1>2, <1>3, <1>4, <1>5, <1>6, <1>7, <1>8, <1>9, <1>10, <1>11, <1>12, <1>13, <1>14, <1>15, <1>16, <1>17, <1>18, <1>19, <1>20, <1>21, <1>22, <1>23, <1>24
  DEF Step

LEMMA TransactionOther ==
  /\ TransactionInv
  /\ \/ Daemon \/ Upset \/ Crash \/ UNCHANGED vars
     \/ \E o \in Options : EditConfig(o)
  => TransactionInv'
<1> SUFFICES ASSUME TransactionInv,
                    \/ Daemon \/ Upset \/ Crash \/ UNCHANGED vars
                    \/ \E o \in Options : EditConfig(o)
             PROVE  TransactionInv'
  OBVIOUS
<1> USE DEF TransactionInv, CommandShape, FragmentInv, StoreInv, FromOrigin,
            AtOrigin, Holding, AtGoal, SuccessInstalls, FailureRestores,
            Transactions, commandVars
<1>1. CASE Daemon \/ Upset
  BY <1>1 DEF Daemon, Upset, DaemonReads, DaemonReady, DaemonExits,
              DaemonStarted, others
<1>2. CASE Crash
  BY <1>2 DEF Crash, EndProcess
<1>3. CASE UNCHANGED vars
  BY <1>3 DEF vars
<1>4. CASE \E o \in Options : EditConfig(o)
  BY <1>4 DEF EditConfig
<1> QED
  BY <1>1, <1>2, <1>3, <1>4

\* At each of its steps a command knows what config.yaml, minidns.conf and the
\* copy it keeps are: the invariant that its success and its failure rest on.
THEOREM TransactionsHold == Spec => []TransactionInv
<1>1. TypeOK /\ TransactionInv /\ [Next]_vars => TransactionInv'
  BY TransactionStart, TransactionStep, TransactionOther DEF Next
<1> QED
  BY <1>1, TransactionInit, TypeCorrect, PTL DEF Spec

\* A command that reports success has installed what config.yaml renders to.
THEOREM SuccessIsInstalled == Spec => []SuccessInstalls
  BY TransactionsHold, PTL DEF TransactionInv

\* A failed changeConfig has put both files back.
THEOREM FailureIsUndone == Spec => []FailureRestores
  BY TransactionsHold, PTL DEF TransactionInv

-----------------------------------------------------------------------------
(* Refinement.  With no command killed, a fragment is empty only between   *)
(* two steps of one write (NoTornFile), a command that found none may      *)
(* leave a candidate (Kept), every configured local zone has its file      *)
(* (LocalFilesExist), and the commands outside changeConfig hold what      *)
(* ConfigTransaction lets them leave (StoreHeld, FragmentHeld,             *)
(* ZoneAddHeld).                                                           *)

NoTornFile ==
  /\ conf = EmptyConf => pc \in {"fill", "refill", "restore"}
  /\ current # EmptyConf
  /\ origin.conf # EmptyConf

Kept(c) == c = origin.conf \/ (origin.conf = NoConf /\ c \in RenderedConf)

RendersTo(s, a) == \E fs \in SUBSET ZoneFiles : a = Render(s, fs)

LocalFilesExist ==
  /\ \A z \in config.local : LocalFile(z) \in files
  /\ pc \in {"reloadZone", "waitZone", "save"} =>
       \A z \in goal.local : LocalFile(z) \in files
  /\ cmd \in Transactions => \A z \in origin.config.local : LocalFile(z) \in files

StoreHeld ==
  /\ cmd \in {"apply", "install", "cloudSync"} /\ pc \in Steps
       => config = origin.config /\ pc # "save"
  /\ pc \in {"reloadZone", "waitZone"} => conf = origin.conf
  /\ cmd = "cloudSync" => pc \in {"reloadZone", "waitZone", "succeeded", "failed"}
  /\ cmd = "none" => pc = "idle"

FragmentHeld ==
  FromOrigin =>
    /\ pc \in AtOrigin => Kept(conf)
    /\ pc \in Holding => Kept(current)
    /\ pc = "removeFile" /\ phase = "undo" =>
         Kept(conf) \/ RendersTo(config, conf)

ZoneAddHeld ==
  cmd = "zoneAdd" =>
    /\ zone \in Zones
    /\ zone \notin origin.config.local
    /\ goal = [origin.config EXCEPT !.local = @ \cup {zone}]
    /\ phase = "do" /\ pc \in Steps =>
         config = IF pc = "save" THEN origin.config ELSE goal
    /\ pc = "undoSave" => Kept(conf) \/ RendersTo(goal, conf)
    /\ phase = "undo" /\ pc \in Steps =>
         /\ config = origin.config
         /\ pc \in AtOrigin => Kept(conf) \/ RendersTo(goal, conf)
         /\ pc \in Holding => Kept(current) \/ RendersTo(goal, current)
         /\ pc = "removeFile" => \/ Kept(conf)
                                 \/ RendersTo(goal, conf)
                                 \/ RendersTo(config, conf)

HeldInv ==
  NoTornFile /\ LocalFilesExist /\ StoreHeld /\ FragmentHeld /\ ZoneAddHeld

LEMMA HeldInit == Init => HeldInv
  BY ConstantsAssumption
  DEF Init, UnboundInit, HeldInv, NoTornFile, LocalFilesExist, StoreHeld,
      FragmentHeld, ZoneAddHeld, FromOrigin, AtOrigin, Holding, NoOrigin,
      DefaultConfig, Transactions, RenderedConf

\* A command that begins holds the files as it finds them.
LEMMA HeldBegin ==
  ASSUME TypeOK, HeldInv,
         NEW c \in Commands \ {"none", "zoneAdd"}, NEW z, NEW g, NEW first,
         Begin(c, z, g, first),
         first \in {"save", "reloadZone", "apply", "succeeded"},
         first \in {"save", "reloadZone"} => g.local \subseteq config.local,
         c \in {"apply", "install"} => first = "apply",
         c = "cloudSync" => first \in {"reloadZone", "succeeded"},
         files \subseteq files'
  PROVE  HeldInv'
  BY DEF Begin, HeldInv, NoTornFile, LocalFilesExist, StoreHeld, FragmentHeld,
         ZoneAddHeld, FromOrigin, AtOrigin, Holding, Transactions, Commands,
         Kept, Steps

LEMMA HeldStart == TypeOK /\ HeldInv /\ Start => HeldInv'
<1> SUFFICES ASSUME TypeOK, HeldInv, Start PROVE HeldInv'
  OBVIOUS
<1> USE DEF Commands, Transactions
<1>0. config \in ConfigFile
  BY DEF TypeOK
<1>1. CASE Change
  <2> DEFINE G == {[config EXCEPT !.opt = o] : o \in Options}
                    \cup {[config EXCEPT !.fwd = @ \cup {z}] : z \in Zones}
                    \cup {[config EXCEPT !.fwd = @ \ {z}] : z \in Zones}
  <2>1. \A g \in G : g.local = config.local
    BY <1>0 DEF ConfigFile
  <2>2. PICK g \in G : Begin("change", NoZone, g, "save") /\ UNCHANGED files
    BY <1>1 DEF Change
  <2>3. g.local \subseteq config.local
    BY <2>1
  <2> HIDE DEF G
  <2> QED
    BY <2>2, <2>3, HeldBegin
<1>2. CASE Apply
  BY <1>2, HeldBegin DEF Apply
<1>3. CASE Install
  BY <1>3, HeldBegin DEF Install
<1>4. ASSUME NEW z \in Zones, ZoneAdd(z) PROVE HeldInv'
  <2> DEFINE g == [config EXCEPT !.local = @ \cup {z}]
  <2>1. g.local = config.local \cup {z}
    BY <1>0 DEF ConfigFile
  <2>2. z \notin config.local
    BY <1>4 DEF ZoneAdd, HeldInv, LocalFilesExist
  <2>3. Begin("zoneAdd", z, g, "save") /\ files' = files \cup {LocalFile(z)}
    BY <1>4 DEF ZoneAdd
  <2>4. origin' = [config |-> config, conf |-> conf, up |-> daemon = "up"]
    BY <2>3 DEF Begin
  <2>5. goal' = [origin'.config EXCEPT !.local = @ \cup {zone'}]
    BY <2>3, <2>4 DEF Begin
  <2> HIDE DEF g
  <2>6. NoTornFile'
    BY <2>3, <2>4 DEF Begin, HeldInv, NoTornFile
  <2>7. LocalFilesExist'
    BY <2>1, <2>3, <2>4 DEF Begin, HeldInv, LocalFilesExist
  <2>8. StoreHeld' /\ FragmentHeld'
    BY <2>3, <2>4 DEF Begin, StoreHeld, FragmentHeld, FromOrigin, AtOrigin,
                      Holding, Kept
  <2>9. ZoneAddHeld'
    BY <2>2, <2>3, <2>4, <2>5 DEF Begin, ZoneAddHeld, Steps
  <2> QED
    BY <2>6, <2>7, <2>8, <2>9 DEF HeldInv
<1>5. ASSUME NEW z \in Zones, ZoneRemove(z) PROVE HeldInv'
  <2> DEFINE g == [config EXCEPT !.local = @ \ {z}]
  <2>1. g.local \subseteq config.local
    BY <1>0 DEF ConfigFile
  <2>2. Begin("zoneRemove", z, g, "save") /\ UNCHANGED files
    BY <1>5 DEF ZoneRemove
  <2> HIDE DEF g
  <2> QED
    BY <2>1, <2>2, HeldBegin
<1>6. ASSUME NEW z \in Zones, CloudAdd(z) PROVE HeldInv'
  <2> DEFINE g == [config EXCEPT !.cloud = @ \cup {z}]
  <2>1. g.local \subseteq config.local
    BY <1>0 DEF ConfigFile
  <2>2. /\ Begin("cloudAdd", z, g, "save") \/ Begin("cloudAdd", z, g, "reloadZone")
        /\ files \subseteq files'
    BY <1>6 DEF CloudAdd, FetchZone
  <2> HIDE DEF g
  <2> QED
    BY <2>1, <2>2, HeldBegin
<1>7. ASSUME NEW z \in Zones, CloudSync(z) PROVE HeldInv'
  <2>1. /\ \/ Begin("cloudSync", z, config, "succeeded")
           \/ Begin("cloudSync", z, config, "reloadZone")
        /\ files \subseteq files'
    BY <1>7 DEF CloudSync, FetchZone
  <2> QED
    BY <2>1, HeldBegin
<1>8. ASSUME NEW z \in Zones, CloudRemove(z) PROVE HeldInv'
  <2> DEFINE g == [config EXCEPT !.cloud = @ \ {z}]
  <2>1. g.local \subseteq config.local
    BY <1>0 DEF ConfigFile
  <2>2. Begin("cloudRemove", z, g, "save") /\ UNCHANGED files
    BY <1>8 DEF CloudRemove
  <2> HIDE DEF g
  <2> QED
    BY <2>1, <2>2, HeldBegin
<1>9. ASSUME NEW o \in Options, UpstreamSet(o) PROVE HeldInv'
  <2> DEFINE g == [config EXCEPT !.opt = o]
  <2>1. g.local \subseteq config.local
    BY <1>0 DEF ConfigFile
  <2>2. Begin("upstream", NoZone, g, "save") /\ UNCHANGED files
    BY <1>9 DEF UpstreamSet
  <2> HIDE DEF g
  <2> QED
    BY <2>1, <2>2, HeldBegin
<1> QED
  BY <1>1, <1>2, <1>3, <1>4, <1>5, <1>6, <1>7, <1>8, <1>9 DEF Start

\* What a missing fragment cannot be.
LEMMA NothingRendersToNone ==
  ASSUME NEW s \in ConfigFile PROVE ~RendersTo(s, NoConf) /\ ~RendersTo(s, EmptyConf)
  BY RenderType, ConstantsAssumption DEF RendersTo

\* Adding a zone and taking it away again.
LEMMA AddedAndRemoved ==
  ASSUME NEW c \in ConfigFile, NEW z, z \notin c.local
  PROVE  /\ [[c EXCEPT !.local = @ \cup {z}] EXCEPT !.local = @ \ {z}] = c
         /\ [c EXCEPT !.local = @ \ {z}] = c
  BY DEF ConfigFile

LEMMA HeldStep ==
  ASSUME TypeOK, TransactionInv, HeldInv, Step PROVE HeldInv'
<1> USE DEF Transactions, FromOrigin, AtOrigin, Holding, AtGoal, Removals,
            Additions, Steps, Goto, AfterWait, Kept
<1>s. CommandShape /\ FragmentInv
  BY DEF TransactionInv
<1>t. /\ config \in ConfigFile /\ goal \in ConfigFile
      /\ files \in SUBSET ZoneFiles /\ conf \in ConfFile /\ current \in ConfFile
      /\ origin.config \in ConfigFile
      /\ pc \in Steps \cup {"succeeded", "failed", "idle"}
      /\ phase \in {"do", "undo"}
  BY DEF TypeOK, UnboundTypeOK
<1>r. /\ Render(config, files) \in RenderedConf
      /\ RendersTo(config, Render(config, files))
  BY <1>t, RenderType DEF RendersTo
<1>n. NoConf \notin RenderedConf /\ EmptyConf \notin RenderedConf
      /\ ~RendersTo(goal, NoConf) /\ ~RendersTo(goal, EmptyConf)
  BY <1>t, NothingRendersToNone, ConstantsAssumption
<1> USE <1>s DEF CommandShape, HeldInv, NoTornFile, LocalFilesExist, StoreHeld,
            FragmentHeld, ZoneAddHeld, FragmentInv
<1>1. CASE ReloadZone
  BY <1>1, <1>t, <1>r, <1>n DEF ReloadZone
<1>2. CASE SaveConfig
  BY <1>2, <1>t, <1>r, <1>n DEF SaveConfig
<1>3. CASE CloudAddInvalid
  BY <1>3, <1>t, <1>r, <1>n DEF CloudAddInvalid
<1>4. CASE TruncateConf
  BY <1>4, <1>t, <1>r, <1>n DEF TruncateConf
<1>5. CASE FillConf
  BY <1>5, <1>t, <1>r, <1>n DEF FillConf
<1>6. CASE CheckInstalled
  BY <1>6, <1>t, <1>r, <1>n DEF CheckInstalled
<1>7. CASE RefillConf
  BY <1>7, <1>t, <1>r, <1>n DEF RefillConf
<1>8. CASE Activate
  BY <1>8, <1>t, <1>r, <1>n DEF Activate
<1>9. CASE WaitActivated
  BY <1>9, <1>t, <1>r, <1>n DEF WaitActivated, HasText
<1>10. CASE RestoreConf
  BY <1>10, <1>t, <1>r, <1>n DEF RestoreConf
<1>11. CASE ReloadBack
  BY <1>11, <1>t, <1>r, <1>n DEF ReloadBack
<1>12. CASE WaitBack
  BY <1>12, <1>t, <1>r, <1>n DEF WaitBack
<1>13. CASE WaitZoneReloaded
  BY <1>13, <1>t, <1>r, <1>n DEF WaitZoneReloaded
<1>14. CASE RestartInstalled
  BY <1>14, <1>t, <1>r, <1>n DEF RestartInstalled
<1>15. CASE WaitInstalled
  BY <1>15, <1>t, <1>r, <1>n DEF WaitInstalled
<1>16. CASE Applied
  BY <1>16, <1>t, <1>r, <1>n DEF Applied
<1>17. CASE ApplyFailed
  BY <1>17, <1>t, <1>r, <1>n DEF ApplyFailed
<1>18. CASE UndoApplied
  BY <1>18, <1>t, <1>r, <1>n DEF UndoApplied
<1>19. CASE RollBack
  BY <1>19, <1>t, <1>r, <1>n DEF RollBack, DefaultConfig
<1>20. CASE RollBackFill
  BY <1>20, <1>t, <1>r, <1>n DEF RollBackFill, Undo
<1>21. CASE UndoSave
  <2>1. pc = "undoSave" /\ cmd = "zoneAdd" /\ phase = "do"
    BY <1>21 DEF UndoSave
  <2>2. [config EXCEPT !.local = @ \ {zone}] = origin.config
    BY <1>t, <2>1, AddedAndRemoved, ZenonT(60)
  <2>3. /\ config' = origin.config /\ phase' = "undo" /\ pc' = "apply"
        /\ UNCHANGED <<files, conf, current, cmd, zone, goal, origin>>
    BY <1>21, <2>2 DEF UndoSave, Undo
  <2>4. NoTornFile' /\ StoreHeld' /\ FragmentHeld'
    BY <2>1, <2>3
  <2>5. LocalFilesExist'
    BY <1>t, <2>1, <2>3 DEF ConfigFile
  <2>6. ZoneAddHeld'
    BY <2>1, <2>3 DEF RendersTo
  <2> QED
    BY <2>4, <2>5, <2>6
<1>22. CASE VerifyServed
  BY <1>22, <1>t, <1>r, <1>n DEF VerifyServed
<1>23. CASE RemoveFile
  <2>1. /\ pc = "removeFile"
        /\ pc' = IF phase = "do" THEN "succeeded" ELSE "failed"
        /\ UNCHANGED <<conf, config, current, cmd, zone, goal, phase, origin>>
        /\ files' = files \ {IF cmd \in {"zoneAdd", "zoneRemove"}
                             THEN LocalFile(zone) ELSE CloudFile(zone)}
    BY <1>23 DEF RemoveFile
  <2>2. NoTornFile' /\ StoreHeld' /\ FragmentHeld'
    BY <2>1
  <2>3. ZoneAddHeld'
    BY <2>1
  <2>4. cmd \in {"zoneAdd", "zoneRemove"} => zone \notin config.local
    BY <2>1, <1>t DEF StoreInv, TransactionInv
  <2>5. LocalFilesExist'
    BY <2>1, <2>4 DEF LocalFile, CloudFile
  <2> QED
    BY <2>2, <2>3, <2>5
<1>24. CASE Exit
  BY <1>24, ConstantsAssumption, <1>t, <1>r, <1>n DEF Exit, EndProcess, NoOrigin, DefaultConfig
<1> QED
  BY <1>1, <1>2, <1>3, <1>4, <1>5, <1>6, <1>7, <1>8, <1>9, <1>10, <1>11, <1>12, <1>13, <1>14, <1>15, <1>16, <1>17, <1>18, <1>19, <1>20, <1>21, <1>22, <1>23, <1>24 DEF Step

\* A kill is what could leave a torn file or a half-made change behind.
LEMMA HeldOther ==
  ASSUME TypeOK, HeldInv,
         \/ Daemon \/ Upset \/ UNCHANGED vars
         \/ \E o \in Options : EditConfig(o)
  PROVE  HeldInv'
<1> USE DEF HeldInv, NoTornFile, LocalFilesExist, StoreHeld, FragmentHeld,
            ZoneAddHeld, FromOrigin, AtOrigin, Holding, Kept, Transactions,
            commandVars, RendersTo
<1>1. CASE Daemon \/ Upset
  BY <1>1 DEF Daemon, Upset, DaemonReads, DaemonReady, DaemonExits,
              DaemonStarted, others
<1>2. CASE UNCHANGED vars
  BY <1>2 DEF vars
<1>3. ASSUME NEW o \in Options, EditConfig(o) PROVE HeldInv'
  <2>1. config'.local = config.local
    BY <1>3 DEF EditConfig, TypeOK, ConfigFile
  <2>2. /\ pc = "idle" /\ pc' = "idle" /\ cmd' = cmd /\ conf' = conf /\ files' = files
        /\ current' = current /\ origin' = origin /\ goal' = goal /\ zone' = zone
        /\ phase' = phase
    BY <1>3 DEF EditConfig
  <2> QED
    BY <2>1, <2>2 DEF Steps
<1> QED
  BY <1>1, <1>2, <1>3

-----------------------------------------------------------------------------
(* The steps of ConfigTransaction.                                         *)

\* Rendering means the same in both.
LEMMA SameMatches ==
  /\ \A s, a : RendersTo(s, a) <=> Transaction!Matches(s, a)
  /\ Transaction!ConfigFile = ConfigFile
  /\ Transaction!RenderedConf = RenderedConf
  BY DEF RendersTo, Render, ZoneFiles, ConfigFile, RenderedConf,
         Transaction!Matches, Transaction!Render, Transaction!ZoneFiles,
         Transaction!ConfigFile, Transaction!RenderedConf

\* Until a command ends, nothing is seen of it.
LEMMA HiddenStep ==
  ASSUME pc \in Steps, pc' \in Steps, origin' = origin
  PROVE  UNCHANGED <<storeView, activeView, doneView, resultView>>
  BY DEF Steps, storeView, activeView, doneView, resultView

\* A command that ends with success commits.
LEMMA EndsWithSuccess ==
  ASSUME TypeOK', TransactionInv', pc \in Steps, pc' = "succeeded",
         cmd' \notin {"none", "cloudSync"}
  PROVE  Transaction!Next
<1>1. Transaction!Report("succeeded")
  BY DEF Transaction!Report, doneView, resultView, Steps
<1>2. storeView' = config' /\ activeView' = conf'
  BY DEF storeView, activeView, Steps
<1>3. config' \in ConfigFile /\ files' \in SUBSET ZoneFiles
  BY DEF TypeOK, UnboundTypeOK
<1>4. conf' = Render(config', files')
  BY DEF TransactionInv, SuccessInstalls
<1>5. RendersTo(config', conf')
  BY <1>3, <1>4 DEF RendersTo
<1>6. Transaction!Commit
  BY <1>1, <1>2, <1>3, <1>5, SameMatches DEF Transaction!Commit
<1> QED
  BY <1>6 DEF Transaction!Next

\* A command that fails with config.yaml as it found it aborts.
LEMMA EndsWithFailure ==
  ASSUME TypeOK', pc \in Steps, pc' = "failed", cmd' # "none",
         \/ config' = origin.config
         \/ cmd' \in {"upstream", "zoneRemove"} /\ Kept(conf'),
         Kept(conf') \/ RendersTo(config', conf')
  PROVE  Transaction!Next
<1>1. Transaction!Report("failed")
  BY DEF Transaction!Report, doneView, resultView, Steps
<1>2. /\ storeView' = config' /\ activeView' = conf' /\ doneView' = cmd'
      /\ storeView = origin.config /\ activeView = origin.conf
  BY DEF storeView, activeView, doneView, Steps
<1>3. config' \in ConfigFile
  BY DEF TypeOK
<1>4. Kept(conf') => Transaction!FragmentStays
  BY <1>2, SameMatches DEF Kept, Transaction!FragmentStays
<1>5. CASE config' = origin.config
  <2>1. Transaction!Abort
    BY <1>1, <1>2, <1>4, <1>5, SameMatches DEF Transaction!Abort
  <2> QED
    BY <2>1 DEF Transaction!Next
<1>6. CASE cmd' \in {"upstream", "zoneRemove"} /\ Kept(conf')
  <2>1. Transaction!StoreKept
    BY <1>1, <1>2, <1>3, <1>4, <1>6, SameMatches DEF Transaction!StoreKept
  <2> QED
    BY <2>1 DEF Transaction!Next
<1> QED
  BY <1>5, <1>6

seen == <<storeView, activeView, doneView, resultView>>

\* A command that begins shows nothing, unless it has nothing left to do.
LEMMA BeginRefines ==
  ASSUME NEW c, NEW z, NEW g, NEW first, Begin(c, z, g, first),
         first \in Steps \/ (first = "succeeded" /\ c = "cloudSync")
  PROVE  [Transaction!Next]_seen
<1>1. /\ pc = "idle" /\ pc' = first /\ cmd' = c
      /\ origin'.config = config /\ origin'.conf = conf
      /\ config' = config /\ conf' = conf
  BY DEF Begin
<1>2. storeView' = storeView /\ activeView' = activeView
  BY <1>1 DEF storeView, activeView, Steps
<1>3. CASE first \in Steps
  BY <1>1, <1>2, <1>3 DEF seen, doneView, resultView, Steps
<1>4. CASE first = "succeeded" /\ c = "cloudSync"
  <2>1. Transaction!Report("succeeded") /\ doneView' = "cloudSync"
    BY <1>1, <1>4 DEF Transaction!Report, doneView, resultView
  <2>2. Transaction!Sync
    BY <1>2, <2>1 DEF Transaction!Sync
  <2> QED
    BY <2>2 DEF Transaction!Next
<1> QED
  BY <1>3, <1>4

LEMMA StartRefines == ASSUME Start PROVE [Transaction!Next]_seen
<1> USE BeginRefines DEF Steps
<1>1. CASE Change
  BY <1>1 DEF Change
<1>2. CASE Apply \/ Install
  BY <1>2 DEF Apply, Install
<1>3. ASSUME NEW z \in Zones,
             \/ ZoneAdd(z) \/ ZoneRemove(z)
             \/ CloudAdd(z) \/ CloudSync(z) \/ CloudRemove(z)
      PROVE  [Transaction!Next]_seen
  BY <1>3 DEF ZoneAdd, ZoneRemove, CloudAdd, CloudSync, CloudRemove, FetchZone
<1>4. ASSUME NEW o \in Options, UpstreamSet(o) PROVE [Transaction!Next]_seen
  BY <1>4 DEF UpstreamSet
<1> QED
  BY <1>1, <1>2, <1>3, <1>4 DEF Start

\* createZone's undo: the zone it takes back may still be in the fragment.
LEMMA UndoneAddRefines ==
  ASSUME TypeOK, TypeOK', HeldInv, pc = "removeFile", phase = "undo",
         cmd = "zoneAdd", pc' = "failed",
         UNCHANGED <<config, conf, cmd, zone, origin>>
  PROVE  Transaction!Next
<1>1. /\ zone \in Zones /\ config = origin.config /\ zone \notin origin.config.local
      /\ goal = [origin.config EXCEPT !.local = @ \cup {zone}]
      /\ Kept(conf) \/ RendersTo(goal, conf) \/ RendersTo(config, conf)
  BY DEF HeldInv, ZoneAddHeld, Steps
<1>2. CASE Kept(conf) \/ RendersTo(config, conf)
  BY <1>1, <1>2, EndsWithFailure DEF Steps, Kept, RendersTo
<1>3. CASE RendersTo(goal, conf)
  <2>1. Transaction!Report("failed") /\ doneView' = "zoneAdd"
    BY DEF Transaction!Report, doneView, resultView, Steps
  <2>2. storeView = origin.config /\ storeView' = origin.config /\ activeView' = conf
    BY <1>1 DEF storeView, activeView, Steps
  <2>3. origin.config \in ConfigFile
    BY DEF TypeOK
  <2>4. storeView' = [storeView EXCEPT !.local = @ \ {zone}]
    BY <1>1, <2>2, <2>3, AddedAndRemoved
  <2>5. Transaction!Matches([storeView EXCEPT !.local = @ \cup {zone}], activeView')
    BY <1>1, <1>3, <2>2, SameMatches
  <2>6. Transaction!ZoneLeftBehind
    BY <1>1, <2>1, <2>4, <2>5 DEF Transaction!ZoneLeftBehind
  <2> QED
    BY <2>6 DEF Transaction!Next
<1> QED
  BY <1>1, <1>2, <1>3

\* What ends a command.
Ending == pc \in Steps /\ pc' \in {"succeeded", "failed"}

LEMMA StepRefines ==
  ASSUME TypeOK, TypeOK', TransactionInv, TransactionInv', HeldInv, Step
  PROVE  [Transaction!Next]_seen
<1> USE DEF Steps, Goto, AfterWait
<1>t. /\ config \in ConfigFile /\ files \in SUBSET ZoneFiles
      /\ cmd \in Commands /\ phase \in {"do", "undo"}
  BY DEF TypeOK, UnboundTypeOK
<1>c. CommandShape /\ StoreInv /\ FragmentInv /\ StoreHeld /\ FragmentHeld
  BY DEF TransactionInv, HeldInv
<1>r. RendersTo(config, Render(config, files))
  BY <1>t DEF RendersTo
<1>k. UNCHANGED <<origin, conf>> /\ Kept(conf) => Kept(conf')
  BY DEF Kept
<1>m. UNCHANGED <<config, conf>> /\ RendersTo(config, conf)
        => RendersTo(config', conf')
  BY DEF RendersTo
<1>1. CASE Exit
  <2>1. /\ pc \in {"succeeded", "failed"} /\ pc' = "idle"
        /\ config' = config /\ conf' = conf
    BY <1>1 DEF Exit, EndProcess
  <2>2. Transaction!Leave
    BY <2>1 DEF Transaction!Leave, storeView, activeView, doneView, resultView
  <2> QED
    BY <2>2 DEF Transaction!Next
<1>2. CASE ReloadZone \/ WaitZoneReloaded
  <2>1. /\ pc \in {"reloadZone", "waitZone"} /\ cmd \in {"cloudAdd", "cloudSync"}
        /\ UNCHANGED <<conf, config, cmd, origin>>
        /\ pc' \in {"save", "waitZone", "succeeded", "failed"}
        /\ pc' = "succeeded" => cmd = "cloudSync"
    BY <1>2, <1>c DEF ReloadZone, WaitZoneReloaded, CommandShape
  <2>2. config = origin.config /\ conf = origin.conf
    BY <2>1, <1>c DEF StoreInv, StoreHeld, Transactions
  <2>3. CASE pc' \in {"save", "waitZone"}
    BY <2>1, <2>3, HiddenStep DEF seen
  <2>4. CASE pc' = "succeeded"
    <3>1. Transaction!Report("succeeded") /\ doneView' = "cloudSync"
      BY <2>1, <2>4 DEF Transaction!Report, doneView, resultView
    <3>2. storeView' = storeView /\ activeView' = activeView
      BY <2>1, <2>2, <2>4 DEF storeView, activeView
    <3>3. Transaction!Sync
      BY <3>1, <3>2 DEF Transaction!Sync
    <3> QED
      BY <3>3 DEF Transaction!Next
  <2>5. CASE pc' = "failed"
    BY <2>1, <2>2, <2>5, <1>k, EndsWithFailure DEF Kept
  <2> QED
    BY <2>1, <2>3, <2>4, <2>5
<1>3. CASE WaitInstalled
  <2>1. /\ pc = "waitRestart" /\ cmd = "install" /\ pc' \in {"succeeded", "failed"}
        /\ UNCHANGED <<conf, config, cmd, origin>>
    BY <1>3, <1>c DEF WaitInstalled, CommandShape
  <2>2. config = origin.config /\ RendersTo(config, conf)
    BY <2>1, <1>c, <1>r DEF StoreHeld, FragmentInv, AtGoal
  <2> QED
    BY <2>1, <2>2, <1>m, EndsWithSuccess, EndsWithFailure
<1>4. CASE Applied \/ VerifyServed
  <2>1. /\ pc \in {"applied", "verify"} /\ phase = "do"
        /\ pc' \in {"succeeded", "verify", "removeFile", "undoSave"}
        /\ UNCHANGED <<cmd, origin>>
    BY <1>4, <1>c DEF Applied, VerifyServed, CommandShape
  <2>2. cmd \notin {"none", "cloudSync"}
    BY <2>1, <1>c DEF StoreHeld
  <2> QED
    BY <2>1, <2>2, EndsWithSuccess, HiddenStep DEF seen
<1>5. CASE ApplyFailed
  <2>1. /\ pc = "applyFailed" /\ phase = "do"
        /\ pc' \in {"undoSave", "rollback", "failed"}
        /\ pc' = "failed" => cmd \notin Transactions \cup {"zoneAdd"}
        /\ UNCHANGED <<conf, config, cmd, origin>>
    BY <1>5 DEF ApplyFailed
  <2>2. Kept(conf')
    BY <2>1, <1>c, <1>k DEF FragmentHeld, FromOrigin, AtOrigin
  <2>3. CASE pc' = "failed"
    <3>1. cmd \in {"upstream", "zoneRemove"} \/ config = origin.config
      BY <2>1, <2>3, <1>c, <1>t DEF StoreHeld, Commands
    <3>2. cmd # "none"
      BY <2>1, <1>c DEF StoreHeld
    <3> QED
      BY <2>1, <2>2, <2>3, <3>1, <3>2, EndsWithFailure
  <2> QED
    BY <2>1, <2>3, HiddenStep DEF seen
<1>6. CASE UndoApplied
  <2>1. /\ pc \in {"applied", "applyFailed"} /\ phase = "undo"
        /\ pc' \in {"removeFile", "failed"}
        /\ pc' = "failed" => cmd \in Transactions
        /\ UNCHANGED <<conf, config, cmd, origin>>
    BY <1>6, <1>c DEF UndoApplied, CommandShape, Additions
  <2>2. CASE pc' = "failed"
    <3>1. config = origin.config /\ cmd # "none"
      BY <2>1, <2>2, <1>c DEF StoreInv, Transactions
    <3>2. Kept(conf) \/ RendersTo(config, conf)
      BY <2>1, <2>2, <1>c, <1>r
      DEF FragmentHeld, FragmentInv, FromOrigin, AtOrigin, AtGoal
    <3> QED
      BY <2>1, <2>2, <3>1, <3>2, <1>k, <1>m, EndsWithFailure
  <2> QED
    BY <2>1, <2>2, HiddenStep DEF seen
<1>7. CASE RemoveFile
  <2>1. /\ pc = "removeFile" /\ pc' = IF phase = "do" THEN "succeeded" ELSE "failed"
        /\ UNCHANGED <<conf, config, cmd, zone, origin>>
    BY <1>7 DEF RemoveFile
  <2>2. CASE phase = "do"
    BY <2>1, <2>2, <1>c, EndsWithSuccess DEF StoreHeld
  <2>3. CASE phase = "undo" /\ cmd = "zoneAdd"
    BY <2>1, <2>3, UndoneAddRefines
  <2>4. CASE phase = "undo" /\ cmd # "zoneAdd"
    <3>1. cmd = "cloudAdd" /\ config = origin.config
      BY <2>1, <2>4, <1>c DEF CommandShape, StoreInv, Additions, Transactions
    <3>2. Kept(conf) \/ RendersTo(config, conf)
      BY <2>1, <2>4, <3>1, <1>c DEF FragmentHeld, FromOrigin, Transactions
    <3> QED
      BY <2>1, <2>4, <3>1, <3>2, <1>k, <1>m, EndsWithFailure
  <2> QED
    BY <2>2, <2>3, <2>4, <1>t
<1>8. CASE \/ SaveConfig \/ CloudAddInvalid
           \/ TruncateConf \/ FillConf \/ CheckInstalled \/ RefillConf
           \/ Activate \/ WaitActivated \/ RestoreConf \/ ReloadBack \/ WaitBack
           \/ RestartInstalled \/ RollBack \/ RollBackFill \/ UndoSave
  <2>1. pc \in Steps /\ pc' \in Steps /\ origin' = origin
    BY <1>8
    DEF SaveConfig, CloudAddInvalid, TruncateConf, FillConf, CheckInstalled,
        RefillConf, Activate, WaitActivated, RestoreConf, ReloadBack, WaitBack,
        RestartInstalled, RollBack, RollBackFill, UndoSave, Undo
  <2> QED
    BY <2>1, HiddenStep DEF seen
<1> QED
  BY <1>1, <1>2, <1>3, <1>4, <1>5, <1>6, <1>7, <1>8 DEF Step

LEMMA OtherRefines ==
  ASSUME \/ Daemon \/ Upset \/ UNCHANGED vars
         \/ \E o \in Options : EditConfig(o)
  PROVE  [Transaction!Next]_seen
<1> USE DEF seen, storeView, activeView, doneView, resultView
<1>1. CASE Daemon \/ Upset
  BY <1>1 DEF Daemon, Upset, DaemonReads, DaemonReady, DaemonExits,
              DaemonStarted, others, commandVars
<1>2. CASE UNCHANGED vars
  BY <1>2 DEF vars, commandVars
<1>3. ASSUME NEW o \in Options, EditConfig(o) PROVE [Transaction!Next]_seen
  <2>1. pc = "idle" /\ pc' = "idle" /\ conf' = conf /\ config' = [config EXCEPT !.opt = o]
    BY <1>3 DEF EditConfig
  <2>2. Transaction!Edit
    BY <2>1 DEF Transaction!Edit, Steps
  <2> QED
    BY <2>2 DEF Transaction!Next
<1> QED
  BY <1>1, <1>2, <1>3

\* Only a kill adds to the kills.
LEMMA CrashesCount ==
  ASSUME TypeOK, [Next]_vars PROVE crashes' = crashes \/ Crash
<1>1. CASE Start
  BY <1>1
  DEF Start, Change, Apply, Install, ZoneAdd, ZoneRemove, CloudAdd, CloudSync,
      CloudRemove, UpstreamSet, FetchZone, Begin, budgets
<1>2. CASE Step
  BY <1>2
  DEF Step, ReloadZone, SaveConfig, CloudAddInvalid, TruncateConf, FillConf,
      CheckInstalled, RefillConf, Activate, WaitActivated, RestoreConf,
      ReloadBack, WaitBack, WaitZoneReloaded, RestartInstalled, WaitInstalled,
      Applied, ApplyFailed, UndoApplied, RollBack, RollBackFill, UndoSave, Undo,
      VerifyServed, RemoveFile, Exit, Goto, Ready, Gone, TimedOut, budgets
<1>3. CASE Daemon \/ Upset \/ (\E o \in Options : EditConfig(o)) \/ UNCHANGED vars
  BY <1>3 DEF Daemon, Upset, EditConfig, others, vars, budgets
<1> QED
  BY <1>1, <1>2, <1>3 DEF Next

\* As long as no command has been killed half-way, the files are held.
THEOREM HeldCorrect == Spec => [](crashes = 0 => HeldInv)
<1>1. Init => HeldInv
  BY HeldInit
<1>2. /\ TypeOK /\ TransactionInv /\ (crashes = 0 => HeldInv)
      /\ [Next]_vars
      => (crashes = 0 => HeldInv)'
  <2> SUFFICES ASSUME TypeOK, TransactionInv, crashes = 0 => HeldInv,
                      [Next]_vars, crashes' = 0
               PROVE  HeldInv'
    OBVIOUS
  <2>1. crashes \in Nat
    BY BoundsAssumption DEF TypeOK
  <2>2. ~Crash /\ crashes = 0
    BY <2>1, CrashesCount DEF Crash
  <2> QED
    BY <2>2, HeldStart, HeldStep, HeldOther DEF Next
<1> QED
  BY <1>1, <1>2, TypeCorrect, TransactionsHold, PTL DEF Spec

\* With no command killed half-way, the commands implement ConfigTransaction:
\* what they do to config.yaml and minidns.conf is one of its steps.
THEOREM CommandsAreTransactions ==
  ASSUME MaxCrashes = 0 PROVE Spec => ImplementsTransaction
<1>1. Init => Transaction!Init
  BY DEF Init, UnboundInit, Transaction!Init, storeView, activeView, doneView,
         resultView, Steps, DefaultConfig, Transaction!DefaultConfig
<1>2. /\ TypeOK /\ TypeOK' /\ TransactionInv /\ TransactionInv'
      /\ (crashes = 0 => HeldInv)
      /\ [Next]_vars
      => [Transaction!Next]_seen
  <2> SUFFICES ASSUME TypeOK, TypeOK', TransactionInv, TransactionInv',
                      crashes = 0 => HeldInv, [Next]_vars
               PROVE  [Transaction!Next]_seen
    OBVIOUS
  <2>1. HeldInv /\ ~Crash
    BY DEF TypeOK, Crash
  <2> QED
    BY <2>1, StartRefines, StepRefines, OtherRefines DEF Next
<1> QED
  BY <1>1, <1>2, TypeCorrect, TransactionsHold, HeldCorrect, PTL
  DEF Spec, ImplementsTransaction, Transaction!Spec, seen
-----------------------------------------------------------------------------
(* config.yaml stays loadable.  changeConfig validates what it saves, and  *)
(* what the other commands save is as valid as what they have loaded, but  *)
(* for createZone's, which it takes back.                                  *)

TakenBack(c) == [c EXCEPT !.local = @ \ {zone}]

ConfigInv ==
  /\ \/ Valid(config)
     \/ /\ cmd = "zoneAdd" /\ phase = "do"
        /\ pc \in {"apply", "applyFailed", "undoSave"}
  /\ cmd = "zoneAdd" => Valid(TakenBack(config))
  /\ pc = "save" /\ cmd \notin Transactions =>
       Valid(IF cmd = "zoneAdd" THEN TakenBack(goal) ELSE goal)
  /\ pc \in Steps => Valid(origin.config)

\* Leaving something out of a valid configuration keeps it valid.
LEMMA ValidShrinks ==
  ASSUME NEW c, NEW d, Valid(c),
         d.local \subseteq c.local, d.cloud \subseteq c.cloud, d.fwd \subseteq c.fwd
  PROVE  Valid(d)
  BY DEF Valid

LEMMA ConfigInit == Init => ConfigInv
  BY DEF Init, ConfigInv, Steps, Valid, DefaultConfig, TakenBack

\* A command other than createZone begins with nothing it has to take back.
LEMMA ConfigBegin ==
  ASSUME NEW c \in Commands \ {"zoneAdd"}, NEW z, NEW g, NEW first,
         Begin(c, z, g, first), first = "save" /\ c \notin Transactions => Valid(g)
  PROVE  ConfigInv'
<1>1. /\ Valid(config) /\ config' = config /\ origin'.config = config
      /\ cmd' = c /\ goal' = g /\ pc' = first
  BY DEF Begin
<1> QED
  BY <1>1 DEF ConfigInv

LEMMA ConfigStart == TypeOK /\ Start => ConfigInv'
<1> SUFFICES ASSUME TypeOK, Start PROVE ConfigInv'
  OBVIOUS
<1> USE DEF Commands, Transactions
<1>0. config \in ConfigFile
  BY DEF TypeOK
<1>1. CASE Change
  BY <1>1, ConfigBegin DEF Change
<1>2. CASE Apply
  BY <1>2, ConfigBegin DEF Apply
<1>3. CASE Install
  BY <1>3, ConfigBegin DEF Install
<1>4. ASSUME NEW z \in Zones, ZoneAdd(z) PROVE ConfigInv'
  <2> DEFINE g == [config EXCEPT !.local = @ \cup {z}]
             back(c) == [c EXCEPT !.local = @ \ {z}]
  <2>1. Begin("zoneAdd", z, g, "save")
    BY <1>4 DEF ZoneAdd
  <2>2. /\ Valid(config) /\ config' = config /\ origin'.config = config
        /\ cmd' = "zoneAdd" /\ zone' = z /\ goal' = g /\ pc' = "save"
    BY <2>1 DEF Begin
  <2>3. Valid(back(config))
    <3>1. /\ back(config).local \subseteq config.local
          /\ back(config).cloud = config.cloud /\ back(config).fwd = config.fwd
      BY <1>0 DEF ConfigFile
    <3> HIDE DEF back
    <3> QED
      BY <2>2, <3>1, ValidShrinks
  <2>4. Valid(back(g))
    <3>1. /\ back(g).local \subseteq config.local
          /\ back(g).cloud = config.cloud /\ back(g).fwd = config.fwd
      BY <1>0 DEF ConfigFile
    <3> HIDE DEF back, g
    <3> QED
      BY <2>2, <3>1, ValidShrinks
  <2>5. TakenBack(config)' = back(config) /\ TakenBack(goal)' = back(g)
    BY <2>2 DEF TakenBack
  <2> HIDE DEF back, g
  <2> QED
    BY <2>2, <2>3, <2>4, <2>5 DEF ConfigInv
<1>5. ASSUME NEW z \in Zones, ZoneRemove(z) PROVE ConfigInv'
  <2> DEFINE g == [config EXCEPT !.local = @ \ {z}]
  <2>1. Begin("zoneRemove", z, g, "save")
    BY <1>5 DEF ZoneRemove
  <2>2. /\ g.local \subseteq config.local
        /\ g.cloud = config.cloud /\ g.fwd = config.fwd
    BY <1>0 DEF ConfigFile
  <2> HIDE DEF g
  <2> QED
    BY <2>1, <2>2, ValidShrinks, ConfigBegin DEF Begin
<1>6. ASSUME NEW z \in Zones, CloudAdd(z) PROVE ConfigInv'
  BY <1>6, ConfigBegin DEF CloudAdd, FetchZone
<1>7. ASSUME NEW z \in Zones, CloudSync(z) PROVE ConfigInv'
  BY <1>7, ConfigBegin DEF CloudSync, FetchZone
<1>8. ASSUME NEW z \in Zones, CloudRemove(z) PROVE ConfigInv'
  BY <1>8, ConfigBegin DEF CloudRemove
<1>9. ASSUME NEW o \in Options, UpstreamSet(o) PROVE ConfigInv'
  <2> DEFINE g == [config EXCEPT !.opt = o]
  <2>1. Begin("upstream", NoZone, g, "save")
    BY <1>9 DEF UpstreamSet
  <2>2. g.local = config.local /\ g.cloud = config.cloud /\ g.fwd = config.fwd
    BY <1>0 DEF ConfigFile
  <2> HIDE DEF g
  <2> QED
    BY <2>1, <2>2, ValidShrinks, ConfigBegin DEF Begin
<1> QED
  BY <1>1, <1>2, <1>3, <1>4, <1>5, <1>6, <1>7, <1>8, <1>9 DEF Start

LEMMA ConfigStep == TypeOK /\ TransactionInv /\ ConfigInv /\ Step => ConfigInv'
<1> SUFFICES ASSUME TypeOK, TransactionInv, ConfigInv, Step PROVE ConfigInv'
  OBVIOUS
<1>s. CommandShape
  BY DEF TransactionInv
<1> USE <1>s DEF ConfigInv, CommandShape, TakenBack, Transactions, Steps, Goto,
                 AfterWait
<1>1. CASE ReloadZone
  BY <1>1 DEF ReloadZone
<1>2. CASE SaveConfig
  BY <1>2 DEF SaveConfig
<1>3. CASE CloudAddInvalid
  BY <1>3 DEF CloudAddInvalid
<1>4. CASE TruncateConf
  BY <1>4 DEF TruncateConf
<1>5. CASE \/ FillConf \/ CheckInstalled \/ RefillConf \/ Activate
           \/ WaitActivated \/ RestoreConf \/ ReloadBack \/ WaitBack
           \/ WaitZoneReloaded \/ RestartInstalled \/ WaitInstalled
  BY <1>5 DEF FillConf, CheckInstalled, RefillConf, Activate, WaitActivated,
              RestoreConf, ReloadBack, WaitBack, WaitZoneReloaded,
              RestartInstalled, WaitInstalled
<1>6. CASE Applied \/ ApplyFailed \/ UndoApplied \/ VerifyServed \/ RemoveFile
  BY <1>6 DEF Applied, ApplyFailed, UndoApplied, VerifyServed, RemoveFile
<1>7. CASE RollBack
  BY <1>7 DEF RollBack, Valid, DefaultConfig
<1>8. CASE RollBackFill
  BY <1>8 DEF RollBackFill, Undo
<1>9. CASE UndoSave
  <2>1. /\ config' = TakenBack(config) /\ zone' = zone /\ origin' = origin
        /\ cmd' = cmd /\ cmd = "zoneAdd" /\ pc = "undoSave" /\ pc' = "apply"
    BY <1>9 DEF UndoSave, Undo
  <2>2. config' \in ConfigFile
    BY <2>1 DEF TypeOK, ConfigFile
  <2>3. Valid(config')
    BY <2>1
  <2>4. Valid([config' EXCEPT !.local = @ \ {zone}])
    BY <2>2, <2>3 DEF Valid, ConfigFile
  <2> QED
    BY <2>1, <2>3, <2>4
<1>10. CASE Exit
  BY <1>10 DEF Exit, EndProcess
<1> QED
  BY <1>1, <1>2, <1>3, <1>4, <1>5, <1>6, <1>7, <1>8, <1>9, <1>10 DEF Step

LEMMA ConfigOther ==
  ASSUME TypeOK, TransactionInv, ConfigInv,
         \/ Daemon \/ Upset \/ UNCHANGED vars
         \/ \E o \in Options : EditConfig(o)
  PROVE  ConfigInv'
<1> USE DEF ConfigInv, TakenBack, commandVars
<1>1. CASE Daemon \/ Upset
  BY <1>1 DEF Daemon, Upset, others
<1>2. CASE UNCHANGED vars
  BY <1>2 DEF vars
<1>3. ASSUME NEW o \in Options, EditConfig(o) PROVE ConfigInv'
  <2>1. pc = "idle" /\ pc' = "idle" /\ cmd' = "none" /\ config' = [config EXCEPT !.opt = o]
    BY <1>3 DEF EditConfig, TransactionInv, CommandShape
  <2>2. Valid(config)
    BY <2>1
  <2>3. Valid(config')
    BY <2>1, <2>2 DEF Valid, TypeOK, ConfigFile
  <2> QED
    BY <2>1, <2>3 DEF Steps
<1> QED
  BY <1>1, <1>2, <1>3

LEMMA ConfigHeld == Spec => [](crashes = 0 => ConfigInv)
<1>1. Init => ConfigInv
  BY ConfigInit
<1>2. /\ TypeOK /\ TransactionInv /\ (crashes = 0 => ConfigInv)
      /\ [Next]_vars
      => (crashes = 0 => ConfigInv)'
  <2> SUFFICES ASSUME TypeOK, TransactionInv, crashes = 0 => ConfigInv,
                      [Next]_vars, crashes' = 0
               PROVE  ConfigInv'
    OBVIOUS
  <2>1. crashes \in Nat
    BY BoundsAssumption DEF TypeOK
  <2>2. ~Crash /\ crashes = 0
    BY <2>1, CrashesCount DEF Crash
  <2> QED
    BY <2>2, ConfigStart, ConfigStep, ConfigOther DEF Next
<1> QED
  BY <1>1, <1>2, TypeCorrect, TransactionsHold, PTL DEF Spec

\* As long as no command was killed half-way, config.yaml between commands is
\* one that Load accepts: no command can lock the next one out, not even
\* createZone, which saves without validating.
THEOREM ConfigStaysLoadable == Spec => []ConfigLoads
<1>1. (crashes = 0 => ConfigInv) => ConfigLoads
  BY DEF ConfigInv, ConfigLoads, AtRest
<1> QED
  BY <1>1, ConfigHeld, PTL

-----------------------------------------------------------------------------
(* What the daemon serves, as long as nothing but the commands disturbs it *)
(* (NoFaults).  What it has read is good, and it is the fragment on disk,  *)
(* or the one that is being replaced (DaemonInv); no file goes that one of *)
(* the two names (FilesInv); the fragment names replicas only that         *)
(* config.yaml has, or that the running cloudAdd brings (CloudInv); the    *)
(* file that an addition brings is not named any more when its undo        *)
(* deletes it (AdditionInv); and a daemon found serving a fragment can     *)
(* come back with it at every step (UpInv).                                *)

Good(c) == HasText(c) => c.opt \notin Rejected \cup Unstartable

Waits == {"wait", "waitBack", "waitZone", "waitRestart"}
Writing == {"fill", "check", "refill", "activate"}

Serves(c) == loaded = c /\ started = StartupOptions(c)

DaemonInv ==
  /\ pc \notin Waits => daemon \in {"up", "down"}
  /\ Good(loaded)
  /\ daemon = "up" /\ pc \notin Writing \cup {"restart"} => Serves(conf)
  /\ daemon = "up" /\ pc \in Writing => Serves(current)
  /\ pc \in {"restore", "reloadBack"} => daemon = "down"
  /\ daemon = "queued" => started = StartupOptions(conf)
  /\ daemon \in {"reloading", "booting"} => Serves(conf)

FilesInv ==
  /\ Referenced(conf) \subseteq files
  /\ pc \in Holding => Referenced(current) \subseteq files

Known(z) == z \in origin.config.cloud \/ (cmd = "cloudAdd" /\ z = zone)

Replicas(c) == {z \in Zones : CloudFile(z) \in Referenced(c)}

CloudInv ==
  /\ pc = "idle" => Replicas(conf) \subseteq config.cloud
  /\ pc # "idle" =>
       /\ \A z \in config.cloud \cup goal.cloud \cup Replicas(conf) : Known(z)
       /\ pc \in Holding => \A z \in Replicas(current) : Known(z)
       /\ cmd \notin Transactions => /\ config.cloud = origin.config.cloud
                                     /\ goal.cloud = origin.config.cloud
       /\ cmd \in Transactions /\ (phase = "undo" \/ pc = "failed")
            => config = origin.config

\* The file that an addition brings, and that its undo deletes.
AddedFile == IF cmd = "zoneAdd" THEN LocalFile(zone) ELSE CloudFile(zone)
Names(c) == AddedFile \in Referenced(c)

\* The settings an addition found are fit to be installed, and to be served
\* by the daemon, if there is one.
Fit == /\ origin.config.opt \notin Rejected
       /\ daemon = "down" \/ origin.config.opt \notin Unstartable

AdditionInv ==
  /\ pc \in AtGoal \ {"check"} => CheckConf(conf)
  /\ cmd \in Additions =>
       /\ goal.opt = origin.config.opt
       /\ pc \in Holding \cup {"apply", "applied"} => config.opt = origin.config.opt
       /\ Names(conf) =>
            /\ pc \notin {"reloadZone", "waitZone", "save", "reloadBack",
                          "waitBack", "removeFile", "failed"}
            /\ phase = "do" => pc # "apply"
            /\ phase = "undo" => pc = "apply"
            /\ pc \in {"applyFailed", "rollback", "rollbackFill", "undoSave", "apply"}
                 => Fit
       /\ pc \in Holding /\ Names(current) =>
            /\ phase = "undo" /\ pc \notin {"refill", "restore"}
            /\ pc # "wait" => Fit
            /\ pc = "wait" => daemon # "down" /\ Good(conf)

UpInv ==
  origin.up /\ HasText(origin.conf) /\ cmd # "install" =>
    /\ pc \notin {"wait", "restore", "reloadBack"} => daemon # "down"
    /\ pc \notin {"fill", "refill", "restore"} => HasText(conf)
    /\ pc \in Holding => HasText(current) /\ Good(current)
    /\ pc \in {"reloadZone", "waitZone", "reloadBack", "waitBack"} => Good(conf)

ServeInv == DaemonInv /\ FilesInv /\ CloudInv /\ AdditionInv /\ UpInv

\* A fragment that is not there names nothing; a rendered one names what is
\* on disk and configured, and carries the settings.
LEMMA ReferencedFiles ==
  /\ Referenced(NoConf) = {} /\ Referenced(EmptyConf) = {}
  /\ \A c \in ConfigFile, fs \in SUBSET ZoneFiles :
       /\ Referenced(Render(c, fs)) \subseteq fs
       /\ \A z : LocalFile(z) \in Referenced(Render(c, fs)) => z \in c.local
       /\ \A z : CloudFile(z) \in Referenced(Render(c, fs)) => z \in c.cloud
       /\ Replicas(Render(c, fs)) \subseteq c.cloud
       /\ Render(c, fs).opt = c.opt
<1>1. Referenced(NoConf) = {} /\ Referenced(EmptyConf) = {}
  BY DEF Referenced, HasText
<1>2. ASSUME NEW c \in ConfigFile, NEW fs \in SUBSET ZoneFiles
      PROVE  /\ Referenced(Render(c, fs)) \subseteq fs
             /\ \A z : LocalFile(z) \in Referenced(Render(c, fs)) => z \in c.local
             /\ \A z : CloudFile(z) \in Referenced(Render(c, fs)) => z \in c.cloud
             /\ Render(c, fs).opt = c.opt
  <2>1. Referenced(Render(c, fs)) =
          {f \in fs : \/ f[1] = "local" /\ f[2] \in c.local
                      \/ f[1] = "cloud" /\ f[2] \in c.cloud}
    <3>1. HasText(Render(c, fs))
      BY RenderType
    <3> QED
      BY <3>1 DEF Referenced, Render
  <2>2. Render(c, fs).opt = c.opt
    BY DEF Render
  <2> QED
    BY <2>1, <2>2 DEF LocalFile, CloudFile
<1> QED
  BY <1>1, <1>2 DEF Replicas

LEMMA ServeInit == Init => ServeInv
<1> SUFFICES ASSUME Init PROVE ServeInv
  OBVIOUS
<1>1. Replicas(conf) = {} /\ Referenced(conf) = {}
  BY ReferencedFiles DEF Init, UnboundInit, Replicas
<1> QED
  BY <1>1
  DEF Init, UnboundInit, ServeInv, DaemonInv, FilesInv, CloudInv, AdditionInv,
      UpInv, Good, HasText, Serves, StartupOptions, Waits, Writing, Holding,
      AtGoal, Additions, NoOrigin

-----------------------------------------------------------------------------
(* The daemon.                                                             *)

LEMMA DaemonStart == TypeOK /\ DaemonInv /\ Start => DaemonInv'
<1> SUFFICES ASSUME TypeOK, DaemonInv, Start PROVE DaemonInv'
  OBVIOUS
<1>1. /\ pc = "idle" /\ UNCHANGED <<conf, daemon, loaded, started>>
      /\ pc' \in {"save", "apply", "reloadZone", "succeeded"}
  BY DEF Start, Change, Apply, Install, ZoneAdd, ZoneRemove, CloudAdd,
         CloudSync, CloudRemove, UpstreamSet, FetchZone, Begin, unboundVars
<1> QED
  BY <1>1 DEF DaemonInv, Good, Serves, Waits, Writing

LEMMA DaemonStep ==
  ASSUME TypeOK, TransactionInv, DaemonInv, Step, upsets' = upsets
  PROVE  DaemonInv'
<1>t. ~TimedOut
  BY BoundsAssumption DEF TimedOut, TypeOK
<1> USE <1>t DEF DaemonInv, Good, Serves, Waits, Writing, Goto, AfterWait,
                 unboundVars, Active, ControlAnswers
<1>1. CASE ReloadZone
  BY <1>1 DEF ReloadZone, RequestReload, RequestRestart
<1>2. CASE SaveConfig \/ CloudAddInvalid
  BY <1>2 DEF SaveConfig, CloudAddInvalid
<1>3. CASE TruncateConf
  BY <1>3 DEF TruncateConf
<1>4. CASE FillConf
  BY <1>4 DEF FillConf
<1>5. CASE CheckInstalled
  BY <1>5 DEF CheckInstalled
<1>6. CASE RefillConf
  BY <1>6 DEF RefillConf
<1>7. CASE Activate
  BY <1>7 DEF Activate, RequestReload, RequestRestart
<1>8. CASE WaitActivated
  BY <1>8 DEF WaitActivated, Ready, Gone
<1>9. CASE RestoreConf
  BY <1>9 DEF RestoreConf
<1>10. CASE ReloadBack
  BY <1>10 DEF ReloadBack, RequestReload, RequestRestart
<1>11. CASE WaitBack
  BY <1>11 DEF WaitBack, Ready, Gone
<1>12. CASE WaitZoneReloaded
  BY <1>12 DEF WaitZoneReloaded, Ready, Gone
<1>13. CASE RestartInstalled
  BY <1>13 DEF RestartInstalled, RequestRestart
<1>14. CASE WaitInstalled
  BY <1>14 DEF WaitInstalled, Ready, Gone
<1>15. CASE Applied \/ ApplyFailed \/ UndoApplied \/ VerifyServed \/ RemoveFile
  BY <1>15 DEF Applied, ApplyFailed, UndoApplied, VerifyServed, RemoveFile
<1>16. CASE RollBack \/ RollBackFill \/ UndoSave
  BY <1>16 DEF RollBack, RollBackFill, UndoSave, Undo
<1>17. CASE Exit
  BY <1>17 DEF Exit, EndProcess
<1> QED
  BY <1>1, <1>2, <1>3, <1>4, <1>5, <1>6, <1>7, <1>8, <1>9, <1>10, <1>11, <1>12,
     <1>13, <1>14, <1>15, <1>16, <1>17 DEF Step

LEMMA DaemonDaemon ==
  ASSUME TypeOK, DaemonInv,
         Daemon \/ UNCHANGED vars \/ \E o \in Options : EditConfig(o)
  PROVE  DaemonInv'
<1> USE DEF DaemonInv, Good, Serves, Waits, Writing, unboundVars, commandVars
<1>1. CASE Daemon
  BY <1>1 DEF Daemon, DaemonReads, DaemonReady, Loadable, others
<1>2. CASE UNCHANGED vars
  BY <1>2 DEF vars
<1>3. CASE \E o \in Options : EditConfig(o)
  BY <1>3 DEF EditConfig
<1> QED
  BY <1>1, <1>2, <1>3

-----------------------------------------------------------------------------
(* The files.                                                              *)

LEMMA FilesStart == TypeOK /\ FilesInv /\ Start => FilesInv'
<1> SUFFICES ASSUME TypeOK, FilesInv, Start PROVE FilesInv'
  OBVIOUS
<1>1. /\ conf' = conf /\ files \subseteq files'
      /\ pc' \in {"save", "apply", "reloadZone", "succeeded"}
  BY DEF Start, Change, Apply, Install, ZoneAdd, ZoneRemove, CloudAdd,
         CloudSync, CloudRemove, UpstreamSet, FetchZone, Begin
<1> QED
  BY <1>1 DEF FilesInv, Holding

LEMMA FilesStep ==
  ASSUME TypeOK, TransactionInv, FilesInv, AdditionInv, Step
  PROVE  FilesInv'
<1>t. config \in ConfigFile /\ files \in SUBSET ZoneFiles
  BY DEF TypeOK, UnboundTypeOK
<1> USE ReferencedFiles DEF FilesInv, Holding, Goto, AfterWait
<1>1. CASE TruncateConf
  BY <1>1 DEF TruncateConf
<1>2. CASE FillConf
  BY <1>2, <1>t DEF FillConf
<1>3. CASE CheckInstalled
  BY <1>3 DEF CheckInstalled
<1>4. CASE RefillConf \/ RestoreConf
  BY <1>4 DEF RefillConf, RestoreConf
<1>5. CASE Activate
  BY <1>5 DEF Activate
<1>6. CASE WaitActivated
  BY <1>6 DEF WaitActivated
<1>7. CASE RemoveFile
  <2> DEFINE f == IF cmd \in {"zoneAdd", "zoneRemove"}
                  THEN LocalFile(zone) ELSE CloudFile(zone)
  <2>1. /\ pc = "removeFile" /\ conf' = conf /\ files' = files \ {f}
        /\ pc' \in {"succeeded", "failed"}
    BY <1>7 DEF RemoveFile
  <2>2. phase = "do" => cmd \in Removals /\ conf = Render(config, files)
                        /\ config = goal
    BY <2>1 DEF TransactionInv, CommandShape, FragmentInv
  <2>3. phase = "do" => f \notin Referenced(conf)
    <3>1. cmd = "zoneRemove" => zone \notin goal.local
      BY DEF TransactionInv, CommandShape
    <3>2. cmd = "cloudRemove" => zone \notin goal.cloud
      BY DEF TransactionInv, CommandShape
    <3> QED
      BY <2>2, <3>1, <3>2, <1>t DEF Removals
  <2>4. phase = "undo" => cmd \in Additions
    BY <2>1 DEF TransactionInv, CommandShape
  <2>5. phase = "undo" => f \notin Referenced(conf)
    BY <2>1, <2>4 DEF AdditionInv, Names, AddedFile, Additions
  <2>6. phase \in {"do", "undo"}
    BY DEF TypeOK
  <2> HIDE DEF f
  <2> QED
    BY <2>1, <2>3, <2>5, <2>6
<1>8. CASE \/ ReloadZone \/ SaveConfig \/ CloudAddInvalid \/ ReloadBack
           \/ WaitBack \/ WaitZoneReloaded \/ RestartInstalled \/ WaitInstalled
           \/ Applied \/ ApplyFailed \/ UndoApplied \/ RollBack
           \/ RollBackFill \/ UndoSave \/ VerifyServed \/ Exit
  <2>1. /\ conf' = conf /\ files' = files /\ pc' \notin Holding
    BY <1>8
    DEF ReloadZone, SaveConfig, CloudAddInvalid, ReloadBack, WaitBack,
        WaitZoneReloaded, RestartInstalled, WaitInstalled, Applied,
        ApplyFailed, UndoApplied, RollBack, RollBackFill, UndoSave, Undo,
        VerifyServed, Exit, EndProcess
  <2> QED
    BY <2>1
<1> QED
  BY <1>1, <1>2, <1>3, <1>4, <1>5, <1>6, <1>7, <1>8 DEF Step

LEMMA FilesOther ==
  ASSUME FilesInv,
         Daemon \/ UNCHANGED vars \/ \E o \in Options : EditConfig(o)
  PROVE  FilesInv'
  BY DEF FilesInv, Daemon, DaemonReads, DaemonReady, others, vars, commandVars,
         EditConfig

-----------------------------------------------------------------------------
(* The replicas.                                                           *)

\* A command begins with the fragment and the replicas it found.
LEMMA CloudBegin ==
  ASSUME TypeOK, CloudInv,
         NEW c \in Commands, NEW z, NEW g \in ConfigFile, NEW first, Begin(c, z, g, first),
         first \in {"save", "apply", "reloadZone", "succeeded"},
         g.cloud \subseteq config.cloud \/ (c = "cloudAdd" /\ g.cloud = config.cloud \cup {z}),
         c \notin Transactions => g.cloud = config.cloud
  PROVE  CloudInv'
<1>1. /\ pc = "idle" /\ pc' = first /\ conf' = conf /\ config' = config
      /\ cmd' = c /\ zone' = z /\ goal' = g /\ phase' = "do"
      /\ origin'.config = config
  BY DEF Begin
<1>2. Replicas(conf') = Replicas(conf) /\ Replicas(conf) \subseteq config.cloud
  BY <1>1 DEF CloudInv
<1>3. \A y \in config'.cloud \cup goal'.cloud \cup Replicas(conf') : Known(y)'
  BY <1>1, <1>2 DEF Known
<1> QED
  BY <1>1, <1>3 DEF CloudInv, Holding

LEMMA CloudStart == TypeOK /\ CloudInv /\ Start => CloudInv'
<1> SUFFICES ASSUME TypeOK, CloudInv, Start PROVE CloudInv'
  OBVIOUS
<1> USE DEF Commands, Transactions
<1>0. config \in ConfigFile
  BY DEF TypeOK
<1>1. CASE Change
  <2> DEFINE G == {[config EXCEPT !.opt = o] : o \in Options}
                    \cup {[config EXCEPT !.fwd = @ \cup {z}] : z \in Zones}
                    \cup {[config EXCEPT !.fwd = @ \ {z}] : z \in Zones}
  <2>1. \A g \in G : g \in ConfigFile /\ g.cloud = config.cloud
    BY <1>0 DEF ConfigFile
  <2>2. PICK g \in G : Begin("change", NoZone, g, "save")
    BY <1>1 DEF Change
  <2> HIDE DEF G
  <2>3. g \in ConfigFile /\ g.cloud \subseteq config.cloud
    BY <2>1
  <2> QED
    BY <2>2, <2>3, CloudBegin
<1>2. CASE Apply \/ Install
  BY <1>0, <1>2, CloudBegin DEF Apply, Install
<1>3. ASSUME NEW z \in Zones,
             NEW g \in {[config EXCEPT !.local = @ \cup {z}],
                        [config EXCEPT !.local = @ \ {z}]},
             Begin("zoneAdd", z, g, "save") \/ Begin("zoneRemove", z, g, "save")
      PROVE  CloudInv'
  <2>1. g \in ConfigFile /\ g.cloud = config.cloud
    BY <1>0 DEF ConfigFile
  <2>2. g.cloud \subseteq config.cloud
    BY <2>1
  <2> QED
    BY <1>3, <2>1, <2>2, CloudBegin
<1>4. ASSUME NEW z \in Zones, NEW first \in {"save", "reloadZone"},
             Begin("cloudAdd", z, [config EXCEPT !.cloud = @ \cup {z}], first)
      PROVE  CloudInv'
  <2> DEFINE g == [config EXCEPT !.cloud = @ \cup {z}]
  <2>1. g \in ConfigFile /\ g.cloud = config.cloud \cup {z}
    BY <1>0 DEF ConfigFile
  <2>2. Begin("cloudAdd", z, g, first)
    BY <1>4
  <2> HIDE DEF g
  <2> QED
    BY <2>1, <2>2, CloudBegin
<1>5. ASSUME NEW z \in Zones, CloudSync(z) PROVE CloudInv'
  BY <1>0, <1>5, CloudBegin DEF CloudSync, FetchZone
<1>6. ASSUME NEW z \in Zones, CloudRemove(z) PROVE CloudInv'
  <2> DEFINE g == [config EXCEPT !.cloud = @ \ {z}]
  <2>1. g \in ConfigFile /\ g.cloud \subseteq config.cloud
    BY <1>0 DEF ConfigFile
  <2>2. Begin("cloudRemove", z, g, "save")
    BY <1>6 DEF CloudRemove
  <2> HIDE DEF g
  <2> QED
    BY <2>1, <2>2, CloudBegin
<1>7. ASSUME NEW o \in Options, UpstreamSet(o) PROVE CloudInv'
  <2> DEFINE g == [config EXCEPT !.opt = o]
  <2>1. g \in ConfigFile /\ g.cloud = config.cloud
    BY <1>0 DEF ConfigFile
  <2>2. Begin("upstream", NoZone, g, "save")
    BY <1>7 DEF UpstreamSet
  <2>3. g.cloud \subseteq config.cloud
    BY <2>1
  <2> HIDE DEF g
  <2> QED
    BY <2>1, <2>2, <2>3, CloudBegin
<1> QED
  BY <1>1, <1>2, <1>3, <1>4, <1>5, <1>6, <1>7
  DEF Start, ZoneAdd, ZoneRemove, CloudAdd, FetchZone

LEMMA CloudStep ==
  ASSUME TypeOK, TransactionInv, HeldInv, CloudInv, AdditionInv, Step
  PROVE  CloudInv'
<1>t. /\ config \in ConfigFile /\ goal \in ConfigFile /\ files \in SUBSET ZoneFiles
      /\ zone \in Zones \cup {NoZone} /\ cmd \in Commands /\ phase \in {"do", "undo"}
  BY DEF TypeOK, UnboundTypeOK
<1>s. CommandShape /\ StoreInv /\ HeldInv
  BY DEF TransactionInv
<1>r. Replicas(NoConf) = {} /\ Replicas(EmptyConf) = {}
  BY ReferencedFiles DEF Replicas
<1> USE DEF CloudInv, Known, Holding, Transactions, Goto, AfterWait
<1>1. CASE \/ ReloadZone \/ CloudAddInvalid \/ Activate \/ ReloadBack
           \/ WaitBack \/ WaitZoneReloaded \/ RestartInstalled \/ WaitInstalled
           \/ Applied \/ ApplyFailed \/ UndoApplied \/ VerifyServed \/ RemoveFile
  <2>1. /\ UNCHANGED <<config, goal, conf, current, origin, cmd, zone>>
        /\ pc # "idle" /\ pc' # "idle"
        /\ pc' \in Holding => pc \in Holding
    BY <1>1
    DEF ReloadZone, CloudAddInvalid, Activate, ReloadBack, WaitBack,
        WaitZoneReloaded, RestartInstalled, WaitInstalled, Applied, ApplyFailed,
        UndoApplied, VerifyServed, RemoveFile
  <2>2. ASSUME cmd \in Transactions, phase' = "undo" \/ pc' = "failed"
        PROVE  config = origin.config
    <3>1. \/ pc \in {"save", "waitZone"}
          \/ phase' = phase /\ (phase = "do" => pc' # "failed")
      BY <1>1, <1>s, <2>2
      DEF CommandShape, ReloadZone, CloudAddInvalid, Activate, ReloadBack,
          WaitBack, WaitZoneReloaded, RestartInstalled, WaitInstalled, Applied,
          ApplyFailed, UndoApplied, VerifyServed, RemoveFile
    <3> QED
      BY <1>s, <1>t, <2>2, <3>1 DEF StoreInv
  <2> QED
    BY <2>1, <2>2
<1>2. CASE SaveConfig
  BY <1>2, <1>s DEF SaveConfig, CommandShape
<1>3. CASE TruncateConf
  BY <1>3, <1>r DEF TruncateConf
<1>4. CASE FillConf
  BY <1>4, <1>t, ReferencedFiles DEF FillConf
<1>5. CASE CheckInstalled
  BY <1>5, <1>r DEF CheckInstalled
<1>6. CASE RefillConf \/ RestoreConf
  BY <1>6 DEF RefillConf, RestoreConf
<1>7. CASE WaitActivated
  BY <1>7, <1>r DEF WaitActivated
<1>8. CASE RollBack
  BY <1>8, <1>s DEF RollBack, DefaultConfig, CommandShape
<1>9. CASE RollBackFill
  BY <1>9, <1>s DEF RollBackFill, Undo, CommandShape
<1>10. CASE UndoSave
  <2>1. config'.cloud = config.cloud
    BY <1>10, <1>t DEF UndoSave, Undo, ConfigFile
  <2> QED
    BY <1>10, <1>s, <2>1 DEF UndoSave, Undo, CommandShape
<1>11. CASE Exit
  <2>1. /\ pc \in {"succeeded", "failed"} /\ pc' = "idle"
        /\ conf' = conf /\ config' = config
    BY <1>11 DEF Exit, EndProcess
  <2>2. ASSUME cmd \notin Transactions PROVE Replicas(conf) \subseteq config.cloud
    BY <2>1, <2>2
  <2>3. ASSUME cmd \in Transactions, pc = "succeeded"
        PROVE  Replicas(conf) \subseteq config.cloud
    BY <1>t, <2>3, ReferencedFiles DEF TransactionInv, SuccessInstalls
  <2>4. ASSUME cmd \in Transactions, pc = "failed"
        PROVE  Replicas(conf) \subseteq config.cloud
    <3>1. cmd = "cloudAdd" => CloudFile(zone) \notin Referenced(conf)
      BY <2>4 DEF AdditionInv, Additions, Names, AddedFile
    <3>2. config = origin.config
      BY <2>4
    <3>3. ASSUME NEW y \in Replicas(conf) PROVE y \in config.cloud
      BY <2>1, <3>1, <3>2, <3>3 DEF Replicas
    <3> QED
      BY <3>3
  <2> QED
    BY <2>1, <2>2, <2>3, <2>4
<1> QED
  BY <1>1, <1>2, <1>3, <1>4, <1>5, <1>6, <1>7, <1>8, <1>9, <1>10, <1>11 DEF Step

LEMMA CloudOther ==
  ASSUME TypeOK, TransactionInv, CloudInv,
         Daemon \/ UNCHANGED vars \/ \E o \in Options : EditConfig(o)
  PROVE  CloudInv'
<1> USE DEF CloudInv, Known, Holding, Transactions, commandVars
<1>1. CASE Daemon
  BY <1>1 DEF Daemon, DaemonReads, DaemonReady, others
<1>2. CASE UNCHANGED vars
  BY <1>2 DEF vars
<1>3. ASSUME NEW o \in Options, EditConfig(o) PROVE CloudInv'
  <2>1. config'.cloud = config.cloud /\ pc = "idle" /\ pc' = "idle" /\ conf' = conf
    BY <1>3 DEF EditConfig, TypeOK, ConfigFile
  <2> QED
    BY <2>1
<1> QED
  BY <1>1, <1>2, <1>3

-----------------------------------------------------------------------------
(* The additions.                                                          *)

LEMMA AdditionStart ==
  ASSUME TypeOK, FilesInv, CloudInv, Start PROVE AdditionInv'
<1>t. config \in ConfigFile
  BY DEF TypeOK
<1>1. ASSUME NEW c \in Commands \ Additions, NEW z, NEW g, NEW first,
             Begin(c, z, g, first),
             first \in {"save", "apply", "reloadZone", "succeeded"}
      PROVE  AdditionInv'
  BY <1>1 DEF Begin, AdditionInv, AtGoal
<1>2. ASSUME NEW c \in Additions, NEW z \in Zones, NEW g,
             NEW first \in {"save", "reloadZone"}, Begin(c, z, g, first),
             g.opt = config.opt,
             c = "zoneAdd" => LocalFile(z) \notin Referenced(conf),
             c = "cloudAdd" => CloudFile(z) \notin Referenced(conf)
      PROVE  AdditionInv'
  <2>1. /\ pc' = first /\ goal' = g /\ phase' = "do" /\ conf' = conf
        /\ cmd' = c /\ zone' = z /\ origin'.config = config
    BY <1>2 DEF Begin
  <2>2. ~Names(conf)'
    BY <1>2, <2>1 DEF Names, AddedFile, Additions
  <2> QED
    BY <1>2, <2>1, <2>2 DEF AdditionInv, AtGoal, Holding
<1>3. CASE Change
  BY <1>1, <1>3 DEF Change, Commands, Transactions, Additions
<1>4. CASE Apply \/ Install
  BY <1>1, <1>4 DEF Apply, Install, Commands, Additions
<1>5. ASSUME NEW z \in Zones, ZoneAdd(z) PROVE AdditionInv'
  <2> DEFINE g == [config EXCEPT !.local = @ \cup {z}]
  <2>1. g.opt = config.opt /\ LocalFile(z) \notin Referenced(conf)
    BY <1>5, <1>t DEF ZoneAdd, ConfigFile, FilesInv
  <2>2. Begin("zoneAdd", z, g, "save")
    BY <1>5 DEF ZoneAdd
  <2> HIDE DEF g
  <2> QED
    BY <1>2, <2>1, <2>2 DEF Additions
<1>6. ASSUME NEW z \in Zones, CloudAdd(z) PROVE AdditionInv'
  <2> DEFINE g == [config EXCEPT !.cloud = @ \cup {z}]
  <2>1. g.opt = config.opt
    BY <1>t DEF ConfigFile
  <2>2. Begin("cloudAdd", z, g, "save") \/ Begin("cloudAdd", z, g, "reloadZone")
    BY <1>6 DEF CloudAdd, FetchZone
  <2>3. CloudFile(z) \notin Referenced(conf)
    BY <1>6, <2>2 DEF CloudAdd, Begin, CloudInv, Replicas
  <2> HIDE DEF g
  <2> QED
    BY <1>2, <2>1, <2>2, <2>3 DEF Additions
<1>7. ASSUME NEW z \in Zones, ZoneRemove(z) \/ CloudSync(z) \/ CloudRemove(z)
      PROVE  AdditionInv'
  BY <1>1, <1>7
  DEF ZoneRemove, CloudSync, CloudRemove, FetchZone, Commands, Transactions,
      Additions
<1>8. ASSUME NEW o \in Options, UpstreamSet(o) PROVE AdditionInv'
  BY <1>1, <1>8 DEF UpstreamSet, Commands, Additions
<1> QED
  BY <1>3, <1>4, <1>5, <1>6, <1>7, <1>8 DEF Start

LEMMA AdditionStep ==
  ASSUME TypeOK, TransactionInv, HeldInv, ConfigInv, DaemonInv, AdditionInv,
         Step, upsets' = upsets
  PROVE  AdditionInv'
<1>t. /\ config \in ConfigFile /\ goal \in ConfigFile /\ files \in SUBSET ZoneFiles
      /\ phase \in {"do", "undo"}
  BY DEF TypeOK, UnboundTypeOK
<1>u. ~TimedOut
  BY BoundsAssumption DEF TimedOut, TypeOK
<1>s. CommandShape /\ StoreInv /\ FragmentInv /\ ZoneAddHeld
  BY DEF TransactionInv, HeldInv
<1>r. AddedFile \notin Referenced(NoConf) /\ AddedFile \notin Referenced(EmptyConf)
  BY ReferencedFiles
<1>n. UNCHANGED <<cmd, zone>> => AddedFile' = AddedFile
  BY DEF AddedFile
\* An undo has config.yaml as the addition found it, without the added zone.
<1>b. ASSUME cmd \in Additions, phase = "undo", pc \in Steps
      PROVE  config = origin.config /\ ~Names(Render(config, files))
  <2>1. config = origin.config
    BY <1>b, <1>s DEF StoreInv, ZoneAddHeld, Additions, Transactions
  <2>2. IF cmd = "zoneAdd" THEN zone \notin config.local ELSE zone \notin config.cloud
    BY <1>b, <1>s, <2>1 DEF CommandShape, ZoneAddHeld, Additions
  <2> QED
    BY <1>t, <2>1, <2>2, ReferencedFiles DEF Names, AddedFile
\* What is installed has the settings of config.yaml.
<1>o. /\ pc \in AtGoal => conf.opt = config.opt /\ HasText(conf)
      /\ cmd \in Additions /\ pc = "verify" => config.opt = origin.config.opt
  <2>1. pc \in AtGoal => conf.opt = config.opt /\ HasText(conf)
    BY <1>t, <1>s, RenderType, ReferencedFiles DEF FragmentInv
  <2>2. cmd \in Additions /\ pc = "verify" => config.opt = origin.config.opt
    BY <1>s DEF CommandShape, ZoneAddHeld, Steps, AdditionInv
  <2> QED
    BY <2>1, <2>2
<1> USE <1>r, <1>n
    DEF AdditionInv, Names, Fit, Holding, AtGoal, Goto, AfterWait
<1>1. CASE ReloadZone
  BY <1>1 DEF ReloadZone
<1>2. CASE SaveConfig
  BY <1>2, <1>s DEF SaveConfig, CommandShape
<1>3. CASE CloudAddInvalid
  BY <1>3 DEF CloudAddInvalid
<1>4. CASE TruncateConf
  BY <1>4, <1>t DEF TruncateConf, ConfigInv, unboundVars
<1>5. CASE FillConf
  <2>1. /\ pc = "fill" /\ pc' = "check" /\ conf' = Render(config, files)
        /\ UNCHANGED <<current, config, daemon, cmd, zone, goal, phase, origin>>
    BY <1>5 DEF FillConf, unboundVars
  <2>2. cmd \in Additions /\ phase = "undo" => ~Names(conf')
    BY <1>b, <2>1 DEF Steps
  <2> QED
    BY <1>t, <2>1, <2>2
<1>6. CASE CheckInstalled
  <2>1. /\ pc = "check"
        /\ UNCHANGED <<current, config, daemon, cmd, zone, goal, phase, origin>>
        /\ \/ conf' = conf /\ CheckConf(conf)
              /\ pc' = IF cmd = "install" THEN "restart" ELSE "activate"
           \/ conf' = NoConf /\ pc' = "applyFailed"
           \/ conf' = EmptyConf /\ pc' = "refill" /\ ~CheckConf(conf)
    BY <1>6 DEF CheckInstalled, unboundVars
  <2>2. cmd \in Additions /\ Names(current) => CheckConf(conf)
    BY <1>o, <2>1 DEF CheckConf
  <2>3. Names(conf') => Names(conf)
    BY <2>1
  <2> QED
    BY <2>1, <2>2, <2>3
<1>7. CASE RefillConf
  BY <1>7 DEF RefillConf, unboundVars
<1>8. CASE Activate
  <2>1. /\ pc = "activate" /\ conf' = conf
        /\ UNCHANGED <<current, config, cmd, zone, goal, phase, origin>>
        /\ \/ pc' = "applied" /\ daemon' = daemon
           \/ pc' = "wait" /\ daemon' # "down" /\ daemon # "down"
    BY <1>8 DEF Activate, RequestReload, RequestRestart, Active, unboundVars
  <2>2. cmd \in Additions /\ Names(current) /\ daemon # "down" => Good(conf)
    BY <1>o, <2>1 DEF Good
  <2> QED
    BY <2>1, <2>2 DEF Good
<1>9. CASE WaitActivated
  <2>1. /\ pc = "wait" /\ pc' \in {"applied", "restore", "applyFailed"}
        /\ UNCHANGED <<current, config, daemon, cmd, zone, goal, phase, origin>>
        /\ pc' \in {"restore", "applyFailed"} => daemon = "down"
        /\ IF pc' = "restore" THEN conf' = EmptyConf ELSE conf' = conf
    BY <1>9, <1>u DEF WaitActivated, Ready, Gone, unboundVars
  <2>2. cmd \in Additions => origin.config.opt \notin Rejected
    BY <1>o, <2>1 DEF CheckConf
  <2> QED
    BY <2>1, <2>2
<1>10. CASE RestoreConf
  BY <1>10 DEF RestoreConf
<1>11. CASE ReloadBack
  BY <1>11 DEF ReloadBack
<1>12. CASE WaitBack
  BY <1>12 DEF WaitBack
<1>13. CASE WaitZoneReloaded
  BY <1>13 DEF WaitZoneReloaded
<1>14. CASE RestartInstalled \/ WaitInstalled
  BY <1>14, <1>s DEF RestartInstalled, WaitInstalled, CommandShape, Additions
<1>15. CASE Applied
  BY <1>15 DEF Applied, Additions, Removals
<1>16. CASE ApplyFailed
  BY <1>16 DEF ApplyFailed, Additions, Transactions, unboundVars
<1>17. CASE UndoApplied
  BY <1>17 DEF UndoApplied
<1>18. CASE RollBack
  BY <1>18 DEF RollBack, unboundVars
<1>19. CASE RollBackFill
  BY <1>19 DEF RollBackFill, Undo, unboundVars
<1>20. CASE UndoSave
  <2>1. config'.opt = config.opt
    BY <1>20, <1>t DEF UndoSave, Undo, ConfigFile
  <2>2. cmd \in Additions => config.opt = origin.config.opt
    BY <1>20, <1>s DEF UndoSave, CommandShape, ZoneAddHeld, Steps
  <2> QED
    BY <1>20, <2>1, <2>2 DEF UndoSave, Undo, unboundVars
<1>21. CASE VerifyServed
  <2>1. /\ pc = "verify" /\ pc' \in {"succeeded", "undoSave"}
        /\ UNCHANGED <<conf, current, config, daemon, cmd, zone, goal, phase, origin>>
        /\ pc' = "undoSave" => Active
    BY <1>21 DEF VerifyServed, unboundVars
  <2>2. pc' = "undoSave" => daemon = "up" /\ loaded = conf
    BY <2>1 DEF Active, DaemonInv, Waits, Writing, Serves
  <2>3. cmd \in Additions /\ pc' = "undoSave" => Fit
    BY <1>o, <2>1, <2>2 DEF DaemonInv, Good
  <2> QED
    BY <2>1, <2>3
<1>22. CASE RemoveFile
  BY <1>22 DEF RemoveFile
<1>23. CASE Exit
  BY <1>23 DEF Exit, EndProcess, Additions
<1> QED
  BY <1>1, <1>2, <1>3, <1>4, <1>5, <1>6, <1>7, <1>8, <1>9, <1>10, <1>11, <1>12,
     <1>13, <1>14, <1>15, <1>16, <1>17, <1>18, <1>19, <1>20, <1>21, <1>22, <1>23
  DEF Step

LEMMA AdditionOther ==
  ASSUME TypeOK, TransactionInv, DaemonInv, FilesInv, AdditionInv,
         Daemon \/ UNCHANGED vars \/ \E o \in Options : EditConfig(o)
  PROVE  AdditionInv'
<1>1. CASE UNCHANGED vars
  BY <1>1 DEF vars, commandVars, unboundVars, AdditionInv, Names, AddedFile, Fit, Good
<1>2. CASE \E o \in Options : EditConfig(o)
  BY <1>2 DEF EditConfig, commandVars, AdditionInv, TransactionInv,
              CommandShape, AtGoal, Additions
<1>3. CASE Daemon
  <2>1. /\ UNCHANGED <<config, pc, cmd, zone, goal, phase, current, origin, conf>>
        /\ daemon \notin {"up", "down"}
    BY <1>3 DEF Daemon, DaemonReads, DaemonReady, others, commandVars
  <2>2. pc \in Waits
    BY <2>1 DEF DaemonInv
  <2>3. Good(conf) => daemon' # "down"
    BY <1>3 DEF Daemon, DaemonReads, DaemonReady, Loadable, FilesInv, Good
  <2> QED
    BY <2>1, <2>2, <2>3
    DEF AdditionInv, Names, AddedFile, Fit, Good, Waits, Holding, AtGoal
<1> QED
  BY <1>1, <1>2, <1>3

-----------------------------------------------------------------------------
(* A daemon that is there to stay.                                         *)

LEMMA UpStart == ASSUME TypeOK, DaemonInv, Start PROVE UpInv'
<1>1. /\ pc = "idle" /\ UNCHANGED <<conf, daemon, loaded>>
      /\ pc' \in {"save", "apply", "reloadZone", "succeeded"}
      /\ origin' = [config |-> config, conf |-> conf, up |-> daemon = "up"]
  BY DEF Start, Change, Apply, Install, ZoneAdd, ZoneRemove, CloudAdd,
         CloudSync, CloudRemove, UpstreamSet, FetchZone, Begin, unboundVars
<1>2. origin'.up => daemon = "up" /\ Good(conf)
  BY <1>1 DEF DaemonInv, Waits, Writing, Serves
<1> QED
  BY <1>1, <1>2 DEF UpInv, Holding, Good

LEMMA UpStep ==
  ASSUME TypeOK, TransactionInv, DaemonInv, UpInv, Step, upsets' = upsets
  PROVE  UpInv'
<1>t. /\ config \in ConfigFile /\ files \in SUBSET ZoneFiles
      /\ phase \in {"do", "undo"}
  BY DEF TypeOK, UnboundTypeOK
<1>u. ~TimedOut
  BY BoundsAssumption DEF TimedOut, TypeOK
<1> USE DEF UpInv, Good, Holding, Goto, AfterWait, unboundVars
<1>1. CASE ReloadZone
  BY <1>1 DEF ReloadZone, RequestReload, RequestRestart
<1>2. CASE SaveConfig \/ CloudAddInvalid
  BY <1>2 DEF SaveConfig, CloudAddInvalid
<1>3. CASE TruncateConf
  BY <1>3 DEF TruncateConf, DaemonInv, Waits, Writing, Serves
<1>4. CASE FillConf
  BY <1>4, <1>t, RenderType DEF FillConf
<1>5. CASE CheckInstalled
  BY <1>5 DEF CheckInstalled, HasText
<1>6. CASE RefillConf
  BY <1>6 DEF RefillConf
<1>7. CASE Activate
  BY <1>7 DEF Activate, RequestReload, RequestRestart
<1>8. CASE WaitActivated
  BY <1>8, <1>u DEF WaitActivated, Ready, Gone
<1>9. CASE RestoreConf
  BY <1>9 DEF RestoreConf
<1>10. CASE ReloadBack
  BY <1>10 DEF ReloadBack, RequestReload, RequestRestart
<1>11. CASE WaitBack
  BY <1>11 DEF WaitBack
<1>12. CASE WaitZoneReloaded
  BY <1>12 DEF WaitZoneReloaded
<1>13. CASE RestartInstalled \/ WaitInstalled
  BY <1>13 DEF RestartInstalled, RequestRestart, WaitInstalled, TransactionInv,
               CommandShape
<1>14. CASE Applied \/ ApplyFailed \/ UndoApplied \/ VerifyServed \/ RemoveFile
  BY <1>14 DEF Applied, ApplyFailed, UndoApplied, VerifyServed, RemoveFile
<1>15. CASE RollBack \/ RollBackFill \/ UndoSave
  BY <1>15 DEF RollBack, RollBackFill, UndoSave, Undo
<1>16. CASE Exit
  BY <1>16 DEF Exit, EndProcess, NoOrigin
<1> QED
  BY <1>1, <1>2, <1>3, <1>4, <1>5, <1>6, <1>7, <1>8, <1>9, <1>10, <1>11, <1>12,
     <1>13, <1>14, <1>15, <1>16 DEF Step

LEMMA UpOther ==
  ASSUME TransactionInv, DaemonInv, FilesInv, UpInv,
         Daemon \/ UNCHANGED vars \/ \E o \in Options : EditConfig(o)
  PROVE  UpInv'
<1> USE DEF UpInv, Good, Holding, unboundVars, commandVars
<1>1. CASE UNCHANGED vars
  BY <1>1 DEF vars
<1>2. CASE \E o \in Options : EditConfig(o)
  BY <1>2 DEF EditConfig
<1>3. CASE Daemon
  <2>1. /\ UNCHANGED <<pc, cmd, current, origin, conf>>
        /\ daemon \notin {"up", "down"}
    BY <1>3 DEF Daemon, DaemonReads, DaemonReady, others
  <2>2. pc \in Waits
    BY <2>1 DEF DaemonInv
  <2>3. Good(conf) => daemon' # "down"
    BY <1>3 DEF Daemon, DaemonReads, DaemonReady, Loadable, FilesInv
  <2> QED
    BY <2>1, <2>2, <2>3 DEF Waits, TransactionInv, CommandShape
<1> QED
  BY <1>1, <1>2, <1>3

-----------------------------------------------------------------------------
(* The whole.                                                              *)

\* A faultless step comes from a faultless state.
LEMMA FaultFree ==
  ASSUME TypeOK, [Next]_vars, NoFaults'
  PROVE  NoFaults /\ ~Crash /\ ~Upset /\ upsets' = upsets
<1>1. crashes \in Nat /\ upsets \in Nat
  BY BoundsAssumption DEF TypeOK
<1>2. ~Crash /\ crashes = 0
  BY <1>1, CrashesCount DEF Crash, NoFaults
<1>3. upsets' = upsets \/ upsets' = upsets + 1
  <2>1. CASE Start
    BY <2>1
    DEF Start, Change, Apply, Install, ZoneAdd, ZoneRemove, CloudAdd, CloudSync,
        CloudRemove, UpstreamSet, FetchZone, Begin, budgets
  <2>2. CASE Step
    BY <2>2
    DEF Step, ReloadZone, SaveConfig, CloudAddInvalid, TruncateConf, FillConf,
        CheckInstalled, RefillConf, Activate, WaitActivated, RestoreConf,
        ReloadBack, WaitBack, WaitZoneReloaded, RestartInstalled, WaitInstalled,
        Applied, ApplyFailed, UndoApplied, RollBack, RollBackFill, UndoSave, Undo,
        VerifyServed, RemoveFile, Exit, EndProcess, Goto, Ready, Gone, TimedOut, budgets
  <2>3. CASE Daemon \/ Upset \/ (\E o \in Options : EditConfig(o)) \/ UNCHANGED vars
    BY <2>3 DEF Daemon, Upset, EditConfig, others, vars, budgets
  <2> QED
    BY <1>2, <2>1, <2>2, <2>3 DEF Next
<1>4. upsets = 0 /\ upsets' = upsets
  BY <1>1, <1>3 DEF NoFaults
<1> QED
  BY <1>1, <1>2, <1>4 DEF NoFaults, Upset

LEMMA ServeHeld == Spec => [](NoFaults => ServeInv)
<1>1. Init => ServeInv
  BY ServeInit
<1>2. /\ TypeOK /\ TransactionInv /\ (crashes = 0 => HeldInv)
      /\ (crashes = 0 => ConfigInv) /\ (NoFaults => ServeInv)
      /\ [Next]_vars
      => (NoFaults => ServeInv)'
  <2> SUFFICES ASSUME TypeOK, TransactionInv, crashes = 0 => HeldInv,
                      crashes = 0 => ConfigInv, NoFaults => ServeInv,
                      [Next]_vars, NoFaults'
               PROVE  ServeInv'
    OBVIOUS
  <2>1. NoFaults /\ ~Crash /\ ~Upset /\ upsets' = upsets
    BY FaultFree
  <2>2. /\ HeldInv /\ ConfigInv
        /\ DaemonInv /\ FilesInv /\ CloudInv /\ AdditionInv /\ UpInv
    BY <2>1 DEF NoFaults, ServeInv
  <2>3. CASE Start
    BY <2>2, <2>3, DaemonStart, FilesStart, CloudStart, AdditionStart, UpStart
    DEF ServeInv
  <2>4. CASE Step
    BY <2>1, <2>2, <2>4, DaemonStep, FilesStep, CloudStep, AdditionStep, UpStep
    DEF ServeInv
  <2>5. CASE Daemon \/ UNCHANGED vars \/ \E o \in Options : EditConfig(o)
    BY <2>2, <2>5, DaemonDaemon, FilesOther, CloudOther, AdditionOther, UpOther
    DEF ServeInv
  <2> QED
    BY <2>1, <2>3, <2>4, <2>5 DEF Next
<1> QED
  BY <1>1, <1>2, TypeCorrect, TransactionsHold, HeldCorrect, ConfigHeld, PTL
  DEF Spec

\* Undisturbed, minidns.conf never names a zone file that is not on disk: the
\* commands write files before and delete them after the fragment that names
\* them, and createZone's undo has taken the zone out of it by then.
THEOREM FilesStayReferenced == Spec => []ReferencedFilesExist
<1>1. (NoFaults => ServeInv) => ReferencedFilesExist
  BY DEF ServeInv, FilesInv, ReferencedFilesExist
<1> QED
  BY <1>1, ServeHeld, PTL

\* Undisturbed, a daemon that is up while no command works serves what
\* minidns.conf says, in the options that only a restart changes too.
THEOREM ActiveFileIsServed == Spec => []DaemonServesActiveFile
<1>1. (NoFaults => ServeInv) => DaemonServesActiveFile
  BY DEF ServeInv, DaemonInv, Serves, DaemonServesActiveFile, AtRest, Writing
<1> QED
  BY <1>1, ServeHeld, PTL

\* Undisturbed, a command that fails or succeeds leaves the daemon up if it
\* found it up with a fragment to fall back to.
THEOREM DaemonSurvives == Spec => []NeverTakesDaemonDown
<1>1. (NoFaults => ServeInv) => NeverTakesDaemonDown
  BY DEF ServeInv, DaemonInv, UpInv, NeverTakesDaemonDown, Waits
<1> QED
  BY <1>1, ServeHeld, PTL
=============================================================================
