-------------------------- MODULE ConfigTransaction --------------------------
(***************************************************************************)
(* What SPEC.md section 16 asks of a command that changes active DNS       *)
(* behaviour, without saying how: the stored configuration and the         *)
(* fragment unbound reads change together and success is reported, or      *)
(* neither changes and failure is reported.                                *)
(*                                                                         *)
(* The commands that keep less than that have a step of their own below,   *)
(* named after what they leave, that no other command may take.            *)
(***************************************************************************)
EXTENDS Config

VARIABLES
  store,    \* config.yaml between commands
  active,   \* minidns.conf between commands
  done,     \* the command that has just ended, "none" once it is gone
  result    \* what it reports: "succeeded" or "failed"

Init ==
  /\ store = DefaultConfig
  /\ active = NoConf
  /\ done = "none"
  /\ result = "none"

Report(r) == done = "none" /\ done' # "none" /\ result' = r

\* a is what s renders to with some set of zone files on disk.
Matches(s, a) == \E fs \in SUBSET ZoneFiles : a = Render(s, fs)

Commit ==
  /\ Report("succeeded")
  /\ store' \in ConfigFile
  /\ Matches(store', active')


\* A replica's data is fresh; neither file is touched.
Sync ==
  /\ Report("succeeded")
  /\ done' = "cloudSync"
  /\ UNCHANGED <<store, active>>

\* The fragment stays; before the first installation there is none to go back
\* to, and the candidate can stay instead.
FragmentStays ==
  \/ active' = active
  \/ active = NoConf /\ active' \in RenderedConf

\* A fragment that was out of date may have been brought into line instead.
Abort ==
  /\ Report("failed")
  /\ store' = store
  /\ FragmentStays \/ Matches(store, active')

\* upstream set and zone remove fail without putting config.yaml back.
StoreKept ==
  /\ Report("failed")
  /\ done' \in {"upstream", "zoneRemove"}
  /\ store' \in ConfigFile
  /\ FragmentStays

\* createZone takes a zone back that the daemon turned out not to serve, the
\* daemon fails once more, and the fragment that names the zone stays.
ZoneLeftBehind ==
  /\ Report("failed")
  /\ done' = "zoneAdd"
  /\ \E z \in Zones :
       /\ store' = [store EXCEPT !.local = @ \ {z}]
       /\ Matches([store EXCEPT !.local = @ \cup {z}], active')

\* config.yaml is edited by hand.
Edit ==
  /\ done = "none"
  /\ \E o \in Options : store' = [store EXCEPT !.opt = o]
  /\ UNCHANGED <<active, done, result>>

Leave ==
  /\ done' = "none"
  /\ result' = "none"
  /\ UNCHANGED <<store, active>>

Next ==
  \/ Commit \/ Abort \/ Sync \/ StoreKept \/ ZoneLeftBehind
  \/ Edit \/ Leave

Spec == Init /\ [][Next]_<<store, active, done, result>>
=============================================================================
