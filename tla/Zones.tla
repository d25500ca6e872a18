------------------------------- MODULE Zones --------------------------------
(***************************************************************************)
(* The local zones of a host and the commands that edit them: record add   *)
(* and remove, host add, remove and rename (cmd/minidns/localzone.go over  *)
(* internal/zones).                                                        *)
(*                                                                         *)
(* A command loads the zones it needs, changes them in memory and then     *)
(* commits zone after zone: it saves the file, keeping the one before as   *)
(* .prev, has unbound reload the zone and compares the serial unbound      *)
(* answers with the one it wrote.  When a zone fails, that zone and every  *)
(* zone already committed are put back.  One command runs at a time (the   *)
(* state lock); it can be killed between any two steps, and unbound can    *)
(* stop, start, refuse a reload or answer too late at any moment.          *)
(***************************************************************************)
EXTENDS ZoneRecords

CONSTANTS
  Zone,         \* zone names
  Rank,         \* their alphabetical order, in which commit takes them
  ReverseZones, \* the zones that are reverse zones
  FirstZones,   \* the local zones to begin with,
  FirstRecs,    \* and the records commands have given them already
  Labels,       \* the length of each zone's name
  Hosts,        \* host names
  ZoneOf,       \* the forward zone of each host
  Addrs,        \* addresses, and the PTR names that stand for them
  Covers,       \* the reverse zones that contain an address
  Extra,        \* the records `record` adds and removes, for each zone
  Days,         \* what YYYYMMDD00 can be
  MaxCommands, MaxFaults, MaxKills   \* bounds of a run

ASSUME RankAssumption ==
  /\ Rank \in [Zone -> Nat]
  /\ \A y, z \in Zone : Rank[y] = Rank[z] => y = z

ASSUME ZoneAssumption ==
  /\ ReverseZones \subseteq Zone /\ FirstZones \subseteq Zone
  /\ ZoneOf \in [Hosts -> Zone \ ReverseZones]
  /\ Covers \in [Addrs -> SUBSET ReverseZones]
  /\ Labels \in [Zone -> 0..255]
  /\ \A z \in Zone : Extra[z] \subseteq Record

\* Names and addresses can own a record and be its data; the data of an address
\* record is an address; and commands do not make a SOA.
ASSUME RecordAssumption ==
  /\ Zone \cup Hosts \cup Addrs \subseteq Owners \cap Values
  /\ Metas # {} /\ SerialSpace \in Nat \ {0} /\ Days \subseteq Nat
  /\ \A z \in Zone :
       /\ FirstRecs[z] \subseteq Record
       /\ \A r \in FirstRecs[z] : r.type # "SOA"
       /\ \A r \in FirstRecs[z] \cup Extra[z] : r.type = "A" => r.value \in Addrs
  /\ MaxCommands \in Nat /\ MaxFaults \in Nat /\ MaxKills \in Nat

\* A file that does not exist, and a zone unbound does not know.
Absent == [serial |-> 0, recs |-> {}]

VARIABLES
  local,     \* LocalZones in config.yaml
  file,      \* the zone files
  prev,      \* their .prev
  up,        \* unbound is running
  served,    \* the zones unbound has loaded
  clock,     \* the date, as the lowest serial of the day
  pc,        \* where the running command is, "idle" if there is none
  mem,       \* the records of each zone in the command's memory
  todo,      \* touched zones still to be committed
  done,      \* zones committed by the running command
  report,    \* what the last command reported
  before,    \* history: the files when it began
  synced,    \* history: unbound served exactly those
  acked,     \* history: what commands that succeeded left in the files
  running,   \* history: the host command that runs or ran last
  torn,      \* history: the host command that was killed and not yet repeated
  killed, commands, faults   \* kills, commands and faults so far

disk == <<local, file, prev>>
command == <<pc, mem, todo, done>>
history == <<report, before, synced, acked, running, torn>>
vars == <<local, file, prev, up, served, clock, pc, mem, todo, done,
          report, before, synced, acked, running, torn, killed, commands, faults>>

TypeOK ==
  /\ local \in SUBSET Zone
  /\ \A z \in Zone : {file[z], prev[z], served[z]} \subseteq
                       [serial: Nat, recs: SUBSET Record]
  /\ \A z \in local : file[z] # Absent
  /\ clock \in Days
  /\ pc \in {"idle", "save", "activate", "verify", "undo", "takeBack"}
  /\ todo \in SUBSET local /\ done \in SUBSET local /\ todo \cap done = {}
  /\ pc \in {"save", "activate", "verify", "undo"} => todo # {}
  /\ report \in {"none", "ok", "failed"}

-----------------------------------------------------------------------------
\* Records and zones

DefaultMeta == CHOOSE m \in Metas : TRUE
ARecord(h, a, m) == [name |-> h, type |-> "A", value |-> a, meta |-> m]
PTRRecord(a, h, m) == [name |-> a, type |-> "PTR", value |-> h, meta |-> m]

\* Create: a new zone has a SOA and one name server.
Created(z, today) ==
  [serial |-> NextSerial(0, today),
   recs |-> {[name |-> z, type |-> t, value |-> z, meta |-> DefaultMeta] :
               t \in {"SOA", "NS"}}]

ASSUME FirstAssumption ==
  \A z \in Zone, today \in Days : CnamesAlone(Created(z, today).recs \cup FirstRecs[z])

\* BestReverseZone: the longest reverse zone that contains the PTR name.
Best(a) ==
  {z \in local \cap Covers[a] :
     \A y \in local \cap Covers[a] : Labels[y] <= Labels[z]}

AddedAll(recs, new) ==
  {s \in recs : \A r \in new : ~SameData(r, s)} \cup new

AnyRefused(recs, new, z) ==
  \E r \in new : AddRefused(recs, r, z, FALSE)

AddressesOf(h) ==
  {r \in file[ZoneOf[h]].recs : r.name = h /\ r.type = "A"}

\* Mutant: only the reverse zone that would get the PTR today is looked in.
DroppedFromBest(h, z) ==
  {r \in file[z].recs :
     IF z \in ReverseZones THEN r.type = "PTR" /\ r.value = h /\ z \in Best(r.name)
     ELSE r.name = h /\ r.type = "A" /\ z = ZoneOf[h]}

\* What dropHost removes from each zone: the addresses of h and, in every
\* local reverse zone, the PTRs that point at it.
Dropped(h, z) ==
  {r \in file[z].recs :
     IF z \in ReverseZones THEN r.type = "PTR" /\ r.value = h
     ELSE r.name = h /\ r.type = "A" /\ z = ZoneOf[h]}

Init ==
  /\ local = FirstZones
  /\ clock \in Days
  /\ file = [z \in Zone |->
               IF z \in FirstZones
               THEN [Created(z, clock) EXCEPT !.recs = @ \cup FirstRecs[z]]
               ELSE Absent]
  /\ prev = [z \in Zone |-> Absent]
  /\ up = TRUE
  /\ served = file
  /\ pc = "idle"
  /\ mem = [z \in Zone |-> {}]
  /\ todo = {} /\ done = {}
  /\ report = "none" /\ before = file /\ synced = TRUE /\ acked = {}
  /\ running = <<>> /\ torn = <<>>
  /\ killed = 0 /\ commands = 0 /\ faults = 0

-----------------------------------------------------------------------------
\* Commands: what they change in memory, and which zones they touch

Lost == <<"lost">>   \* another command ran before the killed one was repeated

\* Host command c (<<>> for `record`) begins to commit the zones touched.  One
\* that touches nothing has succeeded: the records are already there.
Begin(c, new, touched) ==
  /\ pc = "idle"
  /\ commands < MaxCommands
  /\ commands' = commands + 1
  /\ mem' = [z \in Zone |-> IF z \in touched THEN new[z] ELSE {}]
  /\ todo' = touched
  /\ done' = {}
  /\ pc' = IF touched = {} THEN "idle" ELSE "save"
  /\ report' = IF touched = {} THEN "ok" ELSE "none"
  /\ before' = file
  /\ synced' = (~up \/ served = file)
  /\ running' = c
  /\ torn' = IF torn \in {<<>>, c} THEN torn ELSE Lost
  /\ UNCHANGED <<local, file, prev, up, served, clock, acked, killed, faults>>

RecordAdd(z, r) ==
  /\ z \in local
  /\ ~AddRefused(file[z].recs, r, z, FALSE)
  /\ Begin(<<>>, [y \in Zone |-> Added(file[z].recs, r)],
           IF r \in file[z].recs THEN {} ELSE {z})

\* With a value, or without one for every record of that name and type.
RecordRemove(z, r) ==
  /\ z \in local
  /\ \E vs \in {{r.value}, Values} :
       /\ ~RemoveRefused(file[z].recs, r.name, r.type, vs, z, FALSE)
       /\ Begin(<<>>, [y \in Zone |-> Removed(file[z].recs, r.name, r.type, vs)], {z})

\* The records `host add` looks at or adds in each zone.
NewOf(h, as, m) ==
  [z \in Zone |->
     IF z = ZoneOf[h] THEN {ARecord(h, a, m) : a \in as}
     ELSE {PTRRecord(a, h, m) : a \in {b \in as : z \in Best(b)}}]

AddAccepted(h, as, m) ==
  /\ ZoneOf[h] \in local
  /\ \A z \in local : ~AnyRefused(file[z].recs, NewOf(h, as, m)[z], z)

\* Every zone looked at is committed, the ones where nothing was added too.
HostAdd(h, as, m) ==
  LET new == NewOf(h, as, m)
  IN /\ AddAccepted(h, as, m)
     /\ Begin(<<"add", h, as, m>>,
              [z \in Zone |-> IF z \in local THEN AddedAll(file[z].recs, new[z]) ELSE {}],
              {z \in local : new[z] # {}})

RemoveAccepted(h) == ZoneOf[h] \in local /\ AddressesOf(h) # {}

HostRemove(h) ==
  /\ RemoveAccepted(h)
  /\ Begin(<<"remove", h>>,
           [z \in Zone |-> IF z \in local THEN file[z].recs \ Dropped(h, z) ELSE {}],
           {z \in local : Dropped(h, z) # {}})

\* The addresses of h, with their TTLs and tags, under its new name g.
Moved(h, g) ==
  [z \in Zone |->
     IF z = ZoneOf[h] THEN {ARecord(g, r.value, r.meta) : r \in AddressesOf(h)}
     ELSE {PTRRecord(r.value, g, r.meta) :
             r \in {s \in AddressesOf(h) : z \in Best(s.value)}}]

RenameAccepted(h, g) ==
  /\ ZoneOf[h] \in local /\ ZoneOf[g] = ZoneOf[h]
  /\ AddressesOf(h) # {}
  /\ \A z \in local :
       ~AnyRefused(file[z].recs \ Dropped(h, z), Moved(h, g)[z], z)

HostRename(h, g) ==
  LET new == Moved(h, g)
  IN /\ RenameAccepted(h, g)
     /\ Begin(<<"rename", h, g>>,
              [z \in Zone |->
                 IF z \in local THEN AddedAll(file[z].recs \ Dropped(h, z), new[z]) ELSE {}],
              {z \in local : Dropped(h, z) \cup new[z] # {}})

Accepted(c) ==
  CASE c[1] = "add" -> AddAccepted(c[2], c[3], c[4])
    [] c[1] = "remove" -> RemoveAccepted(c[2])
    [] c[1] = "rename" -> RenameAccepted(c[2], c[3])

\* zone add and reverse-zone add, as a whole: their steps, failures and kills
\* are those of createZone in Activation.
ZoneAdd(z) ==
  /\ pc = "idle"
  /\ z \notin local /\ file[z] = Absent
  /\ local' = local \cup {z}
  /\ file' = [file EXCEPT ![z] = Created(z, clock)]
  /\ served' = IF up THEN [served EXCEPT ![z] = file'[z]] ELSE served
  /\ report' = "none"
  /\ UNCHANGED <<prev, up, clock, command, before, synced, acked, running, torn,
                 killed, commands, faults>>

-----------------------------------------------------------------------------
\* commit, saveAndActivate and what they call

Fault == faults < MaxFaults /\ faults' = faults + 1
NoFault == UNCHANGED faults

\* z comes first among the zones zs, in alphabetical order.
First(z, zs) == z \in zs /\ \A y \in zs : Rank[z] <= Rank[y]

\* Mutant: the file is replaced without keeping the one before.
SaveWithoutPrev(z) ==
  /\ pc = "save" /\ First(z, todo)
  /\ Servable(mem[z], z)
  /\ file' = [file EXCEPT ![z] =
                [serial |-> NextSerial(file[z].serial, clock), recs |-> mem[z]]]
  /\ pc' = "activate"
  /\ UNCHANGED <<local, prev, up, served, clock, mem, todo, done, history,
                 killed, commands, faults>>

\* Save replaces the file by a rename, after it has kept the one before.
Save(z) ==
  /\ pc = "save" /\ First(z, todo)
  /\ Servable(mem[z], z)
  /\ prev' = [prev EXCEPT ![z] = file[z]]
  /\ file' = [file EXCEPT ![z] =
                [serial |-> NextSerial(file[z].serial, clock), recs |-> mem[z]]]
  /\ pc' = "activate"
  /\ UNCHANGED <<local, up, served, clock, mem, todo, done, history, killed,
                 commands, faults>>

\* A zone that cannot be served; or a disk that is full, before or after
\* .prev has been written.
SaveFails(z) ==
  /\ pc = "save" /\ First(z, todo)
  /\ \/ ~Servable(mem[z], z) /\ NoFault /\ UNCHANGED prev
     \/ Fault /\ prev' \in {prev, [prev EXCEPT ![z] = file[z]]}
  /\ pc' = "takeBack"
  /\ UNCHANGED <<local, file, up, served, clock, mem, todo, done, history,
                 killed, commands>>

\* z is committed; with the last one the command has succeeded.
Commit(z) ==
  /\ done' = done \cup {z}
  /\ todo' = todo \ {z}
  /\ IF todo' # {}
     THEN pc' = "save" /\ UNCHANGED <<report, acked, torn>>
     ELSE /\ pc' = "idle"
          /\ report' = "ok"
          /\ acked' = acked \cup {<<y, file[y]>> : y \in done'}
          /\ torn' = IF running = torn THEN <<>> ELSE torn

\* activateZone: nothing to do while unbound is not running.
ActivateStopped(z) ==
  /\ pc = "activate" /\ First(z, todo) /\ ~up
  /\ Commit(z)
  /\ UNCHANGED <<disk, up, served, clock, mem, before, synced, running, killed,
                 commands, faults>>

\* auth_zone_reload: unbound loads the file, refuses, or accepts the request
\* and goes on serving what it had.
Reload(z) ==
  /\ pc = "activate" /\ First(z, todo) /\ up
  /\ \/ /\ served' = [served EXCEPT ![z] = file[z]]
        /\ pc' = "verify"
        /\ NoFault
     \/ /\ Fault
        /\ pc' \in {"verify", "undo"}
        /\ UNCHANGED served
  /\ UNCHANGED <<disk, up, clock, mem, todo, done, history, killed, commands>>

\* servedSerial: unbound answers with the serial that was written.
Answers(z) ==
  up /\ served[z] # Absent /\ served[z].serial = file[z].serial

Verify(z) ==
  /\ pc = "verify" /\ First(z, todo)
  /\ Answers(z)
  /\ Commit(z)
  /\ UNCHANGED <<disk, up, served, clock, mem, before, synced, running, killed,
                 commands, faults>>

\* Another serial, no zone, or no answer in time.
VerifyFails(z) ==
  /\ pc = "verify" /\ First(z, todo)
  /\ Fault \/ (~Answers(z) /\ NoFault)
  /\ pc' = "undo"
  /\ UNCHANGED <<disk, up, served, clock, mem, todo, done, history, killed,
                 commands>>

\* rollback: .prev back in place, or no file if there was none.
RolledBack(z) ==
  /\ file' = [file EXCEPT ![z] = prev[z]]
  /\ prev' = [prev EXCEPT ![z] = Absent]

\* undoZone: the file of the last save replaced, and loaded again if unbound
\* takes it.
UndoZone(z) ==
  /\ RolledBack(z)
  /\ \/ /\ served' = IF up THEN [served EXCEPT ![z] = file'[z]] ELSE served
        /\ NoFault
     \/ Fault /\ up /\ UNCHANGED served
  /\ UNCHANGED <<local, up, clock, mem, todo, history, killed, commands>>

Undo(z) ==
  /\ pc = "undo" /\ First(z, todo)
  /\ UndoZone(z)
  /\ pc' = "takeBack"
  /\ UNCHANGED done

\* Mutant: only the zone that failed is put back.
KeepCommitted(z) ==
  /\ pc = "takeBack" /\ First(z, done)
  /\ done' = done \ {z}
  /\ UNCHANGED <<disk, up, served, clock, pc, mem, todo, history, killed,
                 commands, faults>>

\* The zones already committed are put back too, so that forward and reverse
\* stay in step.
TakeBack(z) ==
  /\ pc = "takeBack" /\ First(z, done)
  /\ UndoZone(z)
  /\ done' = done \ {z}
  /\ UNCHANGED pc

Fail ==
  /\ pc = "takeBack" /\ done = {}
  /\ pc' = "idle"
  /\ report' = "failed"
  /\ todo' = {}
  /\ UNCHANGED <<disk, up, served, clock, mem, done, before, synced, acked,
                 running, torn, killed, commands, faults>>

-----------------------------------------------------------------------------
\* The rest of the world

Kill ==
  /\ pc # "idle" /\ killed < MaxKills
  /\ killed' = killed + 1
  /\ pc' = "idle"
  /\ todo' = {} /\ done' = {}
  /\ torn' = IF torn = <<>> THEN running ELSE torn
  /\ UNCHANGED <<disk, up, served, clock, mem, report, before, synced, acked,
                 running, commands, faults>>

DaemonStops ==
  /\ up /\ Fault
  /\ up' = FALSE
  /\ served' = [z \in Zone |-> Absent]
  /\ UNCHANGED <<disk, clock, command, history, killed, commands>>

DaemonStarts ==
  /\ ~up
  /\ up' = TRUE
  /\ served' = [z \in Zone |-> IF z \in local THEN file[z] ELSE Absent]
  /\ UNCHANGED <<disk, clock, command, history, killed, commands, faults>>

\* Midnight, or a clock that is set, back as well as forward.
ClockSet ==
  /\ pc = "idle"
  /\ clock' \in Days \ {clock}
  /\ UNCHANGED <<disk, up, served, command, history, killed, commands, faults>>

RecordCommand ==
  \E z \in Zone : \E r \in Extra[z] : RecordAdd(z, r) \/ RecordRemove(z, r)

HostCommand ==
  \/ \E h \in Hosts, as \in (SUBSET Addrs) \ {{}}, m \in Metas : HostAdd(h, as, m)
  \/ \E h \in Hosts : HostRemove(h)
  \/ \E h, g \in Hosts : HostRename(h, g)

Step ==
  \/ \E z \in Zone :
       \/ Save(z) \/ SaveFails(z) \/ ActivateStopped(z) \/ Reload(z)
       \/ Verify(z) \/ VerifyFails(z) \/ Undo(z) \/ TakeBack(z)
  \/ Fail

World == Kill \/ DaemonStops \/ DaemonStarts \/ ClockSet

Next == RecordCommand \/ HostCommand \/ (\E z \in Zone : ZoneAdd(z)) \/ Step \/ World

Spec == Init /\ [][Next]_vars

-----------------------------------------------------------------------------
\* What the commands promise

(***************************************************************************)
(* No zone file ever holds a CNAME beside other data at its name, nor a    *)
(* .prev that may become one, whatever sequence of record and host         *)
(* commands, failures and kills wrote it: unbound would answer one or the  *)
(* other.                                                                  *)
(***************************************************************************)
AliasesAlone ==
  \A z \in Zone : CnamesAlone(file[z].recs) /\ CnamesAlone(prev[z].recs)

(***************************************************************************)
(* "undo the zones already activated so forward and reverse stay in step": *)
(* a command that failed, at whichever of its zones, has put every zone    *)
(* file back as it found it.                                               *)
(***************************************************************************)
FailedChangesNothing == pc = "idle" /\ report = "failed" => file = before

(***************************************************************************)
(* The serial check proves that unbound serves what was written: after a   *)
(* command that succeeded, and after one that failed because of one fault, *)
(* a running unbound serves exactly the files, if it did before.           *)
(***************************************************************************)
StaysServed ==
  pc = "idle" /\ up /\ synced /\ (report = "ok" \/ (report = "failed" /\ faults <= 1))
    => \A z \in local : served[z] = file[z]

\* Every PTR leads to an address record that leads back, and every address
\* of a host that FirstZones cover has its PTR in one of the reverse zones.
InStep ==
  /\ \A z \in local \cap ReverseZones : \A r \in file[z].recs :
       r.type = "PTR" =>
         \E s \in AddressesOf(r.value) : s.value = r.name
  /\ \A h \in Hosts : \A s \in AddressesOf(h) :
       Covers[s.value] \cap FirstZones # {} =>
         \E z \in local \cap ReverseZones : \E r \in file[z].recs :
           r.type = "PTR" /\ r.name = s.value /\ r.value = h

\* recs hold the address a of h, or its PTR.
HasA(recs, h, a) == \E r \in recs : r.type = "A" /\ r.name = h /\ r.value = a
HasPTR(recs, a, h) == \E r \in recs : r.type = "PTR" /\ r.name = a /\ r.value = h

\* What makes a killed host command repeatable: commit comes to the reverse
\* zones first, for their names sort before those of the forward zones.
ReverseFirst ==
  \A y \in ReverseZones, z \in Zone \ ReverseZones : Rank[y] < Rank[z]

\* `record` leaves addresses and PTRs to the host commands, and they agree to
\* begin with.
HostsManaged ==
  /\ \A z \in Zone : \A r \in Extra[z] : r.type \notin {"A", "PTR"}
  /\ \A z \in FirstZones \cap ReverseZones, a \in Owners, h \in Values :
       HasPTR(FirstRecs[z], a, h) =>
         h \in Hosts /\ ZoneOf[h] \in FirstZones /\ HasA(FirstRecs[ZoneOf[h]], h, a)
  /\ \A h \in Hosts, a \in Addrs :
       ZoneOf[h] \in FirstZones /\ HasA(FirstRecs[ZoneOf[h]], h, a) /\ Covers[a] \cap FirstZones # {} =>
         \E z \in FirstZones \cap ReverseZones : HasPTR(FirstRecs[z], a, h)

(***************************************************************************)
(* Address records and PTRs are managed together: between commands they    *)
(* agree.  After a kill they may not, but then the killed command, when it *)
(* is repeated, is accepted and brings them back in step.                  *)
(***************************************************************************)
ForwardReverseAgree ==
  pc = "idle" /\ torn # Lost /\ (torn = <<>> \/ ~Accepted(torn)) => InStep

(***************************************************************************)
(* The serials of a zone never go back behind what a command has reported, *)
(* and never come again with other records, whatever the clock does.       *)
(***************************************************************************)
SerialsMoveOn ==
  \A a \in acked :
    /\ file[a[1]].serial >= a[2].serial
    /\ file[a[1]].serial = a[2].serial => file[a[1]] = a[2]
=============================================================================
