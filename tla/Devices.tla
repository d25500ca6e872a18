------------------------------- MODULE Devices -------------------------------
(***************************************************************************)
(* internal/store/devices.go and the commands of device.go: which device   *)
(* held an address when.  The commands take no lock ("the database is its  *)
(* own lock"), and none of them is a transaction: every SQL statement is a *)
(* step, and commands of several processes take turns at them.             *)
(*                                                                         *)
(* MAC, description, tags, source and the case of names are left out, and  *)
(* so are inputs that are refused before anything is read.                 *)
(***************************************************************************)
EXTENDS Naturals, Sequences, FiniteSets, SequencesExt, FiniteSetsExt

CONSTANTS
  Procs,     \* processes that run commands
  Names, IPs,
  MaxAdded,  \* bound on the addresses of one `device add`
  MaxClock,  \* bound on time
  MaxIds,    \* bound on device ids
  MaxRows    \* bound on the ids of address periods

ASSUME DevicesAssumption ==
  /\ MaxClock \in Nat \ {0} /\ MaxAdded \in Nat /\ MaxIds \in Nat /\ MaxRows \in Nat

VARIABLES
  clock,      \* unix time
  devices,    \* devices: id -> name
  addresses,  \* device_addresses: id -> [device, ip, from, to]
  cmd,        \* what each process is doing
  raced       \* history: addresses two processes were given at a time

vars == <<clock, devices, addresses, cmd, raced>>

Current == 0     \* valid_to NULL
NoName == "none"
Ids == 1..MaxIds
Row == [device: Ids, ip: IPs, from: 0..MaxClock, to: 0..MaxClock]

\* ips: the addresses still to add; own: the device is being created, too
Command == [at: {"none", "create", "find", "holder", "since", "insert", "undo",
                 "remove", "release", "forget", "clash", "rename"},
            name: Names \cup {NoName}, id: 0..MaxIds, ips: Seq(IPs), from: 0..MaxClock, own: BOOLEAN]
Idle(n) == [at |-> "none", name |-> n, id |-> 0, ips |-> << >>, from |-> 0, own |-> FALSE]
NoCommand == Idle(NoName)

TypeOK ==
  /\ clock \in 1..MaxClock
  /\ DOMAIN devices \subseteq Ids /\ \A i \in DOMAIN devices : devices[i] \in Names
  /\ \A i, j \in DOMAIN devices : devices[i] = devices[j] => i = j
  /\ DOMAIN addresses \subseteq 1..MaxRows
  /\ \A i \in DOMAIN addresses : addresses[i] \in Row /\ addresses[i].device \in DOMAIN devices
  /\ cmd \in [Procs -> Command]
  /\ raced \subseteq IPs

Init ==
  /\ clock = 1
  /\ devices = << >>
  /\ addresses = << >>
  /\ cmd = [p \in Procs |-> NoCommand]
  /\ raced = {}

\* INTEGER PRIMARY KEY: a new row has the highest id and one more.
NewId(table) == Max({0} \cup DOMAIN table) + 1
Inserted(table, row) ==
  [i \in DOMAIN table \cup {NewId(table)} |-> IF i = NewId(table) THEN row ELSE table[i]]
Only(table, Test(_)) == [i \in {j \in DOMAIN table : Test(table[j])} |-> table[i]]

\* deviceID: 0 if there is no such device.
DeviceID(n) == IF \E i \in DOMAIN devices : devices[i] = n
                 THEN CHOOSE i \in DOMAIN devices : devices[i] = n ELSE 0

Goto(p, place) == cmd' = [cmd EXCEPT ![p].at = place]
End(p) == cmd' = [cmd EXCEPT ![p] = NoCommand]
\* An error: `device add` takes its device back.
Fail(p) == IF cmd[p].own THEN Goto(p, "undo") ELSE End(p)

\* A command begins: p looks up the device named n, and goes on if there is one.
Begin(p, n, place, ips) ==
  /\ cmd[p] = NoCommand
  /\ DeviceID(n) # 0
  /\ cmd' = [cmd EXCEPT ![p] = [Idle(n) EXCEPT !.at = place, !.id = DeviceID(n), !.ips = ips]]
  /\ UNCHANGED <<clock, devices, addresses, raced>>

---------------------------------------------------------------------------
(* device add                                                              *)

DeviceAdd(p) == \E n \in Names, ips \in SeqOf(IPs, MaxAdded) :
  /\ cmd[p] = NoCommand
  /\ DeviceID(n) = 0
  /\ cmd' = [cmd EXCEPT ![p] = [Idle(n) EXCEPT !.at = "create", !.ips = ips]]
  /\ UNCHANGED <<clock, devices, addresses, raced>>

\* INSERT INTO devices; the name is UNIQUE.
Create(p) ==
  /\ cmd[p].at = "create"
  /\ IF DeviceID(cmd[p].name) # 0
       THEN End(p) /\ UNCHANGED devices
       ELSE /\ NewId(devices) <= MaxIds
            /\ devices' = Inserted(devices, cmd[p].name)
            /\ IF cmd[p].ips = << >>
                 THEN End(p)
                 ELSE cmd' = [cmd EXCEPT ![p].at = "find", ![p].own = TRUE]
  /\ UNCHANGED <<clock, addresses, raced>>

---------------------------------------------------------------------------
(* AddAddress, of `device address add` or for each address of `device add` *)

AddressAdd(p) == \E n \in Names, ip \in IPs : Begin(p, n, "holder", <<ip>>)

Find(p) ==
  /\ cmd[p].at = "find"
  /\ IF DeviceID(cmd[p].name) = 0
       THEN Fail(p)
       ELSE cmd' = [cmd EXCEPT ![p].at = "holder", ![p].id = DeviceID(cmd[p].name)]
  /\ UNCHANGED <<clock, devices, addresses, raced>>

\* The rows of an address.
RowsOf(ip) == {i \in DOMAIN addresses : addresses[i].ip = ip}
Holders(ip) == {i \in RowsOf(ip) : addresses[i].to = Current}

AskHolder(p) ==
  /\ cmd[p].at = "holder"
  /\ IF Holders(Head(cmd[p].ips)) = {} THEN Goto(p, "since") ELSE Fail(p)
  /\ UNCHANGED <<clock, devices, addresses, raced>>

\* Mutant: a new holder gets all of the history.
SinceEver(ip) == 0

LastEnd(ip) == Max({0} \cup {addresses[i].to : i \in RowsOf(ip)})

AskSince(p) ==
  /\ cmd[p].at = "since"
  /\ cmd' = [cmd EXCEPT ![p].at = "insert", ![p].from = LastEnd(Head(cmd[p].ips))]
  /\ UNCHANGED <<clock, devices, addresses, raced>>

\* p gives ip away while another process has found it free.
Contended(p, ip) == \E q \in Procs \ {p} :
  cmd[q].at \in {"since", "insert"} /\ Head(cmd[q].ips) = ip

\* The device may be gone by now: a foreign key without a device is refused.
Insert(p) ==
  LET c == cmd[p]  ip == Head(c.ips)
      row == [device |-> c.id, ip |-> ip, from |-> c.from, to |-> Current]
  IN /\ c.at = "insert"
     /\ IF c.id \notin DOMAIN devices
          THEN Fail(p) /\ UNCHANGED <<addresses, raced>>
          ELSE /\ NewId(addresses) <= MaxRows
               /\ addresses' = Inserted(addresses, row)
               /\ raced' = IF Contended(p, ip) THEN raced \cup {ip} ELSE raced
               /\ IF Len(c.ips) = 1
                    THEN End(p)
                    ELSE cmd' = [cmd EXCEPT ![p].at = "find", ![p].ips = Tail(@)]
     /\ UNCHANGED <<clock, devices>>

---------------------------------------------------------------------------
(* The other commands                                                      *)

AddressRemove(p) == \E n \in Names, ip \in IPs, how \in {"release", "forget"} :
  Begin(p, n, how, <<ip>>)

\* The rows of p's device and address.
Assigned(p, x) == x.device = cmd[p].id /\ x.ip = Head(cmd[p].ips)

\* Mutant: WHERE without valid_to IS NULL.
EndsAny(p, x) == Assigned(p, x)

Ends(p, x) == Assigned(p, x) /\ x.to = Current

Release(p) ==
  /\ cmd[p].at = "release"
  /\ addresses' = [i \in DOMAIN addresses |->
                     IF Ends(p, addresses[i]) THEN [addresses[i] EXCEPT !.to = clock]
                     ELSE addresses[i]]
  /\ End(p)
  /\ UNCHANGED <<clock, devices, raced>>

Forget(p) ==
  /\ cmd[p].at = "forget"
  /\ addresses' = Only(addresses, LAMBDA x : ~Assigned(p, x))
  /\ End(p)
  /\ UNCHANGED <<clock, devices, raced>>

Rename(p) == \E n, new \in Names :
  /\ cmd[p] = NoCommand
  /\ DeviceID(n) # 0
  /\ cmd' = [cmd EXCEPT ![p] = [Idle(new) EXCEPT !.at = "clash", !.id = DeviceID(n)]]
  /\ UNCHANGED <<clock, devices, addresses, raced>>

AskClash(p) ==
  /\ cmd[p].at = "clash"
  /\ IF DeviceID(cmd[p].name) \in {0, cmd[p].id} THEN Goto(p, "rename") ELSE End(p)
  /\ UNCHANGED <<clock, devices, addresses, raced>>

\* The name is UNIQUE here, too, and the device may be gone.
Rewrite(p) ==
  /\ cmd[p].at = "rename"
  /\ devices' = IF DeviceID(cmd[p].name) = 0 /\ cmd[p].id \in DOMAIN devices
                   THEN [devices EXCEPT ![cmd[p].id] = cmd[p].name] ELSE devices
  /\ End(p)
  /\ UNCHANGED <<clock, addresses, raced>>

DeviceRemove(p) == \E n \in Names : Begin(p, n, "remove", << >>)

\* RemoveDevice by the name that `device add` was given.
Undo(p) ==
  /\ cmd[p].at = "undo"
  /\ IF DeviceID(cmd[p].name) = 0
       THEN End(p)
       ELSE cmd' = [cmd EXCEPT ![p].at = "remove", ![p].id = DeviceID(cmd[p].name)]
  /\ UNCHANGED <<clock, devices, addresses, raced>>

\* Mutant: foreign keys are off, nothing cascades.
KeepsRows(p) == addresses

Cascade(p) == Only(addresses, LAMBDA x : x.device # cmd[p].id)

Delete(p) ==
  /\ cmd[p].at = "remove"
  /\ devices' = [i \in DOMAIN devices \ {cmd[p].id} |-> devices[i]]
  /\ addresses' = Cascade(p)
  /\ End(p)
  /\ UNCHANGED <<clock, raced>>

\* A process is killed between two statements.
Kill(p) ==
  /\ cmd[p] # NoCommand
  /\ End(p)
  /\ UNCHANGED <<clock, devices, addresses, raced>>

Tick ==
  /\ clock < MaxClock
  /\ clock' = clock + 1
  /\ UNCHANGED <<devices, addresses, cmd, raced>>

Step(p) ==
  \/ DeviceAdd(p) \/ Create(p)
  \/ AddressAdd(p) \/ Find(p) \/ AskHolder(p) \/ AskSince(p) \/ Insert(p)
  \/ AddressRemove(p) \/ Release(p) \/ Forget(p)
  \/ Rename(p) \/ AskClash(p) \/ Rewrite(p)
  \/ DeviceRemove(p) \/ Undo(p) \/ Delete(p)
  \/ Kill(p)

Next == Tick \/ \E p \in Procs : Step(p)

Spec == Init /\ [][Next]_vars

---------------------------------------------------------------------------
(* DeviceAt, and the same JOIN in TopDevices and Events                    *)

Matches(x, ip, t) == x.ip = ip /\ x.from <= t /\ (x.to = Current \/ t < x.to)
At(ip, t) == {i \in DOMAIN addresses : Matches(addresses[i], ip, t)}
HolderOf(ip, t) == {addresses[i].device : i \in At(ip, t)}
Past == 0..(clock - 1)

---------------------------------------------------------------------------
(* Properties                                                              *)

\* "An address can be current for one device only" (AddAddress), and was at
\* any time: a JOIN finds at most one row, so a report counts each query once.
\* Two commands that give the same address away at a time break it.
OneHolder == \A ip \in IPs \ raced, t \in 0..clock : Cardinality(At(ip, t)) <= 1

\* "Queries the device made from that address stay attributed to it"
\* (RemoveAddress): the past that has a device keeps it, whatever is added,
\* ended or renamed, until the device or the assignment is erased.
HistoryStays ==
  [][\/ \A ip \in IPs, t \in Past :
          HolderOf(ip, t) # {} /\ ip \notin raced' => HolderOf(ip, t)' = HolderOf(ip, t)
     \/ \E p \in Procs : Forget(p) \/ Delete(p)]_vars
=============================================================================
