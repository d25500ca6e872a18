---------------------------- MODULE DevicesProofs ----------------------------
(***************************************************************************)
(* Proofs about Devices, for any number of processes, names, addresses and *)
(* commands: an address has one holder at a time unless two commands raced *)
(* for it, and a report about the past stays what it was.                  *)
(***************************************************************************)
EXTENDS Devices, FiniteSetTheorems, SequenceTheorems, WellFoundedInduction, TLAPS

-----------------------------------------------------------------------------
(* Types.  The command of a process has an address, or a name, wherever    *)
(* the next statement takes it (Shaped).                                   *)

Shaped(c) ==
  /\ c.at \in {"find", "holder", "since", "insert", "release", "forget"}
       => c.ips # << >>
  /\ c.at \in {"create", "clash", "rename"} => c.name \in Names

Typed == TypeOK /\ \A p \in Procs : Shaped(cmd[p])

\* A set of bounded numbers has its largest.
LEMMA MaxOf ==
  ASSUME NEW n \in Nat, NEW S \in SUBSET (0..n), S # {}
  PROVE  Max(S) \in S /\ \A y \in S : y <= Max(S)
<1> DEFINE gaps == {n - x : x \in S}
<1>1. gaps \in SUBSET Nat /\ gaps # {}
  <2>1. \A x \in S : n - x \in Nat
    OBVIOUS
  <2>2. PICK x \in S : TRUE
    OBVIOUS
  <2>3. n - x \in gaps
    OBVIOUS
  <2> QED BY <2>1, <2>3
<1>2. PICK m \in gaps : \A k \in gaps : <<k, m>> \notin OpToRel(<, Nat)
  <2> HIDE DEF gaps
  <2> QED BY <1>1, NatLessThanWellFounded, WFMin
<1>3. \A k \in gaps : ~(k < m)
  BY <1>1, <1>2 DEF OpToRel
<1>4. PICK x \in S : m = n - x
  BY <1>2
<1>5. \A y \in S : x >= y
  BY <1>3, <1>4
<1>6. Max(S) \in S /\ \A y \in S : Max(S) >= y
  BY <1>5 DEF Max
<1> QED BY <1>6

\* A name that has an id is that device's.
LEMMA DeviceIDFacts ==
  ASSUME TypeOK, NEW n
  PROVE  /\ DeviceID(n) \in 0..MaxIds
         /\ DeviceID(n) # 0 => DeviceID(n) \in DOMAIN devices /\ devices[DeviceID(n)] = n
         /\ DeviceID(n) = 0 => \A i \in DOMAIN devices : devices[i] # n
<1>1. DOMAIN devices \subseteq 1..MaxIds /\ MaxIds \in Nat
  BY DevicesAssumption DEF TypeOK, Ids
<1> QED
  BY <1>1 DEF DeviceID

\* The id of a new row is one that no row has.
LEMMA NewIdFacts ==
  ASSUME NEW n \in Nat, NEW table, DOMAIN table \subseteq 1..n
  PROVE  NewId(table) \in Nat \ {0} /\ NewId(table) \notin DOMAIN table
<1> DEFINE S == {0} \cup DOMAIN table
<1>1. S \in SUBSET (0..n) /\ S # {}
  OBVIOUS
<1>2. Max(S) \in 0..n /\ \A y \in S : y <= Max(S)
  <2> HIDE DEF S
  <2> QED BY <1>1, MaxOf
<1>3. NewId(table) = Max(S) + 1
  BY DEF NewId
<1> HIDE DEF S
<1>4. NewId(table) \in Nat \ {0}
  BY <1>2, <1>3
<1>5. NewId(table) \notin S
  BY <1>1, <1>2, <1>3
<1> QED
  BY <1>4, <1>5 DEF S

LEMMA LastEndFacts ==
  ASSUME TypeOK, NEW ip
  PROVE  /\ LastEnd(ip) \in 0..MaxClock
         /\ \A i \in RowsOf(ip) : addresses[i].to <= LastEnd(ip)
<1> DEFINE S == {0} \cup {addresses[i].to : i \in RowsOf(ip)}
<1>1. S \in SUBSET (0..MaxClock) /\ S # {} /\ MaxClock \in Nat
  BY DevicesAssumption DEF TypeOK, Row, RowsOf
<1>2. Max(S) \in S /\ \A y \in S : y <= Max(S)
  <2> HIDE DEF S
  <2> QED BY <1>1, MaxOf
<1>3. LastEnd(ip) = Max(S)
  BY DEF LastEnd
<1> QED
  BY <1>1, <1>2, <1>3

-----------------------------------------------------------------------------
(* The rows after a statement.                                             *)

\* A DELETE leaves some rows as they are.
Fewer ==
  /\ DOMAIN addresses' \subseteq DOMAIN addresses
  /\ \A i \in DOMAIN addresses' : addresses'[i] = addresses[i]

\* The row a release makes of one.
Ended(p, x) == IF Ends(p, x) THEN [x EXCEPT !.to = clock] ELSE x

LEMMA EndedRows ==
  ASSUME NEW p, Release(p)
  PROVE  addresses' = [i \in DOMAIN addresses |-> Ended(p, addresses[i])]
BY DEF Release, Ended

\* A released row keeps its device, address and beginning.
LEMMA EndedFacts ==
  ASSUME TypeOK, NEW p \in Procs, NEW x \in Row
  PROVE  /\ Ended(p, x) \in Row
         /\ Ended(p, x).device = x.device /\ Ended(p, x).ip = x.ip
         /\ Ended(p, x).from = x.from
         /\ Ended(p, x).to = IF Ends(p, x) THEN clock ELSE x.to
<1>1. clock \in 0..MaxClock
  BY DevicesAssumption DEF TypeOK
<1> QED
  BY <1>1 DEF Ended, Row

\* The row that Insert adds.
NewRow(p) == [device |-> cmd[p].id, ip |-> Head(cmd[p].ips), from |-> cmd[p].from,
              to |-> Current]

LEMMA InsertedRow ==
  ASSUME TypeOK, NEW p \in Procs, Insert(p), cmd[p].id \in DOMAIN devices
  PROVE  \E new \in 1..MaxRows :
           /\ new \notin DOMAIN addresses
           /\ DOMAIN addresses' = DOMAIN addresses \cup {new}
           /\ addresses'[new] = NewRow(p)
           /\ \A i \in DOMAIN addresses : addresses'[i] = addresses[i]
<1> DEFINE new == NewId(addresses)
<1>1. new \in 1..MaxRows /\ new \notin DOMAIN addresses
  BY NewIdFacts, DevicesAssumption DEF TypeOK, Insert
<1>2. addresses' = [i \in DOMAIN addresses \cup {new} |->
                      IF i = new THEN NewRow(p) ELSE addresses[i]]
  BY DEF Insert, NewRow, Inserted
<1> HIDE DEF new
<1> QED
  BY <1>1, <1>2

-----------------------------------------------------------------------------
(* Type correctness.                                                       *)

\* What a command starts as.
LEMMA IdleCommand ==
  ASSUME NEW n \in Names \cup {NoName}
  PROVE  /\ Idle(n) \in Command /\ Shaped(Idle(n))
         /\ Idle(n).name = n /\ Idle(n).ips = << >>
  BY DevicesAssumption DEF Idle, Command, Shaped

LEMMA StartedCommand ==
  ASSUME NEW n \in Names \cup {NoName},
         NEW place \in {"create", "holder", "release", "forget", "remove", "clash"},
         NEW id \in 0..MaxIds, NEW ips \in Seq(IPs)
  PROVE  /\ [Idle(n) EXCEPT !.at = place, !.id = id, !.ips = ips] \in Command
         /\ [Idle(n) EXCEPT !.at = place, !.id = id] \in Command
         /\ [Idle(n) EXCEPT !.at = place, !.ips = ips] \in Command
<1> DEFINE S == Seq(IPs)
<1>1. Command = [at: {"none", "create", "find", "holder", "since", "insert", "undo",
                      "remove", "release", "forget", "clash", "rename"},
                 name: Names \cup {NoName}, id: 0..MaxIds, ips: S, from: 0..MaxClock,
                 own: BOOLEAN]
  BY DEF Command
<1>2. Idle(n) \in Command
  BY IdleCommand
<1>3. ips \in S
  OBVIOUS
<1> HIDE DEF S
<1> QED
  BY <1>1, <1>2, <1>3

\* Whatever the step of p, the others' commands stay, and p's is in shape.
LEMMA CommandStep ==
  ASSUME Typed, NEW p \in Procs, Step(p)
  PROVE  \E c \in Command : Shaped(c) /\ cmd' = [cmd EXCEPT ![p] = c]
<1>t. /\ cmd \in [Procs -> Command] /\ cmd[p] \in Command /\ Shaped(cmd[p])
      /\ DOMAIN cmd = Procs
  BY DEF Typed, TypeOK
<1>n. NoCommand \in Command /\ Shaped(NoCommand)
  BY IdleCommand DEF NoCommand
<1>e. ASSUME End(p) PROVE \E c \in Command : Shaped(c) /\ cmd' = [cmd EXCEPT ![p] = c]
  BY <1>n, <1>e DEF End
<1>g. ASSUME NEW place \in {"since", "undo", "rename"}, Goto(p, place),
             place = "since" => cmd[p].ips # << >>,
             place = "rename" => cmd[p].name \in Names
      PROVE  \E c \in Command : Shaped(c) /\ cmd' = [cmd EXCEPT ![p] = c]
  <2> DEFINE c == [cmd[p] EXCEPT !.at = place]
  <2>1. c \in Command
    BY <1>t DEF Command
  <2>2. Shaped(c)
    BY <1>t, <1>g DEF Shaped, Command
  <2>3. cmd' = [cmd EXCEPT ![p] = c]
    BY <1>t, <1>g DEF Goto
  <2> QED
    BY <2>1, <2>2, <2>3
<1>f. ASSUME Fail(p) PROVE \E c \in Command : Shaped(c) /\ cmd' = [cmd EXCEPT ![p] = c]
  BY <1>e, <1>f, <1>g DEF Fail
<1>b. ASSUME NEW n \in Names, NEW place \in {"holder", "release", "forget", "remove"},
             NEW ips \in Seq(IPs), Begin(p, n, place, ips),
             place # "remove" => ips # << >>
      PROVE  \E c \in Command : Shaped(c) /\ cmd' = [cmd EXCEPT ![p] = c]
  <2>1. DeviceID(n) \in 0..MaxIds
    BY DeviceIDFacts DEF Typed
  <2> DEFINE c == [Idle(n) EXCEPT !.at = place, !.id = DeviceID(n), !.ips = ips]
  <2>2. c \in Command
    BY <2>1, StartedCommand
  <2>3. cmd' = [cmd EXCEPT ![p] = c]
    BY <1>b DEF Begin
  <2>4. Shaped(c)
    BY <1>b, IdleCommand DEF Command, Shaped
  <2> QED
    BY <2>2, <2>3, <2>4
<1>o. << >> \in Seq(IPs) /\ \A ip \in IPs : <<ip>> \in Seq(IPs) /\ <<ip>> # << >>
  OBVIOUS
<1>z. 0 \in 0..MaxIds
  BY DevicesAssumption
<1>1. CASE DeviceAdd(p)
  <2>1. PICK n \in Names, ips \in SeqOf(IPs, MaxAdded) :
          cmd' = [cmd EXCEPT ![p] = [Idle(n) EXCEPT !.at = "create", !.ips = ips]]
    BY <1>1 DEF DeviceAdd
  <2>2. ips \in Seq(IPs)
    BY DevicesAssumption DEF SeqOf
  <2> DEFINE c == [Idle(n) EXCEPT !.at = "create", !.ips = ips]
  <2>3. c \in Command
    BY <2>2, <1>z, StartedCommand
  <2>4. Shaped(c)
    BY IdleCommand DEF Command, Shaped
  <2> QED
    BY <2>1, <2>3, <2>4
<1>2. CASE Create(p)
  <2>1. CASE End(p)
    BY <1>e, <2>1
  <2>2. CASE cmd[p].ips # << >> /\ cmd' = [cmd EXCEPT ![p].at = "find", ![p].own = TRUE]
    <3> DEFINE c == [cmd[p] EXCEPT !.at = "find", !.own = TRUE]
    <3>1. c \in Command /\ Shaped(c)
      BY <1>t, <2>2 DEF Command, Shaped
    <3>2. cmd' = [cmd EXCEPT ![p] = c]
      BY <1>t, <2>2
    <3> QED
      BY <3>1, <3>2
  <2> QED
    BY <1>2, <2>1, <2>2 DEF Create
<1>3. CASE AddressAdd(p)
  BY <1>3, <1>b, <1>o DEF AddressAdd
<1>4. CASE Find(p)
  <2>1. CASE cmd[p].at = "find" /\ cmd' = [cmd EXCEPT ![p].at = "holder", ![p].id = DeviceID(cmd[p].name)]
    <3> DEFINE c == [cmd[p] EXCEPT !.at = "holder", !.id = DeviceID(cmd[p].name)]
    <3>1. DeviceID(cmd[p].name) \in 0..MaxIds
      BY DeviceIDFacts DEF Typed
    <3>2. c \in Command /\ Shaped(c)
      BY <1>t, <2>1, <3>1 DEF Command, Shaped
    <3>3. cmd' = [cmd EXCEPT ![p] = c]
      BY <1>t, <2>1
    <3> QED
      BY <3>2, <3>3
  <2> QED
    BY <1>4, <1>f, <2>1 DEF Find
<1>5. CASE AskHolder(p)
  BY <1>5, <1>f, <1>g, <1>t DEF AskHolder, Shaped
<1>6. CASE AskSince(p)
  <2> DEFINE c == [cmd[p] EXCEPT !.at = "insert", !.from = LastEnd(Head(cmd[p].ips))]
  <2>1. LastEnd(Head(cmd[p].ips)) \in 0..MaxClock
    BY LastEndFacts DEF Typed
  <2>2. c \in Command /\ Shaped(c)
    BY <1>6, <1>t, <2>1 DEF AskSince, Command, Shaped
  <2>3. cmd' = [cmd EXCEPT ![p] = c]
    BY <1>6, <1>t DEF AskSince
  <2> QED
    BY <2>2, <2>3
<1>7. CASE Insert(p)
  <2>1. CASE /\ cmd[p].at = "insert" /\ Len(cmd[p].ips) # 1
             /\ cmd' = [cmd EXCEPT ![p].at = "find", ![p].ips = Tail(@)]
    <3> DEFINE c == [cmd[p] EXCEPT !.at = "find", !.ips = Tail(@)]
    <3>1. cmd[p].ips \in Seq(IPs) /\ cmd[p].ips # << >>
      BY <1>t, <2>1 DEF Command, Shaped
    <3>2. Tail(cmd[p].ips) \in Seq(IPs) /\ Tail(cmd[p].ips) # << >>
      <4>1. /\ Tail(cmd[p].ips) \in Seq(IPs)
            /\ Len(Tail(cmd[p].ips)) = Len(cmd[p].ips) - 1
            /\ Len(cmd[p].ips) \in Nat
        BY <3>1, HeadTailProperties
      <4>2. Len(cmd[p].ips) # 0
        BY <3>1
      <4>3. Len(Tail(cmd[p].ips)) # 0
        BY <2>1, <4>1, <4>2
      <4>4. Tail(cmd[p].ips) # << >>
        BY <4>3, EmptySeq
      <4> QED
        BY <4>1, <4>4
    <3>3. c \in Command /\ Shaped(c)
      BY <1>t, <3>2 DEF Command, Shaped
    <3>4. cmd' = [cmd EXCEPT ![p] = c]
      BY <1>t, <2>1
    <3> QED
      BY <3>3, <3>4
  <2> QED
    BY <1>7, <1>e, <1>f, <2>1 DEF Insert
<1>8. CASE AddressRemove(p)
  BY <1>8, <1>b, <1>o DEF AddressRemove
<1>9. CASE Release(p) \/ Forget(p) \/ Rewrite(p) \/ Delete(p) \/ Kill(p)
  BY <1>9, <1>e DEF Release, Forget, Rewrite, Delete, Kill
<1>10. CASE Rename(p)
  <2>1. PICK n, new \in Names :
          cmd' = [cmd EXCEPT ![p] = [Idle(new) EXCEPT !.at = "clash", !.id = DeviceID(n)]]
    BY <1>10 DEF Rename
  <2>2. DeviceID(n) \in 0..MaxIds
    BY DeviceIDFacts DEF Typed
  <2> DEFINE c == [Idle(new) EXCEPT !.at = "clash", !.id = DeviceID(n)]
  <2>3. c \in Command
    BY <2>2, <1>o, StartedCommand
  <2>4. Shaped(c)
    BY IdleCommand DEF Command, Shaped
  <2> QED
    BY <2>1, <2>3, <2>4
<1>11. CASE AskClash(p)
  BY <1>11, <1>e, <1>g, <1>t DEF AskClash, Shaped
<1>12. CASE DeviceRemove(p)
  BY <1>12, <1>b, <1>o DEF DeviceRemove
<1>13. CASE Undo(p)
  <2>1. CASE cmd' = [cmd EXCEPT ![p].at = "remove", ![p].id = DeviceID(cmd[p].name)]
    <3> DEFINE c == [cmd[p] EXCEPT !.at = "remove", !.id = DeviceID(cmd[p].name)]
    <3>1. DeviceID(cmd[p].name) \in 0..MaxIds
      BY DeviceIDFacts DEF Typed
    <3>2. c \in Command /\ Shaped(c)
      BY <1>t, <3>1 DEF Command, Shaped
    <3>3. cmd' = [cmd EXCEPT ![p] = c]
      BY <1>t, <2>1
    <3> QED
      BY <3>2, <3>3
  <2> QED
    BY <1>13, <1>e, <2>1 DEF Undo
<1> QED
  BY <1>1, <1>2, <1>3, <1>4, <1>5, <1>6, <1>7, <1>8, <1>9, <1>10, <1>11, <1>12,
     <1>13 DEF Step

\* The rows stay rows of devices that are there.
RowsTyped ==
  /\ DOMAIN addresses \subseteq 1..MaxRows
  /\ \A i \in DOMAIN addresses : addresses[i] \in Row /\ addresses[i].device \in DOMAIN devices

DevicesTyped ==
  /\ DOMAIN devices \subseteq Ids /\ \A i \in DOMAIN devices : devices[i] \in Names
  /\ \A i, j \in DOMAIN devices : devices[i] = devices[j] => i = j

LEMMA DevicesStep ==
  ASSUME Typed, NEW p \in Procs, Step(p) PROVE DevicesTyped'
<1>t. TypeOK /\ DevicesTyped /\ Shaped(cmd[p])
  BY DEF Typed, TypeOK, DevicesTyped
<1>1. CASE UNCHANGED devices
  BY <1>t, <1>1 DEF DevicesTyped
<1>2. CASE Create(p) /\ DeviceID(cmd[p].name) = 0
  <2> DEFINE new == NewId(devices)
  <2>1. /\ new <= MaxIds
        /\ devices' = [i \in DOMAIN devices \cup {new} |->
                          IF i = new THEN cmd[p].name ELSE devices[i]]
    BY <1>2 DEF Create, Inserted
  <2>2. cmd[p].name \in Names
    BY <1>2, <1>t DEF Create, Shaped
  <2>3. new \in Ids /\ new \notin DOMAIN devices
    BY <1>t, <2>1, NewIdFacts, DevicesAssumption DEF Ids, DevicesTyped
  <2>4. \A i \in DOMAIN devices : devices[i] # cmd[p].name
    BY <1>2, <1>t, DeviceIDFacts
  <2> HIDE DEF new
  <2> QED
    BY <1>t, <2>1, <2>2, <2>3, <2>4 DEF DevicesTyped
<1>3. CASE Rewrite(p)
  <2>1. cmd[p].name \in Names
    BY <1>3, <1>t DEF Rewrite, Shaped
  <2>2. CASE DeviceID(cmd[p].name) = 0 /\ cmd[p].id \in DOMAIN devices
    <3>1. devices' = [devices EXCEPT ![cmd[p].id] = cmd[p].name]
      BY <1>3, <2>2 DEF Rewrite
    <3>2. \A i \in DOMAIN devices : devices[i] # cmd[p].name
      BY <2>2, <1>t, DeviceIDFacts
    <3> QED
      BY <1>t, <2>1, <3>1, <3>2 DEF DevicesTyped
  <2> QED
    BY <1>3, <1>1, <2>2 DEF Rewrite
<1>4. CASE Delete(p)
  <2>1. devices' = [i \in DOMAIN devices \ {cmd[p].id} |-> devices[i]]
    BY <1>4 DEF Delete
  <2> QED
    BY <1>t, <2>1 DEF DevicesTyped
<1>5. CASE \/ DeviceAdd(p) \/ AddressAdd(p) \/ Find(p) \/ AskHolder(p)
           \/ AskSince(p) \/ Insert(p) \/ AddressRemove(p) \/ Release(p)
           \/ Forget(p) \/ Rename(p) \/ AskClash(p) \/ DeviceRemove(p)
           \/ Undo(p) \/ Kill(p)
           \/ (Create(p) /\ DeviceID(cmd[p].name) # 0)
  BY <1>5, <1>1
  DEF DeviceAdd, AddressAdd, Find, AskHolder, AskSince, Insert, AddressRemove,
      Release, Forget, Rename, AskClash, DeviceRemove, Undo, Kill, Create, Begin
<1> QED
  BY <1>2, <1>3, <1>4, <1>5 DEF Step

LEMMA RowsStep ==
  ASSUME Typed, NEW p \in Procs, Step(p) PROVE RowsTyped'
<1>t. TypeOK /\ RowsTyped /\ cmd[p] \in Command /\ Shaped(cmd[p])
  BY DEF Typed, TypeOK, RowsTyped
<1>1. ASSUME UNCHANGED addresses, DOMAIN devices \subseteq DOMAIN devices'
      PROVE  RowsTyped'
  BY <1>t, <1>1 DEF RowsTyped
<1>2. CASE Insert(p) /\ cmd[p].id \in DOMAIN devices
  <2>1. NewRow(p) \in Row
    <3>1. Head(cmd[p].ips) \in IPs
      BY <1>2, <1>t DEF Insert, Shaped, Command
    <3>2. cmd[p].id \in Ids /\ cmd[p].from \in 0..MaxClock /\ Current \in 0..MaxClock
      BY <1>2, <1>t, DevicesAssumption DEF TypeOK, Command, Current
    <3> QED
      BY <3>1, <3>2 DEF NewRow, Row
  <2>2. devices' = devices /\ NewRow(p).device = cmd[p].id
    BY <1>2 DEF Insert, NewRow
  <2> QED
    BY <1>2, <1>t, <2>1, <2>2, InsertedRow DEF RowsTyped
<1>3. CASE Release(p)
  <2>1. /\ addresses' = [i \in DOMAIN addresses |-> Ended(p, addresses[i])]
        /\ devices' = devices
    BY <1>3, EndedRows DEF Release
  <2>2. \A i \in DOMAIN addresses :
          /\ Ended(p, addresses[i]) \in Row
          /\ Ended(p, addresses[i]).device \in DOMAIN devices
    BY <1>t, EndedFacts DEF RowsTyped
  <2> QED
    BY <1>t, <2>1, <2>2 DEF RowsTyped
<1>4. CASE Forget(p)
  BY <1>4, <1>t DEF Forget, Only, RowsTyped
<1>5. CASE Delete(p)
  <2>1. /\ Fewer /\ \A i \in DOMAIN addresses' : addresses'[i].device # cmd[p].id
        /\ DOMAIN devices' = DOMAIN devices \ {cmd[p].id}
    BY <1>5 DEF Delete, Cascade, Only, Fewer
  <2> QED
    BY <1>t, <2>1 DEF RowsTyped, Fewer
<1>6. CASE Create(p) \/ Rewrite(p)
  <2>1. UNCHANGED addresses /\ DOMAIN devices \subseteq DOMAIN devices'
    BY <1>6 DEF Create, Rewrite, Inserted
  <2> QED
    BY <1>1, <2>1
<1>7. CASE \/ DeviceAdd(p) \/ AddressAdd(p) \/ Find(p) \/ AskHolder(p)
           \/ AskSince(p) \/ AddressRemove(p) \/ Rename(p) \/ AskClash(p)
           \/ DeviceRemove(p) \/ Undo(p) \/ Kill(p)
           \/ (Insert(p) /\ cmd[p].id \notin DOMAIN devices)
  BY <1>7, <1>1
  DEF DeviceAdd, AddressAdd, Find, AskHolder, AskSince, Insert, AddressRemove,
      Rename, AskClash, DeviceRemove, Undo, Kill, Begin
<1> QED
  BY <1>2, <1>3, <1>4, <1>5, <1>6, <1>7 DEF Step

LEMMA RacedStep ==
  ASSUME Typed, NEW p \in Procs, Step(p)
  PROVE  clock' = clock /\ raced \subseteq raced' /\ raced' \subseteq IPs
<1>1. CASE Insert(p)
  <2>1. Head(cmd[p].ips) \in IPs
    BY <1>1 DEF Insert, Typed, TypeOK, Shaped, Command
  <2> QED
    BY <1>1, <2>1 DEF Insert, Typed, TypeOK
<1>2. CASE ~Insert(p)
  BY <1>2
  DEF Step, DeviceAdd, Create, AddressAdd, Find, AskHolder, AskSince,
      AddressRemove, Release, Forget, Rename, AskClash, Rewrite, DeviceRemove,
      Undo, Delete, Kill, Begin, Typed, TypeOK
<1> QED
  BY <1>1, <1>2

LEMMA TypedInit == Init => Typed
<1> SUFFICES ASSUME Init PROVE Typed
  OBVIOUS
<1>1. DOMAIN addresses = {}
  BY DEF Init
<1>3. NoCommand \in Command /\ Shaped(NoCommand)
  BY DevicesAssumption DEF NoCommand, Idle, Command, Shaped
<1>4. DOMAIN devices = {}
  BY DEF Init
<1> QED
  BY <1>1, <1>3, <1>4, DevicesAssumption DEF Init, Typed, TypeOK

LEMMA TypedNext == Typed /\ [Next]_vars => Typed'
<1> SUFFICES ASSUME Typed, [Next]_vars PROVE Typed'
  OBVIOUS
<1>1. ASSUME NEW p \in Procs, Step(p) PROVE Typed'
  <2>1. PICK c \in Command : Shaped(c) /\ cmd' = [cmd EXCEPT ![p] = c]
    BY <1>1, CommandStep
  <2>2. cmd' \in [Procs -> Command] /\ \A q \in Procs : Shaped(cmd'[q])
    BY <2>1 DEF Typed, TypeOK
  <2>3. DevicesTyped' /\ RowsTyped'
    BY <1>1, DevicesStep, RowsStep
  <2>4. clock' = clock /\ raced' \subseteq IPs
    BY <1>1, RacedStep
  <2> QED
    BY <2>2, <2>3, <2>4 DEF Typed, TypeOK, DevicesTyped, RowsTyped
<1>2. CASE Tick
  BY <1>2, DevicesAssumption DEF Tick, Typed, TypeOK
<1>3. CASE UNCHANGED vars
  BY <1>3 DEF vars, Typed, TypeOK
<1> QED
  BY <1>1, <1>2, <1>3 DEF Next

LEMMA TypedHolds == Spec => []Typed
  BY TypedInit, TypedNext, PTL DEF Spec

\* The tables stay tables: ids and names are unique, every row is of a device
\* that exists, and every command has what its next statement takes.
THEOREM DevicesTypes == Spec => []TypeOK
<1>1. Typed => TypeOK
  BY DEF Typed
<1> QED
  BY <1>1, TypedHolds, PTL

-----------------------------------------------------------------------------
(* One holder.  At most one row of an address covers a time (Disjoint), and *)
(* a process that has found an address free may still take it: nobody      *)
(* holds it, and what was held has ended when the new row begins (Free).   *)

Disjoint ==
  \A ip \in IPs \ raced, t \in Nat :
    \A i, j \in DOMAIN addresses :
      Matches(addresses[i], ip, t) /\ Matches(addresses[j], ip, t) => i = j

EndedBy(ip, t) == \A i \in RowsOf(ip) : addresses[i].to <= t

Free(q) ==
  cmd[q].at \in {"since", "insert"} /\ Head(cmd[q].ips) \notin raced
    => /\ Holders(Head(cmd[q].ips)) = {}
       /\ cmd[q].at = "insert" => EndedBy(Head(cmd[q].ips), cmd[q].from)

HolderInv == Typed /\ Disjoint /\ \A q \in Procs : Free(q)

\* A step of p leaves the commands of the others.
LEMMA OtherCommands ==
  ASSUME Typed, NEW p \in Procs, Step(p), NEW q \in Procs, q # p
  PROVE  cmd'[q] = cmd[q]
<1>1. PICK c \in Command : cmd' = [cmd EXCEPT ![p] = c]
  BY CommandStep
<1> QED
  BY <1>1 DEF Typed, TypeOK

\* An address is found free by AskHolder, and its history read by AskSince.
LEMMA FindsFree ==
  ASSUME Typed, NEW p \in Procs, Step(p), cmd'[p].at \in {"since", "insert"}
  PROVE  /\ UNCHANGED <<addresses, raced>>
         /\ cmd'[p].ips = cmd[p].ips
         /\ \/ cmd'[p].at = "since" /\ Holders(Head(cmd[p].ips)) = {}
            \/ /\ cmd'[p].at = "insert" /\ cmd[p].at = "since"
               /\ cmd'[p].from = LastEnd(Head(cmd[p].ips))
<1>t. cmd \in [Procs -> Command] /\ cmd[p] \in Command
  BY DEF Typed, TypeOK
<1>e. ASSUME End(p) PROVE FALSE
  BY <1>e, <1>t DEF End, NoCommand, Idle
<1>f. ASSUME Fail(p) PROVE FALSE
  BY <1>e, <1>f, <1>t DEF Fail, Goto, Command
<1>b. ASSUME NEW n \in Names, NEW place \in {"holder", "release", "forget", "remove"},
             NEW ips, Begin(p, n, place, ips)
      PROVE  FALSE
  BY <1>b, <1>t DEF Begin, Idle
<1>1. CASE DeviceAdd(p)
  BY <1>1, <1>t DEF DeviceAdd, Idle
<1>2. CASE Create(p)
  BY <1>2, <1>e, <1>t DEF Create, Command
<1>3. CASE AddressAdd(p) \/ AddressRemove(p) \/ DeviceRemove(p)
  BY <1>3, <1>b DEF AddressAdd, AddressRemove, DeviceRemove
<1>4. CASE Find(p)
  BY <1>4, <1>f, <1>t DEF Find, Command
<1>5. CASE AskHolder(p)
  BY <1>5, <1>f, <1>t DEF AskHolder, Goto, Command
<1>6. CASE AskSince(p)
  BY <1>6, <1>t DEF AskSince, Command
<1>7. CASE Insert(p)
  <2>1. CASE cmd' = [cmd EXCEPT ![p].at = "find", ![p].ips = Tail(@)]
    BY <2>1, <1>t DEF Command
  <2> QED
    BY <1>7, <1>e, <1>f, <2>1 DEF Insert
<1>8. CASE Release(p) \/ Forget(p) \/ Rewrite(p) \/ Delete(p) \/ Kill(p)
  BY <1>8, <1>e DEF Release, Forget, Rewrite, Delete, Kill
<1>9. CASE Rename(p)
  BY <1>9, <1>t DEF Rename, Idle
<1>10. CASE AskClash(p)
  BY <1>10, <1>e, <1>t DEF AskClash, Goto, Command
<1>11. CASE Undo(p)
  BY <1>11, <1>e, <1>t DEF Undo, Command
<1> QED
  BY <1>1, <1>2, <1>3, <1>4, <1>5, <1>6, <1>7, <1>8, <1>9, <1>10, <1>11 DEF Step

\* What a step does to the rows: nothing, a new row, an end, or a DELETE.
LEMMA RowsChange ==
  ASSUME NEW p \in Procs, Step(p)
  PROVE  \/ UNCHANGED <<addresses, raced>>
         \/ Insert(p) /\ cmd[p].id \in DOMAIN devices
         \/ Release(p)
         \/ /\ Forget(p) \/ Delete(p)
            /\ Fewer /\ raced' = raced
<1>1. CASE Forget(p) \/ Delete(p)
  BY <1>1 DEF Forget, Delete, Cascade, Only, Fewer
<1>2. CASE ~Forget(p) /\ ~Delete(p)
  BY <1>2
  DEF Step, DeviceAdd, Create, AddressAdd, Find, AskHolder, AskSince, Insert,
      AddressRemove, Rename, AskClash, Rewrite, DeviceRemove, Undo, Kill, Begin
<1> QED
  BY <1>1, <1>2

\* The new row begins when all that was held has ended, and no other process
\* that found the address free goes on unnoticed.
LEMMA Inserts ==
  ASSUME HolderInv, NEW p \in Procs, Insert(p), cmd[p].id \in DOMAIN devices
  PROVE  /\ NewRow(p) \in Row
         /\ NewRow(p).ip = Head(cmd[p].ips)
         /\ NewRow(p).from = cmd[p].from /\ cmd[p].from \in Nat
         /\ raced \subseteq raced'
         /\ NewRow(p).ip \notin raced'
              => /\ Holders(NewRow(p).ip) = {}
                 /\ EndedBy(NewRow(p).ip, cmd[p].from)
                 /\ ~Contended(p, NewRow(p).ip)
<1>t. TypeOK /\ cmd[p] \in Command /\ Shaped(cmd[p]) /\ Free(p)
  BY DEF HolderInv, Typed, TypeOK
<1>1. /\ cmd[p].at = "insert"
      /\ raced' = IF Contended(p, Head(cmd[p].ips)) THEN raced \cup {Head(cmd[p].ips)}
                                                    ELSE raced
  BY DEF Insert
<1>2. NewRow(p).ip = Head(cmd[p].ips) /\ NewRow(p).from = cmd[p].from
  BY DEF NewRow
<1>3. /\ Head(cmd[p].ips) \in IPs /\ cmd[p].from \in 0..MaxClock
      /\ cmd[p].id \in Ids /\ Current \in 0..MaxClock
  BY <1>1, <1>t, DevicesAssumption DEF Shaped, Command, TypeOK, Current
<1>4. NewRow(p) \in Row
  BY <1>3 DEF NewRow, Row
<1>5. raced \subseteq raced' /\ (Head(cmd[p].ips) \notin raced'
                                  => /\ Head(cmd[p].ips) \notin raced
                                     /\ ~Contended(p, Head(cmd[p].ips)))
  BY <1>1
<1>6. ASSUME Head(cmd[p].ips) \notin raced'
      PROVE  /\ Holders(Head(cmd[p].ips)) = {}
             /\ EndedBy(Head(cmd[p].ips), cmd[p].from)
  BY <1>1, <1>5, <1>6, <1>t DEF Free
<1>7. cmd[p].from \in Nat
  BY <1>3, DevicesAssumption
<1> HIDE DEF NewRow
<1> QED
  BY <1>2, <1>4, <1>5, <1>6, <1>7

\* Until now, a released row covers what it did.
LEMMA EndedMatches ==
  ASSUME TypeOK, NEW p \in Procs, NEW x \in Row, NEW ip, NEW t \in Nat
  PROVE  /\ Matches(Ended(p, x), ip, t) => Matches(x, ip, t)
         /\ t < clock /\ Matches(x, ip, t) => Matches(Ended(p, x), ip, t)
<1>1. /\ Ended(p, x).ip = x.ip /\ Ended(p, x).from = x.from
      /\ Ended(p, x).to = IF Ends(p, x) THEN clock ELSE x.to
  BY EndedFacts
<1>2. clock \in Nat /\ clock # Current /\ (Ends(p, x) => x.to = Current)
  BY DevicesAssumption DEF TypeOK, Current, Ends
<1>3. x.from \in Nat /\ x.to \in Nat
  BY DevicesAssumption DEF Row
<1> HIDE DEF Ended, Ends
<1> QED
  BY <1>1, <1>2, <1>3 DEF Matches

LEMMA DisjointStep ==
  ASSUME HolderInv, NEW p \in Procs, Step(p) PROVE Disjoint'
<1>t. /\ Typed /\ TypeOK /\ Disjoint
      /\ \A i \in DOMAIN addresses : addresses[i] \in Row
  BY DEF HolderInv, Typed, TypeOK
<1>1. CASE UNCHANGED <<addresses, raced>>
  BY <1>1, <1>t DEF Disjoint
<1>2. CASE Insert(p) /\ cmd[p].id \in DOMAIN devices
  <2> DEFINE r == NewRow(p)
  <2>1. /\ r \in Row /\ r.from = cmd[p].from /\ cmd[p].from \in Nat
        /\ raced \subseteq raced'
        /\ r.ip \notin raced' => Holders(r.ip) = {} /\ EndedBy(r.ip, cmd[p].from)
    BY <1>2, Inserts
  <2>2. PICK new \in 1..MaxRows :
          /\ new \notin DOMAIN addresses
          /\ DOMAIN addresses' = DOMAIN addresses \cup {new}
          /\ addresses'[new] = r
          /\ \A i \in DOMAIN addresses : addresses'[i] = addresses[i]
    BY <1>2, <1>t, InsertedRow
  <2> HIDE DEF r
  <2>3. SUFFICES ASSUME NEW ip \in IPs, ip \notin raced', NEW t \in Nat,
                        NEW i \in DOMAIN addresses', NEW j \in DOMAIN addresses',
                        Matches(addresses'[i], ip, t), Matches(addresses'[j], ip, t)
                 PROVE  i = j
    BY DEF Disjoint
  <2>4. ASSUME NEW k \in DOMAIN addresses, Matches(addresses[k], ip, t)
        PROVE ~Matches(r, ip, t)
    <3> SUFFICES ASSUME r.ip = ip PROVE ~Matches(r, ip, t)
      BY DEF Matches
    <3>1. /\ addresses[k].to \in Nat /\ addresses[k].to # Current
          /\ addresses[k].to <= cmd[p].from
      BY <1>t, <2>1, <2>3, <2>4, DevicesAssumption
      DEF Matches, Holders, EndedBy, RowsOf, Row
    <3> QED
      BY <2>1, <2>4, <3>1 DEF Matches
  <2>5. i = new <=> j = new
    BY <2>2, <2>3, <2>4
  <2>6. ip \in IPs \ raced
    BY <2>1, <2>3
  <2> QED
    BY <1>t, <2>2, <2>3, <2>5, <2>6 DEF Disjoint
<1>3. CASE Release(p)
  <2>1. /\ addresses' = [i \in DOMAIN addresses |-> Ended(p, addresses[i])]
        /\ raced' = raced
    BY <1>3, EndedRows DEF Release
  <2>2. \A i \in DOMAIN addresses, ip \in IPs, t \in Nat :
          Matches(Ended(p, addresses[i]), ip, t) => Matches(addresses[i], ip, t)
    BY <1>t, EndedMatches
  <2> QED
    BY <1>t, <2>1, <2>2 DEF Disjoint
<1>4. CASE Fewer /\ raced' = raced
  BY <1>4, <1>t DEF Disjoint, Fewer
<1> QED
  BY <1>1, <1>2, <1>3, <1>4, RowsChange

LEMMA FreeStep ==
  ASSUME HolderInv, NEW p \in Procs, Step(p), NEW q \in Procs PROVE Free(q)'
<1>t. /\ Typed /\ TypeOK /\ Free(q) /\ Free(p)
      /\ \A i \in DOMAIN addresses : addresses[i] \in Row
  BY DEF HolderInv, Typed, TypeOK
<1>1. CASE q = p
  <2>1. SUFFICES ASSUME cmd'[p].at \in {"since", "insert"},
                        Head(cmd'[p].ips) \notin raced'
                 PROVE  /\ (Holders(Head(cmd[p].ips)) = {})'
                        /\ cmd'[p].at = "insert" => EndedBy(Head(cmd[p].ips), cmd[p].from)'
    BY <1>1 DEF Free
  <2>2. /\ UNCHANGED <<addresses, raced>> /\ cmd'[p].ips = cmd[p].ips
        /\ \/ cmd'[p].at = "since" /\ Holders(Head(cmd[p].ips)) = {}
           \/ /\ cmd'[p].at = "insert" /\ cmd[p].at = "since"
              /\ cmd'[p].from = LastEnd(Head(cmd[p].ips))
    BY <2>1, <1>t, FindsFree
  <2>3. Holders(Head(cmd[p].ips)) = {}
    BY <1>t, <2>1, <2>2 DEF Free
  <2>4. cmd'[p].at = "insert" => EndedBy(Head(cmd[p].ips), cmd'[p].from)
    BY <1>t, <2>2, LastEndFacts DEF EndedBy
  <2> QED
    BY <2>2, <2>3, <2>4 DEF Holders, EndedBy, RowsOf
<1>2. CASE q # p
  <2>1. cmd'[q] = cmd[q]
    BY <1>2, <1>t, OtherCommands
  <2> DEFINE ip == Head(cmd[q].ips)
  <2>2. raced \subseteq raced'
    BY <1>t, RacedStep
  <2> DEFINE Kept(x) == x.ip = ip => /\ x.to # Current
                                     /\ cmd[q].at = "insert" => x.to <= cmd[q].from
  <2>3. SUFFICES ASSUME cmd[q].at \in {"since", "insert"}, ip \notin raced'
                 PROVE  \A i \in DOMAIN addresses' : Kept(addresses'[i])
    BY <2>1 DEF Free, Holders, EndedBy, RowsOf
  <2>4. \A i \in DOMAIN addresses : Kept(addresses[i])
    BY <1>t, <2>2, <2>3 DEF Free, Holders, EndedBy, RowsOf
  <2>5. CASE UNCHANGED addresses \/ Fewer
    BY <2>4, <2>5 DEF Fewer
  <2>6. CASE Insert(p) /\ cmd[p].id \in DOMAIN devices
    <3>1. NewRow(p).ip \notin raced' => ~Contended(p, NewRow(p).ip)
      BY <2>6, Inserts
    <3>2. NewRow(p).ip # ip
      BY <1>2, <2>3, <3>1 DEF Contended
    <3> QED
      BY <2>4, <2>6, <3>2, <1>t, InsertedRow
  <2>7. CASE Release(p)
    <3>1. addresses' = [i \in DOMAIN addresses |-> Ended(p, addresses[i])]
      BY <2>7, EndedRows
    <3>2. ASSUME NEW i \in DOMAIN addresses PROVE Kept(Ended(p, addresses[i]))
      <4>1. /\ Ended(p, addresses[i]).ip = addresses[i].ip
            /\ Ended(p, addresses[i]).to = IF Ends(p, addresses[i]) THEN clock
                                            ELSE addresses[i].to
        BY <1>t, EndedFacts
      <4>2. Ends(p, addresses[i]) => addresses[i].to = Current
        BY DEF Ends
      <4> QED
        BY <2>4, <4>1, <4>2
    <3> QED
      BY <3>1, <3>2
  <2> QED
    BY <2>5, <2>6, <2>7, RowsChange
<1> QED
  BY <1>1, <1>2

LEMMA HolderInit == Init => HolderInv
<1> SUFFICES ASSUME Init PROVE HolderInv
  OBVIOUS
<1>1. Typed
  BY TypedInit
<1>2. DOMAIN addresses = {}
  BY DEF Init
<1>3. \A q \in Procs : cmd[q].at = "none"
  BY DEF Init, NoCommand, Idle
<1> QED
  BY <1>1, <1>2, <1>3 DEF HolderInv, Disjoint, Free

LEMMA HolderNext == HolderInv /\ [Next]_vars => HolderInv'
<1> SUFFICES ASSUME HolderInv, [Next]_vars PROVE HolderInv'
  OBVIOUS
<1>1. Typed'
  BY TypedNext DEF HolderInv
<1>2. ASSUME NEW p \in Procs, Step(p) PROVE HolderInv'
  BY <1>1, <1>2, DisjointStep, FreeStep DEF HolderInv
<1>3. CASE UNCHANGED <<addresses, cmd, raced>>
  BY <1>1, <1>3 DEF HolderInv, Disjoint, Free, Holders, EndedBy, RowsOf
<1> QED
  BY <1>2, <1>3 DEF Next, Tick, vars

LEMMA HolderHolds == Spec => []HolderInv
  BY HolderInit, HolderNext, PTL DEF Spec

\* At any time an address has at most one row, so that a report counts each
\* query once (DeviceAt and the JOINs), unless two commands gave the address
\* away at a time: however many processes there are and whatever they do.
THEOREM OneHolderEver == Spec => []OneHolder
<1>1. HolderInv => OneHolder
  <2> SUFFICES ASSUME HolderInv, NEW ip \in IPs \ raced, NEW t \in 0..clock
               PROVE  Cardinality(At(ip, t)) <= 1
    BY DEF OneHolder
  <2>t. t \in Nat
    BY DevicesAssumption DEF HolderInv, Typed, TypeOK
  <2>1. \A i, j \in At(ip, t) : i = j
    BY <2>t DEF HolderInv, Disjoint, At
  <2>2. At(ip, t) = {} \/ \E i : At(ip, t) = {i}
    BY <2>1
  <2>3. Cardinality(At(ip, t)) \in {0, 1}
    BY <2>2, FS_EmptySet, FS_Singleton
  <2> QED
    BY <2>3
<1> QED
  BY <1>1, HolderHolds, PTL

\* The past that has a device keeps it through every step but the erasure of
\* a device or of an assignment.
THEOREM HistoryIsKept == Spec => HistoryStays
<1> DEFINE Kept == \/ \A ip \in IPs, t \in Past :
                          HolderOf(ip, t) # {} /\ ip \notin raced'
                            => HolderOf(ip, t)' = HolderOf(ip, t)
                   \/ \E p \in Procs : Forget(p) \/ Delete(p)
<1>1. HolderInv /\ [Next]_vars => [Kept]_vars
  <2> SUFFICES ASSUME HolderInv, Next, ~\E p \in Procs : Forget(p) \/ Delete(p),
                      NEW ip \in IPs, NEW t \in Past, HolderOf(ip, t) # {}, ip \notin raced'
               PROVE  HolderOf(ip, t)' = HolderOf(ip, t)
    OBVIOUS
  <2>t. /\ t \in Nat /\ t < clock /\ TypeOK
        /\ \A i \in DOMAIN addresses : addresses[i] \in Row
    BY DevicesAssumption DEF HolderInv, Typed, TypeOK, Past
  <2>1. HolderOf(ip, t) = {addresses[i].device :
                             i \in {j \in DOMAIN addresses : Matches(addresses[j], ip, t)}}
    BY DEF HolderOf, At
  <2>2. HolderOf(ip, t)' = {addresses'[i].device :
                              i \in {j \in DOMAIN addresses' : Matches(addresses'[j], ip, t)}}
    BY DEF HolderOf, At, Matches
  <2>3. CASE UNCHANGED addresses
    BY <2>1, <2>2, <2>3
  <2>4. ASSUME NEW p \in Procs, Insert(p), cmd[p].id \in DOMAIN devices
        PROVE  HolderOf(ip, t)' = HolderOf(ip, t)
    <3> DEFINE r == NewRow(p)
    <3>1. /\ r.from = cmd[p].from /\ cmd[p].from \in Nat
          /\ r.ip \notin raced' => Holders(r.ip) = {} /\ EndedBy(r.ip, cmd[p].from)
      BY <2>4, Inserts
    <3>2. PICK new \in 1..MaxRows :
            /\ new \notin DOMAIN addresses
            /\ DOMAIN addresses' = DOMAIN addresses \cup {new}
            /\ addresses'[new] = r
            /\ \A i \in DOMAIN addresses : addresses'[i] = addresses[i]
      BY <2>4, <2>t, InsertedRow
    <3> HIDE DEF r
    <3>3. PICK k \in DOMAIN addresses : Matches(addresses[k], ip, t)
      BY <2>1
    <3>4. addresses[k].to \in Nat /\ addresses[k].ip = ip
      BY <2>t, <3>3, DevicesAssumption DEF Row, Matches
    <3>5. ~Matches(r, ip, t)
      <4> SUFFICES ASSUME Matches(r, ip, t) PROVE FALSE
        OBVIOUS
      <4>1. r.ip = ip /\ cmd[p].from <= t
        BY <3>1 DEF Matches
      <4>2. addresses[k].to # Current /\ addresses[k].to <= cmd[p].from
        BY <3>1, <3>4, <4>1 DEF Holders, EndedBy, RowsOf
      <4>3. t < addresses[k].to
        BY <3>3, <4>2 DEF Matches
      <4> QED
        BY <2>t, <3>1, <3>4, <4>1, <4>2, <4>3
    <3>6. {j \in DOMAIN addresses' : Matches(addresses'[j], ip, t)}
            = {j \in DOMAIN addresses : Matches(addresses[j], ip, t)}
      BY <3>2, <3>5
    <3> QED
      BY <2>1, <2>2, <3>2, <3>6
  <2>5. ASSUME NEW p \in Procs, Release(p)
        PROVE  HolderOf(ip, t)' = HolderOf(ip, t)
    <3>1. addresses' = [i \in DOMAIN addresses |-> Ended(p, addresses[i])]
      BY <2>5, EndedRows
    <3>2. \A i \in DOMAIN addresses :
            /\ Matches(Ended(p, addresses[i]), ip, t) <=> Matches(addresses[i], ip, t)
            /\ Ended(p, addresses[i]).device = addresses[i].device
      BY <2>t, EndedMatches, EndedFacts
    <3> HIDE DEF Ended
    <3>3. {j \in DOMAIN addresses' : Matches(addresses'[j], ip, t)}
            = {j \in DOMAIN addresses : Matches(addresses[j], ip, t)}
      BY <3>1, <3>2
    <3> QED
      BY <2>1, <2>2, <3>1, <3>2, <3>3
  <2>6. CASE Tick
    BY <2>3, <2>6 DEF Tick
  <2> QED
    BY <2>3, <2>4, <2>5, <2>6, RowsChange DEF Next
<1> QED
  BY <1>1, HolderHolds, PTL DEF Spec, HistoryStays
=============================================================================
