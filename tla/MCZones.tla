------------------------------ MODULE MCZones -------------------------------
(***************************************************************************)
(* One forward zone "lan" with two hosts, and two reverse zones that both  *)
(* contain the address, the narrower one once it has been added.  The      *)
(* first host has the address already.  `record` edits an alias at the     *)
(* name of the second.                                                     *)
(***************************************************************************)
EXTENDS Zones

CONSTANTS h1, h2, ip

MCZone == {"10.arpa", "20.10.arpa", "lan"}
MCReverse == {"10.arpa", "20.10.arpa"}
MCRank == [z \in MCZone |-> CASE z = "10.arpa" -> 1 [] z = "20.10.arpa" -> 2 [] z = "lan" -> 3]
MCFirst == {"lan", "10.arpa"}
MCFirstRecs == [z \in MCZone |->
                  CASE z = "lan" -> {ARecord(h1, ip, 1)}
                    [] z = "10.arpa" -> {PTRRecord(ip, h1, 1)}
                    [] OTHER -> {}]
MCLabels == [z \in MCZone |-> IF z = "20.10.arpa" THEN 3 ELSE 2]
MCHosts == {h1, h2}
MCZoneOf == [h \in MCHosts |-> "lan"]
MCAddrs == {ip}
MCCovers == [a \in MCAddrs |-> MCReverse]
MCNames == MCHosts \cup MCAddrs \cup MCZone
Alias(m) == [name |-> h2, type |-> "CNAME", value |-> h1, meta |-> m]
MCExtra == [z \in MCZone |->
              IF z = "lan" THEN {Alias(m) : m \in Metas} ELSE {}]

\* This instance is one that the theorem HostsStayInStep speaks of.
ASSUME HypothesesAssumption == ReverseFirst /\ HostsManaged
=============================================================================
