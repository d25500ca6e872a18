----------------------------- MODULE MCReplica ------------------------------
(***************************************************************************)
(* A replica whose provider changes an alias into an address, and local    *)
(* records that hide it: at the alias's own name, an address and an alias. *)
(***************************************************************************)
EXTENDS Replica

Rec(n, t, v) == [name |-> n, type |-> t, value |-> v, meta |-> 1]
Zone0 == {Rec("zone", "SOA", "ns"), Rec("zone", "NS", "ns")}
MCVersions == <<[serial |-> 5, recs |-> Zone0 \cup {Rec("www", "CNAME", "ns")}],
                [serial |-> 6, recs |-> Zone0 \cup {Rec("www", "A", "ip1")}]>>
MCLocal == {Rec("www", "A", "ip2"), Rec("www", "CNAME", "zone")}
=============================================================================
