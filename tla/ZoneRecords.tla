---------------------------- MODULE ZoneRecords -----------------------------
(***************************************************************************)
(* The records of a zone as minidns edits, merges and checks them          *)
(* (internal/zones, internal/zonefile).  A zone's records are a set: the   *)
(* file lists them in a canonical order that nothing depends on.  The SOA  *)
(* is one of them; its serial is kept beside the set, because it changes   *)
(* with every save.  A record's name is its absolute owner, its meta       *)
(* stands for the TTL and the managed-by tag.                              *)
(***************************************************************************)
EXTENDS Integers, FiniteSets

CONSTANTS
  Owners,       \* absolute owner names
  Values,       \* record data
  Metas,        \* TTLs and tags
  SerialSpace   \* serials are 0 .. SerialSpace - 1 (2^32 in the code)

Types == {"SOA", "NS", "CNAME", "A", "PTR"}

Record == [name: Owners, type: Types, value: Values, meta: Metas]

SameData(r, s) == r.name = s.name /\ r.type = s.type /\ r.value = s.value

\* The records at name n of type t, and of value v when one is given.
Matching(recs, n, t, vs) ==
  {r \in recs : r.name = n /\ r.type = t /\ r.value \in vs}

\* What Add replaces: the same data with another TTL or tag, or itself.
Twins(recs, r) == {s \in recs : SameData(r, s)}

\* Two records of which one is a CNAME cannot share a name.
CnameClash(r, s) ==
  r.name = s.name /\ ~SameData(r, s) /\ "CNAME" \in {r.type, s.type}

\* Mutant: a clash is looked for only when the record to add is the CNAME.
OneSidedRefused(recs, r, apex, overlay) ==
  \/ r.type = "SOA"
  \/ r.type = "CNAME" /\ (r.name = apex \/ \E s \in recs : CnameClash(r, s))

\* Add refuses r in a zone with this apex; overlay says whether the zone is
\* the overlay of a replica.
AddRefused(recs, r, apex, overlay) ==
  \/ r.type = "SOA"
  \/ \E s \in recs : CnameClash(r, s)
  \/ /\ r.name = apex
     /\ Twins(recs, r) = {}
     /\ r.type = "CNAME" \/ (overlay /\ r.type = "NS")

\* Add reports added=false exactly when r \in recs.
Added(recs, r) == (recs \ Twins(recs, r)) \cup {r}

RemoveRefused(recs, n, t, vs, apex, overlay) ==
  \/ t = "SOA"
  \/ Matching(recs, n, t, vs) = {}
  \/ /\ ~overlay /\ t = "NS" /\ n = apex
     /\ Matching(recs, apex, "NS", Values \ vs) = {}

Removed(recs, n, t, vs) == recs \ Matching(recs, n, t, vs)

\* Mutant: the serial is the date, and a second change of a day keeps it.
StuckSerial(old, today) == IF today > old THEN today ELSE old

\* Mutant: a date that is not ahead starts the day's counter again.
DailySerial(old, today) == IF today > old THEN today ELSE today + 1

\* nextSerial: today's date followed by 00, or one more when that is not ahead.
NextSerial(old, today) ==
  IF today > old THEN today ELSE (old + 1) % SerialSpace

\* zonefile.Validate: one SOA, at the apex, and something besides it.
Servable(recs, apex) ==
  /\ \E s \in recs : {r \in recs : r.type = "SOA"} = {s} /\ s.name = apex
  /\ \E r \in recs : r.type # "SOA"

\* The SOA and the apex NS of a replica always come from the provider.
Protected(r, apex) == r.name = apex /\ r.type \in {"SOA", "NS"}

\* Merge hides a provider record behind overlay record o.
Hides(o, r) ==
  o.name = r.name /\ (o.type = r.type \/ "CNAME" \in {o.type, r.type})

MergeRefused(ov, apex) ==
  \E o \in ov : o.name = apex /\ o.type \in {"SOA", "NS", "CNAME"}

Shadowed(up, ov, apex) ==
  {r \in up : ~Protected(r, apex) /\ \E o \in ov : Hides(o, r)}

Merged(up, ov, apex) == (up \ Shadowed(up, ov, apex)) \cup ov

(***************************************************************************)
(* A CNAME owns its name alone (RFC 1034, section 3.6.2): a name server    *)
(* given both a CNAME and other data at a name answers one or the other.   *)
(***************************************************************************)
CnamesAlone(recs) == \A r, s \in recs : ~CnameClash(r, s)
=============================================================================
