----------------------------- MODULE QueryCounts -----------------------------
(***************************************************************************)
(* What the statistics database promises of the queries it was given       *)
(* (internal/store/events.go), without tables, ids or hours: each query    *)
(* counts once on its day for as long as the day is kept, each recent one  *)
(* can be listed, and a purge forgets them.                                *)
(***************************************************************************)
EXTENDS Naturals, FiniteSets, Bags

CONSTANTS
  Query,       \* who asked for what
  Day,         \* length of a day
  Retentions   \* [events, hourly, daily]: how long each level is kept

VARIABLES
  now,      \* time
  keep,     \* the retention in force
  recent,   \* bag of [ts, query]: the queries that can be listed
  counts    \* bag of [day, query]: how often each was asked that day

vars == <<now, keep, recent, counts>>

DayOf(ts) == ts - (ts % Day)
Only(B, Test(_)) == [x \in {y \in DOMAIN B : Test(y)} |-> B[x]]

Init ==
  /\ now = 0
  /\ keep \in Retentions
  /\ recent = EmptyBag
  /\ counts = EmptyBag

Pass ==
  /\ now' > now
  /\ UNCHANGED <<keep, recent, counts>>

Keep ==
  /\ keep' \in Retentions
  /\ UNCHANGED <<now, recent, counts>>

\* A query of the past or present is recorded; a listing has it if it is recent.
Record == \E ts \in 0..now, q \in Query :
  /\ counts' = counts (+) SetToBag({[day |-> DayOf(ts), query |-> q]})
  /\ recent' = IF ts + keep.events >= now
                 THEN recent (+) SetToBag({[ts |-> ts, query |-> q]})
                 ELSE recent
  /\ UNCHANGED <<now, keep>>

\* Counts go by the day: of a day that starts within the retention they all
\* stay, of one that ended before it none does.  A day in between goes as a
\* whole where days are kept for longer than hours, and else perhaps in part.
Expire ==
  /\ recent' = Only(recent, LAMBDA x : x.ts + keep.events >= now)
  /\ counts' \sqsubseteq counts
  /\ \A x \in DOMAIN counts :
       x.day + keep.daily >= now => x \in DOMAIN counts' /\ counts'[x] = counts[x]
  /\ \A x \in DOMAIN counts' : x.day + Day + keep.daily > now
  /\ keep.hourly < keep.daily =>
       \E gone \in SUBSET {x.day : x \in DOMAIN counts} :
         counts' = Only(counts, LAMBDA x : x.day \notin gone)
  /\ UNCHANGED <<now, keep>>

Forget ==
  /\ \/ recent' = EmptyBag /\ counts' = counts
     \/ recent' = EmptyBag /\ counts' = EmptyBag
  /\ UNCHANGED <<now, keep>>

Next == Pass \/ Keep \/ Record \/ Expire \/ Forget

Spec == Init /\ [][Next]_vars
=============================================================================
