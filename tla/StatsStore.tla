------------------------------ MODULE StatsStore ------------------------------
(***************************************************************************)
(* internal/store/events.go: the tables of the statistics database that    *)
(* hold queries.  A row refers to who asked and for which name by ids of   *)
(* two dictionaries; counts are kept per hour and folded into days.        *)
(* Ingester runs (AddBatch), clean-ups (Prune) and `query-log purge --all` *)
(* (PurgeAll) are processes of their own that share the database.  A       *)
(* transaction is one step; PurgeAll has none, so each of its statements   *)
(* is a step.                                                              *)
(*                                                                         *)
(* The columns that refer to nothing (qtype, rcode, policy, cached,        *)
(* latency) are left out.  A table with a count column, keyed by the rest, *)
(* is a bag; so is one without a key.                                      *)
(***************************************************************************)
EXTENDS Naturals, FiniteSets, Bags, FiniteSetsExt

CONSTANTS
  Clients, Names,  \* the values of the two dictionaries
  Hour, Day,       \* their lengths in ticks
  Retentions,      \* what `query-log retention` may be set to
  Lateness,        \* how long before it is ingested a query may be asked
  MaxTime,         \* bound on the clock
  MaxQueries,      \* bound on the queries ingested
  MaxCrashes       \* bound on the purges killed

Tables == {"clients", "names"}
Value == [clients |-> Clients, names |-> Names]
Query == [clients: Clients, names: Names]
Ids == 1..MaxQueries
Ref == [clients: Ids, names: Ids]

\* querylog.go: whole days, and daily counts kept as long as hourly ones
ASSUME StatsAssumption ==
  /\ Hour \in Nat \ {0} /\ Day \in Nat \ {0} /\ Day % Hour = 0
  /\ Retentions \subseteq [events: Nat, hourly: Nat, daily: Nat]
  /\ \A r \in Retentions :
       /\ \A n \in {r.events, r.hourly, r.daily} : n >= Day /\ n % Day = 0
       /\ r.hourly <= r.daily
  /\ Lateness \subseteq Nat
  /\ MaxTime \in Nat /\ MaxQueries \in Nat /\ MaxCrashes \in Nat

VARIABLES
  now,      \* time
  keep,     \* the retention config.yaml asks for
  dict,     \* clients and names: id -> value
  events,   \* query_events: bag of [ts, ref]
  rollups,  \* query_rollups: bag of [bucket, span, ref]
  purge,    \* the statements PurgeAll has still to run
  \* history
  ingested, \* queries ingested
  late,     \* days that got a query after they had been folded
  litter,   \* a purge was killed before it had emptied the dictionaries
  mixed,    \* an ingester has committed between two statements of a purge
  crashes   \* purges killed

tables == <<dict, events, rollups>>
vars == <<now, keep, tables, purge, ingested, late, litter, mixed, crashes>>

Event == [ts: 0..MaxTime, ref: Ref]
Rollup == [bucket: 0..MaxTime, span: {"h", "d"}, ref: Ref]
BagOver(S) == UNION {[T -> 1..MaxQueries] : T \in SUBSET S}

TypeOK ==
  /\ now \in 0..MaxTime
  /\ keep \in Retentions
  /\ DOMAIN dict = Tables
  /\ \A t \in Tables : /\ DOMAIN dict[t] \subseteq Ids
                       /\ \A i \in DOMAIN dict[t] : dict[t][i] \in Value[t]
  /\ IsABag(events) /\ DOMAIN events \subseteq Event
  /\ IsABag(rollups) /\ DOMAIN rollups \subseteq Rollup
  /\ purge \in 0..3
  /\ ingested \in 0..MaxQueries
  /\ late \subseteq 0..MaxTime
  /\ litter \in BOOLEAN /\ mixed \in BOOLEAN
  /\ crashes \in 0..MaxCrashes

\* Mutant: the end of the hour instead of its beginning.
HourRoundedUp(ts) == ts - (ts % Hour) + Hour

HourOf(ts) == ts - (ts % Hour)
DayOf(ts) == ts - (ts % Day)
Only(B, Test(_)) == [x \in {y \in DOMAIN B : Test(y)} |-> B[x]]

Init ==
  /\ now = 0
  /\ keep \in Retentions
  /\ dict = [t \in Tables |-> << >>]
  /\ events = EmptyBag
  /\ rollups = EmptyBag
  /\ purge = 0
  /\ ingested = 0
  /\ late = {}
  /\ litter = FALSE /\ mixed = FALSE
  /\ crashes = 0

---------------------------------------------------------------------------
(* AddBatch, with one event                                                *)

\* INTEGER PRIMARY KEY without AUTOINCREMENT: the largest id in use plus one.
NewId(t) == IF DOMAIN dict[t] = {} THEN 1 ELSE Max(DOMAIN dict[t]) + 1

\* INSERT OR IGNORE, then SELECT id.
Lookup(t, v) ==
  IF \E i \in DOMAIN dict[t] : dict[t][i] = v
    THEN CHOOSE i \in DOMAIN dict[t] : dict[t][i] = v
    ELSE NewId(t)

WithEntry(t, v) == [i \in DOMAIN dict[t] \cup {Lookup(t, v)} |->
                      IF i = Lookup(t, v) THEN v ELSE dict[t][i]]

Ago(span) == IF span <= now THEN now - span ELSE 0
EventsAfter == Ago(keep.events)

AddEvent(ts, q) ==
  LET ref == [t \in Tables |-> Lookup(t, q[t])]
  IN /\ dict' = [t \in Tables |-> WithEntry(t, q[t])]
     /\ events' = IF ts >= EventsAfter
                    THEN events (+) SetToBag({[ts |-> ts, ref |-> ref]})
                    ELSE events
     /\ rollups' = rollups (+)
          SetToBag({[bucket |-> HourOf(ts), span |-> "h", ref |-> ref]})

DaysWith(span) == {DayOf(x.bucket) : x \in {y \in DOMAIN rollups : y.span = span}}

AddBatch ==
  /\ ingested < MaxQueries
  /\ \E l \in Lateness, q \in Query :
       /\ l <= now
       /\ AddEvent(now - l, q)
       /\ late' = late \cup (DaysWith("d") \cap {DayOf(now - l)})
  /\ ingested' = ingested + 1
  /\ mixed' = (mixed \/ purge # 0)
  /\ UNCHANGED <<now, keep, purge, litter, crashes>>

---------------------------------------------------------------------------
(* Prune, one transaction                                                  *)

\* Mutant: the fold stops in the middle of a day.
FoldAtOnce == Ago(keep.hourly)

FoldBefore == DayOf(Ago(keep.hourly))
ToFold(x) == x.span = "h" /\ x.bucket < FoldBefore
AsDay(x) == [bucket |-> DayOf(x.bucket), span |-> "d", ref |-> x.ref]

\* Mutant: INSERT OR REPLACE instead of ON CONFLICT adding up.
FoldedReplacing ==
  LET rest == Only(rollups, LAMBDA x : ~ToFold(x))
      days == BagOfAll(AsDay, Only(rollups, ToFold))
  IN [x \in DOMAIN rest \cup DOMAIN days |-> IF x \in DOMAIN days THEN days[x] ELSE rest[x]]

Folded == Only(rollups, LAMBDA x : ~ToFold(x))
            (+) BagOfAll(AsDay, Only(rollups, ToFold))
TooOld(x) == x.span = "d" /\ x.bucket < Ago(keep.daily)

\* Mutant: the days are forgotten.
UsedByHours(t, evs, rows) ==
  {x.ref[t] : x \in DOMAIN evs \cup {y \in DOMAIN rows : y.span = "h"}}

UsedIds(t, evs, rows) == {x.ref[t] : x \in DOMAIN evs \cup DOMAIN rows}

\* Mutant: the clients stay.
SweptNames(evs, rows) ==
  [dict EXCEPT !["names"] = [i \in DOMAIN @ \cap UsedIds("names", evs, rows) |-> @[i]]]

Swept(evs, rows) ==
  [t \in Tables |-> [i \in DOMAIN dict[t] \cap UsedIds(t, evs, rows) |-> dict[t][i]]]

Prune ==
  /\ events' = Only(events, LAMBDA x : x.ts >= EventsAfter)
  /\ rollups' = Only(Folded, LAMBDA x : ~TooOld(x))
  /\ IF \E x \in DOMAIN Folded : TooOld(x)
       THEN dict' = Swept(events', rollups') /\ litter' = FALSE
       ELSE UNCHANGED <<dict, litter>>
  /\ UNCHANGED <<now, keep, purge, ingested, late, mixed, crashes>>

---------------------------------------------------------------------------
(* PurgeAll                                                                *)

Statement(left) ==
  /\ purge' = left
  /\ UNCHANGED <<now, keep, ingested, late, mixed, crashes>>

PurgeEvents ==
  /\ purge = 0
  /\ Statement(3)
  /\ events' = EmptyBag
  /\ UNCHANGED <<dict, rollups, litter>>

PurgeRollups ==
  /\ purge = 3
  /\ Statement(2)
  /\ rollups' = EmptyBag
  /\ UNCHANGED <<dict, events, litter>>

PurgeNames ==
  /\ purge = 2
  /\ Statement(1)
  /\ dict' = [dict EXCEPT !["names"] = << >>]
  /\ UNCHANGED <<events, rollups, litter>>

PurgeClients ==
  /\ purge = 1
  /\ Statement(0)
  /\ dict' = [dict EXCEPT !["clients"] = << >>]
  /\ litter' = FALSE
  /\ UNCHANGED <<events, rollups>>

\* The process is killed, or a statement fails.
PurgeCrash ==
  /\ purge > 0
  /\ crashes < MaxCrashes
  /\ purge' = 0
  /\ litter' = TRUE
  /\ crashes' = crashes + 1
  /\ UNCHANGED <<now, keep, tables, ingested, late, mixed>>

---------------------------------------------------------------------------
Tick ==
  /\ now < MaxTime
  /\ now' = now + 1
  /\ UNCHANGED <<keep, tables, purge, ingested, late, litter, mixed, crashes>>

SetRetention ==
  /\ keep' \in Retentions \ {keep}
  /\ UNCHANGED <<now, tables, purge, ingested, late, litter, mixed, crashes>>

Next ==
  \/ AddBatch \/ Prune
  \/ PurgeEvents \/ PurgeRollups \/ PurgeNames \/ PurgeClients
  \/ PurgeCrash
  \/ Tick \/ SetRetention

Spec == Init /\ [][Next]_vars

---------------------------------------------------------------------------
(* query.go: what reports see                                              *)

\* JOIN: a row whose id is in no dictionary is in no report.
Known(x) == \A t \in Tables : x.ref[t] \in DOMAIN dict[t]
QueryOf(x) == [t \in Tables |-> dict[t][x.ref[t]]]

\* Events
Listed == BagOfAll(LAMBDA x : [ts |-> x.ts, query |-> QueryOf(x)],
                   Only(events, Known))

\* TopDomains and Overview, by day
Counted == BagOfAll(LAMBDA x : [day |-> DayOf(x.bucket), query |-> QueryOf(x)],
                    Only(rollups, Known))

---------------------------------------------------------------------------
(* Properties                                                              *)

\* Every id a row refers to is in its dictionary: Prune drops only entries
\* nothing refers to, and PurgeAll empties the dictionaries last, so that not
\* even a purge killed half-way leaves a row that a later query, given the
\* same id, would rename.  Only an ingester beside a purge can.
ReferencesResolve ==
  ~mixed => \A x \in DOMAIN events \cup DOMAIN rollups : Known(x)

\* "names and clients nothing refers to any more are dropped" (Prune): the
\* database remembers no name that is in no stored query or count, unless a
\* purge is under way, was killed or was mixed with an ingest, or queries are
\* kept until after their day's counts are gone.
NoOrphans ==
  /\ purge = 0 /\ ~litter /\ ~mixed
  /\ \A r \in Retentions : r.events + Day <= r.daily
  => \A t \in Tables : DOMAIN dict[t] \subseteq UsedIds(t, events, rollups)

\* "fold whole UTC days only, so a day is never split between spans" (Prune):
\* only a query that was ingested after its day had been folded splits it.
DaysWhole == DaysWith("h") \cap DaysWith("d") \subseteq late

\* The database counts and lists what it was given, each query once on its
\* day, whatever is folded, dropped from the dictionaries or given a used id
\* again meanwhile, until an ingester comes between two statements of a purge.
Promise == INSTANCE QueryCounts WITH recent <- Listed, counts <- Counted
KeepsPromise == Promise!Init /\ [][Promise!Next \/ mixed']_(Promise!vars)
=============================================================================
