------------------------------ MODULE MCStats ------------------------------
(***************************************************************************)
(* StatsStore with two names, days of two hours of two ticks, and three    *)
(* retentions, of which one keeps hours as long as days.                   *)
(***************************************************************************)
EXTENDS StatsStore, TLC

CONSTANTS c1, n1, n2

OneClient == {c1}
TwoNames == {n1, n2}
Short == [events |-> 4, hourly |-> 4, daily |-> 8]
Long == [events |-> 4, hourly |-> 8, daily |-> 12]
Equal == [events |-> 4, hourly |-> 8, daily |-> 8]
ThreeRetentions == {Short, Long, Equal}

\* What an ingest leaves behind that was mixed with a purge is not followed.
Unmixed == ~mixed

SomeLateness == {0, 6}
NameSymmetry == Permutations(TwoNames)
=============================================================================
