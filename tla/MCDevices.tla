----------------------------- MODULE MCDevices -----------------------------
(***************************************************************************)
(* Devices with two processes, two names and one address.                  *)
(***************************************************************************)
EXTENDS Devices, TLC

CONSTANTS p1, p2, a, b, ip1

TwoProcs == {p1, p2}
TwoNames == {a, b}
OneIP == {ip1}
\* The properties say nothing of what follows a race for the only address.
Unraced == raced = {}
Symmetry == Permutations(TwoProcs) \cup Permutations(TwoNames)
=============================================================================
