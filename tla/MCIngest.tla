------------------------------ MODULE MCIngest ------------------------------
(***************************************************************************)
(* Ingest with one or two kinds of queries and a handful of lines.         *)
(***************************************************************************)
EXTENDS Ingest, TLC

CONSTANTS k1, k2

OneKey == {k1}
TwoKeys == {k1, k2}
KeySymmetry == Permutations(TwoKeys)

\* The properties say nothing of what follows a disorderly rotation.
Orderly == orderly
=============================================================================
