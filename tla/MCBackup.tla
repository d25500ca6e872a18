------------------------------ MODULE MCBackup ------------------------------
(***************************************************************************)
(* config.yaml and a zone file with two contents each, and two archives    *)
(* kept; the contents have no meaning of their own and can be exchanged.   *)
(***************************************************************************)
EXTENDS Backup, TLC

CONSTANTS config, zone, c1, c2
Alike == Permutations({c1, c2})
=============================================================================
