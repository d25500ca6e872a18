---------------------------- MODULE MCActivation ----------------------------
(***************************************************************************)
(* Activation on a small instance: settings that differ in whether         *)
(* unbound-checkconf and the daemon accept them and in what they change.   *)
(***************************************************************************)
EXTENDS Activation

CONSTANTS plain, tls, bad, dead

AllOptions == {plain, tls, bad, dead}
FewOptions == {plain, bad, dead}
RejectedOptions == {bad}
UnstartableOptions == {dead}

\* tls switches on tls-cert-bundle, which unbound reads when it starts.
StartupOf == [o \in AllOptions |-> IF o = tls THEN "bundle" ELSE "plain"]
=============================================================================
