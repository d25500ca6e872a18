------------------------------ MODULE MCFilter ------------------------------
(***************************************************************************)
(* Three names, one below another; a list of domains nobody has downloaded *)
(* yet, that then loses a third of its names, and a list of hosts to       *)
(* subscribe to; a manual block and an exception from it.                  *)
(***************************************************************************)
EXTENDS Filter, TLC

Own(n) == [name |-> n, wild |-> FALSE]
MCUnder == [n \in Names |-> IF n = "ads" THEN {"x.ads"} ELSE {}]
MCFormat == "d" :> "domains" @@ "h" :> "hosts"
MCDownloads ==
  "d" :> <<[names |-> {Own("ads"), Own("b"), Own("x.ads")}, lines |-> 3],
           [names |-> {Own("ads"), Own("b")}, lines |-> 2]>> @@
  "h" :> <<[names |-> {Own("x.ads")}, lines |-> 2],
           [names |-> {Own("b")}, lines |-> 1]>>
MCRules == {<<"block", Own("ads")>>, <<"block", Wild(Own("ads"))>>,
            <<"allow", Own("x.ads")>>}
=============================================================================
