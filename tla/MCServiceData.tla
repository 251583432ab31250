---------------------------- MODULE MCServiceData ----------------------------
(***************************************************************************)
(* Two transactions of the store, or two requests to the API.              *)
(***************************************************************************)
EXTENDS ServiceData, TLC

\* Two organizations and a user of the first.
MCSeed ==
    LET absent == [kind |-> "none", live |-> FALSE, name |-> "", org |-> 0, body |-> 0, gen |-> 0]
    IN  [i \in 1 .. 5 |->
           CASE i = 1 -> [absent EXCEPT !.kind = "Organization", !.live = TRUE, !.name = "n1"]
             [] i = 2 -> [absent EXCEPT !.kind = "Organization", !.live = TRUE, !.name = "n2"]
             [] i = 3 -> [absent EXCEPT !.kind = "User", !.live = TRUE, !.name = "n1", !.org = 1]
             [] OTHER -> absent]

Symmetry == Permutations(Tx) \cup Permutations(Resource)
=============================================================================
