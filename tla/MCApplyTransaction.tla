------------------------- MODULE MCApplyTransaction -------------------------
(***************************************************************************)
(* Small instances of ApplyTransaction. From source s1 the generators give *)
(* file a only; from s2 they change a and add b, and need a module. For    *)
(* each file there is a third content that neither source gives it.        *)
(***************************************************************************)
EXTENDS ApplyTransaction, TLC

MCGenerate ==
    [s1 |-> [a |-> "x", b |-> Absent],
     s2 |-> [a |-> "y", b |-> "x"]]

MCRequired == [s1 |-> {}, s2 |-> {"m"}]

Symmetry == Permutations(Proc)

=============================================================================
