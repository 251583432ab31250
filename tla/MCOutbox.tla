------------------------------ MODULE MCOutbox ------------------------------
(***************************************************************************)
(* Small instances of Outbox: two transactions that write to the same two  *)
(* keys. Times are in the unit of a database call.                         *)
(***************************************************************************)
EXTENDS Outbox, TLC

MCBatch == [a1 |-> {"m1", "n1"}, a2 |-> {"m2", "n2"}]
MCKeyOf == [m1 |-> "k", m2 |-> "k", n1 |-> "l", n2 |-> "l"]

\* Three messages, and two.
MCBatch3 == [a1 |-> {"m1", "n1"}, a2 |-> {"m2"}]
MCKeyOf3 == [m1 |-> "k", m2 |-> "k", n1 |-> "l"]
MCBatch2 == [a1 |-> {"m1"}, a2 |-> {"m2"}]
MCKeyOf2 == [m1 |-> "k", m2 |-> "k"]

MCLockOf == [k |-> 1, l |-> 2]

Symmetry == Permutations(Worker)
=============================================================================
