---------------------------- MODULE MCBackground ----------------------------
(***************************************************************************)
(* The background work in small instances: the outbox with the failures    *)
(* that leases are made for, the same with stalls and Purge as well, one   *)
(* process that runs parallel passes of a scan cycle, two processes whose  *)
(* passes overlap, one whose inputs change, and a watch set.               *)
(***************************************************************************)
EXTENDS Background, TLC

MCBatch == [a1 |-> {"m1"}, a2 |-> {"m2"}]
MCKeyOf == [m1 |-> "k", m2 |-> "k"]
MCLockOf == [k |-> 1, l |-> 2]

\* Four items of two keys, a page with two of one key and one of the other; passes that
\* overlap; and inputs that change between, and during, passes of several pages.
MCCycles ==
    [pages |-> [proc |-> {"p"}, parallel |-> {"p"}, last |-> 4, keyOf |-> <<"a", "b", "a", "b">>,
                workers |-> 2, pageSize |-> 3, maxPages |-> 2, maxVersion |-> 2, maxSource |-> 1],
     passes |-> [proc |-> Worker, parallel |-> {}, last |-> 2, keyOf |-> <<"a", "b">>,
                 workers |-> 1, pageSize |-> 1, maxPages |-> 1, maxVersion |-> 2, maxSource |-> 1],
     inputs |-> [proc |-> {"p"}, parallel |-> {}, last |-> 2, keyOf |-> <<"a", "b">>,
                 workers |-> 1, pageSize |-> 1, maxPages |-> 2, maxVersion |-> 3, maxSource |-> 2]]

\* Two collections that together have one object too many for the limit at times.
MCInitial == [x |-> {}, y |-> {"o"}]
MCAssignment == {[x |-> 1, y |-> 1], [x |-> 2], <<>>}

Symmetry == Permutations(Worker)

\* TLC evaluates the constant definitions of a module once, with the constants of the
\* root, unless the module is an instance; those of Outbox differ between its two uses.
Leases == INSTANCE Outbox
=============================================================================
