------------------------------ MODULE DirtyKeys ------------------------------
(***************************************************************************)
(* What a keyed controller promises: a key that was added stays dirty until*)
(* an action on it starts, at most one action runs on a key, and a failed  *)
(* or interrupted action leaves its key dirty.                             *)
(***************************************************************************)
CONSTANT Key

VARIABLES
    dirty,   \* keys that an action must still start on
    running  \* keys that an action runs on

Init == dirty = {} /\ running = {}

Add(k) == dirty' = dirty \cup {k} /\ UNCHANGED running

Start(k) ==
    /\ k \in dirty \ running
    /\ dirty' = dirty \ {k}
    /\ running' = running \cup {k}

\* The action on k has a confirmed result.
Succeed(k) ==
    /\ k \in running
    /\ running' = running \ {k}
    /\ dirty' \in {dirty, dirty \cup {k}}

\* Actions fail, or are interrupted together.
Fail(ks) ==
    /\ ks \subseteq running
    /\ running' = running \ ks
    /\ dirty' = dirty \cup ks

Next ==
    \/ \E k \in Key : Add(k) \/ Start(k) \/ Succeed(k)
    \/ \E ks \in SUBSET Key : Fail(ks)

Spec == Init /\ [][Next]_<<dirty, running>>
=============================================================================
