------------------------ MODULE MCDigestLifecycle --------------------------
EXTENDS DigestLifecycle, TLC

\* Two digests of one component, and one of the component that took over its port.
MCComponentOf == [d1 |-> "old", d2 |-> "old", e1 |-> "new"]
MCTookOver == {<<"new", "old">>}
MCWindow == [alpha |-> 0, beta |-> 1, ga |-> 2]

\* The registry states no stage and no release yet.
MCStage == [old |-> Unknown, new |-> Unknown]
MCReleased == [d1 |-> Unknown, d2 |-> Unknown, e1 |-> Unknown]

Super(to, day) == [kind |-> "supersession", subject |-> "d1", successor |-> to,
                   failsAfter |-> day, declaration |-> FALSE]
With(s, day) == [kind |-> "withdrawal", subject |-> s, successor |-> Nothing,
                 failsAfter |-> day, declaration |-> FALSE]

\* Withdrawals of two digests, on the day and later, and a supersession that the
\* rules refuse.
MCRequests == {Super("d2", 1), With("d1", 0), With("d1", 1), With("d2", 0)}
MCWithdrawals == {With("d1", 0), With("d1", 1)}

\* The folder starts empty, or with a supersession of d1 that was written by hand.
MCEmpty == {[n \in Number |-> Nothing]}
MCEarlier ==
    MCEmpty \cup {[n \in Number |-> IF n = 1 THEN Advisory(Super("d2", 0)) ELSE Nothing]}

Symmetry == Permutations(Proc)
=============================================================================
