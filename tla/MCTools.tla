------------------------------ MODULE MCTools -------------------------------
(***************************************************************************)
(* The tools around the compiler in small instances.                       *)
(***************************************************************************)
EXTENDS Tools, MCDigestLifecycle

\* main starts at c0. c1 adds b; c2 drops a without a word; c3 retires a to b; c4
\* is c1 with other workflows and a code fault of c0.
MCCommit == {"c0", "c1", "c2", "c3", "c4"}
Full == {"designed", "built", "proved"}
MCShares ==
    [c0 |-> [a |-> Full], c1 |-> [a |-> Full, b |-> Full], c2 |-> [b |-> Full],
     c3 |-> [b |-> Full], c4 |-> [a |-> Full, b |-> {"designed"}]]
MCRetirements ==
    [c \in MCCommit |-> IF c = "c3" THEN {[retired |-> "a", successors |-> {"b"}]} ELSE {}]
MCAutomated == [c0 |-> {"t"}, c1 |-> {"t", "u"}, c2 |-> {"t"}, c3 |-> {"u"}, c4 |-> {"t"}]
MCManual == [c0 |-> {}, c1 |-> {}, c2 |-> {"u"}, c3 |-> {"t"}, c4 |-> {"u"}]
MCFaults == [c0 |-> {"f"}, c1 |-> {}, c2 |-> {}, c3 |-> {}, c4 |-> {"f"}]
MCWorkflows == [c0 |-> 1, c1 |-> 1, c2 |-> 1, c3 |-> 1, c4 |-> 2]
MCRef == [c0 |-> "pull0", c1 |-> "pull1", c2 |-> "pull2", c3 |-> "pull3", c4 |-> "pull4"]
MCSuiteOutput ==
    {[t |-> {"passed"}, u |-> {"passed"}], [t |-> {"passed", "failed"}, u |-> {}]}
MCOthers ==
    {[trusted |-> FALSE, ref |-> "main", source |-> "c1"],
     [trusted |-> TRUE, ref |-> "main", source |-> "c0"],
     [trusted |-> TRUE, ref |-> "pull1", source |-> "c0"]}
=============================================================================
