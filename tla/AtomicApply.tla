---------------------------- MODULE AtomicApply ----------------------------
(***************************************************************************)
(* What `stego apply` promises: the record and the generated files change  *)
(* as one unit. A commit replaces the whole output by what one source      *)
(* generates, together with the record of it; nothing else changes the     *)
(* record, and only the author changes a file alone.                       *)
(***************************************************************************)
EXTENDS ProjectFiles

VARIABLES
    files,   \* the files of the project
    edited   \* the files that the author changed since STEGO wrote them

Init == files = [f \in Path |-> Absent] /\ edited = {}

\* An apply, or a `stego deps`, which leaves other requirements in go.mod than
\* its record names.
Commit(s, mod, recorded) ==
    /\ Required[s] \subseteq mod \cap recorded
    /\ files' = [f \in Path |->
          IF f = Record THEN [source |-> s, module |-> recorded, files |-> Generate[s]]
          ELSE IF f = Module THEN mod
          ELSE IF Generate[s][f] # Absent \/ Files(files[Record])[f] # Absent
               THEN Generate[s][f]
          ELSE files[f]]
    /\ edited' = edited

\* The author changes files, never the record.
Edit ==
    /\ edited \subseteq edited' /\ edited' \subseteq Path
    /\ \A f \in Path \ edited' : files'[f] = files[f]
    /\ files'[Record] = files[Record]

\* An edited file is as recorded again.
Settle ==
    /\ files' = files /\ edited' \subseteq edited
    /\ \A f \in (edited \ edited') \cap Out : files[f] = Files(files[Record])[f]

Next ==
    \/ \E s \in Source, mod, recorded \in SUBSET Requirement : Commit(s, mod, recorded)
    \/ Edit
    \/ Settle

Spec == Init /\ [][Next]_<<files, edited>>

\* Every file that nobody edited is what the record says.
Agreement == \A f \in Out \ edited : files[f] = Files(files[Record])[f]
=============================================================================
