---------------------------- MODULE ProjectFiles ----------------------------
(***************************************************************************)
(* The files of a STEGO project and the pure part of plan and apply: what  *)
(* a plan watches, what it changes, the saved plan and the journal         *)
(* (internal/compiler: reconciler.go, saved_plan.go, transaction.go).      *)
(***************************************************************************)
EXTENDS Naturals, FiniteSets

CONSTANTS
    Out,          \* paths below the output folder
    Source,       \* contents of service.yaml, .stego/config.yaml and the registry
    Content,      \* contents of a generated file, those made by hand included
    Requirement,  \* module requirements that go.mod can list
    Generate,     \* Generate[s][f]: what the generators give path f from source s
    Required,     \* Required[s]: the requirements of the components of source s
    Absent        \* a file that does not exist

Service == "service.yaml"
Module == "go.mod"
Record == ".stego/state.yaml"
Path == Out \cup {Module, Record}
Nothing == [f \in Path |-> Absent]

OutVal == {Absent} \cup Content
ModVal == {Absent} \cup SUBSET Requirement
\* AppliedState: the declaration and go.mod of the input manifest, and the
\* hash of each generated file (Absent: not a file of the record).
StateRecord == [source : Source, module : ModVal, files : [Out -> OutVal]]
RecVal == {Absent} \cup StateRecord

ASSUME ProjectAssumption ==
    /\ Generate \in [Source -> [Out -> OutVal]]
    /\ Required \in [Source -> SUBSET Requirement]
    /\ Absent \notin Content
    /\ \A mod \in SUBSET Requirement : mod # Absent
    /\ \A rec \in StateRecord : rec # Absent
    /\ {Service, Module, Record} \cap Out = {}

-----------------------------------------------------------------------------
(***************************************************************************)
(* Plans and journals.                                                     *)
(***************************************************************************)

\* Mutant: an existing go.mod is taken as it is.
MergeKeeps(s, mod) == IF mod = Absent THEN Required[s] ELSE mod

\* mergeCapturedModule: the requirements of the components are added to the
\* application's go.mod, which keeps everything else.
Merge(s, mod) == IF mod = Absent THEN Required[s] ELSE mod \cup Required[s]

Files(rec) == IF rec = Absent THEN [f \in Out |-> Absent] ELSE rec.files

\* Mutant: files of the record that are no longer generated are forgotten.
WatchGenerated(s, rec) == {f \in Out : Generate[s][f] # Absent} \cup {Module, Record}

\* The files whose snapshots a plan of source s against record rec holds:
\* what the generators give, the orphans of the record, go.mod and the record.
Watch(s, rec) ==
    {f \in Out : Generate[s][f] # Absent \/ Files(rec)[f] # Absent}
        \cup {Module, Record}

\* Mutant: the input manifest names go.mod as it was read.
NewStateAsRead(s, snap) == [source |-> s, module |-> snap[Module], files |-> Generate[s]]

\* computePlan: the state to save. A go.mod that the run rewrites is named in
\* the input manifest as the run leaves it.
NewState(s, snap) ==
    [source |-> s, module |-> Merge(s, snap[Module]), files |-> Generate[s]]

\* What the project holds once the plan is carried out.
Desired(s, snap) ==
    [f \in Path |-> IF f = Record THEN NewState(s, snap)
                    ELSE IF f = Module THEN Merge(s, snap[Module])
                    ELSE Generate[s][f]]

\* The planned files whose action is not "unchanged". An orphan of the record
\* is planned for deletion even when it is already gone.
OutputChanges(s, snap) ==
    {f \in Watch(s, snap[Record]) \ {Record} :
        \/ Desired(s, snap)[f] # snap[f]
        \/ f \in Out /\ Generate[s][f] = Absent}

HasChanges(s, snap) ==
    OutputChanges(s, snap) # {} \/ snap[Record] # NewState(s, snap)

\* Mutant: a generated file that was edited is replaced.
HandEditedNone(snap) == {}

\* The generated files of the record that are missing or do not match it.
HandEdited(snap) ==
    {f \in Out : Files(snap[Record])[f] # Absent /\ snap[f] # Files(snap[Record])[f]}

FileAction(old, new) ==
    IF new = Absent THEN "delete" ELSE IF old = Absent THEN "generate" ELSE "update"

\* newSavedPlan: the digests a plan was made from and the changes it makes.
SavedPlan(s, snap) ==
    [base |-> snap[Record], source |-> s, record |-> NewState(s, snap),
     files |-> {<<f, FileAction(snap[f], Desired(s, snap)[f]), Desired(s, snap)[f]>> :
                    f \in OutputChanges(s, snap)}]

\* prepareTransaction: the journal of a plan. `before` holds the expected
\* snapshots; `after` the final ones, the same as `before` where nothing is to
\* be written. Paths outside `watch` are not in the journal.
Journal(s, snap, goal) ==
    LET watch == Watch(s, snap[Record]) IN
    [watch |-> watch,
     before |-> [f \in Path |-> IF f \in watch THEN snap[f] ELSE Absent],
     after |-> [f \in Path |-> IF f \in watch THEN goal[f] ELSE Absent]]

\* No journal.
NoTx == [watch |-> {}, before |-> Nothing, after |-> Nothing]

\* The operations of a journal; the record is always one, and the last.
Operations(tx) == {f \in tx.watch : tx.after[f] # tx.before[f]} \cup {Record}

\* Mutant: a file that is already written counts as a conflict.
ConflictsUnlessBefore(tx, files) == {f \in tx.watch : files[f] # tx.before[f]}

\* executeTransaction starts only when every file is as it was or as it will be.
Conflicts(tx, files) ==
    {f \in tx.watch : files[f] \notin {tx.before[f], tx.after[f]}}

\* Contents for every path.
IsTree(g) ==
    /\ g = [f \in Path |-> g[f]]
    /\ \A f \in Out : g[f] \in OutVal
    /\ g[Module] \in ModVal
    /\ g[Record] \in RecVal

\* A journal that validateTransaction accepts: it saves a record, never deletes
\* go.mod, and its record names exactly the output it leaves behind.
IsTx(tx) ==
    /\ tx = [watch |-> tx.watch, before |-> tx.before, after |-> tx.after]
    /\ {Module, Record} \subseteq tx.watch /\ tx.watch \subseteq Path
    /\ IsTree(tx.before) /\ IsTree(tx.after)
    /\ tx.after[Record] # Absent /\ tx.after[Module] # Absent
    /\ \A f \in Out :
          /\ tx.after[f] = tx.after[Record].files[f]
          /\ f \notin tx.watch => tx.after[f] = Absent /\ Files(tx.before[Record])[f] = Absent
=============================================================================
