-------------------------- MODULE ApplyTransaction --------------------------
(***************************************************************************)
(* The project folder that `stego plan`, `stego apply`, `stego deps` and   *)
(* `stego recover` share (internal/compiler: reconciler.go, transaction.go,*)
(* snapshot.go, saved_plan.go, lock.go, filesystem.go).                    *)
(*                                                                         *)
(* An apply computes a plan from the sources, checks it against snapshots  *)
(* of every file it read, takes the project lock, saves a journal          *)
(* (.stego/transaction.yaml), writes the files of the journal one by one   *)
(* with the record (.stego/state.yaml) last, and removes the journal.      *)
(* `stego recover` carries out a journal that an earlier process left.     *)
(* Processes interleave, can be killed or fail at every step, the machine  *)
(* can lose the directory entries no fsync has made durable, and an author *)
(* edits files at any moment.                                              *)
(***************************************************************************)
EXTENDS ProjectFiles

CONSTANTS
    Proc,         \* STEGO processes working on one project
    NoPlan,       \* no saved plan
    NoProc,       \* nobody holds .stego/apply.lock
    Commands,     \* the commands that the processes of an instance run
    Failures,     \* subset of {"kill", "power"}
    Edits,        \* the files that the author edits: Service, Module, outputs
    MaxDisturb    \* bound on edits, kills and power failures in one behaviour

ASSUME ProcessAssumption ==
    /\ NoProc \notin Proc
    /\ Commands \subseteq {"plan", "apply", "apply-saved", "deps", "recover"}
    /\ Failures \subseteq {"kill", "power"}
    /\ Edits \subseteq Out \cup {Service, Module}
    /\ MaxDisturb \in Nat

-----------------------------------------------------------------------------
VARIABLES
    source,         \* the sources as they are now
    disk,           \* the files as every process sees them
    durable,        \* the files as they are after a power failure
    journal,        \* .stego/transaction.yaml, or NoTx
    journalDurable, \* the journal a power failure leaves
    saved,          \* .stego/plan.yaml: a saved plan, or NoPlan
    savedDurable,   \* the saved plan a power failure leaves
    lock,           \* the holder of .stego/apply.lock
    pc,             \* where each process is
    job,            \* what each process has read and computed
    current,        \* executeTransaction: the files as its check found them
    done,           \* executeTransaction: the operations carried out
    late,           \* history: paths edited since the last check of the lock's holder
    edited,         \* history: paths edited since STEGO last wrote them
    consent,        \* history: the journal's apply had --replace-hand-edits
    disturbed       \* edits, kills and power failures so far

diskVars == <<disk, durable>>
journalVars == <<journal, journalDurable>>
savedVars == <<saved, savedDurable>>
execVars == <<current, done>>
historyVars == <<late, edited, consent>>
vars == <<source, disk, durable, journal, journalDurable, saved, savedDurable,
          lock, pc, job, current, done, late, edited, consent, disturbed>>

NewJob(cmd, replace) ==
    [cmd |-> cmd, replace |-> replace, source |-> Absent, snap |-> Nothing,
     todo |-> {}, saved |-> NoPlan, tx |-> NoTx]
NoJob == NewJob("none", FALSE)

Init ==
    /\ source \in Source
    /\ disk = Nothing /\ durable = Nothing
    /\ journal = NoTx /\ journalDurable = NoTx
    /\ saved = NoPlan /\ savedDurable = NoPlan
    /\ lock = NoProc
    /\ pc = [p \in Proc |-> "idle"] /\ job = [p \in Proc |-> NoJob]
    /\ current = Nothing /\ done = {}
    /\ late = {} /\ edited = {} /\ consent = FALSE
    /\ disturbed = 0

Goto(p, label) == pc' = [pc EXCEPT ![p] = label]

\* A command returns, with or without an error: its deferred calls release the
\* lock if the process holds it.
Return(p) ==
    /\ pc' = [pc EXCEPT ![p] = "idle"]
    /\ job' = [job EXCEPT ![p] = NoJob]
    /\ lock' = IF lock = p THEN NoProc ELSE lock

\* Mutant: a pending apply goes unnoticed.
PendingNever == FALSE

\* pendingTransaction: an apply was not completed.
Pending == journal # NoTx

\* Mutant: of the files, only the record is compared again.
FilesHoldRecord(p) == disk[Record] = job[p].snap[Record]

\* verifySnapshots(plan.snapshots), of the files: none that the plan read has changed.
FilesHold(p) == \A f \in Watch(job[p].source, job[p].snap[Record]) : disk[f] = job[p].snap[f]

\* With the declaration, and plan.verifyRegistry: nothing that the plan read has
\* changed.
SnapshotsHold(p) == source = job[p].source /\ FilesHold(p)

-----------------------------------------------------------------------------
(***************************************************************************)
(* Reconcile: make a plan.                                                 *)
(***************************************************************************)

\* checkPendingProject refuses while a journal is pending.
Begin(p, cmd, replace) ==
    /\ pc[p] = "idle" /\ cmd \in Commands \ {"recover"}
    /\ replace => cmd \in {"apply", "apply-saved"}
    /\ ~Pending
    /\ Goto(p, "begun")
    /\ job' = [job EXCEPT ![p] = NewJob(cmd, replace)]
    /\ UNCHANGED <<source, diskVars, journalVars, savedVars, lock, execVars, historyVars, disturbed>>

\* The declaration, the options and the registry are loaded.
Load(p) ==
    /\ pc[p] = "begun"
    /\ job' = [job EXCEPT ![p].source = source]
    /\ Goto(p, "load")
    /\ UNCHANGED <<source, diskVars, journalVars, savedVars, lock, execVars, historyVars, disturbed>>

\* captureProjectInputs: service.yaml must still be what was loaded; go.mod
\* and the record are read.
Capture(p) ==
    /\ pc[p] = "load"
    /\ \/ /\ source = job[p].source
          /\ Goto(p, "snapshot")
          /\ job' = [job EXCEPT ![p].snap[Module] = disk[Module],
                                ![p].snap[Record] = disk[Record],
                                ![p].todo = Watch(source, disk[Record]) \cap Out]
          /\ UNCHANGED lock
       \/ source # job[p].source /\ Return(p)
    /\ UNCHANGED <<source, diskVars, journalVars, savedVars, execVars, historyVars, disturbed>>

\* computePlan reads the generated files and the orphans, one after the other.
ReadOutput(p, f) ==
    /\ pc[p] = "snapshot" /\ f \in job[p].todo
    /\ job' = [job EXCEPT ![p].snap[f] = disk[f], ![p].todo = @ \ {f}]
    /\ UNCHANGED <<source, diskVars, journalVars, savedVars, lock, pc, execVars, historyVars, disturbed>>

\* bindPlanInputs and verifyRegistry: the inputs did not change meanwhile.
Bind(p) ==
    /\ pc[p] = "snapshot" /\ job[p].todo = {}
    /\ \/ /\ source = job[p].source
          /\ \A f \in {Module, Record} : disk[f] = job[p].snap[f]
          /\ Goto(p, "planned") /\ UNCHANGED <<job, lock>>
       \/ /\ \/ source # job[p].source
             \/ \E f \in {Module, Record} : disk[f] # job[p].snap[f]
          /\ Return(p)
    /\ UNCHANGED <<source, diskVars, journalVars, savedVars, execVars, historyVars, disturbed>>

-----------------------------------------------------------------------------
(***************************************************************************)
(* The commands, up to the lock.                                           *)
(***************************************************************************)

\* `stego plan`: SavePlan refuses while a journal is pending, and takes no lock.
SavePlan(p) ==
    /\ pc[p] = "planned" /\ job[p].cmd = "plan"
    /\ IF ~Pending
       THEN saved' = SavedPlan(job[p].source, job[p].snap)
       ELSE UNCHANGED saved
    /\ Return(p)
    /\ UNCHANGED <<source, savedDurable, diskVars, journalVars, execVars, historyVars, disturbed>>

\* runApply before Apply: --saved-plan loads .stego/plan.yaml; without it a
\* plan that changes nothing ends the command.
ChoosePlan(p) ==
    /\ pc[p] = "planned" /\ job[p].cmd \in {"apply", "apply-saved"}
    /\ IF IF job[p].cmd = "apply" THEN HasChanges(job[p].source, job[p].snap)
                                  ELSE saved # NoPlan
       THEN /\ Goto(p, "chosen") /\ UNCHANGED lock
            /\ job' = [job EXCEPT ![p].saved = IF job[p].cmd = "apply" THEN NoPlan ELSE saved]
       ELSE Return(p)
    /\ UNCHANGED <<source, diskVars, journalVars, savedVars, execVars, historyVars, disturbed>>

\* applyWithFault up to lockProject: no pending journal, unchanged snapshots,
\* and no hand edit that the author did not release. A source that changed is seen
\* here when the declaration did, and not when only the registry did.
CheckPlan(p) ==
    /\ pc[p] = "chosen"
    /\ \/ /\ ~Pending /\ FilesHold(p)
          /\ HandEdited(job[p].snap) = {} \/ job[p].replace
          /\ Goto(p, "lock") /\ UNCHANGED <<job, lock>>
       \/ /\ \/ Pending
             \/ ~SnapshotsHold(p)
             \/ HandEdited(job[p].snap) # {} /\ ~job[p].replace
          /\ Return(p)
    /\ UNCHANGED <<source, diskVars, journalVars, savedVars, execVars, historyVars, disturbed>>

\* commitResolvedModules refuses when the generated code is not current.
CheckCurrent(p) ==
    /\ pc[p] = "planned" /\ job[p].cmd = "deps"
    /\ IF OutputChanges(job[p].source, job[p].snap) = {}
       THEN Goto(p, "lock") /\ UNCHANGED <<job, lock>>
       ELSE Return(p)
    /\ UNCHANGED <<source, diskVars, journalVars, savedVars, execVars, historyVars, disturbed>>

\* Recover does nothing unless a journal is pending.
BeginRecover(p) ==
    /\ pc[p] = "idle" /\ "recover" \in Commands /\ Pending
    /\ Goto(p, "lock")
    /\ job' = [job EXCEPT ![p] = NewJob("recover", FALSE)]
    /\ UNCHANGED <<source, diskVars, journalVars, savedVars, lock, execVars, historyVars, disturbed>>

\* Mutant: a lock that another process holds is not noticed.
LockShared(p) ==
    /\ pc[p] = "lock"
    /\ lock' = p
    /\ Goto(p, IF job[p].cmd = "recover" THEN "read" ELSE "locked")
    /\ UNCHANGED <<source, diskVars, journalVars, savedVars, job, execVars, historyVars, disturbed>>

\* lockProject: flock without waiting.
Lock(p) ==
    /\ pc[p] = "lock"
    /\ IF lock = NoProc
       THEN /\ lock' = p /\ UNCHANGED job
            /\ Goto(p, IF job[p].cmd = "recover" THEN "read" ELSE "locked")
       ELSE Return(p)
    /\ UNCHANGED <<source, diskVars, journalVars, savedVars, execVars, historyVars, disturbed>>

-----------------------------------------------------------------------------
(***************************************************************************)
(* Under the lock: the checks again, then the journal.                     *)
(***************************************************************************)

\* commitTransaction: a plan that changes nothing has no journal.
Prepare(p, tx) ==
    IF tx.before = tx.after
    THEN IF job[p].cmd = "deps" THEN Return(p)
                                ELSE Goto(p, "unsave") /\ UNCHANGED <<job, lock>>
    ELSE /\ Goto(p, "prepare") /\ UNCHANGED lock
         /\ job' = [job EXCEPT ![p].tx = tx]

\* A saved plan must be what a plan made now gives.
StillApplies(p) == job[p].saved \in {NoPlan, SavedPlan(job[p].source, job[p].snap)}

\* Another apply can finish between the first check and the lock.
VerifyLocked(p) ==
    /\ pc[p] = "locked"
    /\ IF ~Pending /\ SnapshotsHold(p) /\ StillApplies(p)
       THEN /\ late' = {}
            /\ IF job[p].cmd = "deps"
               THEN Goto(p, "resolve") /\ UNCHANGED <<job, lock>>
               ELSE Prepare(p, Journal(job[p].source, job[p].snap,
                                       Desired(job[p].source, job[p].snap)))
       ELSE Return(p) /\ UNCHANGED late
    /\ UNCHANGED <<source, diskVars, journalVars, savedVars, execVars, edited, consent, disturbed>>

\* commitResolvedModules: the module tools give requirements `mod`, which must
\* keep those of the components; then every snapshot is checked again.
Resolve(p, mod) ==
    /\ pc[p] = "resolve"
    /\ IF Required[job[p].source] \subseteq mod /\ SnapshotsHold(p)
       THEN /\ late' = {}
            /\ Prepare(p, Journal(job[p].source, job[p].snap,
                   [Desired(job[p].source, job[p].snap) EXCEPT ![Module] = mod]))
       ELSE Return(p) /\ UNCHANGED late
    /\ UNCHANGED <<source, diskVars, journalVars, savedVars, execVars, edited, consent, disturbed>>

\* The journal becomes visible by a rename ...
WriteJournal(p) ==
    /\ pc[p] = "prepare"
    /\ journal' = job[p].tx
    /\ consent' = job[p].replace
    /\ Goto(p, "journaled")
    /\ UNCHANGED <<source, diskVars, journalDurable, savedVars, lock, job, execVars, late, edited, disturbed>>

\* Mutant: the folder of the journal is not synced.
SyncJournalSkipped(p) ==
    /\ pc[p] = "journaled"
    /\ Goto(p, "check")
    /\ UNCHANGED <<source, diskVars, journalVars, savedVars, lock, job, execVars, historyVars, disturbed>>

\* ... and durable when its folders are synced. The saved plan is in the same folder.
SyncJournal(p) ==
    /\ pc[p] = "journaled"
    /\ journalDurable' = journal /\ savedDurable' = saved
    /\ Goto(p, "check")
    /\ UNCHANGED <<source, diskVars, journal, saved, lock, job, execVars, historyVars, disturbed>>

\* Recover reads the journal again under the lock.
ReadJournal(p) ==
    /\ pc[p] = "read"
    /\ IF journal = NoTx
       THEN Return(p)
       ELSE /\ Goto(p, "check") /\ UNCHANGED lock
            /\ job' = [job EXCEPT ![p].tx = journal]
    /\ UNCHANGED <<source, diskVars, journalVars, savedVars, execVars, historyVars, disturbed>>

-----------------------------------------------------------------------------
(***************************************************************************)
(* executeTransaction.                                                     *)
(***************************************************************************)

\* A conflicting file stops the execution before any write.
CheckExpected(p) ==
    /\ pc[p] = "check"
    /\ IF Conflicts(job[p].tx, disk) = {}
       THEN /\ current' = disk /\ done' = {} /\ late' = {}
            /\ Goto(p, "write") /\ UNCHANGED <<job, lock>>
       ELSE Return(p) /\ UNCHANGED <<execVars, late>>
    /\ UNCHANGED <<source, diskVars, journalVars, savedVars, edited, consent, disturbed>>

\* One operation: the file is replaced by a rename, or removed, unless the
\* check found it in its final state. The record comes last.
WriteFile(p, f) ==
    /\ pc[p] = "write" /\ f \in Operations(job[p].tx) \ done
    /\ f = Record => Operations(job[p].tx) \subseteq done \cup {Record}
    /\ IF current[f] # job[p].tx.after[f]
       THEN /\ disk' = [disk EXCEPT ![f] = job[p].tx.after[f]]
            /\ edited' = edited \ {f}
       ELSE UNCHANGED <<disk, edited>>
    /\ done' = done \cup {f}
    /\ job' = [job EXCEPT ![p].todo = {f}]
    /\ Goto(p, "sync")
    /\ UNCHANGED <<source, durable, journalVars, savedVars, lock, current, late, consent, disturbed>>

\* syncParents after each operation, written or not. The folder of the record holds
\* the journal and the saved plan as well.
SyncFile(p) ==
    /\ pc[p] = "sync"
    /\ durable' = [f \in Path |-> IF f \in job[p].todo THEN disk[f] ELSE durable[f]]
    /\ IF Record \in job[p].todo
       THEN journalDurable' = journal /\ savedDurable' = saved
       ELSE UNCHANGED <<journalDurable, savedDurable>>
    /\ job' = [job EXCEPT ![p].todo = {}]
    /\ Goto(p, "write")
    /\ UNCHANGED <<source, disk, journal, saved, lock, execVars, historyVars, disturbed>>

\* The final state is verified before the journal goes.
VerifyFinal(p) ==
    /\ pc[p] = "write" /\ Operations(job[p].tx) \subseteq done
    /\ current' = Nothing /\ done' = {}
    /\ IF \A f \in job[p].tx.watch : disk[f] = job[p].tx.after[f]
       THEN Goto(p, "complete") /\ UNCHANGED <<job, lock>>
       ELSE Return(p)
    /\ UNCHANGED <<source, diskVars, journalVars, savedVars, historyVars, disturbed>>

RemoveJournal(p) ==
    /\ pc[p] = "complete"
    /\ journal' = NoTx
    /\ Goto(p, "removed")
    /\ UNCHANGED <<source, diskVars, journalDurable, savedVars, lock, job, execVars, historyVars, disturbed>>

\* Recover and deps end here; apply still removes the saved plan.
SyncRemoval(p) ==
    /\ pc[p] = "removed"
    /\ journalDurable' = journal /\ savedDurable' = saved
    /\ IF job[p].cmd \in {"apply", "apply-saved"}
       THEN Goto(p, "unsave") /\ UNCHANGED <<job, lock>>
       ELSE Return(p)
    /\ UNCHANGED <<source, diskVars, journal, saved, execVars, historyVars, disturbed>>

\* No fsync of its folder follows: a power failure can bring the plan back.
RemoveSavedPlan(p) ==
    /\ pc[p] = "unsave"
    /\ saved' = NoPlan
    /\ Return(p)
    /\ UNCHANGED <<source, diskVars, journalVars, savedDurable, execVars, historyVars, disturbed>>

-----------------------------------------------------------------------------
(***************************************************************************)
(* The surroundings: stopped processes, power failures, the author.        *)
(***************************************************************************)

\* A process is killed, or a call of it fails and it returns with an error. The
\* kernel releases its lock; what it renamed stays visible.
Kill(p) ==
    /\ "kill" \in Failures /\ disturbed < MaxDisturb
    /\ pc[p] # "idle"
    /\ Return(p)
    /\ IF lock = p THEN current' = Nothing /\ done' = {} ELSE UNCHANGED execVars
    /\ disturbed' = disturbed + 1
    /\ UNCHANGED <<source, diskVars, journalVars, savedVars, historyVars>>

\* The machine stops. Of the renames and removals that no fsync of their folder
\* followed, any may be lost.
PowerFail ==
    /\ "power" \in Failures /\ disturbed < MaxDisturb
    /\ \E kept \in SUBSET Path :
          disk' = [f \in Path |-> IF f \in kept THEN disk[f] ELSE durable[f]]
    /\ durable' = disk'
    /\ journal' \in {journal, journalDurable} /\ journalDurable' = journal'
    /\ saved' \in {saved, savedDurable} /\ savedDurable' = saved'
    /\ lock' = NoProc
    /\ pc' = [p \in Proc |-> "idle"] /\ job' = [p \in Proc |-> NoJob]
    /\ current' = Nothing /\ done' = {}
    /\ disturbed' = disturbed + 1
    /\ UNCHANGED <<source, historyVars>>

\* An edit while some process holds the lock comes after one of its checks.
Late(f) == late' = IF lock = NoProc THEN late ELSE late \cup {f}

\* The author changes the declaration ...
EditSource(s) ==
    /\ Service \in Edits /\ disturbed < MaxDisturb /\ s # source
    /\ source' = s
    /\ Late(Service)
    /\ disturbed' = disturbed + 1
    /\ UNCHANGED <<diskVars, journalVars, savedVars, lock, pc, job, execVars, edited, consent>>

\* ... a generated file or go.mod.
EditFile(f, c) ==
    /\ f \in Edits /\ disturbed < MaxDisturb /\ c # disk[f]
    /\ disk' = [disk EXCEPT ![f] = c] /\ durable' = [durable EXCEPT ![f] = c]
    /\ Late(f) /\ edited' = edited \cup {f}
    /\ disturbed' = disturbed + 1
    /\ UNCHANGED <<source, journalVars, savedVars, lock, pc, job, execVars, consent>>

Edit ==
    \/ \E s \in Source : EditSource(s)
    \/ \E f \in Out, c \in OutVal : EditFile(f, c)
    \/ \E m \in ModVal : EditFile(Module, m)

-----------------------------------------------------------------------------
\* A step of a command that has begun.
Step(p) ==
    \/ Load(p) \/ Capture(p) \/ Bind(p)
    \/ \E f \in Out : ReadOutput(p, f)
    \/ SavePlan(p) \/ ChoosePlan(p) \/ CheckPlan(p) \/ CheckCurrent(p)
    \/ Lock(p) \/ VerifyLocked(p)
    \/ \E mod \in SUBSET Requirement : Resolve(p, mod)
    \/ WriteJournal(p) \/ SyncJournal(p) \/ ReadJournal(p)
    \/ CheckExpected(p)
    \/ \E f \in Path : WriteFile(p, f)
    \/ SyncFile(p) \/ VerifyFinal(p)
    \/ RemoveJournal(p) \/ SyncRemoval(p) \/ RemoveSavedPlan(p)

Next ==
    \/ \E p \in Proc :
          \/ \E cmd \in Commands, replace \in BOOLEAN : Begin(p, cmd, replace)
          \/ BeginRecover(p)
          \/ Step(p)
          \/ Kill(p)
    \/ PowerFail
    \/ Edit

Spec == Init /\ [][Next]_vars

\* A command that runs goes on, and someone runs `stego recover` while it is
\* asked for. Nothing makes the author start another command.
FairSpec == Spec /\ \A p \in Proc : WF_vars(Step(p)) /\ WF_vars(BeginRecover(p))

-----------------------------------------------------------------------------
(***************************************************************************)
(* Properties.                                                             *)
(***************************************************************************)

\* The steps of a process that holds the project lock.
Executing == {"check", "write", "sync", "complete"}
Holding == {"locked", "resolve", "prepare", "journaled", "read", "removed", "unsave"}
               \cup Executing
Label == {"idle", "begun", "load", "snapshot", "planned", "chosen", "lock"} \cup Holding

IsJob(j) ==
    /\ j = [cmd |-> j.cmd, replace |-> j.replace, source |-> j.source, snap |-> j.snap,
            todo |-> j.todo, saved |-> j.saved, tx |-> j.tx]
    /\ j.cmd \in Commands \cup {"none"}
    /\ j.replace \in BOOLEAN
    /\ j.source \in Source \cup {Absent}
    /\ IsTree(j.snap)
    /\ j.todo \subseteq Path
    /\ j.tx # NoTx => IsTx(j.tx)

\* The types of the state, with the shape of every journal.
TypeOK ==
    /\ source \in Source
    /\ IsTree(disk) /\ IsTree(durable)
    /\ journal # NoTx => IsTx(journal)
    /\ journalDurable # NoTx => IsTx(journalDurable)
    /\ lock \in Proc \cup {NoProc}
    /\ pc \in [Proc -> Label]
    /\ job = [p \in Proc |-> job[p]] /\ \A p \in Proc : IsJob(job[p])
    /\ IsTree(current) /\ done \subseteq Path
    /\ late \subseteq Path \cup {Service} /\ edited \subseteq Path \ {Record}
    /\ consent \in BOOLEAN
    /\ disturbed \in 0..MaxDisturb

\* The generated files and the record change as one unit: whenever no journal is
\* pending, each file that nobody edited is what the record says, whatever was
\* killed or lost before (executeTransaction, Recover).
RecordMatchesOutput ==
    journal = NoTx /\ disk[Record] # Absent =>
        \A f \in Out \ edited : disk[f] = disk[Record].files[f]

\* A process changes files only under the lock, and only the files of the one
\* journal that is pending: two commands never write at the same time, and a
\* journal outlives its process until it is carried out (lockProject).
WritesFollowJournal ==
    [][\A p \in Proc : pc[p] = "write" /\ pc'[p] = "sync" =>
          /\ lock = p /\ journal # NoTx
          /\ \A f \in Path : disk'[f] # disk[f] =>
                f \in journal.watch /\ disk'[f] = journal.after[f]]_vars

\* Apply replaces a hand-edited generated file only when the author said so, or
\* when the edit came after the check that precedes the writes
\* (refuseHandEdits, executeTransaction).
HandEditsSurvive ==
    [][\A p \in Proc, f \in Out :
          pc[p] = "write" /\ pc'[p] = "sync" /\ disk'[f] # disk[f] =>
              \/ consent \/ f \in late
              \/ Files(journal.before[Record])[f] \in {Absent, disk[f]}]_vars

\* A journal goes only when all it says is on disk and survives a power failure;
\* nothing replaces one journal by another (pendingTransaction, the final
\* verification of executeTransaction).
JournalCompletes ==
    [][journal # NoTx /\ journal' # journal =>
          \/ /\ journal' = NoTx
             /\ \A f \in journal.watch \ late :
                   disk[f] = journal.after[f] /\ durable[f] = journal.after[f]
          \/ journal' = journalDurable /\ disturbed' > disturbed]_vars

\* What is journaled was planned from the project as it is: nothing that the
\* plan read changed between planning and the journal, except in the moment
\* after the checks under the lock (applyWithFault, commitResolvedModules).
JournalIsCurrent ==
    [][\A p \in Proc : pc[p] = "prepare" /\ pc'[p] = "journaled" =>
          /\ source # job[p].source => Service \in late
          /\ \A f \in journal'.watch \ late : disk[f] = journal'.before[f]]_vars

\* After an apply, a second one from the same inputs changes nothing
\* (computePlan, the module file in the input manifest).
SecondApplyChangesNothing ==
    \A p \in Proc :
        pc[p] = "unsave" /\ late = {} /\ source = job[p].source => ~HasChanges(source, disk)

\* The code builds with what is recorded: whenever no journal is pending and
\* the author left go.mod alone, it holds the requirements of the components
\* that the record was generated from (mergeCapturedModule,
\* validateResolvedModule).
RequirementsMet ==
    journal = NoTx /\ disk[Record] # Absent /\ Module \notin edited =>
        Required[disk[Record].source] \subseteq disk[Module]

\* `stego deps` never changes a generated file (commitResolvedModules).
DepsKeepsOutput ==
    [][\A p \in Proc : pc[p] = "write" /\ pc'[p] = "sync" /\ job[p].cmd = "deps" =>
          \A f \in Out : disk'[f] = disk[f]]_vars

\* apply --saved-plan writes exactly the files that the saved plan names, with
\* the content it planned, over the record it was planned against
\* (StillApplies).
SavedPlanIsExact ==
    [][\A p \in Proc :
          pc[p] = "prepare" /\ pc'[p] = "journaled" /\ job[p].cmd = "apply-saved" =>
              /\ journal'.before[Record] = job[p].saved.base
              /\ journal'.after[Record] = job[p].saved.record
              /\ \A f \in Operations(journal') \ {Record} :
                    \E e \in job[p].saved.files : e[1] = f /\ e[3] = journal'.after[f]]_vars

\* The commands keep to their files: apply leaves a hand edit that the author did not
\* give up, `stego deps` leaves generated files, and apply --saved-plan writes exactly
\* what its plan names (executeTransaction, commitResolvedModules, StillApplies).
CommandsKeepToTheirFiles == HandEditsSurvive /\ DepsKeepsOutput /\ SavedPlanIsExact

\* A pending apply is completed by recovery, unless a file that the author
\* changed stands in its way (Recover).
PendingResolves ==
    journal # NoTx ~>
        \/ journal = NoTx
        \/ \E f \in journal.watch : disk[f] \notin {journal.before[f], journal.after[f]}

-----------------------------------------------------------------------------
\* The project as its readers are promised to find it: a pending journal counts
\* as carried out.
Tree(tx) == [f \in Path |-> IF f \in tx.watch THEN tx.after[f] ELSE disk[f]]

Atomic == INSTANCE AtomicApply WITH files <- Tree(journal)
Durable == INSTANCE AtomicApply WITH files <- Tree(journalDurable)

\* While processes may be killed, every apply is one atomic step that changes
\* the record and the whole output, taken when the journal appears.
ImplementsAtomicApply == Atomic!Spec

\* While the power may fail, it is taken when the journal is durable.
ImplementsDurableApply == Durable!Spec

-----------------------------------------------------------------------------
(***************************************************************************)
(* The inductive invariant behind RecordMatchesOutput.                     *)
(***************************************************************************)

\* The project in a tree agrees with its record.
Agrees(tree) == \A f \in Out \ edited : tree[f] = Files(tree[Record])[f]

\* At most one process is between lockProject and the release of the lock.
LockHeld == \A p \in Proc : pc[p] \in Holding <=> lock = p

\* What a process at label l with job j needs for its next steps has been read.
Ready(l, j) ==
    /\ l \in {"load", "snapshot", "planned", "chosen", "locked", "resolve"} => j.source \in Source
    /\ l = "lock" /\ j.cmd # "recover" => j.source \in Source
    /\ l \in {"prepare", "journaled", "removed"} \cup Executing => IsTx(j.tx)
    /\ l = "sync" => j.todo \subseteq j.tx.watch

\* It carries out the pending journal, and no journal is pending before and after.
Held(l, j) ==
    /\ l \in {"resolve", "prepare", "removed"} => journal = NoTx
    /\ l \in {"journaled"} \cup Executing => journal = j.tx
    /\ l = "prepare" => j.tx.before[Record] = disk[Record]
    /\ l = "complete" => \A f \in j.tx.watch \ edited : disk[f] = j.tx.after[f]

\* Without kills, all but the step in hand is durable.
Synced ==
    "kill" \notin Failures =>
        /\ \A f \in Path : disk[f] # durable[f] =>
              \E p \in Proc : pc[p] = "sync" /\ f \in job[p].todo
        /\ journal # journalDurable => \E p \in Proc : pc[p] \in {"journaled", "removed"}
        /\ \A p \in Proc :
              /\ pc[p] = "journaled" => journalDurable = NoTx /\ Agrees(disk)
              /\ pc[p] = "removed" =>
                    journalDurable = job[p].tx /\ disk[Record] = job[p].tx.after[Record]

\* The core of the inductive invariant: the lock's holder carries out the one
\* pending journal, and the project with that journal applied agrees with its
\* record, on disk and, without kills, after a power failure (commitTransaction,
\* executeTransaction, Recover).
CoreInv ==
    /\ TypeOK /\ LockHeld
    /\ \A p \in Proc : Ready(pc[p], job[p]) /\ Held(pc[p], job[p])
    /\ Agrees(Tree(journal))
    /\ Synced

-----------------------------------------------------------------------------
(***************************************************************************)
(* What plans and journals say of the project while they are carried out.  *)
(***************************************************************************)

\* The journal of an apply or of a `stego deps`, from some source.
Planned(tx) ==
    \E s \in Source, mod, recorded \in SUBSET Requirement :
        /\ Required[s] \subseteq mod \cap recorded
        /\ tx.watch = Watch(s, tx.before[Record])
        /\ tx.after[Record] = [source |-> s, module |-> recorded, files |-> Generate[s]]
        /\ tx.after[Module] = mod

\* It replaces no generated file that differs from the record.
Spares(tx) ==
    \A f \in Operations(tx) \cap Out :
        Files(tx.before[Record])[f] \in {Absent, tx.before[f]}

\* go.mod holds what the record of a tree requires.
Met(tree) ==
    tree[Record] # Absent /\ Module \notin edited =>
        Required[tree[Record].source] \subseteq tree[Module]

Applies(j) == j.cmd \in {"apply", "apply-saved"}
PlanJournal(j) == Journal(j.source, j.snap, Desired(j.source, j.snap))

\* What a process has made sure of before it holds a journal.
Chosen(l, j) ==
    /\ l = "read" => j.cmd = "recover"
    /\ l = "resolve" => j.cmd = "deps"
    /\ l \in {"lock", "locked", "resolve"} /\ j.cmd = "deps" => OutputChanges(j.source, j.snap) = {}
    /\ l \in {"chosen", "lock", "locked"} /\ j.cmd = "apply-saved" => j.saved # NoPlan
    /\ l \in {"lock", "locked"} /\ j.cmd \notin {"deps", "recover"} =>
          Applies(j) /\ (HandEdited(j.snap) = {} \/ j.replace)
    /\ l \in {"begun", "load", "snapshot", "planned", "locked"} => j.cmd # "recover"
    /\ l = "chosen" => Applies(j)

\* What the journal of a process is.
Prepared(l, j) ==
    /\ l \in {"prepare", "journaled", "removed"} \cup Executing =>
          /\ Planned(j.tx)
          /\ j.cmd = "deps" => Operations(j.tx) \cap Out = {}
          /\ Applies(j) => j.source \in Source /\ j.tx = PlanJournal(j)
    /\ l = "prepare" =>
          /\ j.cmd = "apply-saved" => j.saved = SavedPlan(j.source, j.snap)
          /\ j.replace \/ Spares(j.tx)

\* How the project relates to it: the author's edits are in `late`.
Tracked(l, j) ==
    /\ l = "prepare" =>
          /\ source # j.source => Service \in late
          /\ \A f \in j.tx.watch \ late : disk[f] = j.tx.before[f]
    /\ l = "journaled" => disk[Record] = j.tx.before[Record] /\ Met(disk)
    /\ l \in {"write", "sync"} =>
          /\ \A f \in j.tx.watch : current[f] \in {j.tx.before[f], j.tx.after[f]}
          /\ \A f \in Path \ (done \cup late) : disk[f] = current[f]
          /\ \A f \in done : disk[f] # durable[f] => l = "sync" /\ f \in j.todo
    /\ l = "complete" => disk = durable
    /\ l \in {"complete", "removed"} =>
          \A f \in j.tx.watch : disk[f] # j.tx.after[f] => f \in late \cap edited
    /\ l = "unsave" =>
          /\ j.source \in Source
          /\ \A f \in Watch(j.source, j.snap[Record]) \ late :
                disk[f] = Desired(j.source, j.snap)[f]

\* A journal that is pending, or comes back after a power failure, was planned and
\* spares hand edits unless the author gave them up; a file that is not durable is
\* one of its operations.
Pended ==
    /\ journal # NoTx => Planned(journal) /\ (consent \/ Spares(journal))
    /\ journalDurable # NoTx =>
          Planned(journalDurable) /\ ("kill" \in Failures \/ consent \/ Spares(journalDurable))
    /\ \A f \in Path : disk[f] # durable[f] => journal # NoTx /\ f \in Operations(journal)

PlanInv ==
    /\ \A p \in Proc :
          Chosen(pc[p], job[p]) /\ Prepared(pc[p], job[p]) /\ Tracked(pc[p], job[p])
    /\ Pended /\ Met(Tree(journal))

\* The inductive invariant: the core, and what the plans and journals in hand say of
\* the project (commitTransaction, executeTransaction, Recover).
IndInv == CoreInv /\ PlanInv
=============================================================================
