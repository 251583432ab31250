----------------------- MODULE ApplyTransactionProofs -----------------------
(***************************************************************************)
(* Proofs about ApplyTransaction for every number of processes, files,     *)
(* sources, edits and failures.                                            *)
(***************************************************************************)
EXTENDS ApplyTransaction, TLAPS

\* The source inputs of a plan determine a legal state to save.
LEMMA NewStateType ==
    ASSUME NEW s \in Source, NEW snap, IsTree(snap)
    PROVE  /\ Merge(s, snap[Module]) \in SUBSET Requirement
           /\ NewState(s, snap) \in StateRecord
           /\ NewState(s, snap).files = Generate[s]
<1>1. Required[s] \in SUBSET Requirement /\ Generate[s] \in [Out -> OutVal]
    BY ProjectAssumption
<1>2. Merge(s, snap[Module]) \in SUBSET Requirement
    BY <1>1 DEF Merge, IsTree, ModVal
<1>3. QED BY <1>1, <1>2 DEF NewState, StateRecord, ModVal

\* Carrying out a plan leaves a legal tree.
LEMMA DesiredType ==
    ASSUME NEW s \in Source, NEW snap, IsTree(snap)
    PROVE  /\ IsTree(Desired(s, snap))
           /\ Desired(s, snap)[Record] = NewState(s, snap)
           /\ Desired(s, snap)[Module] \in SUBSET Requirement
           /\ \A f \in Out : Desired(s, snap)[f] = Generate[s][f]
<1>1. Module # Record /\ Module \notin Out /\ Record \notin Out
    BY ProjectAssumption DEF Module, Record
<1>2. Generate[s] \in [Out -> OutVal]
    BY ProjectAssumption
<1>3. /\ Merge(s, snap[Module]) \in SUBSET Requirement
      /\ NewState(s, snap) \in StateRecord
    BY NewStateType
<1>4. /\ Desired(s, snap)[Record] = NewState(s, snap)
      /\ Desired(s, snap)[Module] = Merge(s, snap[Module])
      /\ \A f \in Out : Desired(s, snap)[f] = Generate[s][f]
    BY <1>1 DEF Desired, Path
<1>5. IsTree(Desired(s, snap))
    <2>1. Desired(s, snap) = [f \in Path |-> Desired(s, snap)[f]]
        BY DEF Desired
    <2>2. QED BY <2>1, <1>2, <1>3, <1>4 DEF IsTree, ModVal, RecVal
<1>6. QED BY <1>3, <1>4, <1>5

\* prepareTransaction makes journals that validateTransaction accepts.
LEMMA JournalType ==
    ASSUME NEW s \in Source, NEW snap, IsTree(snap), NEW goal, IsTree(goal),
           goal[Record] = NewState(s, snap),
           goal[Module] \in SUBSET Requirement,
           \A f \in Out : goal[f] = Generate[s][f]
    PROVE  /\ IsTx(Journal(s, snap, goal))
           /\ Journal(s, snap, goal).before[Record] = snap[Record]
<1> DEFINE watch == Watch(s, snap[Record])
           tx == Journal(s, snap, goal)
<1>1. Module # Record /\ Module \notin Out /\ Record \notin Out
    BY ProjectAssumption DEF Module, Record
<1>2. /\ {Module, Record} \subseteq watch /\ watch \subseteq Path
      /\ \A f \in Out : f \notin watch => Generate[s][f] = Absent /\ Files(snap[Record])[f] = Absent
    BY DEF Watch, Path
<1>3. /\ tx = [watch |-> watch,
               before |-> [f \in Path |-> IF f \in watch THEN snap[f] ELSE Absent],
               after |-> [f \in Path |-> IF f \in watch THEN goal[f] ELSE Absent]]
    BY DEF Journal
<1> HIDE DEF watch, tx
<1>4. /\ tx.watch = watch
      /\ tx.before = [f \in Path |-> IF f \in watch THEN snap[f] ELSE Absent]
      /\ tx.after = [f \in Path |-> IF f \in watch THEN goal[f] ELSE Absent]
      /\ tx = [watch |-> tx.watch, before |-> tx.before, after |-> tx.after]
    BY <1>3
<1>5. /\ tx.before[Record] = snap[Record] /\ tx.after[Record] = goal[Record]
      /\ tx.before[Module] = snap[Module] /\ tx.after[Module] = goal[Module]
    BY <1>2, <1>4 DEF Path
<1>6. \A f \in Out : tx.before[f] \in {snap[f], Absent} /\ tx.after[f] = goal[f]
    BY <1>2, <1>4 DEF Path
<1>7. IsTree(tx.before) /\ IsTree(tx.after)
    <2>1. tx.before = [f \in Path |-> tx.before[f]] /\ tx.after = [f \in Path |-> tx.after[f]]
        BY <1>4
    <2>2. QED BY <2>1, <1>5, <1>6 DEF IsTree, OutVal
<1>8. /\ tx.after[Record] # Absent /\ tx.after[Module] # Absent
      /\ \A f \in Out : tx.after[f] = tx.after[Record].files[f]
    <2>1. tx.after[Record] \in StateRecord /\ tx.after[Record].files = Generate[s]
        BY <1>5, NewStateType
    <2>2. tx.after[Module] \in SUBSET Requirement
        BY <1>5
    <2>3. QED BY <2>1, <2>2, <1>6, ProjectAssumption
<1>9. \A f \in Out : f \notin watch => tx.after[f] = Absent /\ Files(tx.before[Record])[f] = Absent
    BY <1>2, <1>4, <1>5 DEF Path
<1>10. QED BY <1>2, <1>4, <1>5, <1>7, <1>8, <1>9 DEF IsTx, tx

-----------------------------------------------------------------------------
(***************************************************************************)
(* A step of process p that leaves the project, the journal and the        *)
(* durable state alone preserves the invariant when its new label and job  *)
(* fit.                                                                    *)
(***************************************************************************)

projectVars == <<source, disk, durable, journal, journalDurable, edited>>

\* The variables that only carry types.
RestOK ==
    /\ IsTree(current) /\ done \subseteq Path
    /\ late \subseteq Path \cup {Service}
    /\ consent \in BOOLEAN
    /\ disturbed \in 0..MaxDisturb

\* Process p goes to label l with job j, and holds the lock there or releases it.
Moves(p, l, j) ==
    /\ pc' = [pc EXCEPT ![p] = l]
    /\ job' = [job EXCEPT ![p] = j]
    /\ lock' = IF l \in Holding THEN p ELSE IF lock = p THEN NoProc ELSE lock
    /\ l \in Holding => lock \in {p, NoProc}

\* The parts of the invariant that every step of a process keeps.
LEMMA MoveKeeps ==
    ASSUME CoreInv, NEW p \in Proc, NEW l \in Label, NEW j, Moves(p, l, j), IsJob(j)
    PROVE  /\ pc' \in [Proc -> Label] /\ pc'[p] = l
           /\ job' = [q \in Proc |-> job'[q]] /\ job'[p] = j
           /\ \A q \in Proc : q # p => pc'[q] = pc[q] /\ job'[q] = job[q]
           /\ \A q \in Proc : IsJob(job'[q])
           /\ lock' \in Proc \cup {NoProc}
           /\ LockHeld'
<1>1. /\ pc \in [Proc -> Label] /\ lock \in Proc \cup {NoProc}
      /\ job = [q \in Proc |-> job[q]] /\ \A q \in Proc : IsJob(job[q])
      /\ \A q \in Proc : pc[q] \in Holding <=> lock = q
    BY DEF CoreInv, TypeOK, LockHeld
<1>2. pc' \in [Proc -> Label] /\ pc'[p] = l /\ \A q \in Proc : q # p => pc'[q] = pc[q]
    BY <1>1 DEF Moves
<1>3. /\ job' = [q \in Proc |-> job'[q]] /\ job'[p] = j
      /\ \A q \in Proc : q # p => job'[q] = job[q]
    BY <1>1 DEF Moves
<1>4. lock' \in Proc \cup {NoProc}
    BY <1>1 DEF Moves
<1>5. \A q \in Proc : pc'[q] \in Holding <=> lock' = q
    BY <1>1, <1>2, ProcessAssumption DEF Moves
<1>6. QED BY <1>1, <1>2, <1>3, <1>4, <1>5 DEF LockHeld

\* A step of Reconcile or of a check, which touches nothing but its own process.
LEMMA LocalStep ==
    ASSUME CoreInv, NEW p \in Proc, NEW l \in Label, NEW j, Moves(p, l, j),
           UNCHANGED projectVars, RestOK',
           IsJob(j), Ready(l, j), Held(l, j),
           "kill" \notin Failures =>
               pc[p] \notin {"sync", "journaled", "removed"} /\ l \notin {"sync", "journaled", "removed"}
    PROVE  CoreInv'
<1>1. /\ pc' \in [Proc -> Label] /\ pc'[p] = l
      /\ job' = [q \in Proc |-> job'[q]] /\ job'[p] = j
      /\ \A q \in Proc : q # p => pc'[q] = pc[q] /\ job'[q] = job[q]
      /\ \A q \in Proc : IsJob(job'[q])
      /\ lock' \in Proc \cup {NoProc}
      /\ LockHeld'
    BY MoveKeeps
<1>2. TypeOK'
    BY <1>1 DEF CoreInv, TypeOK, projectVars, RestOK
<1>3. (\A q \in Proc : Ready(pc[q], job[q]))'
    BY <1>1 DEF CoreInv, Ready
<1>4. (\A q \in Proc : Held(pc[q], job[q]))'
    BY <1>1 DEF CoreInv, Held, projectVars
<1>5. Agrees(Tree(journal))'
    BY DEF CoreInv, Agrees, Tree, projectVars
<1>6. Synced'
    BY <1>1 DEF CoreInv, Synced, Agrees, projectVars
<1>7. QED BY <1>1, <1>2, <1>3, <1>4, <1>5, <1>6 DEF CoreInv

\* What the invariant says of one process.
LEMMA AtProcess ==
    ASSUME CoreInv, NEW p \in Proc
    PROVE  /\ IsJob(job[p]) /\ pc[p] \in Label
           /\ Ready(pc[p], job[p]) /\ Held(pc[p], job[p])
           /\ pc[p] \in Holding <=> lock = p
           /\ job = [q \in Proc |-> job[q]] /\ pc \in [Proc -> Label]
           /\ source \in Source /\ IsTree(disk) /\ RestOK
           /\ NoProc \notin Proc
BY ProcessAssumption DEF CoreInv, TypeOK, LockHeld, RestOK

\* Jobs by their fields, and what an EXCEPT does to them.
MakeJob(c, r, so, sn, t, sa, x) ==
    [cmd |-> c, replace |-> r, source |-> so, snap |-> sn, todo |-> t, saved |-> sa, tx |-> x]

\* A job is well typed when its fields are.
LEMMA MakeJobType ==
    ASSUME NEW c \in Commands \cup {"none"}, NEW r \in BOOLEAN, NEW so \in Source \cup {Absent},
           NEW sn, IsTree(sn), NEW t, t \subseteq Path, NEW sa, NEW x, x # NoTx => IsTx(x)
    PROVE  IsJob(MakeJob(c, r, so, sn, t, sa, x))
BY DEF IsJob, MakeJob

\* The fields of what a process has read and computed.
LEMMA JobParts ==
    ASSUME NEW j, IsJob(j)
    PROVE  /\ j.cmd \in Commands \cup {"none"} /\ j.replace \in BOOLEAN
           /\ j.source \in Source \cup {Absent} /\ IsTree(j.snap) /\ j.todo \subseteq Path
           /\ j.tx # NoTx => IsTx(j.tx)
           /\ j = MakeJob(j.cmd, j.replace, j.source, j.snap, j.todo, j.saved, j.tx)
BY DEF IsJob, MakeJob

\* Load: the sources are read.
LEMMA JobSource ==
    ASSUME NEW j, IsJob(j), NEW v \in Source, NEW k, k = [j EXCEPT !.source = v]
    PROVE  /\ IsJob(k)
           /\ k.source = v
           /\ k.cmd = j.cmd /\ k.replace = j.replace /\ k.snap = j.snap /\ k.todo = j.todo /\ k.saved = j.saved /\ k.tx = j.tx
<1>1. k = MakeJob(j.cmd, j.replace, v, j.snap, j.todo, j.saved, j.tx)
    BY JobParts DEF MakeJob
<1>2. IsJob(MakeJob(j.cmd, j.replace, v, j.snap, j.todo, j.saved, j.tx))
    BY JobParts, MakeJobType
<1>3. IsJob(k)
    BY <1>1, <1>2
<1>4. QED BY <1>1, <1>3 DEF MakeJob

\* computePlan and executeTransaction: the files still to handle change.
LEMMA JobTodo ==
    ASSUME NEW j, IsJob(j), NEW v, v \subseteq Path, NEW k, k = [j EXCEPT !.todo = v]
    PROVE  /\ IsJob(k)
           /\ k.todo = v
           /\ k.cmd = j.cmd /\ k.replace = j.replace /\ k.source = j.source /\ k.snap = j.snap /\ k.saved = j.saved /\ k.tx = j.tx
<1>1. k = MakeJob(j.cmd, j.replace, j.source, j.snap, v, j.saved, j.tx)
    BY JobParts DEF MakeJob
<1>2. IsJob(MakeJob(j.cmd, j.replace, j.source, j.snap, v, j.saved, j.tx))
    BY JobParts, MakeJobType
<1>3. IsJob(k)
    BY <1>1, <1>2
<1>4. QED BY <1>1, <1>3 DEF MakeJob

\* LoadPlan: the saved plan is read.
LEMMA JobSaved ==
    ASSUME NEW j, IsJob(j), NEW v, NEW k, k = [j EXCEPT !.saved = v]
    PROVE  /\ IsJob(k)
           /\ k.saved = v
           /\ k.cmd = j.cmd /\ k.replace = j.replace /\ k.source = j.source /\ k.snap = j.snap /\ k.todo = j.todo /\ k.tx = j.tx
<1>1. k = MakeJob(j.cmd, j.replace, j.source, j.snap, j.todo, v, j.tx)
    BY JobParts DEF MakeJob
<1>2. IsJob(MakeJob(j.cmd, j.replace, j.source, j.snap, j.todo, v, j.tx))
    BY JobParts, MakeJobType
<1>3. IsJob(k)
    BY <1>1, <1>2
<1>4. QED BY <1>1, <1>3 DEF MakeJob

\* prepareTransaction and Recover: the journal to carry out is set.
LEMMA JobTx ==
    ASSUME NEW j, IsJob(j), NEW v, IsTx(v), NEW k, k = [j EXCEPT !.tx = v]
    PROVE  /\ IsJob(k)
           /\ k.tx = v
           /\ k.cmd = j.cmd /\ k.replace = j.replace /\ k.source = j.source /\ k.snap = j.snap /\ k.todo = j.todo /\ k.saved = j.saved
<1>1. k = MakeJob(j.cmd, j.replace, j.source, j.snap, j.todo, j.saved, v)
    BY JobParts DEF MakeJob
<1>2. IsJob(MakeJob(j.cmd, j.replace, j.source, j.snap, j.todo, j.saved, v))
    BY JobParts, MakeJobType
<1>3. IsJob(k)
    BY <1>1, <1>2
<1>4. QED BY <1>1, <1>3 DEF MakeJob

\* readSnapshot: the snapshots change with the files still to read.
LEMMA JobSnap ==
    ASSUME NEW j, IsJob(j), NEW v, IsTree(v), NEW w, w \subseteq Path
    PROVE  /\ [j EXCEPT !.snap = v, !.todo = w]
                = MakeJob(j.cmd, j.replace, j.source, v, w, j.saved, j.tx)
           /\ IsJob(MakeJob(j.cmd, j.replace, j.source, v, w, j.saved, j.tx))
<1> DEFINE i == MakeJob(j.cmd, j.replace, j.source, v, j.todo, j.saved, j.tx)
<1>1. [j EXCEPT !.snap = v] = i
    BY JobParts DEF MakeJob
<1>2. [i EXCEPT !.todo = w] = MakeJob(j.cmd, j.replace, j.source, v, w, j.saved, j.tx)
    BY DEF MakeJob
<1>3. [j EXCEPT !.snap = v, !.todo = w] = [[j EXCEPT !.snap = v] EXCEPT !.todo = w]
    OBVIOUS
<1>4. IsJob(MakeJob(j.cmd, j.replace, j.source, v, w, j.saved, j.tx))
    BY JobParts, MakeJobType
<1>5. QED BY <1>1, <1>2, <1>3, <1>4

\* Files read into a snapshot.
LEMMA TreeUpdate ==
    ASSUME NEW g, IsTree(g), NEW d, IsTree(d), NEW f \in Path
    PROVE  /\ IsTree([g EXCEPT ![f] = d[f]])
           /\ [g EXCEPT ![f] = d[f]][f] = d[f]
           /\ \A h \in Path \ {f} : [g EXCEPT ![f] = d[f]][h] = g[h]
<1> DEFINE e == [g EXCEPT ![f] = d[f]]
<1>1. /\ e = [h \in Path |-> e[h]] /\ e[f] = d[f]
      /\ \A h \in Path \ {f} : e[h] = g[h]
    BY DEF IsTree
<1> HIDE DEF e
<1>2. IsTree(e)
    BY <1>1 DEF IsTree, Path
<1>3. QED BY <1>1, <1>2 DEF e

\* A command that begins has read nothing.
LEMMA NewJobType ==
    ASSUME NEW c \in Commands \cup {"none"}, NEW r \in BOOLEAN
    PROVE  IsTree(Nothing) /\ IsJob(NewJob(c, r))
<1>1. IsTree(Nothing)
    BY DEF IsTree, Nothing, OutVal, ModVal, RecVal, Path
<1>2. NewJob(c, r) = MakeJob(c, r, Absent, Nothing, {}, NoPlan, NoTx)
    BY DEF NewJob, MakeJob
<1>3. IsJob(MakeJob(c, r, Absent, Nothing, {}, NoPlan, NoTx))
    BY <1>1, MakeJobType
<1>4. QED BY <1>1, <1>2, <1>3

\* Nor has a process that runs no command.
LEMMA NoJobType == IsJob(NoJob) /\ IsTree(Nothing)
BY NewJobType DEF NoJob

\* A command that returns.
LEMMA ReturnStep ==
    ASSUME CoreInv, NEW p \in Proc, Return(p), UNCHANGED projectVars, RestOK',
           "kill" \notin Failures => pc[p] \notin {"sync", "journaled", "removed"}
    PROVE  CoreInv'
<1>1. "idle" \in Label /\ "idle" \notin Holding
    BY DEF Label, Holding, Executing
<1>2. Moves(p, "idle", NoJob)
    BY <1>1 DEF Return, Moves
<1>3. Ready("idle", NoJob) /\ Held("idle", NoJob)
    BY DEF Ready, Held, Executing
<1>4. QED BY <1>1, <1>2, <1>3, LocalStep, NoJobType

\* A step that changes only the label of a process.
LEMMA GotoStep ==
    ASSUME CoreInv, NEW p \in Proc, NEW l \in Label, Goto(p, l), UNCHANGED <<job, projectVars>>, RestOK',
           lock' = IF l \in Holding THEN p ELSE IF lock = p THEN NoProc ELSE lock,
           l \in Holding => lock \in {p, NoProc},
           Ready(l, job[p]), Held(l, job[p]),
           "kill" \notin Failures =>
               pc[p] \notin {"sync", "journaled", "removed"} /\ l \notin {"sync", "journaled", "removed"}
    PROVE  CoreInv'
<1>1. Moves(p, l, job[p])
    BY AtProcess DEF Goto, Moves
<1>2. QED BY <1>1, AtProcess, LocalStep

\* Reconcile keeps the invariant.
LEMMA PlanningSteps ==
    ASSUME CoreInv, NEW p \in Proc,
           \/ \E cmd \in Commands, replace \in BOOLEAN : Begin(p, cmd, replace)
           \/ BeginRecover(p) \/ Load(p) \/ Capture(p) \/ Bind(p)
           \/ \E f \in Out : ReadOutput(p, f)
    PROVE  CoreInv'
<1>0. /\ IsJob(job[p]) /\ Ready(pc[p], job[p]) /\ Held(pc[p], job[p])
      /\ pc[p] \in Holding <=> lock = p
      /\ job = [q \in Proc |-> job[q]] /\ pc \in [Proc -> Label]
      /\ source \in Source /\ IsTree(disk) /\ RestOK
      /\ NoProc \notin Proc
    BY AtProcess
<1>1. CASE \E cmd \in Commands, replace \in BOOLEAN : Begin(p, cmd, replace)
    <2>1. PICK cmd \in Commands, replace \in BOOLEAN : Begin(p, cmd, replace)
        BY <1>0, <1>1
    <2> DEFINE j == NewJob(cmd, replace)
    <2>2. IsJob(j)
        BY <1>0, NewJobType
    <2>3. Moves(p, "begun", j)
        BY <1>0, <2>1 DEF Begin, Goto, Moves, Holding, Executing
    <2>4. Ready("begun", j) /\ Held("begun", j) /\ "begun" \in Label
        BY <1>0 DEF Ready, Held, Executing, Label
    <2>5. UNCHANGED projectVars /\ RestOK' /\ pc[p] = "idle"
        BY <1>0, <2>1 DEF Begin, projectVars, RestOK, diskVars, journalVars, execVars, historyVars
    <2> HIDE DEF j
    <2>6. QED BY <1>0, <2>2, <2>3, <2>4, <2>5, LocalStep
<1>2. CASE BeginRecover(p)
    <2> DEFINE j == NewJob("recover", FALSE)
    <2>1. IsJob(j)
        BY <1>0, <1>2, NewJobType DEF BeginRecover
    <2>2. Moves(p, "lock", j)
        BY <1>0, <1>2 DEF BeginRecover, Goto, Moves, Holding, Executing
    <2>3. Ready("lock", j) /\ Held("lock", j) /\ "lock" \in Label
        BY <1>0 DEF Ready, Held, Executing, Label, NewJob
    <2>4. UNCHANGED projectVars /\ RestOK' /\ pc[p] = "idle"
        BY <1>0, <1>2 DEF BeginRecover, projectVars, RestOK, diskVars, journalVars, execVars, historyVars
    <2> HIDE DEF j
    <2>5. QED BY <1>0, <2>1, <2>2, <2>3, <2>4, LocalStep
<1>3. CASE Load(p)
    <2> DEFINE j == [job[p] EXCEPT !.source = source]
    <2>1. IsJob(j) /\ j.source \in Source
        BY <1>0, JobSource
    <2>2. Moves(p, "load", j)
        BY <1>0, <1>3 DEF Load, Goto, Moves, Holding, Executing
    <2>3. Ready("load", j) /\ Held("load", j) /\ "load" \in Label
        BY <1>0, <2>1 DEF Ready, Held, Executing, Label
    <2>4. UNCHANGED projectVars /\ RestOK' /\ pc[p] = "begun"
        BY <1>0, <1>3 DEF Load, projectVars, RestOK, diskVars, journalVars, execVars, historyVars
    <2> HIDE DEF j
    <2>5. QED BY <1>0, <2>1, <2>2, <2>3, <2>4, LocalStep
<1>4. CASE Capture(p)
    <2>1. UNCHANGED projectVars /\ RestOK' /\ pc[p] = "load"
        BY <1>0, <1>4 DEF Capture, projectVars, RestOK, diskVars, journalVars, execVars, historyVars
    <2>2. CASE Return(p)
        BY <1>0, <2>1, <2>2, ReturnStep
    <2>3. CASE ~Return(p)
        <3> DEFINE todo == Watch(source, disk[Record]) \cap Out
                   snap == [job[p].snap EXCEPT ![Module] = disk[Module], ![Record] = disk[Record]]
                   j == [job[p] EXCEPT !.snap = snap, !.todo = todo]
        <3>1. /\ Goto(p, "snapshot") /\ UNCHANGED lock
              /\ job' = [job EXCEPT ![p].snap[Module] = disk[Module], ![p].snap[Record] = disk[Record],
                                    ![p].todo = todo]
            BY <1>0, <1>4, <2>3 DEF Capture
        <3>2. IsTree(snap) /\ todo \subseteq Path
            BY <1>0, TreeUpdate, JobParts DEF Path
        <3>3. IsJob(j) /\ j.source = job[p].source
            <4>1. IsJob(job[p])
                BY <1>0
            <4>2. /\ j = MakeJob(job[p].cmd, job[p].replace, job[p].source, snap, todo, job[p].saved, job[p].tx)
                  /\ IsJob(MakeJob(job[p].cmd, job[p].replace, job[p].source, snap, todo, job[p].saved, job[p].tx))
                BY <3>2, <4>1, JobSnap
            <4> HIDE DEF snap, todo, j
            <4>3. QED BY <4>2 DEF MakeJob
        <3>4. Moves(p, "snapshot", j)
            <4>1. job' = [job EXCEPT ![p] = j]
                BY <1>0, <3>1, ZenonT(60)
            <4> HIDE DEF j
            <4>2. QED BY <1>0, <3>1, <2>1, <4>1 DEF Goto, Moves, Holding, Executing
        <3>5. Ready("snapshot", j) /\ Held("snapshot", j) /\ "snapshot" \in Label
            BY <1>0, <2>1, <3>3 DEF Ready, Held, Executing, Label
        <3> HIDE DEF j
        <3>6. QED BY <1>0, <2>1, <3>3, <3>4, <3>5, LocalStep
    <2>4. QED BY <1>0, <2>2, <2>3
<1>5. CASE Bind(p)
    <2>1. UNCHANGED projectVars /\ RestOK' /\ pc[p] = "snapshot"
        BY <1>0, <1>5 DEF Bind, projectVars, RestOK, diskVars, journalVars, execVars, historyVars
    <2>2. CASE Return(p)
        BY <1>0, <2>1, <2>2, ReturnStep
    <2>3. CASE Goto(p, "planned") /\ UNCHANGED <<job, lock>>
        <3>1. Ready("planned", job[p]) /\ Held("planned", job[p]) /\ "planned" \in Label \ Holding
            BY <1>0, <2>1 DEF Ready, Held, Executing, Label, Holding
        <3>2. lock # p
            BY <1>0, <2>1 DEF Holding, Executing
        <3>3. QED BY <1>0, <2>1, <2>3, <3>1, <3>2, GotoStep
    <2>4. QED BY <1>0, <1>5, <2>2, <2>3 DEF Bind
<1>6. CASE \E f \in Out : ReadOutput(p, f)
    <2>1. PICK f \in Out : ReadOutput(p, f)
        BY <1>0, <1>6
    <2> DEFINE j == [job[p] EXCEPT !.snap = [@ EXCEPT ![f] = disk[f]], !.todo = @ \ {f}]
    <2>2. UNCHANGED <<projectVars, pc, lock>> /\ RestOK' /\ pc[p] = "snapshot"
        BY <1>0, <2>1 DEF ReadOutput, projectVars, RestOK, diskVars, journalVars, execVars, historyVars
    <2>3. job' = [job EXCEPT ![p] = j]
        BY <1>0, <2>1 DEF ReadOutput
    <2>4. IsJob(j) /\ j.source = job[p].source
        <3> DEFINE snap == [job[p].snap EXCEPT ![f] = disk[f]]
                   todo == job[p].todo \ {f}
        <3>1. IsTree(snap) /\ todo \subseteq Path
            BY <1>0, TreeUpdate, JobParts DEF Path
        <3>2. j = [job[p] EXCEPT !.snap = snap, !.todo = todo]
            OBVIOUS
        <3>3. IsJob(job[p])
            BY <1>0
        <3>4. /\ j = MakeJob(job[p].cmd, job[p].replace, job[p].source, snap, todo, job[p].saved, job[p].tx)
              /\ IsJob(MakeJob(job[p].cmd, job[p].replace, job[p].source, snap, todo, job[p].saved, job[p].tx))
            BY <3>1, <3>3, JobSnap
        <3> HIDE DEF snap, todo, j
        <3>5. QED BY <3>4 DEF MakeJob
    <2>5. Moves(p, "snapshot", j)
        BY <1>0, <2>2, <2>3 DEF Goto, Moves, Holding, Executing
    <2>6. Ready("snapshot", j) /\ Held("snapshot", j) /\ "snapshot" \in Label
        BY <1>0, <2>2, <2>4 DEF Ready, Held, Executing, Label
    <2> HIDE DEF j
    <2>7. QED BY <1>0, <2>2, <2>4, <2>5, <2>6, LocalStep
<1>7. QED BY <1>1, <1>2, <1>3, <1>4, <1>5, <1>6

\* The commands up to the lock keep the invariant.
LEMMA CommandSteps ==
    ASSUME CoreInv, NEW p \in Proc,
           SavePlan(p) \/ ChoosePlan(p) \/ CheckPlan(p) \/ CheckCurrent(p) \/ Lock(p) \/ RemoveSavedPlan(p)
    PROVE  CoreInv'
<1>0. /\ IsJob(job[p]) /\ Ready(pc[p], job[p]) /\ Held(pc[p], job[p])
      /\ pc[p] \in Holding <=> lock = p
      /\ job = [q \in Proc |-> job[q]] /\ pc \in [Proc -> Label]
      /\ source \in Source /\ IsTree(disk) /\ RestOK
      /\ NoProc \notin Proc
    BY AtProcess
<1>1. CASE SavePlan(p)
    <2>1. UNCHANGED projectVars /\ RestOK' /\ pc[p] = "planned" /\ Return(p)
        BY <1>0, <1>1 DEF SavePlan, projectVars, RestOK, diskVars, journalVars, execVars, historyVars
    <2>2. QED BY <2>1, ReturnStep
<1>2. CASE ChoosePlan(p)
    <2>1. UNCHANGED projectVars /\ RestOK' /\ pc[p] = "planned"
        BY <1>0, <1>2 DEF ChoosePlan, projectVars, RestOK, diskVars, journalVars, execVars, historyVars
    <2>2. CASE Return(p)
        BY <2>1, <2>2, ReturnStep
    <2>3. CASE ~Return(p)
        <3> DEFINE v == IF job[p].cmd = "apply" THEN NoPlan ELSE saved
                   j == [job[p] EXCEPT !.saved = v]
        <3>1. Goto(p, "chosen") /\ UNCHANGED lock /\ job' = [job EXCEPT ![p].saved = v]
            BY <1>2, <2>3 DEF ChoosePlan
        <3>2. IsJob(j) /\ j.source = job[p].source
            <4> HIDE DEF v
            <4>1. QED BY <1>0, JobSaved
        <3>3. job' = [job EXCEPT ![p] = j]
            BY <3>1
        <3> HIDE DEF j, v
        <3>4. Moves(p, "chosen", j)
            BY <1>0, <2>1, <3>1, <3>3 DEF Goto, Moves, Holding, Executing
        <3>5. Ready("chosen", j) /\ Held("chosen", j) /\ "chosen" \in Label
            BY <1>0, <2>1, <3>2 DEF Ready, Held, Executing, Label
        <3>6. QED BY <2>1, <3>2, <3>4, <3>5, LocalStep
    <2>4. QED BY <2>2, <2>3
<1>3. CASE CheckPlan(p)
    <2>1. UNCHANGED projectVars /\ RestOK' /\ pc[p] = "chosen"
        BY <1>0, <1>3 DEF CheckPlan, projectVars, RestOK, diskVars, journalVars, execVars, historyVars
    <2>2. CASE Return(p)
        BY <2>1, <2>2, ReturnStep
    <2>3. CASE Goto(p, "lock") /\ UNCHANGED <<job, lock>>
        <3>1. /\ Ready("lock", job[p]) /\ Held("lock", job[p])
              /\ "lock" \in Label \ Holding /\ lock # p
            BY <1>0, <2>1 DEF Ready, Held, Executing, Label, Holding
        <3>2. QED BY <2>1, <2>3, <3>1, GotoStep
    <2>4. QED BY <1>3, <2>2, <2>3 DEF CheckPlan
<1>4. CASE CheckCurrent(p)
    <2>1. UNCHANGED projectVars /\ RestOK' /\ pc[p] = "planned"
        BY <1>0, <1>4 DEF CheckCurrent, projectVars, RestOK, diskVars, journalVars, execVars, historyVars
    <2>2. CASE Return(p)
        BY <2>1, <2>2, ReturnStep
    <2>3. CASE Goto(p, "lock") /\ UNCHANGED <<job, lock>>
        <3>1. /\ Ready("lock", job[p]) /\ Held("lock", job[p])
              /\ "lock" \in Label \ Holding /\ lock # p
            BY <1>0, <2>1 DEF Ready, Held, Executing, Label, Holding
        <3>2. QED BY <2>1, <2>3, <3>1, GotoStep
    <2>4. QED BY <1>4, <2>2, <2>3 DEF CheckCurrent
<1>5. CASE Lock(p)
    <2>1. UNCHANGED projectVars /\ RestOK' /\ pc[p] = "lock"
        BY <1>0, <1>5 DEF Lock, projectVars, RestOK, diskVars, journalVars, execVars, historyVars
    <2>2. CASE Return(p)
        BY <2>1, <2>2, ReturnStep
    <2>3. CASE lock = NoProc
        <3> DEFINE l == IF job[p].cmd = "recover" THEN "read" ELSE "locked"
        <3>1. Goto(p, l) /\ lock' = p /\ UNCHANGED job
            BY <1>5, <2>3 DEF Lock
        <3>2. /\ Ready(l, job[p]) /\ Held(l, job[p]) /\ l \in Label /\ l \in Holding
              /\ l \notin {"sync", "journaled", "removed"}
            BY <1>0, <2>1 DEF Ready, Held, Executing, Label, Holding
        <3> HIDE DEF l
        <3>3. QED BY <2>1, <2>3, <3>1, <3>2, GotoStep
    <2>4. QED BY <1>5, <2>2, <2>3 DEF Lock
<1>6. CASE RemoveSavedPlan(p)
    <2>1. UNCHANGED projectVars /\ RestOK' /\ pc[p] = "unsave" /\ Return(p)
        BY <1>0, <1>6 DEF RemoveSavedPlan, projectVars, RestOK, diskVars, journalVars, execVars, historyVars
    <2>2. QED BY <2>1, ReturnStep
<1>7. QED BY <1>1, <1>2, <1>3, <1>4, <1>5, <1>6

\* The journal that a process under the lock is about to write.
LEMMA PrepareStep ==
    ASSUME CoreInv, NEW p \in Proc, NEW tx, IsTx(tx), tx.before[Record] = disk[Record],
           pc[p] \in {"locked", "resolve"}, journal = NoTx,
           UNCHANGED projectVars, RestOK', Prepare(p, tx)
    PROVE  CoreInv'
<1>0. /\ IsJob(job[p]) /\ Ready(pc[p], job[p]) /\ Held(pc[p], job[p])
      /\ pc[p] \in Holding <=> lock = p
      /\ job = [q \in Proc |-> job[q]] /\ pc \in [Proc -> Label]
      /\ source \in Source /\ IsTree(disk) /\ RestOK
      /\ NoProc \notin Proc
    BY AtProcess
<1>1. CASE Return(p)
    BY <1>1, ReturnStep
<1>2. CASE Goto(p, "unsave") /\ UNCHANGED <<job, lock>>
    <2>1. /\ Ready("unsave", job[p]) /\ Held("unsave", job[p])
          /\ "unsave" \in Label /\ lock = p /\ "unsave" \in Holding
        BY <1>0 DEF Ready, Held, Executing, Label, Holding
    <2>2. QED BY <1>2, <2>1, GotoStep
<1>3. CASE Goto(p, "prepare") /\ UNCHANGED lock /\ job' = [job EXCEPT ![p].tx = tx]
    <2> DEFINE j == [job[p] EXCEPT !.tx = tx]
    <2>1. IsJob(j) /\ j.tx = tx
        BY <1>0, JobTx
    <2>2. job' = [job EXCEPT ![p] = j]
        BY <1>3
    <2> HIDE DEF j
    <2>3. Moves(p, "prepare", j)
        BY <1>0, <1>3, <2>2 DEF Goto, Moves, Holding, Executing
    <2>4. Ready("prepare", j) /\ Held("prepare", j) /\ "prepare" \in Label
        BY <2>1 DEF Ready, Held, Executing, Label, Holding
    <2>5. QED BY <2>1, <2>3, <2>4, LocalStep
<1>4. QED BY <1>1, <1>2, <1>3 DEF Prepare

\* The checks and the preparation under the lock keep the invariant.
LEMMA LockedSteps ==
    ASSUME CoreInv, NEW p \in Proc,
           \/ VerifyLocked(p) \/ ReadJournal(p) \/ CheckExpected(p) \/ VerifyFinal(p)
           \/ \E mod \in SUBSET Requirement : Resolve(p, mod)
    PROVE  CoreInv'
<1>0. /\ IsJob(job[p]) /\ Ready(pc[p], job[p]) /\ Held(pc[p], job[p])
      /\ pc[p] \in Holding <=> lock = p
      /\ job = [q \in Proc |-> job[q]] /\ pc \in [Proc -> Label]
      /\ source \in Source /\ IsTree(disk) /\ RestOK
      /\ NoProc \notin Proc
    BY AtProcess
<1> DEFINE s == job[p].source
           snap == job[p].snap
<1>1. CASE VerifyLocked(p)
    <2>1. UNCHANGED projectVars /\ RestOK' /\ pc[p] = "locked"
        BY <1>0, <1>1 DEF VerifyLocked, projectVars, RestOK, diskVars, journalVars, execVars, historyVars
    <2>2. CASE Return(p)
        BY <2>1, <2>2, ReturnStep
    <2>3. CASE ~Return(p)
        <3>1. /\ journal = NoTx /\ SnapshotsHold(p)
              /\ IF job[p].cmd = "deps" THEN Goto(p, "resolve") /\ UNCHANGED <<job, lock>>
                 ELSE Prepare(p, Journal(s, snap, Desired(s, snap)))
            BY <1>1, <2>3 DEF VerifyLocked, Pending
        <3>2. s \in Source /\ IsTree(snap)
            BY <1>0, <2>1, JobParts DEF Ready
        <3>3. disk[Record] = snap[Record]
            BY <3>1 DEF SnapshotsHold, FilesHold, Watch
        <3>4. CASE job[p].cmd = "deps"
            <4>1. /\ Ready("resolve", job[p]) /\ Held("resolve", job[p])
                  /\ "resolve" \in Label /\ "resolve" \in Holding /\ lock = p
                BY <1>0, <2>1, <3>1, <3>2 DEF Ready, Held, Executing, Label, Holding
            <4>2. QED BY <2>1, <3>1, <3>4, <4>1, GotoStep
        <3>5. CASE job[p].cmd # "deps"
            <4>1. /\ IsTx(Journal(s, snap, Desired(s, snap)))
                  /\ Journal(s, snap, Desired(s, snap)).before[Record] = disk[Record]
                BY <3>2, <3>3, DesiredType, JournalType
            <4>2. QED BY <2>1, <3>1, <3>5, <4>1, PrepareStep
        <3>6. QED BY <3>4, <3>5
    <2>4. QED BY <2>2, <2>3
<1>2. CASE \E mod \in SUBSET Requirement : Resolve(p, mod)
    <2>0. PICK mod \in SUBSET Requirement : Resolve(p, mod)
        BY <1>2
    <2>1. UNCHANGED projectVars /\ RestOK' /\ pc[p] = "resolve"
        BY <1>0, <2>0 DEF Resolve, projectVars, RestOK, diskVars, journalVars, execVars, historyVars
    <2>2. CASE Return(p)
        BY <2>1, <2>2, ReturnStep
    <2>3. CASE ~Return(p)
        <3> DEFINE goal == [Desired(s, snap) EXCEPT ![Module] = mod]
        <3>1. SnapshotsHold(p) /\ Prepare(p, Journal(s, snap, goal))
            BY <2>0, <2>3 DEF Resolve
        <3>2. s \in Source /\ IsTree(snap) /\ journal = NoTx
            BY <1>0, <2>1, JobParts DEF Ready, Held
        <3>3. disk[Record] = snap[Record]
            BY <3>1 DEF SnapshotsHold, FilesHold, Watch
        <3>4. /\ IsTree(Desired(s, snap)) /\ Desired(s, snap)[Record] = NewState(s, snap)
              /\ \A f \in Out : Desired(s, snap)[f] = Generate[s][f]
            BY <3>2, DesiredType
        <3>5. Module \in Path /\ Module \notin Out /\ Record \in Path /\ Module # Record
            BY ProjectAssumption DEF Path, Module, Record
        <3>6. /\ goal = [f \in Path |-> goal[f]] /\ goal[Module] = mod
              /\ \A f \in Path \ {Module} : goal[f] = Desired(s, snap)[f]
            BY <3>4, <3>5 DEF IsTree
        <3> HIDE DEF goal
        <3>7. /\ IsTree(goal) /\ goal[Record] = NewState(s, snap)
              /\ \A f \in Out : goal[f] = Generate[s][f]
            BY <3>4, <3>5, <3>6 DEF IsTree, Path, ModVal
        <3>8. /\ IsTx(Journal(s, snap, goal))
              /\ Journal(s, snap, goal).before[Record] = disk[Record]
            BY <3>2, <3>3, <3>6, <3>7, JournalType
        <3>9. QED BY <2>1, <3>1, <3>2, <3>8, PrepareStep
    <2>4. QED BY <2>2, <2>3
<1>3. CASE ReadJournal(p)
    <2>1. UNCHANGED projectVars /\ RestOK' /\ pc[p] = "read"
        BY <1>0, <1>3 DEF ReadJournal, projectVars, RestOK, diskVars, journalVars, execVars, historyVars
    <2>2. CASE Return(p)
        BY <2>1, <2>2, ReturnStep
    <2>3. CASE ~Return(p)
        <3> DEFINE j == [job[p] EXCEPT !.tx = journal]
        <3>1. journal # NoTx /\ Goto(p, "check") /\ UNCHANGED lock /\ job' = [job EXCEPT ![p].tx = journal]
            BY <1>3, <2>3 DEF ReadJournal
        <3>2. IsTx(journal)
            BY <3>1 DEF CoreInv, TypeOK
        <3>3. IsJob(j) /\ j.tx = journal
            BY <1>0, <3>2, JobTx
        <3>4. job' = [job EXCEPT ![p] = j]
            BY <3>1
        <3> HIDE DEF j
        <3>5. Moves(p, "check", j)
            BY <1>0, <2>1, <3>1, <3>4 DEF Goto, Moves, Holding, Executing
        <3>6. Ready("check", j) /\ Held("check", j) /\ "check" \in Label
            BY <3>2, <3>3 DEF Ready, Held, Executing, Label, Holding
        <3>7. QED BY <2>1, <3>3, <3>5, <3>6, LocalStep
    <2>4. QED BY <2>2, <2>3
<1>4. CASE CheckExpected(p)
    <2>1. UNCHANGED projectVars /\ RestOK' /\ pc[p] = "check"
        BY <1>0, <1>4 DEF CheckExpected, projectVars, RestOK, diskVars, journalVars, execVars, historyVars
    <2>2. CASE Return(p)
        BY <2>1, <2>2, ReturnStep
    <2>3. CASE Goto(p, "write") /\ UNCHANGED <<job, lock>>
        <3>1. /\ Ready("write", job[p]) /\ Held("write", job[p])
              /\ "write" \in Label /\ "write" \in Holding /\ lock = p
            BY <1>0, <2>1 DEF Ready, Held, Executing, Label, Holding
        <3>2. QED BY <2>1, <2>3, <3>1, GotoStep
    <2>4. QED BY <1>4, <2>2, <2>3 DEF CheckExpected
<1>5. CASE VerifyFinal(p)
    <2>1. UNCHANGED projectVars /\ RestOK' /\ pc[p] = "write"
        BY <1>0, <1>5, NoJobType DEF VerifyFinal, projectVars, RestOK, diskVars, journalVars, execVars, historyVars
    <2>2. CASE Return(p)
        BY <2>1, <2>2, ReturnStep
    <2>3. CASE ~Return(p)
        <3>1. /\ Goto(p, "complete") /\ UNCHANGED <<job, lock>>
              /\ \A f \in job[p].tx.watch : disk[f] = job[p].tx.after[f]
            BY <1>5, <2>3 DEF VerifyFinal
        <3>2. /\ Ready("complete", job[p]) /\ Held("complete", job[p])
              /\ "complete" \in Label /\ "complete" \in Holding /\ lock = p
            BY <1>0, <2>1, <3>1 DEF Ready, Held, Executing, Label, Holding
        <3>3. QED BY <2>1, <3>1, <3>2, GotoStep
    <2>4. QED BY <2>2, <2>3
<1>6. QED BY <1>1, <1>2, <1>3, <1>4, <1>5

\* A process that is killed leaves the files and the journal as they are.
LEMMA KillStep ==
    ASSUME CoreInv, NEW p \in Proc, Kill(p)
    PROVE  CoreInv'
<1>0. /\ IsJob(job[p]) /\ Ready(pc[p], job[p]) /\ Held(pc[p], job[p])
      /\ pc[p] \in Holding <=> lock = p
      /\ job = [q \in Proc |-> job[q]] /\ pc \in [Proc -> Label]
      /\ source \in Source /\ IsTree(disk) /\ RestOK
      /\ NoProc \notin Proc
    BY AtProcess
<1>1. Return(p) /\ "kill" \in Failures
    BY DEF Kill
<1>2. UNCHANGED projectVars /\ RestOK'
    BY <1>0, NoJobType, ProcessAssumption DEF Kill, projectVars, RestOK, diskVars, journalVars, execVars, historyVars
<1>3. QED BY <1>1, <1>2, ReturnStep

-----------------------------------------------------------------------------
(***************************************************************************)
(* Steps of the holder of the lock that change the project or the journal. *)
(***************************************************************************)

\* Synced, when p is the only process under the lock.
SyncedBy(p) ==
    "kill" \notin Failures =>
        /\ \A f \in Path : disk[f] # durable[f] => pc[p] = "sync" /\ f \in job[p].todo
        /\ journal # journalDurable => pc[p] \in {"journaled", "removed"}
        /\ pc[p] = "journaled" => journalDurable = NoTx /\ Agrees(disk)
        /\ pc[p] = "removed" =>
              journalDurable = job[p].tx /\ disk[Record] = job[p].tx.after[Record]

ProjectOK ==
    /\ source \in Source
    /\ IsTree(disk) /\ IsTree(durable)
    /\ journal # NoTx => IsTx(journal)
    /\ journalDurable # NoTx => IsTx(journalDurable)
    /\ edited \subseteq Path \ {Record}

\* What the invariant says at the process that holds the project lock
\* (lockProject).
LEMMA HolderState ==
    ASSUME CoreInv, NEW p \in Proc, pc[p] \in Holding
    PROVE  /\ lock = p /\ SyncedBy(p) /\ ProjectOK /\ Agrees(Tree(journal)) /\ NoProc \notin Proc
           /\ \A q \in Proc : q # p => pc[q] \notin Holding
<1>1. lock = p /\ \A q \in Proc : q # p => pc[q] \notin Holding
    BY DEF CoreInv, LockHeld
<1>2. "sync" \in Holding /\ "journaled" \in Holding /\ "removed" \in Holding
    BY DEF Holding, Executing
<1>3. SyncedBy(p)
    BY <1>1, <1>2 DEF CoreInv, Synced, SyncedBy
<1>4. QED BY <1>1, <1>3, ProcessAssumption DEF CoreInv, TypeOK, ProjectOK

\* A step of the holder of the lock keeps the invariant when the project, the
\* journal and the process itself fit afterwards.
LEMMA HolderStep ==
    ASSUME CoreInv, NEW p \in Proc, pc[p] \in Holding, NEW l \in Label, NEW j, Moves(p, l, j), IsJob(j),
           Ready(l, j), Held(pc[p], job[p])', ProjectOK', RestOK',
           Agrees(Tree(journal))', SyncedBy(p)'
    PROVE  CoreInv'
<1>1. /\ pc' \in [Proc -> Label] /\ pc'[p] = l
      /\ job' = [q \in Proc |-> job'[q]] /\ job'[p] = j
      /\ \A q \in Proc : q # p => pc'[q] = pc[q] /\ job'[q] = job[q]
      /\ \A q \in Proc : IsJob(job'[q])
      /\ lock' \in Proc \cup {NoProc}
      /\ LockHeld'
    BY MoveKeeps
<1>2. \A q \in Proc : q # p => pc'[q] \notin Holding
    BY <1>1, HolderState
<1>3. TypeOK'
    BY <1>1 DEF TypeOK, ProjectOK, RestOK
<1>4. (\A q \in Proc : Ready(pc[q], job[q]))'
    BY <1>1 DEF CoreInv, Ready
<1>5. (\A q \in Proc : Held(pc[q], job[q]))'
    BY <1>2 DEF Held, Holding, Executing
<1>6. Synced'
    BY <1>2 DEF Synced, SyncedBy, Holding, Executing
<1>7. QED BY <1>1, <1>3, <1>4, <1>5, <1>6 DEF CoreInv

\* What a journal says of the files outside it.
LEMMA TxParts ==
    ASSUME NEW tx, IsTx(tx)
    PROVE  /\ tx # NoTx /\ Module \in tx.watch /\ Record \in tx.watch /\ tx.watch \subseteq Path
           /\ IsTree(tx.before) /\ IsTree(tx.after)
           /\ Files(tx.after[Record]) = tx.after[Record].files
           /\ \A f \in Out : tx.after[f] = Files(tx.after[Record])[f]
           /\ \A f \in Out : f \notin tx.watch =>
                 tx.after[f] = Absent /\ Files(tx.before[Record])[f] = Absent
<1>1. NoTx.watch = {}
    BY DEF NoTx
<1>2. QED BY <1>1 DEF IsTx, Files

\* A pending journal decides everything but the unwatched files: those must
\* already be as its record says.
LEMMA TreeOfTx ==
    ASSUME NEW tx, IsTx(tx)
    PROVE  Agrees(Tree(tx)) <=> \A f \in Out \ edited : f \notin tx.watch => disk[f] = tx.after[f]
<1>1. Tree(tx)[Record] = tx.after[Record]
    BY TxParts DEF Tree, Path
<1>2. \A f \in Out : Tree(tx)[f] = IF f \in tx.watch THEN tx.after[f] ELSE disk[f]
    BY DEF Tree, Path
<1>3. QED BY <1>1, <1>2, TxParts DEF Agrees

\* Without a journal, readers find the files on disk.
LEMMA TreeOfNoTx == ASSUME IsTree(disk) PROVE Tree(NoTx) = disk
BY DEF Tree, NoTx, IsTree

\* The journal appears: what was the disk before is the base of the new tree.
LEMMA WriteJournalStep ==
    ASSUME CoreInv, NEW p \in Proc, WriteJournal(p)
    PROVE  CoreInv'
<1>1. pc[p] = "prepare" /\ "prepare" \in Holding /\ "journaled" \in Holding /\ "journaled" \in Label
    BY DEF WriteJournal, Holding, Executing, Label
<1>2. /\ IsJob(job[p]) /\ Ready(pc[p], job[p]) /\ Held(pc[p], job[p]) /\ RestOK
      /\ job = [q \in Proc |-> job[q]] /\ pc \in [Proc -> Label] /\ IsTree(disk)
    BY AtProcess
<1>3. lock = p /\ SyncedBy(p) /\ ProjectOK /\ Agrees(Tree(journal))
    BY <1>1, HolderState
<1>4. /\ IsTx(job[p].tx) /\ journal = NoTx /\ job[p].tx.before[Record] = disk[Record]
    BY <1>1, <1>2 DEF Ready, Held
<1>5. /\ journal' = job[p].tx /\ Goto(p, "journaled")
      /\ UNCHANGED <<source, disk, durable, journalDurable, lock, job, late, edited, current, done, disturbed>>
      /\ consent' \in BOOLEAN
    BY <1>2, JobParts DEF WriteJournal, diskVars, execVars, RestOK
<1>6. Moves(p, "journaled", job[p]) /\ pc'[p] = "journaled" /\ job'[p] = job[p]
    BY <1>1, <1>2, <1>3, <1>5 DEF Moves, Goto
<1>7. Ready("journaled", job[p]) /\ Held(pc[p], job[p])'
    BY <1>4, <1>5, <1>6 DEF Ready, Held, Executing
<1>8. ProjectOK' /\ RestOK'
    BY <1>2, <1>3, <1>4, <1>5 DEF ProjectOK, RestOK
<1>9. Agrees(disk) /\ Agrees(disk)'
    BY <1>2, <1>3, <1>4, <1>5, TreeOfNoTx DEF Agrees
<1>10. Agrees(Tree(journal))'
    <2>1. \A f \in Out \ edited : f \notin job[p].tx.watch => disk[f] = job[p].tx.after[f]
        <3>1. SUFFICES ASSUME NEW f \in Out \ edited, f \notin job[p].tx.watch
                       PROVE  disk[f] = Absent /\ job[p].tx.after[f] = Absent
            OBVIOUS
        <3>2. disk[f] = Files(disk[Record])[f]
            BY <1>9 DEF Agrees
        <3>3. Files(job[p].tx.before[Record])[f] = Absent
            BY <1>4, <3>1, TxParts
        <3>4. job[p].tx.after[f] = Absent
            BY <1>4, <3>1, TxParts
        <3>5. QED BY <1>4, <3>2, <3>3, <3>4
    <2>2. Agrees(Tree(job[p].tx))
        BY <1>4, <2>1, TreeOfTx
    <2>3. QED BY <1>5, <2>2 DEF Agrees, Tree
<1>11. SyncedBy(p)'
    BY <1>1, <1>3, <1>4, <1>5, <1>6, <1>9 DEF SyncedBy
<1>12. QED BY <1>1, <1>2, <1>6, <1>7, <1>8, <1>10, <1>11, HolderStep

\* commitTransaction syncs the journal's folders.
LEMMA SyncJournalStep ==
    ASSUME CoreInv, NEW p \in Proc, SyncJournal(p)
    PROVE  CoreInv'
<1>1. pc[p] = "journaled" /\ "journaled" \in Holding /\ "check" \in Holding /\ "check" \in Label
    BY DEF SyncJournal, Holding, Executing, Label
<1>2. /\ IsJob(job[p]) /\ Ready(pc[p], job[p]) /\ Held(pc[p], job[p]) /\ RestOK
      /\ job = [q \in Proc |-> job[q]] /\ pc \in [Proc -> Label] /\ IsTree(disk)
    BY AtProcess
<1>3. lock = p /\ SyncedBy(p) /\ ProjectOK /\ Agrees(Tree(journal))
    BY <1>1, HolderState
<1>4. IsTx(job[p].tx) /\ journal = job[p].tx
    BY <1>1, <1>2 DEF Ready, Held
<1>5. /\ journalDurable' = journal /\ Goto(p, "check")
      /\ UNCHANGED <<source, disk, durable, journal, lock, job, late, edited, current, done,
                     consent, disturbed>>
    BY DEF SyncJournal, diskVars, execVars, historyVars
<1>6. Moves(p, "check", job[p]) /\ pc'[p] = "check" /\ job'[p] = job[p]
    BY <1>1, <1>2, <1>3, <1>5 DEF Moves, Goto
<1>7. Ready("check", job[p]) /\ Held(pc[p], job[p])'
    BY <1>4, <1>5, <1>6 DEF Ready, Held, Executing
<1>8. ProjectOK' /\ RestOK'
    BY <1>2, <1>3, <1>5 DEF ProjectOK, RestOK
<1>9. Agrees(Tree(journal))'
    BY <1>3, <1>5 DEF Agrees, Tree
<1>10. SyncedBy(p)'
    BY <1>1, <1>3, <1>5, <1>6 DEF SyncedBy
<1>11. QED BY <1>1, <1>2, <1>6, <1>7, <1>8, <1>9, <1>10, HolderStep

\* A write touches a file of the journal only.
LEMMA WriteFileStep ==
    ASSUME CoreInv, NEW p \in Proc, NEW f \in Path, WriteFile(p, f)
    PROVE  CoreInv'
<1>1. pc[p] = "write" /\ "write" \in Holding /\ "sync" \in Holding /\ "sync" \in Label
    BY DEF WriteFile, Holding, Executing, Label
<1>2. /\ IsJob(job[p]) /\ Ready(pc[p], job[p]) /\ Held(pc[p], job[p]) /\ RestOK
      /\ job = [q \in Proc |-> job[q]] /\ pc \in [Proc -> Label] /\ IsTree(disk)
    BY AtProcess
<1>3. lock = p /\ SyncedBy(p) /\ ProjectOK /\ Agrees(Tree(journal))
    BY <1>1, HolderState
<1>4. IsTx(job[p].tx) /\ journal = job[p].tx
    BY <1>1, <1>2 DEF Ready, Held, Executing
<1> DEFINE tx == job[p].tx
           j == [job[p] EXCEPT !.todo = {f}]
<1>5. /\ f \in Operations(tx) /\ Goto(p, "sync") /\ job' = [job EXCEPT ![p].todo = {f}]
      /\ \/ disk' = [disk EXCEPT ![f] = tx.after[f]] /\ edited' = edited \ {f}
         \/ disk' = disk /\ edited' = edited
      /\ done' = done \cup {f}
      /\ UNCHANGED <<source, durable, journal, journalDurable, lock, late, current, consent, disturbed>>
    BY DEF WriteFile, journalVars
<1>6. f \in tx.watch /\ tx.watch \subseteq Path /\ IsTree(tx.after)
    BY <1>4, <1>5, TxParts DEF Operations
<1>7. IsJob(j) /\ j.todo = {f} /\ j.tx = tx
    <2>1. IsJob(job[p]) /\ {f} \subseteq Path
        BY <1>2
    <2>2. j = [job[p] EXCEPT !.todo = {f}]
        OBVIOUS
    <2> HIDE DEF j
    <2>3. IsJob(j) /\ j.todo = {f} /\ j.tx = job[p].tx
        BY <2>1, <2>2, JobTodo
    <2>4. QED BY <2>3
<1>8. job' = [job EXCEPT ![p] = j]
    BY <1>5
<1> HIDE DEF j
<1>9. Moves(p, "sync", j) /\ pc'[p] = "sync" /\ job'[p] = j
    BY <1>1, <1>2, <1>3, <1>5, <1>8 DEF Moves, Goto
<1>10. Ready("sync", j) /\ Held(pc[p], job[p])'
    BY <1>4, <1>5, <1>6, <1>7, <1>9 DEF Ready, Held, Executing
<1>11. IsTree(disk') /\ \A g \in Path \ {f} : disk'[g] = disk[g]
    <2>1. IsTree(disk) /\ IsTree(tx.after)
        BY <1>2, <1>6
    <2> HIDE DEF tx
    <2>2. /\ IsTree([disk EXCEPT ![f] = tx.after[f]])
          /\ \A g \in Path \ {f} : [disk EXCEPT ![f] = tx.after[f]][g] = disk[g]
        BY <2>1, TreeUpdate
    <2>3. CASE disk' = [disk EXCEPT ![f] = tx.after[f]]
        BY <2>2, <2>3
    <2>4. CASE disk' = disk
        BY <2>1, <2>4
    <2>5. QED BY <1>5, <2>3, <2>4
<1>12. ProjectOK' /\ RestOK'
    BY <1>2, <1>3, <1>5, <1>11 DEF ProjectOK, RestOK
<1>13. Agrees(Tree(journal))'
    <2>1. \A g \in Out \ edited : g \notin tx.watch => disk[g] = tx.after[g]
        BY <1>3, <1>4, TreeOfTx
    <2>2. \A g \in Out \ edited' : g \notin tx.watch => disk'[g] = tx.after[g]
        BY <1>5, <1>6, <1>11, <2>1 DEF Path
    <2>3. Tree(journal)'[Record] = tx.after[Record]
        BY <1>4, <1>5, TxParts DEF Tree, Path
    <2>4. \A g \in Out : Tree(journal)'[g] = IF g \in tx.watch THEN tx.after[g] ELSE disk'[g]
        BY <1>4, <1>5 DEF Tree, Path
    <2>5. QED BY <1>4, <2>2, <2>3, <2>4, TxParts DEF Agrees
<1>14. SyncedBy(p)'
    BY <1>1, <1>3, <1>5, <1>7, <1>9, <1>11 DEF SyncedBy
<1>15. QED BY <1>1, <1>7, <1>9, <1>10, <1>12, <1>13, <1>14, HolderStep

\* syncParents makes the operation in hand durable; after the record, the journal too.
LEMMA SyncFileStep ==
    ASSUME CoreInv, NEW p \in Proc, SyncFile(p)
    PROVE  CoreInv'
<1>1. pc[p] = "sync" /\ "write" \in Holding /\ "sync" \in Holding /\ "write" \in Label
    BY DEF SyncFile, Holding, Executing, Label
<1>2. /\ IsJob(job[p]) /\ Ready(pc[p], job[p]) /\ Held(pc[p], job[p]) /\ RestOK
      /\ job = [q \in Proc |-> job[q]] /\ pc \in [Proc -> Label] /\ IsTree(disk)
    BY AtProcess
<1>3. lock = p /\ SyncedBy(p) /\ ProjectOK /\ Agrees(Tree(journal))
    BY <1>1, HolderState
<1>4. IsTx(job[p].tx) /\ journal = job[p].tx
    BY <1>1, <1>2 DEF Ready, Held, Executing
<1> DEFINE j == [job[p] EXCEPT !.todo = {}]
<1>5. /\ Goto(p, "write") /\ job' = [job EXCEPT ![p].todo = {}]
      /\ durable' = [f \in Path |-> IF f \in job[p].todo THEN disk[f] ELSE durable[f]]
      /\ journalDurable' \in {journal, journalDurable}
      /\ UNCHANGED <<source, disk, journal, lock, late, edited, current, done, consent, disturbed>>
    BY DEF SyncFile, execVars, historyVars
<1>6. IsJob(j) /\ j.tx = job[p].tx
    <2>1. IsJob(job[p]) /\ {} \subseteq Path
        BY <1>2
    <2>2. QED BY <2>1, JobTodo
<1>7. job' = [job EXCEPT ![p] = j]
    BY <1>5
<1> HIDE DEF j
<1>8. Moves(p, "write", j) /\ pc'[p] = "write" /\ job'[p] = j
    BY <1>1, <1>2, <1>3, <1>5, <1>7 DEF Moves, Goto
<1>9. Ready("write", j) /\ Held(pc[p], job[p])'
    BY <1>4, <1>5, <1>6, <1>8 DEF Ready, Held, Executing
<1>10. IsTree(durable')
    BY <1>3, <1>5 DEF ProjectOK, IsTree, Path
<1>11. ProjectOK' /\ RestOK'
    BY <1>2, <1>3, <1>5, <1>10 DEF ProjectOK, RestOK
<1>12. Agrees(Tree(journal))'
    BY <1>3, <1>5 DEF Agrees, Tree
<1>13. SyncedBy(p)'
    BY <1>1, <1>3, <1>5, <1>8 DEF SyncedBy
<1>14. QED BY <1>1, <1>6, <1>8, <1>9, <1>11, <1>12, <1>13, HolderStep

\* When the journal goes, the final verification has made the disk agree.
LEMMA RemoveJournalStep ==
    ASSUME CoreInv, NEW p \in Proc, RemoveJournal(p)
    PROVE  CoreInv'
<1>1. pc[p] = "complete" /\ "complete" \in Holding /\ "removed" \in Holding /\ "removed" \in Label
    BY DEF RemoveJournal, Holding, Executing, Label
<1>2. /\ IsJob(job[p]) /\ Ready(pc[p], job[p]) /\ Held(pc[p], job[p]) /\ RestOK
      /\ job = [q \in Proc |-> job[q]] /\ pc \in [Proc -> Label] /\ IsTree(disk)
    BY AtProcess
<1>3. lock = p /\ SyncedBy(p) /\ ProjectOK /\ Agrees(Tree(journal))
    BY <1>1, HolderState
<1> DEFINE tx == job[p].tx
<1>4. /\ IsTx(tx) /\ journal = tx
      /\ \A f \in tx.watch \ edited : disk[f] = tx.after[f]
    BY <1>1, <1>2 DEF Ready, Held, Executing
<1>5. /\ journal' = NoTx /\ Goto(p, "removed")
      /\ UNCHANGED <<source, disk, durable, journalDurable, lock, job, late, edited, current, done,
                     consent, disturbed>>
    BY DEF RemoveJournal, diskVars, execVars, historyVars
<1>6. Moves(p, "removed", job[p]) /\ pc'[p] = "removed" /\ job'[p] = job[p]
    BY <1>1, <1>2, <1>3, <1>5 DEF Moves, Goto
<1>7. Ready("removed", job[p]) /\ Held(pc[p], job[p])'
    BY <1>4, <1>5, <1>6 DEF Ready, Held, Executing
<1>8. ProjectOK' /\ RestOK'
    BY <1>2, <1>3, <1>5 DEF ProjectOK, RestOK
<1>9. disk[Record] = tx.after[Record]
    BY <1>3, <1>4, TxParts DEF ProjectOK
<1>10. Agrees(disk)
    <2>1. \A f \in Out \ edited : f \notin tx.watch => disk[f] = tx.after[f]
        BY <1>3, <1>4, TreeOfTx
    <2>2. QED BY <1>4, <1>9, <2>1, TxParts DEF Agrees
<1>11. Agrees(Tree(journal))'
    <2>1. Tree(NoTx) = disk
        BY <1>2, TreeOfNoTx
    <2>2. Tree(journal)' = disk
        BY <1>5, <2>1 DEF Tree
    <2>3. QED BY <1>5, <1>10, <2>2 DEF Agrees
<1>12. SyncedBy(p)'
    BY <1>1, <1>3, <1>4, <1>5, <1>6, <1>9 DEF SyncedBy
<1>13. QED BY <1>1, <1>2, <1>6, <1>7, <1>8, <1>11, <1>12, HolderStep

\* executeTransaction syncs the removal of the journal.
LEMMA SyncRemovalStep ==
    ASSUME CoreInv, NEW p \in Proc, SyncRemoval(p)
    PROVE  CoreInv'
<1>1. /\ pc[p] = "removed" /\ "removed" \in Holding /\ "unsave" \in Holding
      /\ "unsave" \in Label /\ "idle" \in Label /\ "idle" \notin Holding
    BY DEF SyncRemoval, Holding, Executing, Label
<1>2. /\ IsJob(job[p]) /\ Ready(pc[p], job[p]) /\ Held(pc[p], job[p]) /\ RestOK
      /\ job = [q \in Proc |-> job[q]] /\ pc \in [Proc -> Label] /\ IsTree(disk)
    BY AtProcess
<1>3. lock = p /\ SyncedBy(p) /\ ProjectOK /\ Agrees(Tree(journal))
    BY <1>1, HolderState
<1>4. journal = NoTx
    BY <1>1, <1>2 DEF Held
<1>5. /\ journalDurable' = journal
      /\ UNCHANGED <<source, disk, durable, journal, late, edited, current, done,
                     consent, disturbed>>
    BY DEF SyncRemoval, diskVars, execVars, historyVars
<1>6. ProjectOK' /\ RestOK'
    BY <1>2, <1>3, <1>5 DEF ProjectOK, RestOK
<1>7. Agrees(Tree(journal))'
    BY <1>3, <1>5 DEF Agrees, Tree
<1>8. CASE Goto(p, "unsave") /\ UNCHANGED <<job, lock>>
    <2>1. Moves(p, "unsave", job[p]) /\ pc'[p] = "unsave" /\ job'[p] = job[p]
        BY <1>1, <1>2, <1>3, <1>8 DEF Moves, Goto
    <2>2. Ready("unsave", job[p]) /\ Held(pc[p], job[p])' /\ SyncedBy(p)'
        BY <1>1, <1>3, <1>5, <2>1 DEF Ready, Held, Executing, SyncedBy
    <2>3. QED BY <1>1, <1>2, <1>6, <1>7, <2>1, <2>2, HolderStep
<1>9. CASE Return(p)
    <2>1. Moves(p, "idle", NoJob) /\ pc'[p] = "idle" /\ job'[p] = NoJob
        BY <1>1, <1>2, <1>3, <1>9 DEF Moves, Return
    <2>2. Ready("idle", NoJob) /\ Held(pc[p], job[p])' /\ SyncedBy(p)'
        BY <1>1, <1>3, <1>5, <2>1 DEF Ready, Held, Executing, SyncedBy
    <2>3. QED BY <1>1, <1>6, <1>7, <2>1, <2>2, NoJobType, HolderStep
<1>10. QED BY <1>8, <1>9 DEF SyncRemoval


-----------------------------------------------------------------------------
(***************************************************************************)
(* The surroundings.                                                       *)
(***************************************************************************)

\* A tree made of the parts of two trees.
LEMMA TreeMix ==
    ASSUME NEW g, IsTree(g), NEW h, IsTree(h), NEW kept, NEW e,
           e = [f \in Path |-> IF f \in kept THEN g[f] ELSE h[f]]
    PROVE  IsTree(e) /\ \A f \in Path : e[f] \in {g[f], h[f]}
<1>1. e = [f \in Path |-> e[f]] /\ \A f \in Path : e[f] \in {g[f], h[f]}
    OBVIOUS
<1>2. QED BY <1>1 DEF IsTree, Path

\* Where kills do not happen, a power failure loses at most the file and the
\* journal in hand, and the tree that readers are promised agrees before and
\* after (syncParents at the end of every operation).
LEMMA PowerFailStep ==
    ASSUME CoreInv, PowerFail, "kill" \notin Failures
    PROVE  CoreInv'
<1> USE DEF ProjectOK
<1>1. /\ ProjectOK /\ RestOK /\ Agrees(Tree(journal)) /\ NoProc \notin Proc
      /\ Synced /\ \A q \in Proc : Ready(pc[q], job[q]) /\ Held(pc[q], job[q])
      /\ LockHeld
    BY ProcessAssumption DEF CoreInv, TypeOK, RestOK
<1>2. PICK kept \in SUBSET Path :
          disk' = [f \in Path |-> IF f \in kept THEN disk[f] ELSE durable[f]]
    BY DEF PowerFail
<1>3. IsTree(disk') /\ \A f \in Path : disk'[f] \in {disk[f], durable[f]}
    BY <1>1, <1>2, TreeMix
<1>4. /\ durable' = disk' /\ journal' \in {journal, journalDurable} /\ journalDurable' = journal'
      /\ lock' = NoProc /\ pc' = [p \in Proc |-> "idle"] /\ job' = [p \in Proc |-> NoJob]
      /\ current' = Nothing /\ done' = {} /\ disturbed < MaxDisturb /\ disturbed' = disturbed + 1
      /\ UNCHANGED <<source, late, edited, consent>>
    BY DEF PowerFail, historyVars
<1>5. /\ "idle" \in Label /\ "idle" \notin Holding
    BY DEF Label, Holding, Executing
<1>6. TypeOK'
    <2>1. IsTree(Nothing) /\ IsJob(NoJob)
        BY NoJobType
    <2>2. pc' \in [Proc -> Label] /\ job' = [p \in Proc |-> job'[p]] /\ (\A p \in Proc : IsJob(job[p]))'
        BY <1>4, <1>5, <2>1
    <2>3. disturbed' \in 0..MaxDisturb
        BY <1>1, <1>4, ProcessAssumption DEF RestOK
    <2>4. QED BY <1>1, <1>3, <1>4, <2>1, <2>2, <2>3 DEF TypeOK, RestOK
<1>7. LockHeld'
    BY <1>1, <1>4, <1>5 DEF LockHeld
<1>8. (\A p \in Proc : Ready(pc[p], job[p]) /\ Held(pc[p], job[p]))'
    BY <1>4 DEF Ready, Held, Executing
<1>9. Synced'
    BY <1>4 DEF Synced
<1>10. Agrees(Tree(journal))'
    <2>1. CASE \E p \in Proc : pc[p] = "sync"
        <3>1. PICK p \in Proc : pc[p] = "sync"
            BY <2>1
        <3> DEFINE tx == job[p].tx
        <3>2. pc[p] \in Holding
            BY <3>1 DEF Holding, Executing
        <3>3. SyncedBy(p)
            BY <3>2, HolderState
        <3>4. /\ IsTx(tx) /\ journal = tx /\ job[p].todo \subseteq tx.watch
            BY <1>1, <3>1 DEF Ready, Held, Executing
        <3>5. journal' = tx
            BY <1>4, <3>1, <3>3, <3>4 DEF SyncedBy
        <3>6. \A g \in Out \ edited : g \notin tx.watch => disk[g] = tx.after[g]
            BY <1>1, <3>4, TreeOfTx
        <3>7. \A g \in Out : g \notin tx.watch => disk'[g] = disk[g]
            BY <1>3, <3>3, <3>4 DEF SyncedBy, Path
        <3>8. Tree(journal)'[Record] = tx.after[Record]
            BY <3>4, <3>5, TxParts DEF Tree, Path
        <3>9. \A g \in Out : Tree(journal)'[g] = IF g \in tx.watch THEN tx.after[g] ELSE disk'[g]
            BY <3>5 DEF Tree, Path
        <3>10. QED BY <1>4, <3>4, <3>6, <3>7, <3>8, <3>9, TxParts DEF Agrees
    <2>2. CASE \A p \in Proc : pc[p] # "sync"
        <3>1. disk' = disk
            BY <1>1, <1>3, <2>2 DEF Synced, IsTree
        <3>2. CASE journal' = journal
            BY <1>1, <1>4, <3>1, <3>2 DEF Agrees, Tree
        <3>3. CASE journal' # journal
            <4>1. PICK p \in Proc : pc[p] \in {"journaled", "removed"}
                BY <1>1, <1>4, <3>3 DEF Synced
            <4> DEFINE tx == job[p].tx
            <4>2. journal' = journalDurable /\ Tree(NoTx) = disk
                BY <1>1, <1>4, <3>3, TreeOfNoTx
            <4>3. CASE pc[p] = "journaled"
                <5>1. journal' = NoTx /\ Agrees(disk)
                    BY <1>1, <4>2, <4>3 DEF Synced
                <5>2. Tree(journal)' = disk
                    BY <3>1, <4>2, <5>1 DEF Tree
                <5>3. QED BY <1>4, <5>1, <5>2 DEF Agrees
            <4>4. CASE pc[p] = "removed"
                <5>1. /\ journal' = tx /\ disk[Record] = tx.after[Record]
                    BY <1>1, <4>2, <4>4 DEF Synced
                <5>2. IsTx(tx) /\ journal = NoTx
                    BY <1>1, <4>4 DEF Ready, Held, Executing
                <5>3. Agrees(disk)
                    BY <1>1, <4>2, <5>2
                <5>4. \A g \in Out \ edited : disk[g] = tx.after[g]
                    BY <5>1, <5>2, <5>3, TxParts DEF Agrees
                <5>5. Agrees(Tree(tx))
                    BY <5>2, <5>4, TreeOfTx
                <5>6. QED BY <1>4, <3>1, <5>1, <5>5 DEF Agrees, Tree
            <4>5. QED BY <4>1, <4>3, <4>4
        <3>4. QED BY <3>2, <3>3
    <2>3. QED BY <2>1, <2>2
<1>11. QED BY <1>6, <1>7, <1>8, <1>9, <1>10 DEF CoreInv

\* An edit of a generated file or of go.mod is durable, and leaves that file out
\* of what the record promises.
LEMMA EditFileStep ==
    ASSUME CoreInv, NEW f \in Out \cup {Module}, NEW c, EditFile(f, c),
           f \in Out => c \in OutVal, f = Module => c \in ModVal
    PROVE  CoreInv'
<1>1. f \in Path /\ f # Record /\ Record \in Path /\ Out \subseteq Path
    BY ProjectAssumption DEF Path, Module, Record
<1>2. /\ TypeOK /\ Agrees(Tree(journal)) /\ Synced
      /\ \A p \in Proc : Ready(pc[p], job[p]) /\ Held(pc[p], job[p])
    BY DEF CoreInv
<1>3. /\ disk' = [disk EXCEPT ![f] = c] /\ durable' = [durable EXCEPT ![f] = c]
      /\ edited' = edited \cup {f} /\ disturbed < MaxDisturb /\ disturbed' = disturbed + 1
      /\ late' \in {late, late \cup {f}}
      /\ UNCHANGED <<source, journal, journalDurable, lock, pc, job, current, done, consent>>
    BY DEF EditFile, Late, journalVars, execVars
<1>4. /\ disk' = [g \in Path |-> disk'[g]] /\ disk'[f] = c
      /\ durable' = [g \in Path |-> durable'[g]] /\ durable'[f] = c
      /\ \A g \in Path \ {f} : disk'[g] = disk[g] /\ durable'[g] = durable[g]
    BY <1>1, <1>2, <1>3 DEF TypeOK, IsTree
<1>5. IsTree(disk') /\ IsTree(durable')
    BY <1>1, <1>2, <1>4 DEF TypeOK, IsTree, Path
<1>6. disturbed' \in 0..MaxDisturb /\ late' \subseteq Path \cup {Service} /\ edited' \subseteq Path \ {Record}
    BY <1>1, <1>2, <1>3, ProcessAssumption DEF TypeOK
<1>7. TypeOK' /\ LockHeld'
    BY <1>2, <1>3, <1>5, <1>6 DEF CoreInv, TypeOK, LockHeld
<1>8. (\A p \in Proc : Ready(pc[p], job[p]) /\ Held(pc[p], job[p]))'
    <2>1. SUFFICES ASSUME NEW p \in Proc PROVE (Ready(pc[p], job[p]) /\ Held(pc[p], job[p]))'
        OBVIOUS
    <2>2. Ready(pc[p], job[p])'
        BY <1>2, <1>3 DEF Ready
    <2>3. pc[p] = "complete" => job[p].tx.watch \subseteq Path
        BY <1>2, TxParts DEF Ready, Executing
    <2>4. QED BY <1>1, <1>2, <1>3, <1>4, <2>2, <2>3 DEF Held
<1>9. Agrees(disk) => Agrees(disk)'
    BY <1>1, <1>3, <1>4 DEF Agrees
<1>10. Agrees(Tree(journal))'
    <2>1. \A g \in Path \ {f} : Tree(journal)'[g] = Tree(journal)[g]
        BY <1>3, <1>4 DEF Tree
    <2>2. QED BY <1>1, <1>2, <1>3, <2>1 DEF Agrees
<1>11. Synced'
    BY <1>1, <1>2, <1>3, <1>4, <1>9 DEF Synced
<1>12. QED BY <1>7, <1>8, <1>10, <1>11 DEF CoreInv

\* An edit of the declaration changes nothing that the invariant is about.
LEMMA EditSourceStep ==
    ASSUME CoreInv, NEW s \in Source, EditSource(s)
    PROVE  CoreInv'
<1>1. /\ source' = s /\ disturbed < MaxDisturb /\ disturbed' = disturbed + 1
      /\ late' \in {late, late \cup {Service}}
      /\ UNCHANGED <<disk, durable, journal, journalDurable, lock, pc, job, current, done,
                     edited, consent>>
    BY DEF EditSource, Late, diskVars, journalVars, execVars
<1>2. disturbed' \in 0..MaxDisturb /\ late' \subseteq Path \cup {Service}
    BY <1>1, ProcessAssumption DEF CoreInv, TypeOK
<1>3. TypeOK' /\ LockHeld'
    BY <1>1, <1>2 DEF CoreInv, TypeOK, LockHeld
<1>4. (\A p \in Proc : Ready(pc[p], job[p]) /\ Held(pc[p], job[p]))'
    BY <1>1 DEF CoreInv, Ready, Held
<1>5. Agrees(Tree(journal))' /\ Synced'
    BY <1>1 DEF CoreInv, Agrees, Tree, Synced
<1>6. QED BY <1>3, <1>4, <1>5 DEF CoreInv

\* A step that changes no variable.
LEMMA StutterStep == ASSUME CoreInv, UNCHANGED vars PROVE CoreInv'
BY DEF vars, CoreInv, TypeOK, LockHeld, Ready, Held, Agrees, Tree, Synced

-----------------------------------------------------------------------------
(***************************************************************************)
(* The theorems.                                                           *)
(***************************************************************************)

\* Either processes are killed or the power fails, not both in one behaviour:
\* recovery from a killed apply's journal does not sync the journal again.
OneKindOfFailure == ~({"kill", "power"} \subseteq Failures)

\* A project without STEGO files satisfies the invariant.
LEMMA Initially == ASSUME Init PROVE CoreInv
<1>1. IsTree(Nothing) /\ IsJob(NoJob) /\ NoProc \notin Proc /\ 0 \in 0..MaxDisturb
    BY NoJobType, ProcessAssumption
<1>2. "idle" \in Label /\ "idle" \notin Holding
    BY DEF Label, Holding, Executing
<1>3. TypeOK
    BY <1>1, <1>2 DEF Init, TypeOK
<1>4. LockHeld /\ Synced /\ \A p \in Proc : Ready(pc[p], job[p]) /\ Held(pc[p], job[p])
    BY <1>1, <1>2 DEF Init, LockHeld, Synced, Ready, Held, Executing
<1>5. Agrees(Tree(journal))
    <2>1. Tree(journal) = Nothing
        BY <1>1, TreeOfNoTx DEF Init
    <2>2. Nothing[Record] = Absent /\ \A f \in Out : Nothing[f] = Absent
        BY DEF Nothing, Path
    <2>3. QED BY <2>1, <2>2 DEF Agrees, Files
<1>6. QED BY <1>3, <1>4, <1>5 DEF CoreInv

\* Every step of a command, a failure or the author keeps the invariant.
LEMMA Inductive ==
    ASSUME OneKindOfFailure, CoreInv, [Next]_vars
    PROVE  CoreInv'
<1>1. CASE UNCHANGED vars
    BY <1>1, StutterStep
<1>2. CASE \E p \in Proc : Kill(p)
    BY <1>2, KillStep
<1>3. CASE PowerFail
    BY <1>3, PowerFailStep DEF PowerFail, OneKindOfFailure
<1>4. CASE Edit
    <2>1. CASE \E s \in Source : EditSource(s)
        BY <2>1, EditSourceStep
    <2>2. CASE \E f \in Out, c \in OutVal : EditFile(f, c)
        BY <2>2, EditFileStep, ProjectAssumption
    <2>3. CASE \E m \in ModVal : EditFile(Module, m)
        BY <2>3, EditFileStep, ProjectAssumption
    <2>4. QED BY <1>4, <2>1, <2>2, <2>3 DEF Edit
<1>5. CASE \E p \in Proc, cmd \in Commands, replace \in BOOLEAN : Begin(p, cmd, replace)
    BY <1>5, PlanningSteps
<1>6. CASE \E p \in Proc : BeginRecover(p)
    BY <1>6, PlanningSteps
<1>7. CASE \E p \in Proc : Step(p)
    <2>1. PICK p \in Proc : Step(p)
        BY <1>7
    <2>2. CASE Load(p) \/ Capture(p) \/ Bind(p) \/ \E f \in Out : ReadOutput(p, f)
        BY <2>2, PlanningSteps
    <2>3. CASE SavePlan(p) \/ ChoosePlan(p) \/ CheckPlan(p) \/ CheckCurrent(p) \/ Lock(p) \/ RemoveSavedPlan(p)
        BY <2>3, CommandSteps
    <2>4. CASE \/ VerifyLocked(p) \/ ReadJournal(p) \/ CheckExpected(p) \/ VerifyFinal(p)
               \/ \E mod \in SUBSET Requirement : Resolve(p, mod)
        BY <2>4, LockedSteps
    <2>5. CASE \E f \in Path : WriteFile(p, f)
        BY <2>5, WriteFileStep
    <2>6. CASE WriteJournal(p) \/ SyncJournal(p) \/ SyncFile(p) \/ RemoveJournal(p) \/ SyncRemoval(p)
        BY <2>6, WriteJournalStep, SyncJournalStep, SyncFileStep, RemoveJournalStep, SyncRemovalStep
    <2>7. QED BY <2>1, <2>2, <2>3, <2>4, <2>5, <2>6 DEF Step
<1>8. QED BY <1>1, <1>2, <1>3, <1>4, <1>5, <1>6, <1>7 DEF Next

\* The inductive invariant holds of every behaviour of the commands of
\* internal/compiler, for any number of processes, files, sources and edits.
THEOREM Invariance == ASSUME OneKindOfFailure PROVE Spec => []CoreInv
<1>1. Init => CoreInv
    BY Initially
<1>2. CoreInv /\ [Next]_vars => CoreInv'
    BY Inductive
<1>3. QED BY <1>1, <1>2, PTL DEF Spec

\* Every reachable state is well typed, and every journal that a command writes
\* is one that validateTransaction accepts.
THEOREM TypeCorrectness == ASSUME OneKindOfFailure PROVE Spec => []TypeOK
<1>1. CoreInv => TypeOK
    BY DEF CoreInv
<1>2. QED BY <1>1, Invariance, PTL

\* The record and the generated files change as one unit: whenever no journal is
\* pending, each file that nobody edited is what the record says
\* (executeTransaction, Recover).
THEOREM RecordAndOutputAgree == ASSUME OneKindOfFailure PROVE Spec => []RecordMatchesOutput
<1>1. ASSUME CoreInv PROVE RecordMatchesOutput
    <2>1. SUFFICES ASSUME journal = NoTx, disk[Record] # Absent
                   PROVE  \A f \in Out \ edited : disk[f] = disk[Record].files[f]
        BY DEF RecordMatchesOutput
    <2>2. Agrees(disk)
        BY <1>1, <2>1, TreeOfNoTx DEF CoreInv, TypeOK
    <2>3. QED BY <2>1, <2>2 DEF Agrees, Files
<1>2. CoreInv => RecordMatchesOutput
    BY <1>1
<1>3. QED BY <1>2, Invariance, PTL


\* Only an operation of executeTransaction leads a process to the sync of what it
\* wrote, and only the rename of the journal to the sync of the journal.
LEMMA OnlyWrites ==
    ASSUME CoreInv, Next, NEW p \in Proc, pc'[p] \in {"sync", "journaled"}, pc[p] # pc'[p]
    PROVE  (\E f \in Path : WriteFile(p, f)) \/ WriteJournal(p)
<1> DEFINE Elsewhere(q) == \E l \in Label \ {"sync", "journaled"} : pc' = [pc EXCEPT ![q] = l]
<1>0. pc \in [Proc -> Label] /\ "idle" \in Label
    BY DEF CoreInv, TypeOK, Label
<1>1. pc' # pc /\ \A q \in Proc : ~Elsewhere(q)
    BY <1>0
<1>2. \A q \in Proc : ~Return(q)
    BY <1>0, <1>1 DEF Return
<1>3. \A q \in Proc, l \in Label : Goto(q, l) => l \in {"sync", "journaled"}
    BY <1>1 DEF Goto
<1> HIDE DEF Elsewhere
<1>4. ~Edit
    BY <1>1 DEF Edit, EditSource, EditFile
<1>5. ~PowerFail
    BY DEF PowerFail
<1>6. \A q \in Proc : ~Kill(q) /\ ~BeginRecover(q)
    <2>1. "lock" \in Label
        BY DEF Label
    <2>2. QED BY <1>2, <1>3, <2>1 DEF Kill, BeginRecover
<1>7. \A q \in Proc, cmd \in Commands, replace \in BOOLEAN : ~Begin(q, cmd, replace)
    BY <1>3 DEF Begin, Label
<1>8. PICK q \in Proc : Step(q)
    BY <1>4, <1>5, <1>6, <1>7 DEF Next
<1>9. ~Load(q) /\ ~Capture(q) /\ ~Bind(q) /\ \A f \in Out : ~ReadOutput(q, f)
    BY <1>1, <1>2, <1>3 DEF Load, Capture, Bind, ReadOutput, Label
<1>10. ~SavePlan(q) /\ ~ChoosePlan(q) /\ ~CheckPlan(q) /\ ~CheckCurrent(q)
    BY <1>2, <1>3 DEF SavePlan, ChoosePlan, CheckPlan, CheckCurrent, Label
<1>11. ~Lock(q) /\ ~ReadJournal(q) /\ ~CheckExpected(q) /\ ~VerifyFinal(q)
    BY <1>2, <1>3 DEF Lock, ReadJournal, CheckExpected, VerifyFinal, Label, Holding, Executing
<1>12. \A tx : ~Prepare(q, tx)
    BY <1>2, <1>3 DEF Prepare, Label, Holding
<1>13. ~VerifyLocked(q) /\ \A mod \in SUBSET Requirement : ~Resolve(q, mod)
    BY <1>2, <1>3, <1>12 DEF VerifyLocked, Resolve, Label, Holding
<1>14. ~SyncJournal(q) /\ ~SyncFile(q)
    BY <1>3 DEF SyncJournal, SyncFile, Label, Holding, Executing
<1>15. ~RemoveJournal(q) /\ ~SyncRemoval(q) /\ ~RemoveSavedPlan(q)
    BY <1>2, <1>3 DEF RemoveJournal, SyncRemoval, RemoveSavedPlan, Label, Holding
<1>16. (\E f \in Path : WriteFile(q, f)) \/ WriteJournal(q)
    BY <1>8, <1>9, <1>10, <1>11, <1>13, <1>14, <1>15 DEF Step
<1>17. q = p
    BY <1>0, <1>16 DEF WriteFile, WriteJournal, Goto
<1>18. QED BY <1>16, <1>17

\* A process changes a file only under the lock, and only as the pending journal
\* says (lockProject, executeTransaction).
THEOREM WritesAreJournaled == ASSUME OneKindOfFailure PROVE Spec => WritesFollowJournal
<1> DEFINE Journaled(p) == /\ lock = p /\ journal # NoTx
                           /\ \A f \in Path : disk'[f] # disk[f] =>
                                 f \in journal.watch /\ disk'[f] = journal.after[f]
           A == \A p \in Proc : pc[p] = "write" /\ pc'[p] = "sync" => Journaled(p)
<1>1. ASSUME CoreInv, Next, NEW p \in Proc, pc[p] = "write", pc'[p] = "sync" PROVE Journaled(p)
    <2>1. lock = p /\ IsTx(job[p].tx) /\ journal = job[p].tx /\ IsTree(disk)
        BY <1>1 DEF CoreInv, TypeOK, LockHeld, Ready, Held, Holding, Executing
    <2>2. PICK f \in Path : WriteFile(p, f)
        BY <1>1, OnlyWrites DEF WriteJournal
    <2>3. f \in journal.watch /\ journal # NoTx
        BY <2>1, <2>2, TxParts DEF WriteFile, Operations
    <2>4. disk' \in {disk, [disk EXCEPT ![f] = journal.after[f]]}
        BY <2>1, <2>2 DEF WriteFile
    <2>5. QED BY <2>1, <2>3, <2>4 DEF IsTree
<1>2. CoreInv /\ [Next]_vars => [A]_vars
    BY <1>1
<1>3. QED BY <1>2, Invariance, PTL DEF Spec, WritesFollowJournal

-----------------------------------------------------------------------------
(***************************************************************************)
(* What plans and journals say of the project: the rest of the inductive   *)
(* invariant of ApplyTransaction, the properties of single commands that   *)
(* follow from it, and the refinement of AtomicApply.                      *)
(***************************************************************************)

(***************************************************************************)
(* Journals of plans.                                                      *)
(***************************************************************************)

\* The paths are different from each other.
LEMMA PathParts ==
    /\ Module # Record /\ Module \notin Out /\ Record \notin Out
    /\ Module \in Path /\ Record \in Path /\ Out \subseteq Path
BY ProjectAssumption DEF Module, Record, Path

\* The parts of a journal.
LEMMA JournalParts ==
    ASSUME NEW s, NEW snap, NEW goal
    PROVE  /\ Journal(s, snap, goal).watch = Watch(s, snap[Record])
           /\ \A f \in Watch(s, snap[Record]) :
                 /\ f \in Path
                 /\ Journal(s, snap, goal).before[f] = snap[f]
                 /\ Journal(s, snap, goal).after[f] = goal[f]
           /\ Module \in Watch(s, snap[Record]) /\ Record \in Watch(s, snap[Record])
BY DEF Journal, Watch, Path

\* What an apply or a `stego deps` journals is planned from its source
\* (computePlan, mergeCapturedModule, validateResolvedModule).
LEMMA JournalIsPlanned ==
    ASSUME NEW s \in Source, NEW snap, IsTree(snap), NEW goal,
           goal[Record] = NewState(s, snap),
           goal[Module] \in SUBSET Requirement, Required[s] \subseteq goal[Module]
    PROVE  Planned(Journal(s, snap, goal))
<1> DEFINE tx == Journal(s, snap, goal)
<1>1. /\ tx.watch = Watch(s, snap[Record]) /\ tx.before[Record] = snap[Record]
      /\ tx.after[Record] = NewState(s, snap) /\ tx.after[Module] = goal[Module]
    BY JournalParts
<1>2. Merge(s, snap[Module]) \in SUBSET Requirement /\ Required[s] \subseteq Merge(s, snap[Module])
    BY NewStateType DEF Merge
<1>3. NewState(s, snap) = [source |-> s, module |-> Merge(s, snap[Module]), files |-> Generate[s]]
    BY DEF NewState
<1> HIDE DEF tx
<1>4. QED BY <1>1, <1>2, <1>3 DEF Planned, tx

\* Of an apply without hand edits, the journal spares what differs from the record
\* (refuseHandEdits).
LEMMA JournalSpares ==
    ASSUME NEW s, NEW snap, NEW goal, HandEdited(snap) = {}
    PROVE  Spares(Journal(s, snap, goal))
<1> DEFINE tx == Journal(s, snap, goal)
<1>1. \A f \in Operations(tx) \cap Out : f \in Watch(s, snap[Record]) /\ tx.before[f] = snap[f]
    BY JournalParts, PathParts DEF Operations
<1>2. tx.before[Record] = snap[Record]
    BY JournalParts
<1>3. \A f \in Out : Files(snap[Record])[f] \in {Absent, snap[f]}
    BY DEF HandEdited
<1>4. QED BY <1>1, <1>2, <1>3 DEF Spares

\* `stego deps` has no operation on a generated file (commitResolvedModules).
LEMMA DepsJournal ==
    ASSUME NEW s, NEW snap, NEW mod, OutputChanges(s, snap) = {}
    PROVE  Operations(Journal(s, snap, [Desired(s, snap) EXCEPT ![Module] = mod])) \cap Out = {}
<1> DEFINE goal == [Desired(s, snap) EXCEPT ![Module] = mod]
           tx == Journal(s, snap, goal)
<1>1. \A f \in Out : goal[f] = Desired(s, snap)[f]
    BY PathParts DEF Desired
<1> HIDE DEF goal
<1>2. \A f \in Operations(tx) \cap Out :
          f \in Watch(s, snap[Record]) /\ f # Record /\ snap[f] # Desired(s, snap)[f]
    BY <1>1, JournalParts, PathParts DEF Operations
<1>3. \A f \in Operations(tx) \cap Out : f \in OutputChanges(s, snap)
    BY <1>2 DEF OutputChanges
<1>4. QED BY <1>3 DEF goal

\* A project that holds what a plan wanted needs no second one (computePlan with the
\* module file in the input manifest).
LEMMA PlanIsIdempotent ==
    ASSUME NEW s \in Source, NEW snap, IsTree(snap), NEW d, IsTree(d),
           \A f \in Watch(s, snap[Record]) : d[f] = Desired(s, snap)[f]
    PROVE  ~HasChanges(s, d)
<1>1. d[Record] = NewState(s, snap) /\ d[Module] = Merge(s, snap[Module])
    BY PathParts DEF Desired, Watch
<1>2. \A f \in Out : Generate[s][f] # Absent => d[f] = Generate[s][f]
    BY PathParts DEF Desired, Watch, Path
<1>3. NewState(s, snap) \in StateRecord /\ NewState(s, snap).files = Generate[s]
      /\ Merge(s, snap[Module]) \in SUBSET Requirement
    BY NewStateType
<1>4. NewState(s, snap) # Absent /\ Merge(s, snap[Module]) # Absent
    BY <1>3, ProjectAssumption
<1>5. Merge(s, d[Module]) = d[Module]
    BY <1>1, <1>4 DEF Merge
<1>6. NewState(s, d) = d[Record]
    BY <1>1, <1>5 DEF NewState
<1>7. Files(d[Record]) = Generate[s]
    BY <1>1, <1>3, <1>4 DEF Files
<1>8. \A f \in Path : Desired(s, d)[f] = IF f = Record THEN NewState(s, d)
                                        ELSE IF f = Module THEN Merge(s, d[Module]) ELSE Generate[s][f]
    BY DEF Desired
<1>9. \A f \in Watch(s, d[Record]) \ {Record} :
          f \in Path /\ (f = Module \/ (f \in Out /\ Generate[s][f] # Absent))
    BY <1>7, PathParts DEF Watch
<1>10. OutputChanges(s, d) = {}
    <2>1. \A f \in Watch(s, d[Record]) \ {Record} : Desired(s, d)[f] = d[f]
        BY <1>2, <1>5, <1>8, <1>9, PathParts
    <2>2. QED BY <1>9, <2>1, PathParts DEF OutputChanges
<1>11. QED BY <1>6, <1>10 DEF HasChanges

-----------------------------------------------------------------------------
(***************************************************************************)
(* Steps of one process.                                                   *)
(***************************************************************************)

\* The state that the invariant relates plans and journals to.
dataVars == <<source, disk, durable, journal, journalDurable, late, edited, consent,
              current, done>>

\* The invariant at a process.
LEMMA AtPlan ==
    ASSUME IndInv, NEW p \in Proc
    PROVE  /\ CoreInv /\ Pended /\ Met(Tree(journal))
           /\ Chosen(pc[p], job[p]) /\ Prepared(pc[p], job[p]) /\ Tracked(pc[p], job[p])
           /\ IsJob(job[p]) /\ pc[p] \in Label
           /\ Ready(pc[p], job[p]) /\ Held(pc[p], job[p])
           /\ pc[p] \in Holding <=> lock = p
           /\ job = [q \in Proc |-> job[q]] /\ pc \in [Proc -> Label]
           /\ source \in Source /\ IsTree(disk) /\ NoProc \notin Proc
BY AtProcess DEF IndInv, PlanInv

\* Where a process goes, and that the others stay.
LEMMA MoveParts ==
    ASSUME IndInv, NEW p \in Proc, NEW l, NEW j, Moves(p, l, j)
    PROVE  /\ pc'[p] = l /\ job'[p] = j
           /\ \A q \in Proc : q # p => pc'[q] = pc[q] /\ job'[q] = job[q]
BY AtPlan DEF Moves

\* A step that changes nothing but the label, the job and the lock.
LEMMA PlanLocal ==
    ASSUME IndInv, NEW p \in Proc, NEW l, NEW j, Moves(p, l, j), UNCHANGED dataVars,
           Chosen(l, j), Prepared(l, j), Tracked(l, j)
    PROVE  PlanInv'
<1>1. /\ pc'[p] = l /\ job'[p] = j
      /\ \A q \in Proc : q # p => pc'[q] = pc[q] /\ job'[q] = job[q]
    BY MoveParts
<1>2. \A q \in Proc :
          Chosen(pc[q], job[q]) /\ Prepared(pc[q], job[q]) /\ Tracked(pc[q], job[q])
    BY DEF IndInv, PlanInv
<1>3. \A q \in Proc : Chosen(pc'[q], job'[q]) /\ Prepared(pc'[q], job'[q])
    BY <1>1, <1>2
<1>4. \A q \in Proc : Tracked(pc'[q], job'[q])
    BY <1>1, <1>2
<1>5. ASSUME NEW q \in Proc PROVE Tracked(pc[q], job[q])'
    BY <1>4 DEF dataVars, Tracked, Met
<1>6. Pended' /\ Met(Tree(journal))'
    BY DEF IndInv, PlanInv, Pended, Met, Tree, dataVars
<1>7. QED BY <1>3, <1>5, <1>6 DEF PlanInv

\* A step of the holder of the lock: the others hold no journal.
LEMMA PlanHolder ==
    ASSUME IndInv, NEW p \in Proc, pc[p] \in Holding, NEW l, NEW j, Moves(p, l, j),
           Chosen(l, j), Prepared(l, j), Tracked(pc[p], job[p])', Pended', Met(Tree(journal))'
    PROVE  PlanInv'
<1>1. /\ pc'[p] = l /\ job'[p] = j
      /\ \A q \in Proc : q # p => pc'[q] = pc[q] /\ job'[q] = job[q]
    BY MoveParts
<1>2. \A q \in Proc : q # p => pc'[q] \notin Holding
    BY <1>1, HolderState DEF IndInv
<1>3. \A q \in Proc : Chosen(pc[q], job[q]) /\ Prepared(pc[q], job[q])
    BY DEF IndInv, PlanInv
<1>4. \A q \in Proc : Chosen(pc'[q], job'[q]) /\ Prepared(pc'[q], job'[q])
    BY <1>1, <1>3
<1>5. ASSUME NEW q \in Proc PROVE Tracked(pc[q], job[q])'
    <2>1. CASE q = p
        BY <2>1
    <2>2. CASE q # p
        BY <1>2, <2>2 DEF Tracked, Holding, Executing
    <2>3. QED BY <2>1, <2>2
<1>6. QED BY <1>4, <1>5 DEF PlanInv

\* Outside of the commands there is nothing to say.
LEMMA AtRest == Chosen("idle", NoJob) /\ Prepared("idle", NoJob) /\ Tracked("idle", NoJob)
BY DEF Chosen, Prepared, Tracked, Executing

\* A command that returns.
LEMMA PlanReturn ==
    ASSUME IndInv, NEW p \in Proc, Return(p), UNCHANGED dataVars
    PROVE  PlanInv'
<1>1. Moves(p, "idle", NoJob)
    BY DEF Return, Moves, Holding, Executing
<1>2. QED BY <1>1, AtRest, PlanLocal

\* A step that changes only a label outside of the lock.
LEMMA PlanGoto ==
    ASSUME IndInv, NEW p \in Proc, NEW l, Goto(p, l), UNCHANGED <<job, lock, dataVars>>,
           l \notin Holding, pc[p] \notin Holding, Chosen(l, job[p]),
           Prepared(l, job[p]), Tracked(l, job[p])
    PROVE  PlanInv'
<1>1. Moves(p, l, job[p])
    BY AtPlan DEF Goto, Moves
<1>2. QED BY <1>1, PlanLocal

\* Reconcile.
LEMMA PlanningPlan ==
    ASSUME IndInv, NEW p \in Proc,
           \/ \E cmd \in Commands, replace \in BOOLEAN : Begin(p, cmd, replace)
           \/ BeginRecover(p) \/ Load(p) \/ Capture(p) \/ Bind(p)
           \/ \E f \in Out : ReadOutput(p, f)
    PROVE  PlanInv'
<1> USE DEF Holding, Executing
<1>0. /\ Chosen(pc[p], job[p]) /\ (pc[p] \in Holding <=> lock = p)
      /\ job = [q \in Proc |-> job[q]] /\ pc \in [Proc -> Label] /\ NoProc \notin Proc
      /\ IsJob(job[p])
    BY AtPlan
<1>1. ASSUME NEW l, l \in {"begun", "load", "snapshot", "planned"}, NEW j, j.cmd # "recover"
      PROVE  Chosen(l, j) /\ Prepared(l, j) /\ Tracked(l, j)
    BY <1>1 DEF Chosen, Prepared, Tracked
<1>2. CASE \E cmd \in Commands, replace \in BOOLEAN : Begin(p, cmd, replace)
    <2>1. PICK cmd \in Commands, replace \in BOOLEAN : Begin(p, cmd, replace)
        BY <1>2
    <2>2. Moves(p, "begun", NewJob(cmd, replace)) /\ UNCHANGED dataVars
        BY <1>0, <2>1 DEF Begin, Moves, Goto, dataVars, diskVars, journalVars, execVars, historyVars
    <2>3. NewJob(cmd, replace).cmd # "recover"
        BY <2>1 DEF Begin, NewJob
    <2>4. QED BY <1>1, <2>2, <2>3, PlanLocal
<1>3. CASE BeginRecover(p)
    <2>1. Moves(p, "lock", NewJob("recover", FALSE)) /\ UNCHANGED dataVars
        BY <1>0, <1>3 DEF BeginRecover, Moves, Goto, dataVars, diskVars, journalVars, execVars, historyVars
    <2>2. NewJob("recover", FALSE).cmd = "recover"
        BY DEF NewJob
    <2>3. /\ Chosen("lock", NewJob("recover", FALSE)) /\ Prepared("lock", NewJob("recover", FALSE))
          /\ Tracked("lock", NewJob("recover", FALSE))
        BY <2>2 DEF Chosen, Prepared, Tracked
    <2>4. QED BY <2>1, <2>3, PlanLocal
<1>4. CASE Load(p)
    <2> DEFINE j == [job[p] EXCEPT !.source = source]
    <2>1. pc[p] = "begun" /\ Moves(p, "load", j) /\ UNCHANGED dataVars
        BY <1>0, <1>4 DEF Load, Moves, Goto, dataVars, diskVars, journalVars, execVars, historyVars
    <2>2. j.cmd # "recover"
        BY <1>0, <2>1, JobParts DEF Chosen, MakeJob
    <2>3. QED BY <1>1, <2>1, <2>2, PlanLocal
<1>5. CASE Capture(p)
    <2> DEFINE j == [job[p] EXCEPT !.snap[Module] = disk[Module], !.snap[Record] = disk[Record],
                                   !.todo = Watch(source, disk[Record]) \cap Out]
    <2>1. pc[p] = "load" /\ UNCHANGED dataVars
        BY <1>5 DEF Capture, dataVars, diskVars, journalVars, execVars, historyVars
    <2>2. CASE Return(p)
        BY <2>1, <2>2, PlanReturn
    <2>3. CASE Moves(p, "snapshot", j)
        <3>1. j.cmd # "recover"
            BY <1>0, <2>1, JobParts DEF Chosen, MakeJob
        <3>2. QED BY <1>1, <2>1, <2>3, <3>1, PlanLocal
    <2>4. Return(p) \/ Moves(p, "snapshot", j)
        BY <1>0, <1>5, <2>1 DEF Capture, Moves, Goto
    <2>5. QED BY <2>2, <2>3, <2>4
<1>6. CASE Bind(p)
    <2>1. pc[p] = "snapshot" /\ UNCHANGED dataVars
        BY <1>6 DEF Bind, dataVars, diskVars, journalVars, execVars, historyVars
    <2>2. CASE Return(p)
        BY <2>1, <2>2, PlanReturn
    <2>3. CASE Goto(p, "planned") /\ UNCHANGED <<job, lock>>
        <3>1. job[p].cmd # "recover"
            BY <1>0, <2>1 DEF Chosen
        <3>2. QED BY <1>1, <2>1, <2>3, <3>1, PlanGoto
    <2>4. QED BY <1>6, <2>2, <2>3 DEF Bind
<1>7. CASE \E f \in Out : ReadOutput(p, f)
    <2>1. PICK f \in Out : ReadOutput(p, f)
        BY <1>7
    <2> DEFINE j == [job[p] EXCEPT !.snap[f] = disk[f], !.todo = @ \ {f}]
    <2>2. pc[p] = "snapshot" /\ Moves(p, "snapshot", j) /\ UNCHANGED dataVars
        BY <1>0, <2>1, ZenonT(60) DEF ReadOutput, Moves, dataVars, diskVars, journalVars, execVars, historyVars
    <2>3. j.cmd # "recover"
        BY <1>0, <2>2, JobParts DEF Chosen, MakeJob
    <2>4. QED BY <1>1, <2>2, <2>3, PlanLocal
<1>8. QED BY <1>2, <1>3, <1>4, <1>5, <1>6, <1>7

\* The commands, up to the lock, and after the journal.
LEMMA CommandPlan ==
    ASSUME IndInv, NEW p \in Proc,
           SavePlan(p) \/ ChoosePlan(p) \/ CheckPlan(p) \/ CheckCurrent(p) \/ Lock(p)
               \/ ReadJournal(p) \/ RemoveSavedPlan(p)
    PROVE  PlanInv'
<1> USE DEF Holding, Executing
<1>0. /\ Chosen(pc[p], job[p]) /\ (pc[p] \in Holding <=> lock = p) /\ Pended
      /\ job = [q \in Proc |-> job[q]] /\ pc \in [Proc -> Label] /\ NoProc \notin Proc
      /\ IsJob(job[p])
    BY AtPlan
<1>1. CASE SavePlan(p) \/ RemoveSavedPlan(p)
    BY <1>1, PlanReturn DEF SavePlan, RemoveSavedPlan, dataVars, diskVars, journalVars, execVars, historyVars
<1>2. CASE ChoosePlan(p)
    <2> DEFINE j == [job[p] EXCEPT !.saved = IF job[p].cmd = "apply" THEN NoPlan ELSE saved]
    <2>1. pc[p] = "planned" /\ Applies(job[p]) /\ UNCHANGED dataVars
        BY <1>2 DEF ChoosePlan, Applies, dataVars, diskVars, journalVars, execVars, historyVars
    <2>2. CASE Return(p)
        BY <2>1, <2>2, PlanReturn
    <2>3. CASE /\ Goto(p, "chosen") /\ job' = [job EXCEPT ![p] = j] /\ UNCHANGED lock
               /\ job[p].cmd = "apply" \/ saved # NoPlan
        <3>1. Moves(p, "chosen", j)
            BY <1>0, <2>1, <2>3 DEF Goto, Moves
        <3>2. j.cmd = job[p].cmd /\ j.saved = IF job[p].cmd = "apply" THEN NoPlan ELSE saved
            BY <1>0, JobSaved
        <3> HIDE DEF j
        <3>3. Chosen("chosen", j) /\ Prepared("chosen", j) /\ Tracked("chosen", j)
            BY <2>1, <2>3, <3>2 DEF Chosen, Prepared, Tracked, Applies
        <3>4. QED BY <2>1, <3>1, <3>3, PlanLocal
    <2>4. QED BY <1>0, <1>2, <2>1, <2>2, <2>3 DEF ChoosePlan, Applies
<1>3. CASE CheckPlan(p)
    <2>1. pc[p] = "chosen" /\ UNCHANGED dataVars
        BY <1>3 DEF CheckPlan, dataVars, diskVars, journalVars, execVars, historyVars
    <2>2. CASE Return(p)
        BY <2>1, <2>2, PlanReturn
    <2>3. CASE /\ HandEdited(job[p].snap) = {} \/ job[p].replace
               /\ Goto(p, "lock") /\ UNCHANGED <<job, lock>>
        <3>1. Chosen("lock", job[p]) /\ Prepared("lock", job[p]) /\ Tracked("lock", job[p])
            BY <1>0, <2>1, <2>3 DEF Chosen, Prepared, Tracked, Applies
        <3>2. QED BY <2>1, <2>3, <3>1, PlanGoto
    <2>4. QED BY <1>3, <2>2, <2>3 DEF CheckPlan
<1>4. CASE CheckCurrent(p)
    <2>1. pc[p] = "planned" /\ job[p].cmd = "deps" /\ UNCHANGED dataVars
        BY <1>4 DEF CheckCurrent, dataVars, diskVars, journalVars, execVars, historyVars
    <2>2. CASE Return(p)
        BY <2>1, <2>2, PlanReturn
    <2>3. CASE /\ OutputChanges(job[p].source, job[p].snap) = {}
               /\ Goto(p, "lock") /\ UNCHANGED <<job, lock>>
        <3>1. Chosen("lock", job[p]) /\ Prepared("lock", job[p]) /\ Tracked("lock", job[p])
            BY <2>1, <2>3 DEF Chosen, Prepared, Tracked
        <3>2. QED BY <2>1, <2>3, <3>1, PlanGoto
    <2>4. QED BY <1>4, <2>2, <2>3 DEF CheckCurrent
<1>5. CASE Lock(p)
    <2>1. pc[p] = "lock" /\ UNCHANGED dataVars
        BY <1>5 DEF Lock, dataVars, diskVars, journalVars, execVars, historyVars
    <2>2. CASE Return(p)
        BY <2>1, <2>2, PlanReturn
    <2>3. CASE lock = NoProc /\ lock' = p /\ UNCHANGED job
               /\ Goto(p, IF job[p].cmd = "recover" THEN "read" ELSE "locked")
        <3> DEFINE l == IF job[p].cmd = "recover" THEN "read" ELSE "locked"
        <3>1. Moves(p, l, job[p])
            BY <1>0, <2>3 DEF Moves, Goto
        <3>2. Chosen(l, job[p]) /\ Prepared(l, job[p]) /\ Tracked(l, job[p])
            BY <1>0, <2>1 DEF Chosen, Prepared, Tracked
        <3>3. QED BY <2>1, <3>1, <3>2, PlanLocal
    <2>4. QED BY <1>5, <2>2, <2>3 DEF Lock
<1>6. CASE ReadJournal(p)
    <2> DEFINE j == [job[p] EXCEPT !.tx = journal]
    <2>1. pc[p] = "read" /\ UNCHANGED dataVars
        BY <1>6 DEF ReadJournal, dataVars, diskVars, journalVars, execVars, historyVars
    <2>2. CASE Return(p)
        BY <2>1, <2>2, PlanReturn
    <2>3. CASE /\ journal # NoTx /\ Goto(p, "check") /\ UNCHANGED lock
               /\ job' = [job EXCEPT ![p] = j]
        <3>1. Moves(p, "check", j)
            BY <1>0, <2>1, <2>3 DEF Moves, Goto
        <3>2. IsTx(journal) /\ Planned(journal)
            BY <1>0, <2>3, AtPlan DEF CoreInv, TypeOK, Pended
        <3>3. j.cmd = "recover" /\ j.tx = journal
            BY <1>0, <2>1, <3>2, JobTx DEF Chosen
        <3> HIDE DEF j
        <3>4. Chosen("check", j) /\ Prepared("check", j) /\ Tracked("check", j)
            BY <3>2, <3>3 DEF Chosen, Prepared, Tracked, Applies
        <3>5. QED BY <2>1, <3>1, <3>4, PlanLocal
    <2>4. QED BY <1>6, <2>2, <2>3 DEF ReadJournal
<1>7. QED BY <1>1, <1>2, <1>3, <1>4, <1>5, <1>6

\* A killed process leaves what it renamed.
LEMMA KillPlan ==
    ASSUME IndInv, NEW p \in Proc, Kill(p)
    PROVE  PlanInv'
<1>0. /\ pc[p] \in Holding <=> lock = p
      /\ Pended /\ Met(Tree(journal))
    BY AtPlan
<1>1. Moves(p, "idle", NoJob) /\ pc'[p] = "idle" /\ job'[p] = NoJob
    BY MoveParts DEF Kill, Return, Moves, Holding, Executing
<1>2. UNCHANGED <<source, disk, durable, journal, journalDurable, late, edited, consent>>
    BY DEF Kill, diskVars, journalVars, historyVars
<1>3. CASE lock = p
    <2>1. Pended' /\ Met(Tree(journal))'
        BY <1>0, <1>2 DEF Pended, Met, Tree
    <2>2. Tracked(pc[p], job[p])'
        BY <1>1 DEF Tracked
    <2>3. QED BY <1>0, <1>1, <1>3, <2>1, <2>2, AtRest, PlanHolder
<1>4. CASE lock # p
    <2>1. UNCHANGED dataVars
        BY <1>2, <1>4 DEF Kill, execVars, dataVars
    <2>2. QED BY <1>1, <2>1, AtRest, PlanLocal
<1>5. QED BY <1>3, <1>4

-----------------------------------------------------------------------------
(***************************************************************************)
(* Under the lock.                                                         *)
(***************************************************************************)

\* The checks under the lock have just succeeded: what is prepared is planned from
\* the project as it is.
LEMMA PreparePlan ==
    ASSUME IndInv, NEW p \in Proc, pc[p] \in {"locked", "resolve"}, job[p].source \in Source,
           SnapshotsHold(p), late' = {},
           UNCHANGED <<source, disk, durable, journal, journalDurable, edited, consent,
                       current, done>>,
           NEW goal, NEW tx, tx = Journal(job[p].source, job[p].snap, goal), Prepare(p, tx),
           IsTx(tx), Planned(tx), job[p].replace \/ Spares(tx),
           job[p].cmd = "deps" => Operations(tx) \cap Out = {},
           job[p].cmd # "deps" => Applies(job[p]) /\ goal = Desired(job[p].source, job[p].snap),
           job[p].cmd = "apply-saved" => job[p].saved = SavedPlan(job[p].source, job[p].snap)
    PROVE  PlanInv'
<1> USE DEF Holding, Executing
<1>0. /\ Pended /\ Met(Tree(journal)) /\ (pc[p] \in Holding <=> lock = p) /\ IsJob(job[p])
      /\ job = [q \in Proc |-> job[q]] /\ pc \in [Proc -> Label] /\ NoProc \notin Proc
    BY AtPlan
<1>1. Pended' /\ Met(Tree(journal))'
    BY <1>0 DEF Pended, Met, Tree
<1>2. /\ source = job[p].source
      /\ \A f \in tx.watch : disk[f] = tx.before[f]
      /\ \A f \in Watch(job[p].source, job[p].snap[Record]) :
            /\ f \in Path /\ disk[f] = tx.before[f] /\ tx.after[f] = goal[f]
    BY JournalParts DEF SnapshotsHold, FilesHold
<1>3. CASE Return(p)
    <2>1. Moves(p, "idle", NoJob) /\ pc'[p] = "idle"
        BY <1>3, MoveParts DEF Return, Moves
    <2>2. Tracked(pc[p], job[p])'
        BY <2>1 DEF Tracked
    <2>3. QED BY <1>1, <2>1, <2>2, AtRest, PlanHolder
<1>4. CASE /\ tx.before = tx.after /\ job[p].cmd # "deps"
           /\ Goto(p, "unsave") /\ UNCHANGED <<job, lock>>
    <2>1. Moves(p, "unsave", job[p]) /\ pc'[p] = "unsave" /\ job'[p] = job[p]
        BY <1>0, <1>4 DEF Goto, Moves
    <2>2. Chosen("unsave", job[p]) /\ Prepared("unsave", job[p])
        BY DEF Chosen, Prepared
    <2>3. Tracked(pc[p], job[p])'
        BY <1>2, <1>4, <2>1 DEF Tracked
    <2>4. QED BY <1>1, <2>1, <2>2, <2>3, PlanHolder
<1>5. CASE Goto(p, "prepare") /\ UNCHANGED lock /\ job' = [job EXCEPT ![p].tx = tx]
    <2> DEFINE j == [job[p] EXCEPT !.tx = tx]
    <2>1. Moves(p, "prepare", j) /\ pc'[p] = "prepare" /\ job'[p] = j
        BY <1>0, <1>5 DEF Goto, Moves
    <2>2. /\ j.tx = tx /\ j.cmd = job[p].cmd /\ j.source = job[p].source /\ j.snap = job[p].snap
          /\ j.saved = job[p].saved /\ j.replace = job[p].replace
        BY <1>0, JobTx
    <2> HIDE DEF j
    <2>3. Chosen("prepare", j) /\ Prepared("prepare", j)
        BY <2>2 DEF Chosen, Prepared, Applies, PlanJournal
    <2>4. Tracked(pc[p], job[p])'
        BY <1>2, <2>1, <2>2 DEF Tracked
    <2>5. QED BY <1>1, <2>1, <2>3, <2>4, PlanHolder
<1>6. QED BY <1>3, <1>4, <1>5 DEF Prepare

\* Both commands check again under the lock.
LEMMA VerifyPlan ==
    ASSUME IndInv, NEW p \in Proc,
           VerifyLocked(p) \/ \E mod \in SUBSET Requirement : Resolve(p, mod)
    PROVE  PlanInv'
<1> USE DEF Holding, Executing
<1> DEFINE s == job[p].source
           snap == job[p].snap
<1>0. /\ Chosen(pc[p], job[p]) /\ Pended /\ Met(Tree(journal))
      /\ Ready(pc[p], job[p]) /\ IsJob(job[p])
      /\ (pc[p] \in Holding <=> lock = p)
      /\ job = [q \in Proc |-> job[q]] /\ pc \in [Proc -> Label] /\ NoProc \notin Proc
    BY AtPlan
<1>1. IsTree(snap)
    BY <1>0 DEF IsJob
<1>2. CASE VerifyLocked(p)
    <2>1. pc[p] = "locked" /\ s \in Source
          /\ UNCHANGED <<source, disk, durable, journal, journalDurable, edited, consent,
                         current, done>>
        BY <1>0, <1>2 DEF VerifyLocked, Ready, diskVars, journalVars, execVars
    <2>2. CASE Return(p) /\ UNCHANGED late
        BY <2>1, <2>2, PlanReturn DEF dataVars
    <2>3. CASE SnapshotsHold(p) /\ StillApplies(p) /\ late' = {} /\ job[p].cmd = "deps"
               /\ Goto(p, "resolve") /\ UNCHANGED <<job, lock>>
        <3>1. Moves(p, "resolve", job[p]) /\ pc'[p] = "resolve" /\ job'[p] = job[p]
            BY <1>0, <2>1, <2>3 DEF Goto, Moves
        <3>2. Chosen("resolve", job[p]) /\ Prepared("resolve", job[p])
            BY <1>0, <2>1, <2>3 DEF Chosen, Prepared
        <3>3. Tracked(pc[p], job[p])'
            BY <3>1 DEF Tracked
        <3>4. Pended' /\ Met(Tree(journal))'
            BY <1>0, <2>1 DEF Pended, Met, Tree
        <3>5. QED BY <2>1, <3>1, <3>2, <3>3, <3>4, PlanHolder
    <2>4. CASE /\ SnapshotsHold(p) /\ StillApplies(p) /\ late' = {} /\ job[p].cmd # "deps"
               /\ Prepare(p, Journal(s, snap, Desired(s, snap)))
        <3> DEFINE tx == Journal(s, snap, Desired(s, snap))
        <3>1. Applies(job[p]) /\ (HandEdited(snap) = {} \/ job[p].replace)
            BY <1>0, <2>1, <2>4 DEF Chosen
        <3>2. job[p].cmd = "apply-saved" => job[p].saved = SavedPlan(s, snap)
            BY <1>0, <2>1, <2>4 DEF Chosen, StillApplies
        <3>3. /\ IsTree(Desired(s, snap)) /\ Desired(s, snap)[Record] = NewState(s, snap)
              /\ Desired(s, snap)[Module] \in SUBSET Requirement
              /\ \A f \in Out : Desired(s, snap)[f] = Generate[s][f]
            BY <1>1, <2>1, DesiredType
        <3>4. Required[s] \subseteq Desired(s, snap)[Module]
            BY PathParts DEF Desired, Merge
        <3>5. IsTx(tx) /\ Planned(tx)
            BY <1>1, <2>1, <3>3, <3>4, JournalType, JournalIsPlanned
        <3>6. job[p].replace \/ Spares(tx)
            BY <3>1, JournalSpares
        <3> HIDE DEF s, snap
        <3>7. QED BY <2>1, <2>4, <3>1, <3>2, <3>5, <3>6, PreparePlan DEF s, snap
    <2>5. QED BY <1>2, <2>2, <2>3, <2>4 DEF VerifyLocked
<1>3. CASE \E mod \in SUBSET Requirement : Resolve(p, mod)
    <2>1. PICK mod \in SUBSET Requirement : Resolve(p, mod)
        BY <1>3
    <2> DEFINE goal == [Desired(s, snap) EXCEPT ![Module] = mod]
               tx == Journal(s, snap, goal)
    <2>2. pc[p] = "resolve" /\ s \in Source /\ job[p].cmd = "deps"
          /\ UNCHANGED <<source, disk, durable, journal, journalDurable, edited, consent,
                         current, done>>
        BY <1>0, <2>1 DEF Resolve, Ready, Chosen, diskVars, journalVars, execVars
    <2>3. CASE Return(p) /\ UNCHANGED late
        BY <2>2, <2>3, PlanReturn DEF dataVars
    <2>4. CASE Required[s] \subseteq mod /\ SnapshotsHold(p) /\ late' = {} /\ Prepare(p, tx)
        <3>1. /\ IsTree(Desired(s, snap)) /\ Desired(s, snap)[Record] = NewState(s, snap)
              /\ \A f \in Out : Desired(s, snap)[f] = Generate[s][f]
            BY <1>1, <2>2, DesiredType
        <3>2. /\ goal = [f \in Path |-> goal[f]] /\ goal[Module] = mod
              /\ \A f \in Path \ {Module} : goal[f] = Desired(s, snap)[f]
            BY PathParts DEF Desired
        <3> HIDE DEF goal
        <3>3. /\ goal[Record] = NewState(s, snap) /\ \A f \in Out : goal[f] = Generate[s][f]
            BY <3>1, <3>2, PathParts
        <3>4. IsTree(goal)
            BY <3>1, <3>2, <3>3, PathParts DEF IsTree, ModVal
        <3>5. IsTx(tx) /\ Planned(tx)
            BY <1>1, <2>2, <2>4, <3>2, <3>3, <3>4, JournalType, JournalIsPlanned
        <3>6. Operations(tx) \cap Out = {}
            BY <1>0, <2>2, DepsJournal DEF goal, Chosen
        <3>7. Spares(tx)
            BY <3>6 DEF Spares
        <3> HIDE DEF s, snap
        <3>8. QED BY <2>2, <2>4, <3>5, <3>6, <3>7, PreparePlan DEF s, snap
    <2>5. QED BY <2>1, <2>3, <2>4 DEF Resolve
<1>4. QED BY <1>2, <1>3

\* A tree with the record and go.mod of a planned journal meets its requirements.
LEMMA PlannedMet ==
    ASSUME NEW tx, Planned(tx), NEW tree, tree[Record] = tx.after[Record],
           Module \notin edited => tree[Module] = tx.after[Module]
    PROVE  Met(tree)
BY DEF Planned, Met

\* So does the project with the journal applied, whatever was edited.
LEMMA PlannedTree ==
    ASSUME NEW tx, IsTx(tx), Planned(tx)
    PROVE  Met(Tree(tx))
<1>1. Tree(tx)[Record] = tx.after[Record] /\ Tree(tx)[Module] = tx.after[Module]
    BY TxParts DEF Tree
<1>2. QED BY <1>1, PlannedMet

\* The journal appears, and becomes durable (commitTransaction).
LEMMA JournalPlan ==
    ASSUME IndInv, NEW p \in Proc, WriteJournal(p) \/ SyncJournal(p)
    PROVE  PlanInv'
<1> USE DEF Holding, Executing
<1>0. /\ Prepared(pc[p], job[p]) /\ Tracked(pc[p], job[p]) /\ Pended /\ Met(Tree(journal))
      /\ Ready(pc[p], job[p]) /\ Held(pc[p], job[p]) /\ IsTree(disk)
      /\ (pc[p] \in Holding <=> lock = p)
      /\ job = [q \in Proc |-> job[q]] /\ pc \in [Proc -> Label] /\ NoProc \notin Proc
    BY AtPlan
<1> DEFINE tx == job[p].tx
<1>1. CASE WriteJournal(p)
    <2>1. /\ pc[p] = "prepare" /\ journal' = tx /\ consent' = job[p].replace
          /\ UNCHANGED <<source, disk, durable, journalDurable, late, edited, current, done>>
        BY <1>1 DEF WriteJournal, diskVars, execVars
    <2>2. /\ IsTx(tx) /\ Planned(tx) /\ (job[p].replace \/ Spares(tx)) /\ journal = NoTx
          /\ disk[Record] = tx.before[Record]
        BY <1>0, <2>1 DEF Ready, Prepared, Held
    <2>3. Moves(p, "journaled", job[p]) /\ pc'[p] = "journaled" /\ job'[p] = job[p]
        BY <1>0, <1>1, <2>1 DEF WriteJournal, Moves, Goto
    <2>4. Chosen("journaled", job[p]) /\ Prepared("journaled", job[p])
        BY <1>0, <2>1 DEF Chosen, Prepared
    <2>5. Met(disk)
        BY <1>0, <2>2, TreeOfNoTx
    <2>6. Tracked(pc[p], job[p])'
        BY <2>1, <2>2, <2>3, <2>5 DEF Tracked, Met
    <2>7. "kill" \notin Failures => journalDurable = NoTx
        <3>1. SyncedBy(p)
            BY <2>1, HolderState DEF IndInv
        <3>2. QED BY <2>1, <2>2, <3>1 DEF SyncedBy
    <2>8. Pended'
        BY <1>0, <2>1, <2>2, <2>7 DEF Pended
    <2>9. Met(Tree(journal))'
        <3>1. Met(Tree(tx))
            BY <2>2, PlannedTree
        <3>2. QED BY <2>1, <3>1 DEF Met, Tree
    <2>10. QED BY <2>1, <2>3, <2>4, <2>6, <2>8, <2>9, PlanHolder
<1>2. CASE SyncJournal(p)
    <2>1. /\ pc[p] = "journaled" /\ journalDurable' = journal
          /\ UNCHANGED <<source, disk, durable, journal, late, edited, consent, current, done>>
        BY <1>2 DEF SyncJournal, diskVars, execVars, historyVars
    <2>2. Moves(p, "check", job[p]) /\ pc'[p] = "check" /\ job'[p] = job[p]
        BY <1>0, <1>2, <2>1 DEF SyncJournal, Moves, Goto
    <2>3. Chosen("check", job[p]) /\ Prepared("check", job[p])
        BY <1>0, <2>1 DEF Chosen, Prepared
    <2>4. Tracked(pc[p], job[p])'
        BY <2>2 DEF Tracked
    <2>5. Pended' /\ Met(Tree(journal))'
        BY <1>0, <2>1 DEF Pended, Met, Tree
    <2>6. QED BY <2>1, <2>2, <2>3, <2>4, <2>5, PlanHolder
<1>3. QED BY <1>1, <1>2

\* executeTransaction, but for the writes.
LEMMA ExecutePlan ==
    ASSUME IndInv, NEW p \in Proc, CheckExpected(p) \/ SyncFile(p) \/ VerifyFinal(p)
    PROVE  PlanInv'
<1> USE DEF Holding, Executing
<1>0. /\ Prepared(pc[p], job[p]) /\ Tracked(pc[p], job[p]) /\ Pended /\ Met(Tree(journal))
      /\ Ready(pc[p], job[p]) /\ Held(pc[p], job[p]) /\ IsTree(disk) /\ IsJob(job[p])
      /\ (pc[p] \in Holding <=> lock = p)
      /\ job = [q \in Proc |-> job[q]] /\ pc \in [Proc -> Label] /\ NoProc \notin Proc
    BY AtPlan
<1> DEFINE tx == job[p].tx
<1>1. CASE CheckExpected(p)
    <2>1. /\ pc[p] = "check"
          /\ UNCHANGED <<source, disk, durable, journal, journalDurable, edited, consent>>
        BY <1>1 DEF CheckExpected, diskVars, journalVars
    <2>2. CASE Return(p) /\ UNCHANGED <<execVars, late>>
        BY <2>1, <2>2, PlanReturn DEF dataVars, execVars
    <2>3. CASE /\ Conflicts(tx, disk) = {} /\ current' = disk /\ done' = {} /\ late' = {}
               /\ Goto(p, "write") /\ UNCHANGED <<job, lock>>
        <3>1. Moves(p, "write", job[p]) /\ pc'[p] = "write" /\ job'[p] = job[p]
            BY <1>0, <2>1, <2>3 DEF Moves, Goto
        <3>2. Chosen("write", job[p]) /\ Prepared("write", job[p])
            BY <1>0, <2>1 DEF Chosen, Prepared
        <3>3. \A f \in tx.watch : disk[f] \in {tx.before[f], tx.after[f]}
            BY <2>3 DEF Conflicts
        <3>4. Tracked(pc[p], job[p])'
            BY <2>1, <2>3, <3>1, <3>3 DEF Tracked
        <3>5. Pended' /\ Met(Tree(journal))'
            BY <1>0, <2>1 DEF Pended, Met, Tree
        <3>6. QED BY <2>1, <3>1, <3>2, <3>4, <3>5, PlanHolder
    <2>4. QED BY <1>1, <2>2, <2>3 DEF CheckExpected
<1>2. CASE SyncFile(p)
    <2> DEFINE j == [job[p] EXCEPT !.todo = {}]
    <2>1. /\ pc[p] = "sync"
          /\ durable' = [f \in Path |-> IF f \in job[p].todo THEN disk[f] ELSE durable[f]]
          /\ journalDurable' \in {journal, journalDurable}
          /\ UNCHANGED <<source, disk, journal, late, edited, consent, current, done>>
        BY <1>2 DEF SyncFile, execVars, historyVars
    <2>2. Moves(p, "write", j) /\ pc'[p] = "write" /\ job'[p] = j
        BY <1>0, <1>2, <2>1 DEF SyncFile, Moves, Goto
    <2>3. j.tx = tx /\ j.cmd = job[p].cmd /\ j.source = job[p].source /\ j.snap = job[p].snap
        BY <1>0, JobTodo
    <2> HIDE DEF j
    <2>4. Chosen("write", j) /\ Prepared("write", j)
        BY <1>0, <2>1, <2>3 DEF Chosen, Prepared, Applies, PlanJournal
    <2>5. \A f \in Path : durable'[f] = disk[f] \/ (durable'[f] = durable[f] /\ f \notin job[p].todo)
        BY <2>1
    <2>6. done \subseteq Path
        BY DEF IndInv, CoreInv, TypeOK
    <2>7. Tracked(pc[p], job[p])'
        BY <1>0, <2>1, <2>2, <2>3, <2>5, <2>6 DEF Tracked
    <2>8. Pended' /\ Met(Tree(journal))'
        BY <1>0, <2>1, <2>5 DEF Pended, Met, Tree
    <2>9. QED BY <2>1, <2>2, <2>4, <2>7, <2>8, PlanHolder
<1>3. CASE VerifyFinal(p)
    <2>1. /\ pc[p] = "write" /\ Operations(tx) \subseteq done
          /\ UNCHANGED <<source, disk, durable, journal, journalDurable, late, edited, consent>>
        BY <1>3 DEF VerifyFinal, diskVars, journalVars, historyVars
    <2>2. Pended' /\ Met(Tree(journal))'
        BY <1>0, <2>1 DEF Pended, Met, Tree
    <2>3. CASE Return(p)
        <3>1. Moves(p, "idle", NoJob) /\ pc'[p] = "idle"
            BY <2>3, MoveParts DEF Return, Moves
        <3>2. Tracked(pc[p], job[p])'
            BY <3>1 DEF Tracked
        <3>3. QED BY <2>1, <2>2, <3>1, <3>2, AtRest, PlanHolder
    <2>4. CASE /\ \A f \in tx.watch : disk[f] = tx.after[f]
               /\ Goto(p, "complete") /\ UNCHANGED <<job, lock>>
        <3>1. Moves(p, "complete", job[p]) /\ pc'[p] = "complete" /\ job'[p] = job[p]
            BY <1>0, <2>1, <2>4 DEF Moves, Goto
        <3>2. Chosen("complete", job[p]) /\ Prepared("complete", job[p])
            BY <1>0, <2>1 DEF Chosen, Prepared
        <3>3. journal = tx
            BY <1>0, <2>1 DEF Held
        <3>4. \A f \in Path : disk[f] = durable[f]
            BY <1>0, <2>1, <3>3 DEF Pended, Tracked
        <3>5. disk = durable
            BY <3>4 DEF IndInv, CoreInv, TypeOK, IsTree
        <3>6. Tracked(pc[p], job[p])'
            BY <2>1, <2>4, <3>1, <3>5 DEF Tracked
        <3>7. QED BY <2>1, <2>2, <3>1, <3>2, <3>6, PlanHolder
    <2>5. QED BY <1>3, <2>3, <2>4 DEF VerifyFinal
<1>4. QED BY <1>1, <1>2, <1>3

\* One operation of executeTransaction.
LEMMA WritePlan ==
    ASSUME IndInv, NEW p \in Proc, NEW f \in Path, WriteFile(p, f)
    PROVE  PlanInv'
<1> USE DEF Holding, Executing
<1>0. /\ Prepared(pc[p], job[p]) /\ Tracked(pc[p], job[p]) /\ Pended /\ IsTree(disk) /\ IsJob(job[p])
      /\ Ready(pc[p], job[p]) /\ Held(pc[p], job[p]) /\ (pc[p] \in Holding <=> lock = p)
      /\ job = [q \in Proc |-> job[q]] /\ pc \in [Proc -> Label] /\ NoProc \notin Proc
    BY AtPlan
<1> DEFINE tx == job[p].tx
           j == [job[p] EXCEPT !.todo = {f}]
<1>1. /\ pc[p] = "write" /\ f \in Operations(tx) \ done /\ done' = done \cup {f}
      /\ disk' \in {disk, [disk EXCEPT ![f] = tx.after[f]]}
      /\ UNCHANGED <<source, durable, journal, journalDurable, late, consent, current>>
    BY DEF WriteFile, journalVars
<1>2. IsTx(tx) /\ Planned(tx) /\ journal = tx
    BY <1>0, <1>1 DEF Ready, Prepared, Held
<1>3. Moves(p, "sync", j) /\ pc'[p] = "sync" /\ job'[p] = j
    BY <1>0, <1>1 DEF WriteFile, Moves, Goto
<1>4. /\ j.tx = tx /\ j.cmd = job[p].cmd /\ j.source = job[p].source /\ j.snap = job[p].snap
      /\ j.todo = {f}
    BY <1>0, JobTodo
<1> HIDE DEF j
<1>5. Chosen("sync", j) /\ Prepared("sync", j)
    BY <1>0, <1>1, <1>4 DEF Chosen, Prepared, Applies, PlanJournal
<1>6. \A g \in Path \ {f} : disk'[g] = disk[g]
    BY <1>0, <1>1 DEF IsTree
<1>7. done \subseteq Path
    BY DEF IndInv, CoreInv, TypeOK
<1>8. Tracked(pc[p], job[p])'
    BY <1>0, <1>1, <1>3, <1>4, <1>6, <1>7 DEF Tracked
<1>9. Pended'
    BY <1>0, <1>1, <1>2, <1>6, TxParts DEF Pended
<1>10. Met(Tree(journal))'
    <2>1. Tree(journal)'[Record] = tx.after[Record] /\ Tree(journal)'[Module] = tx.after[Module]
        BY <1>1, <1>2, TxParts DEF Tree
    <2>2. QED BY <1>2, <2>1 DEF Planned, Met
<1>11. QED BY <1>1, <1>3, <1>5, <1>8, <1>9, <1>10, PlanHolder

\* The journal goes (executeTransaction, at its end).
LEMMA RemovalPlan ==
    ASSUME IndInv, NEW p \in Proc, RemoveJournal(p) \/ SyncRemoval(p)
    PROVE  PlanInv'
<1> USE DEF Holding, Executing
<1>0. /\ Prepared(pc[p], job[p]) /\ Tracked(pc[p], job[p]) /\ Pended /\ Met(Tree(journal))
      /\ Ready(pc[p], job[p]) /\ Held(pc[p], job[p]) /\ IsTree(disk)
      /\ (pc[p] \in Holding <=> lock = p)
      /\ job = [q \in Proc |-> job[q]] /\ pc \in [Proc -> Label] /\ NoProc \notin Proc
    BY AtPlan
<1> DEFINE tx == job[p].tx
<1>1. CASE RemoveJournal(p)
    <2>1. /\ pc[p] = "complete" /\ journal' = NoTx
          /\ UNCHANGED <<source, disk, durable, journalDurable, late, edited, consent, current, done>>
        BY <1>1 DEF RemoveJournal, diskVars, execVars, historyVars
    <2>2. Moves(p, "removed", job[p]) /\ pc'[p] = "removed" /\ job'[p] = job[p]
        BY <1>0, <1>1, <2>1 DEF RemoveJournal, Moves, Goto
    <2>3. Chosen("removed", job[p]) /\ Prepared("removed", job[p])
        BY <1>0, <2>1 DEF Chosen, Prepared
    <2>4. Tracked(pc[p], job[p])'
        BY <1>0, <2>1, <2>2 DEF Tracked
    <2>5. Pended'
        <3>1. disk = durable
            BY <1>0, <2>1 DEF Tracked
        <3>2. QED BY <1>0, <2>1, <3>1 DEF Pended
    <2>6. Record \notin edited
        BY DEF IndInv, CoreInv, TypeOK
    <2>7. IsTx(tx) /\ Planned(tx)
        BY <1>0, <2>1 DEF Ready, Prepared
    <2>8. disk[Record] = tx.after[Record] /\ (Module \notin edited => disk[Module] = tx.after[Module])
        BY <1>0, <2>1, <2>6, <2>7, TxParts DEF Tracked
    <2>9. Met(disk)
        BY <2>7, <2>8, PlannedMet
    <2>10. Met(Tree(journal))'
        BY <1>0, <2>1, <2>9, TreeOfNoTx DEF Met, Tree
    <2>11. QED BY <2>1, <2>2, <2>3, <2>4, <2>5, <2>10, PlanHolder
<1>2. CASE SyncRemoval(p)
    <2>1. /\ pc[p] = "removed" /\ journalDurable' = journal
          /\ UNCHANGED <<source, disk, durable, journal, late, edited, consent, current, done>>
        BY <1>2 DEF SyncRemoval, diskVars, execVars, historyVars
    <2>2. Pended' /\ Met(Tree(journal))'
        BY <1>0, <2>1 DEF Pended, Met, Tree
    <2>3. CASE Return(p)
        <3>1. Moves(p, "idle", NoJob) /\ pc'[p] = "idle"
            BY <2>3, MoveParts DEF Return, Moves
        <3>2. Tracked(pc[p], job[p])'
            BY <3>1 DEF Tracked
        <3>3. QED BY <2>1, <2>2, <3>1, <3>2, AtRest, PlanHolder
    <2>4. CASE Applies(job[p]) /\ Goto(p, "unsave") /\ UNCHANGED <<job, lock>>
        <3>1. Moves(p, "unsave", job[p]) /\ pc'[p] = "unsave" /\ job'[p] = job[p]
            BY <1>0, <2>1, <2>4 DEF Moves, Goto
        <3>2. Chosen("unsave", job[p]) /\ Prepared("unsave", job[p])
            BY DEF Chosen, Prepared
        <3>3. job[p].source \in Source /\ tx = PlanJournal(job[p])
            BY <1>0, <2>1, <2>4 DEF Prepared
        <3>4. \A f \in Watch(job[p].source, job[p].snap[Record]) :
                  f \in tx.watch /\ tx.after[f] = Desired(job[p].source, job[p].snap)[f]
            BY <3>3, JournalParts DEF PlanJournal
        <3>5. Tracked(pc[p], job[p])'
            BY <1>0, <2>1, <3>1, <3>3, <3>4 DEF Tracked
        <3>6. QED BY <2>1, <2>2, <3>1, <3>2, <3>5, PlanHolder
    <2>5. QED BY <1>2, <2>3, <2>4 DEF SyncRemoval, Applies
<1>3. QED BY <1>1, <1>2

-----------------------------------------------------------------------------
(***************************************************************************)
(* The surroundings.                                                       *)
(***************************************************************************)

\* After a power failure no command runs; the journal that is left is one of the
\* two, and the project meets its requirements with it.
LEMMA PowerFailPlan ==
    ASSUME IndInv, PowerFail, "kill" \notin Failures
    PROVE  PlanInv'
<1>0. /\ CoreInv /\ Pended /\ Met(Tree(journal)) /\ IsTree(disk) /\ IsTree(durable)
      /\ Synced /\ \A q \in Proc : Ready(pc[q], job[q]) /\ Held(pc[q], job[q])
      /\ \A q \in Proc : Tracked(pc[q], job[q])
      /\ journal # NoTx => IsTx(journal)
      /\ journalDurable # NoTx => IsTx(journalDurable)
    BY DEF IndInv, PlanInv, CoreInv, TypeOK
<1>1. PICK kept \in SUBSET Path :
          disk' = [f \in Path |-> IF f \in kept THEN disk[f] ELSE durable[f]]
    BY DEF PowerFail
<1>2. /\ durable' = disk' /\ journal' \in {journal, journalDurable} /\ journalDurable' = journal'
      /\ pc' = [p \in Proc |-> "idle"] /\ job' = [p \in Proc |-> NoJob]
      /\ UNCHANGED <<source, late, edited, consent>>
    BY DEF PowerFail, historyVars
<1>3. IsTree(disk') /\ \A f \in Path : disk'[f] \in {disk[f], durable[f]}
    <2>1. IsTree(disk) /\ IsTree(durable)
        BY <1>0
    <2>2. \A f \in Path : disk'[f] \in {disk[f], durable[f]}
        BY <1>1
    <2>3. disk' = [f \in Path |-> disk'[f]]
        BY <1>1
    <2>4. QED BY <2>1, <2>2, <2>3 DEF IsTree, Path
<1>4. \A q \in Proc : Chosen(pc'[q], job'[q]) /\ Prepared(pc'[q], job'[q])
    BY <1>2, AtRest
<1>5. ASSUME NEW q \in Proc PROVE Tracked(pc[q], job[q])'
    BY <1>2 DEF Tracked
<1>6. Pended'
    BY <1>0, <1>2 DEF Pended
<1>7. Met(Tree(journal))'
    <2>1. CASE journal' # NoTx
        <3>1. IsTx(journal') /\ Planned(journal')
            BY <1>0, <1>2, <2>1 DEF Pended
        <3>2. /\ Tree(journal)'[Record] = journal'.after[Record]
              /\ Tree(journal)'[Module] = journal'.after[Module]
            BY <3>1, TxParts DEF Tree
        <3>3. QED BY <3>1, <3>2 DEF Planned, Met
    <2>2. CASE journal' = NoTx
        <3>1. \A p \in Proc : pc[p] # "sync"
            <4>1. SUFFICES ASSUME NEW p \in Proc, pc[p] = "sync" PROVE FALSE
                OBVIOUS
            <4>2. pc[p] \in Holding
                BY <4>1 DEF Holding, Executing
            <4>3. SyncedBy(p) /\ IsTx(job[p].tx) /\ journal = job[p].tx
                BY <1>0, <4>1, <4>2, HolderState DEF Ready, Held, Executing
            <4>4. journal = journalDurable
                BY <4>1, <4>3 DEF SyncedBy
            <4>5. QED BY <1>2, <2>2, <4>3, <4>4, TxParts
        <3>2. disk' = disk
            BY <1>0, <1>3, <3>1 DEF Synced, IsTree
        <3>3. Met(disk)
            <4>1. CASE journal = NoTx
                BY <1>0, <4>1, TreeOfNoTx
            <4>2. CASE journal # NoTx
                <5>1. PICK p \in Proc : pc[p] \in {"journaled", "removed"}
                    BY <1>0, <1>2, <2>2, <4>2 DEF Synced
                <5>2. pc[p] = "journaled"
                    BY <1>0, <4>2, <5>1 DEF Held
                <5>3. QED BY <1>0, <5>2 DEF Tracked
            <4>3. QED BY <4>1, <4>2
        <3>4. Tree(journal)' = disk
            BY <1>0, <2>2, <3>2, TreeOfNoTx DEF Tree
        <3>5. QED BY <1>2, <3>3, <3>4 DEF Met
    <2>3. QED BY <2>1, <2>2
<1>8. QED BY <1>4, <1>5, <1>6, <1>7 DEF PlanInv

\* An edit during a command is late, and what it changes is the author's.
LEMMA EditFilePlan ==
    ASSUME IndInv, NEW f \in Out \cup {Module}, NEW c, EditFile(f, c)
    PROVE  PlanInv'
<1>0. /\ CoreInv /\ Pended /\ Met(Tree(journal)) /\ IsTree(disk) /\ IsTree(durable)
      /\ \A q \in Proc : Ready(pc[q], job[q]) /\ (pc[q] \in Holding <=> lock = q)
      /\ \A q \in Proc : Chosen(pc[q], job[q]) /\ Prepared(pc[q], job[q]) /\ Tracked(pc[q], job[q])
      /\ done \subseteq Path /\ NoProc \notin Proc
    BY ProcessAssumption DEF IndInv, PlanInv, CoreInv, TypeOK, LockHeld
<1>1. f \in Path /\ f # Record /\ Record \in Path /\ Module \in Path
    BY PathParts
<1>2. /\ disk' = [disk EXCEPT ![f] = c] /\ durable' = [durable EXCEPT ![f] = c]
      /\ edited' = edited \cup {f}
      /\ late' = IF lock = NoProc THEN late ELSE late \cup {f}
      /\ UNCHANGED <<source, journal, journalDurable, lock, pc, job, current, done, consent>>
    BY DEF EditFile, Late, journalVars, execVars
<1>3. /\ disk' = [g \in Path |-> disk'[g]] /\ durable' = [g \in Path |-> durable'[g]]
      /\ disk'[f] = durable'[f]
      /\ \A g \in Path \ {f} : disk'[g] = disk[g] /\ durable'[g] = durable[g]
    BY <1>0, <1>1, <1>2 DEF IsTree
<1>4. ASSUME NEW t, Met(t), NEW u, u[Record] = t[Record], f # Module => u[Module] = t[Module]
      PROVE  Module \notin edited' /\ u[Record] # Absent => Required[u[Record].source] \subseteq u[Module]
    BY <1>2, <1>4 DEF Met
<1>5. Met(disk) => Met(disk)'
    BY <1>1, <1>3, <1>4 DEF Met
<1>6. ASSUME NEW q \in Proc PROVE Tracked(pc[q], job[q])'
    <2>1. CASE pc[q] \notin Holding
        BY <1>2, <2>1 DEF Tracked, Holding, Executing
    <2>2. CASE pc[q] \in Holding
        <3>1. late' = late \cup {f}
            BY <1>0, <1>2, <2>2
        <3>2. pc[q] \in {"prepare", "complete", "removed"} => job[q].tx.watch \subseteq Path
            BY <1>0, TxParts DEF Ready, Executing
        <3>3. \A g \in Watch(job[q].source, job[q].snap[Record]) : g \in Path
            BY PathParts DEF Watch
        <3>4. pc[q] = "complete" => disk' = durable'
            BY <1>0, <1>2 DEF Tracked
        <3>5. Tracked(pc[q], job[q])
            BY <1>0
        <3>6. pc[q] \in {"write", "sync"} =>
                  \A g \in done : disk'[g] # durable'[g] => pc[q] = "sync" /\ g \in job[q].todo
            BY <1>0, <1>3, <3>5 DEF Tracked
        <3>7. QED BY <1>0, <1>1, <1>2, <1>3, <1>5, <3>1, <3>2, <3>3, <3>4, <3>5, <3>6 DEF Tracked
    <2>3. QED BY <2>1, <2>2
<1>7. Pended'
    BY <1>0, <1>2, <1>3 DEF Pended
<1>8. Met(Tree(journal))'
    <2>1. /\ Tree(journal)'[Record] = Tree(journal)[Record]
          /\ f # Module => Tree(journal)'[Module] = Tree(journal)[Module]
        BY <1>1, <1>2, <1>3 DEF Tree
    <2>2. QED BY <1>0, <1>4, <2>1 DEF Met
<1>9. QED BY <1>0, <1>2, <1>6, <1>7, <1>8 DEF PlanInv

\* So is an edit of the declaration.
LEMMA EditSourcePlan ==
    ASSUME IndInv, NEW s \in Source, EditSource(s)
    PROVE  PlanInv'
<1>0. /\ CoreInv /\ Pended /\ Met(Tree(journal))
      /\ \A q \in Proc : pc[q] \in Holding <=> lock = q
      /\ \A q \in Proc : Chosen(pc[q], job[q]) /\ Prepared(pc[q], job[q]) /\ Tracked(pc[q], job[q])
      /\ NoProc \notin Proc
    BY ProcessAssumption DEF IndInv, PlanInv, CoreInv, LockHeld
<1>1. /\ late' = IF lock = NoProc THEN late ELSE late \cup {Service}
      /\ UNCHANGED <<disk, durable, journal, journalDurable, lock, pc, job, current, done, edited, consent>>
    BY DEF EditSource, Late, diskVars, journalVars, execVars
<1>2. ASSUME NEW q \in Proc PROVE Tracked(pc[q], job[q])'
    <2>1. CASE pc[q] # "prepare"
        BY <1>0, <1>1, <2>1 DEF Tracked, Met
    <2>2. CASE pc[q] = "prepare"
        <3>1. late' = late \cup {Service}
            BY <1>0, <1>1, <2>2 DEF Holding
        <3>2. QED BY <1>0, <1>1, <2>2, <3>1 DEF Tracked
    <2>3. QED BY <2>1, <2>2
<1>3. Pended' /\ Met(Tree(journal))'
    BY <1>0, <1>1 DEF Pended, Met, Tree
<1>4. QED BY <1>0, <1>1, <1>2, <1>3 DEF PlanInv

-----------------------------------------------------------------------------
(***************************************************************************)
(* The invariant.                                                          *)
(***************************************************************************)

\* A project without STEGO files satisfies the invariant.
LEMMA InitiallyInv == ASSUME Init PROVE IndInv
<1>1. CoreInv
    BY Initially
<1>2. \A p \in Proc : pc[p] = "idle" /\ job[p] = NoJob
    BY DEF Init
<1>3. \A p \in Proc :
          Chosen(pc[p], job[p]) /\ Prepared(pc[p], job[p]) /\ Tracked(pc[p], job[p])
    BY <1>2, AtRest
<1>4. Pended
    BY DEF Init, Pended
<1>5. Met(Tree(journal))
    <2>1. Tree(journal) = Nothing
        BY <1>1, TreeOfNoTx DEF Init, CoreInv, TypeOK
    <2>2. Nothing[Record] = Absent
        BY PathParts DEF Nothing
    <2>3. QED BY <2>1, <2>2 DEF Met
<1>6. QED BY <1>1, <1>3, <1>4, <1>5 DEF IndInv, PlanInv

\* Every step of a command, a failure or the author keeps it.
LEMMA InductiveInv ==
    ASSUME OneKindOfFailure, IndInv, [Next]_vars
    PROVE  IndInv'
<1>0. CoreInv'
    BY Inductive DEF IndInv
<1>1. CASE UNCHANGED vars
    <2>1. UNCHANGED <<dataVars, pc, job>>
        BY <1>1 DEF vars, dataVars
    <2>2. PlanInv'
        BY <2>1 DEF IndInv, PlanInv, Pended, Met, Tree, Tracked, dataVars
    <2>3. QED BY <1>0, <2>2 DEF IndInv
<1>2. CASE \E p \in Proc : Kill(p)
    BY <1>0, <1>2, KillPlan DEF IndInv
<1>3. CASE PowerFail
    BY <1>0, <1>3, PowerFailPlan DEF PowerFail, OneKindOfFailure, IndInv
<1>4. CASE Edit
    <2>1. CASE \E s \in Source : EditSource(s)
        BY <1>0, <2>1, EditSourcePlan DEF IndInv
    <2>2. CASE \E f \in Out, c \in OutVal : EditFile(f, c)
        BY <1>0, <2>2, EditFilePlan DEF IndInv
    <2>3. CASE \E m \in ModVal : EditFile(Module, m)
        BY <1>0, <2>3, EditFilePlan DEF IndInv
    <2>4. QED BY <1>4, <2>1, <2>2, <2>3 DEF Edit
<1>5. CASE \E p \in Proc, cmd \in Commands, replace \in BOOLEAN : Begin(p, cmd, replace)
    BY <1>0, <1>5, PlanningPlan DEF IndInv
<1>6. CASE \E p \in Proc : BeginRecover(p)
    BY <1>0, <1>6, PlanningPlan DEF IndInv
<1>7. CASE \E p \in Proc : Step(p)
    <2>1. PICK p \in Proc : Step(p)
        BY <1>7
    <2>2. CASE Load(p) \/ Capture(p) \/ Bind(p) \/ \E f \in Out : ReadOutput(p, f)
        BY <1>0, <2>2, PlanningPlan DEF IndInv
    <2>3. CASE SavePlan(p) \/ ChoosePlan(p) \/ CheckPlan(p) \/ CheckCurrent(p) \/ Lock(p)
               \/ ReadJournal(p) \/ RemoveSavedPlan(p)
        BY <1>0, <2>3, CommandPlan DEF IndInv
    <2>4. CASE VerifyLocked(p) \/ \E mod \in SUBSET Requirement : Resolve(p, mod)
        BY <1>0, <2>4, VerifyPlan DEF IndInv
    <2>5. CASE \E f \in Path : WriteFile(p, f)
        BY <1>0, <2>5, WritePlan DEF IndInv
    <2>6. CASE WriteJournal(p) \/ SyncJournal(p)
        BY <1>0, <2>6, JournalPlan DEF IndInv
    <2>7. CASE CheckExpected(p) \/ SyncFile(p) \/ VerifyFinal(p)
        BY <1>0, <2>7, ExecutePlan DEF IndInv
    <2>8. CASE RemoveJournal(p) \/ SyncRemoval(p)
        BY <1>0, <2>8, RemovalPlan DEF IndInv
    <2>9. QED BY <2>1, <2>2, <2>3, <2>4, <2>5, <2>6, <2>7, <2>8 DEF Step
<1>8. QED BY <1>1, <1>2, <1>3, <1>4, <1>5, <1>6, <1>7 DEF Next

\* The inductive invariant holds of every behaviour of the commands of
\* internal/compiler, for any number of processes, files, sources and edits.
THEOREM PlanInvariance == ASSUME OneKindOfFailure PROVE Spec => []IndInv
<1>1. Init => IndInv
    BY InitiallyInv
<1>2. IndInv /\ [Next]_vars => IndInv'
    BY InductiveInv
<1>3. QED BY <1>1, <1>2, PTL DEF Spec

-----------------------------------------------------------------------------
(***************************************************************************)
(* What follows for the commands.                                          *)
(***************************************************************************)

\* Whenever no journal is pending and go.mod is as STEGO left it, it holds what the
\* recorded components require (mergeCapturedModule, validateResolvedModule).
THEOREM RequirementsAreMet == ASSUME OneKindOfFailure PROVE Spec => []RequirementsMet
<1>1. ASSUME IndInv PROVE RequirementsMet
    <2>1. journal = NoTx => Met(disk)
        BY <1>1, TreeOfNoTx DEF IndInv, PlanInv, CoreInv, TypeOK
    <2>2. QED BY <2>1 DEF Met, RequirementsMet
<1>2. IndInv => RequirementsMet
    BY <1>1
<1>3. QED BY <1>2, PlanInvariance, PTL

\* After an apply, a second one from the same inputs changes nothing (computePlan).
THEOREM ApplyIsIdempotent == ASSUME OneKindOfFailure PROVE Spec => []SecondApplyChangesNothing
<1>1. ASSUME IndInv PROVE SecondApplyChangesNothing
    <2>1. SUFFICES ASSUME NEW p \in Proc, pc[p] = "unsave", late = {}, source = job[p].source
                   PROVE  ~HasChanges(source, disk)
        BY DEF SecondApplyChangesNothing
    <2>2. Tracked(pc[p], job[p]) /\ IsTree(disk) /\ IsTree(job[p].snap)
        BY <1>1, AtPlan DEF IsJob
    <2>3. /\ job[p].source \in Source
          /\ \A f \in Watch(job[p].source, job[p].snap[Record]) :
                disk[f] = Desired(job[p].source, job[p].snap)[f]
        BY <2>1, <2>2 DEF Tracked
    <2>4. QED BY <2>1, <2>2, <2>3, PlanIsIdempotent
<1>2. IndInv => SecondApplyChangesNothing
    BY <1>1
<1>3. QED BY <1>2, PlanInvariance, PTL

\* The steps that change files, journals or what the author edited.
LEMMA NoisySteps ==
    ASSUME Next
    PROVE  \/ UNCHANGED <<disk, durable, journal, journalDurable, edited>>
           \/ \E p \in Proc : WriteJournal(p) \/ SyncJournal(p) \/ RemoveJournal(p) \/ SyncRemoval(p)
           \/ \E p \in Proc : SyncFile(p) \/ \E f \in Path : WriteFile(p, f)
           \/ PowerFail
           \/ \E f \in Out \cup {Module}, c \in OutVal \cup ModVal : EditFile(f, c)
<1> USE DEF diskVars, journalVars, historyVars
<1>1. CASE \E p \in Proc : Step(p)
    <2>1. PICK p \in Proc : Step(p)
        BY <1>1
    <2>2. CASE Load(p) \/ Capture(p) \/ Bind(p) \/ \E f \in Out : ReadOutput(p, f)
        BY <2>2 DEF Load, Capture, Bind, ReadOutput
    <2>3. CASE SavePlan(p) \/ ChoosePlan(p) \/ CheckPlan(p) \/ CheckCurrent(p) \/ Lock(p)
               \/ ReadJournal(p) \/ RemoveSavedPlan(p)
        BY <2>3 DEF SavePlan, ChoosePlan, CheckPlan, CheckCurrent, Lock, ReadJournal, RemoveSavedPlan
    <2>4. CASE VerifyLocked(p) \/ \E mod \in SUBSET Requirement : Resolve(p, mod)
        BY <2>4 DEF VerifyLocked, Resolve
    <2>5. CASE CheckExpected(p) \/ VerifyFinal(p)
        BY <2>5 DEF CheckExpected, VerifyFinal
    <2>6. QED BY <2>1, <2>2, <2>3, <2>4, <2>5 DEF Step
<1>2. CASE \E p \in Proc : \/ \E cmd \in Commands, replace \in BOOLEAN : Begin(p, cmd, replace)
                          \/ BeginRecover(p) \/ Kill(p)
    BY <1>2 DEF Begin, BeginRecover, Kill
<1>3. CASE Edit
    BY <1>3 DEF Edit, EditSource
<1>4. QED BY <1>1, <1>2, <1>3 DEF Next

\* A journal goes only when all it says is on disk and durable, and nothing replaces
\* one journal by another (pendingTransaction, executeTransaction).
THEOREM JournalsComplete == ASSUME OneKindOfFailure PROVE Spec => JournalCompletes
<1> DEFINE A == journal # NoTx /\ journal' # journal =>
                   \/ /\ journal' = NoTx
                      /\ \A f \in journal.watch \ late :
                            disk[f] = journal.after[f] /\ durable[f] = journal.after[f]
                   \/ journal' = journalDurable /\ disturbed' > disturbed
<1>1. ASSUME IndInv, Next PROVE A
    <2>1. SUFFICES ASSUME journal # NoTx, journal' # journal PROVE A
        OBVIOUS
    <2>2. CASE PowerFail
        BY <1>1, <2>1, <2>2 DEF PowerFail, IndInv, CoreInv, TypeOK
    <2>3. CASE \E p \in Proc : RemoveJournal(p)
        <3>1. PICK p \in Proc : RemoveJournal(p)
            BY <2>3
        <3>2. pc[p] = "complete" /\ journal' = NoTx
            BY <3>1 DEF RemoveJournal
        <3>3. Tracked("complete", job[p]) /\ journal = job[p].tx
            BY <1>1, <3>2, AtPlan DEF Held, Executing
        <3>4. QED BY <3>2, <3>3 DEF Tracked
    <2>4. CASE \E p \in Proc : WriteJournal(p)
        BY <1>1, <2>1, <2>4, AtPlan DEF WriteJournal, Held
    <2>5. QED BY <1>1, <2>1, <2>2, <2>3, <2>4, NoisySteps
              DEF SyncJournal, SyncRemoval, SyncFile, WriteFile, EditFile, journalVars
<1>2. IndInv /\ [Next]_vars => [A]_vars
    BY <1>1
<1>3. QED BY <1>2, PlanInvariance, PTL DEF Spec, JournalCompletes

\* What is journaled was planned from the project as it is (applyWithFault,
\* commitResolvedModules).
THEOREM JournalsAreCurrent == ASSUME OneKindOfFailure PROVE Spec => JournalIsCurrent
<1> DEFINE A == \A p \in Proc : pc[p] = "prepare" /\ pc'[p] = "journaled" =>
                   /\ source # job[p].source => Service \in late
                   /\ \A f \in journal'.watch \ late : disk[f] = journal'.before[f]
<1>1. ASSUME IndInv, Next, NEW p \in Proc, pc[p] = "prepare", pc'[p] = "journaled"
      PROVE  /\ source # job[p].source => Service \in late
             /\ \A f \in journal'.watch \ late : disk[f] = journal'.before[f]
    <2>1. WriteJournal(p)
        BY <1>1, OnlyWrites DEF IndInv, WriteFile
    <2>2. Tracked("prepare", job[p]) /\ journal' = job[p].tx
        BY <1>1, <2>1, AtPlan DEF WriteJournal
    <2>3. QED BY <2>2 DEF Tracked
<1>2. IndInv /\ [Next]_vars => [A]_vars
    BY <1>1
<1>3. QED BY <1>2, PlanInvariance, PTL DEF Spec, JournalIsCurrent

\* An apply leaves a hand edit that the author did not give up (refuseHandEdits).
THEOREM HandEditsAreKept == ASSUME OneKindOfFailure PROVE Spec => HandEditsSurvive
<1> DEFINE A == \A p \in Proc, f \in Out :
                   pc[p] = "write" /\ pc'[p] = "sync" /\ disk'[f] # disk[f] =>
                       \/ consent \/ f \in late
                       \/ Files(journal.before[Record])[f] \in {Absent, disk[f]}
<1>1. ASSUME IndInv, Next, NEW p \in Proc, NEW f \in Out, pc[p] = "write", pc'[p] = "sync",
             disk'[f] # disk[f], ~consent, f \notin late
      PROVE  Files(journal.before[Record])[f] \in {Absent, disk[f]}
    <2>1. PICK g \in Path : WriteFile(p, g)
        BY <1>1, OnlyWrites DEF IndInv, WriteJournal
    <2>2. /\ Tracked("write", job[p]) /\ journal = job[p].tx /\ IsTree(disk) /\ IsTx(job[p].tx)
          /\ Pended
        BY <1>1, AtPlan DEF Held, Ready, Executing
    <2>3. disk' \in {disk, [disk EXCEPT ![g] = job[p].tx.after[g]]}
        BY <2>1 DEF WriteFile
    <2>4. f = g
        <3>1. f \in Path /\ IsTree(disk) /\ IsTree(job[p].tx.after)
            BY <2>2, PathParts, TxParts
        <3>2. \A h \in Path \ {g} : disk'[h] = disk[h]
            BY <2>3, <3>1 DEF IsTree
        <3>3. QED BY <1>1, <3>1, <3>2
    <2>5. f \in Operations(journal) \ done /\ current[f] # journal.after[f]
        BY <1>1, <2>1, <2>2, <2>4 DEF WriteFile
    <2>6. f \in journal.watch /\ f \in Path
        BY <2>2, <2>5, TxParts, PathParts DEF Operations
    <2>7. disk[f] = journal.before[f]
        BY <1>1, <2>2, <2>5, <2>6 DEF Tracked
    <2>8. Spares(journal)
        BY <1>1, <2>2, TxParts DEF Pended
    <2>9. QED BY <1>1, <2>5, <2>7, <2>8 DEF Spares
<1>2. IndInv /\ [Next]_vars => [A]_vars
    BY <1>1
<1>3. QED BY <1>2, PlanInvariance, PTL DEF Spec, HandEditsSurvive

\* `stego deps` leaves generated files (commitResolvedModules).
THEOREM DepsLeavesOutput == ASSUME OneKindOfFailure PROVE Spec => DepsKeepsOutput
<1> DEFINE A == \A p \in Proc : pc[p] = "write" /\ pc'[p] = "sync" /\ job[p].cmd = "deps" =>
                   \A f \in Out : disk'[f] = disk[f]
<1>1. ASSUME IndInv, Next, NEW p \in Proc, pc[p] = "write", pc'[p] = "sync", job[p].cmd = "deps",
             NEW f \in Out
      PROVE  disk'[f] = disk[f]
    <2>1. PICK g \in Path : WriteFile(p, g)
        BY <1>1, OnlyWrites DEF IndInv, WriteJournal
    <2>2. Prepared("write", job[p]) /\ IsTree(disk)
        BY <1>1, AtPlan
    <2>3. disk' \in {disk, [disk EXCEPT ![g] = job[p].tx.after[g]]} /\ g \in Operations(job[p].tx)
        BY <2>1 DEF WriteFile
    <2>4. f # g
        BY <1>1, <2>2, <2>3 DEF Prepared, Executing
    <2>5. f \in Path /\ IsTree(job[p].tx.after)
        BY <1>1, PathParts, AtPlan, TxParts DEF Ready, Executing
    <2>6. QED BY <2>1, <2>2, <2>3, <2>4, <2>5, TreeUpdate
<1>2. IndInv /\ [Next]_vars => [A]_vars
    BY <1>1
<1>3. QED BY <1>2, PlanInvariance, PTL DEF Spec, DepsKeepsOutput

\* apply --saved-plan writes exactly what its plan names (StillApplies).
THEOREM SavedPlansAreExact == ASSUME OneKindOfFailure PROVE Spec => SavedPlanIsExact
<1> DEFINE E(p) == /\ journal'.before[Record] = job[p].saved.base
                   /\ journal'.after[Record] = job[p].saved.record
                   /\ \A f \in Operations(journal') \ {Record} :
                         \E e \in job[p].saved.files : e[1] = f /\ e[3] = journal'.after[f]
           A == \A p \in Proc :
                   pc[p] = "prepare" /\ pc'[p] = "journaled" /\ job[p].cmd = "apply-saved" => E(p)
<1>1. ASSUME IndInv, Next, NEW p \in Proc, pc[p] = "prepare", pc'[p] = "journaled",
             job[p].cmd = "apply-saved"
      PROVE  E(p)
    <2> DEFINE s == job[p].source
               snap == job[p].snap
    <2>1. WriteJournal(p)
        BY <1>1, OnlyWrites DEF IndInv, WriteFile
    <2>2. Prepared("prepare", job[p]) /\ journal' = job[p].tx /\ IsTree(snap)
        BY <1>1, <2>1, AtPlan DEF WriteJournal, IsJob
    <2>3. /\ s \in Source /\ journal' = Journal(s, snap, Desired(s, snap))
          /\ job[p].saved = SavedPlan(s, snap)
        BY <1>1, <2>2 DEF Prepared, Applies, PlanJournal
    <2> HIDE DEF s, snap
    <2>4. Desired(s, snap)[Record] = NewState(s, snap)
        BY <2>2, <2>3, DesiredType DEF snap
    <2>5. /\ journal'.before[Record] = snap[Record] /\ journal'.after[Record] = NewState(s, snap)
        BY <2>3, <2>4, JournalParts
    <2>6. /\ job[p].saved.base = snap[Record] /\ job[p].saved.record = NewState(s, snap)
          /\ job[p].saved.files =
                {<<f, FileAction(snap[f], Desired(s, snap)[f]), Desired(s, snap)[f]>> :
                    f \in OutputChanges(s, snap)}
        BY <2>3 DEF SavedPlan
    <2>7. ASSUME NEW f \in Operations(journal') \ {Record}
          PROVE  \E e \in job[p].saved.files : e[1] = f /\ e[3] = journal'.after[f]
        <3>1. /\ f \in Watch(s, snap[Record]) /\ journal'.after[f] = Desired(s, snap)[f]
              /\ Desired(s, snap)[f] # snap[f]
            BY <2>3, JournalParts DEF Operations
        <3>2. f \in OutputChanges(s, snap)
            BY <3>1 DEF OutputChanges
        <3> DEFINE e == <<f, FileAction(snap[f], Desired(s, snap)[f]), Desired(s, snap)[f]>>
        <3>3. e \in job[p].saved.files
            BY <2>6, <3>2
        <3>4. e[1] = f /\ e[3] = Desired(s, snap)[f]
            OBVIOUS
        <3> HIDE DEF e
        <3>5. QED BY <3>1, <3>3, <3>4
    <2>8. QED BY <2>5, <2>6, <2>7
<1> HIDE DEF E
<1>2. IndInv /\ [Next]_vars => [A]_vars
    BY <1>1
<1>3. QED BY <1>2, PlanInvariance, PTL DEF Spec, SavedPlanIsExact, E

\* The commands keep to their files (executeTransaction, commitResolvedModules,
\* StillApplies).
THEOREM CommandsKeep == ASSUME OneKindOfFailure PROVE Spec => CommandsKeepToTheirFiles
BY HandEditsAreKept, DepsLeavesOutput, SavedPlansAreExact DEF CommandsKeepToTheirFiles

-----------------------------------------------------------------------------
(***************************************************************************)
(* The project implements AtomicApply.                                     *)
(***************************************************************************)

\* Journal tx replaces the whole output on disk by what source s generates.
Commits(s, mod, recorded, tx) ==
    /\ Required[s] \subseteq mod \cap recorded
    /\ Tree(tx) = [f \in Path |->
          IF f = Record THEN [source |-> s, module |-> recorded, files |-> Generate[s]]
          ELSE IF f = Module THEN mod
          ELSE IF Generate[s][f] # Absent \/ Files(disk[Record])[f] # Absent
               THEN Generate[s][f]
          ELSE disk[f]]

\* A journal that was planned against the record on disk commits one source as a whole.
LEMMA CommitTree ==
    ASSUME NEW tx, IsTx(tx), Planned(tx), tx.before[Record] = disk[Record]
    PROVE  \E s \in Source, mod, recorded \in SUBSET Requirement : Commits(s, mod, recorded, tx)
<1>1. PICK s \in Source, mod \in SUBSET Requirement, recorded \in SUBSET Requirement :
        /\ Required[s] \subseteq mod \cap recorded
        /\ tx.watch = Watch(s, tx.before[Record])
        /\ tx.after[Record] = [source |-> s, module |-> recorded, files |-> Generate[s]]
        /\ tx.after[Module] = mod
    BY DEF Planned
<1> DEFINE new(f) == IF f = Record THEN [source |-> s, module |-> recorded, files |-> Generate[s]]
                     ELSE IF f = Module THEN mod
                     ELSE IF Generate[s][f] # Absent \/ Files(disk[Record])[f] # Absent
                          THEN Generate[s][f]
                     ELSE disk[f]
           old(f) == IF f \in tx.watch THEN tx.after[f] ELSE disk[f]
<1>2. ASSUME NEW f \in Path PROVE old(f) = new(f)
    <2>1. CASE f \in {Record, Module}
        BY <1>1, <2>1, TxParts, PathParts
    <2>2. CASE f \in Out
        <3>1. f # Record /\ f # Module
            BY <2>2, PathParts
        <3>2. f \in tx.watch <=> (Generate[s][f] # Absent \/ Files(disk[Record])[f] # Absent)
            BY <1>1, <2>2, <3>1 DEF Watch
        <3>3. tx.after[f] = Generate[s][f]
            BY <1>1, <2>2 DEF IsTx
        <3>4. QED BY <3>1, <3>2, <3>3
    <2>3. QED BY <2>1, <2>2 DEF Path
<1>3. Tree(tx) = [f \in Path |-> old(f)]
    BY DEF Tree
<1>4. [f \in Path |-> old(f)] = [f \in Path |-> new(f)]
    BY <1>2
<1>5. QED BY <1>1, <1>3, <1>4 DEF Commits

\* What a journal leaves differs from the disk only where the author edited.
LEMMA CompleteTree ==
    ASSUME NEW tx, IsTx(tx), IsTree(disk), edited \subseteq Path \ {Record},
           \A f \in tx.watch : disk[f] # tx.after[f] => f \in edited
    PROVE  (\A f \in Path \ edited : Tree(tx)[f] = disk[f]) /\ Tree(tx)[Record] = disk[Record]
<1>1. \A f \in Path : Tree(tx)[f] = IF f \in tx.watch THEN tx.after[f] ELSE disk[f]
    BY DEF Tree
<1>2. \A f \in Path \ edited : Tree(tx)[f] = disk[f]
    BY <1>1
<1>3. QED BY <1>2, PathParts

\* Writing a file of the journal changes nothing of the tree.
LEMMA SettleTree ==
    ASSUME NEW tx, IsTx(tx), IsTree(disk), NEW f \in tx.watch,
           disk' \in {disk, [disk EXCEPT ![f] = tx.after[f]]}
    PROVE  /\ [g \in Path |-> IF g \in tx.watch THEN tx.after[g] ELSE disk'[g]] = Tree(tx)
           /\ f \in Out => Tree(tx)[f] = Files(Tree(tx)[Record])[f]
<1>1. f \in Path /\ IsTree(tx.after) /\ Record \in tx.watch /\ Record \in Path
    BY TxParts, PathParts
<1>2. \A g \in Path \ {f} : disk'[g] = disk[g]
    BY <1>1, TreeUpdate
<1>3. \A g \in Path : (IF g \in tx.watch THEN tx.after[g] ELSE disk'[g])
                    = (IF g \in tx.watch THEN tx.after[g] ELSE disk[g])
    BY <1>2
<1>4. Tree(tx)[f] = tx.after[f] /\ Tree(tx)[Record] = tx.after[Record]
    BY <1>1 DEF Tree
<1>5. QED BY <1>3, <1>4, TxParts DEF Tree

\* An edit changes one file of the tree, and never the record.
LEMMA EditTree ==
    ASSUME IndInv, NEW f \in Out \cup {Module}, NEW c, EditFile(f, c), NEW tx
    PROVE  /\ edited' = edited \cup {f} /\ edited \cup {f} \subseteq Path
           /\ \A g \in Path \ {f} :
                 [h \in Path |-> IF h \in tx.watch THEN tx.after[h] ELSE disk'[h]][g] = Tree(tx)[g]
           /\ Record \in Path \ {f}
<1>1. f \in Path /\ f # Record /\ Record \in Path
    BY PathParts
<1>2. disk' = [disk EXCEPT ![f] = c] /\ edited' = edited \cup {f}
    BY DEF EditFile
<1>3. IsTree(disk) /\ edited \subseteq Path \ {Record}
    BY DEF IndInv, CoreInv, TypeOK
<1>4. \A g \in Path \ {f} : disk'[g] = disk[g]
    BY <1>1, <1>2, <1>3 DEF IsTree
<1>5. QED BY <1>1, <1>2, <1>3, <1>4 DEF Tree

\* The abstract specification names the files of the project as this one does.
LEMMA AtomicNames ==
    /\ Atomic!Path = Path /\ Atomic!Record = Record /\ Atomic!Module = Module
    /\ \A r : Atomic!Files(r) = Files(r)
BY DEF Atomic!Path, Atomic!Record, Atomic!Module, Atomic!Files, Path, Record, Module, Files

LEMMA DurableNames ==
    /\ Durable!Path = Path /\ Durable!Record = Record /\ Durable!Module = Module
    /\ \A r : Durable!Files(r) = Files(r)
BY DEF Durable!Path, Durable!Record, Durable!Module, Durable!Files, Path, Record, Module, Files

\* Killed processes: every step is a step of AtomicApply, with the commit where the
\* journal appears, or leaves the tree alone.
LEMMA AtomicStep ==
    ASSUME IndInv, Next, "power" \notin Failures
    PROVE  Atomic!Next \/ UNCHANGED <<Tree(journal), edited>>
<1>0. /\ IsTree(disk) /\ edited \subseteq Path \ {Record}
      /\ Tree(journal)' = [f \in Path |-> IF f \in journal'.watch THEN journal'.after[f] ELSE disk'[f]]
    BY DEF IndInv, CoreInv, TypeOK, Tree
<1>1. CASE UNCHANGED <<disk, journal, edited>>
    BY <1>1 DEF Tree
<1>2. CASE \E p \in Proc : WriteJournal(p)
    <2>1. PICK p \in Proc : WriteJournal(p)
        BY <1>2
    <2>2. /\ pc[p] = "prepare" /\ journal' = job[p].tx /\ disk' = disk /\ edited' = edited
        BY <2>1 DEF WriteJournal, diskVars
    <2>3. /\ journal = NoTx /\ IsTx(job[p].tx) /\ Planned(job[p].tx)
          /\ job[p].tx.before[Record] = disk[Record]
        BY <2>2, AtPlan DEF Held, Ready, Prepared
    <2>4. Tree(journal) = disk
        BY <1>0, <2>3, TreeOfNoTx
    <2>5. Tree(journal)' = Tree(job[p].tx)
        BY <2>2 DEF Tree
    <2>6. \E s \in Source, mod, recorded \in SUBSET Requirement : Atomic!Commit(s, mod, recorded)
        <3>1. PICK s \in Source, mod \in SUBSET Requirement, recorded \in SUBSET Requirement :
                  Commits(s, mod, recorded, job[p].tx)
            BY <2>3, CommitTree
        <3>2. Atomic!Commit(s, mod, recorded)
            BY <2>2, <2>4, <2>5, <3>1
               DEF Commits, Atomic!Commit, Atomic!Path, Atomic!Record, Atomic!Module, Atomic!Files,
                   Path, Record, Module, Files
        <3>3. QED BY <3>2
    <2>7. QED BY <2>6 DEF Atomic!Next
<1>3. CASE \E p \in Proc, f \in Path : WriteFile(p, f)
    <2>1. PICK p \in Proc, f \in Path : WriteFile(p, f)
        BY <1>3
    <2>2. journal = job[p].tx /\ IsTx(job[p].tx)
        BY <2>1, AtPlan DEF WriteFile, Held, Ready, Executing
    <2>3. /\ f \in journal.watch /\ edited' \in {edited, edited \ {f}} /\ journal' = journal
          /\ disk' \in {disk, [disk EXCEPT ![f] = journal.after[f]]}
        BY <2>1, <2>2, TxParts DEF WriteFile, Operations, journalVars
    <2>4. Tree(journal)' = Tree(journal) /\ (f \in Out => Tree(journal)[f] = Files(Tree(journal)[Record])[f])
        BY <1>0, <2>2, <2>3, SettleTree
    <2>5. Atomic!Settle
        BY <2>3, <2>4, AtomicNames DEF Atomic!Settle
    <2>6. QED BY <2>5 DEF Atomic!Next
<1>4. CASE \E p \in Proc : RemoveJournal(p)
    <2>1. PICK p \in Proc : RemoveJournal(p)
        BY <1>4
    <2>2. /\ pc[p] = "complete" /\ journal' = NoTx /\ disk' = disk /\ edited' = edited
        BY <2>1 DEF RemoveJournal, diskVars, historyVars
    <2>3. /\ journal = job[p].tx /\ IsTx(job[p].tx) /\ Tracked("complete", job[p])
        BY <2>2, AtPlan DEF Held, Ready, Executing
    <2>4. \A f \in journal.watch : disk[f] # journal.after[f] => f \in edited
        BY <2>3 DEF Tracked
    <2>5. (\A f \in Path \ edited : Tree(journal)[f] = disk[f]) /\ Tree(journal)[Record] = disk[Record]
        BY <1>0, <2>3, <2>4, CompleteTree
    <2>6. Tree(journal)' = disk
        BY <1>0, <2>2, TreeOfNoTx DEF Tree
    <2>7. Atomic!Edit
        BY <1>0, <2>2, <2>5, <2>6, AtomicNames DEF Atomic!Edit
    <2>8. QED BY <2>7 DEF Atomic!Next
<1>5. CASE \E f \in Out \cup {Module}, c \in OutVal \cup ModVal : EditFile(f, c)
    <2>1. PICK f \in Out \cup {Module}, c \in OutVal \cup ModVal : EditFile(f, c)
        BY <1>5
    <2>2. journal' = journal
        BY <2>1 DEF EditFile, journalVars
    <2>3. /\ edited' = edited \cup {f} /\ edited \cup {f} \subseteq Path /\ Record \in Path \ {f}
          /\ \A g \in Path \ {f} : Tree(journal)'[g] = Tree(journal)[g]
        BY <1>0, <2>1, <2>2, EditTree
    <2>4. Atomic!Edit
        BY <2>3, AtomicNames DEF Atomic!Edit
    <2>5. QED BY <2>4 DEF Atomic!Next
<1>6. QED
    BY <1>1, <1>2, <1>3, <1>4, <1>5, NoisySteps
       DEF SyncJournal, SyncRemoval, SyncFile, PowerFail, diskVars, journalVars, historyVars

\* While processes may be killed at any step, every apply is one atomic change of the
\* record and the whole output (commitTransaction, executeTransaction, Recover).
THEOREM KilledApplyIsAtomic ==
    ASSUME "power" \notin Failures PROVE Spec => ImplementsAtomicApply
<1>1. Init => Atomic!Init
    BY NewJobType, TreeOfNoTx, AtomicNames DEF Init, Atomic!Init, Nothing
<1>2. IndInv /\ [Next]_vars => [Atomic!Next]_<<Tree(journal), edited>>
    BY AtomicStep DEF vars, Tree
<1>3. Spec => []IndInv
    BY PlanInvariance DEF OneKindOfFailure
<1>4. QED BY <1>1, <1>2, <1>3, PTL DEF Spec, ImplementsAtomicApply, Atomic!Spec

\* A journal that becomes durable is a commit.
LEMMA DurableCommit ==
    ASSUME NEW tx, IsTx(tx), Planned(tx), tx.before[Record] = disk[Record], IsTree(disk),
           journalDurable = NoTx, journalDurable' = tx, disk' = disk, edited' = edited
    PROVE  Durable!Next
<1>1. Tree(journalDurable) = disk /\ Tree(journalDurable)' = Tree(tx)
    BY TreeOfNoTx DEF Tree
<1>2. PICK s \in Source, mod \in SUBSET Requirement, recorded \in SUBSET Requirement :
          Commits(s, mod, recorded, tx)
    BY CommitTree
<1>3. Durable!Commit(s, mod, recorded)
    BY <1>1, <1>2
       DEF Commits, Durable!Commit, Durable!Path, Durable!Record, Durable!Module, Durable!Files,
           Path, Record, Module, Files
<1>4. QED BY <1>3 DEF Durable!Next

\* A journal whose removal becomes durable leaves what it says, but for edits.
LEMMA DurableRemoval ==
    ASSUME NEW tx, IsTx(tx), IsTree(disk), edited \subseteq Path \ {Record},
           \A f \in tx.watch : disk[f] # tx.after[f] => f \in edited,
           journalDurable = tx, journalDurable' = NoTx, disk' = disk, edited' = edited
    PROVE  Durable!Next
<1>1. Tree(journalDurable)' = disk
    BY TreeOfNoTx DEF Tree
<1>2. (\A f \in Path \ edited : Tree(tx)[f] = disk[f]) /\ Tree(tx)[Record] = disk[Record]
    BY CompleteTree
<1>3. Durable!Edit
    BY <1>1, <1>2, DurableNames DEF Durable!Edit
<1>4. QED BY <1>3 DEF Durable!Next

\* A power failure keeps the durable tree, or decides the fate of a journal that was
\* about to be durable or gone.
LEMMA DurablePowerFail ==
    ASSUME IndInv, PowerFail, "kill" \notin Failures
    PROVE  Durable!Next \/ UNCHANGED <<Tree(journalDurable), edited>>
<1>0. /\ IsTree(disk) /\ IsTree(durable) /\ edited \subseteq Path \ {Record}
      /\ Synced /\ Pended /\ LockHeld
    BY DEF IndInv, CoreInv, PlanInv, TypeOK
<1>1. PICK kept \in SUBSET Path :
          disk' = [f \in Path |-> IF f \in kept THEN disk[f] ELSE durable[f]]
    BY DEF PowerFail
<1>2. /\ journalDurable' \in {journal, journalDurable} /\ edited' = edited
      /\ \A f \in Path : disk'[f] # disk[f] => disk[f] # durable[f]
      /\ disk' = [f \in Path |-> disk'[f]] /\ disk = [f \in Path |-> disk[f]]
    BY <1>0, <1>1 DEF PowerFail, historyVars, IsTree
<1>3. CASE \E p \in Proc : pc[p] \in {"journaled", "removed"}
    <2>1. PICK p \in Proc : pc[p] \in {"journaled", "removed"}
        BY <1>3
    <2>2. ~ \E q \in Proc : pc[q] = "sync"
        BY <1>0, <2>1 DEF LockHeld, Holding, Executing
    <2>3. disk' = disk
        BY <1>0, <1>2, <2>2 DEF Synced
    <2>4. /\ Ready(pc[p], job[p]) /\ Held(pc[p], job[p]) /\ Prepared(pc[p], job[p])
          /\ Tracked(pc[p], job[p])
        BY AtPlan
    <2>5. CASE pc[p] = "journaled"
        <3>1. /\ IsTx(job[p].tx) /\ Planned(job[p].tx) /\ journal = job[p].tx
              /\ job[p].tx.before[Record] = disk[Record] /\ journalDurable = NoTx
            BY <1>0, <2>4, <2>5 DEF Ready, Held, Prepared, Tracked, Synced
        <3>2. CASE journalDurable' = journal
            BY <1>0, <1>2, <2>3, <3>1, <3>2, DurableCommit
        <3>3. CASE journalDurable' = journalDurable
            BY <1>2, <2>3, <3>3 DEF Tree
        <3>4. QED BY <1>2, <3>2, <3>3
    <2>6. CASE pc[p] = "removed"
        <3>1. /\ IsTx(job[p].tx) /\ journal = NoTx /\ journalDurable = job[p].tx
              /\ \A f \in job[p].tx.watch : disk[f] # job[p].tx.after[f] => f \in edited
            BY <1>0, <2>4, <2>6 DEF Ready, Held, Tracked, Synced
        <3>2. CASE journalDurable' = journal
            BY <1>0, <1>2, <2>3, <3>1, <3>2, DurableRemoval
        <3>3. CASE journalDurable' = journalDurable
            BY <1>2, <2>3, <3>3 DEF Tree
        <3>4. QED BY <1>2, <3>2, <3>3
    <2>7. QED BY <2>1, <2>5, <2>6
<1>4. CASE ~ \E p \in Proc : pc[p] \in {"journaled", "removed"}
    <2>1. journalDurable = journal /\ journalDurable' = journal
        BY <1>0, <1>2, <1>4 DEF Synced
    <2>2. \A f \in Path : disk'[f] # disk[f] => f \in journal.watch
        <3>1. journal # NoTx => IsTx(journal)
            BY DEF IndInv, CoreInv, TypeOK
        <3>2. QED BY <1>0, <1>2, <3>1, TxParts DEF Pended, Operations
    <2>3. Tree(journalDurable)' = Tree(journalDurable)
        BY <2>1, <2>2 DEF Tree
    <2>4. QED BY <1>2, <2>3
<1>5. QED BY <1>3, <1>4

\* Power failures: every step is a step of AtomicApply, with the commit where the
\* journal is durable, or leaves the tree alone.
LEMMA DurableStep ==
    ASSUME IndInv, Next, "kill" \notin Failures
    PROVE  Durable!Next \/ UNCHANGED <<Tree(journalDurable), edited>>
<1>0. /\ IsTree(disk) /\ edited \subseteq Path \ {Record} /\ Synced /\ LockHeld
      /\ Tree(journalDurable)' = [f \in Path |->
            IF f \in journalDurable'.watch THEN journalDurable'.after[f] ELSE disk'[f]]
    BY DEF IndInv, CoreInv, TypeOK, Tree
<1>1. CASE UNCHANGED <<disk, journalDurable, edited>>
    BY <1>1 DEF Tree
<1>2. CASE \E p \in Proc : SyncJournal(p)
    <2>1. PICK p \in Proc : SyncJournal(p)
        BY <1>2
    <2>2. /\ pc[p] = "journaled" /\ journalDurable' = journal /\ disk' = disk /\ edited' = edited
        BY <2>1 DEF SyncJournal, diskVars, historyVars
    <2>3. /\ IsTx(job[p].tx) /\ Planned(job[p].tx) /\ journal = job[p].tx
          /\ job[p].tx.before[Record] = disk[Record] /\ journalDurable = NoTx
        BY <1>0, <2>2, AtPlan DEF Ready, Held, Prepared, Tracked, Synced
    <2>4. QED BY <1>0, <2>2, <2>3, DurableCommit
<1>3. CASE \E p \in Proc, f \in Path : WriteFile(p, f)
    <2>1. PICK p \in Proc, f \in Path : WriteFile(p, f)
        BY <1>3
    <2>2. journal = job[p].tx /\ IsTx(job[p].tx) /\ pc[p] = "write"
        BY <2>1, AtPlan DEF WriteFile, Held, Ready, Executing
    <2>3. journalDurable = journal
        BY <1>0, <2>2 DEF Synced, LockHeld, Holding, Executing
    <2>4. /\ f \in journal.watch /\ edited' \in {edited, edited \ {f}}
          /\ journalDurable' = journalDurable
          /\ disk' \in {disk, [disk EXCEPT ![f] = journal.after[f]]}
        BY <2>1, <2>2, TxParts DEF WriteFile, Operations, journalVars
    <2>5. /\ Tree(journalDurable)' = Tree(journalDurable)
          /\ f \in Out => Tree(journalDurable)[f] = Files(Tree(journalDurable)[Record])[f]
        BY <1>0, <2>2, <2>3, <2>4, SettleTree
    <2>6. Durable!Settle
        BY <2>4, <2>5, DurableNames DEF Durable!Settle
    <2>7. QED BY <2>6 DEF Durable!Next
<1>4. CASE \E p \in Proc : SyncRemoval(p)
    <2>1. PICK p \in Proc : SyncRemoval(p)
        BY <1>4
    <2>2. /\ pc[p] = "removed" /\ journalDurable' = journal /\ disk' = disk /\ edited' = edited
        BY <2>1 DEF SyncRemoval, diskVars, historyVars
    <2>3. /\ IsTx(job[p].tx) /\ journal = NoTx /\ journalDurable = job[p].tx
          /\ \A f \in job[p].tx.watch : disk[f] # job[p].tx.after[f] => f \in edited
        BY <1>0, <2>2, AtPlan DEF Ready, Held, Tracked, Synced
    <2>4. QED BY <1>0, <2>2, <2>3, DurableRemoval
<1>5. CASE \E f \in Out \cup {Module}, c \in OutVal \cup ModVal : EditFile(f, c)
    <2>1. PICK f \in Out \cup {Module}, c \in OutVal \cup ModVal : EditFile(f, c)
        BY <1>5
    <2>2. journalDurable' = journalDurable
        BY <2>1 DEF EditFile, journalVars
    <2>3. /\ edited' = edited \cup {f} /\ edited \cup {f} \subseteq Path /\ Record \in Path \ {f}
          /\ \A g \in Path \ {f} : Tree(journalDurable)'[g] = Tree(journalDurable)[g]
        BY <1>0, <2>1, <2>2, EditTree
    <2>4. Durable!Edit
        BY <2>3, DurableNames DEF Durable!Edit
    <2>5. QED BY <2>4 DEF Durable!Next
<1>6. CASE \E p \in Proc : SyncFile(p)
    <2>1. PICK p \in Proc : SyncFile(p)
        BY <1>6
    <2>2. /\ pc[p] = "sync" /\ disk' = disk /\ edited' = edited
          /\ journalDurable' \in {journal, journalDurable}
        BY <2>1 DEF SyncFile, historyVars
    <2>3. journalDurable = journal
        BY <1>0, <2>2 DEF Synced, LockHeld, Holding, Executing
    <2>4. QED BY <1>1, <2>2, <2>3
<1>7. QED
    BY <1>1, <1>2, <1>3, <1>4, <1>5, <1>6, NoisySteps, DurablePowerFail
       DEF WriteJournal, RemoveJournal, diskVars, journalVars, historyVars

\* While the power may fail at any step, every apply is one atomic change of the record
\* and the whole output, taken when its journal is durable (writeTransaction,
\* syncParents, Recover).
THEOREM DurableApplyIsAtomic ==
    ASSUME "kill" \notin Failures PROVE Spec => ImplementsDurableApply
<1>1. Init => Durable!Init
    BY NewJobType, TreeOfNoTx, DurableNames DEF Init, Durable!Init, Nothing
<1>2. IndInv /\ [Next]_vars => [Durable!Next]_<<Tree(journalDurable), edited>>
    BY DurableStep DEF vars, Tree
<1>3. Spec => []IndInv
    BY PlanInvariance DEF OneKindOfFailure
<1>4. QED BY <1>1, <1>2, <1>3, PTL DEF Spec, ImplementsDurableApply, Durable!Spec
=============================================================================
