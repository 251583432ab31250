----------------------------- MODULE ScanCycle -----------------------------
(***************************************************************************)
(* The checkpointed scan cycles of the controller runtime: scanCycleBody,  *)
(* scanFromPages, runParallelCyclePage, RunObservation and the checkpoint. *)
(*                                                                         *)
(* A cycle acts on every item of a source. It takes as many passes as it   *)
(* needs: a pass loads the checkpoint, acts on pages of items until its    *)
(* time is short, and saves how far it came, on the condition that nobody  *)
(* saved meanwhile. Passes of several processes overlap and can crash.     *)
(***************************************************************************)
EXTENDS Integers, FiniteSets, FiniteSetsExt

CONSTANTS
    Proc,         \* processes that run passes
    Parallel,     \* those that call ScanCycleParallel
    Last,         \* the items are 1 .. Last, in the order of their cursors
    KeyOf,        \* item -> resource key
    Workers, PageSize, MaxPages,   \* options
    MaxVersion,   \* bound on saves and resets of the checkpoint
    MaxSource     \* bound on versions of the source

\* What the code demands of the numbers: counts, and sources from 1 on.
Bounds == /\ Last \in Nat /\ Workers \in Nat /\ PageSize \in Nat /\ MaxPages \in Nat
          /\ MaxVersion \in Nat /\ MaxSource \in Nat \ {0}

VARIABLES
    source,       \* the version of the desired inputs
    checkpoint,   \* the stored record
    pass          \* process -> its pass

vars == <<source, checkpoint, pass>>

Item == 1 .. Last

\* CycleState; source 0 is the empty string. `did` and `bad` are history: the items
\* that the cycle acted on with success, and those with an unresolved failure.
Fresh(s) == [source |-> s, after |-> 0, failed |-> FALSE, complete |-> FALSE, did |-> {}, bad |-> {}]
Encoded(state) == <<state.source, state.after, state.failed, state.complete>>

\* `budget` is the time left for the work of a pass: ample for one more action, too
\* short for one, or none.
NoPass == [pc |-> "idle", loaded |-> [version |-> 0, state |-> Fresh(0)], result |-> Fresh(0),
           hi |-> 0, pages |-> 0, budget |-> "ample", running |-> {}, started |-> {},
           accepted |-> {}, failures |-> {}, stopped |-> FALSE, aborted |-> FALSE,
           error |-> FALSE, reported |-> FALSE]

Init ==
    /\ source = 1
    /\ checkpoint = [version |-> 0, state |-> Fresh(0)]
    /\ pass = [p \in Proc |-> NoPass]

\* The work of a pass ends; what it keeps is its result and whether it failed.
Worked(p) == [NoPass EXCEPT !.pc = "commit", !.loaded = pass[p].loaded, !.result = pass[p].result,
                            !.error = pass[p].error]

\* The pass of p becomes `change`.
Step(p, change) == pass' = [pass EXCEPT ![p] = change] /\ UNCHANGED <<source, checkpoint>>

-----------------------------------------------------------------------------
(***************************************************************************)
(* A pass.                                                                 *)
(***************************************************************************)

Begin(p) ==
    /\ pass[p].pc = "idle"
    /\ Step(p, [NoPass EXCEPT !.pc = "load", !.result = Fresh(source)])

\* Mutant: a pass that resumes a cycle starts without its failure.
ResumedClean(loaded, s) ==
    IF loaded.state.source = s /\ ~loaded.state.complete
    THEN [loaded.state EXCEPT !.failed = FALSE] ELSE Fresh(s)

\* A cycle of the same source that is not complete goes on.
Resumed(loaded, s) ==
    IF loaded.state.source = s /\ ~loaded.state.complete THEN loaded.state ELSE Fresh(s)

Load(p) ==
    /\ pass[p].pc = "load"
    /\ Step(p, [pass[p] EXCEPT !.pc = "page", !.loaded = checkpoint,
                               !.result = Resumed(checkpoint, pass[p].result.source)])

\* Nothing was loaded, so nothing is saved.
LoadFails(p) ==
    /\ pass[p].pc = "load"
    /\ Step(p, NoPass)

\* The time of the work runs down.
Elapse(p) ==
    /\ pass[p].pc \in {"load", "page", "run"} /\ pass[p].budget # "none"
    /\ \E b \in {"short", "none"} :
          b # pass[p].budget /\ Step(p, [pass[p] EXCEPT !.budget = b])

\* scanFromPages reads the next page, or stops at its limit or its deadline.
ReadPage(p) ==
    LET r == pass[p].result
        hi == IF r.after + PageSize < Last THEN r.after + PageSize ELSE Last
    IN
    /\ pass[p].pc = "page"
    /\ IF pass[p].budget = "none" \/ pass[p].pages = MaxPages
       THEN Step(p, [Worked(p) EXCEPT !.error = pass[p].budget = "none"])
       ELSE Step(p, [pass[p] EXCEPT !.pc = "run", !.hi = hi, !.pages = @ + 1, !.running = {},
                                    !.started = {}, !.accepted = {}, !.failures = {}])

\* A failed read; ErrScanWindowLimit ends the cycle, as a failed one.
ReadFails(p, window) ==
    /\ pass[p].pc = "page" /\ pass[p].pages < MaxPages
    /\ LET ends == window /\ pass[p].budget # "none" IN
       Step(p, [Worked(p) EXCEPT !.error = TRUE,
                !.result.complete = @ \/ ends, !.result.failed = @ \/ ends])

Page(p) == pass[p].result.after + 1 .. pass[p].hi

\* What may start: in source order without workers; with them, the first item that is
\* left of any key that is not running.
Startable(p) ==
    LET left == Page(p) \ pass[p].started IN
    IF p \in Parallel
    THEN {i \in left : /\ \A j \in left : KeyOf[j] = KeyOf[i] => i <= j
                       /\ \A j \in pass[p].running : KeyOf[j] # KeyOf[i]}
    ELSE {i \in left : \A j \in left : i <= j}

Slots(p) == IF p \in Parallel THEN Workers ELSE 1

StartAction(p, i) ==
    /\ pass[p].pc = "run" /\ ~pass[p].stopped /\ pass[p].budget = "ample"
    /\ Cardinality(pass[p].running) < Slots(p) /\ i \in Startable(p)
    /\ Step(p, [pass[p] EXCEPT !.running = @ \cup {i}, !.started = @ \cup {i}])

\* The time is too short for one more action, or it is over.
StopPage(p) ==
    /\ pass[p].pc = "run" /\ ~pass[p].stopped /\ pass[p].budget # "ample"
    /\ Page(p) \ pass[p].started # {} \/ pass[p].budget = "none"
    /\ Step(p, [pass[p] EXCEPT !.stopped = TRUE, !.aborted = pass[p].budget = "none"])

\* cycleActionWithRetry returns, after its last attempt. A return after the deadline,
\* or after a peer's failure has aborted the page, is an error; continueOnError may
\* permit only errors of actions that nothing interrupted.
FinishAction(p, i, ok, permitted) ==
    /\ pass[p].pc = "run" /\ i \in pass[p].running
    /\ LET interrupted == pass[p].budget = "none" \/ pass[p].aborted
           good == ok /\ ~interrupted
           allowed == permitted /\ ~interrupted
       IN  Step(p, [pass[p] EXCEPT
              !.running = @ \ {i},
              !.accepted = IF good \/ allowed THEN @ \cup {i} ELSE @,
              !.failures = IF good THEN @ ELSE @ \cup {i},
              !.result.did = IF good THEN @ \cup {i} ELSE @,
              !.result.bad = IF good THEN @ ELSE @ \cup {i},
              !.stopped = @ \/ ~(good \/ allowed), !.aborted = @ \/ ~(good \/ allowed),
              !.error = @ \/ ~(good \/ allowed)])

\* A worker reserves time again before it acts: an item that it got too late, or after
\* an abort, has neither an action nor a failure.
NotReserved(p, i) ==
    LET ended == pass[p].budget = "none" \/ pass[p].aborted IN
    /\ pass[p].pc = "run" /\ p \in Parallel /\ i \in pass[p].running
    /\ ended \/ pass[p].budget = "short"
    /\ Step(p, [pass[p] EXCEPT !.running = @ \ {i}, !.stopped = TRUE, !.aborted = ended,
                               !.error = @ \/ ended])

\* The cursor after the contiguous accepted items of the page.
Prefix(p) == Max({pass[p].result.after} \cup
                 {i \in Page(p) : pass[p].result.after + 1 .. i \subseteq pass[p].accepted})

\* Every action has returned: the page counts, with each of its failures.
EndPage(p) ==
    LET whole == Prefix(p) = pass[p].hi /\ ~pass[p].stopped
        late == pass[p].budget = "none"
        goesOn == whole /\ ~late /\ pass[p].hi < Last
    IN
    /\ pass[p].pc = "run" /\ pass[p].running = {}
    /\ pass[p].stopped \/ Page(p) \subseteq pass[p].started
    /\ Step(p, [IF goesOn THEN [pass[p] EXCEPT !.pc = "page"] ELSE Worked(p) EXCEPT
          !.error = @ \/ late,
          !.result.after = Prefix(p),
          !.result.failed = @ \/ pass[p].failures # {},
          !.result.complete = whole /\ ~late /\ pass[p].hi = Last])

\* RunObservation: a parent that has ended prevents the save.
ParentEnds(p) ==
    /\ pass[p].pc = "commit"
    /\ Step(p, NoPass)

\* ScanCycle returns: its result without an error, or an error.
Returned(p, saved) ==
    IF saved /\ ~pass[p].error /\ ~pass[p].result.failed
    THEN [NoPass EXCEPT !.result = pass[p].result, !.reported = TRUE]
    ELSE NoPass

\* Mutant: the save does not compare the version.
SaveBlind(p, committed, answered) ==
    LET r == pass[p].result
        same == Encoded(r) = Encoded(pass[p].loaded.state)
    IN
    /\ pass[p].pc = "commit" /\ checkpoint.version < MaxVersion
    /\ checkpoint' = IF committed /\ ~same THEN [version |-> checkpoint.version + 1, state |-> r]
                     ELSE checkpoint
    /\ pass' = [pass EXCEPT ![p] = Returned(p, same \/ (committed /\ answered))]
    /\ UNCHANGED source

\* The conditional save. Nothing is written when the encoding did not change; the
\* store can refuse, and its answer can get lost.
Save(p, committed, answered) ==
    LET r == pass[p].result
        same == Encoded(r) = Encoded(pass[p].loaded.state)
        wins == committed /\ checkpoint.version = pass[p].loaded.version
    IN
    /\ pass[p].pc = "commit" /\ checkpoint.version < MaxVersion
    /\ checkpoint' = IF wins /\ ~same THEN [version |-> checkpoint.version + 1, state |-> r]
                     ELSE checkpoint
    /\ pass' = [pass EXCEPT ![p] = Returned(p, same \/ (wins /\ answered))]
    /\ UNCHANGED source

\* A process dies and another one takes its place.
Crash(p) == pass[p].pc # "idle" /\ Step(p, NoPass)

-----------------------------------------------------------------------------
(***************************************************************************)
(* The application.                                                        *)
(***************************************************************************)

\* The desired inputs change: later passes name another source.
ChangeSource ==
    /\ source < MaxSource
    /\ source' = source + 1 /\ UNCHANGED <<checkpoint, pass>>

\* A dependency changes, and its transaction resets the checkpoint.
Invalidate ==
    /\ checkpoint.version \in 1 .. MaxVersion - 1
    /\ checkpoint.state # Fresh(0)
    /\ checkpoint' = [version |-> checkpoint.version + 1, state |-> Fresh(0)]
    /\ UNCHANGED <<source, pass>>

Next ==
    \/ \E p \in Proc :
          \/ Begin(p) \/ Load(p) \/ LoadFails(p) \/ Elapse(p) \/ ReadPage(p)
          \/ \E window \in BOOLEAN : ReadFails(p, window)
          \/ \E i \in Item : StartAction(p, i) \/ NotReserved(p, i)
                             \/ \E ok, permitted \in BOOLEAN : FinishAction(p, i, ok, permitted)
          \/ StopPage(p) \/ EndPage(p) \/ ParentEnds(p)
          \/ \E committed, answered \in BOOLEAN : Save(p, committed, answered)
          \/ Crash(p)
    \/ ChangeSource \/ Invalidate

Spec == Init /\ [][Next]_vars

-----------------------------------------------------------------------------
(***************************************************************************)
(* Properties.                                                             *)
(***************************************************************************)

CycleState == [source : 0 .. MaxSource, after : 0 .. Last, failed : BOOLEAN,
               complete : BOOLEAN, did : SUBSET Item, bad : SUBSET Item]
Record == [version : 0 .. MaxVersion, state : CycleState]
PassRecord ==
    [pc : {"idle", "load", "page", "run", "commit"}, loaded : Record, result : CycleState,
     hi : 0 .. Last, pages : 0 .. MaxPages, budget : {"ample", "short", "none"},
     running : SUBSET Item, started : SUBSET Item, accepted : SUBSET Item,
     failures : SUBSET Item, stopped : BOOLEAN, aborted : BOOLEAN, error : BOOLEAN,
     reported : BOOLEAN]

TypeOK == source \in 1 .. MaxSource /\ checkpoint \in Record /\ pass \in [Proc -> PassRecord]

\* Of a cycle state: no item before the cursor, or none at all when it is complete,
\* was left out, and a failure of any of its actions is on record.
Honest(state) ==
    /\ state.bad # {} => state.failed
    /\ ~state.failed => /\ 1 .. state.after \subseteq state.did
                        /\ state.complete => Item \subseteq state.did
    /\ \A i \in 1 .. state.after : i \in state.did \cup state.bad

\* What is stored, and every success that ScanCycle reports, is honest, whatever
\* passes overlapped, timed out or crashed (scanCycleBody, runParallelCyclePage).
CyclesAreHonest ==
    /\ Honest(checkpoint.state)
    /\ \A p \in Proc : pass[p].reported =>
          Honest(pass[p].result) /\ ~pass[p].result.failed

\* Within a pass no two actions of one resource key overlap, and all of them have
\* returned when it saves (jobs, results, running.Wait).
ActionsAreExclusive ==
    \A p \in Proc :
        /\ \A i, j \in pass[p].running : KeyOf[i] = KeyOf[j] => i = j
        /\ pass[p].pc = "commit" => pass[p].running = {}

\* State r carries on state s of the same cycle.
GoesOnFrom(r, s) ==
    r.source = s.source /\ ~s.complete
        => r.after >= s.after /\ (s.failed => r.failed) /\ s.did \subseteq r.did

\* What a pass knows while it works: the version that it loaded names one state, which
\* its own state carries on, and its cycle is not complete yet.
Working(r) ==
    r.pc \in {"page", "run", "commit"} =>
        /\ r.loaded.version <= checkpoint.version
        /\ r.loaded.version = checkpoint.version => r.loaded.state = checkpoint.state
        /\ r.result.source >= 1 /\ GoesOnFrom(r.result, r.loaded.state)
        /\ r.pc # "commit" => ~r.result.complete

\* On a page an item is started before it runs, and runs before it is accepted; what
\* was accepted succeeded, or is among the failures that the end of the page records.
OnPage(r) ==
    r.pc = "run" =>
        /\ r.result.after <= r.hi
        /\ r.started \subseteq r.result.after + 1 .. r.hi /\ r.running \subseteq r.started
        /\ r.accepted \subseteq r.result.did \cup r.failures
        /\ r.failures \subseteq r.result.bad
        /\ Honest([r.result EXCEPT !.failed = @ \/ r.failures # {}])

\* What holds of every pass, in every step.
PassInv(r) ==
    /\ r.pc = "load" => r.result = Fresh(r.result.source) /\ r.result.source >= 1
    /\ r.pc \in {"page", "commit"} => Honest(r.result)
    /\ r.pc # "run" => r.running = {}
    /\ Working(r) /\ OnPage(r)
    /\ r.reported => r.pc = "idle" /\ Honest(r.result) /\ ~r.result.failed
    /\ \A i, j \in r.running : KeyOf[i] = KeyOf[j] => i = j

\* The inductive invariant: a stored cycle is honest, and without a source it is none.
CycleInv ==
    /\ TypeOK /\ Honest(checkpoint.state)
    /\ checkpoint.state.source = 0 => checkpoint.state = Fresh(0)
    /\ \A p \in Proc : PassInv(pass[p])

\* A save continues the stored cycle from where it is: it neither moves its cursor
\* back nor drops its failure (ValidateCycleTransition).
CyclesGoForward == [][GoesOnFrom(checkpoint'.state, checkpoint.state)]_checkpoint
=============================================================================
