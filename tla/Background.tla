----------------------------- MODULE Background -----------------------------
(***************************************************************************)
(* The background work of a generated service and of a controller: the     *)
(* outbox, a second one with other timeouts and faults, three uses of a    *)
(* scan cycle, and a watch set. They share nothing: a behaviour is one of  *)
(* the six, as `scenario` says, and the variables of the others stay as    *)
(* they start.                                                             *)
(***************************************************************************)
EXTENDS Outbox

CONSTANTS
    StallTimeout, StallFaults,   \* AttemptTimeout and Faults of the second outbox
    Cycles,                      \* name of a use of a scan cycle -> its options
    Path, Identity, Object, Initial, Assignment, MaxObjects, MaxWatches,
    MaxWrites                    \* as in WatchSet

VARIABLES
    scenario,
    txnS, holderS, statusS, seqS, nextS, attemptsS, tokenS, leaseS, dueS, atS, msgS, timerS,
    purgingS, succeededS, purgedS,                                   \* Outbox, with stalls
    sourceP, checkpointP, passP,                                     \* ScanCycle, in parallel
    sourceO, checkpointO, passO,                                     \* ScanCycle, overlapping
    sourceI, checkpointI, passI,                                     \* ScanCycle, inputs change
    history, floor, watches, active, total, run, view                \* WatchSet

stallVars == <<txnS, holderS, statusS, seqS, nextS, attemptsS, tokenS, leaseS, dueS, atS,
               msgS, timerS, purgingS, succeededS, purgedS>>
pagesVars == <<sourceP, checkpointP, passP>>
passesVars == <<sourceO, checkpointO, passO>>
inputsVars == <<sourceI, checkpointI, passI>>
watchVars == <<history, floor, watches, active, total, run, view>>

\* An outbox, with what OutboxProofs shows of it.
Stalls == INSTANCE OutboxProofs WITH
    AttemptTimeout <- StallTimeout, Faults <- StallFaults,
    txn <- txnS, holder <- holderS, status <- statusS, seq <- seqS, next <- nextS,
    attempts <- attemptsS, token <- tokenS, lease <- leaseS, due <- dueS, at <- atS,
    msg <- msgS, timer <- timerS, purging <- purgingS, succeeded <- succeededS,
    purged <- purgedS

\* A scan cycle, with what ScanCycleProofs shows of it.
Pages == INSTANCE ScanCycleProofs WITH
    Proc <- Cycles.pages.proc, Parallel <- Cycles.pages.parallel, Last <- Cycles.pages.last,
    KeyOf <- Cycles.pages.keyOf, Workers <- Cycles.pages.workers,
    PageSize <- Cycles.pages.pageSize, MaxPages <- Cycles.pages.maxPages,
    MaxVersion <- Cycles.pages.maxVersion, MaxSource <- Cycles.pages.maxSource,
    source <- sourceP, checkpoint <- checkpointP, pass <- passP

Passes == INSTANCE ScanCycleProofs WITH
    Proc <- Cycles.passes.proc, Parallel <- Cycles.passes.parallel, Last <- Cycles.passes.last,
    KeyOf <- Cycles.passes.keyOf, Workers <- Cycles.passes.workers,
    PageSize <- Cycles.passes.pageSize, MaxPages <- Cycles.passes.maxPages,
    MaxVersion <- Cycles.passes.maxVersion, MaxSource <- Cycles.passes.maxSource,
    source <- sourceO, checkpoint <- checkpointO, pass <- passO

Inputs == INSTANCE ScanCycleProofs WITH
    Proc <- Cycles.inputs.proc, Parallel <- Cycles.inputs.parallel, Last <- Cycles.inputs.last,
    KeyOf <- Cycles.inputs.keyOf, Workers <- Cycles.inputs.workers,
    PageSize <- Cycles.inputs.pageSize, MaxPages <- Cycles.inputs.maxPages,
    MaxVersion <- Cycles.inputs.maxVersion, MaxSource <- Cycles.inputs.maxSource,
    source <- sourceI, checkpoint <- checkpointI, pass <- passI

Watches == INSTANCE WatchSet

ASSUME StallsAssumption ==
    /\ StallTimeout \in Nat
    /\ StallFaults \subseteq {"crash", "database", "stall", "refuse", "purge"}
ASSUME CyclesAssumption == Pages!Bounds /\ Passes!Bounds /\ Inputs!Bounds
ASSUME WatchesAssumption == Watches!Bounds

BackgroundInit ==
    /\ scenario \in {"leases", "stalls", "pages", "passes", "inputs", "watches"}
    /\ Init /\ Stalls!Init /\ Pages!Init /\ Passes!Init /\ Inputs!Init /\ Watches!Init

\* Scenario s runs: the others keep their state.
Only(s) ==
    /\ scenario = s /\ UNCHANGED scenario
    /\ IF s = "leases" THEN TRUE ELSE UNCHANGED vars
    /\ IF s = "stalls" THEN TRUE ELSE UNCHANGED stallVars
    /\ IF s = "pages" THEN TRUE ELSE UNCHANGED pagesVars
    /\ IF s = "passes" THEN TRUE ELSE UNCHANGED passesVars
    /\ IF s = "inputs" THEN TRUE ELSE UNCHANGED inputsVars
    /\ IF s = "watches" THEN TRUE ELSE UNCHANGED watchVars

BackgroundNext ==
    \/ Only("leases") /\ Next
    \/ Only("stalls") /\ Stalls!Next
    \/ Only("pages") /\ Pages!Next
    \/ Only("passes") /\ Passes!Next
    \/ Only("inputs") /\ Inputs!Next
    \/ Only("watches") /\ Watches!Next

backgroundVars ==
    <<scenario, vars, stallVars, pagesVars, passesVars, inputsVars, watchVars>>

BackgroundSpec == BackgroundInit /\ [][BackgroundNext]_backgroundVars

-----------------------------------------------------------------------------
\* Also when processes stall past their leases and dead letters are purged, a key's
\* messages are delivered in order, none is lost and a lease keeps its holder; two
\* deliveries of one key can then overlap, but the first of them has lost its lease
\* (Claim, Acknowledge, Retry, Purge).
StallsAreSafe ==
    /\ []Stalls!IndInv
    /\ Stalls!DeliveredInOrder /\ Stalls!NeverLost /\ Stalls!LeaseIsKept

\* Of the cycles that run: a stored checkpoint, and every success that a cycle reports,
\* leaves out no item and forgets no failure; actions of one key do not overlap
\* (scanCycleBody, runParallelCyclePage). CycleInv is the inductive invariant.
CyclesHold ==
    /\ scenario = "pages" =>
          Pages!CycleInv /\ Pages!CyclesAreHonest /\ Pages!ActionsAreExclusive
    /\ scenario = "passes" =>
          Passes!CycleInv /\ Passes!CyclesAreHonest /\ Passes!ActionsAreExclusive
    /\ scenario = "inputs" =>
          Inputs!CycleInv /\ Inputs!CyclesAreHonest /\ Inputs!ActionsAreExclusive

\* A save never sets an unfinished cycle back (Save, ValidateCycleTransition).
CyclesGoForward == Pages!CyclesGoForward /\ Passes!CyclesGoForward /\ Inputs!CyclesGoForward

\* What the consumer of a watch set was told last is what the collections were, of the
\* assigned identities alone and within the limit (WatchSet.Run, Observe). WatchInv is
\* the inductive invariant.
WatchesHold ==
    scenario = "watches" =>
       /\ Watches!WatchInv /\ Watches!TypeOK
       /\ Watches!ViewIsTrue /\ Watches!ObjectsCounted /\ Watches!WatchesAreAssigned
=============================================================================
