------------------------------- MODULE Tools -------------------------------
(***************************************************************************)
(* The tools around the compiler: the lifecycle of published digests, and  *)
(* the gates of assure. A behaviour runs one part, as `part` says; the     *)
(* other stays as it starts.                                               *)
(***************************************************************************)
EXTENDS DigestLifecycle

CONSTANTS
    Commit, Shares, Retirements, Automated, Manual, Faults, Workflows, Ref, First,
    Test, SuiteOutput, Others, Candidate, MaxLog    \* as in AssureGates

\* The first commit is one of them, CI runs of a change have a reference of their own,
\* and a run of a test has one of three outcomes.
ASSUME GatesAssumption ==
    /\ First \in Commit /\ Candidate \subseteq Commit /\ MaxLog \in Nat
    /\ \A c \in Commit : /\ Ref[c] \notin {"main", "none"} /\ Automated[c] \subseteq Test
                         /\ \A o \in DOMAIN Shares[c] :
                               Shares[c][o] \subseteq {"designed", "built", "proved"}
    /\ \A runs \in SuiteOutput : \A t \in Test : runs[t] \subseteq {"passed", "failed", "skipped"}
    /\ \A by \in Others : by.ref # "none"

VARIABLES part, main, log, decided, job, predicate, summary, released

gateVars == <<main, log, decided, job, predicate, summary, released>>

Gates == INSTANCE AssureGates WITH NoBase <- Nothing

ToolsInit == part \in {"lifecycle", "gates"} /\ Init /\ Gates!Init

ToolsNext ==
    \/ part = "lifecycle" /\ Next /\ UNCHANGED <<part, gateVars>>
    \/ part = "gates" /\ Gates!Next /\ UNCHANGED <<part, vars>>

ToolsSpec == ToolsInit /\ [][ToolsNext]_<<part, vars, gateVars>>

-----------------------------------------------------------------------------
\* What passes a gate rests on suites that the trusted workflow ran, an obligation
\* of main keeps its shares unless it is retired, the ledger says what the gate
\* finds, and the output of a release job agrees with its exit code (RecordProofRun,
\* VerifyAttestation, GateChange, GateRelease, BuildLedger, JobOutput).
GatesHold ==
    /\ Gates!TypeOK /\ Gates!DecisionsRestOnRuns /\ Gates!NoObligationFalls
    /\ Gates!LedgerAgreesWithGate /\ Gates!JobStandsByOutput
=============================================================================
