---------------------------- MODULE AssureGates ----------------------------
(***************************************************************************)
(* The proof runs and the gates of internal/assure and cmd/assure.         *)
(*                                                                         *)
(* A CI job runs the suites at a commit and hands what they showed to the  *)
(* provider, which signs it and keeps it in its log for ever (assure       *)
(* record). The gate of a change compares the change with its base head    *)
(* and asks for a verified proof run (assure gate change); the gate of a   *)
(* release asks for more, and writes a predicate that the provider signs   *)
(* (assure gate release); the ledger shows what a commit proved (assure    *)
(* ledger). Git objects never change; the log grows at any time.           *)
(***************************************************************************)
EXTENDS Integers, Sequences, FiniteSets, FiniteSetsExt

CONSTANTS
    Commit,        \* commits, with what git and Lathe say of each of them:
    Shares,        \* commit -> obligation of its spec -> shares it has
    Retirements,   \* commit -> retirements of its spec, [retired, successors]
    Automated,     \* commit -> automated test records of its spec
    Manual,        \* commit -> its other test records
    Faults,        \* commit -> code-standard faults of its tree
    Workflows,     \* commit -> the tree of its workflows folder
    Ref,           \* change -> reference at which its own CI run signs
    First,         \* the commit that main starts with
    Test,          \* test record IDs
    SuiteOutput,   \* what the suites can show: test -> results of its runs
    Others,        \* other signatures: [trusted, ref, source]
    Candidate,     \* commits that a release is asked of
    NoBase,
    MaxLog         \* bound on the log

VARIABLES
    main,        \* the commits of main, newest last
    log,         \* the attestations that the provider keeps
    decided,     \* change -> the last decision of its gate
    job,         \* the release job
    predicate,   \* the commits of the decision predicate at the job's path: none or one
    summary,     \* what the step summary of the job shows, newest last
    released     \* release decisions that the provider has signed

vars == <<main, log, decided, job, predicate, summary, released>>

Share == {"designed", "built", "proved"}
Obligations(c) == DOMAIN Shares[c]
Standing(c, o) == IF o \in Obligations(c) THEN Shares[c][o] ELSE {}
Tip(s) == s[Len(s)]
OnMain == {main[i] : i \in DOMAIN main}
NoDecision == [base |-> NoBase, passed |-> FALSE, proof |-> 0]

Init ==
    /\ main = <<First>> /\ log = <<>>
    /\ decided = [c \in Commit |-> NoDecision]
    /\ job = [pc |-> "idle", commit |-> First, proof |-> 0, passed |-> FALSE, exit |-> 0, mute |-> FALSE]
    /\ predicate = {} /\ summary = <<>> /\ released = {}

-----------------------------------------------------------------------------
(***************************************************************************)
(* Proof runs.                                                             *)
(***************************************************************************)

\* oneOutcomePerTestRecord: the worst of its runs.
OneOutcome(results) ==
    IF "failed" \in results THEN "failed"
    ELSE IF "skipped" \in results THEN "skipped" ELSE "passed"

\* outcomeForEveryAutomatedTest: what did not run has failed.
Outcomes(c, runs) ==
    [t \in Automated[c] \cup {t \in Test : runs[t] # {}} |->
        IF runs[t] = {} THEN "failed" ELSE OneOutcome(runs[t])]

\* RecordProofRun at a clean checkout of c, and the provider's signature. A run
\* at main signs the commit it ran at; a run of a change ran at a merge commit.
\* Outcomes of unknown records, or changes in the tree, hand nothing over.
Record(c, runs, ref, clean) ==
    /\ Len(log) < MaxLog
    /\ clean /\ {t \in Test : runs[t] # {}} \subseteq Automated[c] \cup Manual[c]
    /\ IF ref = "main" THEN c \in OnMain ELSE ref = Ref[c]
    /\ log' = Append(log, [commit |-> c, ref |-> ref, trusted |-> TRUE,
                           source |-> IF ref = "main" THEN c ELSE First,
                           outcomes |-> Outcomes(c, runs), runs |-> runs])
    /\ UNCHANGED <<main, decided, job, predicate, summary, released>>

\* Another workflow, or a run of the trusted one at another commit or reference,
\* attests c.
OtherAttests(c, by) ==
    /\ Len(log) < MaxLog
    /\ ~by.trusted \/ (by.ref = "main" /\ by.source # c) \/ by.ref \notin {"main", Ref[c]}
    /\ log' = Append(log, [commit |-> c, ref |-> by.ref, trusted |-> by.trusted, source |-> by.source,
                           outcomes |-> [t \in Test |-> "passed"], runs |-> [t \in Test |-> {}]])
    /\ UNCHANGED <<main, decided, job, predicate, summary, released>>

-----------------------------------------------------------------------------
(***************************************************************************)
(* Verification.                                                           *)
(***************************************************************************)

\* Mutant: a signature at main counts for whatever commit it is about.
GradeAnySource(a, changeRef) ==
    CASE a.trusted /\ a.ref = "main" -> "release"
      [] a.trusted /\ a.ref = changeRef /\ a.ref # "main" -> "change"
      [] OTHER -> "none"

\* TrustedSigner.Grade, with the source digest of a release-grade statement.
Grade(a, changeRef) ==
    CASE a.trusted /\ a.ref = "main" /\ a.source = a.commit -> "release"
      [] a.trusted /\ a.ref = changeRef /\ a.ref # "main" -> "change"
      [] OTHER -> "none"

\* attestationVerified: change grade only while the workflows are the base's.
Accepted(c, changeRef, altered) ==
    {i \in DOMAIN log : /\ log[i].commit = c
                        /\ \/ Grade(log[i], changeRef) = "release"
                           \/ Grade(log[i], changeRef) = "change" /\ ~altered}

\* VerifyAttestation: release grade first, then the newest; 0 when there is none.
Verify(c, changeRef, altered) ==
    LET accepted == Accepted(c, changeRef, altered)
        best == {i \in accepted : Grade(log[i], changeRef) = "release"}
    IN  IF accepted = {} THEN 0 ELSE IF best # {} THEN Max(best) ELSE Max(accepted)

\* proofRunPassed: the automated test records that keep the commit from passing.
NotPassed(c, proof) ==
    IF proof = 0 THEN {"no verified proof run"}
    ELSE {t \in Automated[c] : t \notin DOMAIN log[proof].outcomes
                               \/ log[proof].outcomes[t] # "passed"}

-----------------------------------------------------------------------------
(***************************************************************************)
(* The gate of a change.                                                   *)
(***************************************************************************)

\* holdsRatchet: the shares of the base that the change loses. An obligation that
\* is absent at the change may be retired; then each retirement that names it is
\* followed to its successors.
Falls(base, c) ==
    {lost \in Obligations(base) \X Share :
        LET o == lost[1]
            s == lost[2]
            named == {r \in Retirements[c] : r.retired = o}
        IN
        /\ s \in Standing(base, o) \ Standing(c, o)
        /\ \/ o \in Obligations(c) \/ named = {}
           \/ \E r \in named : \E n \in r.successors : s \notin Standing(c, n)}

\* GateChange against the present head of main; it reads the log once. A failed
\* read, or a store that cannot keep the decision, gives none.
GateChange(c, fails) ==
    LET base == Tip(main)
        altered == Workflows[base] # Workflows[c]
        proof == Verify(c, Ref[c], altered)
    IN
    /\ c \notin OnMain
    /\ decided' = [decided EXCEPT ![c] =
          IF fails THEN NoDecision
          ELSE [base |-> base, proof |-> proof,
                passed |-> /\ Falls(base, c) = {} /\ NotPassed(c, proof) = {}
                           /\ Faults[c] \subseteq Faults[base]]]
    /\ decided' # decided
    /\ UNCHANGED <<main, log, job, predicate, summary, released>>

\* The provider merges a change that is up to date and whose gate passed.
Merge(c) ==
    /\ c \notin OnMain /\ decided[c].passed /\ decided[c].base = Tip(main)
    /\ main' = Append(main, c)
    /\ UNCHANGED <<log, decided, job, predicate, summary, released>>

-----------------------------------------------------------------------------
(***************************************************************************)
(* The gate of a release, and its job.                                     *)
(***************************************************************************)

Started(c) == [pc |-> "gate", commit |-> c, proof |-> 0, passed |-> FALSE, exit |-> 0, mute |-> FALSE]

\* keepNoDecision: exit code 2, and a line in the summary, which may refuse it.
NoDecisionReached(shown) ==
    \/ job' = [job EXCEPT !.pc = "ended", !.exit = 2] /\ summary' = Append(shown, "no decision")
    \/ job' = [job EXCEPT !.pc = "ended", !.exit = 2, !.mute = TRUE] /\ summary' = shown

\* assure gate release starts: JobOutput.Check refuses a predicate that is there.
Check(c) ==
    /\ job.pc = "idle" \/ job.pc = "ended"
    /\ IF predicate = {}
       THEN job' = Started(c) /\ summary' = <<>>
       ELSE /\ job' = [Started(c) EXCEPT !.pc = "ended", !.exit = 2]
            /\ summary' = <<"no decision">>
    /\ UNCHANGED <<main, log, decided, predicate, released>>

\* fullyProved, and no fault.
ReleasePasses(c, proof) ==
    /\ Obligations(c) # {} /\ \A o \in Obligations(c) : Standing(c, o) = Share
    /\ NotPassed(c, proof) = {} /\ Faults[c] = {}

\* GateRelease decides; release grade alone counts.
GateRelease ==
    LET proof == Verify(job.commit, "none", FALSE) IN
    /\ job.pc = "gate"
    /\ job' = [job EXCEPT !.pc = "keep", !.proof = proof, !.passed = ReleasePasses(job.commit, proof)]
    /\ UNCHANGED <<main, log, decided, predicate, summary, released>>

\* It cannot read what it decides on.
GateReleaseFails ==
    /\ job.pc = "gate" /\ NoDecisionReached(summary)
    /\ UNCHANGED <<main, log, decided, predicate, released>>

\* DecisionStore.Keep; a refused decision ends the job.
Keep ==
    /\ job.pc = "keep"
    /\ IF job.passed THEN /\ job' = [job EXCEPT !.pc = "handover"]
                          /\ summary' = Append(summary, "passed")
       ELSE /\ job' = [job EXCEPT !.pc = "ended", !.exit = 1]
            /\ summary' = Append(summary, "refused")
    /\ UNCHANGED <<main, log, decided, predicate, released>>

\* The summary refuses the decision, or has it and the log of the job refuses it.
KeepFails ==
    /\ job.pc = "keep"
    /\ \/ NoDecisionReached(summary)
       \/ NoDecisionReached(Append(summary, IF job.passed THEN "passed" ELSE "refused"))
    /\ UNCHANGED <<main, log, decided, predicate, released>>

\* DecisionStore.HandOver: the predicate takes its name whole, or not at all.
HandOver ==
    /\ job.pc = "handover"
    /\ predicate' = {job.commit} /\ job' = [job EXCEPT !.pc = "ended", !.exit = 0]
    /\ UNCHANGED <<main, log, decided, summary, released>>

HandOverFails ==
    /\ job.pc = "handover" /\ NoDecisionReached(summary)
    /\ UNCHANGED <<main, log, decided, predicate, released>>

\* The attestation job signs the predicate that a job left which exited with 0,
\* and the workspace is cleaned.
Attest ==
    /\ job.pc = "ended" /\ job.exit = 0 /\ predicate # {}
    /\ released' = released \cup {[commit |-> c, proof |-> job.proof] : c \in predicate}
    /\ predicate' = {}
    /\ UNCHANGED <<main, log, decided, job, summary>>

Next ==
    \/ \E c \in Commit :
          \/ \E runs \in SuiteOutput, ref \in {"main", Ref[c]}, clean \in BOOLEAN :
                Record(c, runs, ref, clean)
          \/ \E by \in Others : OtherAttests(c, by)
          \/ \E fails \in BOOLEAN : GateChange(c, fails)
          \/ Merge(c) \/ (c \in Candidate /\ Check(c))
    \/ GateRelease \/ GateReleaseFails \/ Keep \/ KeepFails \/ HandOver \/ HandOverFails \/ Attest

Spec == Init /\ [][Next]_vars

-----------------------------------------------------------------------------
(***************************************************************************)
(* The ledger.                                                             *)
(***************************************************************************)

\* The LastPassedAt column: the newest commit of the first-parent history of
\* main[i] whose proof run passed t. The walk ends where every automated test
\* record of main[i] has passed.
PassedAt(j, t) ==
    LET proof == Verify(main[j], "none", FALSE) IN
    proof # 0 /\ t \in DOMAIN log[proof].outcomes /\ log[proof].outcomes[t] = "passed"

LastPassedAt(i, t) ==
    LET done == {k \in 1 .. i : \A u \in Automated[main[i]] : \E j \in k .. i : PassedAt(j, u)}
        walked == (IF done = {} THEN 1 ELSE Max(done)) .. i
        passed == {j \in walked : PassedAt(j, t)}
    IN  IF passed = {} THEN 0 ELSE Max(passed)

\* The Result column of BuildLedger at c.
LedgerResult(c, t) ==
    LET proof == Verify(c, "none", FALSE) IN
    IF proof # 0 /\ t \in DOMAIN log[proof].outcomes THEN log[proof].outcomes[t] ELSE "none"

-----------------------------------------------------------------------------
(***************************************************************************)
(* Properties.                                                             *)
(***************************************************************************)

TypeOK ==
    /\ main \in Seq(Commit) /\ Len(log) <= MaxLog
    /\ \A c \in Commit : decided[c].base \in Commit \cup {NoBase} /\ decided[c].proof \in 0 .. MaxLog
    /\ job.pc \in {"idle", "gate", "keep", "handover", "ended"} /\ job.exit \in 0 .. 2
    /\ predicate \subseteq Commit /\ Cardinality(predicate) <= 1

\* In the suites behind attestation i, every automated test of c ran, and every run
\* of it passed.
SuitesPassed(c, i) ==
    /\ i \in DOMAIN log /\ log[i].commit = c
    /\ \A t \in Automated[c] : log[i].runs[t] = {"passed"}

\* What passes a gate rests on suites that the trusted workflow really ran: at main,
\* on that commit, for a release; for a change, with the workflows of its base unless
\* the run was at main (RecordProofRun, VerifyAttestation, both gates).
DecisionsRestOnRuns ==
    /\ \A r \in released : /\ SuitesPassed(r.commit, r.proof) /\ log[r.proof].trusted
                           /\ log[r.proof].ref = "main" /\ r.commit \in OnMain
    /\ \A c \in Commit : decided[c].passed =>
          /\ SuitesPassed(c, decided[c].proof) /\ log[decided[c].proof].trusted
          /\ log[decided[c].proof].ref # "main" => Workflows[c] = Workflows[decided[c].base]

\* No change after main[i], up to main[j], retires o.
Unretired(o, i, j) == \A k \in i + 1 .. j : \A r \in Retirements[main[k]] : r.retired # o

KeepsShares(i, j) ==
    \A o \in Obligations(main[i]) :
        Unretired(o, i, j) => Standing(main[i], o) \subseteq Standing(main[j], o)

\* Along main, an obligation keeps every share it ever had, however many changes are
\* merged, unless one of them retired it (holdsRatchet).
NoObligationFalls == \A i, j \in DOMAIN main : i < j => KeepsShares(i, j)

\* The job's output agrees with its exit code: a predicate is there for the provider
\* only after a passed release of that commit, and the summary never ends with a
\* decision that the job does not stand by, unless it refused the line that says so
\* (JobOutput, keepNoDecision).
JobStandsByOutput ==
    job.pc = "ended" =>
        /\ job.exit = 0 => Tip(summary) = "passed" /\ predicate \subseteq {job.commit}
        /\ job.exit = 1 => Tip(summary) = "refused" /\ predicate = {}
        /\ job.exit = 2 => job.mute \/ Tip(summary) = "no decision"

\* Every automated test that the ledger shows as last passed at a commit passed in a
\* run that main signed there (BuildLedger).
LastPassedIsTrue ==
    \A i \in DOMAIN main : \A t \in Test :
        LET j == LastPassedAt(i, t) IN
        j # 0 => \E a \in DOMAIN log : /\ log[a].commit = main[j] /\ log[a].trusted
                                       /\ log[a].ref = "main" /\ log[a].runs[t] = {"passed"}

\* The ledger and the release gate agree, at every time, on whether the automated
\* tests of a commit passed (BuildLedger, NotPassedAt, proofRunPassed).
ResultsAgree ==
    \A c \in Commit :
        (\A t \in Automated[c] : LedgerResult(c, t) = "passed") /\ Verify(c, "none", FALSE) # 0
            <=> NotPassed(c, Verify(c, "none", FALSE)) = {}

LedgerAgreesWithGate == LastPassedIsTrue /\ ResultsAgree

-----------------------------------------------------------------------------
(***************************************************************************)
(* The inductive invariant behind them.                                    *)
(***************************************************************************)

\* The trusted workflow ran at main on the commit that it attests, or at the reference
\* of the change.
Signed(a) == a.trusted /\ ((a.ref = "main" /\ a.source = a.commit) \/ a.ref = Ref[a.commit])

\* What it signs is what the suites showed, and at main it runs commits of main.
LogIsTrue ==
    \A i \in DOMAIN log :
       /\ log[i].commit \in Commit /\ log[i].ref # "none"
       /\ Signed(log[i]) =>
             /\ log[i].runs \in SuiteOutput
             /\ log[i].outcomes = Outcomes(log[i].commit, log[i].runs)
             /\ log[i].ref = "main" => log[i].commit \in OnMain

\* A release of c may rest on attestation i.
RestsOn(c, i) ==
    SuitesPassed(c, i) /\ log[i].trusted /\ log[i].ref = "main" /\ c \in OnMain

\* A decision that has passed loses no share of its base.
RatchetHeld == \A c \in Commit : decided[c].passed => Falls(decided[c].base, c) = {}

JobInv ==
    /\ DOMAIN job = {"pc", "commit", "proof", "passed", "exit", "mute"} /\ job.commit \in Commit
    /\ job.passed \in BOOLEAN /\ job.mute \in BOOLEAN
    /\ job.pc \in {"gate", "keep", "handover"} => predicate = {}
    /\ job.pc = "gate" => ~job.passed
    /\ job.pc = "handover" => job.passed /\ Tip(summary) = "passed"
    /\ job.pc = "ended" /\ job.exit = 0 => job.passed
    /\ job.pc \in {"keep", "handover", "ended"} /\ job.passed => RestsOn(job.commit, job.proof)

GatesInv ==
    /\ TypeOK /\ main # <<>> /\ decided = [c \in Commit |-> decided[c]]
    /\ Len(log) \in Nat /\ log = [i \in 1 .. Len(log) |-> log[i]]
    /\ summary \in Seq({"passed", "refused", "no decision"})
    /\ LogIsTrue /\ DecisionsRestOnRuns /\ RatchetHeld /\ NoObligationFalls
    /\ JobInv /\ JobStandsByOutput
=============================================================================
