---------------------------- MODULE ToolsProofs ----------------------------
(***************************************************************************)
(* The tools around the compiler, for any commands, digests, days, commits,*)
(* tests and signatures: the lifecycle of published digests keeps its      *)
(* advisories and refuses the pins that do not stand, and the gates of     *)
(* assure pass only what proof runs of the trusted workflow have shown.    *)
(***************************************************************************)
EXTENDS Tools, FiniteSetTheorems, SequenceTheorems, WellFoundedInduction, TLAPS

\* A bounded set of numbers that is not empty has a maximum.
LEMMA MaxOf ==
    ASSUME NEW n \in Nat, NEW S, S \subseteq 0 .. n, S # {}
    PROVE  Max(S) \in S /\ \A x \in S : x <= Max(S)
<1> DEFINE T == {n - x : x \in S}
<1>1. \A x \in S : x \in Nat /\ x <= n
    OBVIOUS
<1>2. T \subseteq Nat /\ T # {}
    <2>1. \A x \in S : n - x \in Nat
        BY <1>1
    <2>2. PICK x \in S : TRUE
        OBVIOUS
    <2>3. n - x \in T
        OBVIOUS
    <2>4. QED BY <2>1, <2>3
<1>3. OpToRel(<, Nat) = {ss \in Nat \X Nat : ss[1] < ss[2]}
    BY DEF OpToRel
<1>4. PICK m \in T : \A y \in T : <<y, m>> \notin OpToRel(<, Nat)
    <2>1. IsWellFoundedOn(OpToRel(<, Nat), Nat)
        BY NatLessThanWellFounded
    <2> HIDE DEF T
    <2>2. QED BY ONLY <1>2, <2>1, WFMin
<1>5. \A y \in T : m <= y
    <2> HIDE DEF T
    <2> SUFFICES ASSUME NEW y \in T PROVE ~(y < m)
        BY <1>2
    <2>1. <<y, m>> \notin {ss \in Nat \X Nat : ss[1] < ss[2]}
        BY <1>3, <1>4
    <2>2. QED BY <1>2, <2>1
<1>6. PICK z \in S : m = n - z
    OBVIOUS
<1>7. \A x \in S : x <= z
    BY <1>1, <1>5, <1>6
<1>8. \E x \in S : \A y \in S : x >= y
    BY <1>1, <1>7
<1>9. Max(S) \in S /\ \A y \in S : Max(S) >= y
    BY <1>8 DEF Max
<1>10. QED BY <1>1, <1>9

-----------------------------------------------------------------------------
(***************************************************************************)
(* The lifecycle of digests.                                               *)
(***************************************************************************)

\* A step of one command leaves the others as they are.
LEMMA CommandStep ==
    ASSUME LifecycleInv, NEW p \in Proc, NEW x, cmd' = [cmd EXCEPT ![p] = x],
           IsCommand(x), x.ok => Recorded(x)',
           \A n \in Number : folder[n] # Nothing =>
               /\ folder'[n] # Nothing
               /\ [folder'[n] EXCEPT !.retracted = FALSE] = [folder[n] EXCEPT !.retracted = FALSE]
    PROVE  /\ cmd' = [q \in Proc |-> cmd'[q]]
           /\ \A q \in Proc : IsCommand(cmd[q])' /\ (cmd[q].ok => Recorded(cmd[q]))'
<1>1. cmd = [q \in Proc |-> cmd[q]]
    BY DEF LifecycleInv
<1>2. /\ cmd' = [q \in Proc |-> cmd'[q]] /\ cmd'[p] = x
      /\ \A q \in Proc : q # p => cmd'[q] = cmd[q]
    BY <1>1
<1>3. ASSUME NEW y, Recorded(y) PROVE Recorded(y)'
    BY <1>3 DEF Recorded
<1>4. ASSUME NEW q \in Proc PROVE IsCommand(cmd'[q]) /\ (cmd'[q].ok => Recorded(cmd[q])')
    <2>1. CASE q = p
        <3>1. ASSUME NEW y, y = cmd'[q], Recorded(y)' PROVE Recorded(cmd[q])'
            BY <3>1 DEF Recorded
        <3>2. QED BY <1>2, <2>1, <3>1
    <2>2. CASE q # p
        <3>1. cmd'[q] = cmd[q] /\ IsCommand(cmd[q]) /\ (cmd[q].ok => Recorded(cmd[q]))
            BY <1>2, <2>2 DEF LifecycleInv
        <3>2. ASSUME NEW y, y = cmd[q], y = cmd'[q], Recorded(y) PROVE Recorded(cmd[q])'
            <4>1. Recorded(y)'
                BY <1>3, <3>2
            <4>2. QED BY <3>2, <4>1 DEF Recorded
        <3>3. QED BY <3>1, <3>2
    <2>3. QED BY <2>1, <2>2
<1>5. QED BY <1>2, <1>4

\* What a command is asked to record is an advisory.
LEMMA RequestedAdvisory ==
    ASSUME NEW r \in Request
    PROVE  Advisory(r) \in AdvisoryFile /\ ~Advisory(r).retracted
<1>1. Day \subseteq Int
    BY DEF Day
<1>2. /\ r.kind \in {"supersession", "withdrawal"} /\ r.subject \in Subject
      /\ r.successor \in Subject \cup {Nothing} /\ r.failsAfter \in Int
    BY <1>1 DEF Request
<1>3. QED BY <1>2 DEF Advisory, AdvisoryFile

\* Then the invariant is kept, when the rest of the state keeps its type.
LEMMA CommandInv ==
    ASSUME LifecycleInv, NEW p \in Proc, NEW x, cmd' = [cmd EXCEPT ![p] = x],
           IsCommand(x), x.ok => Recorded(x)',
           x.pc \in {"idle", "get", "number", "create", "link", "remove", "recorded"},
           folder' \in [Number -> AdvisoryFile \cup {Nothing}],
           \A n \in Number : folder[n] # Nothing =>
               /\ folder'[n] # Nothing
               /\ [folder'[n] EXCEPT !.retracted = FALSE] = [folder[n] EXCEPT !.retracted = FALSE],
           exists' \in BOOLEAN, temps' \subseteq Proc, litter' \in BOOLEAN,
           held' = held, today' = today, kills' \in 0 .. MaxKill
    PROVE  LifecycleInv'
<1>1. /\ cmd' = [q \in Proc |-> cmd'[q]]
      /\ \A q \in Proc : IsCommand(cmd[q])' /\ (cmd[q].ok => Recorded(cmd[q]))'
    BY CommandStep
<1>2. \A q \in Proc : cmd'[q].pc \in {"idle", "get", "number", "create", "link", "remove",
                                      "recorded"}
    BY DEF LifecycleInv, TypeOK
<1>3. TypeOK'
    BY <1>2 DEF LifecycleInv, TypeOK
<1>4. QED BY <1>1, <1>3 DEF LifecycleInv

\* A command that has not begun to write keeps the folder.
LEMMA QuietStep ==
    ASSUME LifecycleInv, NEW p \in Proc, NEW x, cmd' = [cmd EXCEPT ![p] = x],
           IsCommand(x), x.ok => Recorded(x),
           x.pc \in {"idle", "get", "number", "create", "link", "remove", "recorded"},
           UNCHANGED <<folder, held, today>>,
           exists' \in BOOLEAN, temps' \subseteq Proc, litter' \in BOOLEAN, kills' \in 0 .. MaxKill
    PROVE  LifecycleInv'
<1>1. x.ok => Recorded(x)'
    BY DEF Recorded
<1>2. folder' \in [Number -> AdvisoryFile \cup {Nothing}]
    BY DEF LifecycleInv, TypeOK
<1>3. QED BY <1>1, <1>2, CommandInv

LEMMA FailedIsCommand == IsCommand(Failed) /\ ~Failed.ok /\ Failed.pc = "idle"
BY DEF IsCommand, Failed

LEMMA LifecycleStart ==
    ASSUME LifecycleInv, NEW p \in Proc, NEW r \in Requests, Start(p, r)
    PROVE  LifecycleInv'
<1> DEFINE x == [Failed EXCEPT !.pc = "get", !.request = r, !.recordedOn = today]
<1>1. r \in Request
    BY LifecycleAssumption
<1>2. IsCommand(x) /\ x.pc = "get" /\ ~x.ok
    BY <1>1 DEF IsCommand, Failed
<1>3. cmd' = [cmd EXCEPT ![p] = x]
    BY DEF Start
<1> HIDE DEF x
<1>4. QED BY <1>2, <1>3, QuietStep DEF Start, LifecycleInv, TypeOK

LEMMA LifecycleGet ==
    ASSUME LifecycleInv, NEW p \in Proc, Get(p)
    PROVE  LifecycleInv'
<1>1. CASE cmd' = [cmd EXCEPT ![p] = Failed]
    BY <1>1, FailedIsCommand, QuietStep DEF Get, LifecycleInv, TypeOK
<1>2. ASSUME NEW current, current = Lifecycle(cmd[p].request.subject),
             cmd' = [cmd EXCEPT ![p].pc = "number", ![p].current = current]
      PROVE  LifecycleInv'
    <2> DEFINE x == [cmd[p] EXCEPT !.pc = "number", !.current = current]
    <2>1. cmd' = [cmd EXCEPT ![p] = x]
        BY <1>2 DEF LifecycleInv
    <2>2. IsCommand(cmd[p]) /\ cmd[p].pc = "get"
        BY DEF LifecycleInv, Get
    <2>3. IsCommand(x) /\ x.pc = "number" /\ ~x.ok
        BY <2>2 DEF IsCommand
    <2> HIDE DEF x
    <2>4. QED BY <2>1, <2>3, QuietStep DEF Get, LifecycleInv, TypeOK
<1>3. QED BY <1>1, <1>2 DEF Get

LEMMA LifecycleDecide ==
    ASSUME LifecycleInv, NEW p \in Proc, Decide(p)
    PROVE  LifecycleInv'
<1> DEFINE r == cmd[p].request
           taken == {n \in Number : folder[n] # Nothing}
           id == IF taken = {} THEN 1 ELSE Max(taken) + 1
<1>1. CASE cmd' = [cmd EXCEPT ![p] = Failed]
    BY <1>1, FailedIsCommand, QuietStep DEF Decide, LifecycleInv, TypeOK
<1>2. ASSUME id \in Number,
             cmd' = [cmd EXCEPT ![p].pc = "create", ![p].id = id, ![p].advisory = Advisory(r)]
      PROVE  LifecycleInv'
    <2>1. IsCommand(cmd[p]) /\ cmd[p].pc = "number"
        BY DEF LifecycleInv, Decide
    <2>2. r \in Request
        BY <2>1 DEF IsCommand
    <2>3. Advisory(r) \in AdvisoryFile /\ ~Advisory(r).retracted
        BY <2>2, RequestedAdvisory
    <2> HIDE DEF id, r
    <2> DEFINE a == Advisory(r)
               x == [cmd[p] EXCEPT !.pc = "create", !.id = id, !.advisory = a]
    <2>4. a \in AdvisoryFile /\ ~a.retracted
        BY <2>3
    <2>5. cmd' = [cmd EXCEPT ![p].pc = "create", ![p].id = id, ![p].advisory = a]
        BY <1>2
    <2> HIDE DEF a
    <2>6. cmd' = [cmd EXCEPT ![p] = x]
        BY <2>5 DEF LifecycleInv
    <2>7. IsCommand(x) /\ x.pc = "create" /\ ~x.ok
        BY <1>2, <2>1, <2>4 DEF IsCommand
    <2> HIDE DEF x
    <2>8. QED BY <2>6, <2>7, QuietStep DEF Decide, LifecycleInv, TypeOK
<1>3. QED BY <1>1, <1>2 DEF Decide

LEMMA LifecycleCreateTemp ==
    ASSUME LifecycleInv, NEW p \in Proc, CreateTemp(p)
    PROVE  LifecycleInv'
<1> DEFINE x == [cmd[p] EXCEPT !.pc = "link"]
<1>1. cmd' = [cmd EXCEPT ![p] = x]
    BY DEF CreateTemp, LifecycleInv
<1>2. IsCommand(cmd[p]) /\ cmd[p].pc = "create"
    BY DEF LifecycleInv, CreateTemp
<1>3. IsCommand(x) /\ x.pc = "link" /\ ~x.ok
    BY <1>2 DEF IsCommand
<1> HIDE DEF x
<1>4. QED BY <1>1, <1>3, QuietStep DEF CreateTemp, LifecycleInv, TypeOK

LEMMA LifecycleGivesUp ==
    ASSUME LifecycleInv, NEW p \in Proc, cmd[p].pc = "link",
           cmd' = [cmd EXCEPT ![p].pc = "remove"],
           UNCHANGED <<folder, exists, temps, litter, held, today, kills>>
    PROVE  LifecycleInv'
<1> DEFINE x == [cmd[p] EXCEPT !.pc = "remove"]
<1>1. cmd' = [cmd EXCEPT ![p] = x]
    BY DEF LifecycleInv
<1>2. IsCommand(cmd[p])
    BY DEF LifecycleInv
<1>3. IsCommand(x) /\ x.pc = "remove" /\ ~x.ok
    BY <1>2 DEF IsCommand
<1> HIDE DEF x
<1>4. QED BY <1>1, <1>3, QuietStep DEF LifecycleInv, TypeOK

LEMMA LifecycleLink ==
    ASSUME LifecycleInv, NEW p \in Proc, Link(p)
    PROVE  LifecycleInv'
<1>1. CASE folder[cmd[p].id] # Nothing
    BY <1>1, LifecycleGivesUp DEF Link
<1>2. CASE folder[cmd[p].id] = Nothing
    <2>. PICK x : x = [cmd[p] EXCEPT !.pc = "remove", !.ok = TRUE]
        OBVIOUS
    <2>1. IsCommand(cmd[p]) /\ cmd[p].pc = "link"
        BY DEF LifecycleInv, Link
    <2>2. cmd' = [cmd EXCEPT ![p] = x]
        BY <1>2 DEF Link, LifecycleInv
    <2>3. IsCommand(x) /\ x.pc = "remove" /\ x.id = cmd[p].id /\ x.advisory = cmd[p].advisory
        BY <2>1 DEF IsCommand
    <2>4. PICK a : a = cmd[p].advisory
        OBVIOUS
    <2>5. PICK n : n = cmd[p].id
        OBVIOUS
    <2>6. n \in Number /\ a \in AdvisoryFile /\ ~a.retracted /\ a # Nothing
        BY <2>1, <2>4, <2>5, LifecycleAssumption DEF IsCommand
    <2>7. folder' = [folder EXCEPT ![n] = a] /\ folder[n] = Nothing
        BY <1>2, <2>4, <2>5 DEF Link
    <2>8. folder \in [Number -> AdvisoryFile \cup {Nothing}]
        BY DEF LifecycleInv, TypeOK
    <2>9. folder' \in [Number -> AdvisoryFile \cup {Nothing}] /\ folder'[n] = a
        BY <2>6, <2>7, <2>8
    <2>10. \A k \in Number : folder[k] # Nothing => folder'[k] = folder[k]
        BY <2>7, <2>8
    <2>11. [a EXCEPT !.retracted = FALSE] = a
        BY <2>6 DEF AdvisoryFile
    <2>12. Recorded(x)'
        <3>1. folder'[x.id] = a /\ x.id \in Number /\ x.advisory = a
            BY <2>3, <2>4, <2>5, <2>6, <2>9
        <3>2. QED BY <2>6, <2>11, <3>1 DEF Recorded
    <2>13. QED
        BY <2>2, <2>3, <2>9, <2>10, <2>12, CommandInv DEF Link, LifecycleInv, TypeOK
<1>3. QED BY <1>1, <1>2

LEMMA LifecycleRemoveTemp ==
    ASSUME LifecycleInv, NEW p \in Proc, RemoveTemp(p)
    PROVE  LifecycleInv'
<1>1. IsCommand(cmd[p]) /\ (cmd[p].ok => Recorded(cmd[p]))
    BY DEF LifecycleInv
<1>2. CASE ~cmd[p].ok
    <2>1. cmd' = [cmd EXCEPT ![p] = Failed]
        BY <1>2 DEF RemoveTemp
    <2>2. QED BY <2>1, FailedIsCommand, QuietStep DEF RemoveTemp, LifecycleInv, TypeOK
<1>3. CASE cmd[p].ok
    <2> DEFINE x == [cmd[p] EXCEPT !.pc = "recorded"]
    <2>1. cmd' = [cmd EXCEPT ![p] = x]
        BY <1>3 DEF RemoveTemp
    <2>2. IsCommand(x) /\ x.pc = "recorded" /\ x.id = cmd[p].id /\ x.advisory = cmd[p].advisory
        BY <1>1, <1>3 DEF IsCommand
    <2> HIDE DEF x
    <2>3. Recorded(x)
        BY <1>1, <1>3, <2>2 DEF Recorded
    <2>4. QED BY <2>1, <2>2, <2>3, QuietStep DEF RemoveTemp, LifecycleInv, TypeOK
<1>4. QED BY <1>1, <1>2, <1>3 DEF IsCommand

LEMMA LifecycleKill ==
    ASSUME LifecycleInv, NEW p \in Proc, Kill(p)
    PROVE  LifecycleInv'
<1>1. cmd' = [cmd EXCEPT ![p] = Failed]
    BY DEF Kill
<1>2. kills' \in 0 .. MaxKill
    BY LifecycleAssumption DEF Kill, LifecycleInv, TypeOK
<1>3. litter' \in BOOLEAN /\ temps' \subseteq Proc /\ exists' \in BOOLEAN
    BY DEF Kill, LifecycleInv, TypeOK
<1>4. UNCHANGED <<folder, held, today>>
    BY DEF Kill
<1>5. QED BY <1>1, <1>2, <1>3, <1>4, FailedIsCommand, QuietStep

\* The retraction of an advisory leaves the rest of it.
LEMMA RetractKeeps ==
    ASSUME TypeOK, NEW n \in Number, Retract(n)
    PROVE  /\ folder' \in [Number -> AdvisoryFile \cup {Nothing}]
           /\ \A k \in Number : folder[k] # Nothing =>
                 /\ folder'[k] # Nothing
                 /\ [folder'[k] EXCEPT !.retracted = FALSE] = [folder[k] EXCEPT !.retracted = FALSE]
                 /\ [folder'[k] EXCEPT !.retracted = folder[k].retracted] = folder[k]
<1>1. folder \in [Number -> AdvisoryFile \cup {Nothing}]
    BY DEF TypeOK
<1>2. PICK a : a = folder[n]
    OBVIOUS
<1>3. a \in AdvisoryFile
    BY <1>1, <1>2 DEF Retract
<1>4. PICK b : b = [a EXCEPT !.retracted = TRUE]
    OBVIOUS
<1>5. /\ b \in AdvisoryFile /\ b # Nothing
      /\ [b EXCEPT !.retracted = FALSE] = [a EXCEPT !.retracted = FALSE]
      /\ [b EXCEPT !.retracted = a.retracted] = a
    <2>1. b \in AdvisoryFile
        BY <1>3, <1>4 DEF AdvisoryFile
    <2>2. QED BY <1>3, <1>4, <2>1, LifecycleAssumption DEF AdvisoryFile
<1>6. folder' = [folder EXCEPT ![n] = b]
    BY <1>2, <1>4 DEF Retract
<1>7. folder'[n] = b /\ \A k \in Number \ {n} : folder'[k] = folder[k]
    BY <1>1, <1>6
<1>8. ASSUME NEW k \in Number, folder[k] # Nothing, k # n
      PROVE  [folder[k] EXCEPT !.retracted = folder[k].retracted] = folder[k]
    BY <1>1, <1>8 DEF AdvisoryFile
<1>9. folder' \in [Number -> AdvisoryFile \cup {Nothing}]
    BY <1>1, <1>5, <1>6
<1>10. ASSUME NEW k \in Number, folder[k] # Nothing
       PROVE  /\ folder'[k] # Nothing
              /\ [folder'[k] EXCEPT !.retracted = FALSE] = [folder[k] EXCEPT !.retracted = FALSE]
              /\ [folder'[k] EXCEPT !.retracted = folder[k].retracted] = folder[k]
    <2>1. CASE k = n
        BY <1>2, <1>5, <1>7, <2>1
    <2>2. CASE k # n
        <3>1. folder'[k] = folder[k]
            BY <1>7, <2>2
        <3>2. QED BY <1>8, <1>10, <2>2, <3>1
    <2>3. QED BY <2>1, <2>2
<1>11. QED BY <1>9, <1>10

LEMMA LifecycleRetract ==
    ASSUME LifecycleInv, NEW n \in Number, Retract(n)
    PROVE  LifecycleInv'
<1>1. TypeOK'
    BY RetractKeeps DEF LifecycleInv, TypeOK, Retract
<1>2. cmd' = cmd
    BY DEF Retract
<1>3. ASSUME NEW p \in Proc PROVE IsCommand(cmd'[p]) /\ (cmd'[p].ok => Recorded(cmd[p])')
    <2>1. PICK x : x = cmd[p]
        OBVIOUS
    <2>2. IsCommand(x) /\ (x.ok => Recorded(x))
        BY <2>1 DEF LifecycleInv
    <2>3. x.ok => Recorded(x)'
        BY <2>2, RetractKeeps DEF LifecycleInv, Recorded
    <2>4. QED BY <1>2, <2>1, <2>2, <2>3 DEF Recorded
<1>4. QED BY <1>1, <1>2, <1>3 DEF LifecycleInv

LEMMA LifecycleRest ==
    ASSUME LifecycleInv, UNCHANGED <<folder, cmd>>, TypeOK'
    PROVE  LifecycleInv'
<1>1. ASSUME NEW p \in Proc PROVE IsCommand(cmd'[p]) /\ (cmd'[p].ok => Recorded(cmd[p])')
    BY DEF LifecycleInv, Recorded
<1>2. QED BY <1>1 DEF LifecycleInv

LEMMA LifecycleStep == LifecycleInv /\ [Next]_vars => LifecycleInv'
<1> SUFFICES ASSUME LifecycleInv, [Next]_vars PROVE LifecycleInv'
    OBVIOUS
<1>1. ASSUME NEW p \in Proc, Command(p) PROVE LifecycleInv'
    <2>1. ASSUME AddFails(p) PROVE LifecycleInv'
        BY <2>1, LifecycleGivesUp DEF AddFails
    <2>2. QED
        BY <1>1, <2>1, LifecycleStart, LifecycleGet, LifecycleDecide, LifecycleCreateTemp,
           LifecycleLink, LifecycleRemoveTemp, LifecycleKill DEF Command
<1>2. ASSUME NEW pins \in SUBSET Pinned, Apply(pins) PROVE LifecycleInv'
    BY <1>2, LifecycleRest, LifecycleAssumption DEF Apply, LifecycleInv, TypeOK
<1>3. ASSUME NextDay PROVE LifecycleInv'
    BY <1>3, LifecycleRest, LifecycleAssumption DEF NextDay, LifecycleInv, TypeOK, Day
<1>4. CASE UNCHANGED vars
    BY <1>4, LifecycleRest DEF vars, LifecycleInv, TypeOK
<1>5. QED BY <1>1, <1>2, <1>3, <1>4, LifecycleRetract DEF Next

LEMMA LifecycleInit == Init => LifecycleInv
<1> SUFFICES ASSUME Init PROVE LifecycleInv
    OBVIOUS
<1>1. TypeOK
    <2>1. MaxDay \in Nat /\ MaxKill \in Nat
        BY LifecycleAssumption
    <2>2. today \in Day /\ kills \in 0 .. MaxKill
        BY <2>1 DEF Init, Day
    <2>3. folder \in [Number -> AdvisoryFile \cup {Nothing}]
        BY LifecycleAssumption DEF Init
    <2>4. \A p \in Proc : cmd[p].pc \in {"idle", "get", "number", "create", "link", "remove",
                                          "recorded"}
        BY FailedIsCommand DEF Init
    <2>5. exists \in BOOLEAN /\ temps \subseteq Proc /\ litter \in BOOLEAN /\ held \subseteq Subject
        BY DEF Init
    <2>6. QED BY <2>2, <2>3, <2>4, <2>5 DEF TypeOK
<1>2. \A p \in Proc : cmd[p] = Failed
    BY DEF Init
<1>3. cmd = [p \in Proc |-> cmd[p]]
    BY DEF Init
<1>4. QED BY <1>1, <1>2, <1>3, FailedIsCommand DEF LifecycleInv

\* The steps of the two parts, as the lifecycle sees them.
LEMMA ToolsLifecycle ==
    /\ ToolsInit => Init
    /\ [ToolsNext]_<<part, vars, gateVars>> => [Next]_vars
BY DEF ToolsInit, ToolsNext

\* The state of every command, and the folder, are what the lifecycle says.
THEOREM LifecycleInvariance == ToolsSpec => []LifecycleInv
<1>1. ToolsInit => LifecycleInv
    BY LifecycleInit, ToolsLifecycle
<1>2. LifecycleInv /\ [ToolsNext]_<<part, vars, gateVars>> => LifecycleInv'
    BY LifecycleStep, ToolsLifecycle
<1>3. QED BY <1>1, <1>2, PTL DEF ToolsSpec

\* A command that reports an advisory has recorded exactly that one, whatever other
\* commands drew the same number (Supersede, Withdraw, Store.add).
THEOREM ReportsAreRecorded == ToolsSpec => []AdvisoriesAreTrue
<1>1. LifecycleInv => AdvisoriesAreTrue
    BY DEF LifecycleInv, AdvisoriesAreTrue, ReportedIsRecorded, IsCommand, Recorded
<1>2. QED BY <1>1, LifecycleInvariance, PTL

\* What a step does to the advisories that are there.
LEMMA AdvisoryStep ==
    ASSUME LifecycleInv, [Next]_vars, NEW n \in Number, folder[n] # Nothing
    PROVE  /\ folder'[n] # Nothing
           /\ [folder'[n] EXCEPT !.retracted = folder[n].retracted] = folder[n]
<1>1. folder[n] \in AdvisoryFile
    BY DEF LifecycleInv, TypeOK
<1>2. [folder[n] EXCEPT !.retracted = folder[n].retracted] = folder[n]
    BY <1>1 DEF AdvisoryFile
<1>3. ASSUME NEW p \in Proc, Link(p) PROVE folder'[n] = folder[n]
    BY <1>3 DEF Link, LifecycleInv, TypeOK
<1>4. ASSUME NEW p \in Proc, Command(p), ~Link(p) PROVE folder' = folder
    BY <1>4 DEF Command, Start, Get, Decide, CreateTemp, AddFails, RemoveTemp, Kill
<1>5. ASSUME NEW k \in Number, Retract(k)
      PROVE  /\ folder'[n] # Nothing
             /\ [folder'[n] EXCEPT !.retracted = folder[n].retracted] = folder[n]
    BY <1>5, RetractKeeps DEF LifecycleInv
<1>6. ASSUME NEW pins \in SUBSET Pinned, Apply(pins) PROVE folder' = folder
    BY <1>6 DEF Apply
<1>7. CASE NextDay \/ UNCHANGED vars
    BY <1>2, <1>7 DEF NextDay, vars
<1>8. QED BY <1>2, <1>3, <1>4, <1>5, <1>6, <1>7 DEF Next

\* A run that takes pins takes none that a withdrawal names or whose day is past.
LEMMA PinStep ==
    ASSUME LifecycleInv, [Next]_vars, held' # held, NEW s \in held', NEW n \in Number,
           folder[n] # Nothing, folder[n].subject = s, ~folder[n].retracted
    PROVE  today <= folder[n].failsAfter /\ (folder[n].kind = "withdrawal" => s \in held)
<1>1. PICK pins \in SUBSET Pinned : Apply(pins)
    BY DEF Next, Command, Start, Get, Decide, CreateTemp, Link, AddFails, RemoveTemp, Kill,
           Retract, NextDay, vars
<1>2. ~PastFailDate(Lifecycle(s)) /\ (Lifecycle(s).withdrawal # {} => s \in held)
    BY <1>1 DEF Apply, PinsStand
<1>3. folder[n] \in AdvisoryFile /\ today \in Int
    BY DEF LifecycleInv, TypeOK, Day
<1>4. CASE folder[n].kind = "supersession"
    <2>1. folder[n] \in Lifecycle(s).supersession
        BY <1>4 DEF Lifecycle, Advisories
    <2>2. ~(today > folder[n].failsAfter)
        BY <1>2, <2>1 DEF PastFailDate
    <2>3. QED BY <1>3, <1>4, <2>2 DEF AdvisoryFile
<1>5. CASE folder[n].kind = "withdrawal"
    <2>1. folder[n] \in Lifecycle(s).withdrawal
        BY <1>5 DEF Lifecycle, Advisories
    <2>2. ~(today > folder[n].failsAfter)
        BY <1>2, <2>1 DEF PastFailDate
    <2>3. QED BY <1>2, <1>3, <2>1, <2>2 DEF AdvisoryFile
<1>6. QED BY <1>3, <1>4, <1>5 DEF AdvisoryFile

\* An advisory is never changed or removed, but for its retraction; and no run takes
\* a new pin to a withdrawn digest, or any pin past its fail date (Store,
\* checkPinStanding).
THEOREM AdvisoriesStand == ToolsSpec => LifecycleSteps
<1>1. LifecycleInv /\ [ToolsNext]_<<part, vars, gateVars>> =>
        [\A n \in Number : folder[n] # Nothing =>
            /\ folder'[n] # Nothing
            /\ [folder'[n] EXCEPT !.retracted = folder[n].retracted] = folder[n]]_vars
    BY AdvisoryStep, ToolsLifecycle
<1>2. LifecycleInv /\ [ToolsNext]_<<part, vars, gateVars>> =>
        [held' # held => \A s \in held' : \A n \in Number :
            folder[n] # Nothing /\ folder[n].subject = s /\ ~folder[n].retracted =>
                /\ today <= folder[n].failsAfter
                /\ folder[n].kind = "withdrawal" => s \in held]_vars
    BY PinStep, ToolsLifecycle
<1>3. QED
    BY <1>1, <1>2, LifecycleInvariance, PTL
    DEF ToolsSpec, LifecycleSteps, AdvisoriesAreKept, NoFailedPinTaken

-----------------------------------------------------------------------------
(***************************************************************************)
(* The gates.                                                              *)
(***************************************************************************)

\* The operators of the library mean in the instance what they mean here.
LEMMA GatesMax == ASSUME NEW S PROVE Gates!Max(S) = Max(S)
BY DEF Gates!Max, Max

LEMMA GatesCardinality == ASSUME NEW S PROVE Gates!Cardinality(S) = Cardinality(S)
BY DEF Gates!Cardinality, Cardinality

\* When a signature is of release grade, and when of change grade.
LEMMA GradeMeans ==
    ASSUME NEW a, NEW changeRef
    PROVE  /\ Gates!Grade(a, changeRef) = "release" <=>
                 a.trusted /\ a.ref = "main" /\ a.source = a.commit
           /\ Gates!Grade(a, changeRef) = "change" =>
                 a.trusted /\ a.ref = changeRef /\ a.ref # "main"
<1>1. CASE a.trusted /\ a.ref = "main" /\ a.source = a.commit
    BY <1>1 DEF Gates!Grade
<1>2. CASE a.trusted /\ a.ref = changeRef /\ a.ref # "main"
    BY <1>2 DEF Gates!Grade
<1>3. CASE /\ ~(a.trusted /\ a.ref = "main" /\ a.source = a.commit)
           /\ ~(a.trusted /\ a.ref = changeRef /\ a.ref # "main")
    BY <1>3 DEF Gates!Grade
<1>4. QED BY <1>1, <1>2, <1>3

\* An accepted attestation is one that the trusted workflow signed, at main or, with
\* the workflows of the base, at the reference of the change.
LEMMA AcceptedMeans ==
    ASSUME Gates!LogIsTrue, NEW c \in Commit, NEW changeRef \in {Ref[c], "none"}, NEW altered,
           NEW i \in Gates!Accepted(c, changeRef, altered)
    PROVE  /\ i \in DOMAIN log /\ log[i].commit = c /\ log[i].trusted /\ Gates!Signed(log[i])
           /\ log[i].ref = "main" \/ (changeRef = Ref[c] /\ ~altered)
<1>1. /\ i \in DOMAIN log /\ log[i].commit = c
      /\ \/ Gates!Grade(log[i], changeRef) = "release"
         \/ Gates!Grade(log[i], changeRef) = "change" /\ ~altered
    BY DEF Gates!Accepted
<1>2. log[i].ref # "none"
    BY <1>1 DEF Gates!LogIsTrue
<1>3. PICK a : a = log[i]
    OBVIOUS
<1>4. \/ Gates!Grade(a, changeRef) = "release"
      \/ Gates!Grade(a, changeRef) = "change" /\ ~altered
    BY <1>1, <1>3
<1>5. \/ a.trusted /\ a.ref = "main" /\ a.source = a.commit
      \/ a.trusted /\ a.ref = changeRef /\ a.ref # "main" /\ ~altered
    BY <1>4, GradeMeans
<1>6. Gates!Signed(a)
    BY <1>1, <1>2, <1>3, <1>5 DEF Gates!Signed
<1>7. QED BY <1>1, <1>2, <1>3, <1>5, <1>6

\* The log and the summary are sequences.
LEMMA LogIsSequence ==
    ASSUME Gates!GatesInv
    PROVE  Len(log) \in Nat /\ DOMAIN log = 1 .. Len(log) /\ Len(log) <= MaxLog
BY DEF Gates!GatesInv, Gates!TypeOK

\* What is verified is the number of an accepted attestation, or 0 when there is none.
LEMMA VerifyMeans ==
    ASSUME Gates!GatesInv, NEW c, NEW changeRef, NEW altered, NEW i,
           i = Gates!Verify(c, changeRef, altered)
    PROVE  /\ i \in 0 .. MaxLog
           /\ i # 0 => i \in Gates!Accepted(c, changeRef, altered)
<1> DEFINE accepted == Gates!Accepted(c, changeRef, altered)
           best == {k \in accepted : Gates!Grade(log[k], changeRef) = "release"}
<1>1. Len(log) \in Nat /\ DOMAIN log = 1 .. Len(log) /\ Len(log) <= MaxLog /\ MaxLog \in Nat
    BY LogIsSequence, GatesAssumption
<1>2. accepted \subseteq 0 .. Len(log) /\ best \subseteq accepted
    BY <1>1 DEF Gates!Accepted
<1>3. i = IF accepted = {} THEN 0 ELSE IF best # {} THEN Max(best) ELSE Max(accepted)
    BY GatesMax DEF Gates!Verify
<1> HIDE DEF accepted, best
<1>4. CASE accepted = {}
    BY <1>1, <1>3, <1>4
<1>5. CASE accepted # {} /\ best # {}
    <2>1. Max(best) \in best
        BY <1>1, <1>2, <1>5, MaxOf
    <2>2. QED BY <1>1, <1>2, <1>3, <1>5, <2>1 DEF accepted
<1>6. CASE accepted # {} /\ best = {}
    <2>1. Max(accepted) \in accepted
        BY <1>1, <1>2, <1>6, MaxOf
    <2>2. QED BY <1>1, <1>2, <1>3, <1>6, <2>1 DEF accepted
<1>7. QED BY <1>4, <1>5, <1>6

\* A test whose outcome is a pass ran, and all of its runs passed.
LEMMA OutcomeMeans ==
    ASSUME NEW c \in Commit, NEW runs \in SuiteOutput, NEW outcomes, outcomes = Gates!Outcomes(c, runs),
           NEW t \in Test, t \in DOMAIN outcomes, outcomes[t] = "passed"
    PROVE  runs[t] = {"passed"}
<1>1. runs[t] \subseteq {"passed", "failed", "skipped"}
    BY GatesAssumption
<1>2. outcomes[t] = IF runs[t] = {} THEN "failed" ELSE Gates!OneOutcome(runs[t])
    BY DEF Gates!Outcomes
<1>3. PICK results : results = runs[t]
    OBVIOUS
<1>4. results # {} /\ Gates!OneOutcome(results) = "passed"
    BY <1>2, <1>3
<1>5. "failed" \notin results /\ "skipped" \notin results
    BY <1>4 DEF Gates!OneOutcome
<1>6. QED BY <1>1, <1>3, <1>4, <1>5

\* What a gate finds passed rests on suites in which every automated test passed.
LEMMA RunsBehind ==
    ASSUME Gates!GatesInv, NEW c \in Commit, NEW changeRef \in {Ref[c], "none"}, NEW altered,
           NEW i, i = Gates!Verify(c, changeRef, altered), Gates!NotPassed(c, i) = {}
    PROVE  /\ Gates!SuitesPassed(c, i) /\ log[i].trusted
           /\ log[i].ref = "main" => c \in Gates!OnMain
           /\ log[i].ref = "main" \/ (changeRef = Ref[c] /\ ~altered)
<1>1. i # 0
    BY DEF Gates!NotPassed
<1>2. i \in Gates!Accepted(c, changeRef, altered)
    BY <1>1, VerifyMeans
<1>3. Gates!LogIsTrue
    BY DEF Gates!GatesInv
<1>4. /\ i \in DOMAIN log /\ log[i].commit = c /\ log[i].trusted /\ Gates!Signed(log[i])
      /\ log[i].ref = "main" \/ (changeRef = Ref[c] /\ ~altered)
    BY <1>2, <1>3, AcceptedMeans
<1>5. /\ log[i].runs \in SuiteOutput /\ log[i].outcomes = Gates!Outcomes(log[i].commit, log[i].runs)
      /\ log[i].ref = "main" => log[i].commit \in Gates!OnMain
    BY <1>3, <1>4 DEF Gates!LogIsTrue
<1>6. ASSUME NEW t \in Automated[c] PROVE log[i].runs[t] = {"passed"}
    <2>1. t \in Test
        BY GatesAssumption
    <2>2. t \in DOMAIN log[i].outcomes /\ log[i].outcomes[t] = "passed"
        BY <1>1 DEF Gates!NotPassed
    <2>3. PICK runs, outcomes : runs = log[i].runs /\ outcomes = log[i].outcomes
        OBVIOUS
    <2>4. outcomes = Gates!Outcomes(c, runs)
        BY <1>4, <1>5, <2>3
    <2>5. QED BY <1>5, <2>1, <2>2, <2>3, <2>4, OutcomeMeans
<1>7. QED BY <1>4, <1>5, <1>6 DEF Gates!SuitesPassed

\* The ledger says of a commit what the gate of a release finds, and what it shows as
\* last passed has passed.
LEMMA LedgerIsTrue ==
    ASSUME Gates!GatesInv
    PROVE  Gates!LedgerAgreesWithGate
<1>1. ASSUME NEW i \in DOMAIN main, NEW t \in Test, NEW j, j = Gates!LastPassedAt(i, t), j # 0
      PROVE  \E a \in DOMAIN log : /\ log[a].commit = main[j] /\ log[a].trusted
                                   /\ log[a].ref = "main" /\ log[a].runs[t] = {"passed"}
    <2> DEFINE done == {k \in 1 .. i : \A u \in Automated[main[i]] :
                                          \E l \in k .. i : Gates!PassedAt(l, u)}
               first == IF done = {} THEN 1 ELSE Max(done)
               passed == {l \in first .. i : Gates!PassedAt(l, t)}
    <2>1. main \in Seq(Commit) /\ i \in 1 .. Len(main) /\ Len(main) \in Nat /\ i \in Nat
        <3>1. main \in Seq(Commit)
            BY DEF Gates!GatesInv, Gates!TypeOK
        <3>2. Len(main) \in Nat /\ DOMAIN main = 1 .. Len(main)
            BY <3>1, LenProperties
        <3>3. QED BY <3>1, <3>2
    <2>2. done \subseteq 0 .. i /\ \A k \in done : k >= 1
        BY <2>1
    <2>3. j = IF passed = {} THEN 0 ELSE Max(passed)
        BY <1>1, GatesMax DEF Gates!LastPassedAt
    <2>4. first \in Nat /\ first >= 1
        <3> HIDE DEF done
        <3>1. CASE done = {}
            BY <3>1
        <3>2. CASE done # {}
            <4>1. Max(done) \in done
                BY ONLY <2>1, <2>2, <3>2, MaxOf
            <4>2. \A k \in done : k \in Nat /\ k >= 1
                BY <2>1, <2>2
            <4>3. PICK k : k = Max(done)
                OBVIOUS
            <4>4. k \in Nat /\ k >= 1
                BY <4>1, <4>2, <4>3
            <4>5. QED BY <3>2, <4>3, <4>4
        <3>3. QED BY <3>1, <3>2
    <2> HIDE DEF first
    <2>5. passed \subseteq 0 .. i /\ \A l \in passed : l \in 1 .. i /\ Gates!PassedAt(l, t)
        BY <2>1, <2>4
    <2>51. j \in passed
        <3> HIDE DEF passed
        <3>1. passed # {}
            BY <1>1, <2>3
        <3>2. Max(passed) \in passed
            BY ONLY <2>1, <2>5, <3>1, MaxOf
        <3>3. QED BY <2>3, <3>1, <3>2
    <2>6. j \in 1 .. Len(main) /\ Gates!PassedAt(j, t)
        BY <2>1, <2>5, <2>51
    <2>7. PICK c \in Commit : c = main[j]
        BY <2>1, <2>6
    <2>8. PICK a : a = Gates!Verify(c, "none", FALSE)
        OBVIOUS
    <2>9. a # 0 /\ t \in DOMAIN log[a].outcomes /\ log[a].outcomes[t] = "passed"
        BY <2>6, <2>7, <2>8 DEF Gates!PassedAt
    <2>10. a \in Gates!Accepted(c, "none", FALSE)
        BY <2>8, <2>9, VerifyMeans
    <2>11. Gates!LogIsTrue
        BY DEF Gates!GatesInv
    <2>12. /\ a \in DOMAIN log /\ log[a].commit = c /\ log[a].trusted /\ Gates!Signed(log[a])
           /\ log[a].ref = "main" \/ ("none" = Ref[c] /\ ~FALSE)
        <3>1. PICK ref, altered : ref = "none" /\ altered = FALSE
            OBVIOUS
        <3>2. a \in Gates!Accepted(c, ref, altered)
            BY <2>10, <3>1
        <3>3. QED BY <2>11, <3>1, <3>2, AcceptedMeans
    <2>13. log[a].ref = "main"
        BY <2>12, GatesAssumption
    <2>14. /\ log[a].runs \in SuiteOutput
           /\ log[a].outcomes = Gates!Outcomes(log[a].commit, log[a].runs)
        BY <2>11, <2>12 DEF Gates!LogIsTrue
    <2>15. log[a].runs[t] = {"passed"}
        <3>1. PICK runs, outcomes : runs = log[a].runs /\ outcomes = log[a].outcomes
            OBVIOUS
        <3>2. outcomes = Gates!Outcomes(c, runs)
            BY <2>12, <2>14, <3>1
        <3>3. QED BY <2>9, <2>14, <3>1, <3>2, OutcomeMeans
    <2>16. QED BY <2>7, <2>12, <2>13, <2>15
<1>2. ASSUME NEW c \in Commit
      PROVE  (\A t \in Automated[c] : Gates!LedgerResult(c, t) = "passed")
               /\ Gates!Verify(c, "none", FALSE) # 0
             <=> Gates!NotPassed(c, Gates!Verify(c, "none", FALSE)) = {}
    <2>1. PICK a : a = Gates!Verify(c, "none", FALSE)
        OBVIOUS
    <2>2. \A t : Gates!LedgerResult(c, t) = IF a # 0 /\ t \in DOMAIN log[a].outcomes
                                            THEN log[a].outcomes[t] ELSE "none"
        BY <2>1 DEF Gates!LedgerResult
    <2>3. Gates!NotPassed(c, a) = {} <=>
              /\ a # 0
              /\ \A t \in Automated[c] : t \in DOMAIN log[a].outcomes /\ log[a].outcomes[t] = "passed"
        BY DEF Gates!NotPassed
    <2>4. (\A t \in Automated[c] : Gates!LedgerResult(c, t) = "passed") /\ a # 0
            <=> Gates!NotPassed(c, a) = {}
        BY <2>2, <2>3
    <2>5. QED BY <2>1, <2>4
<1>3. Gates!LastPassedIsTrue
    BY <1>1 DEF Gates!LastPassedIsTrue
<1>4. Gates!ResultsAgree
    BY <1>2, ZenonT(30) DEF Gates!ResultsAgree
<1>5. QED BY <1>3, <1>4 DEF Gates!LedgerAgreesWithGate

\* The main line and the log grow: what a decision rested on is still there.
LEMMA RestsStay ==
    ASSUME NEW c, NEW i, i \in DOMAIN log, i \in DOMAIN log', log'[i] = log[i],
           Gates!OnMain \subseteq Gates!OnMain', Gates!SuitesPassed(c, i)
    PROVE  Gates!SuitesPassed(c, i)'
BY DEF Gates!SuitesPassed

\* Then the parts of the invariant about the log and the decisions are kept.
LEMMA DecisionsStay ==
    ASSUME Gates!GatesInv, Gates!OnMain \subseteq Gates!OnMain',
           \A i \in DOMAIN log : i \in DOMAIN log' /\ log'[i] = log[i],
           UNCHANGED <<decided, released>>
    PROVE  (Gates!DecisionsRestOnRuns /\ Gates!RatchetHeld)'
<1>1. Gates!DecisionsRestOnRuns /\ Gates!RatchetHeld
    BY DEF Gates!GatesInv
<1>2. ASSUME NEW c, NEW i, Gates!SuitesPassed(c, i)
      PROVE  Gates!SuitesPassed(c, i)' /\ log'[i] = log[i]
    BY <1>2, RestsStay DEF Gates!SuitesPassed
<1>3. ASSUME NEW r \in released
      PROVE  /\ Gates!SuitesPassed(r.commit, r.proof)' /\ log'[r.proof].trusted
             /\ log'[r.proof].ref = "main" /\ r.commit \in Gates!OnMain'
    BY <1>1, <1>2 DEF Gates!DecisionsRestOnRuns
<1>4. ASSUME NEW c \in Commit, NEW i, i = decided[c].proof, decided[c].passed
      PROVE  /\ Gates!SuitesPassed(c, i)' /\ log'[i].trusted
             /\ log'[i].ref # "main" => Workflows[c] = Workflows[decided[c].base]
    <2>1. /\ Gates!SuitesPassed(c, i) /\ log[i].trusted
          /\ log[i].ref # "main" => Workflows[c] = Workflows[decided[c].base]
        BY <1>1, <1>4 DEF Gates!DecisionsRestOnRuns
    <2>2. QED BY <1>2, <2>1
<1>5. Gates!DecisionsRestOnRuns'
    BY <1>3, <1>4 DEF Gates!DecisionsRestOnRuns, Gates!SuitesPassed
<1>6. Gates!RatchetHeld'
    BY <1>1 DEF Gates!RatchetHeld
<1>7. QED BY <1>5, <1>6

LEMMA LogStays ==
    ASSUME Gates!GatesInv, Gates!OnMain \subseteq Gates!OnMain', log' = log
    PROVE  Gates!LogIsTrue' /\ Len(log)' \in Nat /\ (log = [i \in 1 .. Len(log) |-> log[i]])'
BY DEF Gates!GatesInv, Gates!LogIsTrue, Gates!Signed

LEMMA MainStays ==
    ASSUME Gates!GatesInv, main' = main
    PROVE  (main # <<>> /\ Gates!NoObligationFalls)' /\ Gates!OnMain' = Gates!OnMain
<1>1. main # <<>> /\ Gates!NoObligationFalls
    BY DEF Gates!GatesInv
<1>2. ASSUME NEW i, NEW j, Gates!KeepsShares(i, j) PROVE Gates!KeepsShares(i, j)'
    <2>1. ASSUME NEW o PROVE Gates!Unretired(o, i, j)' = Gates!Unretired(o, i, j)
        BY DEF Gates!Unretired
    <2>2. QED BY <1>2, <2>1 DEF Gates!KeepsShares
<1>3. Gates!NoObligationFalls'
    BY <1>1, <1>2 DEF Gates!NoObligationFalls
<1>4. QED BY <1>1, <1>3 DEF Gates!OnMain

LEMMA JobStays ==
    ASSUME Gates!GatesInv, Gates!OnMain \subseteq Gates!OnMain',
           \A i \in DOMAIN log : i \in DOMAIN log' /\ log'[i] = log[i],
           UNCHANGED <<job, predicate, summary>>
    PROVE  /\ (summary \in Seq({"passed", "refused", "no decision"}))'
           /\ Gates!JobInv' /\ Gates!JobStandsByOutput'
<1>1. /\ summary \in Seq({"passed", "refused", "no decision"})
      /\ Gates!JobInv /\ Gates!JobStandsByOutput
    BY DEF Gates!GatesInv
<1>2. ASSUME NEW c, NEW i, Gates!RestsOn(c, i) PROVE Gates!RestsOn(c, i)'
    BY <1>2, RestsStay DEF Gates!RestsOn, Gates!SuitesPassed
<1>3. Gates!JobStandsByOutput'
    BY <1>1 DEF Gates!JobStandsByOutput, Gates!Tip
<1>4. Gates!JobInv'
    <2>1. PICK c, i : c = job.commit /\ i = job.proof
        OBVIOUS
    <2>2. job.pc \in {"keep", "handover", "ended"} /\ job.passed => Gates!RestsOn(c, i)
        BY <1>1, <2>1 DEF Gates!JobInv, Gates!RestsOn, Gates!SuitesPassed
    <2>3. job.pc \in {"keep", "handover", "ended"} /\ job.passed => Gates!RestsOn(c, i)'
        BY <1>2, <2>2
    <2>4. job.pc \in {"keep", "handover", "ended"} /\ job.passed => Gates!RestsOn(job.commit, job.proof)'
        BY <2>1, <2>3 DEF Gates!RestsOn, Gates!SuitesPassed
    <2>5. QED BY <1>1, <2>4 DEF Gates!JobInv, Gates!Tip
<1>5. QED BY <1>1, <1>3, <1>4

\* One attestation more: what the trusted workflow signs is true.
LEMMA LogStep ==
    ASSUME Gates!GatesInv, NEW a, log' = Append(log, a), Len(log) < MaxLog,
           a.commit \in Commit, a.ref # "none",
           Gates!Signed(a) => /\ a.runs \in SuiteOutput /\ a.outcomes = Gates!Outcomes(a.commit, a.runs)
                              /\ a.ref = "main" => a.commit \in Gates!OnMain,
           UNCHANGED <<main, decided, job, predicate, summary, released>>
    PROVE  Gates!GatesInv'
<1>1. /\ Len(log) \in Nat /\ log = [i \in 1 .. Len(log) |-> log[i]] /\ DOMAIN log = 1 .. Len(log)
      /\ Gates!LogIsTrue /\ Gates!TypeOK /\ decided = [c \in Commit |-> decided[c]]
    BY DEF Gates!GatesInv
<1>2. PICK u : u = log'
    OBVIOUS
<1>3. /\ Len(u) = Len(log) + 1 /\ u = [i \in 1 .. Len(u) |-> u[i]]
      /\ \A i \in 1 .. Len(log) : u[i] = log[i]
      /\ u[Len(log) + 1] = a
    <2>1. PICK S : S = {log[i] : i \in 1 .. Len(log)} \cup {a}
        OBVIOUS
    <2>2. a \in S /\ log \in [1 .. Len(log) -> S]
        BY <1>1, <2>1
    <2>3. log \in Seq(S)
        BY <1>1, <2>2, IsASeq
    <2>4. /\ u \in Seq(S) /\ Len(u) = Len(log) + 1 /\ u[Len(log) + 1] = a
          /\ \A i \in 1 .. Len(log) : u[i] = log[i]
        BY <1>2, <2>2, <2>3, AppendProperties
    <2>5. u \in [1 .. Len(u) -> S]
        BY <2>4, LenProperties
    <2>6. QED BY <2>4, <2>5
<1>4. DOMAIN u = 1 .. Len(log) + 1 /\ Len(u) \in Nat
    BY <1>1, <1>3
<1>5. \A i \in DOMAIN log : i \in DOMAIN log' /\ log'[i] = log[i]
    BY <1>1, <1>2, <1>3, <1>4
<1>6. Gates!OnMain' = Gates!OnMain /\ (main # <<>> /\ Gates!NoObligationFalls)'
    BY MainStays
<1>7. Gates!LogIsTrue'
    <2>1. ASSUME NEW b, Gates!Signed(b)' PROVE Gates!Signed(b)
        BY <2>1 DEF Gates!Signed
    <2>2. ASSUME NEW i \in DOMAIN u
          PROVE  /\ u[i].commit \in Commit /\ u[i].ref # "none"
                 /\ Gates!Signed(u[i]) =>
                       /\ u[i].runs \in SuiteOutput
                       /\ u[i].outcomes = Gates!Outcomes(u[i].commit, u[i].runs)
                       /\ u[i].ref = "main" => u[i].commit \in Gates!OnMain
        <3>1. CASE i = Len(log) + 1
            BY <1>3, <3>1
        <3>2. CASE i # Len(log) + 1
            <4>1. i \in DOMAIN log /\ u[i] = log[i]
                BY <1>1, <1>3, <1>4, <3>2
            <4>2. QED BY <1>1, <4>1 DEF Gates!LogIsTrue, Gates!Signed
        <3>3. QED BY <3>1, <3>2
    <2>3. QED BY <1>2, <1>6, <2>2 DEF Gates!LogIsTrue, Gates!Signed
<1>8. (Gates!DecisionsRestOnRuns /\ Gates!RatchetHeld)'
    BY <1>5, <1>6, DecisionsStay
<1>9. /\ (summary \in Seq({"passed", "refused", "no decision"}))'
      /\ Gates!JobInv' /\ Gates!JobStandsByOutput'
    BY <1>5, <1>6, JobStays
<1>10. Gates!TypeOK'
    <2>1. Len(log)' <= MaxLog
        BY <1>1, <1>2, <1>3, GatesAssumption
    <2>2. QED BY <1>1, <2>1, GatesCardinality DEF Gates!TypeOK
<1>11. Len(log)' \in Nat /\ (log = [i \in 1 .. Len(log) |-> log[i]])'
    BY <1>2, <1>3, <1>4
<1>12. (decided = [c \in Commit |-> decided[c]])'
    BY <1>1
<1>13. QED BY <1>6, <1>7, <1>8, <1>9, <1>10, <1>11, <1>12 DEF Gates!GatesInv

LEMMA GateRecords ==
    ASSUME Gates!GatesInv, NEW c \in Commit, NEW runs \in SuiteOutput, NEW ref, NEW clean,
           Gates!Record(c, runs, ref, clean)
    PROVE  Gates!GatesInv'
<1>1. PICK a : a = [commit |-> c, ref |-> ref, trusted |-> TRUE,
                    source |-> IF ref = "main" THEN c ELSE First,
                    outcomes |-> Gates!Outcomes(c, runs), runs |-> runs]
    OBVIOUS
<1>2. log' = Append(log, a) /\ Len(log) < MaxLog
      /\ UNCHANGED <<main, decided, job, predicate, summary, released>>
    BY <1>1 DEF Gates!Record
<1>3. IF ref = "main" THEN c \in Gates!OnMain ELSE ref = Ref[c]
    BY DEF Gates!Record
<1>4. a.commit = c /\ a.ref = ref /\ a.runs = runs /\ a.outcomes = Gates!Outcomes(c, runs)
    BY <1>1
<1>5. a.ref # "none"
    BY <1>3, <1>4, GatesAssumption
<1>6. QED BY <1>2, <1>3, <1>4, <1>5, LogStep

LEMMA GateOtherAttests ==
    ASSUME Gates!GatesInv, NEW c \in Commit, NEW by \in Others, Gates!OtherAttests(c, by)
    PROVE  Gates!GatesInv'
<1>1. PICK a : a = [commit |-> c, ref |-> by.ref, trusted |-> by.trusted, source |-> by.source,
                    outcomes |-> [t \in Test |-> "passed"], runs |-> [t \in Test |-> {}]]
    OBVIOUS
<1>2. log' = Append(log, a) /\ Len(log) < MaxLog
      /\ UNCHANGED <<main, decided, job, predicate, summary, released>>
    BY <1>1 DEF Gates!OtherAttests
<1>3. ~by.trusted \/ (by.ref = "main" /\ by.source # c) \/ by.ref \notin {"main", Ref[c]}
    BY DEF Gates!OtherAttests
<1>4. a.commit = c /\ a.ref = by.ref /\ a.trusted = by.trusted /\ a.source = by.source
    BY <1>1
<1>5. a.ref # "none" /\ Ref[c] # "main"
    BY <1>4, GatesAssumption
<1>6. ~Gates!Signed(a)
    BY <1>3, <1>4, <1>5 DEF Gates!Signed
<1>7. QED BY <1>2, <1>4, <1>5, <1>6, LogStep

\* The gate of a change keeps a decision that rests on what it found.
LEMMA DecisionStep ==
    ASSUME Gates!GatesInv, NEW c \in Commit, NEW d, decided' = [decided EXCEPT ![c] = d],
           NEW base, base = d.base, NEW k, k = d.proof,
           base \in Commit \cup {Nothing}, k \in 0 .. MaxLog,
           d.passed => /\ Gates!SuitesPassed(c, k) /\ log[k].trusted
                       /\ log[k].ref # "main" => Workflows[c] = Workflows[base]
                       /\ Gates!Falls(base, c) = {},
           UNCHANGED <<main, log, job, predicate, summary, released>>
    PROVE  Gates!GatesInv'
<1>1. /\ Gates!LogIsTrue /\ Gates!TypeOK /\ decided = [q \in Commit |-> decided[q]]
      /\ Gates!DecisionsRestOnRuns /\ Gates!RatchetHeld
    BY DEF Gates!GatesInv
<1>2. Gates!OnMain' = Gates!OnMain /\ (main # <<>> /\ Gates!NoObligationFalls)'
    BY MainStays
<1>3. Gates!LogIsTrue' /\ Len(log)' \in Nat /\ (log = [i \in 1 .. Len(log) |-> log[i]])'
    BY <1>2, LogStays
<1>4. /\ (summary \in Seq({"passed", "refused", "no decision"}))'
      /\ Gates!JobInv' /\ Gates!JobStandsByOutput'
    BY <1>2, JobStays
<1>5. /\ decided' = [q \in Commit |-> decided'[q]] /\ decided'[c] = d
      /\ \A q \in Commit : q # c => decided'[q] = decided[q]
    BY <1>1
<1>6. Gates!TypeOK'
    <2>1. \A q \in Commit : decided'[q].base \in Commit \cup {Nothing} /\ decided'[q].proof \in 0 .. MaxLog
        BY <1>1, <1>5 DEF Gates!TypeOK
    <2>2. QED BY <1>1, <2>1, GatesCardinality DEF Gates!TypeOK
<1>7. ASSUME NEW q, NEW i, Gates!SuitesPassed(q, i) PROVE Gates!SuitesPassed(q, i)'
    BY <1>2, <1>7, RestsStay DEF Gates!SuitesPassed
<1>8. Gates!DecisionsRestOnRuns'
    <2>1. ASSUME NEW r \in released
          PROVE  /\ Gates!SuitesPassed(r.commit, r.proof)' /\ log[r.proof].trusted
                 /\ log[r.proof].ref = "main" /\ r.commit \in Gates!OnMain'
        BY <1>1, <1>2, <1>7 DEF Gates!DecisionsRestOnRuns
    <2>2. ASSUME NEW q \in Commit, decided'[q].passed, NEW i, i = decided'[q].proof
          PROVE  /\ Gates!SuitesPassed(q, i)' /\ log[i].trusted
                 /\ log[i].ref # "main" => Workflows[q] = Workflows[decided'[q].base]
        <3>1. CASE q = c
            BY <1>5, <1>7, <2>2, <3>1
        <3>2. CASE q # c
            <4>1. decided[q].passed /\ i = decided[q].proof /\ decided'[q] = decided[q]
                BY <1>5, <2>2, <3>2
            <4>2. /\ Gates!SuitesPassed(q, i) /\ log[i].trusted
                  /\ log[i].ref # "main" => Workflows[q] = Workflows[decided[q].base]
                BY <1>1, <4>1 DEF Gates!DecisionsRestOnRuns
            <4>3. QED BY <1>7, <4>1, <4>2
        <3>3. QED BY <3>1, <3>2
    <2>3. \A q \in Commit : decided'[q].passed =>
              /\ decided'[q].proof \in DOMAIN log /\ log[decided'[q].proof].commit = q
              /\ \A t \in Automated[q] : log[decided'[q].proof].runs[t] = {"passed"}
              /\ log[decided'[q].proof].trusted
              /\ log[decided'[q].proof].ref # "main" => Workflows[q] = Workflows[decided'[q].base]
        <3>1. SUFFICES ASSUME NEW q \in Commit, decided'[q].passed
                       PROVE  /\ decided'[q].proof \in DOMAIN log /\ log[decided'[q].proof].commit = q
                              /\ \A t \in Automated[q] : log[decided'[q].proof].runs[t] = {"passed"}
                              /\ log[decided'[q].proof].trusted
                              /\ log[decided'[q].proof].ref # "main" =>
                                    Workflows[q] = Workflows[decided'[q].base]
            OBVIOUS
        <3>2. PICK i : i = decided'[q].proof
            OBVIOUS
        <3>3. /\ Gates!SuitesPassed(q, i)' /\ log[i].trusted
              /\ log[i].ref # "main" => Workflows[q] = Workflows[decided'[q].base]
            BY <2>2, <3>1, <3>2
        <3>4. i \in DOMAIN log /\ log[i].commit = q /\ \A t \in Automated[q] : log[i].runs[t] = {"passed"}
            BY <3>3 DEF Gates!SuitesPassed
        <3>5. QED BY <3>2, <3>3, <3>4
    <2>4. QED BY <2>1, <2>3 DEF Gates!DecisionsRestOnRuns, Gates!SuitesPassed
<1>9. Gates!RatchetHeld'
    <2>1. ASSUME NEW q \in Commit, decided'[q].passed, NEW b, b = decided'[q].base
          PROVE  Gates!Falls(b, q) = {}
        <3>1. CASE q = c
            BY <1>5, <2>1, <3>1
        <3>2. CASE q # c
            BY <1>1, <1>5, <2>1, <3>2 DEF Gates!RatchetHeld
        <3>3. QED BY <3>1, <3>2
    <2>2. QED BY <2>1 DEF Gates!RatchetHeld
<1>10. QED BY <1>2, <1>3, <1>4, <1>5, <1>6, <1>8, <1>9 DEF Gates!GatesInv

LEMMA MainHasTip ==
    ASSUME Gates!GatesInv
    PROVE  /\ main \in Seq(Commit) /\ Len(main) \in Nat \ {0} /\ DOMAIN main = 1 .. Len(main)
           /\ Gates!Tip(main) = main[Len(main)] /\ main[Len(main)] \in Commit
<1>1. main \in Seq(Commit) /\ main # <<>>
    BY DEF Gates!GatesInv, Gates!TypeOK
<1>2. Len(main) \in Nat /\ DOMAIN main = 1 .. Len(main)
    BY <1>1, LenProperties
<1>3. Len(main) # 0
    BY <1>1, EmptySeq
<1>4. QED BY <1>1, <1>2, <1>3 DEF Gates!Tip

LEMMA GateDecides ==
    ASSUME Gates!GatesInv, NEW c \in Commit, NEW fails \in BOOLEAN, Gates!GateChange(c, fails)
    PROVE  Gates!GatesInv'
<1>1. PICK base : base = Gates!Tip(main)
    OBVIOUS
<1>2. PICK altered : altered = (Workflows[base] # Workflows[c])
    OBVIOUS
<1>3. PICK ref : ref = Ref[c]
    OBVIOUS
<1>4. PICK k : k = Gates!Verify(c, ref, altered)
    OBVIOUS
<1>5. UNCHANGED <<main, log, job, predicate, summary, released>>
    BY DEF Gates!GateChange
<1>6. CASE fails
    <2>1. PICK d : d = Gates!NoDecision
        OBVIOUS
    <2>2. decided' = [decided EXCEPT ![c] = d]
        BY <1>6, <2>1 DEF Gates!GateChange
    <2>3. ~d.passed /\ d.base = Nothing /\ d.proof = 0 /\ 0 \in 0 .. MaxLog
        BY <2>1, GatesAssumption DEF Gates!NoDecision
    <2>4. QED BY <1>5, <2>2, <2>3, DecisionStep
<1>7. CASE ~fails
    <2>1. PICK passed : passed = (/\ Gates!Falls(base, c) = {} /\ Gates!NotPassed(c, k) = {}
                                  /\ Faults[c] \subseteq Faults[base])
        OBVIOUS
    <2>2. PICK d : d = [base |-> base, proof |-> k, passed |-> passed]
        OBVIOUS
    <2>3. decided' = [decided EXCEPT ![c] = d]
        BY <1>1, <1>2, <1>3, <1>4, <1>7, <2>1, <2>2 DEF Gates!GateChange
    <2>4. d.base = base /\ d.proof = k /\ d.passed = passed
        BY <2>2
    <2>5. base \in Commit \cup {Nothing} /\ k \in 0 .. MaxLog
        BY <1>1, <1>4, MainHasTip, VerifyMeans
    <2>6. d.passed => /\ Gates!SuitesPassed(c, k) /\ log[k].trusted
                      /\ log[k].ref # "main" => Workflows[c] = Workflows[base]
                      /\ Gates!Falls(base, c) = {}
        <3>1. SUFFICES ASSUME passed
                       PROVE  /\ Gates!SuitesPassed(c, k) /\ log[k].trusted
                              /\ log[k].ref # "main" => Workflows[c] = Workflows[base]
                              /\ Gates!Falls(base, c) = {}
            BY <2>4
        <3>2. Gates!NotPassed(c, k) = {} /\ Gates!Falls(base, c) = {}
            BY <2>1, <3>1
        <3>3. ref \in {Ref[c], "none"}
            BY <1>3
        <3>4. /\ Gates!SuitesPassed(c, k) /\ log[k].trusted
              /\ log[k].ref = "main" \/ (ref = Ref[c] /\ ~altered)
            BY <1>4, <3>2, <3>3, RunsBehind
        <3>5. QED BY <1>2, <3>2, <3>4
    <2>7. QED BY <1>5, <2>3, <2>4, <2>5, <2>6, DecisionStep
<1>8. QED BY <1>6, <1>7

\* A change that loses no share keeps those of an obligation that it does not retire.
LEMMA RatchetKeeps ==
    ASSUME NEW base \in Commit, NEW c, Gates!Falls(base, c) = {}, NEW o,
           \A r \in Retirements[c] : r.retired # o
    PROVE  Gates!Standing(base, o) \subseteq Gates!Standing(c, o)
<1> SUFFICES ASSUME NEW s \in Gates!Standing(base, o), s \notin Gates!Standing(c, o) PROVE FALSE
    OBVIOUS
<1>1. o \in Gates!Obligations(base) /\ s \in Shares[base][o]
    BY DEF Gates!Standing
<1>2. s \in Gates!Share
    BY <1>1, GatesAssumption DEF Gates!Obligations, Gates!Share
<1>3. PICK lost : lost = <<o, s>>
    OBVIOUS
<1>4. lost \in Gates!Obligations(base) \X Gates!Share /\ lost[1] = o /\ lost[2] = s
    BY <1>1, <1>2, <1>3
<1>5. PICK named : named = {r \in Retirements[c] : r.retired = o}
    OBVIOUS
<1>6. named = {}
    BY <1>5
<1>7. lost \in Gates!Falls(base, c)
    BY <1>4, <1>6, <1>5 DEF Gates!Falls
<1>8. QED BY <1>7

LEMMA GateMerges ==
    ASSUME Gates!GatesInv, NEW c \in Commit, Gates!Merge(c)
    PROVE  Gates!GatesInv'
<1> DEFINE n == Len(main)
<1>1. /\ Gates!TypeOK /\ decided = [q \in Commit |-> decided[q]]
      /\ Gates!RatchetHeld /\ Gates!NoObligationFalls
    BY DEF Gates!GatesInv
<1>2. /\ main \in Seq(Commit) /\ n \in Nat \ {0} /\ DOMAIN main = 1 .. n
      /\ Gates!Tip(main) = main[n] /\ main[n] \in Commit
    BY MainHasTip
<1>3. /\ decided[c].passed /\ decided[c].base = Gates!Tip(main) /\ main' = Append(main, c)
      /\ UNCHANGED <<log, decided, job, predicate, summary, released>>
    BY DEF Gates!Merge
<1>4. /\ main' \in Seq(Commit) /\ main' # <<>> /\ Len(main') = n + 1 /\ main'[n + 1] = c
      /\ \A k \in 1 .. n : main'[k] = main[k]
    BY <1>2, <1>3, AppendProperties
<1>5. DOMAIN main' = 1 .. n + 1
    BY <1>2, <1>4, LenProperties
<1>6. Gates!OnMain \subseteq Gates!OnMain'
    <2>1. ASSUME NEW i \in 1 .. n PROVE \E k \in 1 .. n + 1 : main'[k] = main[i]
        BY <1>2, <1>4
    <2> HIDE DEF n
    <2>2. QED BY <1>2, <1>5, <2>1 DEF Gates!OnMain
<1>8. Gates!Falls(main[n], c) = {}
    <2>1. PICK base : base = decided[c].base
        OBVIOUS
    <2>2. Gates!Falls(base, c) = {}
        BY <1>1, <1>3, <2>1 DEF Gates!RatchetHeld
    <2>3. base = main[n]
        BY <1>2, <1>3, <2>1
    <2>4. QED BY <2>2, <2>3
<1>9. ASSUME NEW o, \A r \in Retirements[c] : r.retired # o
      PROVE  Gates!Standing(main[n], o) \subseteq Gates!Standing(c, o)
    <2>1. PICK base \in Commit : base = main[n]
        BY <1>2
    <2>2. Gates!Falls(base, c) = {}
        BY <1>8, <2>1
    <2>3. Gates!Standing(base, o) \subseteq Gates!Standing(c, o)
        BY <1>9, <2>2, RatchetKeeps
    <2>4. QED BY <2>1, <2>3
<1> HIDE DEF n
<1>10. ASSUME NEW i \in 1 .. n + 1, NEW j \in 1 .. n + 1, i < j PROVE Gates!KeepsShares(i, j)'
    <2>1. i \in 1 .. n /\ main'[i] = main[i] /\ i \in Int /\ j \in Int /\ n \in Int
        BY <1>2, <1>4, <1>10
    <2>2. CASE j \in 1 .. n
        <3>1. Gates!KeepsShares(i, j)
            BY <1>1, <1>2, <1>10, <2>1, <2>2 DEF Gates!NoObligationFalls
        <3>2. \A k \in i + 1 .. j : main'[k] = main[k]
            BY <1>2, <1>4, <2>1, <2>2
        <3>3. ASSUME NEW o, Gates!Unretired(o, i, j)' PROVE Gates!Unretired(o, i, j)
            BY <3>2, <3>3 DEF Gates!Unretired
        <3>4. main'[j] = main[j]
            BY <1>4, <2>2
        <3>5. QED BY <2>1, <3>1, <3>3, <3>4 DEF Gates!KeepsShares
    <2>3. CASE j = n + 1
        <3>1. SUFFICES ASSUME NEW o \in Gates!Obligations(main[i]), Gates!Unretired(o, i, j)'
                       PROVE  Gates!Standing(main[i], o) \subseteq Gates!Standing(c, o)
            BY <1>4, <2>1, <2>3 DEF Gates!KeepsShares
        <3>2. \A k \in i + 1 .. j : \A r \in Retirements[main'[k]] : r.retired # o
            BY <3>1 DEF Gates!Unretired
        <3>3. \A r \in Retirements[c] : r.retired # o
            BY <1>4, <1>10, <2>1, <2>3, <3>2
        <3>4. Gates!Standing(main[n], o) \subseteq Gates!Standing(c, o)
            BY <1>9, <3>3
        <3>5. CASE i = n
            BY <3>4, <3>5
        <3>6. CASE i # n
            <4>1. i < n /\ n \in 1 .. n
                BY <1>2, <2>1, <3>6
            <4>2. Gates!KeepsShares(i, n)
                BY <1>1, <1>2, <2>1, <4>1 DEF Gates!NoObligationFalls
            <4>3. \A k \in i + 1 .. n : k \in i + 1 .. j /\ main'[k] = main[k]
                BY <1>4, <2>1, <2>3
            <4>4. Gates!Unretired(o, i, n)
                BY <3>2, <4>3 DEF Gates!Unretired
            <4>5. Gates!Standing(main[i], o) \subseteq Gates!Standing(main[n], o)
                BY <3>1, <4>2, <4>4 DEF Gates!KeepsShares
            <4>6. QED BY <3>4, <4>5
        <3>7. QED BY <3>5, <3>6
    <2>4. QED BY <1>2, <2>2, <2>3
<1>11. Gates!NoObligationFalls'
    BY <1>5, <1>10 DEF Gates!NoObligationFalls
<1>12. \A i \in DOMAIN log : i \in DOMAIN log' /\ log'[i] = log[i]
    BY <1>3
<1>13. (Gates!DecisionsRestOnRuns /\ Gates!RatchetHeld)'
    BY <1>3, <1>6, <1>12, DecisionsStay
<1>14. Gates!LogIsTrue' /\ Len(log)' \in Nat /\ (log = [i \in 1 .. Len(log) |-> log[i]])'
    BY <1>3, <1>6, LogStays
<1>15. /\ (summary \in Seq({"passed", "refused", "no decision"}))'
       /\ Gates!JobInv' /\ Gates!JobStandsByOutput'
    BY <1>3, <1>6, <1>12, JobStays
<1>16. Gates!TypeOK'
    BY <1>1, <1>3, <1>4, GatesCardinality DEF Gates!TypeOK
<1>17. QED BY <1>1, <1>3, <1>4, <1>11, <1>13, <1>14, <1>15, <1>16 DEF Gates!GatesInv

Line == {"passed", "refused", "no decision"}

\* What the invariant says of the job k, the predicates P and the summary s, but for
\* what its decision rests on.
JobAgrees(k, P, s) ==
    /\ DOMAIN k = {"pc", "commit", "proof", "passed", "exit", "mute"}
    /\ k.pc \in {"idle", "gate", "keep", "handover", "ended"} /\ k.exit \in 0 .. 2
    /\ k.commit \in Commit /\ k.passed \in BOOLEAN /\ k.mute \in BOOLEAN
    /\ P \subseteq Commit /\ Cardinality(P) <= 1 /\ s \in Seq(Line)
    /\ k.pc \in {"gate", "keep", "handover"} => P = {}
    /\ k.pc = "gate" => ~k.passed
    /\ k.pc = "handover" => k.passed /\ s[Len(s)] = "passed"
    /\ k.pc = "ended" /\ k.exit = 0 => k.passed /\ s[Len(s)] = "passed" /\ P \subseteq {k.commit}
    /\ k.pc = "ended" /\ k.exit = 1 => s[Len(s)] = "refused" /\ P = {}
    /\ k.pc = "ended" /\ k.exit = 2 => k.mute \/ s[Len(s)] = "no decision"

Decided(k) == k.pc \in {"keep", "handover", "ended"} /\ k.passed

\* The release job goes on as k, with the predicates P and the summary s.
LEMMA JobStep ==
    ASSUME Gates!GatesInv, UNCHANGED <<main, log, decided, released>>,
           NEW k, job' = k, NEW P, predicate' = P, NEW s, summary' = s, JobAgrees(k, P, s),
           NEW c, c = k.commit, NEW i, i = k.proof, Decided(k) => Gates!RestsOn(c, i)
    PROVE  Gates!GatesInv'
<1>1. /\ Gates!TypeOK /\ decided = [q \in Commit |-> decided[q]]
      /\ Gates!NoObligationFalls
    BY DEF Gates!GatesInv
<1>2. Gates!OnMain' = Gates!OnMain /\ (main # <<>> /\ Gates!NoObligationFalls)'
    BY MainStays
<1>3. Gates!LogIsTrue' /\ Len(log)' \in Nat /\ (log = [l \in 1 .. Len(log) |-> log[l]])'
    BY <1>2, LogStays
<1>4. (Gates!DecisionsRestOnRuns /\ Gates!RatchetHeld)'
    BY <1>2, DecisionsStay
<1>5. Gates!TypeOK'
    BY <1>1, GatesCardinality DEF Gates!TypeOK, JobAgrees
<1>6. Decided(k) => Gates!RestsOn(c, i)'
    BY <1>2, RestsStay DEF Gates!RestsOn, Gates!SuitesPassed
<1>7. Gates!JobInv'
    BY <1>6 DEF Gates!JobInv, Gates!RestsOn, Gates!SuitesPassed, Gates!Tip, JobAgrees, Decided
<1>8. Gates!JobStandsByOutput'
    BY DEF Gates!JobStandsByOutput, Gates!Tip, JobAgrees
<1>9. (summary \in Seq({"passed", "refused", "no decision"}))'
    BY DEF JobAgrees, Line
<1>10. QED BY <1>1, <1>2, <1>3, <1>4, <1>5, <1>7, <1>8, <1>9 DEF Gates!GatesInv

\* What the invariant says of the job as it is.
LEMMA JobFacts ==
    ASSUME Gates!GatesInv, NEW j, j = job, NEW P, P = predicate, NEW s, s = summary,
           NEW c, c = j.commit, NEW i, i = j.proof
    PROVE  JobAgrees(j, P, s) /\ (Decided(j) => Gates!RestsOn(c, i))
<1>1. Gates!TypeOK /\ Gates!JobInv /\ Gates!JobStandsByOutput /\ s \in Seq(Line)
    BY DEF Gates!GatesInv, Line
<1>2. /\ P \subseteq Commit /\ Cardinality(P) <= 1 /\ j.exit \in 0 .. 2
      /\ j.pc \in {"idle", "gate", "keep", "handover", "ended"}
    BY <1>1, GatesCardinality DEF Gates!TypeOK
<1>3. /\ DOMAIN j = {"pc", "commit", "proof", "passed", "exit", "mute"}
      /\ j.commit \in Commit /\ j.passed \in BOOLEAN /\ j.mute \in BOOLEAN
      /\ j.pc \in {"gate", "keep", "handover"} => P = {}
      /\ j.pc = "gate" => ~j.passed
      /\ j.pc = "handover" => j.passed /\ s[Len(s)] = "passed"
      /\ j.pc = "ended" /\ j.exit = 0 => j.passed
    BY <1>1 DEF Gates!JobInv, Gates!Tip
<1>4. Decided(j) => Gates!RestsOn(c, i)
    BY <1>1 DEF Gates!JobInv, Gates!RestsOn, Gates!SuitesPassed, Decided
<1>5. j.pc = "ended" =>
          /\ j.exit = 0 => s[Len(s)] = "passed" /\ P \subseteq {j.commit}
          /\ j.exit = 1 => s[Len(s)] = "refused" /\ P = {}
          /\ j.exit = 2 => j.mute \/ s[Len(s)] = "no decision"
    BY <1>1 DEF Gates!JobStandsByOutput, Gates!Tip
<1>6. QED BY <1>1, <1>2, <1>3, <1>4, <1>5 DEF JobAgrees

LEMMA NoPredicate == ASSUME NEW P, P = {} PROVE Cardinality(P) <= 1
<1>1. Cardinality(P) = 0
    BY FS_EmptySet
<1>2. QED BY <1>1

LEMMA OnePredicate == ASSUME NEW c, NEW P, P = {c} PROVE Cardinality(P) <= 1
<1>1. Cardinality(P) = 1
    BY FS_Singleton
<1>2. QED BY <1>1

\* A line more of the summary.
LEMMA LineMore ==
    ASSUME NEW s \in Seq(Line), NEW line \in Line, NEW u, u = Append(s, line)
    PROVE  u \in Seq(Line) /\ u[Len(u)] = line
BY AppendProperties

\* A job that reaches no decision leaves no predicate, and exits with 2.
LEMMA JobGivesUp ==
    ASSUME Gates!GatesInv, NEW shown \in Seq(Line), job.pc \in {"gate", "keep", "handover"},
           Gates!NoDecisionReached(shown),
           UNCHANGED <<main, log, decided, predicate, released>>
    PROVE  Gates!GatesInv'
<1>1. PICK j, P : j = job /\ P = predicate
    OBVIOUS
<1>2. PICK c, i : c = j.commit /\ i = j.proof
    OBVIOUS
<1>3. PICK s, u : s = summary /\ u = summary'
    OBVIOUS
<1>4. JobAgrees(j, P, s) /\ (Decided(j) => Gates!RestsOn(c, i)) /\ j.pc \in {"gate", "keep", "handover"}
    BY <1>1, <1>2, <1>3, JobFacts
<1>5. CASE job' = [job EXCEPT !.pc = "ended", !.exit = 2] /\ summary' = Append(shown, "no decision")
    <2>1. PICK k : k = [j EXCEPT !.pc = "ended", !.exit = 2]
        OBVIOUS
    <2>2. /\ DOMAIN k = {"pc", "commit", "proof", "passed", "exit", "mute"} /\ k.pc = "ended"
          /\ k.exit = 2 /\ k.commit = c /\ k.proof = i /\ k.passed = j.passed /\ k.mute = j.mute
        BY <1>2, <1>4, <2>1 DEF JobAgrees
    <2>3. u \in Seq(Line) /\ u[Len(u)] = "no decision"
        BY <1>3, <1>5, LineMore DEF Line
    <2>4. JobAgrees(k, P, u) /\ (Decided(k) => Decided(j))
        <3>1. P = {} /\ Cardinality(P) <= 1 /\ j.commit \in Commit /\ j.passed \in BOOLEAN
              /\ j.mute \in BOOLEAN /\ (j.pc = "gate" => ~j.passed)
            BY <1>4 DEF JobAgrees
        <3>2. JobAgrees(k, P, u)
            <4>1. P \subseteq Commit /\ k.exit \in 0 .. 2 /\ k.exit # 0 /\ k.exit # 1
                BY <2>2, <3>1
            <4>2. k.commit \in Commit /\ k.passed \in BOOLEAN /\ k.mute \in BOOLEAN
                BY <1>2, <2>2, <3>1
            <4>3. k.mute \/ u[Len(u)] = "no decision"
                BY <2>2, <2>3
            <4>4. QED BY <2>2, <2>3, <3>1, <4>1, <4>2, <4>3 DEF JobAgrees
        <3>3. Decided(k) => Decided(j)
            BY <1>4, <2>2, <3>1 DEF Decided
        <3>4. QED BY <3>2, <3>3
    <2>5. job' = k /\ predicate' = P
        BY <1>1, <1>5, <2>1
    <2>6. QED BY <1>3, <1>4, <2>2, <2>4, <2>5, JobStep
<1>6. CASE job' = [job EXCEPT !.pc = "ended", !.exit = 2, !.mute = TRUE] /\ summary' = shown
    <2>1. PICK k : k = [j EXCEPT !.pc = "ended", !.exit = 2, !.mute = TRUE]
        OBVIOUS
    <2>2. /\ DOMAIN k = {"pc", "commit", "proof", "passed", "exit", "mute"} /\ k.pc = "ended"
          /\ k.exit = 2 /\ k.commit = c /\ k.proof = i /\ k.passed = j.passed /\ k.mute = TRUE
        BY <1>2, <1>4, <2>1 DEF JobAgrees
    <2>3. u \in Seq(Line)
        BY <1>3, <1>6
    <2>4. JobAgrees(k, P, u) /\ (Decided(k) => Decided(j))
        <3>1. P = {} /\ Cardinality(P) <= 1 /\ j.commit \in Commit /\ j.passed \in BOOLEAN
              /\ j.mute \in BOOLEAN /\ (j.pc = "gate" => ~j.passed)
            BY <1>4 DEF JobAgrees
        <3>2. JobAgrees(k, P, u)
            <4>1. P \subseteq Commit /\ k.exit \in 0 .. 2 /\ k.exit # 0 /\ k.exit # 1
                BY <2>2, <3>1
            <4>2. k.commit \in Commit /\ k.passed \in BOOLEAN /\ k.mute \in BOOLEAN
                BY <1>2, <2>2, <3>1
            <4>3. k.mute \/ u[Len(u)] = "no decision"
                BY <2>2, <2>3
            <4>4. QED BY <2>2, <2>3, <3>1, <4>1, <4>2, <4>3 DEF JobAgrees
        <3>3. Decided(k) => Decided(j)
            BY <1>4, <2>2, <3>1 DEF Decided
        <3>4. QED BY <3>2, <3>3
    <2>5. job' = k /\ predicate' = P
        BY <1>1, <1>6, <2>1
    <2>6. QED BY <1>3, <1>4, <2>2, <2>4, <2>5, JobStep
<1>7. QED BY <1>5, <1>6 DEF Gates!NoDecisionReached

LEMMA JobChecks ==
    ASSUME Gates!GatesInv, NEW c \in Commit, Gates!Check(c)
    PROVE  Gates!GatesInv'
<1>1. PICK P, u : P = predicate /\ u = summary'
    OBVIOUS
<1>2. P \subseteq Commit /\ Cardinality(P) <= 1
    <2>1. PICK j, s : j = job /\ s = summary
        OBVIOUS
    <2>2. QED BY <1>1, <2>1, JobFacts DEF JobAgrees
<1>3. PICK k : k = job'
    OBVIOUS
<1>4. UNCHANGED <<main, log, decided, released>> /\ predicate' = P
    BY <1>1 DEF Gates!Check
<1>5. <<>> \in Seq(Line)
    BY EmptySeq
<1>6. CASE P = {}
    <2>1. k = Gates!Started(c) /\ u = <<>>
        BY <1>1, <1>3, <1>6 DEF Gates!Check
    <2>2. /\ DOMAIN k = {"pc", "commit", "proof", "passed", "exit", "mute"}
          /\ k.pc = "gate" /\ k.commit = c /\ ~k.passed /\ k.exit = 0 /\ k.mute = FALSE
          /\ k.passed \in BOOLEAN /\ k.mute \in BOOLEAN /\ 0 \in 0 .. 2
        BY <2>1 DEF Gates!Started
    <2>3. JobAgrees(k, P, u)
        BY <1>2, <1>5, <1>6, <2>1, <2>2 DEF JobAgrees
    <2>4. ~Decided(k)
        BY <2>2 DEF Decided
    <2>5. QED BY <1>1, <1>3, <1>4, <2>3, <2>4, JobStep
<1>7. CASE P # {}
    <2>1. k = [Gates!Started(c) EXCEPT !.pc = "ended", !.exit = 2] /\ u = <<"no decision">>
        BY <1>1, <1>3, <1>7 DEF Gates!Check
    <2>2. /\ DOMAIN k = {"pc", "commit", "proof", "passed", "exit", "mute"}
          /\ k.pc = "ended" /\ k.commit = c /\ ~k.passed /\ k.exit = 2 /\ k.mute = FALSE
          /\ k.passed \in BOOLEAN /\ k.mute \in BOOLEAN
        <3>1. /\ DOMAIN k = {"pc", "commit", "proof", "passed", "exit", "mute"}
              /\ k.pc = "ended" /\ k.commit = c /\ k.passed = FALSE /\ k.exit = 2 /\ k.mute = FALSE
            BY <2>1 DEF Gates!Started
        <3>2. QED BY <3>1
    <2>3. u \in Seq(Line) /\ u[Len(u)] = "no decision"
        <3>1. "no decision" \in Line
            BY DEF Line
        <3>2. PICK line : line = "no decision"
            OBVIOUS
        <3>3. line \in Line /\ u = <<line>>
            BY <2>1, <3>1, <3>2
        <3>4. <<line>> \in Seq(Line)
            BY <3>3
        <3>5. Len(<<line>>) = 1 /\ <<line>>[1] = line
            OBVIOUS
        <3>6. QED BY <3>2, <3>3, <3>4, <3>5
    <2>4. JobAgrees(k, P, u)
        <3>1. k.exit \in 0 .. 2 /\ k.exit # 0 /\ k.exit # 1
            BY <2>2
        <3>2. QED BY <1>2, <2>2, <2>3, <3>1 DEF JobAgrees
    <2>5. ~Decided(k)
        BY <2>2 DEF Decided
    <2>6. QED BY <1>1, <1>3, <1>4, <2>4, <2>5, JobStep
<1>8. QED BY <1>6, <1>7

LEMMA JobDecides ==
    ASSUME Gates!GatesInv, Gates!GateRelease
    PROVE  Gates!GatesInv'
<1>1. PICK j, P, s : j = job /\ P = predicate /\ s = summary
    OBVIOUS
<1>2. PICK c : c = j.commit
    OBVIOUS
<1>3. PICK ref, altered : ref = "none" /\ altered = FALSE
    OBVIOUS
<1>4. PICK proof : proof = Gates!Verify(c, ref, altered)
    OBVIOUS
<1>5. PICK passed : passed = Gates!ReleasePasses(c, proof)
    OBVIOUS
<1>6. PICK k : k = [j EXCEPT !.pc = "keep", !.proof = proof, !.passed = passed]
    OBVIOUS
<1>7. job' = k /\ j.pc = "gate" /\ UNCHANGED <<main, log, decided, predicate, summary, released>>
    BY <1>1, <1>2, <1>3, <1>4, <1>5, <1>6 DEF Gates!GateRelease
<1>8. JobAgrees(j, P, s)
    BY <1>1, JobFacts
<1>9. passed \in BOOLEAN
    BY <1>5 DEF Gates!ReleasePasses
<1>10. /\ DOMAIN k = {"pc", "commit", "proof", "passed", "exit", "mute"}
       /\ k.pc = "keep" /\ k.commit = c /\ k.proof = proof /\ k.passed = passed
       /\ k.exit = j.exit /\ k.mute = j.mute /\ c \in Commit /\ P = {}
    BY <1>2, <1>6, <1>7, <1>8 DEF JobAgrees
<1>11. JobAgrees(k, P, s)
    BY <1>8, <1>9, <1>10 DEF JobAgrees
<1>12. passed => Gates!RestsOn(c, proof)
    <2>1. SUFFICES ASSUME passed PROVE Gates!RestsOn(c, proof)
        OBVIOUS
    <2>2. Gates!NotPassed(c, proof) = {}
        BY <1>5, <2>1 DEF Gates!ReleasePasses
    <2>3. /\ Gates!SuitesPassed(c, proof) /\ log[proof].trusted
          /\ log[proof].ref = "main" => c \in Gates!OnMain
          /\ log[proof].ref = "main" \/ (ref = Ref[c] /\ ~altered)
        BY <1>3, <1>4, <1>10, <2>2, RunsBehind
    <2>4. log[proof].ref = "main"
        BY <1>3, <1>10, <2>3, GatesAssumption
    <2>5. QED BY <2>3, <2>4 DEF Gates!RestsOn
<1>13. QED BY <1>1, <1>7, <1>10, <1>11, <1>12, JobStep DEF Decided

LEMMA JobKeeps ==
    ASSUME Gates!GatesInv, Gates!Keep
    PROVE  Gates!GatesInv'
<1>1. PICK j, P, s : j = job /\ P = predicate /\ s = summary
    OBVIOUS
<1>2. PICK c, i : c = j.commit /\ i = j.proof
    OBVIOUS
<1>3. JobAgrees(j, P, s) /\ (Decided(j) => Gates!RestsOn(c, i))
    BY <1>1, <1>2, JobFacts
<1>4. j.pc = "keep" /\ UNCHANGED <<main, log, decided, predicate, released>>
    BY <1>1 DEF Gates!Keep
<1>5. PICK k, u : k = job' /\ u = summary'
    OBVIOUS
<1>6. s \in Seq(Line) /\ P = {} /\ Cardinality(P) <= 1 /\ P \subseteq Commit
      /\ j.commit \in Commit /\ j.passed \in BOOLEAN /\ j.mute \in BOOLEAN /\ j.exit \in 0 .. 2
    BY <1>3, <1>4 DEF JobAgrees
<1>7. CASE j.passed
    <2>1. k = [j EXCEPT !.pc = "handover"] /\ u = Append(s, "passed")
        BY <1>1, <1>5, <1>7 DEF Gates!Keep
    <2>2. /\ DOMAIN k = {"pc", "commit", "proof", "passed", "exit", "mute"}
          /\ k.pc = "handover" /\ k.commit = c /\ k.proof = i /\ k.passed = j.passed
          /\ k.exit = j.exit /\ k.mute = j.mute
        BY <1>2, <1>3, <2>1 DEF JobAgrees
    <2>3. u \in Seq(Line) /\ u[Len(u)] = "passed"
        BY <1>6, <2>1, LineMore DEF Line
    <2>4. JobAgrees(k, P, u) /\ Gates!RestsOn(c, i)
        BY <1>2, <1>3, <1>4, <1>6, <1>7, <2>2, <2>3 DEF JobAgrees, Decided
    <2>5. QED BY <1>1, <1>4, <1>5, <2>2, <2>4, JobStep
<1>8. CASE ~j.passed
    <2>1. k = [j EXCEPT !.pc = "ended", !.exit = 1] /\ u = Append(s, "refused")
        BY <1>1, <1>5, <1>8 DEF Gates!Keep
    <2>2. /\ DOMAIN k = {"pc", "commit", "proof", "passed", "exit", "mute"}
          /\ k.pc = "ended" /\ k.commit = c /\ k.proof = i /\ k.passed = j.passed
          /\ k.exit = 1 /\ k.mute = j.mute
        BY <1>2, <1>3, <2>1 DEF JobAgrees
    <2>3. u \in Seq(Line) /\ u[Len(u)] = "refused"
        BY <1>6, <2>1, LineMore DEF Line
    <2>4. JobAgrees(k, P, u) /\ ~Decided(k)
        BY <1>2, <1>6, <1>8, <2>2, <2>3 DEF JobAgrees, Decided
    <2>5. QED BY <1>1, <1>4, <1>5, <2>2, <2>4, JobStep
<1>9. QED BY <1>7, <1>8

LEMMA JobHandsOver ==
    ASSUME Gates!GatesInv, Gates!HandOver
    PROVE  Gates!GatesInv'
<1>1. PICK j, P, s : j = job /\ P = predicate /\ s = summary
    OBVIOUS
<1>2. PICK c, i : c = j.commit /\ i = j.proof
    OBVIOUS
<1>3. JobAgrees(j, P, s) /\ (Decided(j) => Gates!RestsOn(c, i))
    BY <1>1, <1>2, JobFacts
<1>4. PICK k, Q : k = [j EXCEPT !.pc = "ended", !.exit = 0] /\ Q = {c}
    OBVIOUS
<1>5. /\ j.pc = "handover" /\ UNCHANGED <<main, log, decided, summary, released>>
      /\ predicate' = Q /\ job' = k
    BY <1>1, <1>2, <1>4 DEF Gates!HandOver
<1>6. /\ DOMAIN k = {"pc", "commit", "proof", "passed", "exit", "mute"}
      /\ k.pc = "ended" /\ k.commit = c /\ k.proof = i /\ k.passed = j.passed
      /\ k.exit = 0 /\ k.mute = j.mute
    BY <1>2, <1>3, <1>4 DEF JobAgrees
<1>7. /\ c \in Commit /\ j.passed \in BOOLEAN /\ j.mute \in BOOLEAN /\ s \in Seq(Line)
      /\ j.passed /\ s[Len(s)] = "passed"
    BY <1>2, <1>3, <1>5 DEF JobAgrees
<1>8. Q \subseteq Commit /\ Cardinality(Q) <= 1
    BY <1>4, <1>7, OnePredicate
<1>9. JobAgrees(k, Q, s) /\ Gates!RestsOn(c, i)
    <2>1. Gates!RestsOn(c, i)
        BY <1>3, <1>5, <1>7 DEF Decided
    <2>2. k.commit \in Commit /\ k.passed \in BOOLEAN /\ k.mute \in BOOLEAN /\ k.passed
        BY <1>6, <1>7
    <2>3. k.exit \in 0 .. 2 /\ k.exit # 1 /\ k.exit # 2
        BY <1>6
    <2>4. Q \subseteq {k.commit}
        BY <1>4, <1>6
    <2>5. JobAgrees(k, Q, s)
        BY <1>6, <1>7, <1>8, <2>2, <2>3, <2>4 DEF JobAgrees
    <2>6. QED BY <2>1, <2>5
<1>10. QED BY <1>1, <1>5, <1>6, <1>9, JobStep

\* The steps at which the job reaches no decision.
LEMMA JobFails ==
    ASSUME Gates!GatesInv, Gates!GateReleaseFails \/ Gates!KeepFails \/ Gates!HandOverFails
    PROVE  Gates!GatesInv'
<1>1. summary \in Seq(Line)
    BY DEF Gates!GatesInv, Line
<1>2. /\ job.pc \in {"gate", "keep", "handover"}
      /\ UNCHANGED <<main, log, decided, predicate, released>>
    BY DEF Gates!GateReleaseFails, Gates!KeepFails, Gates!HandOverFails
<1>3. CASE Gates!GateReleaseFails \/ Gates!HandOverFails \/ (Gates!KeepFails /\ Gates!NoDecisionReached(summary))
    <2>1. PICK shown : shown = summary
        OBVIOUS
    <2>2. Gates!NoDecisionReached(shown)
        BY <1>3, <2>1 DEF Gates!GateReleaseFails, Gates!HandOverFails, Gates!NoDecisionReached
    <2>3. QED BY <1>1, <1>2, <2>1, <2>2, JobGivesUp
<1>4. CASE Gates!KeepFails /\ ~Gates!NoDecisionReached(summary)
    <2>1. PICK line : line = IF job.passed THEN "passed" ELSE "refused"
        OBVIOUS
    <2>2. PICK shown : shown = Append(summary, line)
        OBVIOUS
    <2>3. Gates!NoDecisionReached(shown)
        BY <1>4, <2>1, <2>2 DEF Gates!KeepFails, Gates!NoDecisionReached
    <2>4. line \in Line
        BY <2>1 DEF Line
    <2>5. shown \in Seq(Line)
        BY <1>1, <2>2, <2>4, LineMore
    <2>6. QED BY <1>2, <2>3, <2>5, JobGivesUp
<1>5. QED BY <1>3, <1>4

\* The provider signs what a job left that passed.
LEMMA JobAttested ==
    ASSUME Gates!GatesInv, Gates!Attest
    PROVE  Gates!GatesInv'
<1>1. PICK j, P, s : j = job /\ P = predicate /\ s = summary
    OBVIOUS
<1>2. PICK c, i : c = j.commit /\ i = j.proof
    OBVIOUS
<1>3. JobAgrees(j, P, s) /\ (Decided(j) => Gates!RestsOn(c, i))
    BY <1>1, <1>2, JobFacts
<1>4. /\ j.pc = "ended" /\ j.exit = 0 /\ UNCHANGED <<main, log, decided, job, summary>>
      /\ released' = released \cup {[commit |-> q, proof |-> i] : q \in P} /\ predicate' = {}
    BY <1>1, <1>2 DEF Gates!Attest
<1>5. P \subseteq {c} /\ j.passed /\ s[Len(s)] = "passed" /\ s \in Seq(Line)
    BY <1>2, <1>3, <1>4 DEF JobAgrees
<1>6. Gates!RestsOn(c, i)
    BY <1>3, <1>4, <1>5 DEF Decided
<1>7. /\ Gates!TypeOK /\ decided = [q \in Commit |-> decided[q]]
      /\ Gates!NoObligationFalls /\ Gates!DecisionsRestOnRuns /\ Gates!RatchetHeld
      /\ Gates!JobInv /\ Gates!JobStandsByOutput
    BY DEF Gates!GatesInv
<1>8. Gates!OnMain' = Gates!OnMain /\ (main # <<>> /\ Gates!NoObligationFalls)'
    BY <1>4, MainStays
<1>9. Gates!LogIsTrue' /\ Len(log)' \in Nat /\ (log = [l \in 1 .. Len(log) |-> log[l]])'
    BY <1>4, <1>8, LogStays
<1>10. ASSUME NEW q, NEW l, Gates!SuitesPassed(q, l) PROVE Gates!SuitesPassed(q, l)'
    BY <1>4, <1>8, <1>10, RestsStay DEF Gates!SuitesPassed
<1>11. ASSUME NEW r \in released'
       PROVE  /\ Gates!SuitesPassed(r.commit, r.proof)' /\ log[r.proof].trusted
              /\ log[r.proof].ref = "main" /\ r.commit \in Gates!OnMain
    <2>1. CASE r \in released
        BY <1>7, <1>10, <2>1 DEF Gates!DecisionsRestOnRuns
    <2>2. CASE r \notin released
        <3>1. PICK q \in P : r = [commit |-> q, proof |-> i]
            BY <1>4, <2>2
        <3>2. r.commit = c /\ r.proof = i
            BY <1>5, <3>1
        <3>3. Gates!SuitesPassed(c, i)' /\ log[i].trusted /\ log[i].ref = "main" /\ c \in Gates!OnMain
            BY <1>6, <1>10 DEF Gates!RestsOn
        <3>4. QED BY <3>2, <3>3
    <2>3. QED BY <2>1, <2>2
<1>12. Gates!DecisionsRestOnRuns'
    <2>1. \A q \in Commit : decided[q].passed =>
              /\ decided[q].proof \in DOMAIN log /\ log[decided[q].proof].commit = q
              /\ \A t \in Automated[q] : log[decided[q].proof].runs[t] = {"passed"}
              /\ log[decided[q].proof].trusted
              /\ log[decided[q].proof].ref # "main" => Workflows[q] = Workflows[decided[q].base]
        BY <1>7 DEF Gates!DecisionsRestOnRuns, Gates!SuitesPassed
    <2>2. QED BY <1>4, <1>8, <1>11, <2>1 DEF Gates!DecisionsRestOnRuns, Gates!SuitesPassed
<1>13. Gates!RatchetHeld'
    BY <1>4, <1>7 DEF Gates!RatchetHeld
<1>14. Gates!TypeOK'
    BY <1>4, <1>7, GatesCardinality, NoPredicate DEF Gates!TypeOK
<1>15. Gates!JobInv'
    <2>1. Gates!RestsOn(c, i)'
        BY <1>6, <1>8, <1>10, <1>4 DEF Gates!RestsOn
    <2>2. QED
        BY <1>1, <1>2, <1>4, <1>7, <2>1 DEF Gates!JobInv, Gates!RestsOn, Gates!SuitesPassed, Gates!Tip
<1>16. Gates!JobStandsByOutput'
    BY <1>4, <1>7 DEF Gates!JobStandsByOutput, Gates!Tip
<1>17. (summary \in Seq({"passed", "refused", "no decision"}))'
    BY <1>1, <1>4, <1>5 DEF Line
<1>18. QED
    BY <1>4, <1>7, <1>8, <1>9, <1>12, <1>13, <1>14, <1>15, <1>16, <1>17 DEF Gates!GatesInv

LEMMA GatesStep == Gates!GatesInv /\ [Gates!Next]_gateVars => Gates!GatesInv'
<1> SUFFICES ASSUME Gates!GatesInv, [Gates!Next]_gateVars PROVE Gates!GatesInv'
    OBVIOUS
<1>1. ASSUME NEW c \in Commit, NEW runs \in SuiteOutput, NEW ref, NEW clean \in BOOLEAN,
             Gates!Record(c, runs, ref, clean)
      PROVE  Gates!GatesInv'
    BY <1>1, GateRecords
<1>2. ASSUME NEW c \in Commit, NEW by \in Others, Gates!OtherAttests(c, by) PROVE Gates!GatesInv'
    BY <1>2, GateOtherAttests
<1>3. ASSUME NEW c \in Commit, NEW fails \in BOOLEAN, Gates!GateChange(c, fails)
      PROVE  Gates!GatesInv'
    BY <1>3, GateDecides
<1>4. ASSUME NEW c \in Commit, Gates!Merge(c) PROVE Gates!GatesInv'
    BY <1>4, GateMerges
<1>5. ASSUME NEW c \in Commit, Gates!Check(c) PROVE Gates!GatesInv'
    BY <1>5, JobChecks
<1>6. ASSUME UNCHANGED gateVars PROVE Gates!GatesInv'
    <2>1. PICK j, P, s : j = job /\ P = predicate /\ s = summary
        OBVIOUS
    <2>2. PICK c, i : c = j.commit /\ i = j.proof
        OBVIOUS
    <2>3. JobAgrees(j, P, s) /\ (Decided(j) => Gates!RestsOn(c, i))
        BY <2>1, <2>2, JobFacts
    <2>4. QED BY <1>6, <2>1, <2>2, <2>3, JobStep DEF gateVars
<1>7. CASE \E c \in Commit :
              \/ \E runs \in SuiteOutput, ref \in {"main", Ref[c]}, clean \in BOOLEAN :
                    Gates!Record(c, runs, ref, clean)
              \/ \E by \in Others : Gates!OtherAttests(c, by)
              \/ \E fails \in BOOLEAN : Gates!GateChange(c, fails)
              \/ Gates!Merge(c) \/ Gates!Check(c)
    BY <1>1, <1>2, <1>3, <1>4, <1>5, <1>7
<1>8. CASE \/ Gates!GateRelease \/ Gates!GateReleaseFails \/ Gates!Keep \/ Gates!KeepFails
           \/ Gates!HandOver \/ Gates!HandOverFails \/ Gates!Attest
    BY <1>8, JobDecides, JobFails, JobKeeps, JobHandsOver, JobAttested
<1>9. QED BY <1>6, <1>7, <1>8 DEF Gates!Next

LEMMA GatesInit == Gates!Init => Gates!GatesInv
<1> SUFFICES ASSUME Gates!Init PROVE Gates!GatesInv
    OBVIOUS
<1>1. /\ main = <<First>> /\ log = <<>> /\ decided = [c \in Commit |-> Gates!NoDecision]
      /\ job = [pc |-> "idle", commit |-> First, proof |-> 0, passed |-> FALSE, exit |-> 0,
                mute |-> FALSE]
      /\ predicate = {} /\ summary = <<>> /\ released = {}
    BY DEF Gates!Init
<1>2. First \in Commit /\ MaxLog \in Nat
    BY GatesAssumption
<1>3. main \in Seq(Commit) /\ main # <<>> /\ Len(main) = 1
    BY <1>1, <1>2
<1>4. Len(log) = 0 /\ DOMAIN log = {}
    BY <1>1
<1>5. \A c \in Commit : decided[c] = Gates!NoDecision
    BY <1>1
<1>6. Gates!NoDecision.base = Nothing /\ Gates!NoDecision.proof = 0 /\ ~Gates!NoDecision.passed
    BY DEF Gates!NoDecision
<1>7. Gates!TypeOK
    <2>1. \A c \in Commit : decided[c].base \in Commit \cup {Nothing} /\ decided[c].proof \in 0 .. MaxLog
        BY <1>2, <1>5, <1>6
    <2>2. Gates!Cardinality(predicate) <= 1
        BY <1>1, GatesCardinality, NoPredicate
    <2>3. job.pc = "idle" /\ job.exit = 0 /\ predicate \subseteq Commit
        BY <1>1
    <2>4. QED BY <1>2, <1>3, <1>4, <2>1, <2>2, <2>3 DEF Gates!TypeOK
<1>8. Gates!LogIsTrue
    BY <1>4 DEF Gates!LogIsTrue
<1>9. Gates!DecisionsRestOnRuns /\ Gates!RatchetHeld
    BY <1>1, <1>5, <1>6 DEF Gates!DecisionsRestOnRuns, Gates!RatchetHeld
<1>10. Gates!NoObligationFalls
    <2>1. DOMAIN main = {1}
        BY <1>1
    <2>2. QED BY <2>1 DEF Gates!NoObligationFalls
<1>11. Gates!JobInv
    BY <1>1, <1>2 DEF Gates!JobInv
<1>12. Gates!JobStandsByOutput
    BY <1>1 DEF Gates!JobStandsByOutput
<1>13. Len(log) \in Nat /\ log = [l \in 1 .. Len(log) |-> log[l]]
    <2>1. 1 .. Len(log) = {}
        BY <1>4
    <2>2. QED BY <1>1, <1>4, <2>1
<1>14. summary \in Seq({"passed", "refused", "no decision"})
    BY <1>1, EmptySeq
<1>15. decided = [c \in Commit |-> decided[c]]
    BY <1>1
<1>16. QED
    BY <1>3, <1>7, <1>8, <1>9, <1>10, <1>11, <1>12, <1>13, <1>14, <1>15 DEF Gates!GatesInv

\* The steps of the two parts, as the gates see them.
LEMMA ToolsGates ==
    /\ ToolsInit => Gates!Init
    /\ [ToolsNext]_<<part, vars, gateVars>> => [Gates!Next]_gateVars
BY DEF ToolsInit, ToolsNext

\* What the gates have decided, the release job, and the log agree.
THEOREM GatesInvariance == ToolsSpec => []Gates!GatesInv
<1>1. ToolsInit => Gates!GatesInv
    BY GatesInit, ToolsGates
<1>2. Gates!GatesInv /\ [ToolsNext]_<<part, vars, gateVars>> => Gates!GatesInv'
    BY GatesStep, ToolsGates
<1>3. QED BY <1>1, <1>2, PTL DEF ToolsSpec

\* What passes a gate rests on suites that the trusted workflow ran, an obligation
\* of main keeps its shares unless it is retired, the ledger says what the gate
\* finds, and the output of a release job agrees with its exit code (RecordProofRun,
\* VerifyAttestation, GateChange, GateRelease, BuildLedger, JobOutput).
THEOREM GatesAreHonest == ToolsSpec => []GatesHold
<1>1. Gates!GatesInv => GatesHold
    BY LedgerIsTrue DEF Gates!GatesInv, GatesHold
<1>2. QED BY <1>1, GatesInvariance, PTL
=============================================================================
