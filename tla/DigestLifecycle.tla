-------------------------- MODULE DigestLifecycle --------------------------
(***************************************************************************)
(* The digest lifecycle (internal/lifecycle, cmd/stego lifecycle.go and    *)
(* standing.go). Engineers record supersessions and withdrawals of         *)
(* component digests as numbered advisory files in the lifecycle folder of *)
(* a registry checkout, without a lock; the runs of a service read the     *)
(* folder and refuse pins that do not stand.                               *)
(***************************************************************************)
EXTENDS Integers, FiniteSets, FiniteSetsExt

CONSTANTS
    Proc,           \* running commands
    Subject,        \* digests of components
    ComponentOf,    \* subject -> component
    Stage,          \* component -> stage of the registry, or Unknown
    TookOver,       \* pairs <<component, component whose port it took over>>
    Released,       \* subject -> day of its release, or Unknown
    Window,         \* stage -> days before a superseded digest fails
    Unknown, Nothing,
    Requests,       \* the requests that are made, a subset of Request
    Earlier,        \* what the folder may hold at the start
    Pinned,         \* the digests that the service may pin
    MaxDay,         \* bound on days
    MaxAdvisory,    \* bound on advisory numbers
    MaxKill         \* bound on killed commands

VARIABLES
    folder,    \* number -> the advisory of that name, or Nothing
    exists,    \* the lifecycle folder is there
    temps,     \* commands whose temporary file is in the folder
    litter,    \* a killed command left its temporary file
    cmd,       \* command -> its state
    held,      \* the pins that the record of the service holds
    today,
    kills

vars == <<folder, exists, temps, litter, cmd, held, today, kills>>

Day == 0 .. MaxDay
Number == 1 .. MaxAdvisory
\* What a command is asked to record; without a fail date it does not start.
Request ==
    [kind : {"supersession"}, subject : Subject, successor : Subject, failsAfter : Day,
     declaration : BOOLEAN] \cup
    [kind : {"withdrawal"}, subject : Subject, successor : {Nothing}, failsAfter : Day,
     declaration : {FALSE}]

NoRequest == [kind |-> "none", subject |-> Nothing, successor |-> Nothing, failsAfter |-> Nothing,
              declaration |-> FALSE]

\* A command that does not run, or has returned an error.
Failed == [pc |-> "idle", request |-> NoRequest, recordedOn |-> 0, current |-> Nothing, id |-> 0,
           advisory |-> Nothing, ok |-> FALSE]

\* What a file of the folder holds.
AdvisoryFile ==
    [kind : {"supersession", "withdrawal"}, subject : Subject,
     successor : Subject \cup {Nothing}, failsAfter : Int, retracted : BOOLEAN]

ASSUME LifecycleAssumption ==
    /\ {MaxDay, MaxAdvisory, MaxKill} \subseteq Nat
    /\ DOMAIN ComponentOf = Subject /\ DOMAIN Released = Subject
    /\ Unknown \notin Nat /\ Requests \subseteq Request /\ Pinned \subseteq Subject
    /\ Nothing \notin AdvisoryFile /\ Earlier \subseteq [Number -> AdvisoryFile \cup {Nothing}]
    /\ \A s \in Subject : /\ Released[s] \in Int \cup {Unknown}
                          /\ Stage[ComponentOf[s]] # Unknown => Window[Stage[ComponentOf[s]]] \in Nat

Init ==
    /\ folder \in Earlier /\ exists \in BOOLEAN
    /\ (\E n \in Number : folder[n] # Nothing) => exists
    /\ temps = {} /\ litter = FALSE
    /\ cmd = [p \in Proc |-> Failed]
    /\ held = {} /\ today = 0 /\ kills = 0

-----------------------------------------------------------------------------
(***************************************************************************)
(* The store.                                                              *)
(***************************************************************************)

\* Store.read fails on a file that is not an advisory, as a temporary file is.
Listable == temps = {} /\ ~litter

Advisories(kind, s) ==
    {n \in Number : /\ folder[n] # Nothing /\ folder[n].kind = kind /\ folder[n].subject = s
                    /\ ~folder[n].retracted}

\* lifecycles: two supersessions or two withdrawals of one digest make all of the
\* folder unreadable.
Grouped == \A s \in Subject : \A kind \in {"supersession", "withdrawal"} :
              Cardinality(Advisories(kind, s)) <= 1

\* One lifecycle: the advisories about a subject, none or one of each kind.
Lifecycle(s) == [supersession |-> {folder[n] : n \in Advisories("supersession", s)},
                 withdrawal |-> {folder[n] : n \in Advisories("withdrawal", s)}]

\* Store.Get, where a missing folder holds no advisory.
Get(p) ==
    /\ cmd[p].pc = "get"
    /\ IF exists /\ ~(Listable /\ Grouped)
       THEN cmd' = [cmd EXCEPT ![p] = Failed]
       ELSE cmd' = [cmd EXCEPT ![p].pc = "number",
                               ![p].current = Lifecycle(cmd[p].request.subject)]
    /\ UNCHANGED <<folder, exists, temps, litter, held, today, kills>>

-----------------------------------------------------------------------------
(***************************************************************************)
(* The rules of a supersession and of a withdrawal.                        *)
(***************************************************************************)

\* oneSuccessor: none yet, and another digest of the component, or of the ga
\* component that took over a port.
OneSuccessorRule(r, current) ==
    LET from == ComponentOf[r.subject]
        to == ComponentOf[r.successor]
    IN  /\ current.supersession = {}
        /\ IF to = from THEN r.successor # r.subject
           ELSE <<to, from>> \in TookOver /\ Stage[to] = "ga" /\ r.declaration

\* The latest fail date: the window of the stage after the release, twice if the
\* declaration must change.
Latest(r) == Released[r.successor] + Window[Stage[ComponentOf[r.subject]]]
                                     * (IF r.declaration THEN 2 ELSE 1)

\* failDateInWindow: refused when the registry states no release or no stage. At this
\* commit the command reads neither from the registry, so they are Unknown, and it
\* refuses every supersession.
FailDateInWindow(r) ==
    /\ Released[r.successor] # Unknown /\ Stage[ComponentOf[r.subject]] # Unknown
    /\ r.failsAfter <= Latest(r)

Supersede(r, current) == OneSuccessorRule(r, current) /\ FailDateInWindow(r)

\* withdraw: with a fail date that was not past when the command started, once.
Withdraw(r, current, recordedOn) == r.failsAfter >= recordedOn /\ current.withdrawal = {}

Permitted(r, current, recordedOn) ==
    IF r.kind = "supersession" THEN Supersede(r, current) ELSE Withdraw(r, current, recordedOn)

Advisory(r) ==
    [kind |-> r.kind, subject |-> r.subject, successor |-> r.successor,
     failsAfter |-> r.failsAfter, retracted |-> FALSE]

\* nextAdvisoryID reads the folder again, and the rules decide on the lifecycle
\* that Get has read.
Decide(p) ==
    LET r == cmd[p].request
        taken == {n \in Number : folder[n] # Nothing}
        id == IF taken = {} THEN 1 ELSE Max(taken) + 1
    IN
    /\ cmd[p].pc = "number" /\ id \in Number
    /\ IF (exists /\ ~Listable) \/ ~Permitted(r, cmd[p].current, cmd[p].recordedOn)
       THEN cmd' = [cmd EXCEPT ![p] = Failed]
       ELSE cmd' = [cmd EXCEPT ![p].pc = "create", ![p].id = id, ![p].advisory = Advisory(r)]
    /\ UNCHANGED <<folder, exists, temps, litter, held, today, kills>>

-----------------------------------------------------------------------------
(***************************************************************************)
(* Store.add.                                                              *)
(***************************************************************************)

CreateTemp(p) ==
    /\ cmd[p].pc = "create"
    /\ exists' = TRUE /\ temps' = temps \cup {p}
    /\ cmd' = [cmd EXCEPT ![p].pc = "link"]
    /\ UNCHANGED <<folder, litter, held, today, kills>>

\* Mutant: the file gets its name by a rename, which replaces.
LinkRenames(p) ==
    /\ cmd[p].pc = "link"
    /\ cmd' = [cmd EXCEPT ![p].pc = "remove", ![p].ok = TRUE]
    /\ folder' = [folder EXCEPT ![cmd[p].id] = cmd[p].advisory]
    /\ UNCHANGED <<exists, temps, litter, held, today, kills>>

\* The hard link takes the name, or fails because it is taken.
Link(p) ==
    /\ cmd[p].pc = "link"
    /\ IF folder[cmd[p].id] = Nothing
       THEN /\ folder' = [folder EXCEPT ![cmd[p].id] = cmd[p].advisory]
            /\ cmd' = [cmd EXCEPT ![p].pc = "remove", ![p].ok = TRUE]
       ELSE cmd' = [cmd EXCEPT ![p].pc = "remove"] /\ UNCHANGED folder
    /\ UNCHANGED <<exists, temps, litter, held, today, kills>>

\* Writing, syncing or naming the temporary file fails.
AddFails(p) ==
    /\ cmd[p].pc = "link"
    /\ cmd' = [cmd EXCEPT ![p].pc = "remove"]
    /\ UNCHANGED <<folder, exists, temps, litter, held, today, kills>>

RemoveTemp(p) ==
    /\ cmd[p].pc = "remove"
    /\ temps' = temps \ {p}
    /\ cmd' = [cmd EXCEPT ![p] = IF cmd[p].ok THEN [cmd[p] EXCEPT !.pc = "recorded"] ELSE Failed]
    /\ UNCHANGED <<folder, exists, litter, held, today, kills>>

-----------------------------------------------------------------------------
(***************************************************************************)
(* Commands, services, days.                                               *)
(***************************************************************************)

\* stego lifecycle supersede, or withdraw. The time of the recording is read now.
Start(p, r) ==
    /\ cmd[p].pc \in {"idle", "recorded"}
    /\ cmd' = [cmd EXCEPT ![p] = [Failed EXCEPT !.pc = "get", !.request = r,
                                                !.recordedOn = today]]
    /\ UNCHANGED <<folder, exists, temps, litter, held, today, kills>>

Kill(p) ==
    /\ kills < MaxKill /\ cmd[p].pc \in {"create", "link", "remove"}
    /\ kills' = kills + 1
    /\ litter' = (litter \/ p \in temps) /\ temps' = temps \ {p}
    /\ cmd' = [cmd EXCEPT ![p] = Failed]
    /\ UNCHANGED <<folder, exists, held, today>>

\* An engineer retracts a supersession: the file's withdrawn time is set by hand.
Retract(n) ==
    /\ folder[n] # Nothing /\ folder[n].kind = "supersession" /\ ~folder[n].retracted
    /\ folder' = [folder EXCEPT ![n].retracted = TRUE]
    /\ UNCHANGED <<exists, temps, litter, cmd, held, today, kills>>

\* The standing is unchecked when the folder is missing or cannot be read.
Unchecked == ~exists \/ ~Listable \/ ~Grouped

PastFailDate(l) == \E a \in l.supersession \cup l.withdrawal : today > a.failsAfter

\* Mutant: a folder that cannot be checked passes.
PinsStandUnchecked(pins) ==
    Unchecked \/ \A s \in pins : /\ ~PastFailDate(Lifecycle(s))
                               /\ (Lifecycle(s).withdrawal # {} => s \in held)

\* pinReport.problems
PinsStand(pins) ==
    /\ ~Unchecked
    /\ \A s \in pins : ~PastFailDate(Lifecycle(s)) /\ (Lifecycle(s).withdrawal # {} => s \in held)

\* stego apply with these pins: checkPinStanding passes, and the record holds them.
Apply(pins) ==
    /\ pins # held /\ PinsStand(pins)
    /\ held' = pins
    /\ UNCHANGED <<folder, exists, temps, litter, cmd, today, kills>>

NextDay ==
    /\ today < MaxDay /\ today' = today + 1
    /\ UNCHANGED <<folder, exists, temps, litter, cmd, held, kills>>

Command(p) ==
    \/ \E r \in Requests : Start(p, r)
    \/ Get(p) \/ Decide(p) \/ CreateTemp(p) \/ Link(p) \/ AddFails(p) \/ RemoveTemp(p) \/ Kill(p)

Next ==
    \/ \E p \in Proc : Command(p)
    \/ \E n \in Number : Retract(n)
    \/ \E pins \in SUBSET Pinned : Apply(pins)
    \/ NextDay

Spec == Init /\ [][Next]_vars

-----------------------------------------------------------------------------
(***************************************************************************)
(* Properties.                                                             *)
(***************************************************************************)

TypeOK ==
    /\ folder \in [Number -> AdvisoryFile \cup {Nothing}]
    /\ exists \in BOOLEAN /\ temps \subseteq Proc /\ litter \in BOOLEAN
    /\ held \subseteq Subject /\ today \in Day /\ kills \in 0 .. MaxKill
    /\ \A p \in Proc : cmd[p].pc \in {"idle", "get", "number", "create", "link", "remove",
                                      "recorded"}

\* A command that reports an advisory has recorded exactly that one, whatever other
\* commands drew the same number (Supersede, Withdraw, Store.add).
ReportedIsRecorded ==
    \A p \in Proc : cmd[p].pc = "recorded" =>
        /\ folder[cmd[p].id] # Nothing
        /\ [folder[cmd[p].id] EXCEPT !.retracted = FALSE] = cmd[p].advisory

\* An advisory is never changed or removed, but for its retraction (Store: "it never
\* changes or removes one").
AdvisoriesAreKept ==
    [][\A n \in Number : folder[n] # Nothing =>
          /\ folder'[n] # Nothing
          /\ [folder'[n] EXCEPT !.retracted = folder[n].retracted] = folder[n]]_vars

\* No run takes a new pin to a digest that any recorded withdrawal names, or any pin
\* whose fail date is past, also while a command is half done or has left the folder
\* unreadable (checkPinStanding).
NoFailedPinTaken ==
    [][held' # held => \A s \in held' : \A n \in Number :
          folder[n] # Nothing /\ folder[n].subject = s /\ ~folder[n].retracted =>
              /\ today <= folder[n].failsAfter
              /\ folder[n].kind = "withdrawal" => s \in held]_vars

\* A digest has a supersession and a withdrawal "each at most once" (Lifecycle,
\* ST-DIS-INV06).
EachAtMostOnce ==
    \A s \in Subject, kind \in {"supersession", "withdrawal"} :
        Cardinality(Advisories(kind, s)) <= 1

\* A command that reports an advisory has recorded exactly that one (Store.add).
AdvisoriesAreTrue == TypeOK /\ ReportedIsRecorded

\* An advisory is never changed or removed, but for its retraction; and no run takes
\* a new pin to a withdrawn digest, or any pin past its fail date (Store,
\* checkPinStanding).
LifecycleSteps == AdvisoriesAreKept /\ NoFailedPinTaken

-----------------------------------------------------------------------------
\* The inductive invariant behind them: what a command is about to record is an
\* advisory, and what it has recorded stays there under its number.
IsCommand(x) ==
    /\ DOMAIN x = {"pc", "request", "recordedOn", "current", "id", "advisory", "ok"}
    /\ x.ok \in BOOLEAN
    /\ x.pc \in {"get", "number"} => x.request \in Request /\ ~x.ok
    /\ x.pc \in {"create", "link"} =>
          x.id \in Number /\ x.advisory \in AdvisoryFile /\ ~x.advisory.retracted /\ ~x.ok
    /\ x.pc = "recorded" => x.ok

Recorded(x) ==
    /\ x.id \in Number /\ folder[x.id] # Nothing
    /\ [folder[x.id] EXCEPT !.retracted = FALSE] = x.advisory

LifecycleInv ==
    /\ TypeOK /\ cmd = [p \in Proc |-> cmd[p]]
    /\ \A p \in Proc : IsCommand(cmd[p]) /\ (cmd[p].ok => Recorded(cmd[p]))
=============================================================================
