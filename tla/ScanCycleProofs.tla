-------------------------- MODULE ScanCycleProofs --------------------------
(***************************************************************************)
(* The cycles of ScanCycle are honest, their actions exclude one another   *)
(* by key, and saves never set one back: for any processes, items, keys    *)
(* and options.                                                            *)
(***************************************************************************)
EXTENDS ScanCycle, FiniteSetTheorems, WellFoundedInduction, TLAPS

\* A bounded set of numbers that is not empty has a maximum.
LEMMA MaxOf ==
    ASSUME NEW n \in Nat, NEW S, S \subseteq 0 .. n, S # {}
    PROVE  Max(S) \in S /\ \A x \in S : x <= Max(S)
<1> DEFINE T == {n - x : x \in S}
<1>1. \A x \in S : x \in Nat /\ x <= n
    OBVIOUS
<1>2. T \subseteq Nat /\ T # {}
    <2>1. \A x \in S : n - x \in Nat
        BY <1>1
    <2>2. PICK x \in S : TRUE
        OBVIOUS
    <2>3. n - x \in T
        OBVIOUS
    <2>4. QED BY <2>1, <2>3
<1>3. OpToRel(<, Nat) = {ss \in Nat \X Nat : ss[1] < ss[2]}
    BY DEF OpToRel
<1>4. PICK m \in T : \A y \in T : <<y, m>> \notin OpToRel(<, Nat)
    <2>1. IsWellFoundedOn(OpToRel(<, Nat), Nat)
        BY NatLessThanWellFounded
    <2> HIDE DEF T
    <2>2. QED BY ONLY <1>2, <2>1, WFMin
<1>5. \A y \in T : m <= y
    <2> HIDE DEF T
    <2> SUFFICES ASSUME NEW y \in T PROVE ~(y < m)
        BY <1>2
    <2>1. <<y, m>> \notin {ss \in Nat \X Nat : ss[1] < ss[2]}
        BY <1>3, <1>4
    <2>2. QED BY <1>2, <2>1
<1>6. PICK z \in S : m = n - z
    OBVIOUS
<1>7. \A x \in S : x <= z
    BY <1>1, <1>5, <1>6
<1>8. \E x \in S : \A y \in S : x >= y
    BY <1>1, <1>7
<1>9. Max(S) \in S /\ \A y \in S : Max(S) >= y
    BY <1>8 DEF Max
<1>10. QED BY <1>1, <1>9

-----------------------------------------------------------------------------
\* A state that nothing acted on hides nothing.
LEMMA FreshIsHonest ==
    ASSUME Bounds, NEW s \in 0 .. MaxSource
    PROVE  Fresh(s) \in CycleState /\ Honest(Fresh(s))
BY DEF Bounds, CycleState, Fresh, Honest, Item

\* A process without a pass.
LEMMA NoPassHolds ==
    ASSUME Bounds
    PROVE  NoPass \in PassRecord /\ PassInv(NoPass)
<1>1. Fresh(0) \in CycleState
    BY FreshIsHonest DEF Bounds
<1>2. NoPass \in PassRecord
    BY <1>1 DEF Bounds, NoPass, PassRecord, Record
<1>3. NoPass.pc = "idle" /\ NoPass.running = {} /\ ~NoPass.reported
    BY DEF NoPass
<1>4. QED BY <1>2, <1>3 DEF PassInv, Working, OnPage

\* What a pass knows stays true when the checkpoint gets its next version.
LEMMA SavesKeepPass ==
    ASSUME TypeOK, NEW r \in PassRecord, PassInv(r),
           checkpoint' = checkpoint \/ checkpoint'.version = checkpoint.version + 1
    PROVE  PassInv(r)'
<1>1. checkpoint.version \in Nat /\ r.loaded.version \in Nat
    BY DEF TypeOK, Record, PassRecord
<1>2. Working(r)'
    BY <1>1 DEF PassInv, Working
<1>3. QED BY <1>2 DEF PassInv, OnPage

\* A step of one pass, with what it makes of the checkpoint, keeps the invariant when
\* the pass and the checkpoint do.
LEMMA PassStep ==
    ASSUME CycleInv, NEW p \in Proc, NEW r \in PassRecord, pass' = [pass EXCEPT ![p] = r],
           source' = source, checkpoint' \in Record, Honest(checkpoint'.state),
           checkpoint'.state.source = 0 => checkpoint'.state = Fresh(0),
           checkpoint' = checkpoint \/ checkpoint'.version = checkpoint.version + 1,
           PassInv(r)
    PROVE  CycleInv'
<1>1. TypeOK'
    BY DEF CycleInv, TypeOK
<1>2. ASSUME NEW q \in Proc PROVE PassInv(pass[q])'
    <2>1. PICK x : x = pass'[q]
        OBVIOUS
    <2>2. x \in PassRecord /\ PassInv(x)
        BY <2>1 DEF CycleInv, TypeOK
    <2>3. PassInv(x)'
        BY <2>2, SavesKeepPass DEF CycleInv
    <2>4. QED BY <2>1, <2>3 DEF PassInv, Working, OnPage
<1>3. QED BY <1>1, <1>2 DEF CycleInv

\* The same for the steps that leave the checkpoint alone.
LEMMA PassOnly ==
    ASSUME CycleInv, NEW p \in Proc, NEW r \in PassRecord, Step(p, r), PassInv(r)
    PROVE  CycleInv'
<1>1. checkpoint \in Record /\ Honest(checkpoint.state)
      /\ (checkpoint.state.source = 0 => checkpoint.state = Fresh(0))
    BY DEF CycleInv, TypeOK
<1>2. QED BY <1>1, PassStep DEF Step

\* A pass that ends without a trace.
LEMMA PassEnds ==
    ASSUME Bounds, CycleInv, NEW p \in Proc, Step(p, NoPass)
    PROVE  CycleInv'
BY NoPassHolds, PassOnly

-----------------------------------------------------------------------------
(***************************************************************************)
(* The steps of a pass (ScanCycle, scanCycleBody, scanFromPages).          *)
(***************************************************************************)

LEMMA BeginHolds ==
    ASSUME Bounds, CycleInv, NEW p \in Proc, Begin(p)
    PROVE  CycleInv'
<1>1. PICK r : r = [NoPass EXCEPT !.pc = "load", !.result = Fresh(source)]
    OBVIOUS
<1>2. source \in 1 .. MaxSource /\ Fresh(source) \in CycleState
    BY FreshIsHonest DEF CycleInv, TypeOK, Bounds
<1>3. r \in PassRecord
    BY <1>1, <1>2, NoPassHolds DEF PassRecord
<1>4. r.pc = "load" /\ r.result = Fresh(source) /\ r.running = {} /\ ~r.reported
    BY <1>1 DEF NoPass
<1>5. r.result = Fresh(r.result.source) /\ r.result.source >= 1
    BY <1>2, <1>4 DEF Fresh
<1>6. PassInv(r)
    BY <1>4, <1>5 DEF PassInv, Working, OnPage
<1>7. QED BY <1>1, <1>3, <1>6, PassOnly DEF Begin

\* What a pass resumes is honest and carries on the cycle that it loaded.
LEMMA ResumedGoesOn ==
    ASSUME Bounds, CycleInv, NEW s \in 1 .. MaxSource
    PROVE  LET r == Resumed(checkpoint, s) IN
           /\ r \in CycleState /\ Honest(r) /\ r.source = s /\ ~r.complete
           /\ GoesOnFrom(r, checkpoint.state)
<1>1. checkpoint.state \in CycleState /\ Honest(checkpoint.state)
    BY DEF CycleInv, TypeOK, Record
<1>2. CASE checkpoint.state.source = s /\ ~checkpoint.state.complete
    BY <1>1, <1>2 DEF Resumed, GoesOnFrom, CycleState
<1>3. CASE ~(checkpoint.state.source = s /\ ~checkpoint.state.complete)
    <2>1. Fresh(s) \in CycleState /\ Honest(Fresh(s))
        BY FreshIsHonest DEF Bounds
    <2>2. Fresh(s).source = s /\ ~Fresh(s).complete
        BY DEF Fresh
    <2>3. QED BY <1>3, <2>1, <2>2 DEF Resumed, GoesOnFrom
<1>4. QED BY <1>2, <1>3

LEMMA LoadHolds ==
    ASSUME Bounds, CycleInv, NEW p \in Proc, Load(p)
    PROVE  CycleInv'
<1>1. PICK q : q = pass[p]
    OBVIOUS
<1>2. q \in PassRecord /\ PassInv(q) /\ q.pc = "load"
    BY <1>1 DEF CycleInv, TypeOK, Load
<1>3. PICK s : s = Resumed(checkpoint, q.result.source)
    OBVIOUS
<1>4. q.result.source \in 1 .. MaxSource
    BY <1>2 DEF PassInv, PassRecord, CycleState
<1>5. /\ s \in CycleState /\ Honest(s) /\ s.source >= 1 /\ ~s.complete
      /\ GoesOnFrom(s, checkpoint.state)
    BY <1>3, <1>4, ResumedGoesOn
<1>6. PICK r : r = [q EXCEPT !.pc = "page", !.loaded = checkpoint, !.result = s]
    OBVIOUS
<1>7. checkpoint \in Record
    BY DEF CycleInv, TypeOK
<1>8. r \in PassRecord
    BY <1>2, <1>5, <1>6, <1>7 DEF PassRecord
<1>9. /\ r.pc = "page" /\ r.loaded = checkpoint /\ r.result = s
      /\ r.running = q.running /\ r.reported = q.reported
    BY <1>2, <1>6 DEF PassRecord
<1>10. Working(r)
    BY <1>5, <1>7, <1>9 DEF Working, Record
<1>11. PassInv(r)
    BY <1>2, <1>5, <1>9, <1>10 DEF PassInv, OnPage
<1>12. QED BY <1>1, <1>3, <1>6, <1>8, <1>11, PassOnly DEF Load

\* Time that runs down changes nothing else.
LEMMA ElapseHolds ==
    ASSUME Bounds, CycleInv, NEW p \in Proc, Elapse(p)
    PROVE  CycleInv'
<1>1. PICK q : q = pass[p]
    OBVIOUS
<1>2. q \in PassRecord /\ PassInv(q)
    BY <1>1 DEF CycleInv, TypeOK
<1>3. PICK b \in {"short", "none"} : Step(p, [q EXCEPT !.budget = b])
    BY <1>1 DEF Elapse
<1>4. PICK r : r = [q EXCEPT !.budget = b]
    OBVIOUS
<1>5. r \in PassRecord
    BY <1>2, <1>4 DEF PassRecord
<1>6. /\ r.pc = q.pc /\ r.loaded = q.loaded /\ r.result = q.result /\ r.hi = q.hi
      /\ r.running = q.running /\ r.started = q.started /\ r.accepted = q.accepted
      /\ r.failures = q.failures /\ r.reported = q.reported
    BY <1>2, <1>4 DEF PassRecord
<1>7. PassInv(r)
    BY <1>2, <1>6 DEF PassInv, Working, OnPage
<1>8. QED BY <1>3, <1>4, <1>5, <1>7, PassOnly

\* The pass whose work ends: it keeps what it loaded, and its result.
LEMMA WorkedHolds ==
    ASSUME Bounds, CycleInv, NEW p \in Proc, pass[p].pc \in {"page", "run"},
           NEW s \in CycleState, NEW e \in BOOLEAN,
           Step(p, [Worked(p) EXCEPT !.error = e, !.result = s]), Honest(s),
           s.source = pass[p].result.source, GoesOnFrom(s, pass[p].loaded.state)
    PROVE  CycleInv'
<1>1. PICK q : q = pass[p]
    OBVIOUS
<1>2. q \in PassRecord /\ PassInv(q)
    BY <1>1 DEF CycleInv, TypeOK
<1>3. PICK r : r = [NoPass EXCEPT !.pc = "commit", !.loaded = q.loaded, !.result = s,
                                  !.error = e]
    OBVIOUS
<1>4. r = [Worked(p) EXCEPT !.error = e, !.result = s]
    BY <1>1, <1>3 DEF Worked, NoPass
<1>5. r \in PassRecord
    BY <1>2, <1>3, NoPassHolds DEF PassRecord
<1>6. /\ r.pc = "commit" /\ r.loaded = q.loaded /\ r.result = s
      /\ r.running = {} /\ ~r.reported
    BY <1>3 DEF NoPass
<1>7. Working(r)
    BY <1>1, <1>2, <1>6 DEF PassInv, Working
<1>8. PassInv(r)
    BY <1>6, <1>7 DEF PassInv, OnPage
<1>9. QED BY <1>4, <1>5, <1>8, PassOnly

LEMMA ReadPageHolds ==
    ASSUME Bounds, CycleInv, NEW p \in Proc, ReadPage(p)
    PROVE  CycleInv'
<1>1. PICK q : q = pass[p]
    OBVIOUS
<1>2. q \in PassRecord /\ PassInv(q) /\ q.pc = "page"
    BY <1>1 DEF CycleInv, TypeOK, ReadPage
<1>3. /\ q.result \in CycleState /\ Honest(q.result) /\ q.result.source >= 1
      /\ GoesOnFrom(q.result, q.loaded.state) /\ ~q.result.complete
    BY <1>2 DEF PassInv, Working, PassRecord
<1>4. CASE q.budget = "none" \/ q.pages = MaxPages
    <2>1. PICK e \in BOOLEAN : e = (q.budget = "none")
        OBVIOUS
    <2>2. Step(p, [Worked(p) EXCEPT !.error = e])
        BY <1>1, <1>4, <2>1 DEF ReadPage
    <2>3. [Worked(p) EXCEPT !.error = e] = [Worked(p) EXCEPT !.error = e, !.result = q.result]
        BY <1>1, ZenonT(60) DEF Worked, NoPass
    <2>4. QED BY <1>1, <1>2, <1>3, <2>2, <2>3, WorkedHolds
<1>5. CASE ~(q.budget = "none" \/ q.pages = MaxPages)
    <2>1. PICK hi : hi = IF q.result.after + PageSize < Last THEN q.result.after + PageSize
                         ELSE Last
        OBVIOUS
    <2>2. PICK r : r = [q EXCEPT !.pc = "run", !.hi = hi, !.pages = @ + 1, !.running = {},
                                 !.started = {}, !.accepted = {}, !.failures = {}]
        OBVIOUS
    <2>3. Step(p, r)
        BY <1>1, <1>5, <2>1, <2>2 DEF ReadPage
    <2>4. hi \in 0 .. Last /\ q.result.after <= hi
        BY <1>3, <2>1 DEF Bounds, CycleState
    <2>5. q.pages + 1 \in 0 .. MaxPages
        BY <1>2, <1>5 DEF PassRecord, Bounds
    <2>6. r \in PassRecord
        BY <1>2, <2>2, <2>4, <2>5 DEF PassRecord
    <2>7. /\ r.pc = "run" /\ r.loaded = q.loaded /\ r.result = q.result /\ r.hi = hi
          /\ r.running = {} /\ r.started = {} /\ r.accepted = {} /\ r.failures = {}
          /\ r.reported = q.reported
        BY <1>2, <2>2 DEF PassRecord
    <2>8. [r.result EXCEPT !.failed = @ \/ r.failures # {}] = q.result
        BY <1>3, <2>7 DEF CycleState
    <2>9. OnPage(r)
        BY <1>3, <2>4, <2>7, <2>8 DEF OnPage
    <2>10. PassInv(r)
        BY <1>2, <2>7, <2>9 DEF PassInv, Working
    <2>11. QED BY <2>3, <2>6, <2>10, PassOnly
<1>6. QED BY <1>4, <1>5

LEMMA ReadFailsHolds ==
    ASSUME Bounds, CycleInv, NEW p \in Proc, NEW window \in BOOLEAN, ReadFails(p, window)
    PROVE  CycleInv'
<1>1. PICK q : q = pass[p]
    OBVIOUS
<1>2. q \in PassRecord /\ PassInv(q) /\ q.pc = "page"
    BY <1>1 DEF CycleInv, TypeOK, ReadFails
<1>3. /\ q.result \in CycleState /\ Honest(q.result)
      /\ GoesOnFrom(q.result, q.loaded.state) /\ ~q.result.complete
    BY <1>2 DEF PassInv, Working, PassRecord
<1>4. PICK ends \in BOOLEAN : ends = (window /\ q.budget # "none")
    OBVIOUS
<1>5. PICK s : s = [q.result EXCEPT !.complete = @ \/ ends, !.failed = @ \/ ends]
    OBVIOUS
<1>6. /\ s \in CycleState /\ s.source = q.result.source /\ s.after = q.result.after
      /\ s.did = q.result.did /\ s.bad = q.result.bad
      /\ s.complete = (q.result.complete \/ ends) /\ s.failed = (q.result.failed \/ ends)
    BY <1>3, <1>4, <1>5 DEF CycleState
<1>7. Honest(s) /\ GoesOnFrom(s, q.loaded.state)
    BY <1>3, <1>6 DEF Honest, GoesOnFrom
<1>8. Step(p, [Worked(p) EXCEPT !.error = TRUE, !.result.complete = @ \/ ends,
                                !.result.failed = @ \/ ends])
    BY <1>1, <1>4 DEF ReadFails
<1>9. [Worked(p) EXCEPT !.error = TRUE, !.result.complete = @ \/ ends,
                        !.result.failed = @ \/ ends]
        = [Worked(p) EXCEPT !.error = TRUE, !.result = s]
    <2>1. PICK w : w = Worked(p)
        OBVIOUS
    <2>2. w \in PassRecord /\ w.result = q.result
        BY <1>1, <1>2, <2>1, NoPassHolds, ZenonT(60) DEF Worked, NoPass, PassRecord
    <2>3. PICK x : x = [w EXCEPT !.error = TRUE]
        OBVIOUS
    <2>4. x \in PassRecord /\ x.result = q.result
        BY <2>2, <2>3 DEF PassRecord
    <2>5. [x EXCEPT !.result.complete = @ \/ ends, !.result.failed = @ \/ ends]
            = [x EXCEPT !.result = s]
        BY <1>3, <1>5, <2>4 DEF PassRecord, CycleState
    <2>6. QED BY <2>1, <2>3, <2>5
<1>10. QED BY <1>1, <1>2, <1>6, <1>7, <1>8, <1>9, WorkedHolds

-----------------------------------------------------------------------------
(***************************************************************************)
(* The actions of a page (runCyclePage, runParallelCyclePage).             *)
(***************************************************************************)

\* An action that starts is of a key of which no action runs.
LEMMA StartsAlone ==
    ASSUME Bounds, CycleInv, NEW p \in Proc, NEW i \in Item, StartAction(p, i)
    PROVE  \A j \in pass[p].running : KeyOf[j] # KeyOf[i]
<1>1. pass[p] \in PassRecord /\ i \in Startable(p)
      /\ Cardinality(pass[p].running) < Slots(p)
    BY DEF CycleInv, TypeOK, StartAction
<1>2. CASE p \in Parallel
    BY <1>1, <1>2 DEF Startable
<1>3. CASE p \notin Parallel
    <2>1. IsFiniteSet(pass[p].running)
        <3>1. IsFiniteSet(Item)
            BY FS_Interval DEF Item, Bounds
        <3>2. QED BY <1>1, <3>1, FS_Subset DEF PassRecord
    <2>2. Cardinality(pass[p].running) = 0
        BY <1>1, <1>3, <2>1, FS_CardinalityType DEF Slots
    <2>3. QED BY <2>1, <2>2, FS_EmptySet
<1>4. QED BY <1>2, <1>3

LEMMA StartActionHolds ==
    ASSUME Bounds, CycleInv, NEW p \in Proc, NEW i \in Item, StartAction(p, i)
    PROVE  CycleInv'
<1>1. PICK q : q = pass[p]
    OBVIOUS
<1>2. q \in PassRecord /\ PassInv(q) /\ q.pc = "run"
    BY <1>1 DEF CycleInv, TypeOK, StartAction
<1>3. PICK r : r = [q EXCEPT !.running = @ \cup {i}, !.started = @ \cup {i}]
    OBVIOUS
<1>4. Step(p, r)
    BY <1>1, <1>3 DEF StartAction
<1>5. r \in PassRecord
    BY <1>2, <1>3 DEF PassRecord
<1>6. /\ r.pc = q.pc /\ r.loaded = q.loaded /\ r.result = q.result /\ r.hi = q.hi
      /\ r.running = q.running \cup {i} /\ r.started = q.started \cup {i}
      /\ r.accepted = q.accepted /\ r.failures = q.failures /\ r.reported = q.reported
    BY <1>2, <1>3 DEF PassRecord
<1>7. i \in q.result.after + 1 .. q.hi
    BY <1>1 DEF StartAction, Startable, Page
<1>8. \A j, k \in r.running : KeyOf[j] = KeyOf[k] => j = k
    BY <1>1, <1>2, <1>6, StartsAlone DEF PassInv
<1>9. OnPage(r)
    BY <1>2, <1>6, <1>7 DEF PassInv, OnPage
<1>10. PassInv(r)
    BY <1>2, <1>6, <1>8, <1>9 DEF PassInv, Working
<1>11. QED BY <1>4, <1>5, <1>10, PassOnly

LEMMA StopPageHolds ==
    ASSUME Bounds, CycleInv, NEW p \in Proc, StopPage(p)
    PROVE  CycleInv'
<1>1. PICK q : q = pass[p]
    OBVIOUS
<1>2. q \in PassRecord /\ PassInv(q)
    BY <1>1 DEF CycleInv, TypeOK
<1>3. PICK r : r = [q EXCEPT !.stopped = TRUE, !.aborted = q.budget = "none"]
    OBVIOUS
<1>4. Step(p, r)
    BY <1>1, <1>3 DEF StopPage
<1>5. r \in PassRecord
    BY <1>2, <1>3 DEF PassRecord
<1>6. /\ r.pc = q.pc /\ r.loaded = q.loaded /\ r.result = q.result /\ r.hi = q.hi
      /\ r.running = q.running /\ r.started = q.started /\ r.accepted = q.accepted
      /\ r.failures = q.failures /\ r.reported = q.reported
    BY <1>2, <1>3 DEF PassRecord
<1>7. PassInv(r)
    BY <1>2, <1>6 DEF PassInv, Working, OnPage
<1>8. QED BY <1>4, <1>5, <1>7, PassOnly

\* An action that returns: a success is done, anything else is a failure (FinishAction).
LEMMA FinishActionHolds ==
    ASSUME Bounds, CycleInv, NEW p \in Proc, NEW i \in Item,
           NEW ok \in BOOLEAN, NEW permitted \in BOOLEAN, FinishAction(p, i, ok, permitted)
    PROVE  CycleInv'
<1>1. PICK q : q = pass[p]
    OBVIOUS
<1>2. q \in PassRecord /\ PassInv(q) /\ q.pc = "run" /\ i \in q.running
    BY <1>1 DEF CycleInv, TypeOK, FinishAction
<1>3. PICK interrupted \in BOOLEAN : interrupted = (q.budget = "none" \/ q.aborted)
    OBVIOUS
<1>4. PICK good \in BOOLEAN : good = (ok /\ ~interrupted)
    OBVIOUS
<1>5. PICK allowed \in BOOLEAN : allowed = (permitted /\ ~interrupted)
    OBVIOUS
<1>6. PICK s : s = [q.result EXCEPT !.did = IF good THEN @ \cup {i} ELSE @,
                                    !.bad = IF good THEN @ ELSE @ \cup {i}]
    OBVIOUS
<1>7. PICK r : r = [q EXCEPT
            !.running = @ \ {i},
            !.accepted = IF good \/ allowed THEN @ \cup {i} ELSE @,
            !.failures = IF good THEN @ ELSE @ \cup {i},
            !.result = s,
            !.stopped = @ \/ ~(good \/ allowed), !.aborted = @ \/ ~(good \/ allowed),
            !.error = @ \/ ~(good \/ allowed)]
    OBVIOUS
<1>8. q.result \in CycleState
    BY <1>2 DEF PassRecord
<1>9. r = [q EXCEPT
            !.running = @ \ {i},
            !.accepted = IF good \/ allowed THEN @ \cup {i} ELSE @,
            !.failures = IF good THEN @ ELSE @ \cup {i},
            !.result.did = IF good THEN @ \cup {i} ELSE @,
            !.result.bad = IF good THEN @ ELSE @ \cup {i},
            !.stopped = @ \/ ~(good \/ allowed), !.aborted = @ \/ ~(good \/ allowed),
            !.error = @ \/ ~(good \/ allowed)]
    <2>1. PICK x : x = [q EXCEPT
            !.running = @ \ {i},
            !.accepted = IF good \/ allowed THEN @ \cup {i} ELSE @,
            !.failures = IF good THEN @ ELSE @ \cup {i}]
        OBVIOUS
    <2>2. x \in PassRecord /\ x.result = q.result
        BY <1>2, <2>1 DEF PassRecord
    <2>3. [x EXCEPT !.result.did = IF good THEN @ \cup {i} ELSE @,
                    !.result.bad = IF good THEN @ ELSE @ \cup {i}] = [x EXCEPT !.result = s]
        BY <1>6, <1>8, <2>2 DEF PassRecord, CycleState
    <2>4. QED BY <1>2, <1>7, <2>1, <2>2, <2>3, ZenonT(60) DEF PassRecord
<1>10. Step(p, r)
    BY <1>1, <1>3, <1>4, <1>5, <1>9 DEF FinishAction
<1>11. /\ s \in CycleState /\ s.source = q.result.source /\ s.after = q.result.after
       /\ s.failed = q.result.failed /\ s.complete = q.result.complete
       /\ s.did = IF good THEN q.result.did \cup {i} ELSE q.result.did
       /\ s.bad = IF good THEN q.result.bad ELSE q.result.bad \cup {i}
    BY <1>6, <1>8 DEF CycleState
<1>12. r \in PassRecord
    BY <1>2, <1>7, <1>11, ZenonT(60) DEF PassRecord
<1>13. /\ r.pc = "run" /\ r.loaded = q.loaded /\ r.result = s /\ r.hi = q.hi
       /\ r.running = q.running \ {i} /\ r.started = q.started
       /\ r.accepted = IF good \/ allowed THEN q.accepted \cup {i} ELSE q.accepted
       /\ r.failures = IF good THEN q.failures ELSE q.failures \cup {i}
       /\ r.reported = q.reported
    BY <1>2, <1>7 DEF PassRecord
<1>14. Working(r)
    BY <1>2, <1>11, <1>13 DEF PassInv, Working, GoesOnFrom
<1>15. OnPage(r)
    <2>1. PICK t : t = [q.result EXCEPT !.failed = @ \/ q.failures # {}]
        OBVIOUS
    <2>2. /\ t.after = q.result.after /\ t.did = q.result.did /\ t.bad = q.result.bad
          /\ t.complete = q.result.complete
          /\ t.failed <=> (q.result.failed \/ q.failures # {})
        BY <1>8, <2>1 DEF CycleState
    <2>3. PICK u : u = [s EXCEPT !.failed = @ \/ r.failures # {}]
        OBVIOUS
    <2>4. /\ u.after = s.after /\ u.did = s.did /\ u.bad = s.bad
          /\ u.complete = s.complete
          /\ u.failed <=> (s.failed \/ r.failures # {})
        BY <1>11, <2>3 DEF CycleState
    <2>5. Honest(t)
        BY <1>2, <2>1 DEF PassInv, OnPage
    <2>6. Honest(u)
        <3>1. u.bad # {} => u.failed
            BY <1>11, <1>13, <2>2, <2>4, <2>5 DEF Honest
        <3>2. ASSUME ~u.failed PROVE ~t.failed /\ t.did \subseteq u.did
            BY <3>2, <1>11, <1>13, <2>2, <2>4
        <3>3. ASSUME ~u.failed
              PROVE  1 .. u.after \subseteq u.did /\ (u.complete => Item \subseteq u.did)
            <4>1. ~t.failed /\ t.did \subseteq u.did
                BY <3>2, <3>3
            <4>2. 1 .. t.after \subseteq t.did /\ (t.complete => Item \subseteq t.did)
                BY <2>5, <4>1 DEF Honest
            <4>3. u.after = t.after /\ u.complete = t.complete
                BY <1>11, <2>2, <2>4
            <4>4. QED BY <4>1, <4>2, <4>3
        <3>4. \A j \in 1 .. u.after : j \in u.did \cup u.bad
            BY <1>11, <2>2, <2>4, <2>5 DEF Honest
        <3>5. QED BY <3>1, <3>3, <3>4 DEF Honest
    <2>7. /\ r.accepted \subseteq r.result.did \cup r.failures
          /\ r.failures \subseteq r.result.bad
        BY <1>2, <1>11, <1>13 DEF PassInv, OnPage
    <2>8. /\ r.result.after <= r.hi /\ r.started \subseteq r.result.after + 1 .. r.hi
          /\ r.running \subseteq r.started
        BY <1>2, <1>11, <1>13 DEF PassInv, OnPage
    <2>9. QED BY <1>13, <2>3, <2>6, <2>7, <2>8 DEF OnPage
<1>16. PassInv(r)
    BY <1>2, <1>13, <1>14, <1>15 DEF PassInv
<1>17. QED BY <1>10, <1>12, <1>16, PassOnly

LEMMA NotReservedHolds ==
    ASSUME Bounds, CycleInv, NEW p \in Proc, NEW i \in Item, NotReserved(p, i)
    PROVE  CycleInv'
<1>1. PICK q : q = pass[p]
    OBVIOUS
<1>2. q \in PassRecord /\ PassInv(q)
    BY <1>1 DEF CycleInv, TypeOK
<1>3. PICK ended \in BOOLEAN : ended = (q.budget = "none" \/ q.aborted)
    OBVIOUS
<1>4. PICK r : r = [q EXCEPT !.running = @ \ {i}, !.stopped = TRUE, !.aborted = ended,
                             !.error = @ \/ ended]
    OBVIOUS
<1>5. Step(p, r)
    BY <1>1, <1>3, <1>4 DEF NotReserved
<1>6. r \in PassRecord
    BY <1>2, <1>4 DEF PassRecord
<1>7. /\ r.pc = q.pc /\ r.loaded = q.loaded /\ r.result = q.result /\ r.hi = q.hi
      /\ r.running = q.running \ {i} /\ r.started = q.started /\ r.accepted = q.accepted
      /\ r.failures = q.failures /\ r.reported = q.reported
    BY <1>2, <1>4 DEF PassRecord
<1>8. PassInv(r)
    BY <1>2, <1>7 DEF PassInv, Working, OnPage
<1>9. QED BY <1>5, <1>6, <1>8, PassOnly

-----------------------------------------------------------------------------
(***************************************************************************)
(* The end of a page.                                                      *)
(***************************************************************************)

\* The cursor moves over accepted items only.
LEMMA PrefixIsAccepted ==
    ASSUME Bounds, CycleInv, NEW p \in Proc, pass[p].pc = "run"
    PROVE  /\ Prefix(p) \in pass[p].result.after .. pass[p].hi
           /\ pass[p].result.after + 1 .. Prefix(p) \subseteq pass[p].accepted
<1>1. PICK q : q = pass[p]
    OBVIOUS
<1>2. q \in PassRecord /\ q.result.after <= q.hi
    BY <1>1 DEF CycleInv, TypeOK, PassInv, OnPage
<1>3. PICK a : a = q.result.after
    OBVIOUS
<1>4. a \in 0 .. Last /\ q.hi \in 0 .. Last /\ Last \in Nat
    BY <1>2, <1>3 DEF PassRecord, CycleState, Bounds
<1>5. PICK S : S = {a} \cup {i \in a + 1 .. q.hi : a + 1 .. i \subseteq q.accepted}
    OBVIOUS
<1>6. S \subseteq 0 .. Last /\ S # {} /\ \A x \in S : a <= x /\ x <= q.hi
    BY <1>2, <1>3, <1>4, <1>5
<1>7. PICK m : m = Prefix(p)
    OBVIOUS
<1>8. m = Max(S)
    BY <1>1, <1>3, <1>5, <1>7 DEF Prefix, Page
<1>9. m \in S
    BY <1>4, <1>6, <1>8, MaxOf
<1>10. m \in a .. q.hi
    <2>1. m \in 0 .. Last /\ a <= m /\ m <= q.hi
        BY <1>6, <1>9
    <2>2. QED BY <1>4, <2>1
<1>11. a + 1 .. m \subseteq q.accepted
    BY <1>4, <1>5, <1>9
<1>12. QED BY <1>1, <1>3, <1>7, <1>10, <1>11

\* What the end of a page makes of the state of a cycle.
LEMMA PageIsHonest ==
    ASSUME Bounds, CycleInv, NEW p \in Proc, pass[p].pc = "run",
           NEW c \in BOOLEAN, c => Prefix(p) = Last,
           NEW s, s = [pass[p].result EXCEPT !.after = Prefix(p),
                             !.failed = @ \/ pass[p].failures # {}, !.complete = c]
    PROVE  /\ s \in CycleState /\ Honest(s) /\ s.source = pass[p].result.source
           /\ s.complete = c /\ GoesOnFrom(s, pass[p].loaded.state)
<1>1. PICK q : q = pass[p]
    OBVIOUS
<1>2. q \in PassRecord /\ PassInv(q) /\ q.pc = "run" /\ q.result \in CycleState
    BY <1>1 DEF CycleInv, TypeOK, PassRecord
<1>3. PICK b : b = Prefix(p)
    OBVIOUS
<1>4. /\ b \in q.result.after .. q.hi /\ q.hi \in 0 .. Last /\ q.result.after \in 0 .. Last
      /\ q.result.after + 1 .. b \subseteq q.accepted /\ Last \in Nat
    BY <1>1, <1>2, <1>3, PrefixIsAccepted DEF PassRecord, CycleState, Bounds
<1>5. /\ s \in CycleState /\ s.source = q.result.source /\ s.after = b
      /\ s.did = q.result.did /\ s.bad = q.result.bad /\ s.complete = c
      /\ s.failed <=> (q.result.failed \/ q.failures # {})
    <2>1. b \in 0 .. Last
        BY <1>4
    <2>2. PICK f \in BOOLEAN : f = (q.failures # {})
        OBVIOUS
    <2>3. s = [q.result EXCEPT !.after = b, !.failed = @ \/ f, !.complete = c]
        BY <1>1, <1>3, <2>2
    <2>4. QED BY <1>2, <2>1, <2>2, <2>3 DEF CycleState
<1>6. PICK t : t = [q.result EXCEPT !.failed = @ \/ q.failures # {}]
    OBVIOUS
<1>7. /\ t.after = q.result.after /\ t.did = q.result.did /\ t.bad = q.result.bad
      /\ t.failed <=> (q.result.failed \/ q.failures # {})
    BY <1>2, <1>6 DEF CycleState
<1>8. /\ Honest(t) /\ q.accepted \subseteq q.result.did \cup q.failures
      /\ q.failures \subseteq q.result.bad
    BY <1>2, <1>6 DEF PassInv, OnPage
<1>9. \A i \in 1 .. b : i \in 1 .. q.result.after \/ i \in q.accepted
    BY <1>4
<1>10. Honest(s)
    <2>1. s.bad # {} => s.failed
        BY <1>5, <1>7, <1>8 DEF Honest
    <2>2. \A i \in 1 .. b : i \in q.result.did \cup q.result.bad
        BY <1>7, <1>8, <1>9 DEF Honest
    <2>3. ASSUME ~s.failed PROVE 1 .. b \subseteq q.result.did
        BY <2>3, <1>5, <1>7, <1>8, <1>9 DEF Honest
    <2>4. c => b = Last
        BY <1>3
    <2>5. QED BY <1>5, <2>1, <2>2, <2>3, <2>4 DEF Honest, Item
<1>11. GoesOnFrom(s, q.loaded.state)
    <2>1. GoesOnFrom(q.result, q.loaded.state)
        BY <1>2 DEF PassInv, Working
    <2>2. q.loaded.state.after \in Int
        BY <1>2 DEF PassRecord, Record, CycleState
    <2>3. QED BY <1>4, <1>5, <2>1, <2>2 DEF GoesOnFrom
<1>12. QED BY <1>1, <1>5, <1>10, <1>11

LEMMA EndPageHolds ==
    ASSUME Bounds, CycleInv, NEW p \in Proc, EndPage(p)
    PROVE  CycleInv'
<1>1. PICK q : q = pass[p]
    OBVIOUS
<1>2. q \in PassRecord /\ PassInv(q) /\ q.pc = "run" /\ q.running = {}
    BY <1>1 DEF CycleInv, TypeOK, EndPage
<1>3. PICK whole \in BOOLEAN : whole = (Prefix(p) = q.hi /\ ~q.stopped)
    OBVIOUS
<1>4. PICK late \in BOOLEAN : late = (q.budget = "none")
    OBVIOUS
<1>5. PICK c \in BOOLEAN : c = (whole /\ ~late /\ q.hi = Last)
    OBVIOUS
<1>6. PICK f \in BOOLEAN : f = (q.failures # {})
    OBVIOUS
<1>7. PICK b : b = Prefix(p)
    OBVIOUS
<1>8. PICK s : s = [q.result EXCEPT !.after = b, !.failed = @ \/ f, !.complete = c]
    OBVIOUS
<1>9. /\ s \in CycleState /\ Honest(s) /\ s.source = q.result.source
      /\ s.complete = c /\ GoesOnFrom(s, q.loaded.state)
    <2>1. c => Prefix(p) = Last
        BY <1>3, <1>5
    <2>2. s = [pass[p].result EXCEPT !.after = Prefix(p),
                    !.failed = @ \/ pass[p].failures # {}, !.complete = c]
        BY <1>1, <1>6, <1>7, <1>8
    <2>3. QED BY <1>1, <1>2, <2>1, <2>2, PageIsHonest, ZenonT(60)
\* The end of a page changes the result of the pass, and its error.
<1>10. ASSUME NEW x \in PassRecord, x.result = q.result
       PROVE  [x EXCEPT !.error = @ \/ late, !.result.after = b, !.result.failed = @ \/ f,
                        !.result.complete = c]
              = [x EXCEPT !.error = @ \/ late, !.result = s]
    <2>1. PICK y : y = [x EXCEPT !.error = @ \/ late]
        OBVIOUS
    <2>2. y \in PassRecord /\ y.result = q.result
        BY <1>10, <2>1 DEF PassRecord
    <2>3. [y EXCEPT !.result.after = b, !.result.failed = @ \/ f, !.result.complete = c]
              = [y EXCEPT !.result = s]
        BY <1>8, <1>9, <2>2 DEF PassRecord, CycleState
    <2>4. QED BY <1>10, <2>1, <2>2, <2>3
<1>11. CASE whole /\ ~late /\ q.hi < Last
    <2>1. PICK x : x = [q EXCEPT !.pc = "page"]
        OBVIOUS
    <2>2. x \in PassRecord /\ x.result = q.result
        BY <1>2, <2>1 DEF PassRecord
    <2>3. PICK r : r = [x EXCEPT !.error = @ \/ late, !.result = s]
        OBVIOUS
    <2>4. Step(p, r)
        BY <1>1, <1>3, <1>4, <1>5, <1>6, <1>7, <1>10, <1>11, <2>1, <2>2, <2>3, ZenonT(60) DEF EndPage
    <2>5. r \in PassRecord
        BY <1>9, <2>2, <2>3 DEF PassRecord
    <2>6. /\ r.pc = "page" /\ r.loaded = q.loaded /\ r.result = s
          /\ r.running = {} /\ r.reported = q.reported
        BY <1>2, <2>1, <2>3 DEF PassRecord
    <2>7. ~s.complete
        BY <1>2, <1>5, <1>9, <1>11 DEF PassRecord, Bounds
    <2>8. Working(r)
        BY <1>2, <1>9, <2>6, <2>7 DEF PassInv, Working
    <2>9. ~q.reported
        BY <1>2 DEF PassInv
    <2>10. PassInv(r)
        BY <1>9, <2>6, <2>8, <2>9 DEF PassInv, OnPage
    <2>11. QED BY <2>4, <2>5, <2>10, PassOnly
<1>12. CASE ~(whole /\ ~late /\ q.hi < Last)
    <2>1. PICK w : w = Worked(p)
        OBVIOUS
    <2>2. w \in PassRecord /\ w.result = q.result
        BY <1>1, <1>2, <2>1, NoPassHolds, ZenonT(60) DEF Worked, NoPass, PassRecord
    <2>3. Step(p, [w EXCEPT !.error = @ \/ late, !.result = s])
        BY <1>1, <1>3, <1>4, <1>5, <1>6, <1>7, <1>10, <1>12, <2>1, <2>2, ZenonT(60) DEF EndPage
    <2>4. PICK e \in BOOLEAN : e = (w.error \/ late)
        OBVIOUS
    <2>5. Step(p, [Worked(p) EXCEPT !.error = e, !.result = s])
        BY <2>1, <2>3, <2>4
    <2>6. QED BY <1>1, <1>2, <1>9, <2>5, WorkedHolds
<1>13. QED BY <1>11, <1>12

-----------------------------------------------------------------------------
(***************************************************************************)
(* The checkpoint.                                                         *)
(***************************************************************************)

\* A save writes what the pass has, when nobody saved since it loaded.
LEMMA SaveHolds ==
    ASSUME Bounds, CycleInv, NEW p \in Proc,
           NEW committed \in BOOLEAN, NEW answered \in BOOLEAN, Save(p, committed, answered)
    PROVE  /\ CycleInv'
           /\ checkpoint' = checkpoint \/ GoesOnFrom(checkpoint'.state, checkpoint.state)
<1>1. PICK q : q = pass[p]
    OBVIOUS
<1>2. q \in PassRecord /\ PassInv(q) /\ q.pc = "commit" /\ q.result \in CycleState
    BY <1>1 DEF CycleInv, TypeOK, Save, PassRecord
<1>3. /\ Honest(q.result) /\ q.result.source >= 1 /\ GoesOnFrom(q.result, q.loaded.state)
      /\ q.loaded.version = checkpoint.version => q.loaded.state = checkpoint.state
    BY <1>2 DEF PassInv, Working
<1>4. PICK same \in BOOLEAN : same = (Encoded(q.result) = Encoded(q.loaded.state))
    OBVIOUS
<1>5. PICK wins \in BOOLEAN : wins = (committed /\ checkpoint.version = q.loaded.version)
    OBVIOUS
<1>6. PICK saved \in BOOLEAN : saved = (same \/ (wins /\ answered))
    OBVIOUS
<1>7. PICK r : r = Returned(p, saved)
    OBVIOUS
<1>8. /\ pass' = [pass EXCEPT ![p] = r] /\ source' = source
      /\ checkpoint' = IF wins /\ ~same
                       THEN [version |-> checkpoint.version + 1, state |-> q.result]
                       ELSE checkpoint
      /\ checkpoint.version < MaxVersion
    BY <1>1, <1>4, <1>5, <1>6, <1>7 DEF Save
<1>9. /\ checkpoint \in Record /\ Honest(checkpoint.state)
      /\ checkpoint.state.source = 0 => checkpoint.state = Fresh(0)
    BY DEF CycleInv, TypeOK
<1>10. r \in PassRecord /\ PassInv(r)
    <2>1. CASE r = NoPass
        BY <2>1, NoPassHolds
    <2>2. CASE r # NoPass
        <3>1. r = [NoPass EXCEPT !.result = q.result, !.reported = TRUE] /\ ~q.result.failed
            BY <1>1, <1>7, <2>2 DEF Returned
        <3>2. r \in PassRecord
            BY <1>2, <3>1, NoPassHolds DEF PassRecord
        <3>3. r.pc = "idle" /\ r.result = q.result /\ r.running = {} /\ r.reported
            BY <3>1 DEF NoPass
        <3>4. PassInv(r)
            BY <1>3, <3>1, <3>3 DEF PassInv, Working, OnPage
        <3>5. QED BY <3>2, <3>4
    <2>3. QED BY <2>1, <2>2
<1>11. CASE wins /\ ~same
    <2>1. /\ checkpoint'.version = checkpoint.version + 1 /\ checkpoint'.state = q.result
          /\ checkpoint' = [version |-> checkpoint.version + 1, state |-> q.result]
        BY <1>8, <1>11
    <2>2. checkpoint' \in Record
        BY <1>2, <1>8, <1>9, <2>1 DEF Record, Bounds
    <2>3. CycleInv'
        <3>1. Honest(checkpoint'.state) /\ checkpoint'.state.source # 0
            BY <1>2, <1>3, <2>1 DEF CycleState
        <3>2. QED BY <1>8, <1>10, <2>1, <2>2, <3>1, PassStep
    <2>4. GoesOnFrom(checkpoint'.state, checkpoint.state)
        BY <1>3, <1>5, <1>11, <2>1
    <2>5. QED BY <2>3, <2>4
<1>12. CASE ~(wins /\ ~same)
    <2>1. checkpoint' = checkpoint
        BY <1>8, <1>12
    <2>2. QED BY <1>8, <1>9, <1>10, <2>1, PassStep
<1>13. QED BY <1>11, <1>12

\* The application's steps leave the passes alone (ChangeSource, Invalidate).
LEMMA ApplicationHolds ==
    ASSUME Bounds, CycleInv, ChangeSource \/ Invalidate
    PROVE  /\ CycleInv'
           /\ checkpoint' = checkpoint \/ GoesOnFrom(checkpoint'.state, checkpoint.state)
<1>1. CASE ChangeSource
    BY <1>1 DEF ChangeSource, CycleInv, TypeOK, Bounds, PassInv, Working, OnPage
<1>2. CASE Invalidate
    <2>1. /\ checkpoint' = [version |-> checkpoint.version + 1, state |-> Fresh(0)]
          /\ checkpoint.version < MaxVersion /\ checkpoint.state # Fresh(0)
          /\ pass' = pass /\ source' = source
        BY <1>2 DEF Invalidate, Bounds
    <2>2. Fresh(0) \in CycleState /\ Honest(Fresh(0)) /\ Fresh(0).source = 0
        BY FreshIsHonest DEF Bounds, Fresh
    <2>3. checkpoint'.version = checkpoint.version + 1 /\ checkpoint'.state = Fresh(0)
        BY <2>1
    <2>4. checkpoint' \in Record
        BY <2>1, <2>2 DEF CycleInv, TypeOK, Record, Bounds
    <2>5. TypeOK'
        BY <2>1, <2>4 DEF CycleInv, TypeOK
    <2>6. ASSUME NEW q \in Proc PROVE PassInv(pass[q])'
        <3>1. PICK x : x = pass[q]
            OBVIOUS
        <3>2. x \in PassRecord /\ PassInv(x)
            BY <3>1 DEF CycleInv, TypeOK
        <3>3. PassInv(x)'
            BY <2>3, <3>2, SavesKeepPass DEF CycleInv
        <3>4. QED BY <2>1, <3>1, <3>3 DEF PassInv, Working, OnPage
    <2>7. CycleInv'
        <3>1. checkpoint'.state = Fresh(0)
            BY <2>3
        <3>2. Honest(checkpoint'.state)
            BY <2>2, <3>1
        <3>3. \A q \in Proc : PassInv(pass[q])'
            BY <2>6
        <3>4. QED BY <2>5, <3>1, <3>2, <3>3 DEF CycleInv
    <2>8. GoesOnFrom(checkpoint'.state, checkpoint.state)
        BY <2>1, <2>2, <2>3 DEF GoesOnFrom, CycleInv
    <2>9. QED BY <2>7, <2>8
<1>3. QED BY <1>1, <1>2

-----------------------------------------------------------------------------
(***************************************************************************)
(* The theorems.                                                           *)
(***************************************************************************)

LEMMA CycleInit ==
    ASSUME Bounds, Init
    PROVE  CycleInv
<1>1. /\ source = 1 /\ checkpoint = [version |-> 0, state |-> Fresh(0)]
      /\ pass = [p \in Proc |-> NoPass]
    BY DEF Init
<1>2. Fresh(0) \in CycleState /\ Honest(Fresh(0))
    BY FreshIsHonest DEF Bounds
<1>3. source \in 1 .. MaxSource /\ checkpoint \in Record
    BY <1>1, <1>2 DEF Record, Bounds
<1>4. NoPass \in PassRecord /\ PassInv(NoPass)
    BY NoPassHolds
<1>5. QED BY <1>1, <1>2, <1>3, <1>4 DEF CycleInv, TypeOK

\* Every step keeps the invariant, and one that writes the checkpoint carries it on.
LEMMA CycleStep ==
    ASSUME Bounds, CycleInv, [Next]_vars
    PROVE  /\ CycleInv'
           /\ checkpoint' = checkpoint \/ GoesOnFrom(checkpoint'.state, checkpoint.state)
<1>1. CASE UNCHANGED vars
    BY <1>1 DEF vars, CycleInv, TypeOK, PassInv, Working, OnPage
<1>2. ASSUME NEW p \in Proc,
             \/ Begin(p) \/ Load(p) \/ LoadFails(p) \/ Elapse(p) \/ ReadPage(p)
             \/ \E window \in BOOLEAN : ReadFails(p, window)
             \/ \E i \in Item : StartAction(p, i) \/ NotReserved(p, i)
                                \/ \E ok, permitted \in BOOLEAN : FinishAction(p, i, ok, permitted)
             \/ StopPage(p) \/ EndPage(p) \/ ParentEnds(p) \/ Crash(p)
      PROVE  CycleInv' /\ checkpoint' = checkpoint
    <2>1. CycleInv'
        <3>1. CASE LoadFails(p) \/ ParentEnds(p) \/ Crash(p)
            BY <3>1, PassEnds DEF LoadFails, ParentEnds, Crash
        <3>2. QED
            BY <1>2, <3>1, BeginHolds, LoadHolds, ElapseHolds, ReadPageHolds, ReadFailsHolds,
               StartActionHolds, NotReservedHolds, FinishActionHolds, StopPageHolds, EndPageHolds
    <2>2. checkpoint' = checkpoint
        BY <1>2, ZenonT(60) DEF Step, Begin, Load, LoadFails, Elapse, ReadPage, ReadFails, StartAction,
                    NotReserved, FinishAction, StopPage, EndPage, ParentEnds, Crash
    <2>3. QED BY <2>1, <2>2
<1>3. ASSUME NEW p \in Proc, NEW committed \in BOOLEAN, NEW answered \in BOOLEAN,
             Save(p, committed, answered)
      PROVE  /\ CycleInv'
             /\ checkpoint' = checkpoint \/ GoesOnFrom(checkpoint'.state, checkpoint.state)
    BY <1>3, SaveHolds
<1>4. CASE ChangeSource \/ Invalidate
    BY <1>4, ApplicationHolds
<1>5. CASE Next
    BY <1>2, <1>3, <1>4, <1>5 DEF Next
<1>6. QED BY <1>1, <1>5

\* The inductive invariant holds of every behaviour (ScanCycle, ScanCycleParallel).
THEOREM CycleInvariance ==
    ASSUME Bounds
    PROVE  Spec => []CycleInv
<1>1. Init => CycleInv
    BY CycleInit
<1>2. CycleInv /\ [Next]_vars => CycleInv'
    BY CycleStep
<1>3. QED BY <1>1, <1>2, PTL DEF Spec

\* What is stored, and what a cycle reports as done, left no item out and hides no
\* failure; actions of a key exclude one another, and none runs when a pass saves
\* (scanCycleBody, runParallelCyclePage).
LEMMA InvMeans ==
    ASSUME CycleInv
    PROVE  CyclesAreHonest /\ ActionsAreExclusive
<1>1. CyclesAreHonest
    BY DEF CycleInv, PassInv, CyclesAreHonest
<1>2. ActionsAreExclusive
    BY DEF CycleInv, PassInv, ActionsAreExclusive
<1>3. QED BY <1>1, <1>2

THEOREM CyclesAreHonestAlways ==
    ASSUME Bounds
    PROVE  Spec => [](CyclesAreHonest /\ ActionsAreExclusive)
<1>1. CycleInv => CyclesAreHonest /\ ActionsAreExclusive
    BY InvMeans
<1>2. QED BY <1>1, CycleInvariance, PTL

\* A save never sets an unfinished cycle back (Save, ValidateCycleTransition).
THEOREM SavesGoForward ==
    ASSUME Bounds
    PROVE  Spec => CyclesGoForward
<1>1. CycleInv /\ [Next]_vars => [GoesOnFrom(checkpoint'.state, checkpoint.state)]_checkpoint
    BY CycleStep
<1>2. QED BY <1>1, CycleInvariance, PTL DEF Spec, CyclesGoForward
=============================================================================
