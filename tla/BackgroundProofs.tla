-------------------------- MODULE BackgroundProofs --------------------------
(***************************************************************************)
(* The background work as a whole: what OutboxProofs shows of any outbox   *)
(* and ScanCycleProofs of any scan cycle is stated of Background, and the  *)
(* watch set is shown to tell its consumer the truth.                      *)
(***************************************************************************)
EXTENDS Background, FiniteSetTheorems, SequenceTheorems, TLAPS

-----------------------------------------------------------------------------
(***************************************************************************)
(* The outbox with stalls.                                                 *)
(***************************************************************************)

\* A step of Background is at most one of the outbox with stalls.
LEMMA StallsMove ==
    ASSUME [BackgroundNext]_backgroundVars
    PROVE  [Stalls!Next]_(Stalls!vars)
  BY DEF BackgroundNext, backgroundVars, Only, stallVars, Stalls!vars

\* Its invariant holds at the start, and every step keeps it.
LEMMA StallsInvariance == BackgroundSpec => []Stalls!IndInv
  <1>1. BackgroundInit => Stalls!IndInv
    BY OutboxAssumption, TimingAssumption, AttemptsAssumption, StallsAssumption, Stalls!Initially
    DEF BackgroundInit
  <1>2. Stalls!IndInv /\ [BackgroundNext]_backgroundVars => Stalls!IndInv'
    BY OutboxAssumption, TimingAssumption, AttemptsAssumption, StallsAssumption, StallsMove,
       Stalls!Inductive
  <1> QED
    BY <1>1, <1>2, PTL DEF BackgroundSpec

\* Also when processes stall past their leases and dead letters are purged, a key's
\* messages are delivered in order, none is lost and a lease keeps its holder (Claim,
\* Acknowledge, Retry, Purge).
THEOREM StallsDoNoHarm == BackgroundSpec => StallsAreSafe
  <1>1. Stalls!IndInv /\ [BackgroundNext]_backgroundVars =>
           [Stalls!Next]_(Stalls!vars) /\ Stalls!IndInv
    BY StallsMove
  <1>2. Stalls!IndInv /\ [BackgroundNext]_backgroundVars =>
           [\A w \in Worker, n \in Msg :
               atS[w] = "claimed" /\ atS'[w] = "handling" /\ Stalls!Committed(n)
                   /\ KeyOf[n] = KeyOf[msgS[w]] /\ seqS[n] < seqS[msgS[w]] =>
                       n \in succeededS \cup purgedS]_(Stalls!vars)
    BY <1>1, OutboxAssumption, TimingAssumption, AttemptsAssumption, StallsAssumption,
       Stalls!CallsInOrder
  <1>3. Stalls!IndInv /\ [BackgroundNext]_backgroundVars =>
           [\A m \in Msg : statusS[m] = "visible" /\ statusS'[m] # "visible" =>
                              m \in succeededS \cup purgedS']_(Stalls!vars)
    BY <1>1, OutboxAssumption, TimingAssumption, AttemptsAssumption, StallsAssumption,
       Stalls!LeavesDelivered
  <1>4. Stalls!IndInv /\ [BackgroundNext]_backgroundVars =>
           [\A w \in Worker : atS[w] \in Stalls!Busy /\ atS'[w] \in Stalls!Busy
                   /\ Stalls!Valid(w) /\ leaseS[msgS[w]] > 1 =>
               Stalls!Valid(w)' \/ msgS[w] \in purgedS']_(Stalls!vars)
    BY <1>1, OutboxAssumption, TimingAssumption, AttemptsAssumption, StallsAssumption,
       Stalls!KeepsLease
  <1> QED
    BY <1>2, <1>3, <1>4, StallsInvariance, PTL
    DEF BackgroundSpec, StallsAreSafe, Stalls!DeliveredInOrder, Stalls!NeverLost,
        Stalls!LeaseIsKept

-----------------------------------------------------------------------------
(***************************************************************************)
(* The scan cycles.                                                        *)
(***************************************************************************)

\* The three uses of a scan cycle.
CyclesInv == Pages!CycleInv /\ Passes!CycleInv /\ Inputs!CycleInv

\* A step of Background is at most one of each of them.
LEMMA CyclesMove ==
    ASSUME [BackgroundNext]_backgroundVars
    PROVE  /\ [Pages!Next]_(Pages!vars) /\ [Passes!Next]_(Passes!vars)
           /\ [Inputs!Next]_(Inputs!vars)
  BY DEF BackgroundNext, backgroundVars, Only, pagesVars, passesVars, inputsVars,
         Pages!vars, Passes!vars, Inputs!vars

\* The inductive invariant of each use (ScanCycle, ScanCycleParallel).
LEMMA CyclesInvariance == BackgroundSpec => []CyclesInv
  <1>1. BackgroundInit => CyclesInv
    BY CyclesAssumption, Pages!CycleInit, Passes!CycleInit, Inputs!CycleInit
    DEF BackgroundInit, CyclesInv
  <1>2. CyclesInv /\ [BackgroundNext]_backgroundVars => CyclesInv'
    BY CyclesAssumption, CyclesMove, Pages!CycleStep, Passes!CycleStep, Inputs!CycleStep
    DEF CyclesInv
  <1> QED
    BY <1>1, <1>2, PTL DEF BackgroundSpec

\* A stored checkpoint, and every success that a cycle reports, leaves out no item and
\* forgets no failure; no two actions of one key overlap in a pass (scanCycleBody,
\* runParallelCyclePage).
THEOREM CyclesAreHonest == BackgroundSpec => []CyclesHold
  <1>1. CyclesInv => CyclesHold
    BY Pages!InvMeans, Passes!InvMeans, Inputs!InvMeans DEF CyclesInv, CyclesHold
  <1> QED
    BY <1>1, CyclesInvariance, PTL

\* A save never sets an unfinished cycle back (Save, ValidateCycleTransition).
THEOREM CyclesContinue == BackgroundSpec => CyclesGoForward
  <1>1. CyclesInv /\ [BackgroundNext]_backgroundVars
          => /\ [Pages!GoesOnFrom(checkpointP'.state, checkpointP.state)]_checkpointP
             /\ [Passes!GoesOnFrom(checkpointO'.state, checkpointO.state)]_checkpointO
             /\ [Inputs!GoesOnFrom(checkpointI'.state, checkpointI.state)]_checkpointI
    BY CyclesAssumption, CyclesMove, Pages!CycleStep, Passes!CycleStep, Inputs!CycleStep
    DEF CyclesInv
  <1> QED
    BY <1>1, CyclesInvariance, PTL
    DEF BackgroundSpec, CyclesGoForward, Pages!CyclesGoForward, Passes!CyclesGoForward,
        Inputs!CyclesGoForward

-----------------------------------------------------------------------------
(***************************************************************************)
(* The watch set.                                                          *)
(***************************************************************************)

\* What is finite, and how many, means the same in WatchSet.
LEMMA WatchSets ==
    ASSUME NEW S
    PROVE  /\ Watches!IsFiniteSet(S) <=> IsFiniteSet(S)
           /\ Watches!Cardinality(S) = Cardinality(S)
BY DEF IsFiniteSet, Cardinality, Watches!IsFiniteSet, Watches!Cardinality

\* The pairs of one watch.
LEMMA Tagged ==
    ASSUME NEW w, NEW S, Watches!IsFiniteSet(S)
    PROVE  /\ Watches!IsFiniteSet({w} \X S)
           /\ Watches!Cardinality({w} \X S) = Watches!Cardinality(S)
           /\ Watches!Cardinality(S) \in Nat
<1> DEFINE f == [o \in S |-> <<w, o>>]
<1>1. f \in Bijection(S, {w} \X S)
    BY DEF Bijection, Injection, Surjection, IsInjective
<1>2. ExistsBijection(S, {w} \X S)
    BY <1>1 DEF ExistsBijection
<1>3. QED BY <1>2, WatchSets, FS_Bijection, FS_CardinalityType

\* The count when the objects of one watch, w of n, change.
OneChanges(f, g, w, n) ==
    /\ n \in Nat /\ w \in 1 .. n /\ DOMAIN f = 1 .. n /\ DOMAIN g = 1 .. n
    /\ \A v \in 1 .. n : Watches!IsFiniteSet(f[v].sizes)
    /\ Watches!IsFiniteSet(g[w].sizes) /\ \A v \in 1 .. n : v # w => g[v].sizes = f[v].sizes

LEMMA CountedStep ==
    ASSUME NEW f, NEW g, NEW w, NEW n, OneChanges(f, g, w, n)
    PROVE  /\ Watches!Cardinality(Watches!Counted(f)) \in Nat
           /\ Watches!Cardinality(Watches!Counted(g)) \in Nat
           /\ Watches!Cardinality(f[w].sizes) \in Nat /\ Watches!Cardinality(g[w].sizes) \in Nat
           /\ Watches!Cardinality(Watches!Counted(g)) =
                 Watches!Cardinality(Watches!Counted(f)) - Watches!Cardinality(f[w].sizes)
                    + Watches!Cardinality(g[w].sizes)
<1> DEFINE Others == UNION {{v} \X f[v].sizes : v \in (1 .. n) \ {w}}
           old == {w} \X f[w].sizes
           new == {w} \X g[w].sizes
<1>0. /\ n \in Nat /\ w \in 1 .. n /\ DOMAIN f = 1 .. n /\ DOMAIN g = 1 .. n
      /\ \A v \in 1 .. n : Watches!IsFiniteSet(f[v].sizes)
      /\ Watches!IsFiniteSet(g[w].sizes) /\ \A v \in 1 .. n : v # w => g[v].sizes = f[v].sizes
    BY DEF OneChanges
<1>1. Watches!Counted(f) = Others \cup old
    BY <1>0 DEF Watches!Counted
<1>2. Watches!Counted(g) = Others \cup new
    BY <1>0 DEF Watches!Counted
<1>3. Watches!IsFiniteSet(Others)
    <2>1. Watches!IsFiniteSet((1 .. n) \ {w})
        BY <1>0, WatchSets, FS_Interval, FS_Subset, 1 \in Int, n \in Int
    <2> DEFINE each == {{v} \X f[v].sizes : v \in (1 .. n) \ {w}}
               h == [v \in (1 .. n) \ {w} |-> {v} \X f[v].sizes]
    <2>2. Watches!IsFiniteSet(each)
        <3>1. h \in Surjection((1 .. n) \ {w}, each)
            BY DEF Surjection
        <3>2. QED BY <2>1, <3>1, WatchSets, FS_Surjection
    <2>3. ASSUME NEW T \in each PROVE Watches!IsFiniteSet(T)
        <3>1. PICK v \in 1 .. n : T = {v} \X f[v].sizes
            OBVIOUS
        <3>2. QED BY <1>0, <3>1, Tagged
    <2>4. QED BY <2>2, <2>3, WatchSets, FS_UNION
<1>4. /\ Watches!IsFiniteSet(old) /\ Watches!Cardinality(old) = Watches!Cardinality(f[w].sizes)
      /\ Watches!IsFiniteSet(new) /\ Watches!Cardinality(new) = Watches!Cardinality(g[w].sizes)
      /\ Watches!Cardinality(f[w].sizes) \in Nat /\ Watches!Cardinality(g[w].sizes) \in Nat
    BY <1>0, Tagged
<1>5. Others \cap old = {} /\ Others \cap new = {}
    OBVIOUS
<1>6. Watches!Cardinality(Others) \in Nat
    BY <1>3, WatchSets, FS_CardinalityType
<1> HIDE DEF Others, old, new
<1>7. Watches!Cardinality({}) = 0
    BY WatchSets, FS_EmptySet
<1>8. /\ Watches!Cardinality(Others \cup old) = Watches!Cardinality(Others) + Watches!Cardinality(old)
      /\ Watches!Cardinality(Others \cup new) = Watches!Cardinality(Others) + Watches!Cardinality(new)
    <2>1. Watches!Cardinality(Others \cup old) =
             Watches!Cardinality(Others) + Watches!Cardinality(old) - Watches!Cardinality(Others \cap old)
        BY <1>3, <1>4, WatchSets, FS_Union
    <2>2. Watches!Cardinality(Others \cup new) =
             Watches!Cardinality(Others) + Watches!Cardinality(new) - Watches!Cardinality(Others \cap new)
        BY <1>3, <1>4, WatchSets, FS_Union
    <2>3. Watches!Cardinality(Others \cap old) = 0 /\ Watches!Cardinality(Others \cap new) = 0
        BY <1>5, <1>7
    <2>4. Watches!Cardinality(old) \in Nat /\ Watches!Cardinality(new) \in Nat
        BY <1>4
    <2>5. QED BY <1>6, <2>1, <2>2, <2>3, <2>4
<1>9. QED BY <1>1, <1>2, <1>4, <1>6, <1>8

\* Objects that are counted for nobody.
LEMMA CountedSame ==
    ASSUME NEW m \in Nat, NEW n \in Nat, NEW f, NEW g, DOMAIN f = 1 .. m, DOMAIN g = 1 .. n,
    m <= n,
           \A v \in 1 .. n : g[v].sizes = IF v \in 1 .. m THEN f[v].sizes ELSE {}
    PROVE  Watches!Counted(g) = Watches!Counted(f)
BY DEF Watches!Counted

-----------------------------------------------------------------------------
\* A watch.
LEMMA AtWatch ==
    ASSUME Watches!Types, NEW w \in Watches!Watch
    PROVE  /\ watches[w] \in Watches!WatchState /\ w \in 1 .. Len(watches) /\ Len(watches) \in Nat
           /\ watches[w].path \in Path /\ history[watches[w].path] \in Seq(Watches!Objects)
           /\ Len(history[watches[w].path]) \in Nat
           /\ \A k \in 1 .. Len(history[watches[w].path]) : history[watches[w].path][k] \in Watches!Objects
<1>1. Len(watches) \in Nat /\ Watches!Watch = 1 .. Len(watches)
    BY LenProperties DEF Watches!Types, Watches!Watch
<1>2. watches[w] \in Watches!WatchState
    BY <1>1, ElementOfSeq DEF Watches!Types
<1>3. watches[w].path \in Path
    BY <1>2 DEF Watches!WatchState
<1>4. history[watches[w].path] \in Seq(Watches!Objects)
    BY <1>3 DEF Watches!Types
<1>5. QED BY <1>1, <1>2, <1>3, <1>4, LenProperties, ElementOfSeq

LEMMA WatchRange ==
    ASSUME Watches!Types
    PROVE  Len(watches) \in Nat /\ Watches!Watch = 1 .. Len(watches)
BY LenProperties DEF Watches!Types, Watches!Watch

\* One watch changes.
LEMMA SetStep ==
    ASSUME Watches!Types, NEW w \in Watches!Watch, NEW y \in Watches!WatchState, Watches!Set(w, y)
    PROVE  /\ watches' \in Seq(Watches!WatchState) /\ Len(watches') = Len(watches)
           /\ DOMAIN watches' = DOMAIN watches /\ Watches!Watch' = Watches!Watch
           /\ watches'[w] = y /\ \A v \in Watches!Watch : v # w => watches'[v] = watches[v]
<1>1. watches \in Seq(Watches!WatchState) /\ w \in 1 .. Len(watches)
    BY AtWatch DEF Watches!Types
<1>2. watches' \in Seq(Watches!WatchState) /\ Len(watches') = Len(watches)
    BY <1>1, ExceptSeq DEF Watches!Set
<1>3. DOMAIN watches' = DOMAIN watches
    BY <1>1, <1>2, LenProperties
<1>4. QED BY <1>2, <1>3 DEF Watches!Set, Watches!Watch

\* A watch of the session that goes on, or ends, without telling the consumer.
Onward(x, y) ==
    /\ y.path = x.path /\ y.identity = x.identity /\ y.sizes = x.sizes /\ y.ready = x.ready
    /\ y.failed = x.failed /\ y.rv \in {x.rv, 0} /\ (y.pc # "done" => x.pc # "done")

LEMMA AloneStep ==
    ASSUME Watches!WatchInv, NEW w \in Watches!Watch, NEW y \in Watches!WatchState,
    Watches!Set(w, y), Watches!Alone,
           Onward(watches[w], y), Watches!Follows(y, history[y.path]),
           y.held => watches[w].held \/ \A v \in Watches!Watch : ~watches[v].held
    PROVE  Watches!WatchInv'
<1> DEFINE x == watches[w]
<1>1. /\ watches' \in Seq(Watches!WatchState) /\ Len(watches') = Len(watches)
      /\ DOMAIN watches' = DOMAIN watches /\ Watches!Watch' = Watches!Watch
      /\ watches'[w] = y /\ \A v \in Watches!Watch : v # w => watches'[v] = watches[v]
    BY SetStep DEF Watches!WatchInv
<1>2. /\ history' = history /\ floor' = floor /\ active' = active /\ total' = total /\ run' = run
      /\ view' = view
    BY DEF Watches!Alone, Watches!serverVars
<1>3. /\ Len(watches) \in Nat /\ DOMAIN watches = 1 .. Len(watches)
      /\ Watches!Watch = DOMAIN watches
      /\ x \in Watches!WatchState
    BY AtWatch, WatchRange DEF Watches!WatchInv, Watches!Watch
<1>4. \A v \in Watches!Watch :
         /\ watches'[v].path = watches[v].path /\ watches'[v].identity = watches[v].identity
         /\ watches'[v].sizes = watches[v].sizes /\ watches'[v].ready = watches[v].ready
         /\ watches'[v].rv \in {watches[v].rv, 0}
         /\ (watches'[v].pc # "done" => watches[v].pc # "done")
    BY <1>1 DEF Onward
<1>5. Watches!Types'
    BY <1>1, <1>2 DEF Watches!WatchInv, Watches!Types
<1>6. Watches!OneSlot'
    BY <1>1 DEF Watches!WatchInv, Watches!OneSlot
<1>7. Watches!Quiet'
    <2>1. run.pc # "down"
        BY <1>3, EmptySeq DEF Watches!WatchInv, Watches!Quiet
    <2>2. QED BY <1>2, <2>1 DEF Watches!WatchInv, Watches!Quiet
<1>8. \A v \in Watches!Watch' : Watches!Follows(watches'[v], history'[watches'[v].path])
    BY <1>1, <1>2 DEF Watches!WatchInv
<1>9. ASSUME Watches!Session PROVE Watches!Session'
    <2>1. Watches!Counted(watches') = Watches!Counted(watches)
        BY <1>1, <1>3, <1>4, CountedSame
    <2>2. \A p \in Path : active[p] # 0 =>
             watches'[active[p]].path = p /\ Watches!Shows(view[p], watches'[active[p]], history[p])
        <3>1. SUFFICES ASSUME NEW p \in Path, active[p] # 0
                       PROVE  /\ watches'[active[p]].path = p
                              /\ Watches!Shows(view[p], watches'[active[p]], history[p])
            OBVIOUS
        <3>2. active[p] \in Watches!Watch
            BY <1>3, <3>1 DEF Watches!WatchInv, Watches!Types
        <3>3. /\ watches[active[p]].path = p
              /\ Watches!Shows(view[p], watches[active[p]], history[p])
            BY <1>9, <3>1 DEF Watches!Session
        <3>4. QED BY <1>4, <3>2, <3>3 DEF Watches!Shows
    <2>3. \A p \in Path : active[p] = 0 =>
             view[p] = Watches!NoView \/ (run.waits # 0 /\ watches'[run.waits].path = p)
        <3>1. run.waits # 0 => run.waits \in Watches!Watch
            BY <1>3 DEF Watches!WatchInv, Watches!Types
        <3>2. QED BY <1>4, <1>9, <3>1 DEF Watches!Session
    <2>4. \A v \in Watches!Watch : watches'[v].pc # "done" =>
                              active[watches'[v].path] = v \/ run.waits = v
        BY <1>4, <1>9 DEF Watches!Session
    <2>5. QED BY <1>1, <1>2, <1>9, <2>1, <2>2, <2>3, <2>4 DEF Watches!Session
<1>10. ASSUME Watches!Replacing PROVE Watches!Replacing'
    <2>1. \A p \in Path : active[p] # 0 => active[p] \in Watches!Watch
        BY <1>3 DEF Watches!WatchInv, Watches!Types
    <2>2. run.waits # 0 => run.waits \in Watches!Watch
        BY <1>3 DEF Watches!WatchInv, Watches!Types
    <2>3. QED BY <1>2, <1>4, <1>10, <2>1, <2>2 DEF Watches!Replacing
<1>11. ASSUME run.pc = "loop"
       PROVE  /\ {p \in Path : active[p] # 0} = DOMAIN run.request
              /\ \A p \in DOMAIN run.request : watches'[active[p]].identity = run.request[p]
    <2>1. \A p \in Path : active[p] # 0 => active[p] \in Watches!Watch
        BY <1>3 DEF Watches!WatchInv, Watches!Types
    <2>2. QED BY <1>4, <1>11, <2>1 DEF Watches!WatchInv
<1>12. QED BY <1>2, <1>5, <1>6, <1>7, <1>8, <1>9, <1>10, <1>11 DEF Watches!WatchInv

\* The steps of a watch that Run does not see.
LEMMA WatchAlone ==
    ASSUME Watches!WatchInv, NEW w \in Watches!Watch,
           \/ Watches!BeginObserve(w) \/ Watches!TakeSlot(w) \/ Watches!List(w)
           \/ Watches!ObserveFails(w) \/ Watches!Frame(w)
           \/ Watches!Denied(w) \/ Watches!Leave(w)
    PROVE  Watches!WatchInv'
<1> DEFINE x == watches[w]
           h == history[x.path]
<1>1. /\ x \in Watches!WatchState /\ Watches!Follows(x, h) /\ Len(h) \in Nat /\ Len(h) > 0
      /\ floor[x.path] \in 1 .. Len(h)
    BY AtWatch DEF Watches!WatchInv, Watches!Types
<1>2. ASSUME NEW y \in Watches!WatchState, Watches!Set(w, y), Watches!Alone, Onward(x, y),
             Watches!Follows(y, h),
             y.held => x.held \/ \A v \in Watches!Watch : ~watches[v].held
      PROVE  Watches!WatchInv'
    BY <1>2, AloneStep DEF Onward
<1> HIDE DEF x, h
<1>3. CASE Watches!BeginObserve(w)
    <2> DEFINE y == IF x.rv = 0 THEN [x EXCEPT !.pc = "slot", !.held = FALSE]
                    ELSE [x EXCEPT !.pc = "watch"]
    <2>1. Watches!Set(w, y) /\ Watches!Alone /\ x.pc = "observe"
        BY <1>3 DEF Watches!BeginObserve, x
    <2>2. y \in Watches!WatchState /\ (y.held => x.held)
        BY <1>1 DEF Watches!WatchState
    <2>3. Onward(x, y) /\ Watches!Follows(y, h)
        BY <1>1, <2>1 DEF Watches!WatchState, Onward, Watches!Follows
    <2>4. QED BY <1>2, <2>1, <2>2, <2>3
<1>4. CASE Watches!TakeSlot(w)
    <2> DEFINE y == [x EXCEPT !.pc = "reset", !.held = TRUE]
    <2>1. /\ Watches!Set(w, y) /\ Watches!Alone /\ x.pc = "slot"
          /\ \A v \in Watches!Watch : ~watches[v].held
        BY <1>4 DEF Watches!TakeSlot, x
    <2>2. y \in Watches!WatchState
        BY <1>1 DEF Watches!WatchState
    <2>3. Onward(x, y) /\ Watches!Follows(y, h)
        BY <1>1, <2>1 DEF Watches!WatchState, Onward, Watches!Follows
    <2>4. QED BY <1>2, <2>1, <2>2, <2>3
<1>5. CASE Watches!List(w)
    <2> DEFINE y == [x EXCEPT !.pc = "replace", !.listed = Len(h)]
    <2>1. Watches!Set(w, y) /\ Watches!Alone /\ x.pc = "list"
        BY <1>5 DEF Watches!List, x, h
    <2>2. y \in Watches!WatchState /\ (y.held => x.held)
        BY <1>1 DEF Watches!WatchState
    <2>3. Onward(x, y) /\ Watches!Follows(y, h)
        BY <1>1, <2>1 DEF Watches!WatchState, Onward, Watches!Follows
    <2>4. QED BY <1>2, <2>1, <2>2, <2>3
<1>6. CASE Watches!ObserveFails(w)
    <2> DEFINE y == [x EXCEPT !.pc = "observe", !.rv = IF x.rv < floor[x.path] THEN 0 ELSE @]
    <2>1. Watches!Set(w, y) /\ Watches!Alone /\ x.pc \in {"list", "watch"}
        BY <1>6 DEF Watches!ObserveFails, x
    <2>2. y \in Watches!WatchState /\ (y.held => x.held)
        BY <1>1 DEF Watches!WatchState
    <2>3. Onward(x, y) /\ Watches!Follows(y, h)
        BY <1>1, <2>1 DEF Watches!WatchState, Onward, Watches!Follows
    <2>4. QED BY <1>2, <2>1, <2>2, <2>3
<1>7. CASE Watches!Frame(w)
    <2> DEFINE y == [x EXCEPT !.pc = "event"]
    <2>1. Watches!Set(w, y) /\ Watches!Alone /\ x.pc = "watch" /\ x.rv < Len(h)
        BY <1>7 DEF Watches!Frame, x, h
    <2>2. y \in Watches!WatchState /\ (y.held => x.held)
        BY <1>1 DEF Watches!WatchState
    <2>3. Onward(x, y) /\ Watches!Follows(y, h)
        BY <1>1, <2>1 DEF Watches!WatchState, Onward, Watches!Follows
    <2>4. QED BY <1>2, <2>1, <2>2, <2>3
<1>8. CASE Watches!Denied(w)
    <2> DEFINE y == [x EXCEPT !.pc = "result", !.held = FALSE]
    <2>1. Watches!Set(w, y) /\ Watches!Alone /\ x.pc \in {"list", "watch"}
        BY <1>8 DEF Watches!Denied, x
    <2>2. y \in Watches!WatchState /\ (y.held => x.held)
        BY <1>1 DEF Watches!WatchState
    <2>3. Onward(x, y) /\ Watches!Follows(y, h)
        BY <1>1, <2>1 DEF Watches!WatchState, Onward, Watches!Follows
    <2>4. QED BY <1>2, <2>1, <2>2, <2>3
<1>9. CASE Watches!Leave(w)
    <2> DEFINE y == [x EXCEPT !.pc = "done", !.held = FALSE, !.rv = 0, !.listed = 0]
    <2>1. Watches!Set(w, y) /\ Watches!Alone /\ x.pc # "done"
        BY <1>9 DEF Watches!Leave, x
    <2>2. y \in Watches!WatchState /\ (y.held => x.held)
        BY <1>1 DEF Watches!WatchState
    <2>3. Onward(x, y) /\ Watches!Follows(y, h)
        BY <1>1, <2>1 DEF Watches!WatchState, Onward, Watches!Follows
    <2>4. QED BY <1>2, <2>1, <2>2, <2>3
<1>10. QED BY <1>3, <1>4, <1>5, <1>6, <1>7, <1>8, <1>9

-----------------------------------------------------------------------------
\* The session ends with nothing to do.
LEMMA StopStep ==
    ASSUME Watches!WatchInv, run' = Watches!Stop, UNCHANGED <<Watches!serverVars, watches,
    active>>,
           view' = [p \in Path |-> view'[p]]
    PROVE  Watches!WatchInv'
<1>1. /\ history' = history /\ floor' = floor /\ active' = active /\ watches' = watches
    BY DEF Watches!serverVars
<1>2. /\ run'.pc = "stopping" /\ run'.request = Watches!Unassigned /\ run'.remove = {}
      /\ run'.waits = 0
      /\ run' \in [pc : {"down", "loop", "replace", "stopping"}, request : {run'.request},
                   remove : SUBSET Path, waits : 0 .. Len(watches), cancelled : BOOLEAN]
    <2>1. 0 \in 0 .. Len(watches)
        BY WatchRange DEF Watches!WatchInv
    <2>2. run \in [pc : {"down", "loop", "replace", "stopping"}, request : {run.request},
                   remove : SUBSET Path, waits : 0 .. Len(watches), cancelled : BOOLEAN]
        BY DEF Watches!WatchInv, Watches!Types
    <2>3. run' = [pc |-> "stopping", request |-> Watches!Unassigned, remove |-> {}, waits |-> 0,
                  cancelled |-> TRUE]
        BY <2>2 DEF Watches!Stop
    <2>4. QED BY <2>1, <2>3
<1>3. Watches!IsAssignment(Watches!Unassigned)
    BY WatchSets, FS_EmptySet DEF Watches!IsAssignment, Watches!Unassigned
<1>4. Watches!Types'
    BY <1>1, <1>2, <1>3 DEF Watches!WatchInv, Watches!Types
<1>5. Watches!OneSlot' /\ Watches!Quiet'
    BY <1>1, <1>2 DEF Watches!WatchInv, Watches!OneSlot, Watches!Quiet, Watches!Watch
<1>6. \A v \in Watches!Watch' : Watches!Follows(watches'[v], history'[watches'[v].path])
    BY <1>1 DEF Watches!WatchInv, Watches!Watch
<1>7. QED BY <1>2, <1>4, <1>5, <1>6 DEF Watches!WatchInv

\* The loop begins, ends, and receives an assignment.
LEMMA LoopStep ==
    ASSUME Watches!Bounds, Watches!WatchInv,
           \/ Watches!BeginRun \/ Watches!ParentEnds \/ Watches!LeaveLoop
           \/ \E request \in Assignment : Watches!Replace(request)
    PROVE  Watches!WatchInv'
<1>1. run \in [pc : {"down", "loop", "replace", "stopping"}, request : {run.request},
               remove : SUBSET Path, waits : 0 .. Len(watches), cancelled : BOOLEAN]
    BY DEF Watches!WatchInv, Watches!Types
<1>2. /\ history' = history /\ floor' = floor /\ active' = active /\ total' = total
      /\ watches' = watches /\ Watches!Watch' = Watches!Watch
      /\ Watches!BeginRun \/ view' = view
    BY DEF Watches!BeginRun, Watches!ParentEnds, Watches!LeaveLoop, Watches!Replace,
       Watches!serverVars, Watches!Watch
<1>3. /\ Watches!OneSlot'
      /\ \A v \in Watches!Watch' : Watches!Follows(watches'[v], history'[watches'[v].path])
    BY <1>2 DEF Watches!WatchInv, Watches!OneSlot
<1>4. ASSUME run.waits = run'.waits, view' = view, Watches!Session PROVE Watches!Session'
    BY <1>2, <1>4 DEF Watches!Session, Watches!Counted
<1>5. CASE Watches!BeginRun
    <2>1. /\ run.pc = "down" /\ run' = [run EXCEPT !.pc = "loop", !.cancelled = FALSE]
          /\ view' = [p \in Path |-> Watches!NoView]
        BY <1>5 DEF Watches!BeginRun
    <2>2. /\ run'.pc = "loop" /\ run'.request = run.request /\ run'.remove = run.remove
          /\ run'.waits = run.waits
          /\ run' \in [pc : {"down", "loop", "replace", "stopping"}, request : {run'.request},
                       remove : SUBSET Path, waits : 0 .. Len(watches), cancelled : BOOLEAN]
        BY <1>1, <2>1
    <2>3. /\ watches = <<>> /\ total = 0 /\ run.request = Watches!Unassigned
          /\ \A p \in Path : active[p] = 0 /\ view'[p] = Watches!NoView
        BY <2>1 DEF Watches!WatchInv, Watches!Quiet
    <2>4. Watches!Types' /\ Watches!Quiet'
        BY <1>2, <2>1, <2>2 DEF Watches!WatchInv, Watches!Types, Watches!Quiet
    <2>5. Watches!Watch = {}
        BY ONLY <2>3 DEF Watches!Watch
    <2>6. Watches!Cardinality(Watches!Counted(watches)) = 0
        BY ONLY <2>5, WatchSets, FS_EmptySet DEF Watches!Counted, Watches!Watch
    <2>7. MaxObjects \in Nat
        BY DEF Watches!Bounds
    <2>8. Watches!Session'
        BY ONLY <1>2, <2>3, <2>5, <2>6, <2>7 DEF Watches!Session, Watches!Counted
    <2>9. DOMAIN run'.request = {}
        BY ONLY <2>2, <2>3 DEF Watches!Unassigned
    <2>10. /\ {p \in Path : active'[p] # 0} = DOMAIN run'.request
           /\ \A p \in DOMAIN run'.request : watches'[active'[p]].identity = run'.request[p]
        BY ONLY <1>2, <2>3, <2>9
    <2>11. QED BY <1>3, <2>2, <2>4, <2>8, <2>10 DEF Watches!WatchInv
<1>6. CASE Watches!ParentEnds
    <2>0. view' = view
        BY <1>6 DEF Watches!ParentEnds
    <2>1. /\ run'.pc = run.pc /\ run'.request = run.request /\ run'.remove = run.remove
          /\ run'.waits = run.waits
          /\ run' \in [pc : {"down", "loop", "replace", "stopping"}, request : {run'.request},
                       remove : SUBSET Path, waits : 0 .. Len(watches), cancelled : BOOLEAN]
        BY <1>1, <1>6 DEF Watches!ParentEnds
    <2>2. Watches!Types' /\ Watches!Quiet'
        BY <1>2, <2>0, <2>1 DEF Watches!WatchInv, Watches!Types, Watches!Quiet
    <2>3. Watches!Replacing => Watches!Replacing'
        BY <1>2, <2>0, <2>1 DEF Watches!Replacing
    <2>4. QED BY <1>2, <1>3, <1>4, <2>0, <2>1, <2>2, <2>3 DEF Watches!WatchInv
<1>7. CASE Watches!LeaveLoop
    BY <1>7, StopStep DEF Watches!LeaveLoop, Watches!WatchInv, Watches!Types
<1>8. ASSUME NEW request \in Assignment, Watches!Replace(request) PROVE Watches!WatchInv'
    <2>1. run.pc = "loop" /\ Watches!IsAssignment(request) /\ view' = view
        BY <1>8 DEF Watches!Replace, Watches!Bounds
    <2>2. /\ run'.pc = "replace" /\ run'.request = request
          /\ run'.remove = Watches!Outdated(request)
          /\ run'.waits = run.waits
          /\ run' \in [pc : {"down", "loop", "replace", "stopping"}, request : {run'.request},
                       remove : SUBSET Path, waits : 0 .. Len(watches), cancelled : BOOLEAN]
        BY <1>1, <1>8 DEF Watches!Replace, Watches!Outdated
    <2>3. Watches!Types' /\ Watches!Quiet'
        BY <1>2, <2>1, <2>2 DEF Watches!WatchInv, Watches!Types, Watches!Quiet
    <2>4. run.waits = 0
        BY <2>1 DEF Watches!WatchInv, Watches!Quiet
    <2>5. Watches!Replacing'
        BY <1>2, <2>2, <2>4 DEF Watches!Replacing, Watches!Outdated
    <2>6. QED BY <1>3, <1>4, <2>1, <2>2, <2>3, <2>5 DEF Watches!WatchInv
<1>9. QED BY <1>5, <1>6, <1>7, <1>8

\* The session is over.
LEMMA EndStep == ASSUME Watches!WatchInv, Watches!EndRun PROVE Watches!WatchInv'
<1>1. run \in [pc : {"down", "loop", "replace", "stopping"}, request : {run.request},
               remove : SUBSET Path, waits : 0 .. Len(watches), cancelled : BOOLEAN]
    BY DEF Watches!WatchInv, Watches!Types
<1>2. /\ history' = history /\ floor' = floor /\ total' = 0 /\ run.pc = "stopping"
      /\ active' = [p \in Path |-> 0] /\ view' = view
    BY DEF Watches!EndRun, Watches!serverVars
<1>3. watches' = <<>>
    BY DEF Watches!EndRun
<1>4. run.waits = 0 /\ run.remove = {} /\ run.request = Watches!Unassigned
    BY <1>2 DEF Watches!WatchInv, Watches!Quiet
<1>5. /\ run'.pc = "down" /\ run'.request = Watches!Unassigned /\ run'.remove = {}
      /\ run'.waits = 0
      /\ run'.request = run.request /\ run'.cancelled \in BOOLEAN
      /\ run' = [pc |-> "down", request |-> Watches!Unassigned, remove |-> {}, waits |-> 0,
                 cancelled |-> run'.cancelled]
    BY <1>1, <1>4 DEF Watches!EndRun
<1>6. watches' \in Seq(Watches!WatchState) /\ Len(watches') = 0 /\ DOMAIN watches' = {}
    <2>1. <<>> \in Seq(Watches!WatchState) /\ Len(<<>>) = 0
        BY ONLY EmptySeq, Zenon
    <2>2. DOMAIN watches' = {}
        BY ONLY <1>3
    <2>3. QED BY ONLY <1>3, <2>1, <2>2, Zenon
<1>7. Watches!Types'
    <2>1. 0 \in 0 .. 0
        OBVIOUS
    <2>2. run' \in [pc : {"down", "loop", "replace", "stopping"}, request : {run'.request},
                    remove : SUBSET Path, waits : 0 .. 0, cancelled : BOOLEAN]
        BY ONLY <1>5, <2>1
    <2>3. active' \in [Path -> 0 .. 0]
        BY ONLY <1>2, <2>1
    <2>4. /\ view' = [p \in Path |-> view'[p]]
          /\ history' \in [Path -> Seq(Watches!Objects)] /\ floor' \in [Path -> Nat]
          /\ Watches!IsAssignment(run'.request)
          /\ \A p \in Path : floor'[p] \in 1 .. Len(history'[p])
        BY <1>2, <1>5 DEF Watches!WatchInv, Watches!Types
    <2>5. QED BY ONLY <1>6, <2>2, <2>3, <2>4 DEF Watches!Types
<1>8. /\ Watches!OneSlot' /\ Watches!Quiet'
      /\ \A v \in Watches!Watch' : Watches!Follows(watches'[v], history'[watches'[v].path])
    <2>1. Watches!Watch' = {}
        BY ONLY <1>6 DEF Watches!Watch
    <2>2. Watches!Quiet'
        BY ONLY <1>2, <1>3, <1>5, Zenon DEF Watches!Quiet
    <2>3. QED BY ONLY <2>1, <2>2 DEF Watches!OneSlot
<1>9. QED BY ONLY <1>5, <1>7, <1>8 DEF Watches!WatchInv

-----------------------------------------------------------------------------
\* A watch is cancelled, and Run waits for it.
LEMMA RemoveStep ==
    ASSUME Watches!WatchInv, NEW p \in Path, Watches!RemoveWatch(p)
    PROVE  Watches!WatchInv'
<1> DEFINE w == active[p]
           y == [watches[w] EXCEPT !.cancelled = TRUE]
<1>1. /\ run.pc = "replace" /\ run.waits = 0 /\ p \in run.remove
      /\ history' = history /\ floor' = floor /\ total' = total /\ view' = view
      /\ active' = [active EXCEPT ![p] = 0] /\ active \in [Path -> 0 .. Len(watches)]
    BY DEF Watches!RemoveWatch, Watches!serverVars, Watches!WatchInv, Watches!Types
<1>2. /\ Watches!Session /\ Watches!Replacing /\ w # 0
    BY <1>1 DEF Watches!WatchInv, Watches!Replacing
<1>3. w \in Watches!Watch
    BY <1>1, <1>2, WatchRange DEF Watches!WatchInv
<1>4. /\ watches[w].path = p /\ watches[w] \in Watches!WatchState
      /\ Watches!Shows(view[p], watches[w], history[p])
    BY <1>2, <1>3, AtWatch DEF Watches!Session, Watches!WatchInv
<1>5. watches' = [watches EXCEPT ![w] = y] /\ y \in Watches!WatchState
    BY <1>4 DEF Watches!RemoveWatch, Watches!WatchState
<1>6. /\ watches' \in Seq(Watches!WatchState) /\ Len(watches') = Len(watches)
      /\ DOMAIN watches' = DOMAIN watches /\ Watches!Watch' = Watches!Watch
      /\ watches'[w] = y /\ \A v \in Watches!Watch : v # w => watches'[v] = watches[v]
    BY <1>3, <1>5, SetStep DEF Watches!Set, Watches!WatchInv
<1>7. /\ Len(watches) \in Nat /\ Watches!Watch = 1 .. Len(watches)
      /\ DOMAIN watches = 1 .. Len(watches)
    BY WatchRange DEF Watches!WatchInv, Watches!Watch
<1>8. \A v \in Watches!Watch :
         /\ watches'[v].path = watches[v].path /\ watches'[v].identity = watches[v].identity
         /\ watches'[v].sizes = watches[v].sizes /\ watches'[v].ready = watches[v].ready
         /\ watches'[v].rv = watches[v].rv /\ watches'[v].pc = watches[v].pc
         /\ watches'[v].held = watches[v].held /\ watches'[v].listed = watches[v].listed
         /\ watches'[v].failed = watches[v].failed
    BY <1>4, <1>6, ZenonT(60) DEF Watches!WatchState
<1>9. /\ run \in [pc : {"down", "loop", "replace", "stopping"}, request : {run.request},
                  remove : SUBSET Path, waits : 0 .. Len(watches), cancelled : BOOLEAN]
    BY DEF Watches!WatchInv, Watches!Types
<1>10. /\ run'.pc = "replace" /\ run'.request = run.request /\ run'.remove = run.remove \ {p}
       /\ run'.waits = w
       /\ run' \in [pc : {"down", "loop", "replace", "stopping"}, request : {run'.request},
                    remove : SUBSET Path, waits : 0 .. Len(watches), cancelled : BOOLEAN]
    <2>1. run' = [run EXCEPT !.waits = w, !.remove = run.remove \ {p}]
        BY DEF Watches!RemoveWatch
    <2>2. w \in 0 .. Len(watches)
        BY <1>1
    <2>3. QED BY <1>1, <1>9, <2>1, <2>2
<1>11. Watches!Types'
    <2>1. active' \in [Path -> 0 .. Len(watches)]
        BY <1>1, <1>7
    <2>2. QED BY <1>1, <1>6, <1>10, <2>1 DEF Watches!WatchInv, Watches!Types
<1>12. Watches!OneSlot' /\ Watches!Quiet'
    BY <1>6, <1>8, <1>10 DEF Watches!WatchInv, Watches!OneSlot, Watches!Quiet
<1>13. \A v \in Watches!Watch' : Watches!Follows(watches'[v], history'[watches'[v].path])
    BY <1>1, <1>6, <1>8 DEF Watches!WatchInv, Watches!Follows
<1>14. Watches!Session'
    <2>1. Watches!Counted(watches') = Watches!Counted(watches)
        BY <1>6, <1>7, <1>8, CountedSame
    <2>2. ASSUME NEW q \in Path, active'[q] # 0
          PROVE  /\ watches'[active'[q]].path = q
                 /\ Watches!Shows(view[q], watches'[active'[q]], history[q])
        <3>1. active'[q] = active[q] /\ active[q] \in Watches!Watch /\ active[q] # 0
            BY <1>1, <1>7, <2>2
        <3>2. /\ watches[active[q]].path = q
              /\ Watches!Shows(view[q], watches[active[q]], history[q])
            BY <1>2, <3>1 DEF Watches!Session
        <3>3. QED BY <1>8, <3>1, <3>2 DEF Watches!Shows
    <2>3. ASSUME NEW q \in Path, active'[q] = 0
          PROVE  view[q] = Watches!NoView \/ (w # 0 /\ watches'[w].path = q)
        BY <1>1, <1>2, <1>3, <1>4, <1>8, <2>3 DEF Watches!Session
    <2>4. ASSUME NEW v \in Watches!Watch, watches'[v].pc # "done"
          PROVE  active'[watches'[v].path] = v \/ w = v
        <3>1. active[watches[v].path] = v \/ run.waits = v
            BY <1>2, <1>8, <2>4 DEF Watches!Session
        <3>2. v # 0 /\ watches[v].path \in Path
            BY <1>7, AtWatch DEF Watches!WatchInv
        <3>3. QED BY <1>1, <1>8, <3>1, <3>2
    <2>5. total' = Watches!Cardinality(Watches!Counted(watches)) /\ total' <= MaxObjects
        BY <1>1, <1>2 DEF Watches!Session
    <2>6. /\ history' = history /\ view' = view /\ Watches!Watch' = Watches!Watch
          /\ run'.waits = w
          /\ DOMAIN watches' = DOMAIN watches
        BY <1>1, <1>6, <1>10
    <2>7. total' = Watches!Cardinality(Watches!Counted(watches'))
        BY <2>1, <2>5
    <2> HIDE DEF w, y
    <2>8. QED BY ONLY <2>2, <2>3, <2>4, <2>5, <2>6, <2>7 DEF Watches!Session
<1>15. Watches!Replacing'
    <2>1. \A q \in run.remove \ {p} : active'[q] # 0
        BY <1>1, <1>2, <1>9 DEF Watches!Replacing
    <2>2. ASSUME NEW q \in Path, q \notin run.remove \ {p}, active'[q] # 0
          PROVE  q \in DOMAIN run.request /\ watches'[active'[q]].identity = run.request[q]
        <3>1. q # p /\ active'[q] = active[q] /\ active[q] \in Watches!Watch
            BY <1>1, <1>7, <2>2
        <3>2. QED BY <1>2, <1>8, <2>2, <3>1 DEF Watches!Replacing
    <2>3. active'[watches'[w].path] = 0
        BY <1>1, <1>3, <1>4, <1>8
    <2>4. QED BY <1>10, <2>1, <2>2, <2>3 DEF Watches!Replacing
<1>16. QED BY <1>10, <1>11, <1>12, <1>13, <1>14, <1>15 DEF Watches!WatchInv

\* The watch that Run waited for is done.
LEMMA RemovedStep ==
    ASSUME Watches!Bounds, Watches!WatchInv, NEW fails \in BOOLEAN, Watches!Removed(fails)
    PROVE  Watches!WatchInv'
<1> DEFINE w == run.waits
           x == watches[w]
           y == [x EXCEPT !.sizes = {}, !.ready = FALSE]
<1>1. /\ run.pc = "replace" /\ w # 0 /\ x.pc = "done"
      /\ history' = history /\ floor' = floor /\ active' = active
      /\ total' = total - Watches!Cardinality(x.sizes)
      /\ view' = [view EXCEPT ![x.path] = Watches!NoView]
      /\ run' = IF fails THEN Watches!Stop ELSE [run EXCEPT !.waits = 0]
    BY DEF Watches!Removed, Watches!serverVars
<1>2. /\ run \in [pc : {"down", "loop", "replace", "stopping"}, request : {run.request},
                  remove : SUBSET Path, waits : 0 .. Len(watches), cancelled : BOOLEAN]
      /\ active \in [Path -> 0 .. Len(watches)]
    BY DEF Watches!WatchInv, Watches!Types
<1>3. /\ Len(watches) \in Nat /\ Watches!Watch = 1 .. Len(watches)
      /\ DOMAIN watches = 1 .. Len(watches)
      /\ w \in Watches!Watch
    BY <1>1, <1>2, WatchRange DEF Watches!WatchInv, Watches!Watch
<1>4. /\ x \in Watches!WatchState /\ x.path \in Path /\ active[x.path] = 0 /\ Watches!Session
      /\ Watches!Replacing
    BY <1>1, <1>3, AtWatch DEF Watches!WatchInv, Watches!Replacing
<1>5. {} \in Watches!Objects
    BY WatchSets, FS_EmptySet DEF Watches!Objects
<1>6. y \in Watches!WatchState /\ watches' = [watches EXCEPT ![w] = y]
    BY <1>1, <1>4, <1>5 DEF Watches!Removed, Watches!WatchState
<1>7. /\ watches' \in Seq(Watches!WatchState) /\ Len(watches') = Len(watches)
      /\ DOMAIN watches' = DOMAIN watches /\ Watches!Watch' = Watches!Watch
      /\ watches'[w] = y /\ \A v \in Watches!Watch : v # w => watches'[v] = watches[v]
    BY <1>3, <1>6, SetStep DEF Watches!Set, Watches!WatchInv
<1>8. /\ y.path = x.path /\ y.identity = x.identity /\ y.sizes = {} /\ y.ready = FALSE
      /\ y.rv = x.rv /\ y.pc = x.pc /\ y.held = x.held /\ y.listed = x.listed
      /\ y.failed = x.failed
    BY <1>4 DEF Watches!WatchState
<1>9. view' = [p \in Path |-> view'[p]]
    BY <1>1, <1>4 DEF Watches!WatchInv, Watches!Types
<1>10. Watches!OneSlot'
    BY <1>7, <1>8, ZenonT(60) DEF Watches!WatchInv, Watches!OneSlot
<1>11. \A v \in Watches!Watch' : Watches!Follows(watches'[v], history'[watches'[v].path])
    <2>1. Watches!Follows(x, history[x.path])
        BY <1>3 DEF Watches!WatchInv
    <2>2. Watches!Follows(y, history[x.path])
        BY <1>1, <1>8, <2>1 DEF Watches!Follows
    <2>3. Watches!Follows(watches'[w], history'[watches'[w].path])
        BY <1>1, <1>7, <1>8, <2>2
    <2>4. ASSUME NEW v \in Watches!Watch, v # w PROVE Watches!Follows(watches'[v],
    history'[watches'[v].path])
        BY <1>1, <1>7, <2>4 DEF Watches!WatchInv
    <2>5. QED BY <1>7, <2>3, <2>4
<1>12. /\ run'.waits = 0 /\ run'.pc \in {"replace", "stopping"}
       /\ run'.pc = "replace" => run'.request = run.request /\ run'.remove = run.remove
       /\ run'.pc = "stopping" => run'.request = Watches!Unassigned /\ run'.remove = {}
       /\ run' \in [pc : {"down", "loop", "replace", "stopping"}, request : {run'.request},
                    remove : SUBSET Path, waits : 0 .. Len(watches), cancelled : BOOLEAN]
    <2>1. 0 \in 0 .. Len(watches)
        BY <1>3
    <2>2. CASE fails
        <3>1. run' = [pc |-> "stopping", request |-> Watches!Unassigned, remove |-> {},
        waits |-> 0,
                      cancelled |-> TRUE]
            BY <1>1, <1>2, <2>2 DEF Watches!Stop
        <3>2. QED BY <2>1, <3>1
    <2>3. CASE ~fails
        BY <1>1, <1>2, <2>1, <2>3
    <2>4. QED BY <2>2, <2>3
<1>13. Watches!Types' /\ Watches!Quiet'
    <2>1. Watches!IsAssignment(run'.request)
        BY <1>12, WatchSets, FS_EmptySet DEF Watches!WatchInv, Watches!Types,
           Watches!IsAssignment, Watches!Unassigned
    <2>2. Watches!Types'
        BY <1>1, <1>7, <1>9, <1>12, <2>1 DEF Watches!WatchInv, Watches!Types
    <2>3. QED BY <1>12, <2>2 DEF Watches!Quiet
<1>14. ASSUME run'.pc = "replace" PROVE Watches!Session' /\ Watches!Replacing'
    <2>1. /\ Watches!Cardinality(Watches!Counted(watches')) =
                Watches!Cardinality(Watches!Counted(watches)) - Watches!Cardinality(x.sizes)
          /\ Watches!Cardinality(Watches!Counted(watches)) \in Nat
          /\ Watches!Cardinality(x.sizes) \in Nat
        <3>1. \A v \in Watches!Watch : Watches!IsFiniteSet(watches[v].sizes)
            BY AtWatch DEF Watches!WatchInv, Watches!WatchState, Watches!Objects
        <3>2. Watches!IsFiniteSet(watches'[w].sizes) /\ Watches!Cardinality(watches'[w].sizes) = 0
            BY <1>7, <1>8, WatchSets, FS_EmptySet
        <3>3. \A v \in Watches!Watch : v # w => watches'[v].sizes = watches[v].sizes
            BY <1>7
        <3>4. /\ Len(watches) \in Nat /\ DOMAIN watches = 1 .. Len(watches)
              /\ DOMAIN watches' = 1 .. Len(watches) /\ w \in 1 .. Len(watches)
              /\ Watches!Watch = 1 .. Len(watches)
            BY <1>3, <1>7
        <3> HIDE DEF w, x, y
        <3>5. /\ Watches!Cardinality(Watches!Counted(watches)) \in Nat
              /\ Watches!Cardinality(watches[w].sizes) \in Nat
              /\ Watches!Cardinality(Watches!Counted(watches')) = Watches!Cardinality(Watches!Counted(watches))
                    - Watches!Cardinality(watches[w].sizes) + Watches!Cardinality(watches'[w].sizes)
            <4>1. OneChanges(watches, watches', w, Len(watches))
                BY ONLY <3>1, <3>2, <3>3, <3>4 DEF OneChanges
            <4>2. QED BY ONLY <4>1, CountedStep
        <3> USE DEF x
        <3>6. QED BY <3>2, <3>5
    <2>2. total' = Watches!Cardinality(Watches!Counted(watches')) /\ total' <= MaxObjects
        <3>1. MaxObjects \in Nat
            BY DEF Watches!Bounds
        <3>2. total = Watches!Cardinality(Watches!Counted(watches)) /\ total <= MaxObjects
            BY <1>4 DEF Watches!Session
        <3> HIDE DEF x
        <3>3. QED BY ONLY <1>1, <2>1, <3>1, <3>2
    <2>3. ASSUME NEW q \in Path, active[q] # 0
          PROVE  /\ watches'[active[q]].path = q
                 /\ Watches!Shows(view'[q], watches'[active[q]], history[q])
        <3>1. /\ active[q] \in Watches!Watch /\ watches[active[q]].path = q
              /\ Watches!Shows(view[q], watches[active[q]], history[q])
            BY <1>2, <1>3, <1>4, <2>3 DEF Watches!Session
        <3>2. active[q] # w /\ q # x.path
            BY <1>4, <2>3, <3>1
        <3>3. view'[q] = view[q] /\ watches'[active[q]] = watches[active[q]]
            BY <1>1, <1>7, <3>1, <3>2 DEF Watches!WatchInv, Watches!Types
        <3>4. QED BY <3>1, <3>3
    <2>4. ASSUME NEW q \in Path, active[q] = 0 PROVE view'[q] = Watches!NoView
        <3>1. CASE q = x.path
            BY <1>1, <3>1 DEF Watches!WatchInv, Watches!Types
        <3>2. CASE q # x.path
            BY <1>1, <1>4, <2>4, <3>2 DEF Watches!WatchInv, Watches!Types, Watches!Session
        <3>3. QED BY <3>1, <3>2
    <2>5. ASSUME NEW v \in Watches!Watch,
    watches'[v].pc # "done" PROVE active[watches'[v].path] = v
        <3>1. v # w
            BY <1>1, <1>7, <1>8, <2>5
        <3>2. QED BY <1>4, <1>7, <2>5, <3>1 DEF Watches!Session
    <2>6. Watches!Session'
        BY <1>1, <1>7, <1>12, <2>2, <2>3, <2>4, <2>5 DEF Watches!Session
    <2>7. \A q \in Path : active[q] # 0 => /\ active[q] \in Watches!Watch
                                           /\ watches'[active[q]].identity = watches[active[q]].identity
        <3>1. \A v \in Watches!Watch : watches'[v].identity = watches[v].identity
            BY <1>7, <1>8
        <3>2. \A q \in Path : active[q] # 0 => active[q] \in Watches!Watch
            BY <1>2, <1>3
        <3>3. QED BY <3>1, <3>2
    <2>8. Watches!Replacing'
        BY <1>1, <1>4, <1>12, <1>14, <2>7 DEF Watches!Replacing
    <2>9. QED BY <2>6, <2>8
<1>15. QED BY <1>10, <1>11, <1>12, <1>13, <1>14 DEF Watches!WatchInv

\* What the order of the new watches makes of the list of watches.
Started(order, request, n, c) ==
    /\ watches' \in Seq(Watches!WatchState) /\ Len(watches') = n + c
    /\ \A v \in 1 .. n : watches'[v] = watches[v]
    /\ \A i \in 1 .. c : /\ order[i] \in DOMAIN request /\ active[order[i]] = 0
                         /\ watches'[n + i] = Watches!NewWatch(order[i], request[order[i]])
                         /\ active'[order[i]] = n + i
    /\ \A p \in Path : \/ active'[p] = active[p] /\ (p \in DOMAIN request => active[p] # 0)
                       \/ \E i \in 1 .. c : p = order[i]

LEMMA StartedStep ==
    ASSUME Watches!WatchInv, Watches!StartWatches
    PROVE  \E c \in Nat : \E order \in [1 .. c -> DOMAIN run.request] :
              Started(order, run.request, Len(watches), c)
<1> DEFINE request == run.request
           new == {p \in DOMAIN request : active[p] = 0}
           n == Len(watches)
           c == Watches!Cardinality(new)
<1>1. /\ Watches!IsFiniteSet(new) /\ c \in Nat /\ new \subseteq Path /\ n \in Nat
      /\ \A p \in DOMAIN request : request[p] \in Identity
    BY WatchSets, FS_Subset, FS_CardinalityType, LenProperties
    DEF Watches!WatchInv, Watches!Types, Watches!IsAssignment
<1> HIDE DEF c
<1> DEFINE P(f, D) ==
         /\ \A p \in new : \E i \in D : f[i] = p
         /\ watches' = watches \o [i \in D |-> Watches!NewWatch(f[i], request[f[i]])]
         /\ active' = [p \in Path |-> IF p \in new
                           THEN n + CHOOSE i \in D : f[i] = p ELSE active[p]]
<1>0. PICK order \in [1 .. c -> new] : P(order, DOMAIN order)
    BY DEF Watches!StartWatches, c
<1>2. P(order, 1 .. c)
    <2>1. DOMAIN order = 1 .. c
        OBVIOUS
    <2> HIDE DEF P
    <2>2. QED BY ONLY <1>0, <2>1
<1>3. \A i, j \in 1 .. c : order[i] = order[j] => i = j
    <2>1. order \in Surjection(1 .. c, new)
        BY <1>2 DEF Surjection
    <2>2. Watches!IsFiniteSet(1 .. c) /\ Watches!Cardinality(1 .. c) = c
        BY <1>1, WatchSets, FS_Interval, 1 \in Int, c \in Int
    <2>3. Watches!Cardinality(1 .. c) = Watches!Cardinality(new)
        BY <2>2 DEF c
    <2> HIDE DEF new
    <2>4. order \in Injection(1 .. c, new)
        BY ONLY <2>1, <2>2, <2>3, WatchSets, FS_SurjSameCardinalityImpliesInj
    <2>5. QED BY <2>4 DEF Injection, IsInjective
<1> DEFINE fresh == [i \in 1 .. c |-> Watches!NewWatch(order[i], request[order[i]])]
<1>4. fresh \in Seq(Watches!WatchState) /\ Len(fresh) = c
    <2>1. {} \in Watches!Objects
        BY WatchSets, FS_EmptySet DEF Watches!Objects
    <2>2. ASSUME NEW i \in 1 .. c PROVE Watches!NewWatch(order[i],
    request[order[i]]) \in Watches!WatchState
        <3>1. order[i] \in Path /\ request[order[i]] \in Identity
            BY <1>1
        <3> HIDE DEF request
        <3>2. QED BY <2>1, <3>1 DEF Watches!NewWatch, Watches!WatchState
    <2> HIDE DEF new
    <2>3. fresh \in [1 .. c -> Watches!WatchState]
        BY ONLY <2>2
    <2>4. QED BY ONLY <1>1, <2>3
<1>5. watches \in Seq(Watches!WatchState)
    BY DEF Watches!WatchInv, Watches!Types
<1>6. /\ watches' \in Seq(Watches!WatchState) /\ Len(watches') = n + c
      /\ \A i \in 1 .. n + c : watches'[i] = IF i <= n THEN watches[i] ELSE fresh[i - n]
    <2>1. watches' = watches \o fresh
        BY <1>2
    <2> HIDE DEF fresh
    <2>2. QED BY ONLY <1>4, <1>5, <2>1, ConcatProperties
<1>7. ASSUME NEW i \in 1 .. c
      PROVE  /\ order[i] \in DOMAIN request /\ active[order[i]] = 0
             /\ watches'[n + i] = Watches!NewWatch(order[i], request[order[i]])
             /\ active'[order[i]] = n + i
    <2>1. order[i] \in new /\ order[i] \in Path
        BY <1>1
    <2>2. watches'[n + i] = fresh[i]
        <3>1. n + i \in 1 .. n + c /\ ~(n + i <= n) /\ (n + i) - n = i
            BY <1>1
        <3> HIDE DEF fresh, n
        <3>2. QED BY <1>6, <3>1
    <2>3. (CHOOSE j \in 1 .. c : order[j] = order[i]) = i
        BY <1>3
    <2>4. active'[order[i]] = n + i
        BY <1>2, <2>1, <2>3
    <2>5. QED BY <2>1, <2>2, <2>4
<1>8. ASSUME NEW p \in Path
      PROVE  \/ active'[p] = active[p] /\ (p \in DOMAIN request => active[p] # 0)
             \/ \E i \in 1 .. c : p = order[i]
    BY <1>2
<1>9. ASSUME NEW v \in 1 .. n PROVE watches'[v] = watches[v]
    <2>1. v \in 1 .. n + c /\ v <= n
        BY <1>1
    <2> HIDE DEF fresh, n
    <2>2. QED BY ONLY <1>6, <2>1
<1>10. order \in [1 .. c -> DOMAIN request]
    OBVIOUS
<1> HIDE DEF new, n, request
<1>11. Started(order, request, n, c)
    BY <1>6, <1>7, <1>8, <1>9 DEF Started
<1>12. QED BY <1>1, <1>10, <1>11 DEF n, request

\* The watches that are missing start.
LEMMA StartStep == ASSUME Watches!WatchInv, Watches!StartWatches PROVE Watches!WatchInv'
<1> DEFINE n == Len(watches)
           request == run.request
<1>0. PICK c \in Nat : \E order \in [1 .. c -> DOMAIN request] : Started(order, request, n, c)
    BY StartedStep
<1>1. PICK order \in [1 .. c -> DOMAIN request] : Started(order, request, n, c)
    BY <1>0
<1>2. /\ run.pc = "replace" /\ run.waits = 0 /\ run.remove = {}
      /\ history' = history /\ floor' = floor /\ total' = total /\ view' = view
      /\ run' = [run EXCEPT !.pc = "loop"]
    BY DEF Watches!StartWatches, Watches!serverVars
<1>3. /\ Watches!Session /\ Watches!Replacing
      /\ n \in Nat /\ Watches!Watch = 1 .. n /\ DOMAIN watches = 1 .. n
      /\ active \in [Path -> 0 .. n] /\ Watches!IsAssignment(request)
    BY <1>2, WatchRange DEF Watches!WatchInv, Watches!Types, Watches!Watch
<1>4. /\ run'.pc = "loop" /\ run'.request = request /\ run'.remove = {} /\ run'.waits = 0
      /\ run' \in [pc : {"down", "loop", "replace", "stopping"}, request : {run'.request},
                   remove : SUBSET Path, waits : {0}, cancelled : BOOLEAN]
    <2>1. run \in [pc : {"down", "loop", "replace", "stopping"}, request : {run.request},
                   remove : SUBSET Path, waits : 0 .. Len(watches), cancelled : BOOLEAN]
        BY DEF Watches!WatchInv, Watches!Types
    <2>2. QED BY <1>2, <2>1
<1> HIDE DEF n, request
<1>5. /\ Watches!Watch' = 1 .. n + c /\ DOMAIN watches' = 1 .. n + c
      /\ watches' \in Seq(Watches!WatchState)
      /\ Len(watches') = n + c
      /\ \A v \in Watches!Watch : v \in Watches!Watch' /\ watches'[v] = watches[v]
    <2>1. watches' \in Seq(Watches!WatchState) /\ Len(watches') = n + c
        BY <1>1 DEF Started
    <2>2. DOMAIN watches' = 1 .. n + c
        BY <2>1, LenProperties
    <2>3. QED BY <1>1, <1>3, <2>1, <2>2 DEF Started, Watches!Watch
\* A watch of the new session is one of the earlier watches, or a new one.
<1>6. ASSUME NEW v \in Watches!Watch'
      PROVE  \/ v \in Watches!Watch /\ watches'[v] = watches[v]
             \/ \E i \in 1 .. c : v = n + i
    <2>1. v \in 1 .. n \/ (v - n \in 1 .. c /\ v = n + (v - n))
        BY <1>3, <1>5
    <2>2. QED BY <1>3, <1>5, <2>1
<1>7. ASSUME NEW i \in 1 .. c
      PROVE  /\ n + i \in Watches!Watch' /\ n + i # 0 /\ order[i] \in Path
             /\ order[i] \in DOMAIN request
             /\ active[order[i]] = 0 /\ active'[order[i]] = n + i
             /\ watches'[n + i].path = order[i] /\ watches'[n + i].identity = request[order[i]]
             /\ watches'[n + i].pc = "observe" /\ watches'[n + i].rv = 0
             /\ watches'[n + i].listed = 0 /\ ~watches'[n + i].held
             /\ ~watches'[n + i].failed /\ ~watches'[n + i].ready /\ watches'[n + i].sizes = {}
    <2>1. /\ order[i] \in DOMAIN request /\ active[order[i]] = 0
          /\ watches'[n + i] = Watches!NewWatch(order[i], request[order[i]])
          /\ active'[order[i]] = n + i
        BY <1>1 DEF Started
    <2>2. order[i] \in Path /\ n + i \in Watches!Watch' /\ n + i # 0
        BY <1>3, <1>5, <2>1 DEF Watches!IsAssignment
    <2>3. QED BY <2>1, <2>2 DEF Watches!NewWatch
<1>8. ASSUME NEW p \in Path
      PROVE  \/ active'[p] = active[p] /\ (p \in DOMAIN request => active[p] # 0)
             \/ \E i \in 1 .. c : p = order[i]
    BY <1>1 DEF Started
<1>9. Watches!Types'
    <2>1. active' \in [Path -> 0 .. Len(watches')]
        <3>1. \A p \in Path : active'[p] \in 0 .. n + c
            BY <1>3, <1>5, <1>7, <1>8
        <3>2. active' = [p \in Path |-> active'[p]]
            BY DEF Watches!StartWatches
        <3>3. QED BY <1>5, <3>1, <3>2
    <2>2. run' \in [pc : {"down", "loop", "replace", "stopping"}, request : {run'.request},
                    remove : SUBSET Path, waits : 0 .. Len(watches'), cancelled : BOOLEAN]
        <3>1. 0 \in 0 .. Len(watches')
            BY <1>3, <1>5
        <3>2. QED BY ONLY <1>4, <3>1
    <2>3. QED BY <1>2, <1>3, <1>4, <1>5, <2>1, <2>2 DEF Watches!WatchInv, Watches!Types
<1>10. Watches!OneSlot' /\ Watches!Quiet'
    <2>1. \A v \in Watches!Watch' : watches'[v].held => v \in Watches!Watch /\ watches[v].held
        BY <1>6, <1>7
    <2>2. Watches!OneSlot'
        BY <2>1 DEF Watches!WatchInv, Watches!OneSlot
    <2>3. QED BY <1>4, <2>2 DEF Watches!Quiet
<1>11. ASSUME NEW v \in Watches!Watch'
       PROVE  Watches!Follows(watches'[v], history'[watches'[v].path])
    <2>1. CASE v \in Watches!Watch /\ watches'[v] = watches[v]
        BY <1>2, <2>1 DEF Watches!WatchInv
    <2>2. ASSUME NEW i \in 1 .. c, v = n + i PROVE Watches!Follows(watches'[v],
    history'[watches'[v].path])
        <3>1. Len(history[order[i]]) \in Nat
            BY <1>7, LenProperties DEF Watches!WatchInv, Watches!Types
        <3>2. QED BY <1>2, <1>7, <2>2, <3>1 DEF Watches!Follows
    <2>3. QED BY <1>6, <2>1, <2>2
<1>12. Watches!Session'
    <2>1. Watches!Counted(watches') = Watches!Counted(watches)
        <3>1. \A v \in 1 .. n + c :
                 watches'[v].sizes = IF v \in 1 .. n THEN watches[v].sizes ELSE {}
            <4>1. ASSUME NEW v \in Watches!Watch' PROVE
                     watches'[v].sizes = IF v \in 1 .. n THEN watches[v].sizes ELSE {}
                <5>1. CASE v \in 1 .. n
                    BY <1>3, <1>5, <5>1
                <5>2. CASE v \notin 1 .. n
                    BY <1>3, <1>6, <1>7, <5>2
                <5>3. QED BY <5>1, <5>2
            <4>2. QED BY <1>5, <4>1
        <3>2. n + c \in Nat /\ n <= n + c
            BY <1>3
        <3>3. QED BY <1>3, <1>5, <3>1, <3>2, CountedSame
    <2>2. ASSUME NEW p \in Path, active'[p] # 0
          PROVE  /\ watches'[active'[p]].path = p
                 /\ Watches!Shows(view[p], watches'[active'[p]], history[p])
        <3>1. CASE active'[p] = active[p]
            <4>1. active[p] \in Watches!Watch
                BY <1>3, <2>2, <3>1
            <4>2. QED BY <1>3, <1>5, <2>2, <3>1, <4>1 DEF Watches!Session
        <3>2. ASSUME NEW i \in 1 .. c, p = order[i]
              PROVE  /\ watches'[active'[p]].path = p
                     /\ Watches!Shows(view[p], watches'[active'[p]], history[p])
            <4>1. view[p] = Watches!NoView
                BY <1>2, <1>3, <1>7, <3>2 DEF Watches!Session
            <4>2. QED BY <1>7, <3>2, <4>1 DEF Watches!Shows, Watches!NoView
        <3>3. QED BY <1>8, <3>1, <3>2
    <2>3. ASSUME NEW p \in Path, active'[p] = 0 PROVE view[p] = Watches!NoView
        BY <1>2, <1>3, <1>7, <1>8, <2>3 DEF Watches!Session
    <2>4. ASSUME NEW v \in Watches!Watch',
    watches'[v].pc # "done" PROVE active'[watches'[v].path] = v
        <3>1. CASE v \in Watches!Watch /\ watches'[v] = watches[v]
            <4>1. active[watches[v].path] = v /\ v # 0 /\ watches[v].path \in Path
                BY <1>2, <1>3, <2>4, <3>1, AtWatch DEF Watches!Session, Watches!WatchInv
            <4>2. QED BY <1>7, <1>8, <3>1, <4>1
        <3>2. ASSUME NEW i \in 1 .. c, v = n + i PROVE active'[watches'[v].path] = v
            BY <1>7, <3>2
        <3>3. QED BY <1>6, <3>1, <3>2
    <2>5. total' = Watches!Cardinality(Watches!Counted(watches')) /\ total' <= MaxObjects
        BY <1>2, <1>3, <2>1 DEF Watches!Session
    <2>6. history' = history /\ view' = view
        BY <1>2
    <2>7. QED BY ONLY <2>2, <2>3, <2>4, <2>5, <2>6 DEF Watches!Session, Watches!Watch
<1>13. /\ {p \in Path : active'[p] # 0} = DOMAIN request
       /\ \A p \in DOMAIN request : watches'[active'[p]].identity = request[p]
    <2>1. \A p \in Path : active[p] # 0 =>
             /\ p \in DOMAIN request /\ watches[active[p]].identity = request[p]
             /\ active[p] \in Watches!Watch
        BY <1>2, <1>3 DEF Watches!Replacing, request
    <2>2. \A p \in Path : (active'[p] # 0) <=> p \in DOMAIN request
        BY <1>7, <1>8, <2>1
    <2>3. DOMAIN request \subseteq Path
        BY <1>3 DEF Watches!IsAssignment
    <2>4. ASSUME NEW p \in DOMAIN request PROVE watches'[active'[p]].identity = request[p]
        BY <1>5, <1>7, <1>8, <2>1, <2>3
    <2>5. QED BY <2>2, <2>3, <2>4
<1>14. QED BY <1>4, <1>9, <1>10, <1>11, <1>12, <1>13 DEF Watches!WatchInv

-----------------------------------------------------------------------------
\* Run counts the objects of a watch and tells the consumer.
Reported(w, y, v) ==
    /\ Watches!Set(w, y) /\ active[watches[w].path] = w
    /\ UNCHANGED <<Watches!serverVars, active>>
    /\ y.path = watches[w].path /\ y.identity = watches[w].identity
    /\ y.held => watches[w].held
    /\ Watches!Follows(y, history[y.path]) /\ Watches!Shows(v, y, history[y.path])
    /\ total' = total - Watches!Cardinality(watches[w].sizes) + Watches!Cardinality(y.sizes)
    /\ total' <= MaxObjects /\ view' = [view EXCEPT ![y.path] = v]

LEMMA ReportStep ==
    ASSUME Watches!WatchInv, run.pc = "loop", run' \in {run, Watches!Stop},
    NEW w \in Watches!Watch, NEW y \in Watches!WatchState,
           NEW v, Reported(w, y, v)
    PROVE  Watches!WatchInv'
<1> DEFINE x == watches[w]
<1>1. /\ watches' \in Seq(Watches!WatchState) /\ Len(watches') = Len(watches)
      /\ DOMAIN watches' = DOMAIN watches /\ Watches!Watch' = Watches!Watch
      /\ watches'[w] = y /\ \A u \in Watches!Watch : u # w => watches'[u] = watches[u]
    BY SetStep DEF Watches!WatchInv, Reported
<1>2. /\ history' = history /\ floor' = floor /\ active' = active
    BY DEF Reported, Watches!serverVars
<1>3. /\ Len(watches) \in Nat /\ DOMAIN watches = 1 .. Len(watches)
      /\ Watches!Watch = DOMAIN watches
      /\ x \in Watches!WatchState /\ x.path \in Path
    BY AtWatch, WatchRange DEF Watches!WatchInv, Watches!Watch
<1>4. /\ y.path = x.path /\ y.identity = x.identity /\ active[x.path] = w /\ w # 0
      /\ y.held => x.held
    BY <1>3 DEF Reported
<1>5. /\ view' = [p \in Path |-> view'[p]] /\ view'[x.path] = v
      /\ \A p \in Path : p # x.path => view'[p] = view[p]
    BY <1>3, <1>4 DEF Watches!WatchInv, Watches!Types, Reported
<1>6. Watches!OneSlot'
    BY <1>1, <1>4 DEF Watches!WatchInv, Watches!OneSlot
<1>7. ASSUME NEW u \in Watches!Watch'
      PROVE  Watches!Follows(watches'[u], history'[watches'[u].path])
    <2>1. CASE u = w
        BY <1>1, <1>2, <2>1 DEF Reported
    <2>2. CASE u # w
        BY <1>1, <1>2, <2>2 DEF Watches!WatchInv
    <2>3. QED BY <2>1, <2>2
<1>8. run \in [pc : {"down", "loop", "replace", "stopping"}, request : {run.request},
               remove : SUBSET Path, waits : 0 .. Len(watches), cancelled : BOOLEAN]
    BY DEF Watches!WatchInv, Watches!Types
<1>9. CASE run' = Watches!Stop
    <2>1. /\ run'.pc = "stopping" /\ run'.request = Watches!Unassigned /\ run'.remove = {}
          /\ run'.waits = 0
          /\ run' \in [pc : {"down", "loop", "replace", "stopping"}, request : {run'.request},
                       remove : SUBSET Path, waits : 0 .. Len(watches), cancelled : BOOLEAN]
        <3>1. 0 \in 0 .. Len(watches)
            BY <1>3
        <3>2. run' = [pc |-> "stopping", request |-> Watches!Unassigned, remove |-> {},
        waits |-> 0,
                      cancelled |-> TRUE]
            BY <1>8, <1>9 DEF Watches!Stop
        <3>3. QED BY <3>1, <3>2
    <2>2. Watches!IsAssignment(Watches!Unassigned)
        BY WatchSets, FS_EmptySet DEF Watches!IsAssignment, Watches!Unassigned
    <2>3. Watches!Types'
        BY <1>1, <1>2, <1>5, <2>1, <2>2 DEF Watches!WatchInv, Watches!Types
    <2>4. Watches!Quiet'
        BY <2>1 DEF Watches!Quiet
    <2>5. QED BY <1>6, <1>7, <2>1, <2>3, <2>4 DEF Watches!WatchInv
<1>10. CASE run' = run
    <2>1. Watches!Types'
        BY <1>1, <1>2, <1>5, <1>10 DEF Watches!WatchInv, Watches!Types
    <2>2. Watches!Quiet'
        BY <1>10 DEF Watches!WatchInv, Watches!Quiet
    <2>3. Watches!Session /\ run.waits = 0
        BY DEF Watches!WatchInv, Watches!Quiet
    <2>4. total' = Watches!Cardinality(Watches!Counted(watches')) /\ total' <= MaxObjects
        <3>1. \A u \in Watches!Watch : Watches!IsFiniteSet(watches[u].sizes)
            BY AtWatch DEF Watches!WatchInv, Watches!WatchState, Watches!Objects
        <3>2. Watches!IsFiniteSet(watches'[w].sizes)
            BY <1>1 DEF Watches!WatchState, Watches!Objects
        <3>3. \A u \in Watches!Watch : u # w => watches'[u].sizes = watches[u].sizes
            BY <1>1
        <3> DEFINE n == Len(watches)
        <3>4. /\ n \in Nat /\ DOMAIN watches = 1 .. n /\ DOMAIN watches' = 1 .. n
              /\ w \in 1 .. n /\ Watches!Watch = 1 .. n
            BY <1>1, <1>3
        <3> HIDE DEF n
        <3>5. /\ \A u \in 1 .. n : Watches!IsFiniteSet(watches[u].sizes)
              /\ \A u \in 1 .. n : u # w => watches'[u].sizes = watches[u].sizes
            BY ONLY <3>1, <3>3, <3>4
        <3>6. /\ Watches!Cardinality(Watches!Counted(watches)) \in Nat
              /\ Watches!Cardinality(watches[w].sizes) \in Nat
              /\ Watches!Cardinality(Watches!Counted(watches')) = Watches!Cardinality(Watches!Counted(watches))
                    - Watches!Cardinality(watches[w].sizes) + Watches!Cardinality(watches'[w].sizes)
            <4>1. OneChanges(watches, watches', w, n)
                BY ONLY <3>2, <3>4, <3>5 DEF OneChanges
            <4>2. QED BY ONLY <4>1, CountedStep
        <3>7. QED BY <1>1, <2>3, <3>6 DEF Watches!Session, Reported
    <2>5. ASSUME NEW p \in Path, active[p] # 0
          PROVE  /\ watches'[active[p]].path = p
                 /\ Watches!Shows(view'[p], watches'[active[p]], history[p])
        <3>1. /\ active[p] \in Watches!Watch /\ watches[active[p]].path = p
              /\ Watches!Shows(view[p], watches[active[p]], history[p])
            BY <1>3, <2>3, <2>5 DEF Watches!Session, Watches!WatchInv, Watches!Types
        <3>2. CASE p = x.path
            BY <1>1, <1>4, <1>5, <3>2 DEF Reported
        <3>3. CASE p # x.path
            BY <1>1, <1>5, <3>1, <3>3
        <3>4. QED BY <3>2, <3>3
    <2>6. ASSUME NEW p \in Path, active[p] = 0 PROVE view'[p] = Watches!NoView
        BY <1>4, <1>5, <2>3, <2>6 DEF Watches!Session
    <2>7. ASSUME NEW u \in Watches!Watch,
    watches'[u].pc # "done" PROVE active[watches'[u].path] = u
        <3>1. CASE u = w
            BY <1>1, <1>4, <3>1
        <3>2. CASE u # w
            <4>1. watches'[u] = watches[u] /\ u # 0
                BY <1>1, <1>3, <3>2
            <4>2. QED BY <2>3, <2>7, <4>1 DEF Watches!Session
        <3>3. QED BY <3>1, <3>2
    <2>8. Watches!Session'
        BY <1>1, <1>2, <1>10, <2>4, <2>5, <2>6, <2>7 DEF Watches!Session
    <2>9. /\ {p \in Path : active[p] # 0} = DOMAIN run.request
          /\ \A p \in DOMAIN run.request : watches'[active[p]].identity = run.request[p]
        <3>1. \A u \in Watches!Watch : watches'[u].identity = watches[u].identity
            BY <1>1, <1>4
        <3>2. \A p \in Path : active[p] # 0 => active[p] \in Watches!Watch
            BY <1>3 DEF Watches!WatchInv, Watches!Types
        <3>3. QED BY <3>1, <3>2 DEF Watches!WatchInv
    <2>10. QED BY <1>2, <1>6, <1>7, <1>10, <2>1, <2>2, <2>8, <2>9 DEF Watches!WatchInv
<1>11. QED BY <1>9, <1>10

\* While the loop runs, a watch that is not done is the one of its path.
LEMMA InSession ==
    ASSUME Watches!WatchInv, run.pc = "loop", NEW w \in Watches!Watch, watches[w].pc # "done"
    PROVE  /\ Watches!Session /\ active[watches[w].path] = w
           /\ Watches!Shows(view[watches[w].path], watches[w], history[watches[w].path])
           /\ Watches!Cardinality(watches[w].sizes) \in Nat
           /\ Watches!Cardinality(watches[w].sizes) <= total
           /\ total \in Nat
<1>1. /\ Watches!Session /\ run.waits = 0 /\ w # 0 /\ watches[w].path \in Path
      /\ watches[w] \in Watches!WatchState
    BY WatchRange, AtWatch DEF Watches!WatchInv, Watches!Quiet
<1>2. active[watches[w].path] = w
    BY <1>1 DEF Watches!Session
<1>3. Watches!Shows(view[watches[w].path], watches[w], history[watches[w].path])
    BY <1>1, <1>2 DEF Watches!Session
<1> DEFINE n == Len(watches)
           none == [v \in 1 .. n |-> [sizes |-> IF v = w THEN {} ELSE watches[v].sizes]]
<1>4. /\ \A v \in 1 .. n : Watches!IsFiniteSet(watches[v].sizes)
      /\ n \in Nat /\ DOMAIN watches = 1 .. n /\ w \in 1 .. n
    BY AtWatch, WatchRange DEF Watches!WatchInv, Watches!WatchState, Watches!Objects,
       Watches!Watch
<1>5. /\ DOMAIN none = 1 .. n /\ none[w].sizes = {}
      /\ \A v \in 1 .. n : v # w => none[v].sizes = watches[v].sizes
    BY <1>4
<1>6. Watches!IsFiniteSet({}) /\ Watches!Cardinality({}) = 0
    BY WatchSets, FS_EmptySet
<1> HIDE DEF none, n
<1>7. /\ Watches!Cardinality(Watches!Counted(watches)) \in Nat
      /\ Watches!Cardinality(Watches!Counted(none)) \in Nat
      /\ Watches!Cardinality(watches[w].sizes) \in Nat
      /\ Watches!Cardinality(Watches!Counted(none)) = Watches!Cardinality(Watches!Counted(watches))
            - Watches!Cardinality(watches[w].sizes) + Watches!Cardinality(none[w].sizes)
    <2>1. OneChanges(watches, none, w, n)
        BY ONLY <1>4, <1>5, <1>6 DEF OneChanges
    <2>2. QED BY ONLY <2>1, CountedStep
<1>8. QED BY <1>1, <1>2, <1>3, <1>5, <1>6, <1>7 DEF Watches!Session

\* Run receives the end of a watch.
LEMMA ResultStep ==
    ASSUME Watches!Bounds, Watches!WatchInv, NEW w \in Watches!Watch, NEW fails \in BOOLEAN,
    Watches!Result(w, fails)
    PROVE  Watches!WatchInv'
<1> DEFINE x == watches[w]
           y == [x EXCEPT !.pc = "done", !.cancelled = TRUE, !.failed = TRUE,
                          !.rv = 0, !.sizes = {}, !.ready = FALSE]
           v == [kind |-> "reset", identity |-> x.identity, objects |-> {}]
<1>1. run.pc = "loop" /\ x.pc = "result"
    BY DEF Watches!Result
<1>2. /\ active[x.path] = w /\ Watches!Cardinality(x.sizes) \in Nat
      /\ Watches!Cardinality(x.sizes) <= total
      /\ total \in Nat /\ total <= MaxObjects
    BY <1>1, InSession DEF Watches!Session
<1>3. /\ Watches!Set(w, y) /\ total' = total - Watches!Cardinality(x.sizes)
      /\ view' = [view EXCEPT ![x.path] = v] /\ run' \in {run, Watches!Stop}
      /\ UNCHANGED <<Watches!serverVars, active>>
    BY <1>2 DEF Watches!Result
<1>4. /\ x \in Watches!WatchState /\ Watches!Follows(x, history[x.path])
      /\ Len(history[x.path]) \in Nat
    BY AtWatch DEF Watches!WatchInv
<1>5. {} \in Watches!Objects /\ Watches!Cardinality({}) = 0
    BY WatchSets, FS_EmptySet DEF Watches!Objects
<1>6. y \in Watches!WatchState
    BY <1>4, <1>5 DEF Watches!WatchState
<1>7. /\ y.path = x.path /\ y.identity = x.identity /\ y.held = x.held /\ y.sizes = {}
      /\ y.rv = 0 /\ y.listed = x.listed /\ y.pc = "done" /\ y.failed /\ ~y.ready
    BY <1>4 DEF Watches!WatchState
<1>8. Watches!Follows(y, history[y.path]) /\ Watches!Shows(v, y, history[y.path])
    BY <1>4, <1>7 DEF Watches!Follows, Watches!Shows
<1>9. /\ total' = total - Watches!Cardinality(x.sizes) + Watches!Cardinality(y.sizes)
      /\ total' <= MaxObjects
    <2>1. MaxObjects \in Nat
        BY DEF Watches!Bounds
    <2>2. Watches!Cardinality(y.sizes) = 0
        BY <1>5, <1>7
    <2> HIDE DEF x, y
    <2>3. QED BY ONLY <1>2, <1>3, <2>1, <2>2
<1> HIDE DEF y, v
<1>10. Reported(w, y, v)
    BY <1>2, <1>3, <1>7, <1>8, <1>9 DEF Reported
<1>11. QED BY <1>1, <1>3, <1>6, <1>10, ReportStep

\* What a change makes of what the consumer knows and the watch counts.
LEMMA AppliedStep ==
    ASSUME Watches!WatchInv, run.pc = "loop", NEW w \in Watches!Watch,
           watches[w].pc \in {"reset", "replace", "event"},
           watches[w].pc = "event" => watches[w].ready
    PROVE  LET x == watches[w]
               h == history[x.path]
           IN  /\ Watches!Applied(w, x.sizes) \in Watches!Objects
               /\ Watches!Applied(w, view[x.path].objects) = Watches!Applied(w, x.sizes)
               /\ x.pc = "reset" => Watches!Applied(w, x.sizes) = {}
               /\ x.pc = "replace" => /\ Watches!Applied(w, x.sizes) = h[x.listed]
                                      /\ x.listed \in 1 .. Len(h)
               /\ x.pc = "event" => /\ Watches!Applied(w, x.sizes) = h[x.rv + 1]
                                    /\ x.rv \in 1 .. Len(h) /\ x.rv + 1 \in 1 .. Len(h)
<1> DEFINE x == watches[w]
           h == history[x.path]
<1>1. /\ x \in Watches!WatchState /\ Watches!Follows(x, h) /\ Len(h) \in Nat
      /\ \A k \in 1 .. Len(h) : h[k] \in Watches!Objects
    BY AtWatch DEF Watches!WatchInv
<1>2. Watches!Shows(view[x.path], x, h)
    BY InSession
<1>3. x.rv \in Nat /\ x.listed \in Nat
    BY <1>1 DEF Watches!WatchState
<1>4. CASE x.pc = "reset"
    <2>1. \A objects : Watches!Applied(w, objects) = {}
        BY <1>4 DEF Watches!Applied
    <2>2. {} \in Watches!Objects
        BY WatchSets, FS_EmptySet DEF Watches!Objects
    <2>3. QED BY <1>4, <2>1, <2>2
<1>5. CASE x.pc = "replace"
    <2>1. \A objects : Watches!Applied(w, objects) = h[x.listed]
        BY <1>5 DEF Watches!Applied
    <2>2. x.listed \in 1 .. Len(h)
        BY <1>1, <1>3, <1>5 DEF Watches!Follows
    <2>3. h[x.listed] \in Watches!Objects
        BY <1>1, <2>2
    <2> HIDE DEF h, x
    <2>4. x.pc # "reset" /\ x.pc # "event"
        BY <1>5
    <2>5. QED BY <1>5, <2>1, <2>2, <2>3, <2>4 DEF h, x
<1>6. CASE x.pc = "event"
    <2>1. x.rv \in 1 .. Len(h) /\ x.rv + 1 \in 1 .. Len(h) /\ x.rv # 0 /\ x.ready
        BY <1>1, <1>3, <1>6 DEF Watches!Follows
    <2>2. x.sizes = h[x.rv] /\ view[x.path].objects = h[x.rv]
        BY <1>2, <2>1 DEF Watches!Shows
    <2>3. \A objects : Watches!Applied(w, objects) =
             (objects \ (h[x.rv] \ h[x.rv + 1])) \cup (h[x.rv + 1] \ h[x.rv])
        BY <1>6 DEF Watches!Applied
    <2>4. Watches!Applied(w, h[x.rv]) = h[x.rv + 1]
        BY <2>3
    <2>5. h[x.rv + 1] \in Watches!Objects
        BY <1>1, <2>1
    <2>6. x.pc # "reset" /\ x.pc # "replace"
        BY <1>6
    <2> HIDE DEF h, x
    <2>7. QED BY <1>6, <2>1, <2>2, <2>4, <2>5, <2>6 DEF h, x
<1>7. QED BY <1>4, <1>5, <1>6

\* Run receives a change.
LEMMA DeliverStep ==
    ASSUME Watches!Bounds, Watches!WatchInv, NEW w \in Watches!Watch, NEW fails \in BOOLEAN,
    Watches!Deliver(w, fails)
    PROVE  Watches!WatchInv'
<1> DEFINE x == watches[w]
           h == history[x.path]
           S == Watches!Applied(w, x.sizes)
           y == CASE x.pc = "reset" -> [x EXCEPT !.pc = "list", !.sizes = {}, !.ready = FALSE]
                  [] x.pc = "replace" ->
                        [x EXCEPT !.pc = "watch", !.sizes = S, !.ready = TRUE,
                                  !.rv = x.listed, !.listed = 0, !.held = FALSE]
                  [] x.pc = "event" -> [x EXCEPT !.pc = "watch", !.sizes = S, !.rv = @ + 1]
           v == [kind |-> IF x.pc = "reset" THEN "reset" ELSE "baseline",
                 identity |-> x.identity, objects |-> Watches!Applied(w, view[x.path].objects)]
<1>1. /\ run.pc = "loop" /\ x.pc \in {"reset", "replace", "event"}
      /\ UNCHANGED <<Watches!serverVars, active>>
    BY DEF Watches!Deliver
<1>2. /\ active[x.path] = w /\ Watches!Cardinality(x.sizes) \in Nat
      /\ Watches!Cardinality(x.sizes) <= total
      /\ total \in Nat /\ total <= MaxObjects /\ Watches!Shows(view[x.path], x, h)
    BY <1>1, InSession DEF Watches!Session
<1>3. /\ x \in Watches!WatchState /\ Watches!Follows(x, h) /\ Len(h) \in Nat /\ x.path \in Path
    BY AtWatch DEF Watches!WatchInv
<1>4. view = [p \in Path |-> view[p]]
    BY DEF Watches!WatchInv, Watches!Types
<1>5. CASE ~Watches!Accounted(w)
    <2>1. run' = Watches!Stop /\ UNCHANGED <<watches, view>>
        BY <1>2, <1>5 DEF Watches!Deliver
    <2>2. view' = [p \in Path |-> view'[p]]
        BY <1>4, <2>1
    <2>3. UNCHANGED <<Watches!serverVars, watches, active>>
        BY <1>1, <2>1
    <2>4. QED BY <2>1, <2>2, <2>3, StopStep
<1>6. CASE Watches!Accounted(w)
    <2>1. /\ run' \in {run, Watches!Stop}
          /\ total' = total - Watches!Cardinality(x.sizes) + Watches!Cardinality(S)
          /\ view' = [view EXCEPT ![x.path] = v] /\ Watches!Set(w, y)
        <3>1. /\ run' = IF fails THEN Watches!Stop ELSE run
              /\ total' = total - Watches!Cardinality(x.sizes) + Watches!Cardinality(S)
              /\ view' = [view EXCEPT ![x.path] =
                    [kind |-> IF x.pc = "reset" THEN "reset" ELSE "baseline",
                     identity |-> x.identity, objects |-> Watches!Applied(w, @.objects)]]
              /\ Watches!Set(w, y)
            BY <1>2, <1>6 DEF Watches!Deliver
        <3>2. view' = [view EXCEPT ![x.path] = v]
            BY ONLY <3>1
        <3>3. QED BY <3>1, <3>2
    <2>2. x.pc = "event" => x.ready
        BY <1>6 DEF Watches!Accounted
    <2>3. /\ S \in Watches!Objects /\ Watches!Applied(w, view[x.path].objects) = S
          /\ x.pc = "reset" => S = {}
          /\ x.pc = "replace" => S = h[x.listed] /\ x.listed \in 1 .. Len(h)
          /\ x.pc = "event" => S = h[x.rv + 1] /\ x.rv \in 1 .. Len(h) /\ x.rv + 1 \in 1 .. Len(h)
        BY <1>1, <2>2, AppliedStep
    <2>4. x.pc = "replace" \/ S \ x.sizes # {}
              => total - Watches!Cardinality(x.sizes) + Watches!Cardinality(S) <= MaxObjects
        BY <1>6 DEF Watches!Accounted
    <2> HIDE DEF S
    <2>5. total' <= MaxObjects
        <3>1. Watches!IsFiniteSet(x.sizes) /\ Watches!IsFiniteSet(S)
            BY <1>3, <2>3 DEF Watches!WatchState, Watches!Objects
        <3>2. Watches!Cardinality(S) \in Nat
            BY <3>1, WatchSets, FS_CardinalityType
        <3>3. S \ x.sizes = {} => Watches!Cardinality(S) <= Watches!Cardinality(x.sizes)
            <4>1. ASSUME S \ x.sizes = {} PROVE S \subseteq x.sizes
                BY <4>1
            <4>2. QED BY <3>1, <4>1, WatchSets, FS_Subset
        <3>4. MaxObjects \in Nat
            BY DEF Watches!Bounds
        <3> HIDE DEF x
        <3>5. QED BY ONLY <1>2, <2>1, <2>4, <3>2, <3>3, <3>4
    <2>6. /\ y \in Watches!WatchState /\ y.path = x.path /\ y.identity = x.identity /\ y.sizes = S
          /\ y.held => x.held
        <3>1. CASE x.pc = "reset"
            <4>1. y = [x EXCEPT !.pc = "list", !.sizes = {}, !.ready = FALSE] /\ S = {}
                BY <2>3, <3>1
            <4> HIDE DEF y, x, h
            <4>2. QED BY ONLY <1>3, <2>3, <4>1 DEF Watches!WatchState
        <3>2. CASE x.pc = "replace"
            <4>1. y = [x EXCEPT !.pc = "watch", !.sizes = S, !.ready = TRUE,
                                !.rv = x.listed, !.listed = 0, !.held = FALSE]
                BY <3>2
            <4> HIDE DEF y, x, h
            <4>2. QED BY ONLY <1>3, <2>3, <4>1 DEF Watches!WatchState
        <3>3. CASE x.pc = "event"
            <4>1. y = [x EXCEPT !.pc = "watch", !.sizes = S, !.rv = x.rv + 1]
                BY <3>3
            <4>2. x \in Watches!WatchState /\ S \in Watches!Objects
                BY <1>3, <2>3
            <4> DEFINE k == x.rv + 1
            <4>3. k \in Nat
                BY <1>3 DEF Watches!WatchState
            <4> HIDE DEF y, x, h, k
            <4>4. y = [x EXCEPT !.pc = "watch", !.sizes = S, !.rv = k]
                BY ONLY <4>1 DEF k
            <4>5. QED BY ONLY <4>2, <4>3, <4>4 DEF Watches!WatchState
        <3>4. QED BY <1>1, <3>1, <3>2, <3>3
    <2>7. Watches!Follows(y, h) /\ Watches!Shows(v, y, h)
        <3>1. CASE x.pc = "reset"
            <4>1. /\ y.pc = "list" /\ ~y.ready /\ y.rv = x.rv /\ y.listed = x.listed
                  /\ y.failed = x.failed /\ v.kind = "reset" /\ v.identity = x.identity
                BY <1>3, <3>1 DEF Watches!WatchState
            <4> HIDE DEF y, v
            <4>2. QED BY <1>3, <2>6, <3>1, <4>1 DEF Watches!Follows, Watches!Shows
        <3>2. CASE x.pc = "replace"
            <4>1. y = [x EXCEPT !.pc = "watch", !.sizes = S, !.ready = TRUE,
                                !.rv = x.listed, !.listed = 0, !.held = FALSE]
                BY <3>2
            <4>2. /\ y.pc = "watch" /\ y.ready /\ y.rv = x.listed /\ y.listed = 0
                  /\ y.failed = x.failed
                <5> HIDE DEF y, x, h
                <5>1. QED BY ONLY <1>3, <4>1 DEF Watches!WatchState
            <4>3. v.kind = "baseline" /\ v.identity = x.identity /\ v.objects = S
                BY <2>3, <3>2
            <4>4. ~x.failed
                BY <1>3, <3>2 DEF Watches!Follows
            <4> HIDE DEF y, v, h
            <4>5. QED BY <1>3, <2>3, <2>6, <3>2, <4>2, <4>3, <4>4
                      DEF Watches!Follows, Watches!Shows, Watches!WatchState
        <3>3. CASE x.pc = "event"
            <4>1. y = [x EXCEPT !.pc = "watch", !.sizes = S, !.rv = x.rv + 1]
                BY <3>3
            <4>2. /\ y.pc = "watch" /\ y.ready = x.ready /\ y.rv = x.rv + 1 /\ y.listed = x.listed
                  /\ y.failed = x.failed
                <5> HIDE DEF y, x, h
                <5>1. QED BY ONLY <1>3, <4>1 DEF Watches!WatchState
            <4>3. v.kind = "baseline" /\ v.identity = x.identity /\ v.objects = S
                BY <2>3, <3>3
            <4>4. ~x.failed
                BY <1>3, <3>3 DEF Watches!Follows
            <4>5. x.ready
                BY <2>2, <3>3
            <4> HIDE DEF y, v, h
            <4>6. QED BY <1>3, <2>3, <2>6, <3>3, <4>2, <4>3, <4>4, <4>5
                      DEF Watches!Follows, Watches!Shows, Watches!WatchState
        <3>4. QED BY <1>1, <3>1, <3>2, <3>3
    <2> HIDE DEF y, v
    <2>8. Reported(w, y, v)
        BY <1>1, <1>2, <2>1, <2>5, <2>6, <2>7 DEF Reported
    <2>9. QED BY <1>1, <2>1, <2>6, <2>8, ReportStep
<1>7. QED BY <1>5, <1>6

-----------------------------------------------------------------------------
\* The history grows, or is forgotten.
LEMMA ServerStep ==
    ASSUME Watches!WatchInv, NEW p \in Path,
           Watches!Compact(p) \/ \E o \in Object : Watches!Write(p, o)
    PROVE  Watches!WatchInv'
<1>1. /\ watches' = watches /\ active' = active /\ total' = total /\ run' = run /\ view' = view
    BY DEF Watches!Compact, Watches!Write
<1>2. /\ history' \in [Path -> Seq(Watches!Objects)] /\ floor' \in [Path -> Nat]
      /\ \A q \in Path : /\ floor'[q] \in 1 .. Len(history'[q])
                         /\ Len(history[q]) \in Nat /\ Len(history'[q]) \in Nat
                         /\ Len(history[q]) <= Len(history'[q])
                         /\ \A k \in 1 .. Len(history[q]) : history'[q][k] = history[q][k]
    <2>1. /\ history \in [Path -> Seq(Watches!Objects)] /\ floor \in [Path -> Nat]
          /\ \A q \in Path : /\ floor[q] \in 1 .. Len(history[q]) /\ Len(history[q]) \in Nat
        BY LenProperties DEF Watches!WatchInv, Watches!Types
    <2>2. CASE Watches!Compact(p)
        <3>1. history' = history /\ floor' = [floor EXCEPT ![p] = Len(history[p])]
            BY <2>2 DEF Watches!Compact
        <3>2. Len(history[p]) \in 1 .. Len(history[p])
            BY <2>1
        <3>3. QED BY <2>1, <3>1, <3>2
    <2>3. ASSUME NEW o \in Object, Watches!Write(p, o)
          PROVE  /\ history' \in [Path -> Seq(Watches!Objects)] /\ floor' = floor
                 /\ \A q \in Path :
                       /\ Len(history'[q]) \in Nat /\ Len(history[q]) <= Len(history'[q])
                       /\ \A k \in 1 .. Len(history[q]) : history'[q][k] = history[q][k]
        <3> DEFINE now == history[p][Len(history[p])]
                   then == IF o \in now THEN now \ {o} ELSE now \cup {o}
        <3>1. history' = [history EXCEPT ![p] = Append(history[p], then)] /\ floor' = floor
            BY <2>3 DEF Watches!Write
        <3>2. history[p] \in Seq(Watches!Objects) /\ Len(history[p]) \in 1 .. Len(history[p])
            BY <2>1
        <3>3. now \in Watches!Objects
            BY <3>2, ElementOfSeq
        <3>4. then \in Watches!Objects
            BY <3>3, WatchSets, FS_AddElement, FS_RemoveElement DEF Watches!Objects
        <3> HIDE DEF then
        <3>5. /\ Append(history[p], then) \in Seq(Watches!Objects)
              /\ Len(Append(history[p], then)) = Len(history[p]) + 1
              /\ \A k \in 1 .. Len(history[p]) : Append(history[p], then)[k] = history[p][k]
            BY ONLY <3>2, <3>4, AppendProperties
        <3>6. QED BY <2>1, <3>1, <3>5
    <2>4. CASE \E o \in Object : Watches!Write(p, o)
        BY <2>1, <2>3, <2>4
    <2>5. QED BY <2>2, <2>4
<1>3. Watches!Types' /\ Watches!OneSlot' /\ Watches!Quiet'
    BY <1>1, <1>2 DEF Watches!WatchInv, Watches!Types, Watches!OneSlot, Watches!Quiet,
       Watches!Watch
<1>4. ASSUME NEW w \in Watches!Watch
      PROVE  /\ watches[w].path \in Path /\ Watches!Follows(watches[w], history[watches[w].path])
             /\ watches[w].rv \in Nat /\ watches[w].listed \in Nat
    BY AtWatch DEF Watches!WatchInv, Watches!WatchState
<1>5. ASSUME NEW w \in Watches!Watch PROVE Watches!Follows(watches[w], history'[watches[w].path])
    BY <1>2, <1>4 DEF Watches!Follows
<1>6. ASSUME Watches!Session PROVE Watches!Session'
    <2>1. ASSUME NEW q \in Path, active[q] # 0
          PROVE  /\ watches[active[q]].path = q
                 /\ Watches!Shows(view[q], watches[active[q]], history'[q])
        <3>1. active[q] \in Watches!Watch
            BY <2>1, WatchRange DEF Watches!WatchInv, Watches!Types
        <3>2. /\ watches[active[q]].path = q
              /\ Watches!Shows(view[q], watches[active[q]], history[q])
            BY <1>6, <2>1 DEF Watches!Session
        <3>3. watches[active[q]].rv = 0 \/ watches[active[q]].rv \in 1 .. Len(history[q])
            BY <1>2, <1>4, <3>1, <3>2 DEF Watches!Follows
        <3>4. QED BY <1>2, <3>2, <3>3 DEF Watches!Shows
    <2>2. QED BY <1>1, <1>6, <2>1 DEF Watches!Session, Watches!Counted, Watches!Watch
<1>7. Watches!Replacing => Watches!Replacing'
    BY <1>1 DEF Watches!Replacing
<1>8. QED BY <1>1, <1>3, <1>5, <1>6, <1>7 DEF Watches!WatchInv, Watches!Watch

-----------------------------------------------------------------------------
LEMMA InitWatch == ASSUME Watches!Bounds, Watches!Init PROVE Watches!WatchInv
<1>1. history = [p \in Path |-> <<Initial[p]>>] /\ floor = [p \in Path |-> 1]
    BY DEF Watches!Init
<1>2. watches = <<>>
    BY DEF Watches!Init
<1>3. /\ active = [p \in Path |-> 0] /\ total = 0 /\ view = [p \in Path |-> Watches!NoView]
      /\ run = [pc |-> "down", request |-> Watches!Unassigned, remove |-> {}, waits |-> 0,
                cancelled |-> FALSE]
    BY DEF Watches!Init
<1>4. watches \in Seq(Watches!WatchState) /\ Len(watches) = 0 /\ DOMAIN watches = {}
    <2>1. <<>> \in Seq(Watches!WatchState) /\ Len(<<>>) = 0
        BY ONLY EmptySeq, Zenon
    <2>2. DOMAIN watches = {}
        BY ONLY <1>2
    <2>3. QED BY ONLY <1>2, <2>1, <2>2, Zenon
<1>5. /\ history \in [Path -> Seq(Watches!Objects)] /\ floor \in [Path -> Nat]
      /\ \A p \in Path : floor[p] \in 1 .. Len(history[p])
    <2>1. ASSUME NEW p \in Path
          PROVE  <<Initial[p]>> \in Seq(Watches!Objects) /\ Len(<<Initial[p]>>) = 1
        <3>1. Initial[p] \in Watches!Objects
            BY DEF Watches!Bounds
        <3>2. QED BY ONLY <3>1
    <2>2. QED BY <1>1, <2>1
<1>6. Watches!IsAssignment(Watches!Unassigned)
    BY WatchSets, FS_EmptySet DEF Watches!IsAssignment, Watches!Unassigned
<1>7. Watches!Types
    <2>1. 0 \in 0 .. 0
        OBVIOUS
    <2>2. run \in [pc : {"down", "loop", "replace", "stopping"}, request : {run.request},
                   remove : SUBSET Path, waits : 0 .. 0, cancelled : BOOLEAN]
        BY ONLY <1>3, <2>1
    <2>3. active \in [Path -> 0 .. 0] /\ view = [p \in Path |-> view[p]]
        BY ONLY <1>3, <2>1
    <2>4. run.request = Watches!Unassigned
        BY ONLY <1>3
    <2>5. QED BY ONLY <1>4, <1>5, <1>6, <2>2, <2>3, <2>4 DEF Watches!Types
<1>8. Watches!Watch = {}
    BY ONLY <1>4 DEF Watches!Watch
<1>9. run.pc = "down" /\ run.request = Watches!Unassigned /\ run.remove = {} /\ run.waits = 0
    BY ONLY <1>3
<1>10. Watches!Quiet
    BY ONLY <1>2, <1>3, <1>9, Zenon DEF Watches!Quiet
<1>11. QED BY ONLY <1>7, <1>8, <1>9, <1>10 DEF Watches!WatchInv, Watches!OneSlot

LEMMA StepWatch ==
    ASSUME Watches!Bounds, Watches!WatchInv, [Watches!Next]_(Watches!vars)
    PROVE  Watches!WatchInv'
<1>1. CASE UNCHANGED Watches!vars
    BY <1>1 DEF Watches!vars, Watches!WatchInv, Watches!Types, Watches!OneSlot, Watches!Quiet,
       Watches!Session, Watches!Replacing, Watches!Counted, Watches!Watch
<1>2. ASSUME NEW w \in Watches!Watch,
             \/ Watches!BeginObserve(w) \/ Watches!TakeSlot(w) \/ Watches!List(w)
             \/ Watches!ObserveFails(w) \/ Watches!Frame(w)
             \/ Watches!Denied(w) \/ Watches!Leave(w)
      PROVE  Watches!WatchInv'
    BY <1>2, WatchAlone
<1>3. ASSUME NEW w \in Watches!Watch, NEW fails \in BOOLEAN,
             Watches!Deliver(w, fails) \/ Watches!Result(w, fails)
      PROVE  Watches!WatchInv'
    BY <1>3, DeliverStep, ResultStep
<1>4. ASSUME Watches!BeginRun \/ Watches!ParentEnds \/ Watches!LeaveLoop \/ Watches!EndRun
      PROVE  Watches!WatchInv'
    BY <1>4, LoopStep, EndStep
<1>5. ASSUME NEW fails \in BOOLEAN, Watches!Removed(fails) PROVE Watches!WatchInv'
    BY <1>5, RemovedStep
<1>6. ASSUME Watches!StartWatches PROVE Watches!WatchInv'
    BY <1>6, StartStep
<1>7. ASSUME NEW p \in Path,
             \/ Watches!RemoveWatch(p) \/ Watches!Compact(p)
             \/ \E o \in Object : Watches!Write(p, o)
      PROVE  Watches!WatchInv'
    BY <1>7, RemoveStep, ServerStep
<1>8. ASSUME NEW request \in Assignment, Watches!Replace(request) PROVE Watches!WatchInv'
    BY <1>8, LoopStep
<1>9. QED BY <1>1, <1>2, <1>3, <1>4, <1>5, <1>6, <1>7, <1>8 DEF Watches!Next

\* What the invariant says in the words of the properties.
LEMMA WatchMeans ==
    ASSUME Watches!WatchInv
    PROVE  /\ Watches!TypeOK /\ Watches!ViewIsTrue /\ Watches!ObjectsCounted
           /\ Watches!WatchesAreAssigned
<1>1. /\ Len(watches) \in Nat /\ Watches!Watch = 1 .. Len(watches)
      /\ active \in [Path -> 0 .. Len(watches)]
      /\ run.waits \in 0 .. Len(watches) /\ run.pc \in {"down", "loop", "replace", "stopping"}
      /\ run.remove \subseteq Path
    BY WatchRange DEF Watches!WatchInv, Watches!Types
<1>2. Watches!TypeOK
    <2>1. \A p \in Path : active[p] \in 0 .. Len(watches) /\ floor[p] \in DOMAIN history[p]
        BY <1>1, LenProperties DEF Watches!WatchInv, Watches!Types
    <2>2. QED BY <1>1, <2>1 DEF Watches!TypeOK
<1>3. \A p \in Path : active[p] # 0 => active[p] \in Watches!Watch
    BY <1>1
<1>4. Watches!ViewIsTrue
    <2>1. SUFFICES ASSUME run.pc = "loop", NEW p \in Path
                   PROVE  LET w == active[p] IN
                          IF w = 0 THEN view[p] = Watches!NoView
                          ELSE /\ view[p].kind = "baseline" <=> watches[w].ready
                               /\ view[p].kind # "none" => view[p].identity = watches[w].identity
                               /\ watches[w].ready =>
                                    /\ ~watches[w].failed
                                    /\ watches[w].rv = 0 \/ view[p].objects = history[p][watches[w].rv]
        BY DEF Watches!ViewIsTrue
    <2>2. Watches!Session /\ run.waits = 0
        BY <2>1 DEF Watches!WatchInv, Watches!Quiet
    <2>3. CASE active[p] = 0
        BY <2>2, <2>3 DEF Watches!Session
    <2>4. CASE active[p] # 0
        <3>1. Watches!Shows(view[p], watches[active[p]], history[p])
            BY <2>2, <2>4 DEF Watches!Session
        <3>2. watches[active[p]].failed => ~watches[active[p]].ready
            BY <1>3, <2>4 DEF Watches!WatchInv, Watches!Follows
        <3>3. QED BY <2>4, <3>1, <3>2 DEF Watches!Shows
    <2>5. QED BY <2>3, <2>4
<1>5. Watches!ObjectsCounted
    BY DEF Watches!WatchInv, Watches!ObjectsCounted, Watches!Session, Watches!Shows
<1>6. run.pc = "loop" =>
         \A w \in Watches!Watch : watches[w].pc # "done" => active[watches[w].path] = w
    BY <1>1 DEF Watches!WatchInv, Watches!Session, Watches!Quiet
<1>7. Watches!Cardinality({w \in Watches!Watch : watches[w].held}) <= 1
    <2> DEFINE H == {w \in Watches!Watch : watches[w].held}
    <2>1. H = {} \/ \E u : H = {u}
        BY ZenonT(60) DEF Watches!WatchInv, Watches!OneSlot
    <2>2. Watches!Cardinality({}) = 0 /\ \A u : Watches!Cardinality({u}) = 1
        BY WatchSets, FS_EmptySet, FS_Singleton
    <2> HIDE DEF H
    <2>3. Watches!Cardinality(H) \in {0, 1}
        BY ONLY <2>1, <2>2
    <2>4. Watches!Cardinality(H) <= 1
        BY ONLY <2>3
    <2>5. QED BY <2>4 DEF H
<1>8. \A w \in Watches!Watch : watches[w].pc = "event" => watches[w].ready
    <2>1. ASSUME NEW w \in Watches!Watch, watches[w].pc = "event" PROVE watches[w].ready
        BY <2>1 DEF Watches!WatchInv, Watches!Follows
    <2>2. QED BY <2>1
<1>9. QED BY <1>2, <1>4, <1>5, <1>6, <1>7, <1>8 DEF Watches!WatchInv, Watches!WatchesAreAssigned

-----------------------------------------------------------------------------
\* What the consumer of a watch set was told last is what the collections were, of the
\* assigned identities alone and within the limit (WatchSet.Run, Observe).
THEOREM WatchesAreTrue == BackgroundSpec => []WatchesHold
<1>1. BackgroundInit => Watches!WatchInv
    BY WatchesAssumption, InitWatch DEF BackgroundInit
<1>2. Watches!WatchInv /\ [BackgroundNext]_backgroundVars => Watches!WatchInv'
    <2>1. [BackgroundNext]_backgroundVars => [Watches!Next]_(Watches!vars)
        BY DEF BackgroundNext, backgroundVars, Only, watchVars, Watches!vars
    <2>2. QED BY <2>1, WatchesAssumption, StepWatch
<1>3. Watches!WatchInv => WatchesHold
    BY WatchMeans DEF WatchesHold
<1>4. QED BY <1>1, <1>2, <1>3, PTL DEF BackgroundSpec
=============================================================================
