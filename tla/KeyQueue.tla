------------------------------ MODULE KeyQueue ------------------------------
(***************************************************************************)
(* The keyed controller of a generated service (internal/generator/        *)
(* controller: keyed.go.tmpl, watch_keyed.go.tmpl).                        *)
(*                                                                         *)
(* Receivers of watches and a scan loop put keys into a bounded queue; each*)
(* key is there once, however often it is added. Workers take the key that *)
(* is due first and run an action on it. A failed key waits, longer each   *)
(* time, and a key that was added while its action ran is queued again. All*)
(* goroutines sleep on one `changed` channel that every change closes. When*)
(* a watch fails the session is cancelled and joined, the interrupted keys *)
(* are queued again, and a new session opens on the same queue.            *)
(***************************************************************************)
EXTENDS Integers, FiniteSets

CONSTANTS
    Key, Worker,
    Receiver,    \* the receivers of a session's watches
    Scanner,     \* the scan loop
    NoOne,       \* nobody holds the admission slot
    Direct,      \* keys that the observer adds without waiting for a slot
    Capacity, RetryMin, RetryMax, Recheck, ResyncInterval,
    MaxDisturb   \* bound on failed sessions and pauses

ASSUME QueueAssumption ==
    /\ Scanner \notin Receiver /\ NoOne \notin Receiver \cup {Scanner} \cup Worker \cup Key
    /\ (Receiver \cup {Scanner}) \cap Worker = {}
    /\ Direct \subseteq Key
    /\ Capacity \in Nat \ {0} /\ MaxDisturb \in Nat
    /\ {RetryMin, RetryMax, Recheck, ResyncInterval} \subseteq Nat \ {0}
    /\ RetryMin <= RetryMax

VARIABLES
    session,    \* open, failed (cancelled, not joined), down, or stopped for good
    ready,      \* the observer has a complete baseline
    place,      \* of each key: "none", "queued" or "active"
    dirty,      \* the key was added since its action started
    delay,      \* of each key: the last retry delay, 0 after a success
    wait,       \* of each queued key: time until it is due
    ahead,      \* of each queued key: the queued keys before it in the heap
    retrying,   \* the counter of queued retries
    wpc, wkey,  \* of each worker: "take", "run" or "done", and its key
    alarm,      \* of each worker: time until its timer fires, or Never
    asleep,     \* goroutines that wait for `changed` to close
    epc, ekey,  \* of each emitter: where it is, and the key in its hand
    admission,  \* the emitter that holds the admission slot
    scan,       \* scanSchedule
    owed,       \* history: keys added since the last action on them started
    cool,       \* history: time that a key must rest after its last action
    disturbed   \* failed sessions and pauses so far

queueVars == <<place, dirty, delay, wait, ahead, retrying, owed, cool>>
workerVars == <<wpc, wkey, alarm>>
emitterVars == <<epc, ekey, admission, scan>>
vars == <<session, ready, queueVars, workerVars, asleep, emitterVars, disturbed>>

Emitter == Receiver \cup {Scanner}
Never == RetryMax + Recheck + 1
Queued == {k \in Key : place[k] = "queued"}
Active == {k \in Key : place[k] = "active"}
Entries == Queued \cup Active

\* A goroutine that has just looked for cancellation makes one more step.
Running == session \in {"open", "failed"}
Onward(label) == IF session = "open" THEN label ELSE "done"

Init ==
    /\ session = "open" /\ ready = FALSE
    /\ place = [k \in Key |-> "none"] /\ dirty = [k \in Key |-> FALSE]
    /\ delay = [k \in Key |-> 0] /\ wait = [k \in Key |-> 0]
    /\ ahead = [k \in Key |-> {}] /\ retrying = 0
    /\ wpc = [w \in Worker |-> "take"] /\ wkey = [w \in Worker |-> NoOne]
    /\ alarm = [w \in Worker |-> Never] /\ asleep = {}
    /\ epc = [e \in Emitter |-> IF e = Scanner THEN "wait" ELSE "rest"]
    /\ ekey = [e \in Emitter |-> NoOne] /\ admission = NoOne
    /\ scan = [wait |-> 0, delay |-> 0, active |-> FALSE]
    /\ owed = {} /\ cool = [k \in Key |-> 0] /\ disturbed = 0

-----------------------------------------------------------------------------
(***************************************************************************)
(* The queue.                                                              *)
(***************************************************************************)

\* notify: every goroutine that sleeps on `changed` looks again.
Notify == asleep' = {}

\* nextDelay: doubled, between the minimum and the maximum.
NextDelay(d) ==
    IF d < RetryMin THEN RetryMin
    ELSE IF d >= RetryMax \div 2 THEN RetryMax
    ELSE 2 * d

\* heap.Push: the heap is ordered by due time, then by the order of pushes.
Push(k, t) ==
    /\ wait' = [wait EXCEPT ![k] = t]
    /\ ahead' = [j \in Key |->
          IF j = k THEN {i \in Queued : wait[i] <= t}
          ELSE IF j \in Queued /\ wait[j] > t THEN ahead[j] \cup {k}
          ELSE ahead[j]]

Full(k) == place[k] = "none" /\ Cardinality(Entries) >= Capacity

\* Mutant: an event makes a key that waits for its retry due at once.
AdmitAtOnce(k) ==
    /\ ~Full(k)
    /\ dirty' = [dirty EXCEPT ![k] = TRUE]
    /\ owed' = owed \cup {k}
    /\ IF place[k] = "active"
       THEN UNCHANGED <<place, wait, ahead, asleep>>
       ELSE /\ place' = [place EXCEPT ![k] = "queued"]
            /\ wait' = [wait EXCEPT ![k] = 0]
            /\ ahead' = [ahead EXCEPT ![k] = {}]
            /\ Notify
    /\ UNCHANGED <<delay, retrying, cool>>

\* addLocked, unless it returns ErrOverflow.
Admit(k) ==
    /\ ~Full(k)
    /\ dirty' = [dirty EXCEPT ![k] = TRUE]
    /\ owed' = owed \cup {k}
    /\ IF place[k] # "none"
       THEN UNCHANGED <<place, wait, ahead, asleep>>
       ELSE /\ place' = [place EXCEPT ![k] = "queued"]
            /\ Push(k, 0) /\ Notify
    /\ UNCHANGED <<delay, retrying, cool>>

-----------------------------------------------------------------------------
(***************************************************************************)
(* Workers.                                                                *)
(***************************************************************************)

\* take: the first key of the heap, when it is due. A session that is cancelled
\* during take leaves the key active, without an action.
Take(w, k) ==
    /\ Running /\ wpc[w] = "take" /\ (w \notin asleep \/ alarm[w] = 0)
    /\ ready /\ k \in Queued /\ ahead[k] = {} /\ wait[k] = 0
    /\ place' = [place EXCEPT ![k] = "active"]
    /\ dirty' = [dirty EXCEPT ![k] = FALSE]
    /\ ahead' = [j \in Key |-> ahead[j] \ {k}]
    /\ retrying' = IF delay[k] > 0 THEN retrying - 1 ELSE retrying
    /\ owed' = owed \ {k}
    /\ wpc' = [wpc EXCEPT ![w] = Onward("run")]
    /\ wkey' = [wkey EXCEPT ![w] = IF session = "open" THEN k ELSE NoOne]
    /\ alarm' = [alarm EXCEPT ![w] = Never] /\ asleep' = asleep \ {w}
    /\ UNCHANGED <<session, ready, delay, wait, cool, emitterVars, disturbed>>

\* ... or nothing is due: sleep until a change, or until the first key is due.
TakeNothing(w) ==
    /\ session = "open" /\ wpc[w] = "take" /\ (w \notin asleep \/ alarm[w] = 0)
    /\ \/ /\ ~ready \/ Queued = {}
          /\ alarm' = [alarm EXCEPT ![w] = Never]
       \/ \E k \in Queued :
             /\ ready /\ ahead[k] = {} /\ wait[k] > 0
             /\ alarm' = [alarm EXCEPT ![w] = wait[k]]
    /\ asleep' = asleep \cup {w}
    /\ UNCHANGED <<session, ready, queueVars, wpc, wkey, emitterVars, disturbed>>

\* finishResult, with the delay d after which the key runs again.
Requeue(k, d, t) ==
    /\ place' = [place EXCEPT ![k] = "queued"]
    /\ delay' = [delay EXCEPT ![k] = d]
    /\ Push(k, t)
    /\ cool' = [cool EXCEPT ![k] = t]
    /\ Notify

\* Mutant: a key that is done leaves the queue without a notice.
SettleSilent(k) ==
    /\ place' = [place EXCEPT ![k] = "none"]
    /\ delay' = [delay EXCEPT ![k] = 0]
    /\ cool' = [cool EXCEPT ![k] = 0]
    /\ UNCHANGED <<wait, ahead, asleep>>

\* A key that nobody added meanwhile leaves the queue.
Settle(k) ==
    /\ place' = [place EXCEPT ![k] = "none"]
    /\ delay' = [delay EXCEPT ![k] = 0]
    /\ cool' = [cool EXCEPT ![k] = 0]
    /\ UNCHANGED <<wait, ahead>>
    /\ Notify

\* The action returns and finishResult runs; cancellation may come after the
\* worker has looked for it.
Finish(w, outcome) ==
    LET k == wkey[w] IN
    /\ Running /\ wpc[w] = "run"
    /\ \/ /\ outcome = "failed"
          /\ Requeue(k, NextDelay(delay[k]), NextDelay(delay[k]))
          /\ retrying' = retrying + 1
       \/ /\ outcome = "recheck"
          /\ Requeue(k, 0, Recheck)
          /\ UNCHANGED retrying
       \/ /\ outcome = "done"
          /\ IF dirty[k] THEN Requeue(k, 0, 0) ELSE Settle(k)
          /\ UNCHANGED retrying
    /\ wpc' = [wpc EXCEPT ![w] = Onward("take")] /\ wkey' = [wkey EXCEPT ![w] = NoOne]
    /\ UNCHANGED <<session, ready, dirty, owed, alarm, emitterVars, disturbed>>

\* A terminal error stops the controller for good.
TerminalError(w) ==
    /\ session = "open" /\ wpc[w] = "run"
    /\ session' = "stopped"
    /\ UNCHANGED <<ready, queueVars, workerVars, asleep, emitterVars, disturbed>>

\* A cancelled worker returns; the key of its action stays active.
WorkerStops(w) ==
    /\ session = "failed" /\ wpc[w] # "done"
    /\ wpc' = [wpc EXCEPT ![w] = "done"] /\ wkey' = [wkey EXCEPT ![w] = NoOne]
    /\ alarm' = [alarm EXCEPT ![w] = Never] /\ asleep' = asleep \ {w}
    /\ UNCHANGED <<session, ready, queueVars, emitterVars, disturbed>>

-----------------------------------------------------------------------------
(***************************************************************************)
(* Emitters: the receivers of the watches, and the scan.                   *)
(***************************************************************************)

\* A receiver gets a key from its watch.
Receive(r, k) ==
    /\ session = "open" /\ epc[r] = "rest" /\ k \notin Direct
    /\ epc' = [epc EXCEPT ![r] = "want"] /\ ekey' = [ekey EXCEPT ![r] = k]
    /\ UNCHANGED <<session, ready, queueVars, workerVars, asleep, admission, scan, disturbed>>

\* KeySink.Add: the observer adds a key without waiting; an overflow is an
\* error of the session.
AddDirect(r, k) ==
    /\ session = "open" /\ epc[r] = "rest" /\ k \in Direct
    /\ \/ Admit(k) /\ UNCHANGED <<session, disturbed>>
       \/ /\ Full(k) /\ disturbed < MaxDisturb
          /\ session' = "failed" /\ disturbed' = disturbed + 1
          /\ UNCHANGED <<queueVars, asleep>>
    /\ UNCHANGED <<ready, workerVars, emitterVars>>

\* addWait: emitters wait one after the other.
Enter(e) ==
    /\ session = "open" /\ epc[e] = "want" /\ admission = NoOne
    /\ admission' = e
    /\ epc' = [epc EXCEPT ![e] = "try"]
    /\ UNCHANGED <<session, ready, queueVars, workerVars, asleep, ekey, scan, disturbed>>

\* addWait: the key is admitted ...
TryAdmit(e) ==
    /\ Running /\ epc[e] = "try" /\ e \notin asleep
    /\ Admit(ekey[e])
    /\ admission' = NoOne
    /\ epc' = [epc EXCEPT ![e] = Onward(IF e = Scanner THEN "scan" ELSE "rest")]
    /\ ekey' = [ekey EXCEPT ![e] = NoOne]
    /\ UNCHANGED <<session, ready, workerVars, scan, disturbed>>

\* ... or the emitter sleeps until something changes.
TrySleep(e) ==
    /\ session = "open" /\ epc[e] = "try" /\ e \notin asleep
    /\ Full(ekey[e])
    /\ asleep' = asleep \cup {e}
    /\ UNCHANGED <<session, ready, queueVars, workerVars, emitterVars, disturbed>>

\* The scan loop: wait for the schedule, then until the observer is ready, scan.
ScanStart ==
    /\ session = "open" /\ epc[Scanner] = "wait" /\ scan.wait = 0 /\ Scanner \notin asleep
    /\ IF ready
       THEN /\ epc' = [epc EXCEPT ![Scanner] = "scan"]
            /\ scan' = [scan EXCEPT !.active = TRUE]
            /\ UNCHANGED asleep
       ELSE asleep' = asleep \cup {Scanner} /\ UNCHANGED <<epc, scan>>
    /\ UNCHANGED <<session, ready, queueVars, workerVars, ekey, admission, disturbed>>

ScanEmit(k) ==
    /\ session = "open" /\ epc[Scanner] = "scan"
    /\ epc' = [epc EXCEPT ![Scanner] = "want"] /\ ekey' = [ekey EXCEPT ![Scanner] = k]
    /\ UNCHANGED <<session, ready, queueVars, workerVars, asleep, admission, scan, disturbed>>

\* scanSchedule.finish.
ScanEnd(failed) ==
    /\ session = "open" /\ epc[Scanner] = "scan"
    /\ epc' = [epc EXCEPT ![Scanner] = "wait"]
    /\ scan' = IF failed
               THEN [wait |-> NextDelay(scan.delay), delay |-> NextDelay(scan.delay), active |-> FALSE]
               ELSE [wait |-> ResyncInterval, delay |-> 0, active |-> FALSE]
    /\ UNCHANGED <<session, ready, queueVars, workerVars, asleep, ekey, admission, disturbed>>

\* A cancelled emitter returns and gives the admission slot back.
EmitterStops(e) ==
    /\ session = "failed" /\ epc[e] # "done"
    /\ epc' = [epc EXCEPT ![e] = "done"] /\ ekey' = [ekey EXCEPT ![e] = NoOne]
    /\ admission' = IF admission = e THEN NoOne ELSE admission
    /\ asleep' = asleep \ {e}
    /\ UNCHANGED <<session, ready, queueVars, workerVars, scan, disturbed>>

-----------------------------------------------------------------------------
(***************************************************************************)
(* Sessions.                                                               *)
(***************************************************************************)

\* SetReady: the observer has its baseline, or loses it.
SetReady(b) ==
    /\ session = "open" /\ ready # b
    /\ b \/ disturbed < MaxDisturb
    /\ ready' = b /\ Notify
    /\ disturbed' = IF b THEN disturbed ELSE disturbed + 1
    /\ UNCHANGED <<session, queueVars, workerVars, emitterVars>>

\* A watch fails: the session is cancelled.
WatchFails ==
    /\ session = "open" /\ disturbed < MaxDisturb
    /\ session' = "failed" /\ disturbed' = disturbed + 1
    /\ UNCHANGED <<ready, queueVars, workerVars, asleep, emitterVars>>

Joined == (\A w \in Worker : wpc[w] = "done") /\ (\A e \in Emitter : epc[e] = "done")

\* scanSchedule.reconnect.
Reconnect ==
    scan' = IF scan.active
            THEN [wait |-> NextDelay(scan.delay), delay |-> NextDelay(scan.delay), active |-> FALSE]
            ELSE IF scan.delay = 0 THEN [scan EXCEPT !.wait = 0]
            ELSE scan

\* Mutant: an interrupted key is dropped.
RestartForgets ==
    /\ session = "failed" /\ Joined
    /\ session' = "down" /\ ready' = FALSE
    /\ Reconnect /\ Notify
    /\ place' = [k \in Key |-> IF k \in Active THEN "none" ELSE place[k]]
    /\ UNCHANGED <<dirty, delay, wait, ahead, retrying, owed, cool, workerVars, epc, ekey,
                   admission, disturbed>>

\* restart, when every goroutine of the session has returned: an interrupted
\* key is queued again with its next delay. Keys that become due together keep
\* some order.
Restart ==
    /\ session = "failed" /\ Joined
    /\ session' = "down" /\ ready' = FALSE
    /\ Reconnect /\ Notify
    /\ LET t(k) == IF k \in Active THEN NextDelay(delay[k]) ELSE wait[k] IN
       /\ place' = [k \in Key |-> IF k \in Active THEN "queued" ELSE place[k]]
       /\ dirty' = [k \in Key |-> dirty[k] \/ k \in Active]
       /\ delay' = [k \in Key |-> IF k \in Active THEN NextDelay(delay[k]) ELSE delay[k]]
       /\ wait' = [k \in Key |-> t(k)]
       /\ cool' = [k \in Key |-> IF k \in Active THEN t(k) ELSE cool[k]]
       /\ \E rank \in [Active -> 1 .. Cardinality(Active)] :
             /\ \A i, j \in Active : rank[i] = rank[j] => i = j
             /\ ahead' = [j \in Key |->
                  IF j \in Active
                  THEN {i \in Queued : wait[i] <= t(j)} \cup
                       {i \in Active : t(i) < t(j) \/ (t(i) = t(j) /\ rank[i] < rank[j])}
                  ELSE IF j \in Queued THEN ahead[j] \cup {i \in Active : t(i) < wait[j]}
                  ELSE ahead[j]]
    /\ retrying' = retrying + Cardinality(Active)
    /\ UNCHANGED <<owed, workerVars, epc, ekey, admission, disturbed>>

\* After ReconnectDelay a new session opens its watches and starts its goroutines.
Reopen ==
    /\ session = "down"
    /\ session' = "open"
    /\ wpc' = [w \in Worker |-> "take"]
    /\ epc' = [e \in Emitter |-> IF e = Scanner THEN "wait" ELSE "rest"]
    /\ UNCHANGED <<ready, queueVars, wkey, alarm, asleep, ekey, admission, scan, disturbed>>

\* Time passes.
Down(t) == IF t = 0 THEN 0 ELSE t - 1

Tick ==
    /\ wait' = [k \in Key |-> Down(wait[k])]
    /\ cool' = [k \in Key |-> Down(cool[k])]
    /\ alarm' = [w \in Worker |-> IF alarm[w] = Never THEN Never ELSE Down(alarm[w])]
    /\ scan' = [scan EXCEPT !.wait = Down(@)]
    /\ UNCHANGED <<session, ready, place, dirty, delay, ahead, retrying, owed, wpc, wkey, asleep,
                   epc, ekey, admission, disturbed>>

Outcome == {"done", "recheck", "failed"}

Work(w) == TakeNothing(w) \/ (\E k \in Key : Take(w, k)) \/ WorkerStops(w)
Emit(e) == TryAdmit(e) \/ TrySleep(e) \/ EmitterStops(e)
Returns(w) == \E outcome \in Outcome : Finish(w, outcome)
Succeeds(k) == \E w \in Worker : wkey[w] = k /\ Finish(w, "done")

Next ==
    \/ \E w \in Worker : Work(w) \/ Returns(w) \/ TerminalError(w)
    \/ \E r \in Receiver, k \in Key : Receive(r, k) \/ AddDirect(r, k)
    \/ \E e \in Emitter : Enter(e) \/ Emit(e)
    \/ ScanStart
    \/ \E k \in Key : ScanEmit(k)
    \/ \E failed \in BOOLEAN : ScanEnd(failed)
    \/ \E b \in BOOLEAN : SetReady(b)
    \/ WatchFails \/ Restart \/ Reopen
    \/ Tick

Spec == Init /\ [][Next]_vars

\* Goroutines go on and time passes; waiting senders of a channel are served in
\* turn; an action returns within its timeout and does not fail for ever.
FairSpec ==
    /\ Spec
    /\ WF_vars(Tick) /\ WF_vars(SetReady(TRUE)) /\ WF_vars(Restart) /\ WF_vars(Reopen)
    /\ WF_vars(ScanStart) /\ SF_vars(ScanEnd(FALSE))
    /\ \A w \in Worker : WF_vars(Work(w)) /\ WF_vars(Returns(w))
    /\ \A e \in Emitter : SF_vars(Enter(e)) /\ WF_vars(Emit(e))
    /\ \A k \in Key : SF_vars(Succeeds(k))

-----------------------------------------------------------------------------
(***************************************************************************)
(* Properties.                                                             *)
(***************************************************************************)

TypeOK ==
    /\ session \in {"open", "failed", "down", "stopped"} /\ ready \in BOOLEAN
    /\ place \in [Key -> {"none", "queued", "active"}] /\ dirty \in [Key -> BOOLEAN]
    /\ delay \in [Key -> Nat] /\ wait \in [Key -> Nat] /\ cool \in [Key -> Nat]
    /\ ahead \in [Key -> SUBSET Key] /\ retrying \in Int
    /\ wpc \in [Worker -> {"take", "run", "done"}] /\ wkey \in [Worker -> Key \cup {NoOne}]
    /\ alarm \in [Worker -> Nat] /\ asleep \subseteq Worker \cup Emitter
    /\ epc \in [Emitter -> {"wait", "scan", "rest", "want", "try", "done"}]
    /\ ekey \in [Emitter -> Key \cup {NoOne}] /\ admission \in Emitter \cup {NoOne}
    /\ scan \in [wait : Nat, delay : Nat, active : BOOLEAN]
    /\ owed \subseteq Key /\ disturbed \in 0 .. MaxDisturb

\* The queue, its active keys included, never holds more than its capacity,
\* across restarts too (addLocked, restart).
WithinCapacity == Cardinality(Entries) <= Capacity

\* One action runs on a key, and only on a key that the queue holds as active
\* (take, finishResult).
OneActionPerKey ==
    /\ \A v, w \in Worker : wpc[v] = "run" /\ wpc[w] = "run" /\ wkey[v] = wkey[w] => v = w
    /\ \A w \in Worker : wpc[w] = "run" => wkey[w] \in Active

\* A key that was accepted is queued, or its action runs and will be repeated
\* (addLocked, finishResult, restart).
NoKeyLost == \A k \in owed : k \in Queued \/ (k \in Active /\ dirty[k])

\* The counter of retries is the number of queued keys with a retry delay
\* (take, finishResult, restart).
RetryingCounts == retrying = Cardinality({k \in Queued : delay[k] > 0})

\* Neither an event nor a reconnect shortens the delay of a key that failed, was
\* interrupted or asked for a recheck (addLocked, restart).
DelayKept ==
    [][\A k \in Key : place[k] = "queued" /\ place'[k] = "active" => cool[k] = 0]_vars

\* While a queued key is due and a worker is idle, some worker is awake: nobody
\* sleeps through a change (notify, take).
NoSleepThroughWork ==
    ready /\ session = "open" /\ (\E k \in Queued : wait[k] = 0)
        /\ (\E w \in Worker : wpc[w] = "take") =>
            \E w \in Worker : wpc[w] = "run" \/ w \notin asleep \/ alarm[w] = 0

\* Every accepted key gets an action that starts after it was added, unless the
\* controller stops for good.
AddedKeyRuns == \A k \in Key : k \in owed ~> k \notin owed \/ session = "stopped"

\* A waiting emitter gets its slot, or its session ends; only keys that the
\* observer adds directly, past the waiting emitters, can keep it waiting
\* (addWait, addLocked, notify).
EmitterAdmitted ==
    \A e \in Emitter : epc[e] = "want" ~>
        epc[e] \notin {"want", "try"} \/ session = "stopped" \/ Direct \cap Entries # {}

\* Each session after a failed one scans again, after the delay that an
\* interrupted or failed scan must keep.
RescanAfterReconnect == session = "down" ~> scan.active \/ session = "stopped"

Dirty == INSTANCE DirtyKeys WITH
    dirty <- Queued \cup {k \in Active : dirty[k]},
    running <- Active

\* The queue is a set of dirty keys, each with at most one action.
ImplementsDirtyKeys == Dirty!Spec

-----------------------------------------------------------------------------
(***************************************************************************)
(* The inductive invariant behind them.                                    *)
(***************************************************************************)

\* An emitter that wants a slot has a key in its hand.
HandIsFull == \A e \in Emitter : epc[e] \in {"want", "try"} => ekey[e] \in Key

\* A key outside the queue has no delay to keep; a queued key is due no sooner than
\* it may run.
DelaysAgree ==
    \A k \in Key :
       /\ place[k] = "none" => delay[k] = 0 /\ cool[k] = 0
       /\ place[k] = "queued" => cool[k] <= wait[k] /\ wait[k] < Never

\* The heap orders the queued keys by the time they are due.
HeapOrdered ==
    \A j \in Queued :
       /\ ahead[j] \subseteq Queued /\ \A i \in ahead[j] : wait[i] <= wait[j]
       /\ \A i \in Queued : i # j => i \in ahead[j] \/ j \in ahead[i]

\* Some worker is awake, or will be when queued key k is due.
WakesFor(k) ==
    ready /\ session = "open" /\ (\E w \in Worker : wpc[w] = "take") =>
        \E w \in Worker : wpc[w] = "run" \/ w \notin asleep \/ alarm[w] <= wait[k]

QueueInv ==
    /\ TypeOK /\ HandIsFull /\ DelaysAgree /\ HeapOrdered
    /\ OneActionPerKey /\ NoKeyLost
    /\ IsFiniteSet(Entries) /\ WithinCapacity /\ RetryingCounts
    /\ \A k \in Queued : WakesFor(k)
    /\ session = "down" => ~ready
=============================================================================
