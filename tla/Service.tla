------------------------------ MODULE Service ------------------------------
(***************************************************************************)
(* The processes of a generated service and of a controller. They share no *)
(* state, so a behaviour runs one part, and the other parts stay as they   *)
(* start: `part` says which. The parts share their sets: an Actor is a     *)
(* worker, a request, a subscription or a call of Publish, a Token is a    *)
(* signing key or a Kafka session.                                         *)
(***************************************************************************)
EXTENDS Integers, Sequences, FiniteSets

CONSTANTS
    Actor, Token, None,
    Key, Receiver, Scanner, Direct, Capacity, RetryMin, RetryMax, Recheck,
    ResyncInterval, MaxDisturb,                                     \* KeyQueue
    KeyID, RetryAfter, StaleAfter, ExpireAfter, ReadTimeout, MaxChanges,  \* KeySource
    SubscriptionBuffer, MaxSubscriptions, MaxEvents,                \* EventStream
    Permits,                                                        \* Publisher
    Request, Hijacked                                               \* ServiceProcess

ASSUME ServiceAssumption ==
    /\ None \notin Token /\ KeyID # {}
    /\ {RetryAfter, StaleAfter, ExpireAfter, ReadTimeout} \subseteq Nat
    /\ {SubscriptionBuffer, MaxSubscriptions, MaxEvents, Permits} \subseteq Nat

ASSUME ControllerAssumption ==
    /\ Scanner \notin Receiver /\ None \notin Receiver \cup {Scanner} \cup Actor \cup Key
    /\ (Receiver \cup {Scanner}) \cap Actor = {}
    /\ Direct \subseteq Key
    /\ Capacity \in Nat \ {0} /\ MaxDisturb \in Nat
    /\ {RetryMin, RetryMax, Recheck, ResyncInterval} \subseteq Nat \ {0}
    /\ RetryMin <= RetryMax

VARIABLES
    part,
    session, ready, place, dirty, delay, wait, ahead, retrying, wpc, wkey, alarm,
    asleep, epc, ekey, admission, scan, owed, cool, disturbed,      \* KeyQueue
    published, withdrawn, changes, keys, loaded, attempted, refreshing,
    keysClosed, tokens,                                             \* KeySource
    committed, dispatched, run, streamClosed, cancelled, close, sub,  \* EventStream
    client, open, used, publisherClosed, closer, mine, active, permits, call,
    broker,                                                         \* Publisher
    phase, stage, signal, ended, opened, task, failed, http, trouble, stopped,
    request, busy                                                   \* ServiceProcess

QueuePart == INSTANCE KeyQueue WITH Worker <- Actor, NoOne <- None

KeysPart == INSTANCE KeySource WITH
    Request <- Actor, Key <- Token, NoKey <- None, closed <- keysClosed, req <- tokens

StreamPart == INSTANCE EventStream WITH Sub <- Actor, closed <- streamClosed

PublisherPart == INSTANCE Publisher WITH
    Caller <- Actor, Session <- Token, NoSession <- None,
    session <- client, closed <- publisherClosed

ProcessPart == INSTANCE ServiceProcess

-----------------------------------------------------------------------------
Parts == {"queue", "keys", "stream", "publisher", "process"}

Init ==
    /\ part \in Parts
    /\ QueuePart!Init /\ KeysPart!Init /\ StreamPart!Init /\ PublisherPart!Init /\ ProcessPart!Init

queueVars == <<session, ready, place, dirty, delay, wait, ahead, retrying, wpc, wkey, alarm,
               asleep, epc, ekey, admission, scan, owed, cool, disturbed>>
keysVars == <<published, withdrawn, changes, keys, loaded, attempted, refreshing,
              keysClosed, tokens>>
streamVars == <<committed, dispatched, run, streamClosed, cancelled, close, sub>>
publisherVars == <<client, open, used, publisherClosed, closer, mine, active, permits, call,
                   broker>>
processVars == <<phase, stage, signal, ended, opened, task, failed, http, trouble, stopped,
                 request, busy>>

\* Part p runs: the others keep their state.
Only(p) ==
    /\ part = p /\ UNCHANGED part
    /\ IF p = "queue" THEN TRUE ELSE UNCHANGED queueVars
    /\ IF p = "keys" THEN TRUE ELSE UNCHANGED keysVars
    /\ IF p = "stream" THEN TRUE ELSE UNCHANGED streamVars
    /\ IF p = "publisher" THEN TRUE ELSE UNCHANGED publisherVars
    /\ IF p = "process" THEN TRUE ELSE UNCHANGED processVars

Next ==
    \/ Only("queue") /\ QueuePart!Next
    \/ Only("keys") /\ KeysPart!Next
    \/ Only("stream") /\ StreamPart!Next
    \/ Only("publisher") /\ PublisherPart!Next
    \/ Only("process") /\ ProcessPart!Next

vars == <<part, queueVars, keysVars, streamVars,
            publisherVars, processVars>>
Spec == Init /\ [][Next]_vars

-----------------------------------------------------------------------------
\* The key queue: within its capacity, one action per key, no accepted key lost,
\* its count of retries exact, and nobody asleep while a key is due (addLocked,
\* take, finishResult, restart, notify).
QueueHolds ==
    /\ QueuePart!TypeOK /\ QueuePart!WithinCapacity /\ QueuePart!OneActionPerKey
    /\ QueuePart!NoKeyLost /\ QueuePart!RetryingCounts /\ QueuePart!NoSleepThroughWork

\* Its steps: no retry delay is shortened, and the queue implements a set of dirty
\* keys.
QueueSteps == QueuePart!DelayKept /\ QueuePart!ImplementsDirtyKeys

\* A token is accepted only with a key that the source published within the last
\* fifteen minutes and the time of one read; Stop leaves no key (keySource).
KeysAreCurrent == KeysPart!KeysAreCurrent

\* A subscriber that missed an event has been told to list again (Source).
GapIsNoticed == StreamPart!GapIsNoticed

\* Publish reports success only for an acknowledged record, and once it has returned
\* no open client still holds the record; no session leaks (Publisher).
NoLateWrite == PublisherPart!NoLateWrite

\* The exit code, and what is closed, agree with the tasks and the requests (run,
\* stegoRunTasks, stegoServeHTTP).
ExitIsHonest == ProcessPart!ExitIsHonest
=============================================================================
