------------------------------- MODULE MCLive -------------------------------
(***************************************************************************)
(* What must happen in the end, in small instances: that a pending apply   *)
(* is completed, that messages are delivered and transactions end, and     *)
(* that a signal ends a service. A behaviour runs one part, as `part`      *)
(* says; the variables of the others stay as they start.                   *)
(***************************************************************************)
EXTENDS MCApplyTransaction

VARIABLES
    part,
    txn, holder, status, seq, next, attempts, token, lease, due, at, msg, timer, purging,
    succeeded, purged,                                                     \* Outbox
    phase, stage, signal, ended, opened, task, failed, http, trouble, stopped, request,
    busy                                                                   \* ServiceProcess

outboxVars == <<txn, holder, status, seq, next, attempts, token, lease, due, at, msg, timer,
                purging, succeeded, purged>>
processVars == <<phase, stage, signal, ended, opened, task, failed, http, trouble, stopped,
                 request, busy>>
allVars == <<part, vars, outboxVars, processVars>>

\* Two workers and two messages of one key.
App == {"a1", "a2"}
Worker == {"v", "w"}
Delivers == INSTANCE Outbox WITH
    Msg <- {"m1", "m2"}, Key <- {"k"}, NoOne <- NoProc, LockOf <- [k |-> 1],
    Batch <- [a1 |-> {"m1"}, a2 |-> {"m2"}], KeyOf <- [m1 |-> "k", m2 |-> "k"],
    OperationTimeout <- 1, AttemptTimeout <- 1, SpareLease <- 0, RetryMin <- 1, RetryMax <- 2,
    PurgeAttempts <- 2, Retention <- 1, MaxAttempts <- 2, Faults <- {}

\* Two transactions that write to the same two keys, and no worker.
Enqueues == INSTANCE Outbox WITH
    Worker <- {}, Msg <- {"m1", "m2", "n1", "n2"}, Key <- {"k", "l"}, NoOne <- NoProc,
    LockOf <- [k |-> 1, l |-> 2], Batch <- [a1 |-> {"m1", "n1"}, a2 |-> {"m2", "n2"}],
    KeyOf <- [m1 |-> "k", m2 |-> "k", n1 |-> "l", n2 |-> "l"],
    OperationTimeout <- 1, AttemptTimeout <- 1, SpareLease <- 0, RetryMin <- 1, RetryMax <- 2,
    PurgeAttempts <- 2, Retention <- 1, MaxAttempts <- 2, Faults <- {}

Process == INSTANCE ServiceProcess WITH Request <- {"r", "s"}, Hijacked <- {"s"}

MCInit ==
    /\ part \in {"apply", "delivers", "enqueues", "process"}
    /\ Init /\ Process!Init
    /\ IF part = "enqueues" THEN Enqueues!Init ELSE Delivers!Init

MCNext ==
    /\ UNCHANGED part
    /\ \/ part = "apply" /\ Next /\ UNCHANGED <<outboxVars, processVars>>
       \/ part = "delivers" /\ Delivers!Next /\ UNCHANGED <<vars, processVars>>
       \/ part = "enqueues" /\ Enqueues!Next /\ UNCHANGED <<vars, processVars>>
       \/ part = "process" /\ Process!Next /\ UNCHANGED <<vars, outboxVars>>

\* The fairness of each part: that of its FairSpec, for the behaviours that run it.
\* A behaviour runs one part, so a disjunction over parts is fair to each of them.
MCSpec ==
    /\ MCInit /\ [][MCNext]_allVars
    /\ \A p \in Proc : /\ WF_vars(part = "apply" /\ Step(p))
                       /\ WF_vars(part = "apply" /\ BeginRecover(p))
    /\ WF_outboxVars(\/ part = "delivers" /\ Delivers!Tick
                     \/ part = "enqueues" /\ Enqueues!Tick)
    /\ \A a \in App : SF_outboxVars(\/ part = "delivers" /\ Delivers!Enqueue(a)
                                    \/ part = "enqueues" /\ Enqueues!Enqueue(a))
    /\ \A w \in Worker :
          /\ WF_outboxVars(part = "delivers" /\ Delivers!Work(w))
          /\ SF_outboxVars(part = "delivers" /\ Delivers!HandlerReturns(w, TRUE) /\ timer[w] > 0)
    /\ WF_processVars(part = "process" /\ Process!Deadlines)
    /\ WF_processVars(part = "process" /\ Process!Start)
    /\ WF_processVars(part = "process" /\ Process!RunTasks)
    /\ WF_processVars(part = "process" /\ Process!Propagate)
    /\ WF_processVars(part = "process" /\ Process!AllReturned)
    /\ WF_processVars(part = "process" /\ Process!HealthReturns)
    /\ WF_processVars(part = "process" /\ Process!EndDelivery)
    /\ WF_processVars(part = "process" /\ Process!KafkaReturns)
    /\ WF_processVars(part = "process" /\ Process!BeginShutdown)
    /\ WF_processVars(part = "process" /\ (Process!Close \/ Process!Exit))
    /\ \A t \in Process!Task : WF_processVars(part = "process" /\ Process!Collect(t))

-----------------------------------------------------------------------------
\* Every committed message is delivered, however often handlers fail before
\* (runOne, Retry).
EventuallyDelivered ==
    \A m \in {"m1", "m2"} : part = "delivers" /\ status[m] = "visible" ~> m \in succeeded

\* Transactions that share keys never wait for each other for ever (Enqueue sorts
\* its locks).
EnqueueEnds == \A a \in App : part = "enqueues" /\ txn[a] = "open" ~> txn[a] # "open"

\* A signal ends the process, whatever its handlers do (stegoRunTasks, drain).
SignalEnds == Process!SignalEnds
=============================================================================
