------------------------------- MODULE Outbox -------------------------------
(***************************************************************************)
(* The outbox of a generated service (internal/generator/outbox:           *)
(* queue.go.tmpl, worker.go.tmpl and the table of its migration).          *)
(*                                                                         *)
(* Application transactions enqueue batches of messages. The goroutines of *)
(* the workers of all processes claim the oldest message of a delivery key *)
(* for a lease, call its handler, and acknowledge the message or schedule  *)
(* a retry. Purge removes messages whose attempts are exhausted.           *)
(*                                                                         *)
(* Each SQL statement is one step of the database, except Purge, whose     *)
(* DELETE chooses its rows in a snapshot. Time is the database's clock,    *)
(* kept as the time that is left of each lease, delay and timeout.         *)
(***************************************************************************)
EXTENDS Integers, FiniteSets

CONSTANTS
    App,              \* application transactions that call Enqueue, once each
    Worker,           \* goroutines that run runOne
    Msg,              \* messages
    Key,              \* delivery keys: a destination and a resource key
    NoOne,            \* no holder of a lock or a lease
    Batch,            \* Batch[a]: the messages of transaction a
    KeyOf,            \* KeyOf[m]: the delivery key of m
    LockOf,           \* LockOf[k]: the advisory lock of key k, a hash that may collide
    OperationTimeout, \* the longest that a database call takes
    AttemptTimeout,   \* the longest that a handler runs
    SpareLease,       \* LeaseDuration beyond the least that NewWorker accepts
    RetryMin, RetryMax,
    PurgeAttempts,    \* the attempts that make a message a dead letter
    Retention,        \* how long Purge keeps it after its last retry fell due
    MaxAttempts,      \* attempts are counted up to here
    Faults            \* subset of {"crash", "database", "stall", "refuse", "purge"}

Lock == {LockOf[k] : k \in Key}

ASSUME OutboxAssumption ==
    /\ NoOne \notin App \cup Worker
    /\ Batch \in [App -> SUBSET Msg]
    /\ \A a, b \in App : a # b => Batch[a] \cap Batch[b] = {}
    /\ KeyOf \in [Msg -> Key] /\ LockOf \in [Key -> Int]
    /\ Faults \subseteq {"crash", "database", "stall", "refuse", "purge"}

ASSUME TimingAssumption ==
    /\ OperationTimeout \in Nat /\ AttemptTimeout \in Nat /\ SpareLease \in Nat
    /\ RetryMin \in Nat \ {0} /\ RetryMax \in Nat /\ RetryMin <= RetryMax
    /\ PurgeAttempts \in Nat /\ MaxAttempts \in Nat /\ Retention \in Nat

\* Up to MaxAttempts the count tells dead letters and delays apart.
ASSUME AttemptsAssumption ==
    PurgeAttempts <= MaxAttempts /\ RetryMin * 2^(MaxAttempts - 1) >= RetryMax

-----------------------------------------------------------------------------
VARIABLES
    txn,       \* the application transactions: "open", "committed" or "rolled back"
    holder,    \* the transaction that holds each advisory lock
    status,    \* the row of each message: "none", "pending", "visible" or "gone"
    seq,       \* the sequence column
    next,      \* the next value of its identity
    attempts,  \* the attempts column
    token,     \* the worker whose receipt matches lease_token
    lease,     \* the time until lease_until; 0: none, or expired
    due,       \* the time until available_at
    at,        \* where each worker is
    msg,       \* the message it delivers, or NoOne
    timer,     \* what is left of the timeout of its call
    purging,   \* the rows that a running Purge has chosen
    succeeded, \* history: messages whose handler returned success
    purged     \* history: messages that Purge removed

rowVars == <<status, seq, next, attempts, token, lease, due>>
txnVars == <<txn, holder>>
workerVars == <<at, msg, timer>>
historyVars == <<succeeded, purged>>
vars == <<txn, holder, status, seq, next, attempts, token, lease, due,
          at, msg, timer, purging, succeeded, purged>>

Init ==
    /\ txn = [a \in App |-> "open"]
    /\ holder = [l \in Lock |-> NoOne]
    /\ status = [m \in Msg |-> "none"] /\ seq = [m \in Msg |-> 0] /\ next = 1
    /\ attempts = [m \in Msg |-> 0]
    /\ token = [m \in Msg |-> NoOne] /\ lease = [m \in Msg |-> 0]
    /\ due = [m \in Msg |-> 0]
    /\ at = [w \in Worker |-> "idle"]
    /\ msg = [w \in Worker |-> NoOne] /\ timer = [w \in Worker |-> 0]
    /\ purging = {} /\ succeeded = {} /\ purged = {}

-----------------------------------------------------------------------------
(***************************************************************************)
(* Enqueue, in the transaction of the application.                         *)
(***************************************************************************)

Locks(a) == {LockOf[KeyOf[m]] : m \in Batch[a]}
Held(a) == {l \in Lock : holder[l] = a}

\* Mutant: the locks are taken in any order.
LockKeyUnsorted(a, l) ==
    /\ txn[a] = "open" /\ l \in Locks(a) \ Held(a)
    /\ holder[l] = NoOne
    /\ holder' = [holder EXCEPT ![l] = a]
    /\ UNCHANGED <<txn, rowVars, workerVars, purging, historyVars>>

\* pg_advisory_xact_lock, for the keys of the batch in the order of their
\* hashes; it waits for the transaction that holds the lock.
LockKey(a, l) ==
    /\ txn[a] = "open" /\ l \in Locks(a) \ Held(a)
    /\ \A k \in Locks(a) \ Held(a) : l <= k
    /\ holder[l] = NoOne
    /\ holder' = [holder EXCEPT ![l] = a]
    /\ UNCHANGED <<txn, rowVars, workerVars, purging, historyVars>>

\* Mutant: rows are inserted before the locks are held.
InsertUnlocked(a, m) ==
    /\ txn[a] = "open" /\ m \in Batch[a] /\ status[m] = "none"
    /\ status' = [status EXCEPT ![m] = "pending"]
    /\ seq' = [seq EXCEPT ![m] = next] /\ next' = next + 1
    /\ due' = [due EXCEPT ![m] = 0]
    /\ UNCHANGED <<txnVars, attempts, token, lease, workerVars, purging, historyVars>>

\* INSERT of one message, when every lock is held; the identity column numbers it.
Insert(a, m) ==
    /\ txn[a] = "open" /\ m \in Batch[a] /\ status[m] = "none"
    /\ Locks(a) \subseteq Held(a)
    /\ status' = [status EXCEPT ![m] = "pending"]
    /\ seq' = [seq EXCEPT ![m] = next] /\ next' = next + 1
    /\ due' = [due EXCEPT ![m] = 0]
    /\ UNCHANGED <<txnVars, attempts, token, lease, workerVars, purging, historyVars>>

\* The end of the transaction releases its locks.
End(a, outcome, rows) ==
    /\ txn' = [txn EXCEPT ![a] = outcome]
    /\ holder' = [l \in Lock |-> IF holder[l] = a THEN NoOne ELSE holder[l]]
    /\ status' = [m \in Msg |-> IF m \in Batch[a] THEN rows ELSE status[m]]
    /\ UNCHANGED <<seq, next, attempts, token, lease, due, workerVars, purging, historyVars>>

\* The application commits only if Enqueue succeeded.
Commit(a) ==
    /\ txn[a] = "open" /\ \A m \in Batch[a] : status[m] = "pending"
    /\ End(a, "committed", "visible")

\* Enqueue failed, or the application gave up.
Rollback(a) == txn[a] = "open" /\ End(a, "rolled back", "none")

-----------------------------------------------------------------------------
(***************************************************************************)
(* Queue.Claim, and the worker that calls it.                              *)
(***************************************************************************)

Earlier(n, m) == KeyOf[n] = KeyOf[m] /\ status[n] = "visible" /\ seq[n] < seq[m]

\* Mutant: an earlier message of the key blocks only while it is not leased.
ReadyUnlessWaiting(m) ==
    /\ status[m] = "visible" /\ due[m] <= 0 /\ lease[m] = 0
    /\ \A n \in Msg : Earlier(n, m) => lease[n] > 0

\* Mutant: a leased message can be claimed again.
ReadyWhileLeased(m) ==
    status[m] = "visible" /\ due[m] <= 0 /\ \A n \in Msg : ~Earlier(n, m)

\* Mutant: the worker gives up a message once its attempts are exhausted.
ReadyUntilDead(m) ==
    /\ status[m] = "visible" /\ due[m] <= 0 /\ lease[m] = 0
    /\ attempts[m] < PurgeAttempts
    /\ \A n \in Msg : ~Earlier(n, m)

\* The rows that the claim can lease: due, not leased, the oldest of their key.
Ready(m) ==
    /\ status[m] = "visible" /\ due[m] <= 0 /\ lease[m] = 0
    /\ \A n \in Msg : ~Earlier(n, m)

\* Mutant: the lease covers the handler and one database call.
LeaseOneCall == AttemptTimeout + OperationTimeout + SpareLease

\* NewWorker: the lease covers the claim, the handler and the acknowledgement.
LeaseDuration == AttemptTimeout + 2 * OperationTimeout + 1 + SpareLease

\* The row is leased and the attempt counted. SKIP LOCKED may pass over older
\* rows of other keys, so the choice among the ready rows is free.
Take(m, owner) ==
    /\ Ready(m)
    /\ token' = [token EXCEPT ![m] = owner]
    /\ lease' = [lease EXCEPT ![m] = LeaseDuration]
    /\ attempts' = [attempts EXCEPT ![m] = IF @ < MaxAttempts THEN @ + 1 ELSE @]
    /\ UNCHANGED <<txnVars, status, seq, next, due, purging, historyVars>>

\* The worker goes on with a timeout of t.
Goto(w, label, t) ==
    /\ at' = [at EXCEPT ![w] = label]
    /\ timer' = [timer EXCEPT ![w] = t]

\* The worker has done with its message, and polls again.
Poll(w) ==
    /\ Goto(w, "idle", 0)
    /\ msg' = [msg EXCEPT ![w] = NoOne]

Claim(w, m) ==
    /\ at[w] = "idle" /\ Take(m, w)
    /\ Goto(w, "claimed", OperationTimeout)
    /\ msg' = [msg EXCEPT ![w] = m]

\* The claim commits, but its result does not reach the worker.
ClaimLost(w, m) ==
    /\ "database" \in Faults /\ at[w] = "idle" /\ Take(m, NoOne)
    /\ UNCHANGED workerVars

-----------------------------------------------------------------------------
(***************************************************************************)
(* Worker.deliver.                                                         *)
(***************************************************************************)

\* The handler is called ...
Deliver(w) ==
    /\ at[w] = "claimed"
    /\ Goto(w, "handling", AttemptTimeout)
    /\ UNCHANGED <<txnVars, rowVars, msg, purging, historyVars>>

\* ... unless the worker stops or the destination has no handler.
Refuse(w) ==
    /\ "refuse" \in Faults /\ at[w] = "claimed"
    /\ Goto(w, "retry", OperationTimeout)
    /\ UNCHANGED <<txnVars, rowVars, msg, purging, historyVars>>

\* Mutant: the error of the handler is dropped.
HandlerReturnsUnchecked(w, ok) ==
    /\ at[w] = "handling"
    /\ succeeded' = IF ok THEN succeeded \cup {msg[w]} ELSE succeeded
    /\ Goto(w, IF timer[w] > 0 THEN "ack" ELSE "retry", OperationTimeout)
    /\ UNCHANGED <<txnVars, rowVars, msg, purging, purged>>

\* A success after the deadline counts as a failure.
HandlerReturns(w, ok) ==
    /\ at[w] = "handling"
    /\ succeeded' = IF ok THEN succeeded \cup {msg[w]} ELSE succeeded
    /\ Goto(w, IF ok /\ timer[w] > 0 THEN "ack" ELSE "retry", OperationTimeout)
    /\ UNCHANGED <<txnVars, rowVars, msg, purging, purged>>

\* The receipt of worker w is valid: lease_token matches and the lease lasts.
Valid(w) ==
    status[msg[w]] = "visible" /\ token[msg[w]] = w /\ lease[msg[w]] > 0

\* Queue.Acknowledge: without a valid receipt nothing changes.
Acknowledge(w) ==
    /\ at[w] = "ack" /\ Poll(w)
    /\ status' = IF Valid(w) THEN [status EXCEPT ![msg[w]] = "gone"] ELSE status
    /\ UNCHANGED <<txnVars, seq, next, attempts, token, lease, due, purging, historyVars>>

\* jitterBackoff without the jitter: RetryMin, doubled with every attempt up to
\* RetryMax.
BackoffDelay[n \in Nat] ==
    IF n <= 1 THEN RetryMin
    ELSE IF BackoffDelay[n - 1] > RetryMax \div 2 THEN RetryMax
    ELSE 2 * BackoffDelay[n - 1]

\* The jitter takes off up to half.
Backoff(n) == (BackoffDelay[n] \div 2)..BackoffDelay[n]

\* Mutant: the receipt of an expired lease can reschedule the message.
RetryAnyReceipt(w, delay) ==
    /\ at[w] = "retry" /\ Poll(w)
    /\ LET m == msg[w] IN
       IF status[m] = "visible"
       THEN /\ token' = [token EXCEPT ![m] = NoOne]
            /\ lease' = [lease EXCEPT ![m] = 0]
            /\ due' = [due EXCEPT ![m] = delay]
       ELSE UNCHANGED <<token, lease, due>>
    /\ UNCHANGED <<txnVars, status, seq, next, attempts, purging, historyVars>>

\* Queue.Retry.
Retry(w, delay) ==
    /\ at[w] = "retry" /\ Poll(w)
    /\ LET m == msg[w] IN
       IF Valid(w)
       THEN /\ token' = [token EXCEPT ![m] = NoOne]
            /\ lease' = [lease EXCEPT ![m] = 0]
            /\ due' = [due EXCEPT ![m] = delay]
       ELSE UNCHANGED <<token, lease, due>>
    /\ UNCHANGED <<txnVars, status, seq, next, attempts, purging, historyVars>>

\* The database fails: the lease stays for later recovery.
FinishFails(w) ==
    /\ "database" \in Faults /\ at[w] \in {"ack", "retry"}
    /\ Poll(w)
    /\ UNCHANGED <<txnVars, rowVars, purging, historyVars>>

\* The process of the worker dies and is started again.
Crash(w) ==
    /\ "crash" \in Faults /\ at[w] # "idle"
    /\ Poll(w)
    /\ UNCHANGED <<txnVars, rowVars, purging, historyVars>>

-----------------------------------------------------------------------------
(***************************************************************************)
(* Queue.Purge: DELETE ... WHERE id IN (SELECT ... ORDER BY sequence LIMIT). *)
(***************************************************************************)

DeadLetters ==
    {m \in Msg : status[m] = "visible" /\ attempts[m] >= PurgeAttempts /\ due[m] <= -Retention}

\* The subselect reads the snapshot of the statement, up to some limit.
PurgeSelect ==
    /\ "purge" \in Faults /\ purging = {}
    /\ \E chosen \in SUBSET DeadLetters \ {{}} :
          /\ \A m \in chosen, n \in DeadLetters : seq[n] < seq[m] => n \in chosen
          /\ purging' = chosen
    /\ UNCHANGED <<txnVars, rowVars, workerVars, historyVars>>

\* The rows it chose are deleted. When another transaction changed one in
\* between, the database tests only the id of the new row against the choice.
PurgeDelete ==
    /\ purging # {}
    /\ status' = [m \in Msg |-> IF m \in purging /\ status[m] = "visible" THEN "gone" ELSE status[m]]
    /\ purged' = purged \cup {m \in purging : status[m] = "visible"}
    /\ purging' = {}
    /\ UNCHANGED <<txnVars, seq, next, attempts, token, lease, due, workerVars, succeeded>>

-----------------------------------------------------------------------------
\* Time passes. Unless processes stall, every call of a worker ends within its
\* timeout: the handler honours its deadline, and a database call has a context.
Tick ==
    /\ "stall" \in Faults \/ \A w \in Worker : at[w] # "idle" => timer[w] > 0
    /\ lease' = [m \in Msg |-> IF lease[m] > 0 THEN lease[m] - 1 ELSE 0]
    /\ due' = [m \in Msg |-> IF due[m] > -Retention THEN due[m] - 1 ELSE due[m]]
    /\ timer' = [w \in Worker |-> IF timer[w] > 0 THEN timer[w] - 1 ELSE 0]
    /\ UNCHANGED <<txnVars, status, seq, next, attempts, token, at, msg, purging, historyVars>>

Enqueue(a) ==
    \/ \E l \in Lock : LockKey(a, l)
    \/ \E m \in Msg : Insert(a, m)
    \/ Commit(a)

\* A step of a worker in which nothing fails.
Work(w) ==
    \/ \E m \in Msg : Claim(w, m)
    \/ Deliver(w)
    \/ \E ok \in BOOLEAN : HandlerReturns(w, ok)
    \/ Acknowledge(w)
    \/ at[w] = "retry" /\ \E delay \in Backoff(attempts[msg[w]]) : Retry(w, delay)

Fault(w) ==
    \/ \E m \in Msg : ClaimLost(w, m)
    \/ Refuse(w) \/ FinishFails(w) \/ Crash(w)

Next ==
    \/ \E a \in App : Enqueue(a) \/ Rollback(a)
    \/ \E w \in Worker : Work(w) \/ Fault(w)
    \/ PurgeSelect \/ PurgeDelete
    \/ Tick

Spec == Init /\ [][Next]_vars

\* Transactions go on, workers poll, time passes, and a handler does not fail
\* for ever.
FairSpec ==
    /\ Spec
    /\ WF_vars(Tick)
    /\ \A a \in App : SF_vars(Enqueue(a))
    /\ \A w \in Worker : WF_vars(Work(w)) /\ SF_vars(HandlerReturns(w, TRUE) /\ timer[w] > 0)

-----------------------------------------------------------------------------
(***************************************************************************)
(* Properties.                                                             *)
(***************************************************************************)

Busy == {"claimed", "handling", "ack", "retry"}

TxnTypeOK ==
    /\ txn \in [App -> {"open", "committed", "rolled back"}]
    /\ holder \in [Lock -> App \cup {NoOne}]

RowTypeOK ==
    /\ status \in [Msg -> {"none", "pending", "visible", "gone"}]
    /\ seq \in [Msg -> Nat] /\ next \in Nat
    /\ attempts \in [Msg -> 0..MaxAttempts]
    /\ token \in [Msg -> Worker \cup {NoOne}]
    /\ lease \in [Msg -> Nat] /\ due \in [Msg -> Int]

WorkerTypeOK ==
    /\ at \in [Worker -> {"idle"} \cup Busy]
    /\ msg \in [Worker -> Msg \cup {NoOne}]
    /\ timer \in [Worker -> Nat]

HistoryTypeOK == purging \subseteq Msg /\ succeeded \subseteq Msg /\ purged \subseteq Msg

TypeOK == TxnTypeOK /\ RowTypeOK /\ WorkerTypeOK /\ HistoryTypeOK

Committed(m) == status[m] \in {"visible", "gone"}

\* Inserted rows have distinct numbers below the next one.
SequenceInv ==
    \A m \in Msg : /\ seq[m] < next
                   /\ \A n \in Msg : m # n /\ status[m] # "none" /\ status[n] # "none" => seq[m] # seq[n]

\* The rows of a transaction, and its locks once it has inserted one.
BatchInv ==
    /\ \A m \in Msg : status[m] # "none" => \E a \in App : m \in Batch[a]
    /\ \A a \in App : \A m \in Batch[a] :
          /\ txn[a] = "open" => ~Committed(m)
          /\ status[m] = "pending" => txn[a] = "open" /\ Locks(a) \subseteq Held(a)

\* A row that is not yet committed comes after the committed ones of its key.
OrderInv ==
    \A m, n \in Msg :
        KeyOf[m] = KeyOf[n] /\ Committed(m) /\ status[n] = "pending" => seq[m] < seq[n]

\* What a worker and the rows that have gone stand for.
DeliveryInv ==
    /\ \A w \in Worker : at[w] # "idle" =>
          msg[w] \in Msg /\ Committed(msg[w]) /\ \A n \in Msg : ~Earlier(n, msg[w])
    /\ \A w \in Worker : at[w] = "ack" => msg[w] \in succeeded
    /\ \A m \in Msg : status[m] = "gone" => m \in succeeded \cup purged

\* The longest that a worker needs after the call that it is in.
Rest(label) ==
    CASE label = "claimed" -> AttemptTimeout + OperationTimeout
      [] label = "handling" -> OperationTimeout
      [] OTHER -> 0

\* The lease of a message outlasts its worker.
LeaseInv ==
    /\ purging = {}
    /\ \A w \in Worker : at[w] # "idle" =>
          Valid(w) /\ lease[msg[w]] > timer[w] + Rest(at[w])

\* Processes keep their timeouts and nobody purges.
Punctual == Faults \cap {"stall", "purge"} = {}

\* The inductive invariant behind the order of the messages of a key and, when
\* no process stalls, behind their leases (Enqueue, Claim, deliver).
IndInv ==
    /\ TypeOK
    /\ SequenceInv /\ BatchInv /\ OrderInv /\ DeliveryInv
    /\ Punctual => LeaseInv

\* Messages of one key are delivered one at a time, whatever fails, as long as
\* processes do not stall and nobody purges: an earlier message blocks its key
\* during delivery and retry (Claim, NewWorker's bound on the lease).
OneDeliveryPerKey ==
    \A v, w \in Worker :
        v # w /\ at[v] = "handling" /\ at[w] = "handling" => KeyOf[msg[v]] # KeyOf[msg[w]]

\* Transactions that write to one key commit in the order of the sequence: a
\* message never appears before one that is already there (Enqueue's locks
\* precede the sequence).
CommitsInOrder ==
    [][\A m, n \in Msg :
          KeyOf[m] = KeyOf[n] /\ Committed(m) /\ ~Committed(n) /\ Committed(n)' => seq[m] < seq'[n]]_vars

\* A handler is called only when every earlier message of the key has been
\* delivered, or purged, also after a stall (Claim, Acknowledge).
DeliveredInOrder ==
    [][\A w \in Worker, n \in Msg :
          at[w] = "claimed" /\ at'[w] = "handling" /\ Committed(n)
              /\ KeyOf[n] = KeyOf[msg[w]] /\ seq[n] < seq[msg[w]] => n \in succeeded \cup purged]_vars

\* A message leaves the queue only after a handler returned success, or by
\* Purge (deliver, Acknowledge).
NeverLost == [][\A m \in Msg : status[m] = "visible" /\ status'[m] # "visible" =>
                                  m \in succeeded \cup purged']_vars

\* While its lease lasts, nobody but its worker, or Purge, reschedules, takes
\* or removes a message (Claim, Acknowledge, Retry). Where workers stall past
\* their leases (~Punctual), this includes that the expired receipt of an earlier
\* attempt has no effect; where they do not, no receipt expires.
LeaseIsKept ==
    [][\A w \in Worker : at[w] \in Busy /\ at'[w] \in Busy /\ Valid(w) /\ lease[msg[w]] > 1 =>
          Valid(w)' \/ msg[w] \in purged']_vars

\* Purge never discards a message that is still scheduled.
PurgeKeepsScheduled == [][\A m \in Msg : m \in purged' \ purged => due[m] <= 0]_vars

\* Every committed message is delivered, however often handlers fail before
\* (runOne, Retry).
EventuallyDelivered == \A m \in Msg : status[m] = "visible" ~> m \in succeeded

\* Transactions that share keys never wait for each other for ever (Enqueue
\* sorts its locks).
EnqueueEnds == \A a \in App : txn[a] = "open" ~> txn[a] # "open"
=============================================================================
