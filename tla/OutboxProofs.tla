---------------------------- MODULE OutboxProofs ----------------------------
(***************************************************************************)
(* Outbox keeps the order of the messages of a key, loses none, and        *)
(* delivers one at a time, for any number of transactions, workers,        *)
(* messages and keys, and for any timeouts.                                *)
(***************************************************************************)
EXTENDS Outbox, TLAPS

-----------------------------------------------------------------------------
\* The steps of Next, one by one (Enqueue, runOne, deliver, Purge).
LEMMA Steps ==
    ASSUME [Next]_vars
    PROVE  \/ \E a \in App, l \in Lock : LockKey(a, l)
           \/ \E a \in App, m \in Msg : Insert(a, m)
           \/ \E a \in App : Commit(a)
           \/ \E a \in App : Rollback(a)
           \/ \E w \in Worker, m \in Msg : Claim(w, m)
           \/ \E w \in Worker, m \in Msg : ClaimLost(w, m)
           \/ \E w \in Worker : Deliver(w)
           \/ \E w \in Worker : Refuse(w)
           \/ \E w \in Worker, ok \in BOOLEAN : HandlerReturns(w, ok)
           \/ \E w \in Worker : Acknowledge(w)
           \/ \E w \in Worker, delay \in Int : Retry(w, delay)
           \/ \E w \in Worker : FinishFails(w)
           \/ \E w \in Worker : Crash(w)
           \/ PurgeSelect
           \/ PurgeDelete
           \/ Tick
           \/ UNCHANGED vars
  <1>1. ASSUME NEW w \in Worker, NEW delay \in Backoff(attempts[msg[w]])
        PROVE  delay \in Int
    BY <1>1 DEF Backoff
  <1> QED
    BY <1>1 DEF Next, Enqueue, Work, Fault

\* A worker's delay and timers are counted in natural numbers (NewWorker).
LEMMA LeaseType == LeaseDuration \in Nat
  BY TimingAssumption DEF LeaseDuration

-----------------------------------------------------------------------------
\* Groups of variables that a step leaves alone keep their types.
LEMMA TypeUnchanged ==
    ASSUME TypeOK
    PROVE  /\ UNCHANGED txnVars => TxnTypeOK'
           /\ UNCHANGED rowVars => RowTypeOK'
           /\ UNCHANGED workerVars => WorkerTypeOK'
           /\ UNCHANGED <<purging, historyVars>> => HistoryTypeOK'
  BY DEF TypeOK, TxnTypeOK, RowTypeOK, WorkerTypeOK, HistoryTypeOK,
         txnVars, rowVars, workerVars, historyVars

\* The statements of Enqueue's transaction keep the types (Enqueue, Commit, Rollback).
LEMMA TxnTypeStep ==
    ASSUME TypeOK, NEW a \in App,
           \/ \E l \in Lock : LockKey(a, l)
           \/ \E m \in Msg : Insert(a, m)
           \/ Commit(a) \/ Rollback(a)
    PROVE  TypeOK'
  <1>1. CASE \E l \in Lock : LockKey(a, l)
    <2> PICK l \in Lock : LockKey(a, l)
      BY <1>1
    <2>1. TxnTypeOK'
      BY DEF LockKey, TypeOK, TxnTypeOK
    <2> QED
      BY <2>1, TypeUnchanged DEF LockKey, TypeOK
  <1>2. CASE \E m \in Msg : Insert(a, m)
    <2> PICK m \in Msg : Insert(a, m)
      BY <1>2
    <2>1. RowTypeOK'
      BY DEF Insert, TypeOK, RowTypeOK
    <2> QED
      BY <2>1, TypeUnchanged DEF Insert, TypeOK
  <1>3. CASE Commit(a) \/ Rollback(a)
    <2>1. TxnTypeOK'
      BY <1>3 DEF Commit, Rollback, End, TypeOK, TxnTypeOK
    <2>2. RowTypeOK'
      BY <1>3 DEF Commit, Rollback, End, TypeOK, RowTypeOK
    <2> QED
      BY <1>3, <2>1, <2>2, TypeUnchanged DEF Commit, Rollback, End, TypeOK
  <1> QED
    BY <1>1, <1>2, <1>3

\* A worker that goes on, or polls again, keeps the types (runOne, deliver).
LEMMA WorkerGoes ==
    ASSUME TypeOK, NEW w \in Worker,
           \/ \E label \in Busy, t \in Nat : Goto(w, label, t) /\ UNCHANGED msg
           \/ \E m \in Msg, t \in Nat : Goto(w, "claimed", t) /\ msg' = [msg EXCEPT ![w] = m]
           \/ Poll(w)
    PROVE  WorkerTypeOK'
  <1>1. CASE \E label \in Busy, t \in Nat : Goto(w, label, t) /\ UNCHANGED msg
    BY <1>1 DEF Goto, TypeOK, WorkerTypeOK
  <1>2. CASE \E m \in Msg, t \in Nat : Goto(w, "claimed", t) /\ msg' = [msg EXCEPT ![w] = m]
    BY <1>2 DEF Goto, Busy, TypeOK, WorkerTypeOK
  <1>3. CASE Poll(w)
    BY <1>3 DEF Poll, Goto, TypeOK, WorkerTypeOK
  <1> QED
    BY <1>1, <1>2, <1>3

\* Claim's update of a row keeps its types (Claim).
LEMMA TakeType ==
    ASSUME TypeOK, NEW m \in Msg, NEW owner \in Worker \cup {NoOne}, Take(m, owner)
    PROVE  TxnTypeOK' /\ RowTypeOK' /\ HistoryTypeOK'
  <1>1. RowTypeOK'
    BY LeaseType, TimingAssumption DEF Take, TypeOK, RowTypeOK
  <1> QED
    BY <1>1, TypeUnchanged DEF Take, TypeOK

\* The steps of a worker keep the types (runOne, deliver, Claim, Acknowledge, Retry).
LEMMA WorkerTypeStep ==
    ASSUME TypeOK, DeliveryInv, NEW w \in Worker,
           \/ \E m \in Msg : Claim(w, m) \/ ClaimLost(w, m)
           \/ Deliver(w) \/ Refuse(w)
           \/ \E ok \in BOOLEAN : HandlerReturns(w, ok)
           \/ Acknowledge(w)
           \/ \E delay \in Int : Retry(w, delay)
           \/ FinishFails(w) \/ Crash(w)
    PROVE  TypeOK'
  <1> USE TimingAssumption
  <1>1. CASE \E m \in Msg : Claim(w, m)
    <2> PICK m \in Msg : Claim(w, m)
      BY <1>1
    <2>1. WorkerTypeOK'
      BY WorkerGoes DEF Claim
    <2> QED
      BY <2>1, TakeType DEF Claim, TypeOK
  <1>2. CASE \E m \in Msg : ClaimLost(w, m)
    BY <1>2, TakeType, TypeUnchanged DEF ClaimLost, TypeOK
  <1>3. CASE Deliver(w) \/ Refuse(w)
    <2>1. WorkerTypeOK'
      BY <1>3, WorkerGoes DEF Deliver, Refuse, Busy
    <2> QED
      BY <1>3, <2>1, TypeUnchanged DEF Deliver, Refuse, TypeOK
  <1>4. CASE \E ok \in BOOLEAN : HandlerReturns(w, ok)
    <2> PICK ok \in BOOLEAN : HandlerReturns(w, ok)
      BY <1>4
    <2>1. WorkerTypeOK'
      BY WorkerGoes DEF HandlerReturns, Busy
    <2>2. HistoryTypeOK'
      BY DEF HandlerReturns, DeliveryInv, TypeOK, HistoryTypeOK
    <2> QED
      BY <2>1, <2>2, TypeUnchanged DEF HandlerReturns, TypeOK
  <1>5. CASE Acknowledge(w)
    <2>1. WorkerTypeOK'
      BY <1>5, WorkerGoes DEF Acknowledge
    <2>2. RowTypeOK'
      BY <1>5 DEF Acknowledge, TypeOK, RowTypeOK
    <2> QED
      BY <1>5, <2>1, <2>2, TypeUnchanged DEF Acknowledge, TypeOK
  <1>6. CASE \E delay \in Int : Retry(w, delay)
    <2> PICK delay \in Int : Retry(w, delay)
      BY <1>6
    <2>1. WorkerTypeOK'
      BY WorkerGoes DEF Retry
    <2>2. RowTypeOK'
      BY DEF Retry, TypeOK, RowTypeOK
    <2> QED
      BY <2>1, <2>2, TypeUnchanged DEF Retry, TypeOK
  <1>7. CASE FinishFails(w) \/ Crash(w)
    BY <1>7, WorkerGoes, TypeUnchanged DEF FinishFails, Crash, TypeOK
  <1> QED
    BY <1>1, <1>2, <1>3, <1>4, <1>5, <1>6, <1>7

\* Every step keeps the types (all operations of the queue and the worker).
LEMMA TypeStep ==
    ASSUME TypeOK, DeliveryInv, [Next]_vars
    PROVE  TypeOK'
  <1>1. CASE PurgeSelect
    <2>1. HistoryTypeOK'
      BY <1>1 DEF PurgeSelect, DeadLetters, TypeOK, HistoryTypeOK, historyVars
    <2> QED
      BY <1>1, <2>1, TypeUnchanged DEF PurgeSelect, TypeOK
  <1>2. CASE PurgeDelete
    <2>1. HistoryTypeOK'
      BY <1>2 DEF PurgeDelete, TypeOK, HistoryTypeOK
    <2>2. RowTypeOK'
      BY <1>2 DEF PurgeDelete, TypeOK, RowTypeOK
    <2> QED
      BY <1>2, <2>1, <2>2, TypeUnchanged DEF PurgeDelete, TypeOK
  <1>3. CASE Tick
    <2>1. RowTypeOK'
      BY <1>3, TimingAssumption DEF Tick, TypeOK, RowTypeOK
    <2>2. WorkerTypeOK'
      BY <1>3 DEF Tick, TypeOK, WorkerTypeOK
    <2> QED
      BY <1>3, <2>1, <2>2, TypeUnchanged DEF Tick, TypeOK
  <1>4. CASE UNCHANGED vars
    BY <1>4, TypeUnchanged DEF vars, TypeOK, txnVars, rowVars, workerVars, historyVars
  <1> QED
    BY <1>1, <1>2, <1>3, <1>4, Steps, TxnTypeStep, WorkerTypeStep

-----------------------------------------------------------------------------
(***************************************************************************)
(* The order of the messages.                                              *)
(***************************************************************************)

\* What a step does to the rows: a commit, an insertion, a removal, or nothing
\* that the order depends on (every operation that changes the table).
LEMMA RowSteps ==
    ASSUME TypeOK, BatchInv, DeliveryInv, [Next]_vars
    PROVE  \/ \E a \in App, m \in Msg : Insert(a, m)
           \/ \E a \in App : Commit(a) \/ Rollback(a)
           \/ /\ UNCHANGED <<txn, seq, next>>
              /\ \A a \in App : Held(a) \subseteq Held(a)'
              /\ \A m \in Msg : status'[m] = status[m] \/ (status[m] = "visible" /\ status'[m] = "gone")
  <1> DEFINE Keeps ==
              /\ UNCHANGED <<txn, seq, next>>
              /\ \A a \in App : Held(a) \subseteq Held(a)'
              /\ \A m \in Msg : status'[m] = status[m] \/ (status[m] = "visible" /\ status'[m] = "gone")
  <1>0. UNCHANGED <<txnVars, seq, next, status>> => Keeps
    BY DEF txnVars, Held
  <1>1. ASSUME NEW a \in App, NEW l \in Lock, LockKey(a, l)
        PROVE  Keeps
    BY <1>1, OutboxAssumption DEF LockKey, Held, rowVars, TypeOK, TxnTypeOK
  <1>2. ASSUME NEW w \in Worker, Acknowledge(w)
        PROVE  Keeps
    BY <1>2 DEF Acknowledge, Valid, txnVars, Held, TypeOK, RowTypeOK
  <1>3. ASSUME PurgeDelete
        PROVE  Keeps
    BY <1>3 DEF PurgeDelete, txnVars, Held
  <1>4. ASSUME NEW w \in Worker, NEW m \in Msg, Claim(w, m) \/ ClaimLost(w, m)
        PROVE  Keeps
    BY <1>4, <1>0 DEF Claim, ClaimLost, Take
  <1>5. ASSUME NEW w \in Worker,
               \/ Deliver(w) \/ Refuse(w) \/ FinishFails(w) \/ Crash(w)
               \/ \E ok \in BOOLEAN : HandlerReturns(w, ok)
               \/ \E delay \in Int : Retry(w, delay)
        PROVE  Keeps
    BY <1>5, <1>0 DEF Deliver, Refuse, FinishFails, Crash, HandlerReturns, Retry, rowVars
  <1>6. PurgeSelect \/ Tick \/ UNCHANGED vars => Keeps
    BY <1>0 DEF PurgeSelect, Tick, vars, rowVars, txnVars
  <1> QED
    BY <1>1, <1>2, <1>3, <1>4, <1>5, <1>6, Steps

\* Rows keep distinct numbers (the identity column).
LEMMA SequenceStep ==
    ASSUME TypeOK, SequenceInv, BatchInv, DeliveryInv, [Next]_vars
    PROVE  SequenceInv'
  <1>1. CASE \E a \in App, m \in Msg : Insert(a, m)
    BY <1>1 DEF Insert, SequenceInv, TypeOK, RowTypeOK
  <1>2. CASE \E a \in App : Commit(a) \/ Rollback(a)
    <2> PICK a \in App : Commit(a) \/ Rollback(a)
      BY <1>2
    <2>1. \A m \in Msg : status'[m] # "none" => status[m] # "none"
      BY OutboxAssumption DEF Commit, Rollback, End
    <2> QED
      BY <2>1 DEF Commit, Rollback, End, SequenceInv
  <1>3. CASE /\ UNCHANGED <<txn, seq, next>>
             /\ \A m \in Msg : status'[m] = status[m] \/ (status[m] = "visible" /\ status'[m] = "gone")
    BY <1>3 DEF SequenceInv, TypeOK, RowTypeOK
  <1> QED
    BY <1>1, <1>2, <1>3, RowSteps

\* Once a transaction has inserted a row it holds its locks until it ends
\* (Enqueue; pg_advisory_xact_lock).
LEMMA BatchStep ==
    ASSUME TypeOK, BatchInv, DeliveryInv, [Next]_vars
    PROVE  BatchInv'
  <1> USE OutboxAssumption
  <1>1. CASE \E a \in App, m \in Msg : Insert(a, m)
    <2> PICK a \in App, m \in Msg : Insert(a, m)
      BY <1>1
    <2>1. UNCHANGED <<txn, holder>> /\ \A b \in App : Held(b)' = Held(b)
      BY DEF Insert, txnVars, Held
    <2>2. \A n \in Msg : status'[n] = IF n = m THEN "pending" ELSE status[n]
      BY DEF Insert, TypeOK, RowTypeOK
    <2>3. \A b \in App : m \in Batch[b] => b = a
      BY DEF Insert
    <2>4. \A b \in App : Locks(b)' = Locks(b)
      BY DEF Locks
    <2>5. \A b \in App : Batch[b] \subseteq Msg
      OBVIOUS
    <2> QED
      BY <2>1, <2>2, <2>3, <2>4, <2>5 DEF Insert, BatchInv, Committed
  <1>2. CASE \E a \in App : Commit(a) \/ Rollback(a)
    <2> PICK a \in App : Commit(a) \/ Rollback(a)
      BY <1>2
    <2>1. /\ txn'[a] \in {"committed", "rolled back"}
          /\ \A b \in App : b # a => txn'[b] = txn[b] /\ Held(b) \subseteq Held(b)'
      BY DEF Commit, Rollback, End, Held, TypeOK, TxnTypeOK
    <2>2. \A m \in Msg : IF m \in Batch[a] THEN status'[m] \in {"visible", "none"}
                                             ELSE status'[m] = status[m]
      BY DEF Commit, Rollback, End
    <2>3. \A b \in App : Locks(b)' = Locks(b)
      BY DEF Locks
    <2>4. \A b \in App : Batch[b] \subseteq Msg /\ (b # a => Batch[a] \cap Batch[b] = {})
      OBVIOUS
    <2>5. ASSUME NEW m \in Msg, status'[m] # "none"
          PROVE  \E b \in App : m \in Batch[b]
      BY <2>2, <2>5 DEF BatchInv
    <2>6. ASSUME NEW b \in App, NEW m \in Batch[b]
          PROVE  /\ txn'[b] = "open" => ~Committed(m)'
                 /\ status'[m] = "pending" => txn'[b] = "open" /\ Locks(b)' \subseteq Held(b)'
      <3>1. CASE b = a
        BY <2>1, <2>2, <2>4, <3>1
      <3>2. CASE b # a
        <4>1. m \in Msg /\ status'[m] = status[m]
          BY <2>2, <2>4, <3>2
        <4> QED
          BY <2>1, <2>3, <3>2, <4>1 DEF BatchInv, Committed
      <3> QED
        BY <3>1, <3>2
    <2> QED
      BY <2>5, <2>6 DEF BatchInv
  <1>3. CASE /\ UNCHANGED <<txn, seq, next>>
             /\ \A a \in App : Held(a) \subseteq Held(a)'
             /\ \A m \in Msg : status'[m] = status[m] \/ (status[m] = "visible" /\ status'[m] = "gone")
    <2>1. \A b \in App : Locks(b)' = Locks(b) /\ Batch[b] \subseteq Msg
      BY DEF Locks
    <2> QED
      BY <1>3, <2>1 DEF BatchInv, Committed
  <1> QED
    BY <1>1, <1>2, <1>3, RowSteps

\* Two transactions cannot both have inserted rows of one key: they share its
\* lock (Enqueue).
LEMMA OneWriterPerKey ==
    ASSUME TypeOK, BatchInv, NEW m \in Msg, NEW n \in Msg, NEW a \in App, NEW b \in App,
           KeyOf[m] = KeyOf[n], m \in Batch[a], n \in Batch[b],
           status[m] = "pending", status[n] = "pending"
    PROVE  a = b
  <1>1. LockOf[KeyOf[m]] \in Locks(a) /\ LockOf[KeyOf[m]] \in Locks(b)
    BY DEF Locks
  <1>2. LockOf[KeyOf[m]] \in Held(a) /\ LockOf[KeyOf[m]] \in Held(b)
    BY <1>1 DEF BatchInv
  <1> QED
    BY <1>2 DEF Held

\* Commits keep the order of the sequence (Enqueue's locks precede the sequence).
LEMMA OrderStep ==
    ASSUME TypeOK, SequenceInv, BatchInv, OrderInv, DeliveryInv, [Next]_vars
    PROVE  OrderInv'
  <1> USE OutboxAssumption
  <1>1. CASE \E a \in App, m \in Msg : Insert(a, m)
    <2> PICK a \in App, m \in Msg : Insert(a, m)
      BY <1>1
    <2> SUFFICES ASSUME NEW i \in Msg, NEW j \in Msg, KeyOf[i] = KeyOf[j],
                        Committed(i)', status'[j] = "pending"
                 PROVE  seq'[i] < seq'[j]
      BY DEF OrderInv
    <2>1. i # m /\ Committed(i) /\ seq'[i] = seq[i]
      BY DEF Insert, Committed, TypeOK, RowTypeOK
    <2>2. CASE j = m
      BY <2>1, <2>2 DEF Insert, SequenceInv, TypeOK, RowTypeOK
    <2>3. CASE j # m
      BY <2>1, <2>3 DEF Insert, OrderInv, TypeOK, RowTypeOK
    <2> QED
      BY <2>2, <2>3
  <1>2. CASE \E a \in App : Commit(a) \/ Rollback(a)
    <2> PICK a \in App : Commit(a) \/ Rollback(a)
      BY <1>2
    <2> SUFFICES ASSUME NEW i \in Msg, NEW j \in Msg, KeyOf[i] = KeyOf[j],
                        Committed(i)', status'[j] = "pending"
                 PROVE  seq[i] < seq[j]
      BY DEF OrderInv, Commit, Rollback, End
    <2>1. j \notin Batch[a] /\ status[j] = "pending"
      BY DEF Commit, Rollback, End
    <2>2. CASE i \notin Batch[a]
      BY <2>1, <2>2 DEF OrderInv, Commit, Rollback, End, Committed
    <2>3. CASE i \in Batch[a]
      <3>1. status[i] = "pending"
        BY <2>3 DEF Commit, Rollback, End, Committed
      <3>2. PICK b \in App : j \in Batch[b]
        BY <2>1 DEF BatchInv
      <3> QED
        BY <2>1, <2>3, <3>1, <3>2, OneWriterPerKey
    <2> QED
      BY <2>2, <2>3
  <1>3. CASE /\ UNCHANGED <<txn, seq, next>>
             /\ \A m \in Msg : status'[m] = status[m] \/ (status[m] = "visible" /\ status'[m] = "gone")
    BY <1>3 DEF OrderInv, Committed
  <1> QED
    BY <1>1, <1>2, <1>3, RowSteps

-----------------------------------------------------------------------------
(***************************************************************************)
(* The workers and their leases.                                           *)
(***************************************************************************)

\* What a step does to a worker (runOne, deliver, Crash).
LEMMA WorkerSteps ==
    ASSUME TypeOK, [Next]_vars, NEW w \in Worker
    PROVE  \/ at'[w] = at[w] /\ msg'[w] = msg[w]
           \/ at'[w] = "idle"
           \/ \E m \in Msg : Claim(w, m)
           \/ Deliver(w) \/ Refuse(w)
           \/ \E ok \in BOOLEAN : HandlerReturns(w, ok)
  <1> DEFINE Same == at'[w] = at[w] /\ msg'[w] = msg[w]
  <1> USE DEF TypeOK, WorkerTypeOK
  <1>1. UNCHANGED <<at, msg>> => Same
    OBVIOUS
  <1>2. \A a \in App : /\ \A l \in Lock : LockKey(a, l) => Same
                       /\ \A m \in Msg : Insert(a, m) => Same
                       /\ Commit(a) \/ Rollback(a) => Same
    BY <1>1 DEF LockKey, Insert, Commit, Rollback, End, workerVars
  <1>3. ASSUME NEW v \in Worker, v # w,
               \/ \E m \in Msg : Claim(v, m)
               \/ Deliver(v) \/ Refuse(v)
               \/ \E ok \in BOOLEAN : HandlerReturns(v, ok)
        PROVE  Same
    BY <1>3 DEF Claim, Deliver, Refuse, HandlerReturns, Goto
  <1>4. ASSUME NEW v \in Worker,
               \/ Acknowledge(v) \/ FinishFails(v) \/ Crash(v)
               \/ \E delay \in Int : Retry(v, delay)
        PROVE  Same \/ at'[w] = "idle"
    BY <1>4 DEF Acknowledge, FinishFails, Crash, Retry, Poll, Goto
  <1>5. (\E v \in Worker, m \in Msg : ClaimLost(v, m)) \/ PurgeSelect \/ PurgeDelete
           \/ Tick \/ UNCHANGED vars => Same
    BY <1>1 DEF ClaimLost, PurgeSelect, PurgeDelete, Tick, vars, workerVars
  <1> QED
    BY <1>2, <1>3, <1>4, <1>5, Steps

\* No step puts a message of the key before one that is already committed
\* (Claim's NOT EXISTS stays true).
LEMMA EarlierStep ==
    ASSUME TypeOK, BatchInv, OrderInv, DeliveryInv, [Next]_vars,
           NEW m \in Msg, Committed(m), \A n \in Msg : ~Earlier(n, m)
    PROVE  Committed(m)' /\ \A n \in Msg : ~Earlier(n, m)'
  <1>1. CASE \E a \in App, i \in Msg : Insert(a, i)
    BY <1>1 DEF Insert, Earlier, Committed, TypeOK, RowTypeOK
  <1>2. CASE \E a \in App : Commit(a) \/ Rollback(a)
    <2> PICK a \in App : Commit(a) \/ Rollback(a)
      BY <1>2
    <2>1. m \notin Batch[a]
      BY DEF Commit, Rollback, BatchInv
    <2>2. \A n \in Msg : status'[n] = "visible" => status[n] \in {"visible", "pending"}
      BY DEF Commit, Rollback, End
    <2>3. Committed(m)' /\ seq' = seq
      BY <2>1 DEF Commit, Rollback, End, Committed
    <2> QED
      BY <2>2, <2>3 DEF Earlier, OrderInv, TypeOK, RowTypeOK
  <1>3. CASE /\ UNCHANGED <<txn, seq, next>>
             /\ \A n \in Msg : status'[n] = status[n] \/ (status[n] = "visible" /\ status'[n] = "gone")
    BY <1>3 DEF Earlier, Committed
  <1> QED
    BY <1>1, <1>2, <1>3, RowSteps

\* The histories only grow (HandlerReturns, PurgeDelete).
LEMMA HistoryGrows ==
    ASSUME [Next]_vars
    PROVE  succeeded \subseteq succeeded' /\ purged \subseteq purged'
  <1> USE DEF historyVars
  <1>1. CASE \E w \in Worker, ok \in BOOLEAN : HandlerReturns(w, ok)
    BY <1>1 DEF HandlerReturns
  <1>2. CASE PurgeDelete
    BY <1>2 DEF PurgeDelete
  <1>3. CASE UNCHANGED historyVars
    BY <1>3
  <1>4. CASE \E a \in App : \/ \E l \in Lock : LockKey(a, l)
                            \/ \E m \in Msg : Insert(a, m)
                            \/ Commit(a) \/ Rollback(a)
    BY <1>4, <1>3 DEF LockKey, Insert, Commit, Rollback, End
  <1>5. CASE \E w \in Worker : \/ \E m \in Msg : Claim(w, m) \/ ClaimLost(w, m)
                               \/ Deliver(w) \/ Refuse(w) \/ Acknowledge(w)
                               \/ \E delay \in Int : Retry(w, delay)
                               \/ FinishFails(w) \/ Crash(w)
    BY <1>5, <1>3 DEF Claim, ClaimLost, Take, Deliver, Refuse, Acknowledge, Retry, FinishFails,
       Crash
  <1>6. CASE PurgeSelect \/ Tick \/ UNCHANGED vars
    BY <1>6, <1>3 DEF PurgeSelect, Tick, vars
  <1> QED
    BY <1>1, <1>2, <1>4, <1>5, <1>6, Steps

\* A visible row leaves by a handler's success or by Purge (Acknowledge, Purge).
LEMMA Leaves ==
    ASSUME TypeOK, BatchInv, DeliveryInv, [Next]_vars,
           NEW m \in Msg, status[m] = "visible", status'[m] # "visible"
    PROVE  status'[m] = "gone" /\ m \in succeeded \cup purged'
  <1>1. CASE \E w \in Worker : Acknowledge(w)
    BY <1>1 DEF Acknowledge, DeliveryInv, TypeOK, RowTypeOK
  <1>2. CASE PurgeDelete
    BY <1>2 DEF PurgeDelete
  <1>3. CASE status' = status
    BY <1>3
  <1>4. CASE \E a \in App : Commit(a) \/ Rollback(a)
    BY <1>4 DEF Commit, Rollback, End, BatchInv, Committed
  <1>5. CASE \E a \in App, n \in Msg : Insert(a, n)
    BY <1>5 DEF Insert, TypeOK, RowTypeOK
  <1>6. CASE \/ \E a \in App, l \in Lock : LockKey(a, l)
             \/ PurgeSelect \/ Tick \/ UNCHANGED vars
    BY <1>6, <1>3 DEF LockKey, PurgeSelect, Tick, vars, rowVars
  <1>7. CASE \E w \in Worker : \/ \E n \in Msg : Claim(w, n) \/ ClaimLost(w, n)
                               \/ Deliver(w) \/ Refuse(w)
                               \/ \E ok \in BOOLEAN : HandlerReturns(w, ok)
                               \/ \E delay \in Int : Retry(w, delay)
                               \/ FinishFails(w) \/ Crash(w)
    BY <1>7, <1>3 DEF Claim, ClaimLost, Take, Deliver, Refuse, HandlerReturns, Retry,
                      FinishFails, Crash, rowVars
  <1> QED
    BY <1>1, <1>2, <1>4, <1>5, <1>6, <1>7, Steps

\* Workers keep messages that nothing precedes, and acknowledge only what was
\* delivered (Claim, deliver).
LEMMA DeliveryStep ==
    ASSUME TypeOK, BatchInv, OrderInv, DeliveryInv, [Next]_vars
    PROVE  DeliveryInv'
  <1> DEFINE Front(m) == Committed(m) /\ \A n \in Msg : ~Earlier(n, m)
  <1>1. ASSUME NEW w \in Worker, at'[w] # "idle"
        PROVE  (msg[w] \in Msg /\ Front(msg[w]))'
    <2>1. ASSUME NEW m \in Msg, msg'[w] = m, Front(m)
          PROVE  (msg[w] \in Msg /\ Front(msg[w]))'
      <3>1. Committed(m)' /\ \A n \in Msg : ~Earlier(n, m)'
        BY <2>1, EarlierStep
      <3> QED
        BY <2>1, <3>1 DEF Committed, Earlier
    <2>2. CASE at[w] # "idle" /\ msg'[w] = msg[w]
      <3>1. msg[w] \in Msg /\ Front(msg[w])
        BY <2>2 DEF DeliveryInv
      <3> QED
        BY <2>1, <2>2, <3>1
    <2>3. ASSUME NEW m \in Msg, Claim(w, m)
          PROVE  msg'[w] = m /\ Front(m)
      BY <2>3 DEF Claim, Take, Ready, Committed, TypeOK, WorkerTypeOK
    <2>4. Deliver(w) \/ Refuse(w) \/ (\E ok \in BOOLEAN : HandlerReturns(w, ok)) =>
             at[w] # "idle" /\ msg'[w] = msg[w]
      BY DEF Deliver, Refuse, HandlerReturns
    <2> QED
      BY <1>1, <2>1, <2>2, <2>3, <2>4, WorkerSteps
  <1>2. ASSUME NEW w \in Worker, at'[w] = "ack"
        PROVE  msg'[w] \in succeeded'
    <2>1. CASE \E ok \in BOOLEAN : HandlerReturns(w, ok)
      BY <1>2, <2>1 DEF HandlerReturns, Goto, TypeOK, WorkerTypeOK
    <2>2. CASE at[w] = "ack" /\ msg'[w] = msg[w]
      BY <2>2, HistoryGrows DEF DeliveryInv
    <2> QED
      BY <1>2, <2>1, <2>2, WorkerSteps DEF Claim, Deliver, Refuse, Goto, TypeOK, WorkerTypeOK
  <1>3. ASSUME NEW m \in Msg, status'[m] = "gone"
        PROVE  m \in succeeded' \cup purged'
    <2>1. CASE status[m] = "visible"
      BY <1>3, <2>1, Leaves, HistoryGrows
    <2>2. CASE status[m] = "gone"
      BY <2>2, HistoryGrows DEF DeliveryInv
    <2>3. status[m] \in {"visible", "gone"}
      <3>1. CASE \E a \in App, n \in Msg : Insert(a, n)
        BY <1>3, <3>1 DEF Insert, TypeOK, RowTypeOK
      <3>2. CASE \E a \in App : Commit(a) \/ Rollback(a)
        BY <1>3, <3>2 DEF Commit, Rollback, End
      <3> QED
        BY <1>3, <3>1, <3>2, RowSteps
    <2> QED
      BY <2>1, <2>2, <2>3
  <1> QED
    BY <1>1, <1>2, <1>3 DEF DeliveryInv

\* Enqueue's transaction touches no row that workers can see (Enqueue).
LEMMA TxnKeepsRows ==
    ASSUME TypeOK, BatchInv, NEW a \in App,
           \/ \E l \in Lock : LockKey(a, l)
           \/ \E m \in Msg : Insert(a, m)
           \/ Commit(a) \/ Rollback(a)
    PROVE  /\ UNCHANGED <<token, lease, workerVars>>
           /\ \A m \in Msg : status[m] = "visible" => status'[m] = "visible"
  <1>1. UNCHANGED <<token, lease, workerVars>>
    BY DEF LockKey, Insert, Commit, Rollback, End, rowVars
  <1>2. \A m \in Msg : status[m] = "visible" => status'[m] = "visible"
    BY DEF LockKey, Insert, Commit, Rollback, End, rowVars, BatchInv, Committed, TypeOK, RowTypeOK
  <1> QED
    BY <1>1, <1>2

\* When nobody stalls or purges, a lease outlasts its worker (NewWorker's bound).
LEMMA LeaseStep ==
    ASSUME Punctual, TypeOK, BatchInv, DeliveryInv, LeaseInv, [Next]_vars
    PROVE  LeaseInv'
  <1> USE TimingAssumption DEF TypeOK, WorkerTypeOK, RowTypeOK
  <1> DEFINE Lasts(w) == Valid(w) /\ lease[msg[w]] > timer[w] + Rest(at[w])
  <1>0. "stall" \notin Faults /\ "purge" \notin Faults
    BY DEF Punctual
  <1>1. purging' = {}
    <2>1. ~PurgeSelect /\ ~PurgeDelete
      BY <1>0 DEF PurgeSelect, PurgeDelete, LeaseInv
    <2> QED
      BY <2>1, Steps DEF LeaseInv, LockKey, Insert, Commit, Rollback, End, Claim, ClaimLost,
         Take, Deliver, Refuse, HandlerReturns, Acknowledge, Retry, FinishFails, Crash, Tick, vars
  <1>2. ASSUME NEW w \in Worker, at'[w] # "idle"
        PROVE  Lasts(w)'
    <2>1. ASSUME NEW m \in Msg, at[w] # "idle", m = msg[w],
                 at'[w] = at[w], msg'[w] = m, timer'[w] = timer[w],
                 status'[m] = status[m], token'[m] = token[m], lease'[m] = lease[m]
          PROVE  Lasts(w)'
      BY <2>1 DEF LeaseInv, Valid
    <2>2. at[w] # "idle" => msg[w] \in Msg /\ status[msg[w]] = "visible" /\ token[msg[w]] = w
                            /\ lease[msg[w]] > 0
      BY DEF DeliveryInv, LeaseInv, Valid
    <2>3. CASE \E a \in App : \/ \E l \in Lock : LockKey(a, l)
                              \/ \E m \in Msg : Insert(a, m)
                              \/ Commit(a) \/ Rollback(a)
      BY <1>2, <2>1, <2>2, <2>3, TxnKeepsRows DEF workerVars
    <2>4. CASE \E m \in Msg : Claim(w, m)
      <3> PICK m \in Msg : Claim(w, m)
        BY <2>4
      <3>1. /\ msg'[w] = m /\ status'[m] = "visible" /\ token'[m] = w
            /\ lease'[m] = LeaseDuration
            /\ at'[w] = "claimed" /\ timer'[w] = OperationTimeout
        BY DEF Claim, Take, Ready, Goto
      <3>2. LeaseDuration > 0 /\ LeaseDuration > OperationTimeout + (AttemptTimeout + OperationTimeout)
        BY DEF LeaseDuration
      <3>3. Valid(w)'
        BY <3>1, <3>2 DEF Valid
      <3>4. Rest(at'[w]) = AttemptTimeout + OperationTimeout
        BY <3>1 DEF Rest
      <3>5. lease'[msg'[w]] > timer'[w] + Rest(at'[w])
        BY <3>1, <3>2, <3>4
      <3> QED
        BY <3>3, <3>5 DEF Rest
    <2>5. CASE \E v \in Worker, m \in Msg : (v # w /\ Claim(v, m)) \/ ClaimLost(v, m)
      <3> PICK v \in Worker, m \in Msg : (v # w /\ Claim(v, m)) \/ ClaimLost(v, m)
        BY <2>5
      <3>1. at'[w] = at[w] /\ msg'[w] = msg[w] /\ timer'[w] = timer[w]
        BY DEF Claim, ClaimLost, Goto, workerVars
      <3>2. lease[m] = 0 /\ status' = status
            /\ \A n \in Msg : n # m => token'[n] = token[n] /\ lease'[n] = lease[n]
        BY DEF Claim, ClaimLost, Take, Ready
      <3> QED
        BY <1>2, <2>1, <2>2, <3>1, <3>2
    <2>6. CASE Deliver(w) \/ Refuse(w) \/ \E ok \in BOOLEAN : HandlerReturns(w, ok)
      <3>1. /\ at[w] # "idle" /\ UNCHANGED <<msg, status, token, lease>>
            /\ timer'[w] + Rest(at'[w]) <= Rest(at[w])
        BY <2>6 DEF Deliver, Refuse, HandlerReturns, Goto, Rest, rowVars
      <3>2. timer[w] \in Nat /\ Rest(at[w]) \in Nat /\ timer'[w] + Rest(at'[w]) \in Int
        BY <2>6 DEF Deliver, Refuse, HandlerReturns, Goto, Rest
      <3>3. lease'[msg'[w]] = lease[msg[w]] /\ lease[msg[w]] \in Nat
        BY <2>2, <3>1
      <3>4. lease[msg[w]] > timer[w] + Rest(at[w])
        BY <3>1 DEF LeaseInv
      <3>5. lease'[msg'[w]] > timer'[w] + Rest(at'[w])
        BY <3>1, <3>2, <3>3, <3>4
      <3>6. Valid(w)'
        BY <2>2, <3>1 DEF Valid
      <3> QED
        BY <3>5, <3>6 DEF Rest
    <2>7. CASE \E v \in Worker : v # w /\ (Deliver(v) \/ Refuse(v) \/ \E ok \in BOOLEAN : HandlerReturns(v, ok))
      BY <1>2, <2>1, <2>2, <2>7 DEF Deliver, Refuse, HandlerReturns, Goto, rowVars
    <2>8. CASE \E v \in Worker : Acknowledge(v) \/ \E delay \in Int : Retry(v, delay)
      <3> PICK v \in Worker : Acknowledge(v) \/ \E delay \in Int : Retry(v, delay)
        BY <2>8
      <3>1. v # w /\ at'[w] = at[w] /\ msg'[w] = msg[w] /\ timer'[w] = timer[w]
        BY <1>2 DEF Acknowledge, Retry, Poll, Goto
      <3>2. at[v] # "idle" /\ msg[v] \in Msg /\ token[msg[v]] = v
        BY DEF Acknowledge, Retry, DeliveryInv, LeaseInv, Valid
      <3>3. \A n \in Msg : n # msg[v] => status'[n] = status[n] /\ token'[n] = token[n] /\ lease'[n] = lease[n]
        BY <3>2 DEF Acknowledge, Retry
      <3> QED
        BY <1>2, <2>1, <2>2, <3>1, <3>2, <3>3
    <2>9. CASE \E v \in Worker : FinishFails(v) \/ Crash(v)
      BY <1>2, <2>1, <2>2, <2>9 DEF FinishFails, Crash, Poll, Goto, rowVars
    <2>10. CASE PurgeSelect \/ PurgeDelete
      BY <1>0, <2>10 DEF PurgeSelect, PurgeDelete, LeaseInv
    <2>11. CASE Tick
      <3>1. at[w] # "idle" /\ timer[w] > 0 /\ UNCHANGED <<at, msg, status, token>>
        BY <1>0, <1>2, <2>11 DEF Tick
      <3>2. timer'[w] = timer[w] - 1 /\ lease'[msg[w]] = lease[msg[w]] - 1
        BY <2>2, <2>11, <3>1 DEF Tick
      <3>3. Rest(at[w]) \in Nat /\ timer[w] \in Nat /\ lease[msg[w]] \in Nat
        BY <2>2, <3>1 DEF Rest
      <3> QED
        BY <3>1, <3>2, <3>3 DEF LeaseInv, Valid
    <2>12. CASE UNCHANGED vars
      BY <1>2, <2>1, <2>2, <2>12 DEF vars
    <2> QED
      BY <2>3, <2>4, <2>5, <2>6, <2>7, <2>8, <2>9, <2>10, <2>11, <2>12, Steps
  <1> QED
    BY <1>1, <1>2 DEF LeaseInv

-----------------------------------------------------------------------------
(***************************************************************************)
(* The theorems.                                                           *)
(***************************************************************************)

\* The invariant holds of an empty table (migrations/000001_outbox.sql).
LEMMA Initially == ASSUME Init PROVE IndInv
  <1>1. TypeOK
    BY TimingAssumption, OutboxAssumption
       DEF Init, TypeOK, TxnTypeOK, RowTypeOK, WorkerTypeOK, HistoryTypeOK
  <1>2. SequenceInv /\ BatchInv /\ OrderInv /\ DeliveryInv
    BY OutboxAssumption DEF Init, SequenceInv, BatchInv, OrderInv, DeliveryInv, Committed
  <1>3. LeaseInv
    BY DEF Init, LeaseInv
  <1> QED
    BY <1>1, <1>2, <1>3 DEF IndInv

\* Every step keeps the invariant (every operation of the queue and the worker).
LEMMA Inductive == ASSUME IndInv, [Next]_vars PROVE IndInv'
  BY TypeStep, SequenceStep, BatchStep, OrderStep, DeliveryStep, LeaseStep DEF IndInv, Punctual

\* For any transactions, workers, messages, keys, timeouts and faults, the
\* inductive invariant holds of every behaviour (Enqueue, Claim, deliver, Purge).
THEOREM Invariance == Spec => []IndInv
  BY Initially, Inductive, PTL DEF Spec

\* Transactions that write to one key commit in the order of the sequence
\* (Enqueue).
THEOREM CommitOrder == Spec => CommitsInOrder
  <1>1. ASSUME IndInv, [Next]_vars, NEW m \in Msg, NEW n \in Msg,
               KeyOf[m] = KeyOf[n], Committed(m), ~Committed(n), Committed(n)'
        PROVE  seq[m] < seq'[n]
    <2>1. CASE \E a \in App, i \in Msg : Insert(a, i)
      BY <1>1, <2>1 DEF Insert, Committed, IndInv, TypeOK, RowTypeOK
    <2>2. CASE \E a \in App : Commit(a) \/ Rollback(a)
      BY <1>1, <2>2 DEF Commit, Rollback, End, Committed, IndInv, OrderInv
    <2> QED
      BY <1>1, <2>1, <2>2, RowSteps DEF IndInv, Committed
  <1>2. ASSUME IndInv, [Next]_vars
        PROVE  [\A m, n \in Msg : KeyOf[m] = KeyOf[n] /\ Committed(m) /\ ~Committed(n)
                                   /\ Committed(n)' => seq[m] < seq'[n]]_vars
    BY <1>1, <1>2
  <1> QED
    BY <1>2, Invariance, PTL DEF Spec, CommitsInOrder

\* A handler is called only for a message that has no earlier one of its key in the
\* queue.
LEMMA CallsInOrder ==
    ASSUME IndInv, [Next]_vars
    PROVE  [\A w \in Worker, n \in Msg :
               at[w] = "claimed" /\ at'[w] = "handling" /\ Committed(n)
                   /\ KeyOf[n] = KeyOf[msg[w]] /\ seq[n] < seq[msg[w]] => n \in succeeded \cup purged]_vars
  BY DEF IndInv, DeliveryInv, Earlier, Committed

\* A handler is called only when every earlier message of the key has been
\* delivered or purged, whatever fails or stalls (Claim, Acknowledge).
THEOREM DeliveryOrder == Spec => DeliveredInOrder
  BY CallsInOrder, Invariance, PTL DEF Spec, DeliveredInOrder

\* What leaves the queue in a step was delivered, or is purged.
LEMMA LeavesDelivered ==
    ASSUME IndInv, [Next]_vars
    PROVE  [\A m \in Msg : status[m] = "visible" /\ status'[m] # "visible" =>
                              m \in succeeded \cup purged']_vars
  BY Leaves DEF IndInv

\* A message leaves the queue only after a handler returned success, or by
\* Purge (deliver, Acknowledge).
THEOREM NothingLost == Spec => NeverLost
  BY LeavesDelivered, Invariance, PTL DEF Spec, NeverLost

\* When no process stalls and nobody purges, messages of one key are delivered
\* one at a time (Claim, NewWorker's bound on the lease).
THEOREM ExclusiveDelivery == ASSUME Punctual PROVE Spec => []OneDeliveryPerKey
  <1>1. ASSUME IndInv PROVE OneDeliveryPerKey
    <2> SUFFICES ASSUME NEW v \in Worker, NEW w \in Worker, v # w,
                        at[v] = "handling", at[w] = "handling", KeyOf[msg[v]] = KeyOf[msg[w]]
                 PROVE  FALSE
      BY DEF OneDeliveryPerKey
    <2>1. /\ msg[v] \in Msg /\ msg[w] \in Msg /\ msg[v] # msg[w]
          /\ status[msg[v]] = "visible" /\ status[msg[w]] = "visible"
      BY <1>1 DEF IndInv, DeliveryInv, LeaseInv, Valid
    <2>2. ~(seq[msg[v]] < seq[msg[w]]) /\ ~(seq[msg[w]] < seq[msg[v]])
      BY <1>1, <2>1 DEF IndInv, DeliveryInv, Earlier
    <2>3. seq[msg[v]] # seq[msg[w]] /\ seq[msg[v]] \in Nat /\ seq[msg[w]] \in Nat
      BY <1>1, <2>1 DEF IndInv, SequenceInv, TypeOK, RowTypeOK
    <2> QED
      BY <2>2, <2>3
  <1> QED
    BY <1>1, Invariance, PTL

\* A step leaves a message to the worker whose lease lasts.
LEMMA KeepsLease ==
    ASSUME IndInv, [Next]_vars
    PROVE  [\A w \in Worker : at[w] \in Busy /\ at'[w] \in Busy /\ Valid(w) /\ lease[msg[w]] > 1 =>
               Valid(w)' \/ msg[w] \in purged']_vars
  <1>1. ASSUME NEW w \in Worker, at[w] \in Busy, at'[w] \in Busy,
               Valid(w), lease[msg[w]] > 1
        PROVE  Valid(w)' \/ msg[w] \in purged'
    <2> USE <1>1 DEF IndInv, TypeOK, RowTypeOK, WorkerTypeOK
    <2>1. msg[w] \in Msg /\ msg'[w] = msg[w]
      BY WorkerSteps DEF Busy, Claim, Deliver, Refuse, HandlerReturns, DeliveryInv
    <2> DEFINE m == msg[w]
    <2> HIDE DEF m
    <2>2. ASSUME status'[m] = "visible", token'[m] = w, lease'[m] > 0
          PROVE  Valid(w)'
      BY <2>1, <2>2 DEF Valid, m
    <2>3. m \in Msg /\ m = msg[w] /\ status[m] = "visible" /\ token[m] = w /\ lease[m] > 1
      BY <2>1 DEF Valid, m
    <2>4. CASE \E a \in App : \/ \E l \in Lock : LockKey(a, l)
                              \/ \E n \in Msg : Insert(a, n)
                              \/ Commit(a) \/ Rollback(a)
      BY <2>2, <2>3, <2>4, TxnKeepsRows
    <2>5. CASE \E v \in Worker, n \in Msg : Claim(v, n) \/ ClaimLost(v, n)
      BY <2>2, <2>3, <2>5 DEF Claim, ClaimLost, Take, Ready
    <2>6. CASE \/ \E v \in Worker : \/ Deliver(v) \/ Refuse(v) \/ FinishFails(v) \/ Crash(v)
                                     \/ \E ok \in BOOLEAN : HandlerReturns(v, ok)
               \/ PurgeSelect \/ UNCHANGED vars
      <3>1. UNCHANGED <<status, token, lease>>
        BY <2>6 DEF Deliver, Refuse, FinishFails, Crash, HandlerReturns, PurgeSelect, vars,
           rowVars
      <3> QED
        BY <2>2, <2>3, <3>1
    <2>7. CASE \E v \in Worker : Acknowledge(v) \/ \E delay \in Int : Retry(v, delay)
      <3> PICK v \in Worker : Acknowledge(v) \/ \E delay \in Int : Retry(v, delay)
        BY <2>7
      <3>1. v # w
        BY DEF Acknowledge, Retry, Poll, Goto, Busy
      <3>2. msg[v] = m => ~Valid(v)
        BY <2>3, <3>1 DEF Valid
      <3>3. status'[m] = status[m] /\ token'[m] = token[m] /\ lease'[m] = lease[m]
        BY <2>3, <3>2 DEF Acknowledge, Retry
      <3> QED
        BY <2>2, <2>3, <3>3
    <2>8. CASE PurgeDelete
      <3>1. UNCHANGED <<token, lease>>
        BY <2>8 DEF PurgeDelete
      <3>2. status'[m] = "visible" \/ m \in purged'
        BY <2>3, <2>8 DEF PurgeDelete
      <3> QED
        BY <2>2, <2>3, <3>1, <3>2
    <2>9. CASE Tick
      BY <2>2, <2>3, <2>9 DEF Tick
    <2> QED
      BY <2>4, <2>5, <2>6, <2>7, <2>8, <2>9, Steps
  <1> QED
    BY <1>1

\* While its lease lasts nobody but its worker, or Purge, changes a message,
\* whatever fails or stalls (Claim, Acknowledge, Retry).
THEOREM LeasesAreKept == Spec => LeaseIsKept
  BY KeepsLease, Invariance, PTL DEF Spec, LeaseIsKept
=============================================================================
