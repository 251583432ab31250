----------------------- MODULE StoreTransactionProofs -----------------------
(***************************************************************************)
(* The transactions of the generated store, for any number of transactions,*)
(* resources, digests and calls: the inductive invariant StoreInv, and from*)
(* it what a commit may and may not do. Then the service as a whole.       *)
(***************************************************************************)
EXTENDS ServiceData, FiniteSetTheorems, TLAPS

\* The rows are different from each other.
LEMMA RowParts ==
    /\ {Scope, Checkpoint, Entity} \subseteq Row /\ Versioned \subseteq Row
    /\ Scope # Checkpoint /\ Scope # Entity /\ Checkpoint # Entity
    /\ Checkpoint \in Versioned /\ Scope \notin Versioned /\ Entity \notin Versioned
    /\ \A r \in Resource :
          /\ State(r) \in Versioned /\ Effect(r) \in Row /\ Effect(r) \notin Versioned
          /\ State(r) \notin {Scope, Checkpoint, Entity} /\ Effect(r) \notin {Scope, Checkpoint, Entity}
          /\ \A s \in Resource : /\ State(r) # Effect(s)
                                 /\ State(r) = State(s) => r = s
                                 /\ Effect(r) = Effect(s) => r = s
BY DEF Scope, Checkpoint, Entity, State, Effect, Row, Versioned

\* The transactions of the invariant.
LEMMA AtTx ==
    ASSUME StoreInv, NEW t \in Tx
    PROVE  /\ IsTx(tx[t]) /\ Control(tx[t]) /\ IsRows(db.rows) /\ tx = [u \in Tx |-> tx[u]]
           /\ lock \in [Row -> Tx \cup {Free}] /\ Counts(db.rows)
           /\ tx[t].pc \in Live => Holds(t, tx[t]) /\ Builds(db.rows, tx[t])
BY DEF StoreInv, StateTypes

-----------------------------------------------------------------------------
(***************************************************************************)
(* Steps of one transaction that commit nothing.                           *)
(***************************************************************************)

\* The others keep the rows they have locked.
LEMMA OwnStep ==
    ASSUME StoreInv, NEW t \in Tx, NEW y, tx' = [tx EXCEPT ![t] = y], db' = db,
           lock' \in [Row -> Tx \cup {Free}],
           \A k \in Row : lock[k] \notin {Free, t} => lock'[k] = lock[k],
           IsTx(y), Control(y), tx[t].pc # "committed", y.pc # "committed",
           y.pc \in Live => Holds(t, tx[t])' /\ Builds(db.rows, tx[t])'
    PROVE  StoreInv'
<1>1. /\ tx = [u \in Tx |-> tx[u]] /\ db = [rows |-> db.rows, outbox |-> db.outbox]
      /\ IsRows(db.rows) /\ db.outbox \in [Tx -> 0 .. MaxBatch]
      /\ \A u \in Tx : IsTx(tx[u])
    BY DEF StoreInv, StateTypes
<1>2. tx'[t] = y /\ \A u \in Tx : u # t => tx'[u] = tx[u]
    BY <1>1
<1>3. tx' = [u \in Tx |-> tx'[u]]
    BY <1>1
<1>4. StateTypes'
    BY <1>1, <1>2, <1>3 DEF StateTypes
<1>5. \A u \in Tx : Control(tx[u])'
    BY <1>2 DEF StoreInv, Control
<1>6. ASSUME NEW u \in Tx, tx'[u].pc \in Live
      PROVE  Holds(u, tx[u])' /\ Builds(db.rows, tx[u])'
    <2>1. CASE u = t
        BY <1>2, <1>6, <2>1
    <2>2. CASE u # t
        <3>1. tx'[u] = tx[u] /\ Holds(u, tx[u]) /\ Builds(db.rows, tx[u]) /\ tx[u].own \subseteq Row
            BY <1>1, <1>2, <1>6, <2>2 DEF StoreInv, IsTx
        <3>2. Entity \in Row /\ u # Free
            BY RowParts, TransactionAssumption
        <3>3. Holds(u, tx[u])'
            BY <2>2, <3>1, <3>2 DEF Holds
        <3>4. Builds(db.rows, tx[u])'
            BY <3>1
        <3>5. QED BY <3>3, <3>4
    <2>3. QED BY <2>1, <2>2
<1>7. Writers' = Writers
    BY <1>2 DEF Writers, Committed
<1>8. NotificationsMatchCommit'
    BY <1>2 DEF StoreInv, NotificationsMatchCommit, Committed
<1>9. QED BY <1>4, <1>5, <1>6, <1>7, <1>8 DEF StoreInv

\* A call that writes no row.
LEMMA NoteStep ==
    ASSUME StoreInv, NEW t \in Tx, tx[t].pc \in Live, NEW y, tx' = [tx EXCEPT ![t] = y], db' = db,
           IsTx(y), Control(y), y.pc \in Live, y.locked = tx[t].locked, y.own = tx[t].own,
           y.view = tx[t].view, y.seen = tx[t].seen, y.base = tx[t].base,
           lock' \in [Row -> Tx \cup {Free}], \A k \in Row : lock'[k] \in {lock[k], t},
           \A k \in Row : lock[k] \notin {Free, t} => lock'[k] = lock[k]
    PROVE  StoreInv'
<1>1. /\ tx'[t] = y /\ Holds(t, tx[t]) /\ Builds(db.rows, tx[t]) /\ tx[t].own \subseteq Row
      /\ tx[t].pc # "committed" /\ y.pc # "committed" /\ Entity \in Row
    BY AtTx, RowParts DEF Live, IsTx
<1>2. Holds(t, tx[t])'
    BY <1>1 DEF Holds
<1>3. Builds(db.rows, tx[t])'
    <2>1. Overlay(db.rows, y) = Overlay(db.rows, tx[t])
        BY DEF Overlay
    <2>2. Builds(db.rows, y)
        BY <1>1, <2>1 DEF Builds
    <2>3. QED BY <1>1, <2>2
<1>4. QED BY <1>1, <1>2, <1>3, OwnStep

LEMMA NoMessages == ASSUME NEW m \in 0 .. MaxBatch PROVE 0 <= MaxBatch - m /\ m + 0 = m
BY TransactionAssumption

\* The transaction after a call that writes no row: n messages are staged.
LEMMA Staged ==
    ASSUME NEW x, IsTx(x), Control(x), x.pc = "open", NEW y, DOMAIN y = Field, NEW n \in Nat,
           n <= MaxBatch - x.messages,
           y.calls = x.calls + 1, y.pc = x.pc, y.closed = x.closed, y.batch = x.batch,
           y.broken = x.broken, y.locked = x.locked, y.own = x.own, y.view = x.view,
           y.seen = x.seen, y.base = x.base, y.snap = x.snap, y.failure \in BOOLEAN,
           y.rejected \in BOOLEAN, y.rejected => y.failure \/ y.broken,
           y.messages = x.messages + n, y.accepted = x.accepted + n
    PROVE  IsTx(y) /\ Control(y)
<1>1. MaxBatch \in Nat /\ x.messages \in 0 .. MaxBatch /\ x.accepted = x.messages
    BY TransactionAssumption DEF IsTx, Control
<1>2. y.messages \in 0 .. MaxBatch /\ y.accepted \in 0 .. MaxBatch
    BY <1>1
<1>3. IsTx(y)
    BY <1>2 DEF IsTx
<1>4. Control(y)
    BY <1>1 DEF Control
<1>5. QED BY <1>3, <1>4

\* A call that fails, or changes nothing, or stages messages.
LEMMA CallStep ==
    ASSUME StoreInv, NEW t \in Tx, Callable(t), ~Refused(t), db' = db,
           \/ Reject(t)
           \/ tx' = [tx EXCEPT ![t].calls = @ + 1]
           \/ \E n \in Nat :
                /\ n <= MaxBatch - tx[t].messages
                /\ tx' = [tx EXCEPT ![t].calls = @ + 1, ![t].messages = @ + n, ![t].accepted = @ + n],
           lock' \in [Row -> Tx \cup {Free}], \A k \in Row : lock'[k] \in {lock[k], t},
           \A k \in Row : lock[k] \notin {Free, t} => lock'[k] = lock[k]
    PROVE  StoreInv'
<1> DEFINE x == tx[t]
           y == tx'[t]
<1>0. /\ IsTx(x) /\ Control(x) /\ tx = [u \in Tx |-> tx[u]] /\ x.pc \in Live /\ DOMAIN x = Field
    BY AtTx DEF Callable, Live, IsTx
<1>1. /\ x.pc = "open" /\ x.rejected \in BOOLEAN /\ x.failure \in BOOLEAN
      /\ x.rejected => x.failure \/ x.broken
    BY <1>0 DEF Control, Refused, Live, IsTx
<1>2. 0 <= MaxBatch - x.messages /\ x.messages + 0 = x.messages /\ x.accepted + 0 = x.accepted
    <2>1. x.messages \in 0 .. MaxBatch /\ x.accepted \in 0 .. MaxBatch
        BY <1>0 DEF IsTx
    <2>2. QED BY <2>1, NoMessages
<1>3. CASE Reject(t)
    <2>1. /\ tx' = [tx EXCEPT ![t] = y] /\ DOMAIN y = Field /\ y.calls = x.calls + 1
          /\ y.pc = x.pc /\ y.closed = x.closed /\ y.batch = x.batch /\ y.broken = x.broken
          /\ y.locked = x.locked /\ y.own = x.own /\ y.view = x.view /\ y.seen = x.seen
          /\ y.base = x.base /\ y.snap = x.snap
        BY <1>0, <1>3 DEF Reject, Field
    <2>2. y.rejected = TRUE /\ y.failure = TRUE /\ y.messages = x.messages /\ y.accepted = x.accepted
        BY <1>0, <1>3 DEF Reject, Field
    <2> HIDE DEF x, y
    <2>3. 0 \in Nat /\ y.messages = x.messages + 0 /\ y.accepted = x.accepted + 0
        BY <1>2, <2>2
    <2>4. IsTx(y) /\ Control(y)
        BY <1>0, <1>1, <1>2, <2>1, <2>2, <2>3, Staged
    <2>5. QED BY <1>0, <2>1, <2>4, NoteStep DEF x, y
<1>4. CASE tx' = [tx EXCEPT ![t].calls = @ + 1]
    <2>1. /\ tx' = [tx EXCEPT ![t] = y] /\ DOMAIN y = Field /\ y.calls = x.calls + 1
          /\ y.pc = x.pc /\ y.closed = x.closed /\ y.batch = x.batch /\ y.broken = x.broken
          /\ y.locked = x.locked /\ y.own = x.own /\ y.view = x.view /\ y.seen = x.seen
          /\ y.base = x.base /\ y.snap = x.snap
        BY <1>0, <1>4 DEF Field
    <2>2. /\ y.rejected = x.rejected /\ y.failure = x.failure
          /\ y.messages = x.messages /\ y.accepted = x.accepted
        BY <1>0, <1>4 DEF Field
    <2> HIDE DEF x, y
    <2>3. 0 \in Nat /\ y.messages = x.messages + 0 /\ y.accepted = x.accepted + 0
        BY <1>2, <2>2
    <2>4. IsTx(y) /\ Control(y)
        BY <1>0, <1>1, <1>2, <2>1, <2>2, <2>3, Staged
    <2>5. QED BY <1>0, <2>1, <2>4, NoteStep DEF x, y
<1>5. ASSUME NEW n \in Nat, n <= MaxBatch - x.messages,
             tx' = [tx EXCEPT ![t].calls = @ + 1, ![t].messages = @ + n, ![t].accepted = @ + n]
      PROVE  StoreInv'
    <2>1. /\ tx' = [tx EXCEPT ![t] = y] /\ DOMAIN y = Field /\ y.calls = x.calls + 1
          /\ y.pc = x.pc /\ y.closed = x.closed /\ y.batch = x.batch /\ y.broken = x.broken
          /\ y.locked = x.locked /\ y.own = x.own /\ y.view = x.view /\ y.seen = x.seen
          /\ y.base = x.base /\ y.snap = x.snap
        BY <1>0, <1>5 DEF Field
    <2>2. /\ y.rejected = x.rejected /\ y.failure = x.failure
          /\ y.messages = x.messages + n /\ y.accepted = x.accepted + n
        BY <1>0, <1>5 DEF Field
    <2>3. n <= MaxBatch - x.messages
        BY <1>5
    <2> HIDE DEF x, y
    <2>4. IsTx(y) /\ Control(y)
        BY <1>0, <1>1, <2>1, <2>2, <2>3, Staged
    <2>5. QED BY <1>0, <2>1, <2>4, NoteStep DEF x, y
<1>6. QED BY <1>3, <1>4, <1>5

\* A call that is refused, and a statement that fails.
LEMMA RefuseStep ==
    ASSUME StoreInv, NEW t \in Tx, Refuse(t) \/ StatementFails(t)
    PROVE  StoreInv'
<1> DEFINE x == tx[t]
           y == tx'[t]
<1>0. /\ IsTx(x) /\ Control(x) /\ tx = [u \in Tx |-> tx[u]] /\ x.pc \in Live /\ DOMAIN x = Field
      /\ lock' = lock /\ lock \in [Row -> Tx \cup {Free}] /\ db' = db
    BY AtTx DEF Callable, Live, IsTx, Refuse, StatementFails
<1>1. /\ tx' = [tx EXCEPT ![t] = y] /\ DOMAIN y = Field
      /\ y.pc = x.pc /\ y.closed = x.closed /\ y.batch = x.batch
      /\ y.locked = x.locked /\ y.own = x.own /\ y.view = x.view /\ y.seen = x.seen
      /\ y.base = x.base /\ y.snap = x.snap /\ y.messages = x.messages /\ y.accepted = x.accepted
    <2>1. CASE Refuse(t)
        BY <1>0, <2>1 DEF Refuse, Field
    <2>2. CASE StatementFails(t)
        <3>1. PICK kept \in BOOLEAN :
                 tx' = [tx EXCEPT ![t].broken = TRUE, ![t].rejected = TRUE, ![t].failure = @ \/ kept]
            BY <2>2 DEF StatementFails
        <3>2. QED BY <1>0, <3>1 DEF Field
    <2>3. QED BY <2>1, <2>2
<1>2. CASE Refuse(t)
    <2>1. /\ y.rejected = (x.rejected \/ ~x.closed) /\ y.failure = x.failure /\ y.broken = x.broken
          /\ y.calls = x.calls + 1
        BY <1>0, <1>2 DEF Refuse, Field
    <2>2. IsTx(y)
        BY <1>0, <1>1, <2>1 DEF IsTx
    <2>3. Control(y)
        BY <1>0, <1>1, <1>2, <2>1 DEF Control, Refuse, Refused
    <2>4. QED BY <1>0, <1>1, <2>2, <2>3, NoteStep
<1>3. CASE StatementFails(t)
    <2>1. /\ y.rejected = TRUE /\ y.broken = TRUE /\ y.calls = x.calls /\ y.failure \in BOOLEAN
          /\ y.failure # x.failure => ~Refused(t)
        <3>1. PICK kept \in BOOLEAN :
                 /\ kept => ~Refused(t)
                 /\ tx' = [tx EXCEPT ![t].broken = TRUE, ![t].rejected = TRUE,
                                     ![t].failure = @ \/ kept]
            BY <1>3 DEF StatementFails
        <3>2. y.rejected = TRUE /\ y.broken = TRUE /\ y.calls = x.calls
              /\ y.failure = (x.failure \/ kept)
            BY <1>0, <3>1 DEF Field
        <3>3. x.failure \in BOOLEAN
            BY <1>0 DEF IsTx
        <3>4. QED BY <3>1, <3>2, <3>3
    <2>2. IsTx(y)
        BY <1>0, <1>1, <2>1 DEF IsTx
    <2>3. Control(y)
        BY <1>0, <1>1, <2>1 DEF Control, Refused, Live
    <2>4. QED BY <1>0, <1>1, <2>2, <2>3, NoteStep
<1>4. QED BY <1>2, <1>3

\* The callback has returned: the transaction ends, and only a commit changes rows.
LEMMA EndStep ==
    ASSUME StoreInv, NEW t \in Tx, Finish(t) \/ Enqueue(t) \/ Rollback(t)
    PROVE  StoreInv'
<1> DEFINE x == tx[t]
           y == tx'[t]
<1>0. /\ IsTx(x) /\ Control(x) /\ tx = [u \in Tx |-> tx[u]] /\ x.pc \in Live /\ DOMAIN x = Field
      /\ lock \in [Row -> Tx \cup {Free}] /\ db' = db
    BY AtTx DEF Live, IsTx, Finish, Enqueue, Rollback, Open
<1>1. /\ tx' = [tx EXCEPT ![t] = y] /\ DOMAIN y = Field /\ y.calls = x.calls /\ y.broken = x.broken
      /\ y.locked = x.locked /\ y.own = x.own /\ y.view = x.view /\ y.seen = x.seen
      /\ y.base = x.base /\ y.snap = x.snap /\ y.accepted = x.accepted
      /\ y.rejected = x.rejected /\ y.failure = x.failure
    BY <1>0 DEF Finish, Enqueue, Rollback, Field
<1>2. CASE Finish(t)
    <2>1. y.pc = "ending" /\ y.closed = TRUE /\ y.batch = x.messages /\ y.messages = 0
        BY <1>0, <1>2 DEF Finish, Field
    <2>2. 0 \in 0 .. MaxBatch
        BY TransactionAssumption
    <2>3. IsTx(y)
        BY <1>0, <1>1, <2>1, <2>2 DEF IsTx, Label
    <2>4. Control(y)
        BY <1>0, <1>1, <1>2, <2>1 DEF Control, Finish, Open
    <2>5. QED BY <1>0, <1>1, <1>2, <2>1, <2>3, <2>4, NoteStep DEF Finish, Live
<1>3. CASE Enqueue(t)
    <2>1. y.pc = "enqueued" /\ y.closed = x.closed /\ y.batch = x.batch /\ y.messages = x.messages
        BY <1>0, <1>3 DEF Enqueue, Field
    <2>2. IsTx(y)
        BY <1>0, <1>1, <2>1 DEF IsTx, Label
    <2>3. Control(y)
        BY <1>0, <1>1, <1>3, <2>1 DEF Control, Enqueue
    <2>4. QED BY <1>0, <1>1, <1>3, <2>1, <2>2, <2>3, NoteStep DEF Enqueue, Live
<1>4. CASE Rollback(t)
    <2>1. y.pc = "aborted" /\ y.closed = x.closed /\ y.batch = x.batch /\ y.messages = x.messages
        BY <1>0, <1>4 DEF Rollback, Field
    <2>2. IsTx(y)
        BY <1>0, <1>1, <2>1 DEF IsTx, Label
    <2>3. Control(y)
        BY <1>0, <1>1, <1>4, <2>1 DEF Control, Rollback
    <2>4. /\ lock' \in [Row -> Tx \cup {Free}]
          /\ \A k \in Row : lock[k] \notin {Free, t} => lock'[k] = lock[k]
        BY <1>0, <1>4 DEF Rollback, Release
    <2>5. x.pc # "committed" /\ y.pc # "committed" /\ y.pc \notin Live
        BY <1>0, <2>1 DEF Live
    <2>6. QED BY <1>0, <1>1, <2>2, <2>3, <2>4, <2>5, OwnStep
<1>5. QED BY <1>2, <1>3, <1>4

\* Rows before anything was written.
LEMMA EmptyType == IsRows(Empty) /\ Counts(Empty) /\ Empty[Entity] = 0
<1>1. /\ Empty[Scope] = [revision |-> 0, sealed |-> FALSE]
      /\ \A k \in Versioned \cup {Entity} : Empty[k] = 0
    BY RowParts DEF Empty, EmptyRow, Versioned
<1>2. \A r \in Resource : Empty[Effect(r)] = Unbound
    BY RowParts DEF Empty, EmptyRow, Versioned
<1>3. 0 \in Version
    BY TransactionAssumption DEF Version
<1>4. Unbound \in Binding
    BY DEF Unbound, Binding
<1>5. Empty[Scope] \in ScopeValue
    BY <1>1 DEF ScopeValue
<1>6. IsRows(Empty)
    <2>1. Empty = [k \in Row |-> Empty[k]]
        BY DEF Empty
    <2>2. QED BY <1>1, <1>2, <1>3, <1>4, <1>5, <2>1 DEF IsRows
<1>7. Keys(Empty) = {}
    BY <1>1, RowParts DEF Keys
<1>8. Counts(Empty)
    BY <1>1, <1>7, FS_EmptySet DEF Counts
<1>9. QED BY <1>1, <1>6, <1>8

\* A transaction that has written nothing.
LEMMA Fresh ==
    ASSUME NEW table, IsRows(table), Counts(table), NEW y, y.own = {}, y.base = [k \in Row |-> -1]
    PROVE  Builds(table, y)
<1>1. Overlay(table, y) = table
    BY DEF Overlay, IsRows
<1>2. \A k \in Versioned : y.base[k] = -1
    BY RowParts
<1>3. QED BY <1>1, <1>2 DEF Builds

LEMMA IdleFields ==
    /\ DOMAIN Idle = Field /\ Idle.own = {} /\ Idle.view = Empty /\ Idle.seen = 0
    /\ Idle.base = [k \in Row |-> -1] /\ Idle.pc = "idle" /\ Idle.snap = Empty
    /\ Idle.locked = FALSE /\ Idle.failure = FALSE /\ Idle.broken = FALSE /\ Idle.closed = FALSE
    /\ Idle.rejected = FALSE /\ Idle.messages = 0 /\ Idle.batch = 0 /\ Idle.calls = 0
    /\ Idle.accepted = 0
BY DEF Idle, Field

\* A transaction begins.
LEMMA BeginStep ==
    ASSUME StoreInv, NEW t \in Tx, Begin(t) \/ BeginLocked(t)
    PROVE  StoreInv'
<1> DEFINE x == tx[t]
           y == tx'[t]
<1>0. /\ IsTx(x) /\ tx = [u \in Tx |-> tx[u]] /\ x.pc = "idle"
      /\ lock \in [Row -> Tx \cup {Free}] /\ db' = db /\ IsRows(db.rows) /\ Counts(db.rows)
      /\ IsRows(Empty) /\ 0 \in 0 .. MaxBatch /\ 0 \in Version
    BY AtTx, EmptyType, TransactionAssumption DEF Begin, BeginLocked, Version
<1>a. ASSUME Begin(t)
      PROVE  /\ tx' = [tx EXCEPT ![t] = y] /\ DOMAIN y = Field /\ y.calls = 0 /\ y.broken = FALSE
             /\ y.own = {} /\ y.view = Empty /\ y.base = [k \in Row |-> -1] /\ y.snap = db.rows
             /\ y.accepted = 0 /\ y.messages = 0 /\ y.batch = 0 /\ y.rejected = FALSE
             /\ y.failure = FALSE /\ y.closed = FALSE /\ y.pc = "open"
             /\ y.locked = FALSE /\ y.seen = 0
    <2>1. tx' = [tx EXCEPT ![t] = y] /\ y = [Idle EXCEPT !.pc = "open", !.snap = db.rows]
        BY <1>0, <1>a DEF Begin
    <2>2. QED BY <2>1, IdleFields DEF Field
<1>b. ASSUME BeginLocked(t)
      PROVE  /\ tx' = [tx EXCEPT ![t] = y] /\ DOMAIN y = Field /\ y.calls = 0 /\ y.broken = FALSE
             /\ y.own = {} /\ y.view = Empty /\ y.base = [k \in Row |-> -1] /\ y.snap = db.rows
             /\ y.accepted = 0 /\ y.messages = 0 /\ y.batch = 0 /\ y.rejected = FALSE
             /\ y.failure = FALSE /\ y.closed = FALSE /\ y.pc = "open"
             /\ y.locked = TRUE /\ y.seen = db.rows[Entity]
    <2>1. /\ tx' = [tx EXCEPT ![t] = y]
          /\ y = [Idle EXCEPT !.pc = "open", !.locked = TRUE, !.snap = db.rows, !.seen = db.rows[Entity]]
        BY <1>0, <1>b DEF BeginLocked
    <2>2. QED BY <2>1, IdleFields DEF Field
<1>1. /\ tx' = [tx EXCEPT ![t] = y] /\ DOMAIN y = Field /\ y.calls = 0 /\ y.broken = FALSE
      /\ y.own = {} /\ y.view = Empty /\ y.base = [k \in Row |-> -1] /\ y.snap = db.rows
      /\ y.accepted = 0 /\ y.messages = 0 /\ y.batch = 0
    BY <1>0, <1>a, <1>b
<1>2. /\ y.rejected = FALSE /\ y.failure = FALSE /\ y.closed = FALSE /\ y.pc = "open"
    BY <1>0, <1>a, <1>b
<1>3. y.locked \in BOOLEAN /\ y.seen \in Version
    <2>1. db.rows[Entity] \in Version
        BY <1>0 DEF IsRows
    <2>2. QED BY <1>0, <1>a, <1>b, <2>1
<1>4. IsTx(y)
    <2>1. y.base = [k \in Row |-> y.base[k]]
        BY <1>1
    <2>2. "open" \in Label /\ 0 \in Nat
        BY DEF Label
    <2>3. QED BY <1>0, <1>1, <1>2, <1>3, <2>1, <2>2 DEF IsTx
<1>5. Control(y)
    BY <1>1, <1>2 DEF Control
<1>6. Builds(db.rows, tx[t])'
    BY <1>0, <1>1, Fresh
<1>7. /\ lock' \in [Row -> Tx \cup {Free}]
      /\ \A k \in Row : lock[k] \notin {Free, t} => lock'[k] = lock[k]
    BY <1>0 DEF Begin, BeginLocked, Locks
<1>8. Holds(t, tx[t])'
    <2>1. CASE Begin(t)
        <3>1. y.locked = FALSE
            BY <1>a, <2>1
        <3>2. QED BY <1>1, <3>1 DEF Holds
    <2>2. CASE BeginLocked(t)
        <3>1. y.seen = db.rows[Entity] /\ lock'[Entity] = t
            BY <1>b, <2>2, RowParts DEF BeginLocked, Locks
        <3>2. QED BY <1>0, <1>1, <3>1 DEF Holds
    <2>3. QED BY <2>1, <2>2
<1>9. QED BY <1>0, <1>1, <1>2, <1>4, <1>5, <1>6, <1>7, <1>8, OwnStep

-----------------------------------------------------------------------------
(***************************************************************************)
(* Calls that write rows.                                                  *)
(***************************************************************************)

\* What a transaction may write is what it reads, laid over what is committed.
LEMMA ReadIsOverlay ==
    ASSUME NEW t \in Tx, NEW k \in Row, CanWrite(t, k)
    PROVE  Read(t, k) = Overlay(db.rows, tx[t])[k]
BY DEF Read, Overlay, CanWrite

LEMMA OverlayType ==
    ASSUME NEW table, IsRows(table), NEW x, IsRows(x.view)
    PROVE  IsRows(Overlay(table, x))
BY RowParts DEF Overlay, IsRows

\* Values written over rows.
LEMMA RowsWritten ==
    ASSUME NEW f, IsRows(f), NEW ks, NEW v,
           \A k \in (Versioned \cup {Entity}) \cap ks : v[k] \in Version,
           Scope \in ks => v[Scope] \in ScopeValue,
           \A r \in Resource : Effect(r) \in ks => v[Effect(r)] \in Binding
    PROVE  IsRows([k \in Row |-> IF k \in ks THEN v[k] ELSE f[k]])
BY RowParts DEF IsRows

LEMMA SameCount ==
    ASSUME NEW f, NEW g, Counts(f), Keys(g) = Keys(f), g[Scope] = f[Scope]
    PROVE  Counts(g)
BY DEF Counts

\* The fields of a transaction x after a write of ks.
Fields(x, ks, v, b, y) ==
    /\ DOMAIN y = Field /\ y.own = x.own \cup ks /\ y.calls = x.calls + 1 /\ y.base = b
    /\ y.view = [k \in Row |-> IF k \in ks THEN v[k] ELSE x.view[k]]
    /\ y.pc = x.pc /\ y.closed = x.closed /\ y.batch = x.batch /\ y.broken = x.broken
    /\ y.locked = x.locked /\ y.seen = x.seen /\ y.snap = x.snap /\ y.failure = x.failure
    /\ y.rejected = x.rejected /\ y.messages = x.messages /\ y.accepted = x.accepted

LEMMA WrittenFields ==
    ASSUME NEW t \in Tx, DOMAIN tx[t] = Field, NEW ks, NEW v
    PROVE  /\ Fields(tx[t], ks, v, tx[t].base, Written(t, ks, v))
           /\ \A b : Fields(tx[t], ks, v, b, [Written(t, ks, v) EXCEPT !.base = b])
<1> DEFINE w == Written(t, ks, v)
<1>1. Fields(tx[t], ks, v, tx[t].base, w)
    BY DEF Written, Field, Fields
<1> HIDE DEF w
<1>2. ASSUME NEW b PROVE Fields(tx[t], ks, v, b, [w EXCEPT !.base = b])
    BY <1>1 DEF Fields, Field
<1>3. QED BY <1>1, <1>2 DEF w

\* A write of the rows of ks that follows from what is committed.
LEMMA WriteStep ==
    ASSUME StoreInv, NEW t \in Tx, tx[t].pc \in Live, NEW ks \in SUBSET Row, NEW v, NEW b, NEW y,
           Fields(tx[t], ks, v, b, y), b = [k \in Row |-> b[k]],
           tx' = [tx EXCEPT ![t] = y], db' = db, Locks(t, ks), \A k \in ks : CanWrite(t, k),
           IsRows([k \in Row |-> IF k \in ks THEN v[k] ELSE tx[t].view[k]]),
           Entity \in ks => tx[t].locked,
           Builds(db.rows, y)
    PROVE  StoreInv'
<1> DEFINE x == tx[t]
<1>0. /\ IsTx(x) /\ Control(x) /\ tx = [u \in Tx |-> tx[u]] /\ DOMAIN x = Field
      /\ lock \in [Row -> Tx \cup {Free}] /\ Holds(t, x) /\ x.own \subseteq Row
    BY AtTx DEF Live, IsTx
<1>1. /\ DOMAIN y = Field /\ y.own = x.own \cup ks /\ y.calls = x.calls + 1 /\ y.base = b
      /\ y.view = [k \in Row |-> IF k \in ks THEN v[k] ELSE x.view[k]]
      /\ y.pc = x.pc /\ y.closed = x.closed /\ y.batch = x.batch /\ y.broken = x.broken
      /\ y.locked = x.locked /\ y.seen = x.seen /\ y.snap = x.snap /\ y.failure = x.failure
      /\ y.rejected = x.rejected /\ y.messages = x.messages /\ y.accepted = x.accepted
    BY DEF Fields
<1>2. tx'[t] = y
    BY <1>0
<1>3. IsTx(y)
    BY <1>0, <1>1 DEF IsTx
<1>4. Control(y)
    BY <1>0, <1>1 DEF Control
<1>5. /\ lock' \in [Row -> Tx \cup {Free}] /\ \A k \in ks : lock[k] \in {Free, t}
      /\ \A k \in Row : lock[k] \notin {Free, t} => lock'[k] = lock[k]
      /\ \A k \in ks : lock'[k] = t
      /\ \A k \in Row : lock[k] = t => lock'[k] = t
    BY <1>0 DEF Locks, CanWrite
<1>6. Holds(t, tx[t])'
    BY <1>0, <1>1, <1>2, <1>5, RowParts DEF Holds
<1>7. Builds(db.rows, tx[t])'
    BY <1>2
<1>8. QED BY <1>1, <1>3, <1>4, <1>5, <1>6, <1>7, OwnStep DEF Live

\* The rows after a write: those of ks are new, the others as before.
LEMMA OverlayWritten ==
    ASSUME NEW table, NEW x, NEW y, NEW ks, NEW v, NEW b, Fields(x, ks, v, b, y)
    PROVE  Overlay(table, y) = [k \in Row |-> IF k \in ks THEN v[k] ELSE Overlay(table, x)[k]]
BY DEF Overlay, Fields

\* Writes that touch neither the keys of the scope nor its revision.
LEMMA SameKeys ==
    ASSUME NEW table, NEW x, NEW y, NEW ks, NEW v, NEW b, Fields(x, ks, v, b, y),
           Counts(Overlay(table, x)), Scope \notin ks,
           \A r \in Resource : State(r) \in ks => (v[State(r)] > 0 <=> Overlay(table, x)[State(r)] > 0)
    PROVE  Counts(Overlay(table, y))
<1> DEFINE f == Overlay(table, x)
           g == Overlay(table, y)
<1>1. g = [k \in Row |-> IF k \in ks THEN v[k] ELSE f[k]]
    BY OverlayWritten
<1>2. Keys(g) = Keys(f) /\ g[Scope] = f[Scope]
    <2> HIDE DEF f, g
    <2>1. \A r \in Resource : g[State(r)] > 0 <=> f[State(r)] > 0
        BY <1>1, RowParts DEF f
    <2>2. QED BY <1>1, <2>1, RowParts DEF Keys
<1>3. QED BY <1>2, SameCount

\* Only an open transaction accepts a call of the records.
LEMMA OpenCaller ==
    ASSUME StoreInv, NEW t \in Tx, Callable(t), ~Refused(t)
    PROVE  tx[t].pc = "open" /\ tx[t].pc \in Live
BY AtTx DEF Callable, Refused, Control, Live

LEMMA Writer ==
    ASSUME StoreInv, NEW t \in Tx, tx[t].pc \in Live
    PROVE  /\ DOMAIN tx[t] = Field /\ IsRows(db.rows) /\ IsRows(tx[t].view)
           /\ tx[t].base = [k \in Row |-> tx[t].base[k]]
           /\ Holds(t, tx[t]) /\ Builds(db.rows, tx[t]) /\ IsRows(Overlay(db.rows, tx[t]))
           /\ tx[t].seen \in Version /\ lock \in [Row -> Tx \cup {Free}]
<1>1. /\ IsTx(tx[t]) /\ IsRows(db.rows) /\ Holds(t, tx[t]) /\ Builds(db.rows, tx[t])
      /\ lock \in [Row -> Tx \cup {Free}]
    BY AtTx DEF Live
<1>2. /\ DOMAIN tx[t] = Field /\ IsRows(tx[t].view) /\ tx[t].seen \in Version
      /\ tx[t].base = [k \in Row |-> tx[t].base[k]]
    BY <1>1 DEF IsTx
<1>3. QED BY <1>1, <1>2, OverlayType

LEMMA NextVersion == ASSUME NEW n \in Version, n < MaxVersion PROVE n + 1 \in Version /\ n + 1 > 0
BY TransactionAssumption DEF Version

\* What a write needs for the rows that it writes.
Follows(table, x, ks, v, b) ==
    /\ \A k \in Versioned : k \notin ks => b[k] = x.base[k]
    /\ \A k \in Versioned : k \in ks => b[k] = table[k] /\ b[k] # -1
    /\ Entity \in ks => v[Entity] = table[Entity] + 1
    /\ Scope \in ks => ~table[Scope].sealed
    /\ \A r \in Resource : State(r) \in ks =>
          v[State(r)] > 0 /\ (Scope \in x.own \cup ks \/ table[State(r)] > 0)
    /\ \A r \in Resource : Effect(r) \in ks =>
          v[Effect(r)].present /\ Keeps(table[Effect(r)], v[Effect(r)])

LEMMA BuildsWrite ==
    ASSUME NEW table, NEW x, NEW y, NEW ks \in SUBSET Row, NEW v, NEW b,
           Fields(x, ks, v, b, y), Builds(table, x), Counts(Overlay(table, y)),
           Follows(table, x, ks, v, b)
    PROVE  Builds(table, y)
<1>1. y.base = b /\ y.own = x.own \cup ks
    BY DEF Fields
<1>2. \A k \in Row : (k \in ks => y.view[k] = v[k]) /\ (k \notin ks => y.view[k] = x.view[k])
    BY DEF Fields
<1>3. \A k \in Versioned : (k \in y.own <=> y.base[k] # -1) /\ (k \in y.own => y.base[k] = table[k])
    BY <1>1 DEF Builds, Follows
<1>4. (Entity \in y.own => y.view[Entity] = table[Entity] + 1) /\ (Scope \in y.own => ~table[Scope].sealed)
    BY <1>1, <1>2, RowParts DEF Builds, Follows
<1>5. ASSUME NEW r \in Resource, State(r) \in y.own
      PROVE  y.view[State(r)] > 0 /\ (Scope \in y.own \/ table[State(r)] > 0)
    <2>1. State(r) \in Row
        BY RowParts
    <2>2. CASE State(r) \in ks
        BY <1>1, <1>2, <2>1, <2>2 DEF Follows
    <2>3. CASE State(r) \notin ks
        BY <1>1, <1>2, <1>5, <2>1, <2>3 DEF Builds
    <2>4. QED BY <2>2, <2>3
<1>6. ASSUME NEW r \in Resource, Effect(r) \in y.own
      PROVE  y.view[Effect(r)].present /\ Keeps(table[Effect(r)], y.view[Effect(r)])
    <2>1. Effect(r) \in Row
        BY RowParts
    <2>2. CASE Effect(r) \in ks
        BY <1>1, <1>2, <2>1, <2>2 DEF Follows
    <2>3. CASE Effect(r) \notin ks
        BY <1>1, <1>2, <1>6, <2>1, <2>3 DEF Builds
    <2>4. QED BY <2>2, <2>3
<1>7. QED BY <1>3, <1>4, <1>5, <1>6 DEF Builds

LEMMA ReplaceStep ==
    ASSUME StoreInv, NEW t \in Tx, Replace(t)
    PROVE  StoreInv'
<1> DEFINE x == tx[t]
           v == [k \in Row |-> x.seen + 1]
           y == Written(t, {Entity}, v)
<1>0. x.pc \in Live /\ x.locked /\ tx' = [tx EXCEPT ![t] = y] /\ Locks(t, {Entity}) /\ db' = db
      /\ CanWrite(t, Entity) /\ x.seen < MaxVersion
    BY DEF Replace, Callable, Live
<1>1. /\ DOMAIN x = Field /\ IsRows(db.rows) /\ IsRows(x.view) /\ x.base = [k \in Row |-> x.base[k]]
      /\ Holds(t, x) /\ Builds(db.rows, x) /\ x.seen \in Version
    BY <1>0, Writer
<1>2. Fields(x, {Entity}, v, x.base, y)
    BY <1>1, WrittenFields
<1>3. Entity \in Row /\ v[Entity] = db.rows[Entity] + 1 /\ v[Entity] \in Version
    BY <1>0, <1>1, RowParts, NextVersion DEF Holds
<1> HIDE DEF x, v, y
<1>4. IsRows([k \in Row |-> IF k \in {Entity} THEN v[k] ELSE x.view[k]])
    <2>1. Scope \notin {Entity} /\ \A r \in Resource : Effect(r) \notin {Entity}
        BY RowParts
    <2>2. \A k \in (Versioned \cup {Entity}) \cap {Entity} : v[k] \in Version
        BY <1>3
    <2>3. QED BY <1>1, <2>1, <2>2, RowsWritten
<1>5. Counts(Overlay(db.rows, y))
    <2>1. Scope \notin {Entity} /\ \A r \in Resource : State(r) \notin {Entity}
        BY RowParts
    <2>2. Counts(Overlay(db.rows, x))
        BY <1>1 DEF Builds
    <2>3. QED BY <1>2, <2>1, <2>2, SameKeys
<1>6. Builds(db.rows, y)
    <2>1. /\ {Entity} \in SUBSET Row /\ Scope \notin {Entity} /\ \A k \in Versioned : k \notin {Entity}
          /\ \A r \in Resource : State(r) \notin {Entity} /\ Effect(r) \notin {Entity}
        BY RowParts
    <2>2. Follows(db.rows, x, {Entity}, v, x.base)
        BY <1>3, <2>1 DEF Follows
    <2>3. QED BY <1>1, <1>2, <1>5, <2>1, <2>2, BuildsWrite
<1>7. {Entity} \in SUBSET Row /\ \A k \in {Entity} : CanWrite(t, k)
    BY <1>0, RowParts
<1>8. QED BY <1>0, <1>1, <1>2, <1>4, <1>6, <1>7, WriteStep DEF x

\* A rejected call, and one that only locks.
LEMMA RejectStep ==
    ASSUME StoreInv, NEW t \in Tx, Callable(t), ~Refused(t), Reject(t), db' = db, lock' = lock
    PROVE  StoreInv'
<1>1. lock \in [Row -> Tx \cup {Free}]
    BY AtTx
<1>2. QED BY <1>1, CallStep

LEMMA NotifyStep ==
    ASSUME StoreInv, NEW t \in Tx, NEW n \in 0 .. MaxBatch + 1, Notify(t, n)
    PROVE  StoreInv'
<1>1. Callable(t) /\ ~Refused(t) /\ db' = db /\ lock' = lock /\ lock \in [Row -> Tx \cup {Free}]
    BY AtTx DEF Notify
<1>2. CASE Reject(t)
    BY <1>1, <1>2, RejectStep
<1>3. CASE ~Reject(t)
    <2>1. /\ ~(n > MaxBatch - tx[t].messages)
          /\ tx' = [tx EXCEPT ![t].calls = @ + 1, ![t].messages = @ + n, ![t].accepted = @ + n]
        BY <1>3 DEF Notify
    <2>2. tx[t].messages \in 0 .. MaxBatch
        BY AtTx DEF IsTx
    <2>3. n \in Nat /\ n <= MaxBatch - tx[t].messages
        BY <2>1, <2>2, TransactionAssumption
    <2>4. QED BY <1>1, <2>1, <2>3, CallStep
<1>4. QED BY <1>2, <1>3

\* The version that a save replaces is the committed one: of the first save of the
\* transaction by the comparison, of a later one because the row is locked.
LEMMA AcceptedBase ==
    ASSUME StoreInv, NEW t \in Tx, tx[t].pc \in Live, NEW k \in Versioned, NEW expected \in Version,
           CanWrite(t, k), expected = Read(t, k), NEW b, b = Accepted(t, k, expected)
    PROVE  /\ b = [j \in Row |-> b[j]] /\ \A j \in Versioned : j # k => b[j] = tx[t].base[j]
           /\ b[k] = db.rows[k] /\ b[k] # -1
<1>1. /\ tx[t].base = [j \in Row |-> tx[t].base[j]] /\ Builds(db.rows, tx[t]) /\ k \in Row
      /\ IsRows(db.rows)
    BY Writer, RowParts
<1>2. /\ b = [j \in Row |-> b[j]] /\ \A j \in Versioned : j # k => b[j] = tx[t].base[j]
      /\ b[k] = IF tx[t].base[k] = -1 THEN expected ELSE tx[t].base[k]
    BY <1>1, RowParts DEF Accepted
<1>3. db.rows[k] \in Version /\ -1 \notin Version
    BY <1>1, TransactionAssumption DEF IsRows, Version
<1>4. CASE k \in tx[t].own
    BY <1>1, <1>2, <1>3, <1>4 DEF Builds
<1>5. CASE k \notin tx[t].own
    <2>1. Read(t, k) = db.rows[k]
        BY <1>1, <1>5, ReadIsOverlay DEF Overlay
    <2>2. tx[t].base[k] = -1
        BY <1>1, <1>5 DEF Builds
    <2>3. QED BY <1>2, <1>3, <2>1, <2>2
<1>6. QED BY <1>2, <1>4, <1>5

LEMMA CheckpointStep ==
    ASSUME StoreInv, NEW t \in Tx, NEW expected \in Version, SaveCheckpoint(t, expected)
    PROVE  StoreInv'
<1> DEFINE x == tx[t]
           k == Checkpoint
           v == [j \in Row |-> Read(t, k) + 1]
           b == Accepted(t, k, expected)
           y == [Written(t, {k}, v) EXCEPT !.base = b]
<1>0. Callable(t) /\ ~Refused(t) /\ db' = db
    BY DEF SaveCheckpoint
<1>1. CASE Reject(t) /\ lock' = lock
    BY <1>0, <1>1, RejectStep
<1>2. CASE /\ VersionMatches(expected, Read(t, k)) /\ CanWrite(t, k) /\ expected < MaxVersion
           /\ tx' = [tx EXCEPT ![t] = y] /\ Locks(t, {k})
    <2>1. x.pc \in Live /\ expected = Read(t, k)
        BY <1>0, <1>2, OpenCaller DEF VersionMatches
    <2>2. /\ DOMAIN x = Field /\ IsRows(x.view) /\ Builds(db.rows, x)
        BY <2>1, Writer
    <2>3. k \in Versioned /\ k \in Row /\ {k} \in SUBSET Row
        BY RowParts
    <2>4. /\ b = [j \in Row |-> b[j]] /\ \A j \in Versioned : j # k => b[j] = x.base[j]
          /\ b[k] = db.rows[k] /\ b[k] # -1
        <3> HIDE DEF k
        <3>1. CanWrite(t, k)
            BY <1>2
        <3> DEFINE c == b
        <3>2. c = b
            OBVIOUS
        <3> HIDE DEF c
        <3>3. /\ c = [j \in Row |-> c[j]] /\ \A j \in Versioned : j # k => c[j] = tx[t].base[j]
              /\ c[k] = db.rows[k] /\ c[k] # -1
            BY <2>1, <2>3, <3>1, <3>2, AcceptedBase
        <3>4. QED BY <3>2, <3>3
    <2>5. Fields(x, {k}, v, b, y)
        BY <2>2, WrittenFields
    <2>6. v[k] \in Version
        BY <1>2, <2>1, <2>3, NextVersion
    <2> HIDE DEF x, v, b, y
    <2>7. /\ Scope \notin {k} /\ Entity \notin {k}
          /\ \A r \in Resource : Effect(r) \notin {k} /\ State(r) \notin {k}
        BY RowParts
    <2>8. IsRows([j \in Row |-> IF j \in {k} THEN v[j] ELSE x.view[j]])
        <3>1. \A j \in (Versioned \cup {Entity}) \cap {k} : v[j] \in Version
            BY <2>6
        <3>2. QED BY <2>2, <2>7, <3>1, RowsWritten
    <2>9. Counts(Overlay(db.rows, y))
        BY <2>2, <2>5, <2>7, SameKeys DEF Builds
    <2>10. Builds(db.rows, y)
        <3>1. /\ \A j \in Versioned : j \notin {k} => b[j] = x.base[j]
              /\ \A j \in Versioned : j \in {k} => b[j] = db.rows[j] /\ b[j] # -1
            BY <2>4
        <3>2. Follows(db.rows, x, {k}, v, b)
            BY <2>7, <3>1 DEF Follows
        <3>3. QED BY <2>2, <2>3, <2>5, <2>9, <3>2, BuildsWrite
    <2>11. \A j \in {k} : CanWrite(t, j)
        BY <1>2
    <2>12. QED BY <1>0, <1>2, <2>1, <2>3, <2>4, <2>5, <2>7, <2>8, <2>10, <2>11, WriteStep DEF x
<1>3. QED BY <1>1, <1>2 DEF SaveCheckpoint

\* A write of an effect's binding that keeps the committed one.
LEMMA EffectStep ==
    ASSUME StoreInv, NEW t \in Tx, tx[t].pc \in Live, NEW r \in Resource, CanWrite(t, Effect(r)),
           NEW new \in Binding, new.present, Keeps(db.rows[Effect(r)], new), db' = db,
           tx' = [tx EXCEPT ![t] = Written(t, {Effect(r)}, [j \in Row |-> new])],
           Locks(t, {Effect(r)})
    PROVE  StoreInv'
<1> DEFINE x == tx[t]
           k == Effect(r)
           v == [j \in Row |-> new]
           y == Written(t, {k}, v)
<1>1. /\ DOMAIN x = Field /\ IsRows(x.view) /\ Builds(db.rows, x)
      /\ x.base = [j \in Row |-> x.base[j]]
    BY Writer
<1>2. /\ {k} \in SUBSET Row /\ k \in Row /\ Scope \notin {k} /\ Entity \notin {k} /\ k \notin Versioned
      /\ \A s \in Resource : State(s) \notin {k}
    BY RowParts
<1>3. Fields(x, {k}, v, x.base, y)
    BY <1>1, WrittenFields
<1>4. v[k] = new /\ tx' = [tx EXCEPT ![t] = y]
    BY <1>2
<1> HIDE DEF x, v, y
<1>5. IsRows([j \in Row |-> IF j \in {k} THEN v[j] ELSE x.view[j]])
    <2>1. \A j \in (Versioned \cup {Entity}) \cap {k} : v[j] \in Version
        BY <1>2
    <2>2. \A s \in Resource : Effect(s) \in {k} => v[Effect(s)] \in Binding
        BY <1>4
    <2>3. QED BY <1>1, <1>2, <2>1, <2>2, RowsWritten, ZenonT(60)
<1>6. Counts(Overlay(db.rows, y))
    BY <1>1, <1>2, <1>3, SameKeys DEF Builds
<1>7. Follows(db.rows, x, {k}, v, x.base)
    <2>1. \A s \in Resource : Effect(s) \in {k} =>
              v[Effect(s)].present /\ Keeps(db.rows[Effect(s)], v[Effect(s)])
        BY <1>4
    <2>2. QED BY <1>2, <2>1 DEF Follows
<1>8. Builds(db.rows, y)
    BY <1>1, <1>2, <1>3, <1>6, <1>7, BuildsWrite
<1>9. \A j \in {k} : CanWrite(t, j)
    OBVIOUS
<1>10. QED BY <1>1, <1>2, <1>3, <1>4, <1>5, <1>8, <1>9, WriteStep, ZenonT(60) DEF x

LEMMA BindStep ==
    ASSUME StoreInv, NEW t \in Tx, NEW r \in Resource, NEW digest \in Digest, BindEffect(t, r, digest)
    PROVE  StoreInv'
<1> DEFINE k == Effect(r)
           new == [present |-> TRUE, digest |-> digest, closed |-> FALSE]
<1>0. Callable(t) /\ ~Refused(t) /\ db' = db /\ tx[t].pc \in Live /\ lock \in [Row -> Tx \cup {Free}]
    BY OpenCaller, AtTx DEF BindEffect
<1>1. CASE Reject(t) /\ lock' = lock
    BY <1>0, <1>1, RejectStep
<1>2. CASE tx' = [tx EXCEPT ![t].calls = @ + 1] /\ lock' = lock
    BY <1>0, <1>2, CallStep
<1>3. CASE /\ ~Read(t, k).present /\ CanWrite(t, k) /\ Locks(t, {k})
           /\ tx' = [tx EXCEPT ![t] = Written(t, {k}, [j \in Row |-> new])]
    <2>1. Builds(db.rows, tx[t]) /\ k \in Row
        BY <1>0, Writer, RowParts
    <2>2. ~Overlay(db.rows, tx[t])[k].present
        BY <1>3, <2>1, ReadIsOverlay
    <2>3. ~db.rows[k].present
        BY <2>1, <2>2 DEF Builds, Overlay
    <2>4. new \in Binding /\ new.present
        BY DEF Binding
    <2>5. Keeps(db.rows[k], new)
        BY <2>3 DEF Keeps
    <2> HIDE DEF new
    <2>6. QED BY <1>0, <1>3, <2>4, <2>5, EffectStep
<1>4. QED BY <1>1, <1>2, <1>3 DEF BindEffect

LEMMA CloseStep ==
    ASSUME StoreInv, NEW t \in Tx, NEW r \in Resource, CloseEffectBinding(t, r)
    PROVE  StoreInv'
<1> DEFINE k == Effect(r)
           old == Read(t, k)
           new == [old EXCEPT !.present = TRUE, !.closed = TRUE]
<1>0. /\ Callable(t) /\ ~Refused(t) /\ db' = db /\ tx[t].pc \in Live
      /\ CanWrite(t, k) /\ Locks(t, {k})
      /\ tx' = [tx EXCEPT ![t] = Written(t, {k}, [j \in Row |-> new])]
    BY OpenCaller DEF CloseEffectBinding
<1>1. Builds(db.rows, tx[t]) /\ k \in Row /\ IsRows(Overlay(db.rows, tx[t]))
    BY <1>0, Writer, RowParts
<1>2. old = Overlay(db.rows, tx[t])[k]
    BY <1>0, <1>1, ReadIsOverlay
<1>3. old \in Binding
    BY <1>1, <1>2 DEF IsRows
<1>4. Keeps(db.rows[k], old)
    <2>1. CASE k \in tx[t].own
        BY <1>1, <1>2, <2>1 DEF Builds, Overlay
    <2>2. CASE k \notin tx[t].own
        BY <1>1, <1>2, <2>2 DEF Keeps, Overlay
    <2>3. QED BY <2>1, <2>2
<1> HIDE DEF old
<1>5. new \in Binding /\ new.present /\ new.digest = old.digest /\ new.closed
    BY <1>3 DEF Binding
<1>6. Keeps(db.rows[k], new)
    BY <1>4, <1>5 DEF Keeps
<1> HIDE DEF new
<1>7. QED BY <1>0, <1>5, <1>6, EffectStep

\* The scope that a transaction may write is not sealed in what is committed, unless
\* it reads it sealed.
LEMMA ScopeOpen ==
    ASSUME StoreInv, NEW t \in Tx, tx[t].pc \in Live, CanWrite(t, Scope), ~Read(t, Scope).sealed
    PROVE  /\ ~db.rows[Scope].sealed /\ Read(t, Scope) \in ScopeValue
           /\ Read(t, Scope) = Overlay(db.rows, tx[t])[Scope]
<1>1. Builds(db.rows, tx[t]) /\ Scope \in Row /\ IsRows(Overlay(db.rows, tx[t]))
    BY Writer, RowParts
<1>2. Read(t, Scope) = Overlay(db.rows, tx[t])[Scope]
    BY <1>1, ReadIsOverlay
<1>3. ~db.rows[Scope].sealed
    BY <1>1, <1>2 DEF Builds, Overlay
<1>4. QED BY <1>1, <1>2, <1>3 DEF IsRows

LEMMA SealCount ==
    ASSUME NEW f, NEW g, Counts(f), f[Scope] \in ScopeValue, ~f[Scope].sealed, Keys(g) = Keys(f),
           g[Scope] = [revision |-> f[Scope].revision + 1, sealed |-> TRUE]
    PROVE  Counts(g)
BY FS_CardinalityType DEF Counts, ScopeValue

LEMMA SealStep ==
    ASSUME StoreInv, NEW t \in Tx, NEW expected \in Version, SealResourceStateScope(t, expected)
    PROVE  StoreInv'
<1> DEFINE x == tx[t]
           scope == Read(t, Scope)
           new == [revision |-> expected + 1, sealed |-> TRUE]
           v == [j \in Row |-> new]
           y == Written(t, {Scope}, v)
<1>0. /\ Callable(t) /\ ~Refused(t) /\ db' = db /\ x.pc \in Live /\ CanWrite(t, Scope)
      /\ lock \in [Row -> Tx \cup {Free}]
    BY OpenCaller, AtTx DEF SealResourceStateScope
<1>1. CASE Reject(t) /\ lock' = lock
    BY <1>0, <1>1, RejectStep
<1>2. CASE tx' = [tx EXCEPT ![t].calls = @ + 1] /\ Locks(t, {Scope})
    <2>1. /\ lock' \in [Row -> Tx \cup {Free}] /\ \A k \in Row : lock'[k] \in {lock[k], t}
          /\ \A k \in Row : lock[k] \notin {Free, t} => lock'[k] = lock[k]
        BY <1>0, <1>2 DEF Locks, CanWrite
    <2>2. QED BY <1>0, <1>2, <2>1, CallStep
<1>3. CASE /\ scope.revision = expected /\ ~scope.sealed /\ Locks(t, {Scope})
           /\ tx' = [tx EXCEPT ![t] = y]
    <2>1. ~db.rows[Scope].sealed /\ scope \in ScopeValue /\ scope = Overlay(db.rows, x)[Scope]
        BY <1>0, <1>3, ScopeOpen
    <2>2. DOMAIN x = Field /\ IsRows(x.view) /\ Builds(db.rows, x) /\ x.base = [j \in Row |-> x.base[j]]
        BY <1>0, Writer
    <2>3. /\ {Scope} \in SUBSET Row /\ Scope \in Row /\ Entity \notin {Scope}
          /\ \A k \in Versioned : k \notin {Scope}
          /\ \A r \in Resource : State(r) \notin {Scope} /\ Effect(r) \notin {Scope}
        BY RowParts
    <2>4. Fields(x, {Scope}, v, x.base, y)
        BY <2>2, WrittenFields
    <2>5. v[Scope] = new /\ new \in ScopeValue /\ expected + 1 = scope.revision + 1
        BY <1>3, <2>3, TransactionAssumption DEF ScopeValue, Version
    <2> HIDE DEF x, v, y
    <2>6. IsRows([j \in Row |-> IF j \in {Scope} THEN v[j] ELSE x.view[j]])
        <3>1. \A j \in (Versioned \cup {Entity}) \cap {Scope} : v[j] \in Version
            BY <2>3
        <3>2. /\ Scope \in {Scope} => v[Scope] \in ScopeValue
              /\ \A r \in Resource : Effect(r) \in {Scope} => v[Effect(r)] \in Binding
            BY <2>3, <2>5
        <3>3. QED BY <2>2, <3>1, <3>2, RowsWritten, ZenonT(60)
    <2>7. Counts(Overlay(db.rows, y))
        <3> DEFINE f == Overlay(db.rows, x)
                   g == Overlay(db.rows, y)
        <3>1. g = [k \in Row |-> IF k \in {Scope} THEN v[k] ELSE f[k]]
            BY <2>4, OverlayWritten
        <3>2. Counts(f)
            BY <2>2 DEF Builds
        <3>3. f[Scope] = scope
            BY <2>1
        <3> HIDE DEF f, g
        <3>4. \A r \in Resource : g[State(r)] = f[State(r)]
            BY <2>3, <3>1, RowParts
        <3>5. Keys(g) = Keys(f)
            BY <3>4 DEF Keys
        <3>6. g[Scope] = [revision |-> f[Scope].revision + 1, sealed |-> TRUE]
            BY <2>3, <2>5, <3>1, <3>3
        <3>7. Counts(g)
            BY <1>3, <2>1, <3>2, <3>3, <3>5, <3>6, SealCount
        <3>8. QED BY <3>7 DEF g
    <2>8. Follows(db.rows, x, {Scope}, v, x.base)
        BY <2>1, <2>3 DEF Follows
    <2>9. Builds(db.rows, y)
        BY <2>2, <2>3, <2>4, <2>7, <2>8, BuildsWrite
    <2>10. \A j \in {Scope} : CanWrite(t, j)
        BY <1>0
    <2>11. QED BY <1>0, <1>3, <2>2, <2>3, <2>4, <2>6, <2>9, <2>10, WriteStep DEF x
<1>4. QED BY <1>1, <1>2, <1>3 DEF SealResourceStateScope

LEMMA InsertCount ==
    ASSUME NEW f, NEW g, Counts(f), f[Scope] \in ScopeValue, ~f[Scope].sealed,
           NEW r \in Resource, r \notin Keys(f), Keys(g) = Keys(f) \cup {r},
           g[Scope] = [f[Scope] EXCEPT !.revision = @ + 1]
    PROVE  Counts(g)
<1>1. IsFiniteSet(Keys(f)) /\ f[Scope].revision = Cardinality(Keys(f)) /\ Cardinality(Keys(f)) \in Nat
    BY FS_CardinalityType DEF Counts, ScopeValue
<1>2. IsFiniteSet(Keys(g)) /\ Cardinality(Keys(g)) = Cardinality(Keys(f)) + 1
    BY <1>1, FS_AddElement
<1>3. g[Scope].revision = f[Scope].revision + 1 /\ g[Scope].sealed = f[Scope].sealed
    BY DEF ScopeValue
<1>4. QED BY <1>1, <1>2, <1>3 DEF Counts

\* SaveResourceState writes the record, and counts it in the scope when it is new.
LEMMA SaveStep ==
    ASSUME StoreInv, NEW t \in Tx, NEW r \in Resource, NEW expected \in Version,
           SaveResourceState(t, r, expected)
    PROVE  StoreInv'
<1> DEFINE x == tx[t]
           k == State(r)
           scope == Read(t, Scope)
           new == expected = 0 /\ Read(t, k) = 0
           ks == {k} \cup IF new THEN {Scope} ELSE {}
           v == [j \in Row |-> IF j = k THEN Read(t, k) + 1 ELSE [scope EXCEPT !.revision = @ + 1]]
           b == Accepted(t, k, expected)
           y == [Written(t, ks, v) EXCEPT !.base = b]
           f == Overlay(db.rows, x)
           g == Overlay(db.rows, y)
<1>0. Callable(t) /\ ~Refused(t) /\ db' = db /\ x.pc \in Live
    BY OpenCaller DEF SaveResourceState
<1>1. CASE Reject(t) /\ lock' = lock
    BY <1>0, <1>1, RejectStep
<1>2. CASE /\ VersionMatches(expected, Read(t, k)) /\ ~(new /\ scope.sealed)
           /\ \A j \in ks : CanWrite(t, j)
           /\ expected < MaxVersion /\ tx' = [tx EXCEPT ![t] = y] /\ Locks(t, ks)
    <2>1. expected = Read(t, k) /\ ~(new /\ scope.sealed) /\ CanWrite(t, k)
        BY <1>2 DEF VersionMatches
    <2>2. /\ DOMAIN x = Field /\ IsRows(x.view) /\ Builds(db.rows, x) /\ IsRows(f) /\ IsRows(db.rows)
        BY <1>0, Writer
    <2>3. /\ k \in Versioned /\ k \in Row /\ Scope \in Row /\ k # Scope /\ k # Entity /\ Scope # Entity
          /\ \A s \in Resource : Effect(s) # k /\ Effect(s) # Scope /\ (State(s) = k => s = r)
          /\ \A s \in Resource : State(s) # Scope /\ State(s) \in Row
        BY RowParts
    <2>4. ks \in SUBSET Row /\ k \in ks /\ (Scope \in ks <=> new) /\ ks \subseteq {k, Scope}
        BY <2>3
    <2>5. /\ b = [j \in Row |-> b[j]] /\ \A j \in Versioned : j # k => b[j] = x.base[j]
          /\ b[k] = db.rows[k] /\ b[k] # -1
        <3> DEFINE c == b
        <3>1. c = b
            OBVIOUS
        <3> HIDE DEF c, k
        <3>2. /\ c = [j \in Row |-> c[j]] /\ \A j \in Versioned : j # k => c[j] = tx[t].base[j]
              /\ c[k] = db.rows[k] /\ c[k] # -1
            BY <1>0, <2>1, <2>3, <3>1, AcceptedBase
        <3>3. QED BY <3>1, <3>2
    <2>6. Fields(x, ks, v, b, y)
        BY <2>2, WrittenFields
    <2>7. expected = f[k] /\ v[k] = f[k] + 1 /\ v[k] \in Version /\ v[k] > 0
        BY <1>2, <2>1, <2>3, ReadIsOverlay, NextVersion
    <2>8. ASSUME new
          PROVE  /\ ~db.rows[Scope].sealed /\ scope \in ScopeValue /\ scope = f[Scope]
                 /\ ~scope.sealed /\ f[k] = 0
        <3>1. CanWrite(t, Scope) /\ ~scope.sealed
            BY <1>2, <2>1, <2>4, <2>8
        <3>2. QED BY <1>0, <2>1, <2>7, <2>8, <3>1, ScopeOpen
    <2>9. v[Scope] = [scope EXCEPT !.revision = @ + 1]
        BY <2>3
    <2>10. new <=> f[k] = 0
        BY <2>1, <2>7
    <2> HIDE DEF new, ks, v, b, y, f, g, scope
    <2>11. IsRows([j \in Row |-> IF j \in ks THEN v[j] ELSE x.view[j]])
        <3>1. \A j \in (Versioned \cup {Entity}) \cap ks : v[j] \in Version
            BY <2>3, <2>4, <2>7, RowParts
        <3>2. Scope \in ks => v[Scope] \in ScopeValue
            BY <2>4, <2>8, <2>9 DEF ScopeValue
        <3>3. \A s \in Resource : Effect(s) \in ks => v[Effect(s)] \in Binding
            BY <2>3, <2>4
        <3>4. QED BY <2>2, <3>1, <3>2, <3>3, RowsWritten
    <2>12. Counts(g)
        <3>1. Counts(f)
            BY <2>2 DEF Builds, f
        <3>2. g = [j \in Row |-> IF j \in ks THEN v[j] ELSE f[j]]
            BY <2>6, OverlayWritten DEF f, g
        <3>3. /\ g[k] = v[k] /\ \A s \in Resource : s # r => g[State(s)] = f[State(s)]
            BY <2>3, <2>4, <3>2
        <3>4. CASE new
            <4>1. g[Scope] = [f[Scope] EXCEPT !.revision = @ + 1]
                BY <2>3, <2>4, <2>8, <2>9, <3>2, <3>4
            <4>2. r \notin Keys(f)
                BY <2>8, <3>4 DEF Keys
            <4>3. Keys(g) = Keys(f) \cup {r}
                BY <2>7, <3>3 DEF Keys
            <4>4. f[Scope] \in ScopeValue /\ ~f[Scope].sealed
                BY <2>8, <3>4
            <4>5. QED BY <3>1, <4>1, <4>2, <4>3, <4>4, InsertCount
        <3>5. CASE ~new
            <4>1. g[Scope] = f[Scope]
                BY <2>3, <2>4, <3>2, <3>5
            <4>2. f[k] \in Version /\ f[k] > 0
                BY <2>2, <2>3, <2>10, <3>5, TransactionAssumption DEF IsRows, Version
            <4>3. Keys(g) = Keys(f)
                BY <2>7, <3>3, <4>2 DEF Keys
            <4>4. QED BY <3>1, <4>1, <4>3, SameCount
        <3>6. QED BY <3>4, <3>5
    <2>13. Follows(db.rows, x, ks, v, b)
        <3>1. ASSUME NEW s \in Resource, State(s) \in ks
              PROVE  v[State(s)] > 0 /\ (Scope \in x.own \cup ks \/ db.rows[State(s)] > 0)
            <4>1. s = r
                BY <2>3, <2>4, <3>1
            <4>2. CASE new
                BY <2>4, <2>7, <4>1, <4>2
            <4>3. CASE ~new
                <5>1. f[k] \in Version /\ f[k] > 0
                    BY <2>2, <2>3, <2>10, <4>3, TransactionAssumption DEF IsRows, Version
                <5>2. CASE k \in x.own
                    BY <2>2, <2>7, <4>1, <5>2 DEF Builds
                <5>3. CASE k \notin x.own
                    BY <2>3, <2>7, <4>1, <5>1, <5>3 DEF f, Overlay
                <5>4. QED BY <5>2, <5>3
            <4>4. QED BY <4>2, <4>3
        <3>2. \A s \in Resource : Effect(s) \notin ks
            BY <2>3, <2>4
        <3>3. Entity \notin ks /\ (Scope \in ks => ~db.rows[Scope].sealed)
            BY <2>3, <2>4, <2>8
        <3>4. /\ \A j \in Versioned : j \notin ks => b[j] = x.base[j]
              /\ \A j \in Versioned : j \in ks => b[j] = db.rows[j] /\ b[j] # -1
            BY <2>4, <2>5, RowParts
        <3>5. QED BY <3>1, <3>2, <3>3, <3>4 DEF Follows
    <2>14. Builds(db.rows, y)
        BY <2>2, <2>4, <2>6, <2>12, <2>13, BuildsWrite DEF g
    <2>15. Entity \notin ks
        BY <2>3, <2>4
    <2>16. QED BY <1>0, <1>2, <2>4, <2>5, <2>6, <2>11, <2>14, <2>15, WriteStep
<1>3. QED BY <1>1, <1>2 DEF SaveResourceState

-----------------------------------------------------------------------------
(***************************************************************************)
(* Commit.                                                                 *)
(***************************************************************************)

\* A transaction that has written other rows than the one that commits builds on
\* what that one leaves: of two, at most one has written the scope, and the other
\* one then has no new key.
LEMMA TwoWriters ==
    ASSUME NEW table, NEW x, NEW z, Builds(table, x), Builds(table, z), x.own \cap z.own = {}
    PROVE  Builds(Overlay(table, x), z)
<1> DEFINE f == Overlay(table, x)
           g == Overlay(table, z)
           h == Overlay(f, z)
<1>1. \A k \in Row : k \in z.own => f[k] = table[k]
    BY DEF Overlay
<1>2. \A k \in Row : /\ f[k] = (IF k \in x.own THEN x.view[k] ELSE table[k])
                     /\ g[k] = (IF k \in z.own THEN z.view[k] ELSE table[k])
                     /\ h[k] = (IF k \in z.own THEN z.view[k] ELSE f[k])
    BY DEF Overlay
<1> HIDE DEF f, g, h
<1>3. /\ Counts(f) /\ Counts(g)
      /\ \A r \in Resource : State(r) \in x.own =>
            x.view[State(r)] > 0 /\ (Scope \in x.own \/ table[State(r)] > 0)
      /\ \A r \in Resource : State(r) \in z.own =>
            z.view[State(r)] > 0 /\ (Scope \in z.own \/ table[State(r)] > 0)
    BY DEF Builds, f, g
<1>4. Scope \in Row /\ \A r \in Resource : State(r) \in Row
    BY RowParts
<1>5. Counts(h)
    <2>1. CASE Scope \in z.own
        <3>1. \A r \in Resource : State(r) \in x.own => table[State(r)] > 0
            BY <1>3, <2>1
        <3>2. \A r \in Resource : h[State(r)] > 0 <=> g[State(r)] > 0
            BY <1>2, <1>3, <1>4, <3>1
        <3>3. Keys(h) = Keys(g) /\ h[Scope] = g[Scope]
            BY <1>2, <1>4, <2>1, <3>2 DEF Keys
        <3>4. QED BY <1>3, <3>3, SameCount
    <2>2. CASE Scope \notin z.own
        <3>1. \A r \in Resource : State(r) \in z.own => table[State(r)] > 0 /\ State(r) \notin x.own
            BY <1>3, <2>2
        <3>2. \A r \in Resource : h[State(r)] > 0 <=> f[State(r)] > 0
            BY <1>2, <1>3, <1>4, <3>1
        <3>3. Keys(h) = Keys(f) /\ h[Scope] = f[Scope]
            BY <1>2, <1>4, <2>2, <3>2 DEF Keys
        <3>4. QED BY <1>3, <3>3, SameCount
    <2>3. QED BY <2>1, <2>2
<1>6. /\ \A k \in Versioned : (k \in z.own <=> z.base[k] # -1) /\ (k \in z.own => z.base[k] = f[k])
      /\ Entity \in z.own => z.view[Entity] = f[Entity] + 1
      /\ Scope \in z.own => ~f[Scope].sealed
    BY <1>1, RowParts DEF Builds
<1>7. ASSUME NEW r \in Resource
      PROVE  /\ State(r) \in z.own => z.view[State(r)] > 0 /\ (Scope \in z.own \/ f[State(r)] > 0)
             /\ Effect(r) \in z.own => z.view[Effect(r)].present /\ Keeps(f[Effect(r)], z.view[Effect(r)])
    <2>1. State(r) \in Row /\ Effect(r) \in Row
        BY RowParts
    <2>2. /\ State(r) \in z.own => f[State(r)] = table[State(r)]
          /\ Effect(r) \in z.own => f[Effect(r)] = table[Effect(r)]
        BY <1>1, <2>1
    <2>3. QED BY <2>2 DEF Builds
<1>8. QED BY <1>5, <1>6, <1>7 DEF Builds, f, h

LEMMA CommitStep ==
    ASSUME StoreInv, NEW t \in Tx, Commit(t)
    PROVE  StoreInv'
<1> DEFINE x == tx[t]
           y == tx'[t]
<1>0. /\ IsTx(x) /\ Control(x) /\ tx = [u \in Tx |-> tx[u]] /\ DOMAIN x = Field
      /\ lock \in [Row -> Tx \cup {Free}] /\ x.pc = "enqueued" /\ ~x.broken /\ IsRows(db.rows)
      /\ Holds(t, x) /\ Builds(db.rows, x) /\ x.own \subseteq Row /\ IsRows(x.view)
      /\ x.batch \in 0 .. MaxBatch /\ x.batch = x.accepted
    BY AtTx DEF Live, IsTx, Commit, Control
<1>1. /\ db' = [rows |-> db'.rows, outbox |-> db'.outbox] /\ db'.rows = Overlay(db.rows, x)
      /\ db'.outbox = [db.outbox EXCEPT ![t] = x.batch]
    BY DEF Commit, Overlay
<1>2. /\ DOMAIN y = Field /\ y.calls = x.calls /\ y.broken = x.broken /\ y.pc = "committed"
      /\ y.locked = x.locked /\ y.own = x.own /\ y.view = x.view /\ y.seen = x.seen
      /\ y.base = x.base /\ y.snap = x.snap /\ y.accepted = x.accepted
      /\ y.rejected = x.rejected /\ y.failure = x.failure /\ y.closed = x.closed
      /\ y.batch = x.batch /\ y.messages = x.messages
    BY <1>0 DEF Commit, Field
<1>3. tx' = [u \in Tx |-> tx'[u]] /\ \A u \in Tx : u # t => tx'[u] = tx[u]
    BY <1>0 DEF Commit
<1>4. IsTx(y) /\ Control(y)
    <2>1. IsTx(y)
        BY <1>0, <1>2 DEF IsTx, Label
    <2>2. Control(y)
        BY <1>0, <1>2 DEF Control
    <2>3. QED BY <2>1, <2>2
<1>5. /\ lock' \in [Row -> Tx \cup {Free}]
      /\ \A k \in Row : lock[k] \notin {Free, t} => lock'[k] = lock[k]
    BY <1>0 DEF Commit, Release
<1>6. StateTypes'
    <2>1. IsRows(db'.rows)
        BY <1>0, <1>1, OverlayType
    <2>2. db'.outbox \in [Tx -> 0 .. MaxBatch]
        BY <1>0, <1>1 DEF StoreInv, StateTypes
    <2>3. \A u \in Tx : IsTx(tx'[u])
        BY <1>3, <1>4 DEF StoreInv, StateTypes
    <2>4. QED BY <1>1, <1>3, <1>5, <2>1, <2>2, <2>3 DEF StateTypes
<1>7. \A u \in Tx : Control(tx[u])'
    BY <1>3, <1>4 DEF StoreInv, Control
<1>8. ASSUME NEW u \in Tx, tx'[u].pc \in Live
      PROVE  Holds(u, tx[u])' /\ Builds(db.rows, tx[u])'
    <2>1. u # t /\ tx'[u] = tx[u]
        BY <1>2, <1>3, <1>8 DEF Live
    <2>2. Holds(u, tx[u]) /\ Builds(db.rows, tx[u]) /\ tx[u].own \subseteq Row
        BY <1>8, <2>1, AtTx DEF IsTx
    <2>3. x.own \cap tx[u].own = {} /\ (tx[u].locked => Entity \notin x.own)
        BY <1>0, <2>1, <2>2 DEF Holds
    <2>4. Builds(Overlay(db.rows, x), tx[u])
        BY <1>0, <2>2, <2>3, TwoWriters
    <2>5. Entity \in Row /\ u # Free /\ (tx[u].locked => db'.rows[Entity] = db.rows[Entity])
        BY <1>1, <2>3, RowParts, TransactionAssumption DEF Overlay
    <2>6. Holds(u, tx[u])'
        BY <1>5, <2>1, <2>2, <2>5 DEF Holds
    <2>7. QED BY <1>1, <2>1, <2>4, <2>6
<1>9. NotificationsMatchCommit'
    <2>1. db.outbox \in [Tx -> 0 .. MaxBatch]
        BY DEF StoreInv, StateTypes
    <2>2. db'.outbox[t] = x.accepted /\ \A u \in Tx : u # t => db'.outbox[u] = db.outbox[u]
        BY <1>0, <1>1, <2>1
    <2>3. QED BY <1>2, <1>3, <2>2 DEF StoreInv, NotificationsMatchCommit, Committed
<1>10. Counts(db.rows)'
    BY <1>0, <1>1 DEF Builds
<1>11. IsFiniteSet(Writers)' /\ (db.rows[Entity] = Cardinality(Writers))'
    <2>1. /\ IsFiniteSet(Writers) /\ db.rows[Entity] = Cardinality(Writers) /\ t \notin Writers
        BY <1>0 DEF StoreInv, Writers, Committed
    <2>2. CASE Entity \in x.own
        <3>1. Writers' = Writers \cup {t}
            BY <1>2, <1>3, <2>2 DEF Writers, Committed
        <3>2. db'.rows[Entity] = db.rows[Entity] + 1
            BY <1>0, <1>1, <2>2, RowParts DEF Builds, Overlay
        <3>3. QED BY <2>1, <3>1, <3>2, FS_AddElement
    <2>3. CASE Entity \notin x.own
        <3>1. Writers' = Writers
            BY <1>2, <1>3, <2>1, <2>3 DEF Writers, Committed
        <3>2. db'.rows[Entity] = db.rows[Entity]
            BY <1>1, <2>3, RowParts DEF Overlay
        <3>3. QED BY <2>1, <3>1, <3>2
    <2>4. QED BY <2>2, <2>3
<1>12. QED BY <1>6, <1>7, <1>8, <1>9, <1>10, <1>11 DEF StoreInv

-----------------------------------------------------------------------------
(***************************************************************************)
(* The theorems.                                                           *)
(***************************************************************************)

LEMMA InitStore == Init => StoreInv
<1> SUFFICES ASSUME Init PROVE StoreInv
    OBVIOUS
<1>1. /\ db = [rows |-> Empty, outbox |-> [t \in Tx |-> 0]] /\ lock = [k \in Row |-> Free]
      /\ tx = [t \in Tx |-> Idle] /\ db.rows = Empty /\ db.outbox = [t \in Tx |-> 0]
    BY DEF Init
<1>2. 0 \in 0 .. MaxBatch /\ 0 \in Version /\ IsRows(Empty) /\ Counts(Empty) /\ Empty[Entity] = 0
    BY EmptyType, TransactionAssumption DEF Version
<1>3. IsTx(Idle)
    <2>1. Idle.base = [k \in Row |-> Idle.base[k]] /\ "idle" \in Label
        BY IdleFields DEF Label
    <2> DEFINE x == Idle
    <2>2. /\ DOMAIN x = Field /\ x.own = {} /\ x.view = Empty /\ x.snap = Empty /\ x.seen = 0
          /\ x.pc = "idle" /\ x.base = [k \in Row |-> x.base[k]]
          /\ x.locked = FALSE /\ x.failure = FALSE /\ x.broken = FALSE /\ x.closed = FALSE
          /\ x.rejected = FALSE /\ x.messages = 0 /\ x.batch = 0 /\ x.calls = 0 /\ x.accepted = 0
        BY <2>1, IdleFields
    <2> HIDE DEF x
    <2>3. x.own \subseteq Row /\ x.calls \in Nat
        BY <2>2
    <2>4. IsTx(x)
        BY <1>2, <2>1, <2>2, <2>3 DEF IsTx
    <2>5. QED BY <2>4 DEF x
<1>4. Control(Idle) /\ Idle.pc \notin Live
    BY IdleFields DEF Control, Live
<1>5. StateTypes
    BY <1>1, <1>2, <1>3 DEF StateTypes
<1>6. NotificationsMatchCommit /\ Writers = {}
    BY <1>1, IdleFields DEF NotificationsMatchCommit, Committed, Writers
<1>7. QED BY <1>1, <1>2, <1>4, <1>5, <1>6, FS_EmptySet DEF StoreInv

LEMMA StepStore == StoreInv /\ [Next]_vars => StoreInv'
<1> SUFFICES ASSUME StoreInv, [Next]_vars PROVE StoreInv'
    OBVIOUS
<1>1. CASE UNCHANGED vars
    BY <1>1 DEF vars, StoreInv, StateTypes, Holds, NotificationsMatchCommit, Committed, Writers
<1>2. CASE Next
    <2>1. PICK t \in Tx : \/ Begin(t) \/ BeginLocked(t) \/ Call(t)
                          \/ Finish(t) \/ Rollback(t) \/ Enqueue(t) \/ Commit(t)
        BY <1>2 DEF Next
    <2>2. CASE Begin(t) \/ BeginLocked(t)
        BY <2>2, BeginStep
    <2>3. CASE Finish(t) \/ Rollback(t) \/ Enqueue(t)
        BY <2>3, EndStep
    <2>4. CASE Commit(t)
        BY <2>4, CommitStep
    <2>5. CASE Refuse(t) \/ StatementFails(t)
        BY <2>5, RefuseStep
    <2>6. CASE Replace(t)
        BY <2>6, ReplaceStep
    <2>7. ASSUME NEW expected \in 0 .. MaxVersion, SaveCheckpoint(t, expected) PROVE StoreInv'
        BY <2>7, CheckpointStep DEF Version
    <2>8. ASSUME NEW expected \in 0 .. MaxVersion, SealResourceStateScope(t, expected) PROVE StoreInv'
        BY <2>8, SealStep DEF Version
    <2>9. ASSUME NEW expected \in 0 .. MaxVersion, NEW r \in Resource, SaveResourceState(t, r, expected)
          PROVE  StoreInv'
        BY <2>9, SaveStep DEF Version
    <2>10. ASSUME NEW r \in Resource, CloseEffectBinding(t, r) PROVE StoreInv'
        BY <2>10, CloseStep
    <2>11. ASSUME NEW r \in Resource, NEW d \in Digest, BindEffect(t, r, d) PROVE StoreInv'
        BY <2>11, BindStep
    <2>12. ASSUME NEW n \in 0 .. MaxBatch + 1, Notify(t, n) PROVE StoreInv'
        BY <2>12, NotifyStep
    <2>13. QED
        BY <2>1, <2>2, <2>3, <2>4, <2>5, <2>6, <2>7, <2>8, <2>9, <2>10, <2>11, <2>12 DEF Call
<1>3. QED BY <1>1, <1>2

\* What each transaction has written, laid over what is committed, may be committed:
\* the invariant behind the store's transactions holds for any number of them
\* (withTransaction, SaveResourceState, SealResourceStateScope, BindEffect).
THEOREM StoreInvariance == Spec => []StoreInv
BY InitStore, StepStore, PTL DEF Spec

\* A rejected call prevents the commit; the outbox holds the notifications of the
\* committed transactions and of no other; the revision of a scope counts its keys;
\* locked transactions build on each other (withTransaction, Notify, the trigger of
\* SaveResourceState, WithLockedResource).
THEOREM StoreIsConsistent == Spec => []StoreAgrees
<1>1. StoreInv => StoreAgrees
    <2> SUFFICES ASSUME StoreInv PROVE StoreAgrees
        OBVIOUS
    <2>1. /\ IsRows(db.rows) /\ db.outbox \in [Tx -> 0 .. MaxBatch] /\ lock \in [Row -> Tx \cup {Free}]
          /\ \A t \in Tx : tx[t].pc \in Label
        BY DEF StoreInv, StateTypes, IsTx
    <2>2. TypeOK
        BY <2>1, RowParts DEF TypeOK, IsRows, Version, ScopeValue, Binding, Label
    <2>3. RejectedCallPreventsCommit
        BY DEF StoreInv, Control, RejectedCallPreventsCommit, Committed
    <2>4. RevisionCountsKeys
        BY DEF StoreInv, Counts, Keys, RevisionCountsKeys
    <2>5. EntityCountsWriters
        BY DEF StoreInv, EntityCountsWriters, Writers
    <2>6. QED BY <2>2, <2>3, <2>4, <2>5 DEF StoreAgrees, StoreInv
<1>2. QED BY <1>1, StoreInvariance, PTL

\* Only a commit changes what is committed.
LEMMA OnlyCommit ==
    ASSUME [Next]_vars
    PROVE  db' = db \/ \E t \in Tx : Commit(t)
<1>1. CASE UNCHANGED vars
    BY <1>1 DEF vars
<1>2. CASE Next
    <2>1. PICK t \in Tx : \/ Begin(t) \/ BeginLocked(t) \/ Call(t)
                          \/ Finish(t) \/ Rollback(t) \/ Enqueue(t) \/ Commit(t)
        BY <1>2 DEF Next
    <2>2. CASE Call(t)
        <3>1. (Refuse(t) \/ Replace(t) \/ StatementFails(t)) => db' = db
            BY DEF Refuse, Replace, StatementFails
        <3>2. \A e, r : (\/ SaveCheckpoint(t, e) \/ SealResourceStateScope(t, e)
                        \/ SaveResourceState(t, r, e)) => db' = db
            BY DEF SaveCheckpoint, SealResourceStateScope, SaveResourceState
        <3>3. \A r, d, n : (CloseEffectBinding(t, r) \/ BindEffect(t, r, d) \/ Notify(t, n)) => db' = db
            BY DEF CloseEffectBinding, BindEffect, Notify
        <3>4. QED BY <2>2, <3>1, <3>2, <3>3, Zenon DEF Call
    <2>3. CASE Begin(t) \/ BeginLocked(t) \/ Finish(t) \/ Rollback(t) \/ Enqueue(t)
        BY <2>3 DEF Begin, BeginLocked, Finish, Rollback, Enqueue
    <2>4. QED BY <2>1, <2>2, <2>3
<1>3. QED BY <1>1, <1>2

LEMMA Committing ==
    ASSUME StoreInv, NEW t \in Tx, Commit(t)
    PROVE  Builds(db.rows, tx[t]) /\ db'.rows = Overlay(db.rows, tx[t])
BY AtTx DEF Commit, Live, Overlay

\* A sealed scope is fixed, no save is lost under another one, and a bound effect
\* keeps its digest, whichever transactions began before (SealResourceStateScope,
\* SaveResourceState, SaveCheckpoint, BindEffect, CloseEffectBinding).
THEOREM StoreNeverLoses == Spec => StoreKeeps
<1> DEFINE Sealed == db.rows[Scope].sealed =>
                        /\ db'.rows[Scope] = db.rows[Scope]
                        /\ \A r \in Resource : db.rows[State(r)] = 0 => db'.rows[State(r)] = 0
           Saved == \A t \in Tx : tx[t].pc = "enqueued" /\ tx'[t].pc = "committed" =>
                        \A k \in {State(r) : r \in Resource} \cup {Checkpoint} :
                            tx[t].base[k] # -1 => tx[t].base[k] = db.rows[k]
           Bound == \A r \in Resource : Keeps(db.rows[Effect(r)], db'.rows[Effect(r)])
<1>1. StoreInv /\ [Next]_vars => Sealed
    <2> SUFFICES ASSUME StoreInv, [Next]_vars PROVE Sealed
        OBVIOUS
    <2>1. CASE db' = db
        BY <2>1
    <2>2. ASSUME NEW t \in Tx, Commit(t), db.rows[Scope].sealed
          PROVE  /\ db'.rows[Scope] = db.rows[Scope]
                 /\ \A r \in Resource : db.rows[State(r)] = 0 => db'.rows[State(r)] = 0
        <3>1. Builds(db.rows, tx[t]) /\ db'.rows = Overlay(db.rows, tx[t])
            BY <2>2, Committing
        <3>2. /\ Scope \notin tx[t].own
              /\ \A r \in Resource : db.rows[State(r)] = 0 => State(r) \notin tx[t].own
            BY <2>2, <3>1 DEF Builds
        <3>3. QED BY <3>1, <3>2, RowParts DEF Overlay
    <2>3. QED BY <2>1, <2>2, OnlyCommit
<1>2. StoreInv => Saved
    <2> SUFFICES ASSUME StoreInv, NEW t \in Tx, tx[t].pc = "enqueued",
                        NEW k \in {State(r) : r \in Resource} \cup {Checkpoint}, tx[t].base[k] # -1
                 PROVE  tx[t].base[k] = db.rows[k]
        OBVIOUS
    <2>1. Builds(db.rows, tx[t]) /\ k \in Versioned
        BY AtTx DEF Live, Versioned
    <2>2. QED BY <2>1 DEF Builds
<1>3. StoreInv /\ [Next]_vars => Bound
    <2> SUFFICES ASSUME StoreInv, [Next]_vars, NEW r \in Resource
                 PROVE  Keeps(db.rows[Effect(r)], db'.rows[Effect(r)])
        OBVIOUS
    <2>1. CASE db' = db
        BY <2>1 DEF Keeps
    <2>2. ASSUME NEW t \in Tx, Commit(t)
          PROVE  Keeps(db.rows[Effect(r)], db'.rows[Effect(r)])
        <3>1. Builds(db.rows, tx[t]) /\ db'.rows = Overlay(db.rows, tx[t]) /\ Effect(r) \in Row
            BY <2>2, Committing, RowParts
        <3>2. CASE Effect(r) \in tx[t].own
            BY <3>1, <3>2 DEF Builds, Overlay
        <3>3. CASE Effect(r) \notin tx[t].own
            BY <3>1, <3>3 DEF Keeps, Overlay
        <3>4. QED BY <3>2, <3>3
    <2>3. QED BY <2>1, <2>2, OnlyCommit
<1>4. Bound => \A r \in Resource :
          LET old == db.rows[Effect(r)]
              new == db'.rows[Effect(r)]
          IN  old.present => /\ new.present /\ new.digest = old.digest
                             /\ (old.closed => new.closed)
    BY DEF Keeps
<1>5. Spec => SealedScopeIsFixed
    BY <1>1, StoreInvariance, PTL DEF Spec, SealedScopeIsFixed
<1>6. Spec => NoLostSave
    BY <1>2, StoreInvariance, PTL DEF Spec, NoLostSave
<1>7. Spec => BindingIsFinal
    BY <1>3, <1>4, StoreInvariance, PTL DEF Spec, BindingIsFinal
<1>8. QED BY <1>5, <1>6, <1>7 DEF StoreKeeps

-----------------------------------------------------------------------------
(***************************************************************************)
(* The requests to the API: what EntityServiceProofs proves of the         *)
(* handlers, said of the service.                                          *)
(***************************************************************************)

\* Their inductive invariant, which a transaction of the store leaves alone.
THEOREM RequestInvariance == DataSpec => []EntityPart!EntityInv
<1>1. DataInit => EntityPart!EntityInv
    BY EntityAssumption, EntityPart!InitEntity DEF DataInit
<1>2. EntityPart!EntityInv /\ [DataNext]_dataVars => EntityPart!EntityInv'
    <2> SUFFICES ASSUME EntityPart!EntityInv, [DataNext]_dataVars PROVE EntityPart!EntityInv'
        OBVIOUS
    <2>1. [EntityPart!Next]_(EntityPart!vars)
        BY DEF DataNext, dataVars, entityVars, EntityPart!vars
    <2>2. QED BY <2>1, EntityAssumption, EntityPart!StepEntity
<1>3. QED BY <1>1, <1>2, PTL DEF DataSpec

\* The answers of the API: what a status code says of the rows and of the fills is
\* true, whatever the other requests did between the handler's reads and its writes
\* (the handlers of out/internal/api).
THEOREM AnswersTellTheTruth == DataSpec => []AnswersAreTrue
<1>1. EntityPart!EntityInv => AnswersAreTrue
    BY EntityAssumption, EntityPart!InvMeans DEF AnswersAreTrue
<1>2. QED BY <1>1, RequestInvariance, PTL

\* The writes of the API: no row moves to another organization or kind, and a deleted
\* row never changes again (Replace, Delete).
THEOREM RowsAreFaithful == DataSpec => RowsKeepFaith
<1> DEFINE Kept == \A i \in EntityPart!Used :
                      rows'[i].kind = rows[i].kind /\ rows'[i].org = rows[i].org
           Final == \A i \in EntityPart!Used : ~rows[i].live => rows'[i] = rows[i]
<1>1. EntityPart!EntityInv /\ [DataNext]_dataVars => Kept /\ Final
    <2> SUFFICES ASSUME EntityPart!EntityInv, [DataNext]_dataVars PROVE Kept /\ Final
        OBVIOUS
    <2>1. [EntityPart!Next]_(EntityPart!vars)
        BY DEF DataNext, dataVars, entityVars, EntityPart!vars
    <2>2. QED BY <2>1, EntityAssumption, EntityPart!RowsStep
<1>2. DataSpec => EntityPart!RowsKeepIdentity
    BY <1>1, RequestInvariance, PTL DEF DataSpec, EntityPart!RowsKeepIdentity
<1>3. DataSpec => EntityPart!DeletedIsFinal
    BY <1>1, RequestInvariance, PTL DEF DataSpec, EntityPart!DeletedIsFinal
<1>4. QED BY <1>2, <1>3 DEF RowsKeepFaith

\* A step of a handler leaves the store's transactions alone.
LEMMA StoreRuns == DataSpec => Spec
<1>1. DataInit => Init
    BY DEF DataInit
<1>2. [DataNext]_dataVars => [Next]_vars
    BY DEF DataNext, dataVars, vars
<1>3. QED BY <1>1, <1>2, PTL DEF DataSpec, Spec

\* What the store promises holds of the service as well.
THEOREM ServiceKeepsRecords == DataSpec => []StoreAgrees /\ StoreKeeps
BY StoreRuns, StoreIsConsistent, StoreNeverLoses, PTL
=============================================================================
