-------------------------- MODULE StoreTransaction --------------------------
(***************************************************************************)
(* The transactions of the generated store (examples/user-management/out/  *)
(* internal/storage: transaction.go, resource_state.go,                    *)
(* resource_state_scopes.go, checkpoints.go, effects.go).                  *)
(*                                                                         *)
(* Application code gets a store for the time of a callback. It saves      *)
(* versioned records, seals the set of their keys, binds and closes        *)
(* effects, and stages notifications; it may ignore the errors of all of   *)
(* these, and may keep the store after the callback has returned. What the *)
(* transaction wrote becomes visible with its commit, or never.            *)
(***************************************************************************)
EXTENDS Integers, Sequences, FiniteSets

CONSTANTS
    Tx,          \* transactions
    Resource,    \* resources with a record of their own
    Digest,      \* digests of effects
    Free, NoDigest,
    MaxVersion,  \* bound on versions
    MaxBatch,    \* MaxBatchSize
    MaxCalls     \* bound on the calls of one callback

ASSUME TransactionAssumption ==
    /\ {MaxVersion, MaxBatch, MaxCalls} \subseteq Nat \ {0}
    /\ Free \notin Tx /\ NoDigest \notin Digest

VARIABLES
    db,      \* what is committed
    lock,    \* row -> the transaction that holds its lock
    tx       \* transaction -> its state

vars == <<db, lock, tx>>

\* The rows: the record of each resource, the key set of the scope, the scan's
\* checkpoint, the binding of each effect, and the entity's own row.
Scope == <<"scope", Free>>
Checkpoint == <<"checkpoint", Free>>
Entity == <<"entity", Free>>
State(r) == <<"state", r>>
Effect(r) == <<"effect", r>>
Row == {Scope, Checkpoint, Entity} \cup {State(r) : r \in Resource}
                                   \cup {Effect(r) : r \in Resource}

Unbound == [present |-> FALSE, digest |-> NoDigest, closed |-> FALSE]

EmptyRow(k) ==
    CASE k = Scope -> [revision |-> 0, sealed |-> FALSE]
      [] k \in {State(r) : r \in Resource} \cup {Checkpoint, Entity} -> 0
      [] OTHER -> Unbound

Empty == [k \in Row |-> EmptyRow(k)]

Idle == [pc |-> "idle", locked |-> FALSE, snap |-> Empty, own |-> {}, view |-> Empty, seen |-> 0,
         failure |-> FALSE, broken |-> FALSE, closed |-> FALSE, messages |-> 0, batch |-> 0,
         calls |-> 0, rejected |-> FALSE, accepted |-> 0, base |-> [k \in Row |-> -1]]

Init ==
    /\ db = [rows |-> Empty, outbox |-> [t \in Tx |-> 0]]
    /\ lock = [k \in Row |-> Free]
    /\ tx = [t \in Tx |-> Idle]

-----------------------------------------------------------------------------
(***************************************************************************)
(* The database. A serializable transaction reads the snapshot of its      *)
(* start and may not write a row that has changed since; a read-committed  *)
(* one reads what is committed. Both see their own writes, and a write     *)
(* locks its row until the end.                                            *)
(***************************************************************************)

Open(t) == tx[t].pc = "open"

Read(t, k) ==
    IF k \in tx[t].own THEN tx[t].view[k]
    ELSE IF tx[t].locked THEN db.rows[k] ELSE tx[t].snap[k]

CanWrite(t, k) ==
    /\ lock[k] \in {Free, t}
    /\ tx[t].locked \/ k \in tx[t].own \/ db.rows[k] = tx[t].snap[k]

\* The rows of ks get the values of v in the transaction's own view.
Written(t, ks, v) ==
    [tx[t] EXCEPT !.own = @ \cup ks,
                  !.view = [k \in Row |-> IF k \in ks THEN v[k] ELSE @[k]],
                  !.calls = @ + 1]
Locks(t, ks) == lock' = [k \in Row |-> IF k \in ks THEN t ELSE lock[k]]
Release(t) == lock' = [k \in Row |-> IF lock[k] = t THEN Free ELSE lock[k]]

\* Who may call: the callback, or a goroutine that has kept the store.
Callable(t) == tx[t].pc \in {"open", "ending", "enqueued"} /\ tx[t].calls < MaxCalls
Refused(t) == tx[t].closed \/ tx[t].failure

\* A call that returns ErrTransactionClosed, or the first failure again.
Refuse(t) ==
    /\ Callable(t) /\ Refused(t)
    /\ tx' = [tx EXCEPT ![t].calls = @ + 1, ![t].rejected = @ \/ ~tx[t].closed]
    /\ UNCHANGED <<db, lock>>

\* Mutant: the error is only returned.
RejectOnly(t) == tx' = [tx EXCEPT ![t].calls = @ + 1, ![t].rejected = TRUE]

\* A call that fails: the failure stays with the transaction.
Reject(t) == tx' = [tx EXCEPT ![t].calls = @ + 1, ![t].rejected = TRUE, ![t].failure = TRUE]

-----------------------------------------------------------------------------
(***************************************************************************)
(* The transaction.                                                        *)
(***************************************************************************)

\* WithTransaction: a serializable transaction begins.
Begin(t) ==
    /\ tx[t].pc = "idle"
    /\ tx' = [tx EXCEPT ![t] = [Idle EXCEPT !.pc = "open", !.snap = db.rows]]
    /\ UNCHANGED <<db, lock>>

\* WithLockedResource: a read-committed transaction locks one live row, and its
\* callback sees what an earlier writer left.
BeginLocked(t) ==
    /\ tx[t].pc = "idle" /\ lock[Entity] = Free
    /\ tx' = [tx EXCEPT ![t] = [Idle EXCEPT !.pc = "open", !.locked = TRUE, !.snap = db.rows,
                                            !.seen = db.rows[Entity]]]
    /\ Locks(t, {Entity}) /\ UNCHANGED db

\* The entity is changed according to what the callback saw. Create, Replace and
\* Delete go to the database whatever the transaction's state says: also after a
\* failure, and from a goroutine that has kept the store.
Replace(t) ==
    /\ Callable(t) /\ ~tx[t].broken /\ tx[t].locked /\ Entity \notin tx[t].own
    /\ CanWrite(t, Entity) /\ tx[t].seen < MaxVersion
    /\ tx' = [tx EXCEPT ![t] = Written(t, {Entity}, [k \in Row |-> tx[t].seen + 1])]
    /\ Locks(t, {Entity}) /\ UNCHANGED db

\* A statement fails: a serialization failure, a deadlock that the database has
\* broken, a timeout, a lost connection. The transaction cannot commit any more.
\* Only the calls that ask for the transaction's state keep the failure there; an
\* entity operation just returns it.
StatementFails(t) ==
    /\ Callable(t) /\ ~tx[t].broken
    /\ \E kept \in BOOLEAN :
          /\ kept => ~Refused(t)
          /\ tx' = [tx EXCEPT ![t].broken = TRUE, ![t].rejected = TRUE, ![t].failure = @ \/ kept]
    /\ UNCHANGED <<db, lock>>

\* The callback returns; the store is closed and its messages are taken.
Finish(t) ==
    /\ Open(t)
    /\ tx' = [tx EXCEPT ![t].pc = "ending", ![t].closed = TRUE,
                        ![t].batch = tx[t].messages, ![t].messages = 0]
    /\ UNCHANGED <<db, lock>>

\* ... with an error, a failure or an expired context: rollback.
Rollback(t) ==
    /\ tx[t].pc \in {"ending", "enqueued"}
    /\ tx' = [tx EXCEPT ![t].pc = "aborted"]
    /\ Release(t) /\ UNCHANGED db

\* ... or the staged messages are enqueued in the same transaction.
Enqueue(t) ==
    /\ tx[t].pc = "ending" /\ ~tx[t].failure
    /\ tx' = [tx EXCEPT ![t].pc = "enqueued"]
    /\ UNCHANGED <<db, lock>>

\* Commit.
Commit(t) ==
    /\ tx[t].pc = "enqueued" /\ ~tx[t].broken
    /\ db' = [rows |-> [k \in Row |-> IF k \in tx[t].own THEN tx[t].view[k] ELSE db.rows[k]],
              outbox |-> [db.outbox EXCEPT ![t] = tx[t].batch]]
    /\ tx' = [tx EXCEPT ![t].pc = "committed"]
    /\ Release(t)

-----------------------------------------------------------------------------
(***************************************************************************)
(* Records with a version.                                                 *)
(***************************************************************************)

Accepted(t, k, expected) ==
    [tx[t].base EXCEPT ![k] = IF @ = -1 THEN expected ELSE @]

\* Mutant: the update does not compare the version.
VersionAny(expected, current) == TRUE

\* ON CONFLICT DO NOTHING, or WHERE version = expected.
VersionMatches(expected, current) == expected = current

\* SaveCheckpoint.
SaveCheckpoint(t, expected) ==
    LET k == Checkpoint IN
    /\ Callable(t) /\ ~Refused(t)
    /\ \/ ~VersionMatches(expected, Read(t, k)) /\ Reject(t) /\ UNCHANGED lock
       \/ /\ VersionMatches(expected, Read(t, k)) /\ CanWrite(t, k) /\ expected < MaxVersion
          /\ tx' = [tx EXCEPT ![t] = [Written(t, {k}, [j \in Row |-> Read(t, k) + 1])
                                      EXCEPT !.base = Accepted(t, k, expected)]]
          /\ Locks(t, {k})
    /\ UNCHANGED db

\* SaveResourceState. The trigger of an insert locks the scope, refuses a new key
\* of a sealed scope, and counts it.
SaveResourceState(t, r, expected) ==
    LET k == State(r)
        scope == Read(t, Scope)
        new == expected = 0 /\ Read(t, k) = 0
        rows == {k} \cup IF new THEN {Scope} ELSE {}
    IN
    /\ Callable(t) /\ ~Refused(t)
    /\ \/ ~VersionMatches(expected, Read(t, k)) /\ Reject(t) /\ UNCHANGED lock
       \/ new /\ scope.sealed /\ lock[Scope] \in {Free, t} /\ Reject(t) /\ UNCHANGED lock
       \/ /\ VersionMatches(expected, Read(t, k)) /\ ~(new /\ scope.sealed)
          /\ \A j \in rows : CanWrite(t, j)
          /\ expected < MaxVersion
          /\ tx' = [tx EXCEPT ![t] =
                [Written(t, rows, [j \in Row |-> IF j = k THEN Read(t, k) + 1
                                     ELSE [scope EXCEPT !.revision = @ + 1]])
                 EXCEPT !.base = Accepted(t, k, expected)]]
          /\ Locks(t, rows)
    /\ UNCHANGED db

\* SealResourceStateScope: at the revision that the caller has read, once.
SealResourceStateScope(t, expected) ==
    LET scope == Read(t, Scope) IN
    /\ Callable(t) /\ ~Refused(t) /\ CanWrite(t, Scope)
    /\ \/ scope.revision # expected /\ Reject(t) /\ UNCHANGED lock
       \/ /\ scope.revision = expected /\ scope.sealed
          /\ tx' = [tx EXCEPT ![t].calls = @ + 1] /\ Locks(t, {Scope})
       \/ /\ scope.revision = expected /\ ~scope.sealed
          /\ tx' = [tx EXCEPT ![t] = Written(t, {Scope},
                       [j \in Row |-> [revision |-> expected + 1, sealed |-> TRUE]])]
          /\ Locks(t, {Scope})
    /\ UNCHANGED db

-----------------------------------------------------------------------------
(***************************************************************************)
(* Effects, and notifications.                                             *)
(***************************************************************************)

\* BindEffect: insert when there is none; then it must be open, with this digest.
BindEffect(t, r, digest) ==
    LET k == Effect(r)
        binding == Read(t, k)
    IN
    /\ Callable(t) /\ ~Refused(t)
    /\ \/ /\ ~binding.present /\ CanWrite(t, k)
          /\ tx' = [tx EXCEPT ![t] = Written(t, {k},
                       [j \in Row |-> [present |-> TRUE, digest |-> digest, closed |-> FALSE]])]
          /\ Locks(t, {k})
       \/ /\ binding.present /\ (binding.closed \/ binding.digest # digest)
          /\ Reject(t) /\ UNCHANGED lock
       \/ /\ binding.present /\ ~binding.closed /\ binding.digest = digest
          /\ tx' = [tx EXCEPT ![t].calls = @ + 1] /\ UNCHANGED lock
    /\ UNCHANGED db

\* CloseEffectBinding: for good, and also where nothing was bound.
CloseEffectBinding(t, r) ==
    LET k == Effect(r) IN
    /\ Callable(t) /\ ~Refused(t) /\ CanWrite(t, k)
    /\ tx' = [tx EXCEPT ![t] = Written(t, {k},
                 [j \in Row |-> [Read(t, k) EXCEPT !.present = TRUE, !.closed = TRUE]])]
    /\ Locks(t, {k}) /\ UNCHANGED db

\* Notify: n valid messages are staged, or the transaction fails.
Notify(t, n) ==
    /\ Callable(t) /\ ~Refused(t)
    /\ IF n = 0 \/ n > MaxBatch - tx[t].messages THEN Reject(t)
       ELSE tx' = [tx EXCEPT ![t].calls = @ + 1, ![t].messages = @ + n, ![t].accepted = @ + n]
    /\ UNCHANGED <<db, lock>>

Call(t) ==
    \/ Refuse(t) \/ Replace(t) \/ StatementFails(t)
    \/ \E expected \in 0 .. MaxVersion :
          \/ SaveCheckpoint(t, expected)
          \/ SealResourceStateScope(t, expected)
          \/ \E r \in Resource : SaveResourceState(t, r, expected)
    \/ \E r \in Resource : CloseEffectBinding(t, r) \/ \E d \in Digest : BindEffect(t, r, d)
    \/ \E n \in 0 .. MaxBatch + 1 : Notify(t, n)

Next ==
    \E t \in Tx : \/ Begin(t) \/ BeginLocked(t) \/ Call(t)
                  \/ Finish(t) \/ Rollback(t) \/ Enqueue(t) \/ Commit(t)

Spec == Init /\ [][Next]_vars

-----------------------------------------------------------------------------
(***************************************************************************)
(* Properties.                                                             *)
(***************************************************************************)

TypeOK ==
    /\ \A r \in Resource : db.rows[State(r)] \in 0 .. MaxVersion
    /\ db.rows[Entity] \in 0 .. MaxVersion /\ db.rows[Checkpoint] \in 0 .. MaxVersion
    /\ db.rows[Scope] \in [revision : Nat, sealed : BOOLEAN]
    /\ \A r \in Resource : db.rows[Effect(r)] \in
          [present : BOOLEAN, digest : Digest \cup {NoDigest}, closed : BOOLEAN]
    /\ db.outbox \in [Tx -> 0 .. MaxBatch] /\ lock \in [Row -> Tx \cup {Free}]
    /\ \A t \in Tx : tx[t].pc \in {"idle", "open", "ending", "enqueued", "committed", "aborted"}

Committed(t) == tx[t].pc = "committed"

\* A transaction in which a call was rejected does not commit, even when the
\* callback ignores the error (SaveCheckpoint, SealResourceStateScope, Notify).
RejectedCallPreventsCommit == \A t \in Tx : Committed(t) => ~tx[t].rejected

\* The notifications of a transaction are queued if and only if it commits, and all
\* of those that Notify has accepted are (withTransaction, Notify).
NotificationsMatchCommit ==
    \A t \in Tx : db.outbox[t] = IF Committed(t) THEN tx[t].accepted ELSE 0

\* The revision of a scope counts its keys, and its sealing, whichever transactions
\* inserted them.
RevisionCountsKeys ==
    LET scope == db.rows[Scope] IN
    scope.revision = Cardinality({r \in Resource : db.rows[State(r)] > 0})
                     + (IF scope.sealed THEN 1 ELSE 0)

\* A sealed scope stays sealed and gets no new key, also from a transaction that
\* began before it was sealed.
SealedScopeIsFixed ==
    [][db.rows[Scope].sealed =>
          /\ db'.rows[Scope] = db.rows[Scope]
          /\ \A r \in Resource : db.rows[State(r)] = 0 => db'.rows[State(r)] = 0]_vars

\* A commit only replaces the version that its caller expected: no save is lost
\* under another one.
NoLostSave ==
    [][\A t \in Tx : tx[t].pc = "enqueued" /\ tx'[t].pc = "committed" =>
          \A k \in {State(r) : r \in Resource} \cup {Checkpoint} :
              tx[t].base[k] # -1 => tx[t].base[k] = db.rows[k]]_vars

\* The digest of an effect never changes once it is bound, and a closed binding
\* stays closed.
BindingIsFinal ==
    [][\A r \in Resource :
          LET old == db.rows[Effect(r)]
              new == db'.rows[Effect(r)]
          IN  old.present => /\ new.present /\ new.digest = old.digest
                             /\ (old.closed => new.closed)]_vars

\* Each locked transaction builds on the row that the one before it left.
EntityCountsWriters ==
    db.rows[Entity] = Cardinality({t \in Tx : Committed(t) /\ Entity \in tx[t].own})

\* The transactions of the store: a rejected call prevents the commit, the outbox
\* holds the notifications of the committed transactions and of no other, the
\* revision of a scope counts its keys, and each locked transaction builds on the
\* row of the one before it (withTransaction, Notify, WithLockedResource).
StoreAgrees ==
    /\ TypeOK /\ RejectedCallPreventsCommit /\ NotificationsMatchCommit
    /\ RevisionCountsKeys /\ EntityCountsWriters

\* Its steps: a sealed scope is fixed, no save is lost under another one, and a
\* bound effect keeps its digest (SealResourceStateScope, SaveResourceState,
\* SaveCheckpoint, BindEffect).
StoreKeeps == SealedScopeIsFixed /\ NoLostSave /\ BindingIsFinal

-----------------------------------------------------------------------------
(***************************************************************************)
(* The inductive invariant behind them: what each transaction has written, *)
(* laid over what is committed, is a state that may be committed.          *)
(***************************************************************************)

Version == 0 .. MaxVersion
Versioned == {State(r) : r \in Resource} \cup {Checkpoint}
ScopeValue == [revision : Nat, sealed : BOOLEAN]
Binding == [present : BOOLEAN, digest : Digest \cup {NoDigest}, closed : BOOLEAN]
Label == {"idle", "open", "ending", "enqueued", "committed", "aborted"}
Live == {"open", "ending", "enqueued"}

\* Values for every row.
IsRows(f) ==
    /\ f = [k \in Row |-> f[k]]
    /\ \A k \in Versioned \cup {Entity} : f[k] \in Version
    /\ f[Scope] \in ScopeValue
    /\ \A r \in Resource : f[Effect(r)] \in Binding

Field == {"pc", "locked", "snap", "own", "view", "seen", "failure", "broken", "closed",
          "messages", "batch", "calls", "rejected", "accepted", "base"}

IsTx(x) ==
    /\ DOMAIN x = Field
    /\ x.pc \in Label /\ x.locked \in BOOLEAN
    /\ IsRows(x.snap) /\ IsRows(x.view) /\ x.own \subseteq Row /\ x.seen \in Version
    /\ x.failure \in BOOLEAN /\ x.broken \in BOOLEAN /\ x.closed \in BOOLEAN
    /\ x.rejected \in BOOLEAN /\ x.calls \in Nat
    /\ x.messages \in 0 .. MaxBatch /\ x.batch \in 0 .. MaxBatch /\ x.accepted \in 0 .. MaxBatch
    /\ x.base = [k \in Row |-> x.base[k]]

StateTypes ==
    /\ db = [rows |-> db.rows, outbox |-> db.outbox]
    /\ IsRows(db.rows) /\ db.outbox \in [Tx -> 0 .. MaxBatch] /\ lock \in [Row -> Tx \cup {Free}]
    /\ tx = [t \in Tx |-> tx[t]] /\ \A t \in Tx : IsTx(tx[t])

\* A failure is known to the transaction or to the database, and the messages that
\* Notify accepted are the batch.
Control(x) ==
    /\ x.pc = "open" => ~x.closed /\ x.messages = x.accepted
    /\ x.pc \in {"ending", "enqueued"} => x.closed
    /\ x.pc \in {"ending", "enqueued", "committed"} => x.batch = x.accepted
    /\ x.rejected => x.failure \/ x.broken
    /\ x.pc \in {"enqueued", "committed"} => ~x.failure
    /\ x.pc = "committed" => ~x.broken
    /\ Entity \in x.own => x.locked

\* The keys of a scope, and its revision.
Keys(rows) == {r \in Resource : rows[State(r)] > 0}
Counts(rows) ==
    /\ IsFiniteSet(Keys(rows))
    /\ rows[Scope].revision = Cardinality(Keys(rows)) + (IF rows[Scope].sealed THEN 1 ELSE 0)

\* What the rows would be if transaction x committed now.
Overlay(rows, x) == [k \in Row |-> IF k \in x.own THEN x.view[k] ELSE rows[k]]

\* A binding after another one.
Keeps(old, new) ==
    old.present => /\ new.present /\ new.digest = old.digest
                   /\ (old.closed => new.closed)

\* The rows that transaction t has written are locked, so what it found in them is
\* still there.
Holds(t, x) ==
    /\ \A k \in x.own : lock[k] = t
    /\ x.locked => lock[Entity] = t /\ x.seen = db.rows[Entity]

\* What it has written follows from what is committed.
Builds(rows, x) ==
    /\ \A k \in Versioned : (k \in x.own <=> x.base[k] # -1) /\ (k \in x.own => x.base[k] = rows[k])
    /\ Entity \in x.own => x.view[Entity] = rows[Entity] + 1
    /\ Scope \in x.own => ~rows[Scope].sealed
    /\ \A r \in Resource :
          /\ State(r) \in x.own => x.view[State(r)] > 0 /\ (Scope \in x.own \/ rows[State(r)] > 0)
          /\ Effect(r) \in x.own => x.view[Effect(r)].present /\ Keeps(rows[Effect(r)], x.view[Effect(r)])
    /\ Counts(Overlay(rows, x))

Writers == {t \in Tx : Committed(t) /\ Entity \in tx[t].own}

StoreInv ==
    /\ StateTypes
    /\ \A t \in Tx : Control(tx[t])
    /\ \A t \in Tx : tx[t].pc \in Live => Holds(t, tx[t]) /\ Builds(db.rows, tx[t])
    /\ NotificationsMatchCommit
    /\ Counts(db.rows)
    /\ IsFiniteSet(Writers) /\ db.rows[Entity] = Cardinality(Writers)
=============================================================================
