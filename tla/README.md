# TLA+ models of STEGO

STEGO is a compiler: it reads a service declaration, plans the Go code of the
service, writes it into the project folder and records what it wrote. The code
it generates contains runtimes of its own: an outbox, a controller runtime, a
PostgreSQL store, clients and servers. Around the compiler are tools that record
which component digests may be used and that gate changes and releases. This
folder models the parts whose correctness depends on interleavings, failures and
time, checks them with TLC, and proves with TLAPS, for every value of the
constants, most of the safety properties that TLC checks.

## The system's parts

| Part | State | Operations | What is hard | Module |
| --- | --- | --- | --- | --- |
| Apply transaction (`internal/compiler`: `reconciler.go`, `transaction.go`, `snapshot.go`, `saved_plan.go`, `lock.go`, `filesystem.go`, `module.go`, `state.go`) | the generated files, `go.mod`, the record, the journal, the saved plan, the lock under `.stego` | plan, apply, apply `--saved-plan`, deps, recover | several processes and an author on one folder; kills; power failures; recovery that is itself interrupted | `ApplyTransaction` |
| Command line (`cmd/stego`) | none of its own | the commands above, lifecycle commands, read-only ones | which checks precede the lock | with the parts it calls |
| Outbox queue and worker (`internal/generator/outbox`, rendered in `examples/user-management/out/internal/outbox`) | the table of messages, advisory locks | Enqueue, Claim, Acknowledge, Retry, Purge, the worker's loop | leases that run out, lost results, order per key | `Outbox` |
| Outbox event source (`source.go`) | subscriptions with bounded buffers | Subscribe, Next, dispatch, Run, Close | slow consumers, a lost session | `EventStream` |
| Controller runtime (`internal/generator/controller`) | a bounded keyed queue, scan schedules, checkpoints | add, addWait, take, finishResult, restart; scan cycles | keys added while they run, a full queue, sessions that restart; passes that overlap, time out and are resumed | `KeyQueue`, `ScanCycle` |
| PostgreSQL store (`internal/storage` of the example) | rows with versions, sealed key scopes, effect bindings, staged notifications | WithTransaction, WithLockedResource, SaveCheckpoint, SaveResourceState, SealResourceStateScope, BindEffect, Notify | callbacks that ignore errors, concurrent transactions on one row | `StoreTransaction` |
| REST handlers, slots and entity operations (`internal/api`, `slots`, `store.go` of the example) | rows | create, read, list, update, patch, delete, upsert with their gates and fan-outs | rows that change between a handler's statements | `EntityService` |
| Token keys (`internal/auth`) | a cached key set and its age | Verify, refresh, Stop | requests that refresh at the same time, keys that rotate | `KeySource` |
| Kafka publisher (`internal/events`) | one client session, permits | Publish, Close | deadlines that race answers, a session shared by calls | `Publisher` |
| Kubernetes watches (`kubernetesclient/watch_set.go.tmpl`, `observe.go.tmpl`) | the active watches, their versions and sizes | Replace, Run, Observe | late events of a replaced watch, expired history, one limit for all watches | `WatchSet` |
| The service's process (`out/main.go`, `out/health`) | open resources, tasks, requests | start, run tasks, drain, close, exit | a task that fails while others run, a handler that never returns | `ServiceProcess` |
| Digest lifecycle (`internal/lifecycle`, `cmd/stego/lifecycle.go`) | advisory files of a registry | Supersede, Withdraw, standing of pins | two commands that record at once, a killed command's litter | `DigestLifecycle` |
| Assure (`internal/assure`, `cmd/assure`) | the log of attestations, decisions, predicates | record, gate change, gate release, ledger | main and the log move between steps, job steps that fail | `AssureGates` |
| Compilation, generators, drift, parser, registry, application build, fleet, SDKs, browser | none, or files and external tools | functions from inputs to files | - | not modelled |

The compiler's parts are called by the command line one after the other within a
process; processes meet only through the project folder, the registry folder and
git. The parts of a generated service meet in the database: a store transaction
ends with `Enqueue`, workers of all processes claim from the table, and the Kafka
publisher is one of the worker's handlers. `ServiceProcess` has the worker, the
health monitor and the HTTP server as its tasks. The controller's queue is fed by
watches such as `WatchSet` and by scans, and a scan cycle keeps its checkpoint in
the store.

## Modules

| Module | What it is |
| --- | --- |
| `ProjectFiles` | the files of a project, records, plans and journals as values, and the functions on them |
| `ApplyTransaction` | the commands on one project folder, with failures and edits |
| `AtomicApply` | what apply promises: the record and the whole output change in one step |
| `Outbox` | the outbox table, the transactions that write to it, the workers and Purge |
| `EventStream` | the event source and its subscribers |
| `KeyQueue` | the keyed queue, its workers, emitters, scan loop and sessions |
| `DirtyKeys` | what the queue promises: a set of dirty keys, each with at most one action |
| `ScanCycle` | checkpointed scan cycles, serial and parallel, of several processes |
| `StoreTransaction` | concurrent transactions of the store |
| `EntityService` | concurrent requests to the REST handlers |
| `KeySource`, `Publisher`, `ServiceProcess`, `WatchSet` | one runtime component each |
| `DigestLifecycle`, `AssureGates` | the tools beside the compiler |
| `ServiceData` | the transactions of the store and the requests to the API, side by side |
| `Service` | the key queue, the key source, the event source, the publisher and the process, side by side |
| `Background` | two outboxes, three uses of a scan cycle and a watch set, side by side |
| `Tools` | the digest lifecycle and the gates, side by side |
| `ApplyTransactionProofs` | theorems about `ApplyTransaction`: the journal, the lock and the record; then plans, edits, modules and the refinement of `AtomicApply` |
| `OutboxProofs`, `ScanCycleProofs`, `BackgroundProofs` | theorems about `Outbox`; about `ScanCycle`; about `WatchSet` and `Background`, from the other two |
| `ServiceProofs` | theorems about the parts of `Service`, `KeyQueue` among them |
| `EntityServiceProofs`, `StoreTransactionProofs` | lemmas about `EntityService`; theorems about `StoreTransaction` and `ServiceData` |
| `ToolsProofs` | theorems about `Tools` |
| `MCApplyTransaction`, `MCOutbox`, `MCKeyQueue`, `MCEntityService`, `MCDigestLifecycle` | instances of one module for TLC |
| `MCBackground`, `MCService`, `MCTools`, `MCServiceData`, `MCLive` | instances of several modules behind one run |

`ServiceData`, `Service`, `Background`, `Tools` and `MCLive` put parts that share
nothing behind one run: a variable, `part` or `scenario`, chooses at the start which
of them a behaviour runs, and the others stay as they start.

Definitions that start with the comment "Mutant:" are wrong versions of the
definition that follows them; each property has been seen to fail with one.

### ApplyTransaction and the code

`disk` is what every process sees, `durable` what a power failure leaves; the
journal and the saved plan have the same pair. `pc` and `job` are where each process is and what it
has read; `current` and `done` belong to `executeTransaction`, which runs under
the lock and so exists once. The remaining variables are history for the
properties, and `disturbed` bounds edits and failures.

A command runs through these actions: `Begin` (the pending check), `Load` and
`Capture` (declaration, registry and record), `ReadOutput` for one file at a
time, `Bind` (the snapshots), then `SavePlan` for plan; `ChoosePlan`,
`CheckPlan` and `CheckCurrent` for apply and deps; `Lock`, `VerifyLocked`,
`Resolve` (the module tools of deps), `WriteJournal`, `SyncJournal`,
`CheckExpected`, `WriteFile` and `SyncFile` for one operation at a time,
`VerifyFinal`, `RemoveJournal`, `SyncRemoval` and `RemoveSavedPlan`. Recover is
`BeginRecover`, `Lock`, `ReadJournal` and the same execution. Every early return
of the code is an alternative of the action that ends in `Return`.

Abstractions:

- The generators are a constant function `Generate` from sources to files, and
  `Required` gives the modules that a source needs. The registry, its
  configuration and `service.yaml` are one value, `source`. `go.sum` is part of
  `go.mod`, and a file's mode is part of its content. A change of the declaration
  stops an apply before the lock, one of the registry only under it
  (`reconciler.go:412`); `CheckPlan` allows both for any change of `source`.
- The checks of entity changes, path rules, sizes and encodings refuse inputs
  before anything is written, and are left out.
- The inputs of one phase are read at once; output files are read one by one, so
  edits fall between them. Operations are carried out in any order with the
  record last, which covers the order of the code.
- Files are replaced by rename, so a process sees the old or the new content and
  never a part. Temporary `.stego-write-*` files are left out. `PowerFail` keeps
  any subset of the changes that no `fsync` of their folder has made durable,
  which is more than a file system may do. The journal, the record and the saved plan
  share a folder, which the syncs of a journal and of the record make durable;
  nothing syncs it after the saved plan is written or removed. What the author writes
  is durable.
- `Kill` also stands for a system call that fails: the process stops there, and
  the lock is released.

### Outbox and the code

A message has its row (`status`, `seq`, `attempts`, `token`, `lease`, `due`), an
application transaction its state and the advisory locks it holds, and a worker
goroutine the label of the call it is in, the message and what is left of the
call's timeout. `LockKey`, `Insert`, `Commit` and `Rollback` are `Enqueue` and
the end of the store's transaction. `Claim` is `Queue.Claim` as `runOne` calls it
with a limit of one; `Deliver`, `Refuse`, `HandlerReturns`, `Acknowledge`,
`Retry` are `deliver` and the two statements it ends with; `PurgeSelect` and
`PurgeDelete` are the two halves of Purge's statement.

- Time is what is left until `lease_until` and `available_at` and until the
  deadline of a call, on one clock. `Tick` takes one unit from all of them. A
  call ends within its timeout unless the instance has the fault `stall`.
- `Claim` is one step. Its row is tested again when it is locked, and the part of
  the test that looks at other rows stays true, which is `EarlierStep` in the
  proofs. `SKIP LOCKED` can pass over rows, so any ready row may be taken.
- `ClaimLost` is a claim that commits while the worker gets an error.
  An acknowledgement that takes effect while the worker gets an error leaves the
  same state as one that succeeds; `FinishFails` is one without effect.
- Refusals of the fence before a claim change nothing. A worker that stops and a
  message without a handler are `Refuse`.
- `attempts` is counted up to `MaxAttempts`, from which on neither the delay nor
  the dead-letter test changes.
- A message belongs to one batch, as its ID is the primary key. The size and form
  of messages, the notification of the event source and the counters are left
  out. `Check`, `Blocked` and `DeadLetters` only read.
- The jitter is any delay between half and all of the doubled minimum.

### EventStream

Events are numbers in commit order. `Dispatch` is the session's loop: it appends
to every open queue, and a subscription whose queue is full is removed with a
reason that its next `Next` returns before anything that is left in the queue.
A consumer lists after it has subscribed; `GapIsNoticed` compares what it was
given with what was committed since. PostgreSQL's notification queue is kept in
order and without loss while the session lives, as LISTEN promises.

### KeyQueue and DirtyKeys

`place`, `dirty`, `delay`, `wait` and `ahead` are the entry of a key and its place
in the heap, ordered by due time and then by push. `asleep` is the set of
goroutines that wait on the current `changed` channel; `Notify` closes it. A
receiver or the scanner is an emitter that waits for the one admission slot and
then for room. `Restart` queues every interrupted key again. `owed` and `cool` are
history. Time is what is left until a due time or an alarm.

### ScanCycle

A pass is one call of `ScanCycle` or `ScanCycleParallel` by a process: `Load`,
`ReadPage`, `StartAction` and `FinishAction` for each item, `EndPage`, and the
conditional `Save`. `budget` is what the clock says of the work's deadline: time
for one more action, too little for one, or none; it runs down at any point. The
retries of one action are one `StartAction` and one `FinishAction`, since the
worker keeps the item's key between attempts; the delay between them is time in
which the budget can end. In a parallel page the return of an action and the
receipt of its result are one step: a result that was received later than an
abort is, if the action ended before it, the same as one received earlier. `did`
and `bad` are history: the items acted on, and those with an error. Items are
numbered in cursor order and do not change within a source version.

### WatchSet

`history[p]` is every state that a collection has had and `floor[p]` the oldest
version that the server can still stream. A watch is a goroutine in `Observe`:
take the list slot, RESET, list, REPLACE, then events; an error starts it again
from its version, an expired version from a list. RESET, REPLACE and events are
handed over to the loop of `Run` and answered (`Deliver`); the consumer may fail at
each. The end of `Run` tells the consumer nothing; each `Run` is called with one that
has been told nothing yet (`BeginRun`). `Replace` removes watches in any order where the code sorts them. Bookmarks,
which move a version without an event, and the byte limit, which is enforced
together with the object limit, are left out. In no state does the loop meet an
event or a result of a watch that is not active any more (`watch_set.go.tmpl:166`
and `:172`): a removed watch has ended before the loop goes on.

### StoreTransaction

A transaction has a snapshot (`snap`), its own writes (`view`, `own`) and the row
locks it holds. Statements are steps; a lock waits, and a version is compared with
what is committed then, as READ COMMITTED does. A call of the records, effects or
notifications that fails marks the transaction (`failure`), whatever the callback does
with the error, and a store that is kept after the callback has returned refuses them.
The entity operations (`Replace` stands for them) ask for neither: they go to the
database after a failure and from a kept store, and what keeps their failed statement
from being committed in part is that the database then refuses the commit (`broken`). Message payloads and the
parts of keys are values without structure.

### EntityService

Every handler is the sequence of its statements and slot calls, in the order of
the source; between them other requests run. The fills behind a slot return any
verdict, and a status code of their own or none. Every optimistic upsert ends with 500,
as the database refuses its statement (finding 3), so what the handler does after it
is not reached. Deleted rows stay with `live` false. What a handler rejects in a path, a query or
a body is one flag of the request (`sound`). Names stand for the values of unique
columns, ids grow with creation as the lists are ordered by it. Field validation
and the encoding of answers are left out: a request that they refuse changes
nothing.

### KeySource, Publisher, ServiceProcess

`KeySource` keeps ages instead of times; the source of the keys rotates at any
moment, a read takes up to its timeout, and a token is a key id with the key that
signed it. In `Publisher` a client session owns the records that it was given until
it reports a result, can write them while it is open, and fails them when it is
closed; deadlines pass at any time. `ServiceProcess` has the stages of `run` in
order, the deferred closes in reverse order, the tasks of `stegoRunTasks`, and the
drain of HTTP requests with hijacked connections and its deadline.

### DigestLifecycle

A command reads the folder, decides, reads the folder again for a number, writes a
temporary file and links it to the numbered name; commands interleave and can be
killed in between. The command takes no supersession at this commit: the registry
states neither a stage nor a release date, so the window rule refuses each
(`lifecycle.go:179`). The rules are modelled as the package has them, with both facts
as constants, and the instances leave them `Unknown`; the supersessions that
`standing.go` judges are in the folder from the start (`Earlier`), as the repository's
own tests write them (`standing_test.go:79`). `standing.go` judges pins on what it can read: a folder with
litter or contradictory advisories counts as unchecked.

### AssureGates

What git and the tools say of a commit is constant: the shares of each obligation,
the retirements, the test records, the faults. The log grows by proof runs of the
trusted workflow and by other signatures. A change is gated on a base that main
may leave behind; the release job is a sequence of steps that can each fail, and
its outputs are compared with its exit code.

## Runs

| Run | Instance | Shows |
| --- | --- | --- |
| `apply_kill` | two processes, kills, edits of the declaration | the invariant, `WritesFollowJournal`, `JournalCompletes`, `JournalIsCurrent`, and that apply implements `AtomicApply` |
| `apply_power` | every command, one process at a time; power failures; edits of every file | `RecordMatchesOutput`, `RequirementsMet`, `SecondApplyChangesNothing`, that each command changes only its own files and no hand edit (`CommandsKeepToTheirFiles`), and that apply is atomic on the durable files (`ImplementsDurableApply`) |
| `apply_kill_then_power` | both kinds of failure | violates `RecordMatchesOutput` |
| `background` | the outbox with crashes, lost results and refusals; with stalls and Purge; a parallel scan cycle; two overlapping scan cycles; a cycle whose inputs change; a watch set | the outbox properties of the proofs, `StallsAreSafe`; `CyclesHold`, `CyclesGoForward`; `WatchesHold` |
| `outbox_purge_scheduled` | Purge beside the workers | violates `PurgeKeepsScheduled` |
| `service_data` | two transactions of the store; two requests to the API | `StoreAgrees`, `StoreKeeps`, `AnswersAreTrue`, `RowsKeepFaith` |
| `entity_upsert` | upserts of settings | violates `NewerGenerationAccepted` |
| `service` | the key queue, the key source, the event source, the publisher, the process | `QueueHolds`, `QueueSteps` (with the refinement of `DirtyKeys`), `KeysAreCurrent`, `GapIsNoticed`, `NoLateWrite`, `ExitIsHonest` |
| `queue_live` | the key queue under fairness | `AddedKeyRuns`, `NobodyWaitsForEver` |
| `live` | apply with recover, outbox delivery, transactions on shared keys, the process, under fairness | `PendingResolves`, `EventuallyDelivered`, `EnqueueEnds`, `SignalEnds` |
| `tools` | two lifecycle commands with kills and runs that pin digests; five commits with proof runs, gates and a release job | `AdvisoriesAreTrue`, `LifecycleSteps`, `GatesHold` |
| `lifecycle_race` | two withdrawals of one digest | violates `EachAtMostOnce` |

Bounds.

- Apply: two sources, of which the second changes one file, adds one and needs a
  module, give every kind of operation: create, replace, delete, leave alone; each
  file has a third content for edits. Two disturbances allow an edit and a
  failure, or a failure of the recovery too; the proofs have no such bound. Two processes are enough for a command
  that meets another one at the lock; runs with more edits use one process at a
  time, since a killed process is followed by another.
- Outbox: one unit of time is one database call, and a lease is the shortest that
  `NewWorker` accepts, so that every timeout can just be met or just be missed. Two
  workers and two messages of one key meet in every order. Attempts reach the
  dead-letter threshold, which is two.
- Scan cycles: a page of three items has two of one key, so that workers run side
  by side and one item waits for its key; the cycle needs a second page, or a
  second pass. Two processes with two items and two versions can overlap in every
  phase, one of them saving over the other. Inputs change once.
- Watches: two collections, an identity that changes, a limit of one object that
  both together can exceed, one write, three watches: each watch is replaced once,
  lists, follows and loses its history.
- Key queue: two keys and capacity one, so that an emitter waits and the observer's
  key overflows; two workers; one failed session; delays that double once.
- Store: two transactions with two calls each on two resources; API: two requests
  of any two operations over two organizations, a user and room for two rows. Lists
  ask for the first page, with a size that is clamped; `EntityServiceProofs` shows for
  every page and size that a page is in order and within its size (`PageOfRows`).
- Key source: one key id, two keys, two requests; a refresh, its retry and the
  expiry are one unit apart. Publisher: two calls, two sessions, one permit. Event
  source: a buffer of one and three events.
- Lifecycle: three digests, two commands, two numbers, two days, one kill, and a
  folder that is empty, missing, or has a supersession past its day. Gates:
  five commits that keep, add, drop and retire obligations.

Deadlock checking is on for apply, for the outbox, the scan cycles and the watches:
commands and passes can always be started, and time can always pass. It is off
where the modelled program ends: the process exits, the publisher and the sources
are closed, a bounded set of requests, transactions or commands is used up.

Fairness. `ApplyTransaction` has weak fairness of the steps of a running command,
which the operating system gives, and of `stego recover` while a journal is
pending, which is the author's part: the other commands refuse and ask for it.
`Outbox` has weak fairness of time and of workers, which poll; strong fairness of
transactions, as PostgreSQL serves lock waiters in order; and strong fairness of a
handler's success, which says that a handler does not fail for ever. The last is an
assumption about the environment without which delivery cannot be promised.
`KeyQueue!FairSpec` has weak fairness of the controller's goroutines and of time,
strong fairness of the admission slot, as Go serves the senders that wait on a
channel in turn, and, of the environment, strong fairness of a scan's end and of
the success of each key's action.
`ServiceProcess` has weak fairness of its own steps and of its deadlines, and none
of the handlers, which may never return. `MCLive` states the same conditions for
the part that a behaviour runs.

## Proofs

The theorems hold for every value of the constants that the named assumptions admit:
any number of processes, workers, messages, keys, files, calls and failures. Each of
the modules has one inductive invariant, which a run checks before it is proved: as a
property of its own (`IndInv`), or within the property that is proved from it.

| Theorems | Of | Inductive invariant | They state |
| --- | --- | --- | --- |
| `ApplyTransactionProofs` | `ApplyTransaction` | `CoreInv`, `PlanInv`; together `IndInv` | `RecordMatchesOutput`, `WritesFollowJournal`, `JournalCompletes`, `JournalIsCurrent`, `RequirementsMet`, `SecondApplyChangesNothing`, `CommandsKeepToTheirFiles`, and that apply implements `AtomicApply` on the files and on the durable files |
| `OutboxProofs` | `Outbox` | `IndInv` | `CommitsInOrder`, `DeliveredInOrder`, `NeverLost`, `LeaseIsKept`; without stalls and Purge `OneDeliveryPerKey` |
| `BackgroundProofs`, from `OutboxProofs` | the second outbox of `Background` | `IndInv` | `StallsAreSafe` |
| `ScanCycleProofs`, and `BackgroundProofs` for `Background` | `ScanCycle` | `CycleInv` | `CyclesHold`, `CyclesGoForward` |
| `BackgroundProofs` | `WatchSet` | `WatchInv` | `WatchesHold` |
| `StoreTransactionProofs` | `StoreTransaction` | `StoreInv` | `StoreAgrees`, `StoreKeeps` |
| `EntityServiceProofs`, and `StoreTransactionProofs` for `ServiceData` | `EntityService` | `EntityInv` | `AnswersAreTrue`, `RowsKeepFaith` |
| `ServiceProofs` | `KeyQueue` | `QueueInv` | `QueueHolds`, `QueueSteps` with the step simulation of `DirtyKeys` |
| `ServiceProofs` | `KeySource`, `EventStream`, `Publisher`, `ServiceProcess` | `SourceInv`, `StreamInv`, `PublisherInv`, `ProcessInv` | `KeysAreCurrent`, `GapIsNoticed`, `NoLateWrite`, `ExitIsHonest` |
| `ToolsProofs` | `DigestLifecycle`, `AssureGates` | `LifecycleInv`, `GatesInv` | `AdvisoriesAreTrue`, `LifecycleSteps`, `GatesHold` |

Assumptions. `ProcessAssumption`, `ProjectAssumption`, `OutboxAssumption`,
`TransactionAssumption`, `EntityAssumption`, `ServiceAssumption`,
`ControllerAssumption`, `LifecycleAssumption`, `GatesAssumption`, `CyclesAssumption`,
`StallsAssumption` and `WatchesAssumption` say what kind of value a constant is:
options are natural numbers, names of different things are different, a function is
defined where it is used. Four say more. `TimingAssumption` is what `NewWorker` checks of the timeouts, and
`AttemptsAssumption` that the count of attempts goes far enough to tell dead letters
apart. `OneKindOfFailure` is a hypothesis of the apply theorems that need it:
processes are killed or the power fails, not both; run `apply_kill_then_power` shows
why. `Punctual` is a hypothesis of `OneDeliveryPerKey`: no process stalls past its
timeouts and nobody purges. No receipt expires then (`LeaseInv`, a part of `IndInv`);
what an expired one may do is the subject of the second outbox (`StallsAreSafe`).

Why the invariants are what they are:

- *Apply.* `RecordMatchesOutput` is not inductive: while a journal is pending the
  files are in between, so `CoreInv` says that the files *as the journal will leave
  them* (`Tree(journal)`) agree with the record. To keep that it knows that the lock
  has one holder (`LockHeld`), that the holder executes the one journal there is
  (`Held`), and, for power failures, that at most the step in hand is not durable
  (`Synced`). `PlanInv` adds what a process has planned and compared: the plan was
  computed from contents that it read, every operation of a journal comes from the
  plan that was checked under the lock, and the modules that the output requires are
  in `go.mod` as the journal will leave it. The refinements map the abstract state to
  `Tree(journal)`, or to that of the durable journal, so that the one abstract step is
  the one in which the journal appears, or becomes durable.
- *Outbox.* The order: two transactions with inserted rows of one key would both hold
  its lock, so a row that is not yet committed has a higher number than all committed
  rows of its key (`OrderInv`), and a message once at the front of its key stays
  there. The time: a busy worker's lease is longer than what is left of its call and
  the calls that follow (`LeaseInv`), which `NewWorker`'s bound on the lease gives at
  the claim and every step keeps.
- *Scan cycle.* While a page is under way its failures are not on record yet, so
  `CycleInv` says that the state is honest with them added (`OnPage`), and that what
  was accepted succeeded or is among them; the cursor then passes over accepted items
  only. A save that wins found the version it had loaded; a version names one state
  (`Working`), so what is saved carries on what is stored.
- *Watches.* What the consumer knows of a collection is what the watch of its path
  counts, and what the collection was at the watch's version (`Shows`); a watch has a
  version exactly while it follows its collection (`Follows`). A watch that is not
  done is the active one of its path or the one that `Run` waits for (`Session`,
  `Replacing`), so what a cancelled watch counted is never counted twice.
  `totalObjects` is modelled as the number of pairs of a watch and an object that it
  counts, a cardinality and no fold, which is why its bound can be proved.
- *Store.* `StoreInv` says of each open transaction that its writes, laid over what is
  committed *now*, are a state that may be committed. The row locks keep that true
  while others commit.
- *Requests.* The answer of a request says nothing while the request is under way, so
  `EntityInv` follows it from step to step. The steps that a request has left are a
  suffix of its handler (`OnCourse`); what it has written, whom it has told and what
  the fills have said agree with the steps that are gone (`Accounted`, `Accepted`);
  and what it has read is still true of the rows where it must be (`Grounded`): no
  other request moves a row to another organization or kind, which is `RowsKeepFaith`.
  What may be stale, the name and the body of a row that was read, is left out of it.
- *Key queue.* `QueueInv` ties the entries of the map to the heap, the delays and the
  workers: a key that is dirty is in the heap, waits on a delay, or is being acted on,
  and a key in the heap has a worker that is awake, or asleep with a timer that is not
  later (`WakesFor`).
- *Publisher.* `Accounted` follows each record from its permit to its result, and
  `Covered` says that an open session is the publisher's, or somebody is closing it.
- *Key source.* A key that was withdrawn can be in the cache for as long as a read
  takes; `SourceInv` bounds how long ago it was withdrawn by the age of what was
  loaded, and of what a read in progress has seen.
- *Event source.* `Follows`: what was given, what is queued and what is not yet
  dispatched make up what was committed since the subscription, or its reason is set.
- *Process.* `ProcessInv` relates the stage of the HTTP server to its task and its
  requests, and every return of a task to a signal or a failure.
- *Lifecycle.* `LifecycleInv`: a command that has linked its file has it in the folder,
  and no step of another command changes it but for the retraction.
- *Gates.* A decision is about a base that main may leave behind. `RatchetHeld` keeps
  for every decision that has passed what it found of its base, and `JobInv` what the
  release job has established at each of its steps; the entries of the log that both
  rest on never change (`LogIsTrue`).

Only model-checked is liveness, which the prover does not reach: `PendingResolves`,
`EventuallyDelivered`, `EnqueueEnds`, `SignalEnds`, `AddedKeyRuns` and
`NobodyWaitsForEver`. Every safety property that a passing run checks is a theorem.

## Findings

1. **Recovery trusts a journal that is not durable** (`transaction.go:438`). A
   process that is killed between renaming the journal into place and syncing its
   folder leaves a visible journal that a power failure can still lose. Recover
   executes it without a sync of its own; when the power fails then, output files
   are new, the record is old, and no journal is left. Run
   `apply_kill_then_power`.
2. **Purge can remove a message that was just rescheduled** (`queue.go.tmpl:289`).
   The subselect chooses rows in the statement's snapshot; under READ COMMITTED a
   row that Retry has changed meanwhile is tested again only for its id. Run
   `outbox_purge_scheduled`.
3. **An optimistic upsert always fails** (`store.go:1157` of the example). The
   condition of its `DO UPDATE` names the column `generation` without a table, where
   `EXCLUDED` has one too; PostgreSQL refuses the statement as ambiguous, and the
   handler answers 500, to the first upsert as to every other one. With the column
   qualified a second mistake remains: the handler sets the generation of every
   request to 0 (`handler_org_settings.go:209`), so that no existing setting would be
   updated. Run `entity_upsert`.
4. **Two withdrawals of one digest can both be recorded** (`commands.go:163`). The
   second command decides on a lifecycle that it read before the first one's
   advisory, then draws its number after it; the hard link protects the number
   only. From then on the folder is refused. Run `lifecycle_race`.

Two more that the models show and no property states: Purge can remove a message
while it is being delivered (`queue.go.tmpl:288`), so `OneDeliveryPerKey` is stated
for the time when nobody purges; and a complete cycle that is run again in one pass
saves nothing, so a reset of its checkpoint during that pass does not keep it from
reporting success (`cycle.go.tmpl:193`).

## Plan

Every safety property that a run checks is a theorem. What the models can still be
extended with are the hazards that no property covers, which the project file lists
with the reason: a saved plan that is carried out again after a recovery or a power
failure, Purge beside a delivery, the writer fence of a process that has lost its
lease, a parent row that is deleted under a request, and a cycle that is run again in
one pass.

## Not modelled

- Generators, assembler, resources, parsers, declarations, validation and code
  standards: functions from inputs to text without state of their own. They are by
  far most of the code (the two largest generators alone have 6,800 lines). Their
  output is the subject of `EntityService`, `StoreTransaction` and the other
  runtime modules, which model the rendered code of the `user-management` example;
  a model of how the text is put together would be a transliteration. For the same
  reason the map covers a small share of all lines: it names the code that keeps
  state or coordinates processes.
- The other rendered examples: the same templates with other names.
- The writer fence and the schema generation of the store: optional, and not
  rendered in the example; they need a model of two deployments.
- `ScanCheckpointed` (a scan without failure evidence), finite sweeps, streams and
  the controller's state journal.
- gRPC, browser and command-line servers, the Keycloak and HTTP clients, telemetry
  and SDKs: one request at a time around a library.
- Drift, application build, fleet, scripts and registry data: comparisons, external
  tools and data.
- Integer widths: counters are versions and attempts that grow by one.

Out of the prover's reach and left to TLC: liveness under fairness.
`PROJECT.json` lists every part with its reason, and the hazards of the code with
the properties that watch them.
