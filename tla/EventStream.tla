---------------------------- MODULE EventStream ----------------------------
(***************************************************************************)
(* The event source of the outbox (internal/outbox/source.go): one LISTEN  *)
(* session, and subscriptions with a bounded queue each. The transactions  *)
(* of Enqueue commit events 1, 2, ...; PostgreSQL hands them to the        *)
(* session in that order.                                                  *)
(*                                                                         *)
(* A consumer keeps to the contract of contracts/events: it subscribes,    *)
(* lists the current state, then calls Next; after any error it subscribes *)
(* and lists anew, which is another subscription.                          *)
(***************************************************************************)
EXTENDS Integers, Sequences, FiniteSets

CONSTANTS
    Sub,                \* subscriptions
    SubscriptionBuffer, \* capacity of a queue
    MaxSubscriptions,
    MaxEvents           \* bound on the events

VARIABLES
    committed,   \* events so far
    dispatched,  \* events that dispatch has handled
    run,         \* Run: "new", "waiting", "failing" or "done"
    closed, cancelled,
    close,       \* Close: "no", "waiting" or "done"
    sub          \* the subscriptions and their consumers

vars == <<committed, dispatched, run, closed, cancelled, close, sub>>

\* pc is where the consumer is; failure is why the source removed the
\* subscription; the queue holds event numbers; held is the event that Next has
\* taken from it; got are the events that Next returned.
Init ==
    /\ committed \in {0, 1} /\ dispatched = committed
    /\ run = "new" /\ closed = FALSE /\ cancelled = FALSE /\ close = "no"
    /\ sub = [s \in Sub |-> [pc |-> "new", failure |-> "none", since |-> 0, listed |-> 0,
                             queue |-> <<>>, held |-> <<>>, got |-> <<>>]]

Open == {s \in Sub : sub[s].pc # "new" /\ sub[s].failure = "none"}
Source == <<run, closed, cancelled, close>>
Events == <<committed, dispatched>>

-----------------------------------------------------------------------------
\* removeLocked: the first reason stays.
Removed(x, reason) == IF x.failure = "none" THEN [x EXCEPT !.failure = reason] ELSE x
RemoveAll(reason) == sub' = [s \in Sub |-> IF s \in Open THEN Removed(sub[s], reason) ELSE sub[s]]

Commit ==
    /\ committed < MaxEvents /\ committed' = committed + 1
    /\ UNCHANGED <<dispatched, Source, sub>>

\* Subscribe.
Subscribe(s) ==
    /\ sub[s].pc = "new"
    /\ sub' = [sub EXCEPT ![s] =
          IF closed \/ Cardinality(Open) >= MaxSubscriptions
          THEN [@ EXCEPT !.pc = "ended", !.failure = "refused"]
          ELSE [@ EXCEPT !.pc = "list", !.since = dispatched]]
    /\ UNCHANGED <<Events, Source>>

\* The consumer reads the current state.
List(s) ==
    /\ sub[s].pc = "list"
    /\ sub' = [sub EXCEPT ![s].pc = "idle", ![s].listed = committed]
    /\ UNCHANGED <<Events, Source>>

\* Next: the first look at failure.
BeginNext(s) ==
    /\ sub[s].pc = "idle"
    /\ sub' = [sub EXCEPT ![s].pc = IF sub[s].failure = "none" THEN "select" ELSE "ended"]
    /\ UNCHANGED <<Events, Source>>

\* Next: the select takes any case that is ready.
SelectDone(s) ==
    /\ sub[s].pc = "select" /\ sub[s].failure # "none"
    /\ sub' = [sub EXCEPT ![s].pc = "ended"]
    /\ UNCHANGED <<Events, Source>>

SelectEvent(s) ==
    /\ sub[s].pc = "select" /\ sub[s].queue # <<>>
    /\ sub' = [sub EXCEPT ![s].pc = "return", ![s].held = <<Head(sub[s].queue)>>,
                          ![s].queue = Tail(sub[s].queue)]
    /\ UNCHANGED <<Events, Source>>

\* Next: the second look at failure.
Return(s) ==
    /\ sub[s].pc = "return"
    /\ sub' = [sub EXCEPT ![s] =
          IF sub[s].failure = "none"
          THEN [@ EXCEPT !.pc = "idle", !.got = sub[s].got \o sub[s].held, !.held = <<>>]
          ELSE [@ EXCEPT !.pc = "ended"]]
    /\ UNCHANGED <<Events, Source>>

\* The context of a Next call ends: an event that it has taken is lost, and the
\* consumer has an error.
CancelNext(s) ==
    /\ sub[s].pc \in {"select", "return"}
    /\ sub' = [sub EXCEPT ![s].pc = "ended"]
    /\ UNCHANGED <<Events, Source>>

\* The context of the subscription ends, or its consumer closes it.
Remove(s) ==
    /\ s \in Open
    /\ sub' = [sub EXCEPT ![s] = Removed(@, "canceled")]
    /\ UNCHANGED <<Events, Source>>

-----------------------------------------------------------------------------
BeginRun ==
    /\ run = "new" /\ ~closed /\ run' = "waiting"
    /\ UNCHANGED <<Events, closed, cancelled, close, sub>>

\* Mutant: a full queue drops the event.
DispatchDrops ==
    /\ run = "waiting" /\ dispatched < committed
    /\ dispatched' = dispatched + 1
    /\ sub' = [s \in Sub |->
          IF s \in Open /\ Len(sub[s].queue) < SubscriptionBuffer
          THEN [sub[s] EXCEPT !.queue = Append(@, dispatched')] ELSE sub[s]]
    /\ UNCHANGED <<committed, Source>>

\* WaitForNotification gives an event, and dispatch queues it or removes the
\* subscription whose queue is full.
Dispatch ==
    /\ run = "waiting" /\ dispatched < committed
    /\ dispatched' = dispatched + 1
    /\ sub' = [s \in Sub |->
          IF s \notin Open THEN sub[s]
          ELSE IF Len(sub[s].queue) < SubscriptionBuffer
               THEN [sub[s] EXCEPT !.queue = Append(@, dispatched')]
               ELSE Removed(sub[s], "slow")]
    /\ UNCHANGED <<committed, Source>>

\* The session is lost, a notification cannot be decoded, or Run was cancelled:
\* Run closes the session.
LeaveRun ==
    /\ run = "waiting" /\ run' = "failing"
    /\ UNCHANGED <<Events, closed, cancelled, close, sub>>

\* Its deferred fail, and done.
Fail ==
    /\ run = "failing" /\ run' = "done"
    /\ closed' = TRUE /\ RemoveAll("unavailable")
    /\ UNCHANGED <<Events, cancelled, close>>

\* Close, up to the unlock; then it waits for Run.
BeginClose ==
    /\ close = "no"
    /\ closed' = TRUE /\ cancelled' = (run = "waiting" \/ cancelled) /\ RemoveAll("unavailable")
    /\ close' = IF run \in {"waiting", "failing"} THEN "waiting" ELSE "done"
    /\ UNCHANGED <<Events, run>>

EndClose ==
    /\ close = "waiting" /\ run = "done" /\ close' = "done"
    /\ UNCHANGED <<Events, run, closed, cancelled, sub>>

Next ==
    \/ Commit \/ BeginRun \/ Dispatch \/ LeaveRun \/ Fail \/ BeginClose \/ EndClose
    \/ \E s \in Sub : \/ Subscribe(s) \/ List(s) \/ BeginNext(s) \/ SelectDone(s) \/ SelectEvent(s)
                      \/ Return(s) \/ CancelNext(s) \/ Remove(s)

Spec == Init /\ [][Next]_vars

-----------------------------------------------------------------------------
Consecutive(seq, from) == \A i \in DOMAIN seq : seq[i] = from + i

\* A gap is never silent. What a consumer has got, holds and finds in its queue is
\* every event since it subscribed, in order, for as long as the source has not told
\* it to list again; what it lists covers the events before that. A removed consumer
\* has a prefix of them. A closed source keeps no subscription, and never more than
\* MaxSubscriptions (Subscribe, dispatch, removeLocked, fail, Next).
GapIsNoticed ==
    /\ \A s \in Sub : LET x == sub[s] seen == x.got \o x.held \o x.queue IN
          /\ Consecutive(seen, x.since)
          /\ s \in Open /\ x.pc # "ended" => x.since + Len(seen) = dispatched
          /\ x.pc \in {"idle", "select", "return"} => x.listed >= x.since
    /\ closed => Open = {}
    /\ Cardinality(Open) <= MaxSubscriptions
    /\ close = "done" => run \in {"new", "done"}

-----------------------------------------------------------------------------
\* The inductive invariant behind it.
Seen(x) == x.got \o x.held \o x.queue

IsSub(x) ==
    /\ DOMAIN x = {"pc", "failure", "since", "listed", "queue", "held", "got"}
    /\ x.pc \in {"new", "list", "idle", "select", "return", "ended"}
    /\ x.since \in Nat /\ x.listed \in Nat
    /\ x.queue \in Seq(Nat) /\ x.held \in Seq(Nat) /\ x.got \in Seq(Nat)
    /\ x.pc \in {"new", "list", "idle", "select"} => x.held = <<>>
    /\ x.pc \in {"new", "list"} => x.got = <<>>
    /\ x.pc = "new" => x.queue = <<>> /\ x.failure = "none"

\* What subscription x has, when n events are dispatched.
Follows(x, n) ==
    /\ x.since <= n /\ Consecutive(Seen(x), x.since)
    /\ x.failure = "none" /\ x.pc # "new" => x.since + Len(Seen(x)) = n
    /\ x.pc \in {"idle", "select", "return"} => x.listed >= x.since

StreamInv ==
    /\ committed \in Nat /\ dispatched \in Nat /\ dispatched <= committed
    /\ sub = [s \in Sub |-> sub[s]]
    /\ \A s \in Sub : IsSub(sub[s]) /\ Follows(sub[s], dispatched)
    /\ run \in {"new", "waiting", "failing", "done"} /\ closed \in BOOLEAN
    /\ close # "no" => closed
    /\ close = "done" => run \in {"new", "done"}
    /\ closed => Open = {}
    /\ IsFiniteSet(Open) /\ Cardinality(Open) <= MaxSubscriptions
=============================================================================
