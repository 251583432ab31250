----------------------------- MODULE Publisher -----------------------------
(***************************************************************************)
(* The Kafka publisher and its runtime (internal/events: publisher.go,     *)
(* runtime.go). The handler of the outbox worker calls Publish, from       *)
(* several goroutines; they share one client session, which a call whose   *)
(* result is uncertain throws away. The client and the broker are modelled *)
(* from how Publish uses them: a session owns the records it was given     *)
(* until it reports a result; a closed session reports an error for each.  *)
(***************************************************************************)
EXTENDS Integers, FiniteSets

CONSTANTS
    Caller,      \* calls of Publish
    Session,     \* client sessions
    NoSession,
    Permits      \* 32: calls at the client at once

VARIABLES
    session,     \* p.session
    open,        \* the sessions whose client is open
    used,        \* the sessions made so far
    closed,      \* p.closed, and p.done
    closer,      \* Close: "no", "closing" its session, "waiting" for the calls, "done"
    mine,        \* the session that Close took
    active,      \* the calls that the wait group counts
    permits,     \* the calls that hold a permit
    call,        \* the calls of Publish
    broker       \* the calls whose record Kafka has written

vars == <<session, open, used, closed, closer, mine, active, permits, call, broker>>

Init ==
    /\ session = NoSession /\ open = {} /\ used = {} /\ closed = FALSE
    /\ closer = "no" /\ mine = NoSession /\ active = {} /\ permits = {} /\ broker = {}
    /\ call = [c \in Caller |-> [pc |-> "new", session |-> NoSession, expired |-> FALSE,
                               result |-> "none", returned |-> "none"]]

At(c, pc) == call[c].pc = pc
Go(c, pc) == call' = [call EXCEPT ![c].pc = pc]
Publishers == <<session, open, used, closed, closer, mine>>

\* The records that an open client still holds: it can still write them.
Held == {c \in Caller : call[c].session \in open /\ call[c].result = "pending"}

-----------------------------------------------------------------------------
\* A client that is closed gives up its records.
GivenUp(f, s) == [c \in Caller |-> IF f[c].session = s /\ f[c].result = "pending"
                                THEN [f[c] EXCEPT !.result = "failed"] ELSE f[c]]

Return(c, what) == [call EXCEPT ![c].pc = "leave", ![c].returned = what]

\* Publish, up to the unlock.
Begin(c) ==
    /\ At(c, "new")
    /\ IF closed THEN call' = [call EXCEPT ![c].pc = "ended", ![c].returned = "closed"] /\ UNCHANGED active
       ELSE Go(c, "permit") /\ active' = active \cup {c}
    /\ UNCHANGED <<Publishers, permits, broker>>

\* The select on a permit, done and the attempt's deadline.
TakePermit(c) ==
    /\ At(c, "permit") /\ Cardinality(permits) < Permits
    /\ permits' = permits \cup {c}
    /\ call' = IF call[c].expired THEN Return(c, "error") ELSE [call EXCEPT ![c].pc = "acquire"]
    /\ UNCHANGED <<Publishers, active, broker>>

NoPermit(c) ==
    /\ At(c, "permit") /\ (closed \/ call[c].expired)
    /\ call' = Return(c, IF closed THEN "closed" ELSE "error")
    /\ UNCHANGED <<Publishers, active, permits, broker>>

\* acquire: the current session, or a new one. NewClient may refuse its configuration.
Acquire(c) ==
    /\ At(c, "acquire")
    /\ \/ closed /\ call' = Return(c, "closed") /\ UNCHANGED <<session, open, used>>
       \/ /\ ~closed /\ session # NoSession
          /\ call' = [call EXCEPT ![c].pc = "produce", ![c].session = session]
          /\ UNCHANGED <<session, open, used>>
       \/ /\ ~closed /\ session = NoSession
          /\ call' = Return(c, "error") /\ UNCHANGED <<session, open, used>>
       \/ /\ ~closed /\ session = NoSession
          /\ \E s \in Session \ used :
                /\ session' = s /\ open' = open \cup {s} /\ used' = used \cup {s}
                /\ call' = [call EXCEPT ![c].pc = "produce", ![c].session = s]
    /\ UNCHANGED <<closed, closer, mine, active, permits, broker>>

\* TryProduce hands the record to the session. One that was closed in between
\* refuses it.
Produce(c) ==
    /\ At(c, "produce")
    /\ call' = [call EXCEPT ![c].pc = "wait",
                            ![c].result = IF call[c].session \in open THEN "pending" ELSE "failed"]
    /\ UNCHANGED <<Publishers, active, permits, broker>>

\* Kafka writes a record that an open client holds.
Write(c) ==
    /\ c \in Held \ broker /\ broker' = broker \cup {c}
    /\ UNCHANGED <<Publishers, active, permits, call>>

\* The client reports a result: success once all replicas have the record, or a
\* failure, after which the record may be there or not.
Report(c, ok) ==
    /\ c \in Held /\ (ok => c \in broker)
    /\ call' = [call EXCEPT ![c].result = IF ok THEN "acked" ELSE "failed"]
    /\ UNCHANGED <<Publishers, active, permits, broker>>

\* Publish has the result.
Receive(c) ==
    /\ At(c, "wait") /\ call[c].result # "pending"
    /\ call' = CASE call[c].expired -> [call EXCEPT ![c].pc = "invalidate"]
                 [] call[c].result = "acked" -> Return(c, "success")
                 [] OTHER -> Return(c, "error")
    /\ UNCHANGED <<Publishers, active, permits, broker>>

\* Mutant: an attempt that ends leaves the session as it is.
GiveUpLightly(c) ==
    /\ At(c, "wait") /\ call[c].expired
    /\ call' = Return(c, "error")
    /\ UNCHANGED <<Publishers, active, permits, broker>>

\* The attempt ends first.
GiveUp(c) ==
    /\ At(c, "wait") /\ call[c].expired /\ Go(c, "invalidate")
    /\ UNCHANGED <<Publishers, active, permits, broker>>

\* invalidate: forget the session, if it still is the current one, under the lock.
Invalidate(c) ==
    /\ At(c, "invalidate") /\ Go(c, "close")
    /\ session' = IF session = call[c].session THEN NoSession ELSE session
    /\ UNCHANGED <<open, used, closed, closer, mine, active, permits, broker>>

\* Then close it, and wait for the result of the record.
CloseSession(c) ==
    /\ At(c, "close")
    /\ open' = open \ {call[c].session}
    /\ call' = [GivenUp(call, call[c].session) EXCEPT ![c].pc = "leave", ![c].returned = "error"]
    /\ UNCHANGED <<session, used, closed, closer, mine, active, permits, broker>>

\* The deferred permit and wait group.
Leave(c) ==
    /\ At(c, "leave") /\ Go(c, "ended")
    /\ permits' = permits \ {c} /\ active' = active \ {c}
    /\ UNCHANGED <<Publishers, broker>>

\* The attempt's deadline, or the worker stops.
Expire(c) ==
    /\ call[c].pc \in {"permit", "acquire", "produce", "wait"} /\ ~call[c].expired
    /\ call' = [call EXCEPT ![c].expired = TRUE]
    /\ UNCHANGED <<Publishers, active, permits, broker>>

-----------------------------------------------------------------------------
\* Close, up to the unlock.
BeginClose ==
    /\ closer = "no" /\ closer' = "closing"
    /\ closed' = TRUE /\ mine' = session /\ session' = NoSession
    /\ UNCHANGED <<open, used, active, permits, call, broker>>

CloseMine ==
    /\ closer = "closing" /\ closer' = "waiting"
    /\ open' = open \ {mine} /\ call' = GivenUp(call, mine)
    /\ UNCHANGED <<session, used, closed, mine, active, permits, broker>>

EndClose ==
    /\ closer = "waiting" /\ active = {} /\ closer' = "done"
    /\ UNCHANGED <<session, open, used, closed, mine, active, permits, call, broker>>

Next ==
    \/ BeginClose \/ CloseMine \/ EndClose
    \/ \E c \in Caller :
          \/ Begin(c) \/ TakePermit(c) \/ NoPermit(c) \/ Acquire(c) \/ Produce(c) \/ Write(c)
          \/ Receive(c) \/ GiveUp(c) \/ Invalidate(c) \/ CloseSession(c) \/ Leave(c) \/ Expire(c)
          \/ \E ok \in BOOLEAN : Report(c, ok)

Spec == Init /\ [][Next]_vars

-----------------------------------------------------------------------------
\* Publish returns success only for a record that Kafka has acknowledged. Once it has
\* returned anything, no open client still holds the record, so a late write cannot
\* follow the retry. Every open session is the current one or is about to be closed by
\* the call or the Close that took it, so none leaks; after Close no session and no
\* call is left; and no more than Permits calls are at a client.
NoLateWrite ==
    /\ \A c \in Caller :
          /\ call[c].returned = "success" => c \in broker
          /\ call[c].pc \in {"leave", "ended"} => c \notin Held
    /\ \A s \in open : \/ s = session \/ (closer = "closing" /\ s = mine)
                       \/ \E c \in Caller : At(c, "close") /\ call[c].session = s
    /\ closer = "done" => open = {} /\ session = NoSession
                          /\ \A c \in Caller : call[c].pc \in {"new", "ended"}
    /\ Cardinality(permits) <= Permits

-----------------------------------------------------------------------------
\* The inductive invariant behind it. A call that has begun is counted until it
\* leaves, and no call leaves with a record that is still pending; once Close has
\* begun, no session is made any more.
Begun == {"permit", "acquire", "produce", "wait", "invalidate", "close", "leave"}

Accounted(c, x, counted, written) ==
    /\ DOMAIN x = {"pc", "session", "expired", "result", "returned"}
    /\ x.pc \in Begun \cup {"new", "ended"} /\ (x.pc \in Begun => c \in counted)
    /\ x.result = "pending" => x.pc \in {"wait", "invalidate", "close"}
    /\ x.result = "acked" => c \in written
    /\ x.returned = "success" => c \in written

Covered(s) ==
    \/ s = session \/ (closer = "closing" /\ s = mine)
    \/ \E c \in Caller : At(c, "close") /\ call[c].session = s

PublisherInv ==
    /\ open \subseteq Session /\ session \in Session \cup {NoSession}
    /\ call = [c \in Caller |-> call[c]]
    /\ \A c \in Caller : Accounted(c, call[c], active, broker)
    /\ closed = (closer # "no") /\ (closed => session = NoSession)
    /\ \A s \in open : Covered(s)
    /\ closer = "done" => open = {} /\ \A c \in Caller : call[c].pc \in {"new", "ended"}
    /\ IsFiniteSet(permits) /\ Cardinality(permits) <= Permits
=============================================================================
