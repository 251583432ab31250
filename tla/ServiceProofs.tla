--------------------------- MODULE ServiceProofs ---------------------------
(***************************************************************************)
(* The parts of a generated service, for any number of requests, calls,    *)
(* sessions, subscriptions and tasks, and any timeouts and capacities: the *)
(* inductive invariant of each part, and from it the part's properties.    *)
(***************************************************************************)
EXTENDS Service, FiniteSetTheorems, SequenceTheorems, TLAPS

\* A step of the service is a step of one part, and the others keep their state.
LEMMA PartStep ==
    ASSUME [Next]_vars
    PROVE  /\ QueuePart!Next \/ UNCHANGED queueVars
           /\ KeysPart!Next \/ UNCHANGED keysVars
           /\ StreamPart!Next \/ UNCHANGED streamVars
           /\ PublisherPart!Next \/ UNCHANGED publisherVars
           /\ ProcessPart!Next \/ UNCHANGED processVars
<1>1. CASE UNCHANGED vars
    BY <1>1 DEF vars
<1>2. CASE Next
    BY <1>2 DEF Next, Only
<1>3. QED BY <1>1, <1>2

\* Cardinality means the same in each part.
LEMMA PartCardinality ==
    ASSUME NEW S
    PROVE  /\ PublisherPart!IsFiniteSet(S) <=> IsFiniteSet(S)
           /\ PublisherPart!Cardinality(S) = Cardinality(S)
           /\ KeysPart!Cardinality(S) = Cardinality(S)
           /\ StreamPart!IsFiniteSet(S) <=> IsFiniteSet(S)
           /\ StreamPart!Cardinality(S) = Cardinality(S)
BY DEF IsFiniteSet, Cardinality, PublisherPart!IsFiniteSet, PublisherPart!Cardinality,
       KeysPart!Cardinality, StreamPart!IsFiniteSet, StreamPart!Cardinality

-----------------------------------------------------------------------------
(***************************************************************************)
(* The publisher.                                                          *)
(***************************************************************************)

\* A step of one call that leaves the sessions alone.
LEMMA CallStep ==
    ASSUME PublisherPart!PublisherInv, NEW c \in Actor, NEW y, call' = [call EXCEPT ![c] = y],
           PublisherPart!Accounted(c, y, active', broker'), call[c].pc # "close",
           \A d \in Actor : d # c /\ d \in active => d \in active',
           broker \subseteq broker', closer = "done" => y.pc \in {"new", "ended"},
           client' = client, open' = open, publisherClosed' = publisherClosed,
           closer' = closer, mine' = mine,
           IsFiniteSet(permits'), Cardinality(permits') <= Permits
    PROVE  PublisherPart!PublisherInv'
<1> USE DEF PublisherPart!PublisherInv
<1>1. /\ call' = [d \in Actor |-> call'[d]] /\ call'[c] = y
      /\ \A d \in Actor : d # c => call'[d] = call[d]
    OBVIOUS
<1>2. ASSUME NEW d \in Actor PROVE PublisherPart!Accounted(d, call'[d], active', broker')
    <2>1. CASE d = c
        BY <1>1, <2>1
    <2>2. CASE d # c
        BY <1>1, <2>2 DEF PublisherPart!Accounted
    <2>3. QED BY <2>1, <2>2
<1>3. ASSUME NEW s \in open PROVE PublisherPart!Covered(s)'
    BY <1>1 DEF PublisherPart!Covered, PublisherPart!At
<1>4. closer = "done" => \A d \in Actor : call'[d].pc \in {"new", "ended"}
    BY <1>1
<1>5. \A d \in Actor : PublisherPart!Accounted(d, call[d], active, broker)'
    BY <1>2
<1>6. \A s \in open' : PublisherPart!Covered(s)'
    BY <1>3
<1>7. QED BY <1>1, <1>4, <1>5, <1>6, PartCardinality

\* The calls before a step.
LEMMA AtCall ==
    ASSUME PublisherPart!PublisherInv, NEW c \in Actor
    PROVE  /\ PublisherPart!Accounted(c, call[c], active, broker)
           /\ call = [d \in Actor |-> call[d]]
           /\ DOMAIN call[c] = {"pc", "session", "expired", "result", "returned"}
           /\ IsFiniteSet(permits) /\ Cardinality(permits) <= Permits /\ Permits \in Nat
           /\ closer = "done" => call[c].pc \in {"new", "ended"}
BY PartCardinality, ServiceAssumption DEF PublisherPart!PublisherInv, PublisherPart!Accounted

\* A step of one call that changes neither sessions nor permits.
LEMMA QuietCall ==
    ASSUME PublisherPart!PublisherInv, NEW c \in Actor, NEW y, call' = [call EXCEPT ![c] = y],
           PublisherPart!Accounted(c, y, active', broker'), call[c].pc # "close",
           \A d \in Actor : d # c /\ d \in active => d \in active',
           broker \subseteq broker', closer = "done" => y.pc \in {"new", "ended"},
           UNCHANGED <<client, open, used, publisherClosed, closer, mine, permits>>
    PROVE  PublisherPart!PublisherInv'
BY AtCall, CallStep

LEMMA PublishSteps ==
    ASSUME PublisherPart!PublisherInv, NEW c \in Actor,
           \/ PublisherPart!Begin(c) \/ PublisherPart!NoPermit(c) \/ PublisherPart!Produce(c)
           \/ PublisherPart!Write(c) \/ PublisherPart!Receive(c) \/ PublisherPart!GiveUp(c)
           \/ PublisherPart!Expire(c) \/ \E ok \in BOOLEAN : PublisherPart!Report(c, ok)
    PROVE  PublisherPart!PublisherInv'
<1> DEFINE x == call[c]
           y == call'[c]
<1> USE DEF PublisherPart!At, PublisherPart!Go, PublisherPart!Publishers, PublisherPart!Held,
            PublisherPart!Return
<1>0. /\ PublisherPart!Accounted(c, x, active, broker) /\ call = [d \in Actor |-> call[d]]
      /\ DOMAIN x = {"pc", "session", "expired", "result", "returned"}
      /\ closer = "done" => x.pc \in {"new", "ended"}
    BY AtCall
<1>1. CASE PublisherPart!Begin(c)
    <2>1. /\ call' = [call EXCEPT ![c] = y] /\ DOMAIN y = DOMAIN x /\ y.result = x.result
          /\ y.session = x.session /\ x.pc = "new"
          /\ UNCHANGED <<client, open, used, publisherClosed, closer, mine, permits, broker>>
        BY <1>0, <1>1 DEF PublisherPart!Begin
    <2>2. \/ y.pc = "ended" /\ y.returned = "closed" /\ active' = active
          \/ ~publisherClosed /\ y.pc = "permit" /\ y.returned = x.returned /\ active' = active \cup {c}
        <3>1. CASE publisherClosed
            <4>1. call' = [call EXCEPT ![c].pc = "ended", ![c].returned = "closed"] /\ active' = active
                BY <1>1, <3>1 DEF PublisherPart!Begin
            <4>2. y.pc = "ended" /\ y.returned = "closed"
                BY <1>0, <4>1
            <4>3. QED BY <4>1, <4>2
        <3>2. CASE ~publisherClosed
            <4>1. call' = [call EXCEPT ![c].pc = "permit"] /\ active' = active \cup {c}
                BY <1>1, <3>2 DEF PublisherPart!Begin
            <4>2. y.pc = "permit" /\ y.returned = x.returned
                BY <1>0, <4>1
            <4>3. QED BY <3>2, <4>1, <4>2
        <3>3. QED BY <3>1, <3>2
    <2>3. PublisherPart!Accounted(c, y, active', broker')
        BY <1>0, <2>1, <2>2 DEF PublisherPart!Accounted, PublisherPart!Begun
    <2>4. closer = "done" => publisherClosed
        BY DEF PublisherPart!PublisherInv
    <2>5. QED BY <1>0, <2>1, <2>2, <2>3, <2>4, QuietCall
<1>2. CASE PublisherPart!NoPermit(c)
    <2>1. /\ call' = [call EXCEPT ![c] = y] /\ DOMAIN y = DOMAIN x /\ y.result = x.result
          /\ y.session = x.session /\ x.pc = "permit" /\ y.pc = "leave"
          /\ y.returned \in {"closed", "error"}
          /\ UNCHANGED <<client, open, used, publisherClosed, closer, mine, permits, broker, active>>
        BY <1>0, <1>2 DEF PublisherPart!NoPermit
    <2>2. PublisherPart!Accounted(c, y, active', broker')
        BY <1>0, <2>1 DEF PublisherPart!Accounted, PublisherPart!Begun
    <2>3. QED BY <1>0, <2>1, <2>2, QuietCall
<1>3. CASE PublisherPart!Produce(c)
    <2>1. /\ call' = [call EXCEPT ![c] = y] /\ DOMAIN y = DOMAIN x /\ y.result \in {"pending", "failed"}
          /\ y.session = x.session /\ x.pc = "produce" /\ y.pc = "wait" /\ y.returned = x.returned
          /\ UNCHANGED <<client, open, used, publisherClosed, closer, mine, permits, broker, active>>
        BY <1>0, <1>3 DEF PublisherPart!Produce
    <2>2. PublisherPart!Accounted(c, y, active', broker')
        BY <1>0, <2>1 DEF PublisherPart!Accounted, PublisherPart!Begun
    <2>3. QED BY <1>0, <2>1, <2>2, QuietCall
<1>4. CASE PublisherPart!Write(c)
    <2>1. /\ call' = [call EXCEPT ![c] = x] /\ broker' = broker \cup {c} /\ x.result = "pending"
          /\ UNCHANGED <<client, open, used, publisherClosed, closer, mine, permits, active>>
        BY <1>0, <1>4 DEF PublisherPart!Write
    <2>2. PublisherPart!Accounted(c, x, active', broker')
        BY <1>0, <2>1 DEF PublisherPart!Accounted
    <2>3. CASE x.pc # "close"
        BY <1>0, <2>1, <2>2, <2>3, QuietCall
    <2>4. CASE x.pc = "close"
        <3>1. call' = call
            BY <1>4 DEF PublisherPart!Write
        <3>2. \A d \in Actor : PublisherPart!Accounted(d, call[d], active, broker)'
            BY <2>1, <3>1 DEF PublisherPart!PublisherInv, PublisherPart!Accounted
        <3>3. QED BY <2>1, <3>1, <3>2 DEF PublisherPart!PublisherInv, PublisherPart!Covered
    <2>5. QED BY <2>3, <2>4
<1>5. CASE PublisherPart!Receive(c)
    <2>0. /\ x.pc = "wait" /\ x.result # "pending"
          /\ UNCHANGED <<client, open, used, publisherClosed, closer, mine, permits, broker, active>>
          /\ \/ call' = [call EXCEPT ![c].pc = "invalidate"]
             \/ x.result = "acked" /\ call' = [call EXCEPT ![c].pc = "leave", ![c].returned = "success"]
             \/ call' = [call EXCEPT ![c].pc = "leave", ![c].returned = "error"]
        BY <1>5 DEF PublisherPart!Receive
    <2>1. /\ call' = [call EXCEPT ![c] = y] /\ DOMAIN y = DOMAIN x /\ y.result = x.result
          /\ y.session = x.session /\ x.pc = "wait" /\ x.result # "pending"
          /\ UNCHANGED <<client, open, used, publisherClosed, closer, mine, permits, broker, active>>
        BY <1>0, <2>0
    <2>2. \/ y.pc = "invalidate" /\ y.returned = x.returned
          \/ y.pc = "leave" /\ y.returned = "success" /\ x.result = "acked"
          \/ y.pc = "leave" /\ y.returned = "error"
        <3>1. ASSUME call' = [call EXCEPT ![c].pc = "invalidate"]
              PROVE  y.pc = "invalidate" /\ y.returned = x.returned
            BY <1>0, <3>1
        <3>2. ASSUME NEW what, call' = [call EXCEPT ![c].pc = "leave", ![c].returned = what]
              PROVE  y.pc = "leave" /\ y.returned = what
            BY <1>0, <3>2
        <3> HIDE DEF x, y
        <3>3. QED BY <2>0, <3>1, <3>2
    <2>3. PublisherPart!Accounted(c, y, active', broker')
        BY <1>0, <2>1, <2>2 DEF PublisherPart!Accounted, PublisherPart!Begun
    <2>4. QED BY <1>0, <2>1, <2>3, QuietCall
<1>6. CASE PublisherPart!GiveUp(c) \/ PublisherPart!Expire(c)
    <2>1. /\ call' = [call EXCEPT ![c] = y] /\ DOMAIN y = DOMAIN x /\ y.result = x.result
          /\ y.session = x.session /\ y.returned = x.returned
          /\ UNCHANGED <<client, open, used, publisherClosed, closer, mine, permits, broker, active>>
        BY <1>0, <1>6 DEF PublisherPart!GiveUp, PublisherPart!Expire
    <2>2. \/ x.pc = "wait" /\ y.pc = "invalidate"
          \/ x.pc \in {"permit", "acquire", "produce", "wait"} /\ y.pc = x.pc
        BY <1>0, <1>6 DEF PublisherPart!GiveUp, PublisherPart!Expire
    <2>3. PublisherPart!Accounted(c, y, active', broker')
        BY <1>0, <2>1, <2>2 DEF PublisherPart!Accounted, PublisherPart!Begun
    <2>4. x.pc \notin {"close", "new", "ended"}
        BY <2>2
    <2>5. QED BY <1>0, <2>1, <2>3, <2>4, QuietCall
<1>7. ASSUME NEW ok \in BOOLEAN, PublisherPart!Report(c, ok) PROVE PublisherPart!PublisherInv'
    <2>1. /\ call' = [call EXCEPT ![c] = y] /\ DOMAIN y = DOMAIN x /\ y.pc = x.pc
          /\ y.session = x.session /\ y.returned = x.returned /\ x.result = "pending"
          /\ UNCHANGED <<client, open, used, publisherClosed, closer, mine, permits, broker, active>>
        BY <1>0, <1>7 DEF PublisherPart!Report
    <2>2. y.result = "failed" \/ (y.result = "acked" /\ c \in broker)
        BY <1>0, <1>7 DEF PublisherPart!Report
    <2>3. PublisherPart!Accounted(c, y, active', broker')
        BY <1>0, <2>1, <2>2 DEF PublisherPart!Accounted
    <2>4. CASE x.pc # "close"
        BY <1>0, <2>1, <2>3, <2>4, QuietCall
    <2>5. CASE x.pc = "close"
        <3>1. /\ call' = [d \in Actor |-> call'[d]]
              /\ \A d \in Actor : call'[d].pc = call[d].pc /\ call'[d].session = call[d].session
              /\ \A d \in Actor : d # c => call'[d] = call[d]
            BY <1>0, <2>1
        <3>2. \A d \in Actor : PublisherPart!Accounted(d, call[d], active, broker)'
            BY <2>1, <2>3, <3>1 DEF PublisherPart!PublisherInv, PublisherPart!Accounted
        <3>3. \A s \in open : PublisherPart!Covered(s)'
            BY <2>1, <3>1 DEF PublisherPart!PublisherInv, PublisherPart!Covered
        <3>4. QED BY <2>1, <3>1, <3>2, <3>3 DEF PublisherPart!PublisherInv
    <2>6. QED BY <2>4, <2>5
<1>8. QED BY <1>1, <1>2, <1>3, <1>4, <1>5, <1>6, <1>7

\* A limited set stays limited: an element is added below the limit, or removed.
LEMMA Limited ==
    ASSUME NEW S, IsFiniteSet(S), NEW n \in Nat, Cardinality(S) <= n, NEW c
    PROVE  /\ IsFiniteSet(S \ {c}) /\ Cardinality(S \ {c}) <= n
           /\ IsFiniteSet(S \cup {c})
           /\ Cardinality(S) < n => Cardinality(S \cup {c}) <= n
<1>1. Cardinality(S) \in Nat
    BY FS_CardinalityType
<1>2. /\ IsFiniteSet(S \ {c})
      /\ Cardinality(S \ {c}) = IF c \in S THEN Cardinality(S) - 1 ELSE Cardinality(S)
    BY FS_RemoveElement
<1>3. /\ IsFiniteSet(S \cup {c})
      /\ Cardinality(S \cup {c}) = IF c \in S THEN Cardinality(S) ELSE Cardinality(S) + 1
    BY FS_AddElement
<1>4. QED BY <1>1, <1>2, <1>3

\* The permits: taken below the limit, returned when the call leaves.
LEMMA PermitSteps ==
    ASSUME PublisherPart!PublisherInv, NEW c \in Actor,
           PublisherPart!TakePermit(c) \/ PublisherPart!Leave(c)
    PROVE  PublisherPart!PublisherInv'
<1> DEFINE x == call[c]
           y == call'[c]
<1> USE DEF PublisherPart!At, PublisherPart!Go, PublisherPart!Publishers, PublisherPart!Return
<1>0. /\ PublisherPart!Accounted(c, x, active, broker) /\ call = [d \in Actor |-> call[d]]
      /\ DOMAIN x = {"pc", "session", "expired", "result", "returned"}
      /\ closer = "done" => x.pc \in {"new", "ended"}
      /\ IsFiniteSet(permits) /\ Cardinality(permits) <= Permits /\ Permits \in Nat
      /\ Cardinality(permits) \in Nat
    BY AtCall, FS_CardinalityType
<1>1. CASE PublisherPart!TakePermit(c)
    <2>1. /\ x.pc = "permit" /\ Cardinality(permits) < Permits /\ permits' = permits \cup {c}
          /\ UNCHANGED <<client, open, used, publisherClosed, closer, mine, broker, active>>
          /\ \/ call' = [call EXCEPT ![c].pc = "leave", ![c].returned = "error"]
             \/ call' = [call EXCEPT ![c].pc = "acquire"]
        BY <1>1, PartCardinality DEF PublisherPart!TakePermit
    <2>2. /\ call' = [call EXCEPT ![c] = y] /\ DOMAIN y = DOMAIN x /\ y.result = x.result
          /\ y.session = x.session
        BY <1>0, <2>1
    <2>3. /\ y.pc \in {"leave", "acquire"} /\ y.returned \in {x.returned, "error"}
        BY <1>0, <2>1
    <2>4. IsFiniteSet(permits') /\ Cardinality(permits') <= Permits
        BY <1>0, <2>1, Limited
    <2>5. PublisherPart!Accounted(c, y, active', broker')
        BY <1>0, <2>1, <2>2, <2>3 DEF PublisherPart!Accounted, PublisherPart!Begun
    <2>6. QED BY <1>0, <2>1, <2>2, <2>4, <2>5, CallStep
<1>2. CASE PublisherPart!Leave(c)
    <2>1. /\ x.pc = "leave" /\ permits' = permits \ {c} /\ active' = active \ {c}
          /\ UNCHANGED <<client, open, used, publisherClosed, closer, mine, broker>>
          /\ call' = [call EXCEPT ![c].pc = "ended"]
        BY <1>2 DEF PublisherPart!Leave
    <2>2. /\ call' = [call EXCEPT ![c] = y] /\ DOMAIN y = DOMAIN x /\ y.result = x.result
          /\ y.session = x.session /\ y.pc = "ended" /\ y.returned = x.returned
        BY <1>0, <2>1
    <2>3. IsFiniteSet(permits') /\ Cardinality(permits') <= Permits
        BY <1>0, <2>1, Limited
    <2>4. PublisherPart!Accounted(c, y, active', broker')
        BY <1>0, <2>1, <2>2 DEF PublisherPart!Accounted, PublisherPart!Begun
    <2>5. QED BY <1>0, <2>1, <2>2, <2>3, <2>4, CallStep
<1>3. QED BY <1>1, <1>2

\* acquire takes the current session, or makes it.
LEMMA AcquireStep ==
    ASSUME PublisherPart!PublisherInv, NEW c \in Actor, PublisherPart!Acquire(c)
    PROVE  PublisherPart!PublisherInv'
<1> DEFINE x == call[c]
           y == call'[c]
<1> USE DEF PublisherPart!At, PublisherPart!Return
<1>0. /\ PublisherPart!Accounted(c, x, active, broker) /\ call = [d \in Actor |-> call[d]]
      /\ DOMAIN x = {"pc", "session", "expired", "result", "returned"}
      /\ closer = "done" => x.pc \in {"new", "ended"}
    BY AtCall
<1>1. /\ x.pc = "acquire" /\ UNCHANGED <<publisherClosed, closer, mine, active, permits, broker>>
      /\ \/ /\ \E what \in {"closed", "error"} :
                  call' = [call EXCEPT ![c].pc = "leave", ![c].returned = what]
            /\ UNCHANGED <<client, open, used>>
         \/ /\ call' = [call EXCEPT ![c].pc = "produce", ![c].session = client]
            /\ UNCHANGED <<client, open, used>>
         \/ /\ ~publisherClosed /\ client = None
            /\ \E s \in Token \ used :
                  /\ client' = s /\ open' = open \cup {s}
                  /\ call' = [call EXCEPT ![c].pc = "produce", ![c].session = s]
    BY DEF PublisherPart!Acquire
<1>2. CASE /\ UNCHANGED <<client, open, used>>
           /\ \/ \E what \in {"closed", "error"} :
                    call' = [call EXCEPT ![c].pc = "leave", ![c].returned = what]
              \/ call' = [call EXCEPT ![c].pc = "produce", ![c].session = client]
    <2>1. /\ call' = [call EXCEPT ![c] = y] /\ DOMAIN y = DOMAIN x /\ y.result = x.result
          /\ y.pc \in {"leave", "produce"} /\ y.returned \in {"closed", "error", x.returned}
        BY <1>0, <1>2
    <2>2. PublisherPart!Accounted(c, y, active', broker')
        BY <1>0, <1>1, <2>1 DEF PublisherPart!Accounted, PublisherPart!Begun
    <2>3. QED BY <1>0, <1>1, <1>2, <2>1, <2>2, QuietCall
<1>3. ASSUME NEW s \in Token, ~publisherClosed, client = None, client' = s, open' = open \cup {s},
             call' = [call EXCEPT ![c].pc = "produce", ![c].session = s]
      PROVE  PublisherPart!PublisherInv'
    <2>1. /\ call' = [call EXCEPT ![c] = y] /\ DOMAIN y = DOMAIN x /\ y.result = x.result
          /\ y.pc = "produce" /\ y.returned = x.returned
        BY <1>0, <1>3
    <2>2. PublisherPart!Accounted(c, y, active', broker')
        BY <1>0, <1>1, <2>1 DEF PublisherPart!Accounted, PublisherPart!Begun
    <2>3. call' = [d \in Actor |-> call'[d]] /\ \A d \in Actor : d # c => call'[d] = call[d]
        BY <1>0, <1>3
    <2>4. \A d \in Actor : PublisherPart!Accounted(d, call[d], active, broker)'
        BY <1>1, <2>2, <2>3 DEF PublisherPart!PublisherInv
    <2>5. \A u \in open' : PublisherPart!Covered(u)'
        <3>1. None \notin open
            BY ServiceAssumption DEF PublisherPart!PublisherInv
        <3>2. ASSUME NEW u \in open PROVE PublisherPart!Covered(u)'
            <4>1. \/ closer = "closing" /\ u = mine
                  \/ \E d \in Actor : call[d].pc = "close" /\ call[d].session = u
                BY <1>3, <3>1 DEF PublisherPart!PublisherInv, PublisherPart!Covered
            <4>2. QED BY <1>1, <2>3, <4>1 DEF PublisherPart!Covered
        <3>3. PublisherPart!Covered(s)'
            BY <1>3 DEF PublisherPart!Covered
        <3>4. QED BY <1>3, <3>2, <3>3
    <2>6. closer # "done"
        BY <1>3 DEF PublisherPart!PublisherInv
    <2>7. QED BY <1>1, <1>3, <2>3, <2>4, <2>5, <2>6 DEF PublisherPart!PublisherInv
<1>4. QED BY <1>1, <1>2, <1>3

\* invalidate forgets the session, then closes it.
LEMMA InvalidateStep ==
    ASSUME PublisherPart!PublisherInv, NEW c \in Actor, PublisherPart!Invalidate(c)
    PROVE  PublisherPart!PublisherInv'
<1> DEFINE x == call[c]
           y == call'[c]
<1> USE DEF PublisherPart!At, PublisherPart!Go
<1>0. /\ PublisherPart!Accounted(c, x, active, broker) /\ call = [d \in Actor |-> call[d]]
      /\ DOMAIN x = {"pc", "session", "expired", "result", "returned"}
      /\ closer = "done" => x.pc \in {"new", "ended"}
    BY AtCall
<1>1. /\ x.pc = "invalidate" /\ call' = [call EXCEPT ![c].pc = "close"]
      /\ UNCHANGED <<open, used, publisherClosed, closer, mine, active, permits, broker>>
      /\ client' = IF client = x.session THEN None ELSE client
    BY DEF PublisherPart!Invalidate
<1>2. /\ call' = [call EXCEPT ![c] = y] /\ DOMAIN y = DOMAIN x /\ y.result = x.result
      /\ y.pc = "close" /\ y.returned = x.returned /\ y.session = x.session
    BY <1>0, <1>1
<1>3. PublisherPart!Accounted(c, y, active', broker')
    BY <1>0, <1>1, <1>2 DEF PublisherPart!Accounted, PublisherPart!Begun
<1>4. call' = [d \in Actor |-> call'[d]] /\ \A d \in Actor : d # c => call'[d] = call[d]
    BY <1>0, <1>1
<1>5. \A d \in Actor : PublisherPart!Accounted(d, call[d], active, broker)'
    BY <1>1, <1>3, <1>4 DEF PublisherPart!PublisherInv
<1>6. \A u \in open' : PublisherPart!Covered(u)'
    <2>1. ASSUME NEW u \in open PROVE PublisherPart!Covered(u)'
        <3>1. PublisherPart!Covered(u)
            BY DEF PublisherPart!PublisherInv
        <3>2. CASE u = client
            BY <1>1, <1>2, <3>2 DEF PublisherPart!Covered
        <3>3. CASE closer = "closing" /\ u = mine
            BY <1>1, <3>3 DEF PublisherPart!Covered
        <3>4. ASSUME NEW d \in Actor, call[d].pc = "close", call[d].session = u
              PROVE  PublisherPart!Covered(u)'
            BY <1>1, <1>4, <3>4 DEF PublisherPart!Covered
        <3>5. QED BY <3>1, <3>2, <3>3, <3>4 DEF PublisherPart!Covered
    <2>2. QED BY <1>1, <2>1
<1>7. QED BY <1>0, <1>1, <1>4, <1>5, <1>6 DEF PublisherPart!PublisherInv

\* A session is closed: its records are given up.
LEMMA GivenUpCalls ==
    ASSUME PublisherPart!PublisherInv, NEW s, NEW d \in Actor
    PROVE  /\ PublisherPart!Accounted(d, PublisherPart!GivenUp(call, s)[d], active, broker)
           /\ PublisherPart!GivenUp(call, s)[d].pc = call[d].pc
           /\ PublisherPart!GivenUp(call, s)[d].session = call[d].session
           /\ call[d].session = s => PublisherPart!GivenUp(call, s)[d].result # "pending"
<1> DEFINE y == PublisherPart!GivenUp(call, s)[d]
<1>0. PublisherPart!Accounted(d, call[d], active, broker)
    BY AtCall
<1>1. y = IF call[d].session = s /\ call[d].result = "pending"
          THEN [call[d] EXCEPT !.result = "failed"] ELSE call[d]
    BY DEF PublisherPart!GivenUp
<1>2. CASE call[d].session = s /\ call[d].result = "pending"
    <2>1. /\ DOMAIN y = DOMAIN call[d] /\ y.pc = call[d].pc /\ y.session = call[d].session
          /\ y.result = "failed" /\ y.returned = call[d].returned
        BY <1>0, <1>1, <1>2 DEF PublisherPart!Accounted
    <2> HIDE DEF y
    <2>2. PublisherPart!Accounted(d, y, active, broker)
        BY <1>0, <2>1 DEF PublisherPart!Accounted
    <2>3. QED BY <2>1, <2>2 DEF y
<1>3. CASE ~(call[d].session = s /\ call[d].result = "pending")
    BY <1>0, <1>1, <1>3
<1>4. QED BY <1>2, <1>3

LEMMA CloseSessionStep ==
    ASSUME PublisherPart!PublisherInv, NEW c \in Actor, PublisherPart!CloseSession(c)
    PROVE  PublisherPart!PublisherInv'
<1> DEFINE s == call[c].session
           g == PublisherPart!GivenUp(call, s)
           y == call'[c]
<1>1. /\ call[c].pc = "close" /\ open' = open \ {s}
      /\ call' = [g EXCEPT ![c].pc = "leave", ![c].returned = "error"]
      /\ UNCHANGED <<client, used, publisherClosed, closer, mine, active, permits, broker>>
    BY DEF PublisherPart!CloseSession, PublisherPart!At
<1>2. g = [d \in Actor |-> g[d]]
    BY DEF PublisherPart!GivenUp
<1>3. /\ \A d \in Actor : PublisherPart!Accounted(d, g[d], active, broker)
      /\ \A d \in Actor : g[d].pc = call[d].pc /\ g[d].session = call[d].session
      /\ g[c].result # "pending"
    BY GivenUpCalls
<1>4. DOMAIN g[c] = {"pc", "session", "expired", "result", "returned"}
    BY <1>3 DEF PublisherPart!Accounted
<1> HIDE DEF g
<1>5. /\ call' = [d \in Actor |-> call'[d]] /\ \A d \in Actor : d # c => call'[d] = g[d]
      /\ DOMAIN y = DOMAIN g[c] /\ y.result = g[c].result /\ y.session = g[c].session
      /\ y.pc = "leave" /\ y.returned = "error"
    BY <1>1, <1>2, <1>4
<1> HIDE DEF y
<1>6. PublisherPart!Accounted(c, y, active', broker')
    <2>1. c \in active
        BY <1>1, <1>3 DEF PublisherPart!Accounted, PublisherPart!Begun
    <2>2. QED BY <1>1, <1>3, <1>5, <2>1 DEF PublisherPart!Accounted, PublisherPart!Begun
<1>7. \A d \in Actor : PublisherPart!Accounted(d, call[d], active, broker)'
    BY <1>1, <1>3, <1>5, <1>6 DEF y
<1>8. ASSUME NEW u \in open, u # s PROVE PublisherPart!Covered(u)'
    <2>1. PublisherPart!Covered(u)
        BY DEF PublisherPart!PublisherInv
    <2>2. ASSUME NEW d \in Actor, call[d].pc = "close", call[d].session = u
          PROVE  PublisherPart!Covered(u)'
        BY <1>3, <1>5, <1>8, <2>2 DEF PublisherPart!Covered, PublisherPart!At
    <2>3. QED BY <1>1, <2>1, <2>2 DEF PublisherPart!Covered, PublisherPart!At
<1>9. closer # "done"
    BY <1>1 DEF PublisherPart!PublisherInv
<1>10. QED BY <1>1, <1>5, <1>7, <1>8, <1>9 DEF PublisherPart!PublisherInv

\* Close takes the current session, closes it, and waits for the calls.
LEMMA CloserSteps ==
    ASSUME PublisherPart!PublisherInv,
           PublisherPart!BeginClose \/ PublisherPart!CloseMine \/ PublisherPart!EndClose
    PROVE  PublisherPart!PublisherInv'
<1>1. CASE PublisherPart!BeginClose
    <2>1. /\ closer = "no" /\ closer' = "closing" /\ publisherClosed' = TRUE /\ mine' = client /\ client' = None
          /\ UNCHANGED <<open, used, active, permits, call, broker>>
        BY <1>1 DEF PublisherPart!BeginClose
    <2>2. \A u \in open' : PublisherPart!Covered(u)'
        BY <2>1 DEF PublisherPart!PublisherInv, PublisherPart!Covered, PublisherPart!At
    <2>3. QED BY <2>1, <2>2 DEF PublisherPart!PublisherInv
<1>2. CASE PublisherPart!CloseMine
    <2> DEFINE g == PublisherPart!GivenUp(call, mine)
    <2>1. /\ closer = "closing" /\ closer' = "waiting" /\ open' = open \ {mine} /\ call' = g
          /\ UNCHANGED <<client, used, publisherClosed, mine, active, permits, broker>>
        BY <1>2 DEF PublisherPart!CloseMine
    <2>2. g = [d \in Actor |-> g[d]]
        BY DEF PublisherPart!GivenUp
    <2>3. /\ \A d \in Actor : PublisherPart!Accounted(d, g[d], active, broker)
          /\ \A d \in Actor : g[d].pc = call[d].pc /\ g[d].session = call[d].session
        BY GivenUpCalls
    <2> HIDE DEF g
    <2>4. \A d \in Actor : PublisherPart!Accounted(d, call[d], active, broker)'
        BY <2>1, <2>3
    <2>5. ASSUME NEW u \in open, u # mine PROVE PublisherPart!Covered(u)'
        <3>1. PublisherPart!Covered(u)
            BY DEF PublisherPart!PublisherInv
        <3>2. QED BY <2>1, <2>3, <2>5, <3>1 DEF PublisherPart!Covered, PublisherPart!At
    <2>6. QED BY <2>1, <2>2, <2>4, <2>5 DEF PublisherPart!PublisherInv
<1>3. CASE PublisherPart!EndClose
    <2>1. /\ closer = "waiting" /\ closer' = "done" /\ active = {}
          /\ UNCHANGED <<client, open, used, publisherClosed, mine, active, permits, call, broker>>
        BY <1>3 DEF PublisherPart!EndClose
    <2>2. \A d \in Actor : call[d].pc \in {"new", "ended"}
        BY <2>1 DEF PublisherPart!PublisherInv, PublisherPart!Accounted
    <2>3. open = {}
        <3>1. ASSUME NEW u \in open PROVE FALSE
            <4>1. u # None
                BY ServiceAssumption DEF PublisherPart!PublisherInv
            <4>2. QED BY <2>1, <2>2, <4>1 DEF PublisherPart!PublisherInv, PublisherPart!Covered, PublisherPart!At
        <3>2. QED BY <3>1
    <2>4. QED BY <2>1, <2>2, <2>3 DEF PublisherPart!PublisherInv
<1>4. QED BY <1>1, <1>2, <1>3

\* PublisherInv is inductive.
LEMMA PublisherStep ==
    ASSUME PublisherPart!PublisherInv, PublisherPart!Next \/ UNCHANGED publisherVars
    PROVE  PublisherPart!PublisherInv'
<1>1. CASE UNCHANGED publisherVars
    BY <1>1 DEF publisherVars, PublisherPart!PublisherInv, PublisherPart!Covered, PublisherPart!At
<1>2. CASE PublisherPart!Next
    <2>1. ASSUME NEW c \in Actor,
                 \/ PublisherPart!Begin(c) \/ PublisherPart!TakePermit(c) \/ PublisherPart!NoPermit(c)
                 \/ PublisherPart!Acquire(c) \/ PublisherPart!Produce(c) \/ PublisherPart!Write(c)
                 \/ PublisherPart!Receive(c) \/ PublisherPart!GiveUp(c) \/ PublisherPart!Invalidate(c)
                 \/ PublisherPart!CloseSession(c) \/ PublisherPart!Leave(c) \/ PublisherPart!Expire(c)
                 \/ \E ok \in BOOLEAN : PublisherPart!Report(c, ok)
          PROVE  PublisherPart!PublisherInv'
        BY <2>1, PublishSteps, PermitSteps, AcquireStep, InvalidateStep, CloseSessionStep
    <2>2. QED BY <1>2, <2>1, CloserSteps DEF PublisherPart!Next
<1>3. QED BY <1>1, <1>2

LEMMA PublisherStart ==
    ASSUME PublisherPart!Init
    PROVE  PublisherPart!PublisherInv
<1> USE DEF PublisherPart!Init
<1>1. \A c \in Actor : PublisherPart!Accounted(c, call[c], active, broker)
    BY DEF PublisherPart!Accounted, PublisherPart!Begun
<1>2. PublisherPart!IsFiniteSet({}) /\ PublisherPart!Cardinality({}) <= Permits
    BY PartCardinality, FS_EmptySet, ServiceAssumption
<1>3. QED BY <1>1, <1>2 DEF PublisherPart!PublisherInv

\* However the calls of Publish, the deadlines, the results of the client and Close
\* interleave, for any number of calls and sessions and any number of permits: Publish
\* reports success only for an acknowledged record, no record can still be written once
\* its call has returned, and no session outlives Close.
THEOREM PublishedIsAcknowledged == Spec => []NoLateWrite
<1>1. Init => PublisherPart!PublisherInv
    BY PublisherStart DEF Init
<1>2. PublisherPart!PublisherInv /\ [Next]_vars => PublisherPart!PublisherInv'
    BY PartStep, PublisherStep
<1>3. PublisherPart!PublisherInv => NoLateWrite
    <2>1. SUFFICES ASSUME PublisherPart!PublisherInv PROVE PublisherPart!NoLateWrite
        BY DEF NoLateWrite
    <2>2. ASSUME NEW c \in Actor
          PROVE  /\ call[c].returned = "success" => c \in broker
                 /\ call[c].pc \in {"leave", "ended"} => c \notin PublisherPart!Held
        BY <2>1 DEF PublisherPart!PublisherInv, PublisherPart!Accounted, PublisherPart!Held
    <2>3. QED BY <2>1, <2>2 DEF PublisherPart!PublisherInv, PublisherPart!Covered, PublisherPart!NoLateWrite
<1>4. QED BY <1>1, <1>2, <1>3, PTL DEF Spec

-----------------------------------------------------------------------------
(***************************************************************************)
(* The process.                                                            *)
(***************************************************************************)

\* A task that returns has failed, or the service was asked to end; the HTTP task
\* returns after its handlers, or fails.
LEMMA ProcessSteps ==
    ASSUME ProcessPart!ProcessInv, ProcessPart!Next
    PROVE  ProcessPart!ProcessInv'
<1> USE DEF ProcessPart!ProcessInv, ProcessPart!Returned, ProcessPart!Lifetime, ProcessPart!Server,
            ProcessPart!Active, ProcessPart!Task
<1>1. CASE ProcessPart!Start
    BY <1>1 DEF ProcessPart!Start
<1>2. CASE ProcessPart!StartFails
    BY <1>2 DEF ProcessPart!StartFails
<1>3. CASE ProcessPart!RunTasks
    BY <1>3 DEF ProcessPart!RunTasks
<1>4. CASE ProcessPart!Signal
    BY <1>4 DEF ProcessPart!Signal
<1>5. CASE ProcessPart!Propagate
    BY <1>5 DEF ProcessPart!Propagate
<1>6. CASE ProcessPart!AllReturned
    BY <1>6 DEF ProcessPart!AllReturned
<1>7. CASE ProcessPart!HealthReturns
    BY <1>7 DEF ProcessPart!HealthReturns, ProcessPart!Settled
<1>8. CASE ProcessPart!BeginDelivery
    BY <1>8 DEF ProcessPart!BeginDelivery
<1>9. CASE ProcessPart!EndDelivery
    BY <1>9 DEF ProcessPart!EndDelivery
<1>10. CASE ProcessPart!KafkaReturns
    BY <1>10 DEF ProcessPart!KafkaReturns, ProcessPart!Settled
<1>11. CASE ProcessPart!BeginShutdown
    BY <1>11 DEF ProcessPart!BeginShutdown
<1>12. CASE ProcessPart!ServeFails
    BY <1>12 DEF ProcessPart!ServeFails
<1>13. CASE ProcessPart!Close
    BY <1>13 DEF ProcessPart!Close
<1>14. CASE ProcessPart!Exit
    BY <1>14 DEF ProcessPart!Exit
<1>15. ASSUME NEW t \in ProcessPart!Task, ProcessPart!Collect(t) PROVE ProcessPart!ProcessInv'
    BY <1>15 DEF ProcessPart!Collect
<1>16. ASSUME NEW late \in BOOLEAN, ProcessPart!EndShutdown(late) PROVE ProcessPart!ProcessInv'
    BY <1>16 DEF ProcessPart!EndShutdown
<1>17. ASSUME NEW late \in BOOLEAN, ProcessPart!EndDrain(late) PROVE ProcessPart!ProcessInv'
    <2>1. /\ http = "draining" /\ http' = "returned" /\ task' = [task EXCEPT !["http"] = "sent"]
          /\ UNCHANGED <<phase, stage, opened, signal, ended, trouble, stopped, request, busy>>
        BY <1>17 DEF ProcessPart!EndDrain, ProcessPart!Settled
    <2>2. failed \subseteq failed' /\ (late => "http" \in failed')
        BY <1>17 DEF ProcessPart!EndDrain, ProcessPart!Settled
    <2>3. "http" \in failed' \/ signal \/ ended
        BY <1>17 DEF ProcessPart!EndDrain, ProcessPart!Settled
    <2>4. ProcessPart!Active = {} \/ "http" \in failed'
        BY <1>17, <2>2 DEF ProcessPart!EndDrain
    <2>5. ProcessPart!Active' = ProcessPart!Active
        BY <2>1
    <2> HIDE DEF ProcessPart!Active
    <2>6. task["http"] = "running" /\ phase = "running"
        BY <2>1
    <2>7. /\ task' = [t \in ProcessPart!Task |-> task'[t]] /\ task'["http"] = "sent"
          /\ \A t \in ProcessPart!Task : t # "http" => task'[t] = task[t]
        BY <2>1
    <2>8. QED BY <2>1, <2>2, <2>3, <2>4, <2>5, <2>6, <2>7
<1>18. ASSUME NEW t \in ProcessPart!Task, NEW err \in {"nil", "error"}, ProcessPart!TaskFails(t, err)
       PROVE  ProcessPart!ProcessInv'
    BY <1>18 DEF ProcessPart!TaskFails, ProcessPart!Settled
<1>19. ASSUME NEW r \in Request, ProcessPart!Arrive(r) PROVE ProcessPart!ProcessInv'
    BY <1>19 DEF ProcessPart!Arrive
<1>20. ASSUME NEW r \in Request, ProcessPart!Finish(r) PROVE ProcessPart!ProcessInv'
    BY <1>20 DEF ProcessPart!Finish
<1>21. QED
    BY <1>1, <1>2, <1>3, <1>4, <1>5, <1>6, <1>7, <1>8, <1>9, <1>10, <1>11, <1>12, <1>13, <1>14, <1>15, <1>16, <1>17, <1>18, <1>19, <1>20
       DEF ProcessPart!Next, ProcessPart!Steps, ProcessPart!Deadlines

\* For any set of requests and any of them hijacked, whatever stage or task fails and
\* whenever the signal comes: nothing a task uses is closed while the task runs, and the
\* process ends with code 0 only after a signal and with every request answered.
THEOREM ExitCodeIsHonest == Spec => []ExitIsHonest
<1>1. Init => ProcessPart!ProcessInv
    <2>1. ProcessPart!Init => ProcessPart!Active = {} /\ {signal, ended, busy, trouble, stopped} \subseteq BOOLEAN
        BY DEF ProcessPart!Init, ProcessPart!Active
    <2>2. QED BY <2>1 DEF Init, ProcessPart!Init, ProcessPart!ProcessInv, ProcessPart!Returned, ProcessPart!Task
<1>2. ProcessPart!ProcessInv /\ [Next]_vars => ProcessPart!ProcessInv'
    <2>1. SUFFICES ASSUME ProcessPart!ProcessInv, [Next]_vars PROVE ProcessPart!ProcessInv'
        OBVIOUS
    <2>2. CASE UNCHANGED processVars
        BY <2>1, <2>2 DEF processVars, ProcessPart!ProcessInv, ProcessPart!Returned, ProcessPart!Active
    <2>3. QED BY <2>1, <2>2, PartStep, ProcessSteps
<1>3. ProcessPart!ProcessInv => ExitIsHonest
    <2>1. SUFFICES ASSUME ProcessPart!ProcessInv PROVE ProcessPart!ExitIsHonest
        BY DEF ExitIsHonest
    <2> USE DEF ProcessPart!ProcessInv, ProcessPart!Returned
    <2>2. (\E t \in ProcessPart!Task : task[t] = "collected") => signal \/ ended
        BY <2>1
    <2>3. ASSUME phase \in {"cleanup", "exited"}
          PROVE  /\ \A t \in ProcessPart!Task : task[t] \in {"new", "collected"}
                 /\ ~busy /\ (ProcessPart!Active # {} => "http" \in failed)
        BY <2>1, <2>3 DEF ProcessPart!Task
    <2>4. phase = "exited" => opened = <<>> /\ (failed = {} => signal /\ ProcessPart!Active = {})
        BY <2>1, <2>3
    <2>5. QED BY <2>2, <2>3, <2>4 DEF ProcessPart!ExitIsHonest, ProcessPart!ExitCode
<1>4. QED BY <1>1, <1>2, <1>3, PTL DEF Spec

-----------------------------------------------------------------------------
(***************************************************************************)
(* The key source.                                                         *)
(***************************************************************************)

\* A step of one request: a refresh begins only when none is under way.
LEMMA RequestStep ==
    ASSUME KeysPart!SourceInv, NEW r \in Actor, NEW y, tokens' = [tokens EXCEPT ![r] = y],
           KeysPart!IsRequest(y), published' = published, withdrawn' = withdrawn,
           keysClosed' = keysClosed, keys' \in KeysPart!KeySets, loaded' \in 0 .. ExpireAfter,
           keysClosed => keys' = KeysPart!NoKeys, refreshing' \in BOOLEAN,
           \A p \in KeysPart!Pairs : keys'[p[1]] = p[2] =>
              loaded' = ExpireAfter \/ withdrawn[p] <= loaded' + ReadTimeout,
           \A p \in KeysPart!Pairs :
              y.pc = "install" /\ y.document[p[1]] = p[2] /\ y.reading <= ReadTimeout =>
                 withdrawn[p] <= y.reading,
           y.pc = "accepted" => y.lag < ExpireAfter + ReadTimeout,
           \/ refreshing' = refreshing /\ (y.pc \in {"read", "install"} <=> tokens[r].pc \in {"read", "install"})
           \/ ~refreshing /\ refreshing' /\ y.pc \in {"read", "install"}
           \/ ~refreshing' /\ tokens[r].pc \in {"read", "install"} /\ y.pc \notin {"read", "install"}
    PROVE  KeysPart!SourceInv'
<1> USE DEF KeysPart!SourceInv
<1>1. /\ tokens' = [q \in Actor |-> tokens'[q]] /\ tokens'[r] = y
      /\ \A q \in Actor : q # r => tokens'[q] = tokens[q]
    OBVIOUS
<1>2. \A q \in Actor : KeysPart!IsRequest(tokens'[q])
    BY <1>1
<1>3. \A q \in Actor, p \in KeysPart!Pairs :
         tokens'[q].pc = "install" /\ tokens'[q].document[p[1]] = p[2] /\ tokens'[q].reading <= ReadTimeout =>
            withdrawn'[p] <= tokens'[q].reading
    BY <1>1 DEF KeysPart!At
<1>4. \A q \in Actor : tokens'[q].pc = "accepted" => tokens'[q].lag < ExpireAfter + ReadTimeout
    BY <1>1 DEF KeysPart!At
<1>5. refreshing' = (KeysPart!Refreshes' # {}) /\ \A q, s \in KeysPart!Refreshes' : q = s
    <2>1. CASE refreshing' = refreshing /\ (y.pc \in {"read", "install"} <=> tokens[r].pc \in {"read", "install"})
        <3>1. KeysPart!Refreshes' = KeysPart!Refreshes
            BY <1>1, <2>1 DEF KeysPart!Refreshes
        <3>2. QED BY <2>1, <3>1
    <2>2. CASE ~refreshing /\ refreshing' /\ y.pc \in {"read", "install"}
        <3>1. KeysPart!Refreshes' = {r}
            BY <1>1, <2>2 DEF KeysPart!Refreshes
        <3>2. QED BY <2>2, <3>1
    <2>3. CASE ~refreshing' /\ tokens[r].pc \in {"read", "install"} /\ y.pc \notin {"read", "install"}
        <3>1. KeysPart!Refreshes' = {}
            BY <1>1, <2>3 DEF KeysPart!Refreshes
        <3>2. QED BY <2>3, <3>1
    <2>4. QED BY <2>1, <2>2, <2>3
<1>6. QED BY <1>1, <1>2, <1>3, <1>4, <1>5 DEF KeysPart!At

\* The requests before a step.
LEMMA AtRequest ==
    ASSUME KeysPart!SourceInv, NEW r \in Actor
    PROVE  /\ KeysPart!IsRequest(tokens[r]) /\ tokens = [q \in Actor |-> tokens[q]]
           /\ DOMAIN tokens[r] = {"pc", "id", "by", "document", "reading", "canceled", "lag"}
           /\ keys \in KeysPart!KeySets /\ loaded \in 0 .. ExpireAfter /\ refreshing \in BOOLEAN
           /\ withdrawn \in [KeysPart!Pairs -> Nat] /\ published \in KeysPart!KeySets
           /\ keysClosed => keys = KeysPart!NoKeys
           /\ ExpireAfter \in Nat /\ ReadTimeout \in Nat
           /\ KeysPart!NoKeys \in KeysPart!KeySets
           /\ \A p \in KeysPart!Pairs : published[p[1]] = p[2] => withdrawn[p] = 0
           /\ \A p \in KeysPart!Pairs : keys[p[1]] = p[2] =>
                 loaded = ExpireAfter \/ withdrawn[p] <= loaded + ReadTimeout
           /\ tokens[r].pc \in {"read", "install"} => refreshing
BY ServiceAssumption DEF KeysPart!SourceInv, KeysPart!IsRequest, KeysPart!Refreshes, KeysPart!NoKeys,
       KeysPart!KeySets

\* A request that has not used the cache yet, and does not refresh it.
LEMMA QuietRequest ==
    ASSUME KeysPart!SourceInv, NEW r \in Actor, NEW y, tokens' = [tokens EXCEPT ![r] = y],
           KeysPart!IsRequest(y), y.pc \notin {"install", "accepted"},
           y.pc = "read" <=> tokens[r].pc \in {"read", "install"},
           UNCHANGED <<keys, loaded, refreshing, keysClosed, published, withdrawn>>
    PROVE  KeysPart!SourceInv'
<1>1. /\ published' = published /\ withdrawn' = withdrawn /\ keysClosed' = keysClosed
      /\ keys' = keys /\ loaded' = loaded /\ refreshing' = refreshing
    OBVIOUS
<1>2. QED BY <1>1, AtRequest, RequestStep

\* Verify and refresh, but for the steps that install keys and that accept a token.
LEMMA RequestSteps ==
    ASSUME KeysPart!SourceInv, NEW r \in Actor,
           \/ \E id \in KeyID, by \in Token \cup {None} : KeysPart!Look(r, id, by)
           \/ KeysPart!Malformed(r) \/ KeysPart!BeginRefresh(r) \/ KeysPart!Cancel(r)
           \/ \E answers \in BOOLEAN : KeysPart!Read(r, answers)
    PROVE  KeysPart!SourceInv'
<1> DEFINE x == tokens[r]
           y == tokens'[r]
<1> USE DEF KeysPart!At, KeysPart!Go, KeysPart!Cache, KeysPart!World
<1>0. /\ KeysPart!IsRequest(x) /\ tokens = [q \in Actor |-> tokens[q]]
      /\ DOMAIN x = {"pc", "id", "by", "document", "reading", "canceled", "lag"}
      /\ published \in KeysPart!KeySets /\ KeysPart!NoKeys \in KeysPart!KeySets
      /\ \A p \in KeysPart!Pairs : published[p[1]] = p[2] => withdrawn[p] = 0
    BY AtRequest
<1>1. ASSUME NEW id \in KeyID, NEW by, KeysPart!Look(r, id, by) PROVE KeysPart!SourceInv'
    <2>1. /\ tokens' = [tokens EXCEPT ![r] = y] /\ DOMAIN y = DOMAIN x /\ y.id = id
          /\ y.document = x.document /\ y.reading = x.reading /\ y.canceled = x.canceled /\ y.lag = x.lag
          /\ x.pc = "new" /\ y.pc \in {"refused", "refresh", "use"}
          /\ UNCHANGED <<keys, loaded, refreshing, keysClosed, published, withdrawn>>
        BY <1>0, <1>1 DEF KeysPart!Look
    <2> HIDE DEF y
    <2>2. KeysPart!IsRequest(y)
        BY <1>0, <2>1 DEF KeysPart!IsRequest
    <2>3. QED BY <2>1, <2>2, QuietRequest
<1>2. CASE KeysPart!Malformed(r)
    <2>1. /\ tokens' = [tokens EXCEPT ![r] = y] /\ DOMAIN y = DOMAIN x /\ y.id = x.id
          /\ y.document = x.document /\ y.reading = x.reading /\ y.canceled = x.canceled /\ y.lag = x.lag
          /\ x.pc = "new" /\ y.pc = "refused"
          /\ UNCHANGED <<keys, loaded, refreshing, keysClosed, published, withdrawn>>
        BY <1>0, <1>2 DEF KeysPart!Malformed
    <2> HIDE DEF y
    <2>2. KeysPart!IsRequest(y)
        BY <1>0, <2>1 DEF KeysPart!IsRequest
    <2>3. QED BY <2>1, <2>2, QuietRequest
<1>3. CASE KeysPart!BeginRefresh(r)
    <2>1. /\ x.pc = "refresh" /\ UNCHANGED <<keys, loaded, keysClosed, published, withdrawn>>
          /\ \/ tokens' = [tokens EXCEPT ![r].pc = "use"] /\ refreshing' = refreshing
             \/ /\ ~refreshing /\ refreshing' = TRUE
                /\ tokens' = [tokens EXCEPT ![r].pc = "read", ![r].reading = 0]
        BY <1>3 DEF KeysPart!BeginRefresh
    <2>2. CASE tokens' = [tokens EXCEPT ![r].pc = "use"] /\ refreshing' = refreshing
        <3>1. /\ tokens' = [tokens EXCEPT ![r] = y] /\ DOMAIN y = DOMAIN x /\ y.id = x.id
              /\ y.document = x.document /\ y.reading = x.reading /\ y.canceled = x.canceled /\ y.lag = x.lag
              /\ y.pc = "use"
            BY <1>0, <2>2
        <3> HIDE DEF y
        <3>2. KeysPart!IsRequest(y)
            BY <1>0, <3>1 DEF KeysPart!IsRequest
        <3>3. QED BY <2>1, <2>2, <3>1, <3>2, QuietRequest
    <2>3. CASE ~refreshing /\ refreshing' = TRUE /\ tokens' = [tokens EXCEPT ![r].pc = "read", ![r].reading = 0]
        <3>1. /\ tokens' = [tokens EXCEPT ![r] = y] /\ DOMAIN y = DOMAIN x /\ y.id = x.id
              /\ y.document = x.document /\ y.reading = 0 /\ y.canceled = x.canceled /\ y.lag = x.lag
              /\ y.pc = "read"
            BY <1>0, <2>3
        <3> HIDE DEF y
        <3>2. KeysPart!IsRequest(y)
            BY <1>0, <3>1 DEF KeysPart!IsRequest
        <3>3. refreshing' \in BOOLEAN /\ refreshing' /\ ~refreshing
            BY <2>3
        <3>4. /\ published' = published /\ withdrawn' = withdrawn /\ keysClosed' = keysClosed
              /\ keys' = keys /\ loaded' = loaded
            BY <2>1
        <3>5. QED BY <3>1, <3>2, <3>3, <3>4, AtRequest, RequestStep
    <2>4. QED BY <2>1, <2>2, <2>3
<1>4. CASE KeysPart!Cancel(r)
    <2>1. /\ tokens' = [tokens EXCEPT ![r] = y] /\ DOMAIN y = DOMAIN x /\ y.id = x.id
          /\ y.document = x.document /\ y.reading = x.reading /\ y.canceled = TRUE /\ y.lag = x.lag
          /\ x.pc \in {"refresh", "read", "install", "use"} /\ y.pc = x.pc
          /\ UNCHANGED <<keys, loaded, refreshing, keysClosed, published, withdrawn>>
        BY <1>0, <1>4 DEF KeysPart!Cancel
    <2> HIDE DEF y
    <2>2. KeysPart!IsRequest(y)
        BY <1>0, <2>1 DEF KeysPart!IsRequest
    <2>3. CASE x.pc # "install"
        BY <2>1, <2>2, <2>3, QuietRequest
    <2>4. CASE x.pc = "install"
        <3>1. \A p \in KeysPart!Pairs :
                 y.document[p[1]] = p[2] /\ y.reading <= ReadTimeout => withdrawn[p] <= y.reading
            BY <2>1, <2>4 DEF KeysPart!SourceInv
        <3>2. /\ published' = published /\ withdrawn' = withdrawn /\ keysClosed' = keysClosed
              /\ keys' = keys /\ loaded' = loaded /\ refreshing' = refreshing
              /\ y.pc = "install" /\ y.pc # "accepted"
            BY <2>1, <2>4
        <3>3. QED BY <2>1, <2>2, <2>4, <3>1, <3>2, AtRequest, RequestStep
    <2>5. QED BY <2>3, <2>4
<1>5. ASSUME NEW answers \in BOOLEAN, KeysPart!Read(r, answers) PROVE KeysPart!SourceInv'
    <2>1. /\ tokens' = [tokens EXCEPT ![r] = y] /\ DOMAIN y = DOMAIN x /\ y.id = x.id
          /\ y.reading = x.reading /\ y.canceled = x.canceled /\ y.lag = x.lag
          /\ x.pc = "read" /\ y.pc = "install" /\ y.document = IF answers THEN published ELSE KeysPart!NoKeys
          /\ UNCHANGED <<keys, loaded, refreshing, keysClosed, published, withdrawn>>
        BY <1>0, <1>5 DEF KeysPart!Read
    <2> HIDE DEF y
    <2>2. y.document \in KeysPart!KeySets
        BY <1>0, <2>1
    <2>3. KeysPart!IsRequest(y)
        BY <1>0, <2>1, <2>2 DEF KeysPart!IsRequest
    <2>4. ASSUME NEW p \in KeysPart!Pairs, y.document[p[1]] = p[2] PROVE withdrawn[p] <= y.reading
        <3>1. p[1] \in KeyID /\ p[2] # None
            BY ServiceAssumption DEF KeysPart!Pairs
        <3>2. y.document = published
            BY <2>1, <2>4, <3>1 DEF KeysPart!NoKeys
        <3>3. QED BY <1>0, <2>1, <2>4, <3>2 DEF KeysPart!IsRequest
    <2>5. /\ published' = published /\ withdrawn' = withdrawn /\ keysClosed' = keysClosed
          /\ keys' = keys /\ loaded' = loaded /\ refreshing' = refreshing
          /\ y.pc = "install" /\ y.pc # "accepted"
        BY <2>1
    <2>6. QED BY <2>1, <2>3, <2>4, <2>5, AtRequest, RequestStep
<1>6. QED BY <1>1, <1>2, <1>3, <1>4, <1>5

\* refresh installs a document that is not older than the read.
LEMMA EndRefreshStep ==
    ASSUME KeysPart!SourceInv, NEW r \in Actor, KeysPart!EndRefresh(r)
    PROVE  KeysPart!SourceInv'
<1> DEFINE x == tokens[r]
           y == tokens'[r]
           fails == x.document = KeysPart!NoKeys \/ x.canceled \/ x.reading > ReadTimeout \/ keysClosed
<1>0. /\ KeysPart!IsRequest(x) /\ tokens = [q \in Actor |-> tokens[q]]
      /\ DOMAIN x = {"pc", "id", "by", "document", "reading", "canceled", "lag"}
      /\ KeysPart!NoKeys \in KeysPart!KeySets /\ ExpireAfter \in Nat /\ ReadTimeout \in Nat
      /\ withdrawn \in [KeysPart!Pairs -> Nat]
    BY AtRequest
<1>1. /\ x.pc = "install" /\ refreshing' = FALSE /\ UNCHANGED <<attempted, keysClosed, published, withdrawn>>
      /\ tokens' = [tokens EXCEPT ![r].pc = "use", ![r].document = KeysPart!NoKeys, ![r].reading = 0]
      /\ keys' = IF fails THEN keys ELSE x.document
      /\ loaded' = IF fails THEN loaded ELSE 0
    BY DEF KeysPart!EndRefresh, KeysPart!At, KeysPart!World
<1>2. /\ tokens' = [tokens EXCEPT ![r] = y] /\ DOMAIN y = DOMAIN x /\ y.id = x.id
      /\ y.document = KeysPart!NoKeys /\ y.reading = 0 /\ y.canceled = x.canceled /\ y.lag = x.lag
      /\ y.pc = "use"
    BY <1>0, <1>1
<1> HIDE DEF y
<1>3. KeysPart!IsRequest(y)
    BY <1>0, <1>2 DEF KeysPart!IsRequest
<1>4. CASE fails
    <2>1. /\ published' = published /\ withdrawn' = withdrawn /\ keysClosed' = keysClosed
          /\ keys' = keys /\ loaded' = loaded /\ refreshing' \in BOOLEAN /\ ~refreshing'
        BY <1>1, <1>4
    <2>2. /\ keys' \in KeysPart!KeySets /\ loaded' \in 0 .. ExpireAfter
          /\ keysClosed => keys' = KeysPart!NoKeys
          /\ \A p \in KeysPart!Pairs : keys'[p[1]] = p[2] =>
                loaded' = ExpireAfter \/ withdrawn[p] <= loaded' + ReadTimeout
        BY <2>1, AtRequest
    <2>3. x.pc \in {"read", "install"} /\ y.pc \notin {"read", "install", "accepted"}
        BY <1>1, <1>2
    <2> HIDE DEF fails
    <2>4. QED BY <1>2, <1>3, <2>1, <2>2, <2>3, RequestStep
<1>5. CASE ~fails
    <2>1. /\ published' = published /\ withdrawn' = withdrawn /\ keysClosed' = keysClosed /\ ~keysClosed
          /\ keys' = x.document /\ loaded' = 0
          /\ x.reading <= ReadTimeout /\ x.document \in KeysPart!KeySets /\ loaded' \in 0 .. ExpireAfter
        <3>1. ~keysClosed /\ ~(x.reading > ReadTimeout)
            BY <1>5
        <3>2. x.reading \in Nat /\ x.document \in KeysPart!KeySets
            BY <1>0 DEF KeysPart!IsRequest
        <3> HIDE DEF fails
        <3>3. keys' = x.document /\ loaded' = 0
            BY <1>1, <1>5
        <3>4. loaded' \in 0 .. ExpireAfter /\ x.reading <= ReadTimeout
            BY <1>0, <3>1, <3>2, <3>3
        <3>5. QED BY <1>1, <3>1, <3>2, <3>3, <3>4
    <2>2. ASSUME NEW p \in KeysPart!Pairs, keys'[p[1]] = p[2]
          PROVE  withdrawn[p] <= loaded' + ReadTimeout
        <3>1. withdrawn[p] <= x.reading
            BY <1>1, <2>1, <2>2 DEF KeysPart!SourceInv, KeysPart!At
        <3>2. QED BY <1>0, <2>1, <3>1 DEF KeysPart!IsRequest
    <2>3. refreshing' \in BOOLEAN /\ ~refreshing'
        BY <1>1
    <2>4. x.pc \in {"read", "install"} /\ y.pc \notin {"read", "install", "accepted"}
        BY <1>1, <1>2
    <2> HIDE DEF fails
    <2>5. QED BY <1>2, <1>3, <2>1, <2>2, <2>3, <2>4, RequestStep
<1>6. QED BY <1>4, <1>5

\* Verify accepts a token with a key that is in the cache.
LEMMA UseStep ==
    ASSUME KeysPart!SourceInv, NEW r \in Actor, KeysPart!Use(r)
    PROVE  KeysPart!SourceInv'
<1> DEFINE x == tokens[r]
           y == tokens'[r]
           key == keys[x.id]
           passes == (~keysClosed /\ loaded < ExpireAfter) /\ key # None /\ ~x.canceled /\ key = x.by
<1>0. /\ KeysPart!IsRequest(x) /\ tokens = [q \in Actor |-> tokens[q]]
      /\ keys \in KeysPart!KeySets /\ loaded \in 0 .. ExpireAfter /\ refreshing \in BOOLEAN
      /\ withdrawn \in [KeysPart!Pairs -> Nat] /\ ExpireAfter \in Nat /\ ReadTimeout \in Nat
      /\ KeysPart!NoKeys \in KeysPart!KeySets
      /\ \A p \in KeysPart!Pairs : keys[p[1]] = p[2] =>
            loaded = ExpireAfter \/ withdrawn[p] <= loaded + ReadTimeout
    BY AtRequest
<1>1. /\ x.pc = "use" /\ UNCHANGED <<keys, loaded, attempted, refreshing, keysClosed, published, withdrawn>>
      /\ tokens' = [tokens EXCEPT ![r] =
            IF passes THEN [KeysPart!NewRequest EXCEPT !.pc = "accepted", !.lag = withdrawn[<<x.id, key>>]]
            ELSE [KeysPart!NewRequest EXCEPT !.pc = "refused"]]
    BY DEF KeysPart!Use, KeysPart!At, KeysPart!World, KeysPart!Cache
<1>2. /\ KeysPart!IsRequest(KeysPart!NewRequest)
      /\ DOMAIN KeysPart!NewRequest = {"pc", "id", "by", "document", "reading", "canceled", "lag"}
    <2>1. KeyID # {}
        BY ServiceAssumption
    <2>2. (CHOOSE id \in KeyID : TRUE) \in KeyID
        BY <2>1
    <2>3. QED BY <1>0, <2>2 DEF KeysPart!IsRequest, KeysPart!NewRequest
<1>3. /\ published' = published /\ withdrawn' = withdrawn /\ keysClosed' = keysClosed
      /\ keys' = keys /\ loaded' = loaded /\ refreshing' = refreshing
    BY <1>1
<1>4. CASE passes
    <2>1. y = [KeysPart!NewRequest EXCEPT !.pc = "accepted", !.lag = withdrawn[<<x.id, key>>]]
          /\ tokens' = [tokens EXCEPT ![r] = y]
        BY <1>0, <1>1, <1>4
    <2>2. x.id \in KeyID /\ key \in Token
        BY <1>0, <1>4 DEF KeysPart!IsRequest, KeysPart!KeySets
    <2>3. <<x.id, key>> \in KeysPart!Pairs /\ loaded < ExpireAfter
        BY <1>4, <2>2 DEF KeysPart!Pairs
    <2> HIDE DEF passes, x, key
    <2>4. withdrawn[<<x.id, key>>] \in Nat /\ withdrawn[<<x.id, key>>] <= loaded + ReadTimeout
        BY <1>0, <2>3 DEF key
    <2>5. /\ y.pc = "accepted" /\ y.lag = withdrawn[<<x.id, key>>] /\ DOMAIN y = DOMAIN KeysPart!NewRequest
          /\ y.id = KeysPart!NewRequest.id /\ y.document = KeysPart!NewRequest.document
          /\ y.reading = KeysPart!NewRequest.reading /\ y.canceled = KeysPart!NewRequest.canceled
        BY <1>2, <2>1
    <2> HIDE DEF y
    <2>6. y.lag < ExpireAfter + ReadTimeout
        BY <1>0, <2>3, <2>4, <2>5
    <2>7. KeysPart!IsRequest(y)
        BY <1>2, <2>4, <2>5 DEF KeysPart!IsRequest
    <2>8. x.pc = "use" /\ y.pc = "accepted"
        BY <1>1, <2>5
    <2>9. QED BY <1>3, <2>1, <2>6, <2>7, <2>8, AtRequest, RequestStep DEF x
<1>5. CASE ~passes
    <2>1. y = [KeysPart!NewRequest EXCEPT !.pc = "refused"] /\ tokens' = [tokens EXCEPT ![r] = y]
        BY <1>0, <1>1, <1>5
    <2>2. /\ y.pc = "refused" /\ y.lag = KeysPart!NewRequest.lag /\ DOMAIN y = DOMAIN KeysPart!NewRequest
          /\ y.id = KeysPart!NewRequest.id /\ y.document = KeysPart!NewRequest.document
          /\ y.reading = KeysPart!NewRequest.reading /\ y.canceled = KeysPart!NewRequest.canceled
        BY <1>2, <2>1
    <2> HIDE DEF y, passes
    <2>3. KeysPart!IsRequest(y)
        BY <1>2, <2>2 DEF KeysPart!IsRequest
    <2>4. QED BY <1>1, <1>3, <2>1, <2>2, <2>3, QuietRequest
<1>6. QED BY <1>4, <1>5

\* Stop, a new set of keys, and time.
LEMMA SourceSteps ==
    ASSUME KeysPart!SourceInv, KeysPart!Stop \/ KeysPart!Publish \/ KeysPart!Tick
    PROVE  KeysPart!SourceInv'
<1> USE DEF KeysPart!SourceInv, KeysPart!At
<1>0. ASSUME NEW p \in KeysPart!Pairs PROVE p[1] \in KeyID /\ p[2] \in Token /\ p[2] # None
    BY ServiceAssumption DEF KeysPart!Pairs
<1>1. CASE KeysPart!Stop
    <2>1. /\ keysClosed' = TRUE /\ keys' = KeysPart!NoKeys
          /\ UNCHANGED <<loaded, attempted, refreshing, tokens, published, withdrawn, changes>>
        BY <1>1 DEF KeysPart!Stop, KeysPart!World
    <2>2. KeysPart!NoKeys \in KeysPart!KeySets
        BY DEF KeysPart!NoKeys, KeysPart!KeySets
    <2>3. \A p \in KeysPart!Pairs : keys'[p[1]] # p[2]
        BY <1>0, <2>1 DEF KeysPart!NoKeys
    <2>4. KeysPart!Refreshes' = KeysPart!Refreshes
        BY <2>1 DEF KeysPart!Refreshes
    <2>5. QED BY <2>1, <2>2, <2>3, <2>4
<1>2. CASE KeysPart!Publish
    <2>1. /\ published' \in KeysPart!KeySets
          /\ withdrawn' = [p \in KeysPart!Pairs |-> IF published'[p[1]] = p[2] THEN 0 ELSE withdrawn[p]]
          /\ UNCHANGED <<keys, loaded, attempted, refreshing, keysClosed, tokens>>
        BY <1>2 DEF KeysPart!Publish, KeysPart!Cache
    <2>2. /\ withdrawn' \in [KeysPart!Pairs -> Nat]
          /\ \A p \in KeysPart!Pairs : published'[p[1]] = p[2] => withdrawn'[p] = 0
          /\ \A p \in KeysPart!Pairs, n \in Nat : withdrawn[p] <= n => withdrawn'[p] <= n
        BY <2>1
    <2>3. \A p \in KeysPart!Pairs : keys'[p[1]] = p[2] =>
             loaded' = ExpireAfter \/ withdrawn'[p] <= loaded' + ReadTimeout
        BY <2>1, <2>2, ServiceAssumption
    <2>4. \A r \in Actor, p \in KeysPart!Pairs :
             tokens[r].pc = "install" /\ tokens[r].document[p[1]] = p[2] /\ tokens[r].reading <= ReadTimeout =>
                withdrawn'[p] <= tokens[r].reading
        BY <2>2 DEF KeysPart!IsRequest
    <2>5. KeysPart!Refreshes' = KeysPart!Refreshes
        BY <2>1 DEF KeysPart!Refreshes
    <2>6. QED BY <2>1, <2>2, <2>3, <2>4, <2>5
<1>3. CASE KeysPart!Tick
    <2> DEFINE older(r) == [tokens[r] EXCEPT !.reading = KeysPart!Older(@, ReadTimeout + 1)]
    <2>1. /\ loaded' = KeysPart!Older(loaded, ExpireAfter)
          /\ withdrawn' = [p \in KeysPart!Pairs |-> IF published[p[1]] = p[2] THEN 0
                                                    ELSE KeysPart!Older(withdrawn[p], KeysPart!Longest)]
          /\ tokens' = [r \in Actor |-> IF tokens[r].pc \in {"read", "install"} THEN older(r) ELSE tokens[r]]
          /\ UNCHANGED <<published, changes, keys, refreshing, keysClosed>>
        BY <1>3 DEF KeysPart!Tick
    <2>2. {ExpireAfter, ReadTimeout, KeysPart!Longest} \subseteq Nat
        BY ServiceAssumption DEF KeysPart!Longest
    <2>3. /\ loaded' \in 0 .. ExpireAfter
          /\ loaded' = ExpireAfter \/ (loaded' = loaded + 1 /\ loaded # ExpireAfter)
        BY <2>1, <2>2 DEF KeysPart!Older
    <2>4. /\ withdrawn' \in [KeysPart!Pairs -> Nat]
          /\ \A p \in KeysPart!Pairs : published[p[1]] = p[2] => withdrawn'[p] = 0
          /\ \A p \in KeysPart!Pairs : withdrawn'[p] <= withdrawn[p] + 1
        BY <2>1, <2>2 DEF KeysPart!Older
    <2>5. \A p \in KeysPart!Pairs : keys'[p[1]] = p[2] =>
             loaded' = ExpireAfter \/ withdrawn'[p] <= loaded' + ReadTimeout
        BY <2>1, <2>2, <2>3, <2>4
    <2>6. ASSUME NEW r \in Actor
          PROVE  /\ KeysPart!IsRequest(tokens'[r]) /\ tokens'[r].pc = tokens[r].pc
                 /\ tokens'[r].document = tokens[r].document /\ tokens'[r].lag = tokens[r].lag
                 /\ tokens[r].pc = "install" =>
                       tokens'[r].reading > ReadTimeout \/ tokens'[r].reading = tokens[r].reading + 1
        <3>1. /\ DOMAIN tokens[r] = {"pc", "id", "by", "document", "reading", "canceled", "lag"}
              /\ KeysPart!IsRequest(tokens[r])
            BY DEF KeysPart!IsRequest
        <3>2. /\ KeysPart!Older(tokens[r].reading, ReadTimeout + 1) \in Nat
              /\ \/ KeysPart!Older(tokens[r].reading, ReadTimeout + 1) > ReadTimeout
                 \/ KeysPart!Older(tokens[r].reading, ReadTimeout + 1) = tokens[r].reading + 1
            BY <2>2, <3>1 DEF KeysPart!Older, KeysPart!IsRequest
        <3>3. CASE tokens[r].pc \in {"read", "install"}
            <4>1. tokens'[r] = older(r)
                BY <2>1, <3>3
            <4>2. /\ DOMAIN older(r) = DOMAIN tokens[r] /\ older(r).pc = tokens[r].pc
                  /\ older(r).id = tokens[r].id /\ older(r).document = tokens[r].document
                  /\ older(r).lag = tokens[r].lag /\ older(r).canceled = tokens[r].canceled
                  /\ older(r).reading = KeysPart!Older(tokens[r].reading, ReadTimeout + 1)
                BY <3>1
            <4> HIDE DEF older
            <4>3. KeysPart!IsRequest(older(r))
                BY <3>1, <3>2, <4>2 DEF KeysPart!IsRequest
            <4>4. QED BY <3>2, <4>1, <4>2, <4>3
        <3>4. CASE tokens[r].pc \notin {"read", "install"}
            BY <2>1, <3>1, <3>4
        <3>5. QED BY <3>3, <3>4
    <2>7. tokens' = [r \in Actor |-> tokens'[r]]
        BY <2>1
    <2> HIDE DEF older
    <2>8. ASSUME NEW r \in Actor, NEW p \in KeysPart!Pairs, tokens'[r].pc = "install",
                 tokens'[r].document[p[1]] = p[2], tokens'[r].reading <= ReadTimeout
          PROVE  withdrawn'[p] <= tokens'[r].reading
        <3>1. {tokens[r].reading, tokens'[r].reading} \subseteq Nat
            BY <2>6 DEF KeysPart!IsRequest
        <3>2. tokens'[r].reading = tokens[r].reading + 1 /\ tokens[r].pc = "install"
            BY <2>2, <2>6, <2>8, <3>1
        <3>3. withdrawn[p] <= tokens[r].reading
            BY <2>2, <2>6, <2>8, <3>1, <3>2
        <3>4. QED BY <2>4, <3>1, <3>2, <3>3
    <2>9. KeysPart!Refreshes' = KeysPart!Refreshes
        BY <2>6 DEF KeysPart!Refreshes
    <2>10. /\ \A r \in Actor : KeysPart!IsRequest(tokens'[r])
           /\ \A r \in Actor : tokens'[r].pc = "accepted" => tokens'[r].lag < ExpireAfter + ReadTimeout
        BY <2>6
    <2>11. QED BY <2>1, <2>3, <2>4, <2>5, <2>7, <2>8, <2>9, <2>10
<1>4. QED BY <1>1, <1>2, <1>3

LEMMA SourceStart ==
    ASSUME KeysPart!Init
    PROVE  KeysPart!SourceInv
<1> USE DEF KeysPart!Init
<1>1. /\ published \in KeysPart!KeySets /\ keys \in KeysPart!KeySets /\ loaded = 0
      /\ refreshing = FALSE /\ keysClosed = FALSE /\ keys = published
    OBVIOUS
<1>2. {ExpireAfter, ReadTimeout, KeysPart!Longest} \subseteq Nat
    BY ServiceAssumption DEF KeysPart!Longest
<1>3. KeysPart!IsRequest(KeysPart!NewRequest) /\ KeysPart!NewRequest.pc = "new"
    <2>1. KeyID # {}
        BY ServiceAssumption
    <2>2. (CHOOSE id \in KeyID : TRUE) \in KeyID
        BY <2>1
    <2>3. KeysPart!NoKeys \in KeysPart!KeySets
        BY DEF KeysPart!NoKeys, KeysPart!KeySets
    <2>4. QED BY <2>2, <2>3 DEF KeysPart!IsRequest, KeysPart!NewRequest
<1>4. tokens = [r \in Actor |-> tokens[r]] /\ \A r \in Actor : tokens[r] = KeysPart!NewRequest
    OBVIOUS
<1>5. /\ withdrawn \in [KeysPart!Pairs -> Nat]
      /\ \A p \in KeysPart!Pairs : published[p[1]] = p[2] => withdrawn[p] = 0
    BY <1>2
<1>6. KeysPart!Refreshes = {}
    BY <1>3, <1>4 DEF KeysPart!Refreshes
<1>7. \A r \in Actor : KeysPart!IsRequest(tokens[r]) /\ tokens[r].pc = "new"
    BY <1>3, <1>4
<1>8. \A p \in KeysPart!Pairs : keys[p[1]] = p[2] => withdrawn[p] <= loaded + ReadTimeout
    BY <1>1, <1>2, <1>5
<1>9. loaded \in 0 .. ExpireAfter
    BY <1>1, <1>2
<1>10. refreshing \in BOOLEAN /\ keysClosed \in BOOLEAN /\ refreshing = (KeysPart!Refreshes # {}) /\ ~keysClosed
    BY <1>1, <1>6
<1> HIDE DEF KeysPart!Init
<1>11. QED BY <1>1, <1>4, <1>5, <1>6, <1>7, <1>8, <1>9, <1>10 DEF KeysPart!SourceInv, KeysPart!At

\* For any requests, key IDs and keys, and any values of the four times: a token is
\* accepted only with a key that the source served within ExpireAfter and the time of
\* one read, however refreshes fail, come late or are overtaken by Stop; and there is
\* one refresh at most.
THEOREM TokensAreCurrent == Spec => []KeysAreCurrent
<1>1. Init => KeysPart!SourceInv
    BY SourceStart DEF Init
<1>2. KeysPart!SourceInv /\ [Next]_vars => KeysPart!SourceInv'
    <2>1. SUFFICES ASSUME KeysPart!SourceInv, [Next]_vars PROVE KeysPart!SourceInv'
        OBVIOUS
    <2>2. CASE UNCHANGED keysVars
        BY <2>1, <2>2 DEF keysVars, KeysPart!SourceInv, KeysPart!At, KeysPart!Refreshes
    <2>3. CASE KeysPart!Next
        <3>1. ASSUME NEW r \in Actor,
                     \/ \E id \in KeyID, by \in Token \cup {None} : KeysPart!Look(r, id, by)
                     \/ KeysPart!Malformed(r) \/ KeysPart!BeginRefresh(r) \/ KeysPart!EndRefresh(r)
                     \/ KeysPart!Use(r) \/ KeysPart!Cancel(r)
                     \/ \E answers \in BOOLEAN : KeysPart!Read(r, answers)
              PROVE  KeysPart!SourceInv'
            BY <2>1, <3>1, RequestSteps, EndRefreshStep, UseStep
        <3>2. QED BY <2>1, <2>3, <3>1, SourceSteps DEF KeysPart!Next
    <2>4. QED BY <2>1, <2>2, <2>3, PartStep
<1>3. KeysPart!SourceInv => KeysAreCurrent
    <2>1. SUFFICES ASSUME KeysPart!SourceInv PROVE KeysPart!KeysAreCurrent
        BY DEF KeysAreCurrent
    <2>2. Cardinality(KeysPart!Refreshes) <= 1
        <3>1. CASE KeysPart!Refreshes = {}
            BY <3>1, FS_EmptySet
        <3>2. CASE KeysPart!Refreshes # {}
            <4>1. PICK r \in KeysPart!Refreshes : TRUE
                BY <3>2
            <4>2. KeysPart!Refreshes = {r}
                BY <2>1, <4>1 DEF KeysPart!SourceInv
            <4>3. QED BY <4>2, FS_Singleton
        <3>3. QED BY <3>1, <3>2
    <2>3. KeysPart!Cardinality(KeysPart!Refreshes) <= 1
        BY <2>2, PartCardinality
    <2>4. QED BY <2>1, <2>3 DEF KeysPart!KeysAreCurrent, KeysPart!SourceInv
<1>4. QED BY <1>1, <1>2, <1>3, PTL DEF Spec

-----------------------------------------------------------------------------
(***************************************************************************)
(* The event source.                                                       *)
(***************************************************************************)

\* Moving an event from the queue to the hand, and from the hand to what was got,
\* leaves what was seen; queueing an event appends it.
LEMMA SeenMoves ==
    ASSUME NEW got \in Seq(Nat), NEW held \in Seq(Nat), NEW queue \in Seq(Nat)
    PROVE  /\ queue # <<>> => got \o <<Head(queue)>> \o Tail(queue) = got \o <<>> \o queue
           /\ (got \o held) \o <<>> \o queue = got \o held \o queue
           /\ \A e \in Nat : got \o held \o Append(queue, e) = Append(got \o held \o queue, e)
           /\ got \o held \o queue \in Seq(Nat)
<1>1. got \o held \in Seq(Nat) /\ got \o <<>> = got /\ (got \o held) \o <<>> = got \o held
    BY ConcatProperties, ConcatEmptySeq
<1>2. got \o held \o queue \in Seq(Nat)
    BY <1>1, ConcatProperties
<1>3. ASSUME queue # <<>> PROVE got \o <<Head(queue)>> \o Tail(queue) = got \o <<>> \o queue
    <2>1. Head(queue) \in Nat /\ Tail(queue) \in Seq(Nat)
        BY <1>3, HeadTailProperties
    <2>2. <<Head(queue)>> \in Seq(Nat)
        BY <2>1
    <2>3. <<Head(queue)>> \o Tail(queue) = queue
        BY <1>3, <2>1
    <2>4. ASSUME NEW h \in Seq(Nat), NEW t \in Seq(Nat) PROVE (got \o h) \o t = got \o (h \o t)
        BY SMTT(30)
    <2>5. (got \o <<Head(queue)>>) \o Tail(queue) = got \o (<<Head(queue)>> \o Tail(queue))
        BY <2>1, <2>2, <2>4, Zenon
    <2>6. QED BY <1>1, <2>3, <2>5
<1>4. ASSUME NEW e \in Nat PROVE got \o held \o Append(queue, e) = Append(got \o held \o queue, e)
    <2>1. <<e>> \in Seq(Nat)
        OBVIOUS
    <2>2. Append(queue, e) = queue \o <<e>> /\ Append(got \o held \o queue, e) = (got \o held \o queue) \o <<e>>
        BY <1>2, AppendIsConcat
    <2>3. ASSUME NEW g \in Seq(Nat), NEW t \in Seq(Nat) PROVE (g \o queue) \o t = g \o (queue \o t)
        OBVIOUS
    <2>4. ((got \o held) \o queue) \o <<e>> = (got \o held) \o (queue \o <<e>>)
        BY <1>1, <2>1, <2>3, Zenon
    <2>5. QED BY <2>2, <2>4
<1>5. QED BY <1>1, <1>2, <1>3, <1>4

\* The next event keeps a sequence consecutive.
LEMMA NextEvent ==
    ASSUME NEW seen \in Seq(Nat), NEW from \in Nat, StreamPart!Consecutive(seen, from)
    PROVE  /\ StreamPart!Consecutive(Append(seen, from + Len(seen) + 1), from)
           /\ Len(Append(seen, from + Len(seen) + 1)) = Len(seen) + 1
<1> DEFINE e == from + Len(seen) + 1
<1>1. e \in Nat /\ Len(seen) \in Nat /\ DOMAIN seen = 1 .. Len(seen)
    BY LenProperties
<1>2. /\ Append(seen, e) \in Seq(Nat) /\ Len(Append(seen, e)) = Len(seen) + 1
      /\ \A i \in 1 .. Len(seen) : Append(seen, e)[i] = seen[i]
      /\ Append(seen, e)[Len(seen) + 1] = e
    BY <1>1, AppendProperties
<1>3. DOMAIN Append(seen, e) = 1 .. (Len(seen) + 1)
    BY <1>2, LenProperties
<1>4. ASSUME NEW i \in 1 .. (Len(seen) + 1) PROVE Append(seen, e)[i] = from + i
    <2>1. CASE i = Len(seen) + 1
        BY <1>1, <1>2, <2>1
    <2>2. CASE i \in 1 .. Len(seen)
        BY <1>1, <1>2, <2>2 DEF StreamPart!Consecutive
    <2>3. QED BY <1>1, <2>1, <2>2
<1>5. QED BY <1>2, <1>3, <1>4 DEF StreamPart!Consecutive

\* A step of one subscription that does not open it.
LEMMA SubStep ==
    ASSUME StreamPart!StreamInv, NEW s \in Actor, NEW y, sub' = [sub EXCEPT ![s] = y],
           StreamPart!IsSub(y), StreamPart!Follows(y, dispatched),
           y.pc # "new" /\ y.failure = "none" => s \in StreamPart!Open,
           UNCHANGED <<committed, dispatched, run, streamClosed, cancelled, close>>
    PROVE  StreamPart!StreamInv'
<1> USE DEF StreamPart!StreamInv
<1>1. /\ sub' = [q \in Actor |-> sub'[q]] /\ sub'[s] = y
      /\ \A q \in Actor : q # s => sub'[q] = sub[q]
    OBVIOUS
<1>2. \A q \in Actor : StreamPart!IsSub(sub'[q]) /\ StreamPart!Follows(sub'[q], dispatched)
    BY <1>1
<1>3. StreamPart!Open' \subseteq StreamPart!Open
    BY <1>1 DEF StreamPart!Open
<1>4. IsFiniteSet(StreamPart!Open') /\ Cardinality(StreamPart!Open') <= MaxSubscriptions
    <2>1. /\ IsFiniteSet(StreamPart!Open) /\ Cardinality(StreamPart!Open) <= MaxSubscriptions
          /\ MaxSubscriptions \in Nat
        BY PartCardinality, ServiceAssumption
    <2>2. /\ IsFiniteSet(StreamPart!Open') /\ Cardinality(StreamPart!Open') <= Cardinality(StreamPart!Open)
        BY <1>3, <2>1, FS_Subset
    <2>3. Cardinality(StreamPart!Open) \in Nat /\ Cardinality(StreamPart!Open') \in Nat
        BY <2>1, <2>2, FS_CardinalityType
    <2>4. QED BY <2>1, <2>2, <2>3
<1>5. StreamPart!IsFiniteSet(StreamPart!Open') /\ StreamPart!Cardinality(StreamPart!Open') <= MaxSubscriptions
    BY <1>4, PartCardinality
<1>6. QED BY <1>1, <1>2, <1>3, <1>5

\* The subscriptions before a step.
LEMMA AtSub ==
    ASSUME StreamPart!StreamInv, NEW s \in Actor
    PROVE  /\ StreamPart!IsSub(sub[s]) /\ StreamPart!Follows(sub[s], dispatched)
           /\ sub = [q \in Actor |-> sub[q]]
           /\ DOMAIN sub[s] = {"pc", "failure", "since", "listed", "queue", "held", "got"}
           /\ committed \in Nat /\ dispatched \in Nat /\ dispatched <= committed
BY DEF StreamPart!StreamInv, StreamPart!IsSub

LEMMA ConsumerSteps ==
    ASSUME StreamPart!StreamInv, NEW s \in Actor,
           \/ StreamPart!List(s) \/ StreamPart!BeginNext(s) \/ StreamPart!SelectDone(s)
           \/ StreamPart!SelectEvent(s) \/ StreamPart!Return(s) \/ StreamPart!CancelNext(s)
           \/ StreamPart!Remove(s)
    PROVE  StreamPart!StreamInv'
<1> DEFINE x == sub[s]
           y == sub'[s]
<1> USE DEF StreamPart!Events, StreamPart!Source
<1>0. /\ StreamPart!IsSub(x) /\ StreamPart!Follows(x, dispatched) /\ sub = [q \in Actor |-> sub[q]]
      /\ DOMAIN x = {"pc", "failure", "since", "listed", "queue", "held", "got"}
      /\ committed \in Nat /\ dispatched \in Nat /\ dispatched <= committed
    BY AtSub
<1>00. x.pc # "new" /\ x.failure = "none" => s \in StreamPart!Open
    BY DEF StreamPart!Open
<1>1. CASE StreamPart!List(s)
    <2>1. /\ sub' = [sub EXCEPT ![s] = y] /\ DOMAIN y = DOMAIN x /\ y.failure = x.failure /\ y.since = x.since
          /\ y.queue = x.queue /\ y.held = x.held /\ y.got = x.got
          /\ x.pc = "list" /\ y.pc = "idle" /\ y.listed = committed
          /\ UNCHANGED <<committed, dispatched, run, streamClosed, cancelled, close>>
        BY <1>0, <1>1 DEF StreamPart!List
    <2> HIDE DEF y
    <2>2. StreamPart!IsSub(y)
        BY <1>0, <2>1 DEF StreamPart!IsSub
    <2>3. StreamPart!Seen(y) = StreamPart!Seen(x)
        BY <2>1 DEF StreamPart!Seen
    <2>4. StreamPart!Follows(y, dispatched)
        <3>1. x.since \in Nat /\ x.since <= dispatched
            BY <1>0 DEF StreamPart!Follows, StreamPart!IsSub
        <3>2. y.listed >= y.since
            BY <1>0, <2>1, <3>1
        <3>3. QED BY <1>0, <2>1, <2>3, <3>2 DEF StreamPart!Follows
    <2>5. QED BY <1>00, <2>1, <2>2, <2>4, SubStep
<1>2. CASE StreamPart!BeginNext(s) \/ StreamPart!SelectDone(s) \/ StreamPart!CancelNext(s)
    <2>1. /\ sub' = [sub EXCEPT ![s] = y] /\ DOMAIN y = DOMAIN x /\ y.failure = x.failure /\ y.since = x.since
          /\ y.queue = x.queue /\ y.held = x.held /\ y.got = x.got /\ y.listed = x.listed
          /\ UNCHANGED <<committed, dispatched, run, streamClosed, cancelled, close>>
        BY <1>0, <1>2 DEF StreamPart!BeginNext, StreamPart!SelectDone, StreamPart!CancelNext
    <2>2. (x.pc = "idle" /\ y.pc = "select") \/ (x.pc \in {"idle", "select", "return"} /\ y.pc = "ended")
        BY <1>0, <1>2 DEF StreamPart!BeginNext, StreamPart!SelectDone, StreamPart!CancelNext
    <2> HIDE DEF y
    <2>3. StreamPart!IsSub(y)
        BY <1>0, <2>1, <2>2 DEF StreamPart!IsSub
    <2>4. StreamPart!Follows(y, dispatched)
        BY <1>0, <2>1, <2>2 DEF StreamPart!Follows, StreamPart!Seen
    <2>5. QED BY <1>00, <2>1, <2>2, <2>3, <2>4, SubStep
<1>3. CASE StreamPart!SelectEvent(s)
    <2>1. /\ sub' = [sub EXCEPT ![s] = y] /\ DOMAIN y = DOMAIN x /\ y.failure = x.failure /\ y.since = x.since
          /\ y.queue = Tail(x.queue) /\ y.held = <<Head(x.queue)>> /\ y.got = x.got /\ y.listed = x.listed
          /\ x.pc = "select" /\ y.pc = "return" /\ x.queue # <<>>
          /\ UNCHANGED <<committed, dispatched, run, streamClosed, cancelled, close>>
        BY <1>0, <1>3 DEF StreamPart!SelectEvent
    <2> HIDE DEF y
    <2>2. x.queue \in Seq(Nat) /\ x.got \in Seq(Nat) /\ x.held = <<>> /\ x.held \in Seq(Nat)
        BY <1>0, <2>1 DEF StreamPart!IsSub
    <2>3. y.queue \in Seq(Nat) /\ y.held \in Seq(Nat)
        BY <2>1, <2>2, HeadTailProperties
    <2>4. StreamPart!IsSub(y)
        BY <1>0, <2>1, <2>3 DEF StreamPart!IsSub
    <2>5. StreamPart!Seen(y) = StreamPart!Seen(x)
        <3>1. x.got \o <<Head(x.queue)>> \o Tail(x.queue) = x.got \o <<>> \o x.queue
            BY <2>1, <2>2, SeenMoves
        <3>2. QED BY <2>1, <2>2, <3>1 DEF StreamPart!Seen
    <2>6. StreamPart!Follows(y, dispatched)
        BY <1>0, <2>1, <2>5 DEF StreamPart!Follows
    <2>7. QED BY <1>00, <2>1, <2>4, <2>6, SubStep
<1>4. CASE StreamPart!Return(s)
    <2>1. /\ x.pc = "return" /\ UNCHANGED <<committed, dispatched, run, streamClosed, cancelled, close>>
          /\ \/ sub' = [sub EXCEPT ![s] = [x EXCEPT !.pc = "idle", !.got = x.got \o x.held, !.held = <<>>]]
             \/ sub' = [sub EXCEPT ![s] = [x EXCEPT !.pc = "ended"]]
        <3>1. /\ x.pc = "return" /\ UNCHANGED <<committed, dispatched, run, streamClosed, cancelled, close>>
              /\ sub' = [sub EXCEPT ![s] =
                    IF x.failure = "none" THEN [x EXCEPT !.pc = "idle", !.got = x.got \o x.held, !.held = <<>>]
                    ELSE [x EXCEPT !.pc = "ended"]]
            BY <1>4 DEF StreamPart!Return
        <3>2. QED BY <3>1
    <2>2. x.queue \in Seq(Nat) /\ x.got \in Seq(Nat) /\ x.held \in Seq(Nat)
        BY <1>0 DEF StreamPart!IsSub
    <2>3. ASSUME sub' = [sub EXCEPT ![s] = [x EXCEPT !.pc = "idle", !.got = x.got \o x.held, !.held = <<>>]]
          PROVE  StreamPart!StreamInv'
        <3>1. /\ sub' = [sub EXCEPT ![s] = y] /\ DOMAIN y = DOMAIN x /\ y.failure = x.failure
              /\ y.since = x.since /\ y.queue = x.queue /\ y.held = <<>> /\ y.got = x.got \o x.held
              /\ y.listed = x.listed /\ y.pc = "idle"
            BY <1>0, <2>3
        <3> HIDE DEF y
        <3>2. y.got \in Seq(Nat)
            BY <2>2, <3>1, ConcatProperties
        <3>3. StreamPart!IsSub(y)
            BY <1>0, <3>1, <3>2 DEF StreamPart!IsSub
        <3>4. StreamPart!Seen(y) = StreamPart!Seen(x)
            BY <2>2, <3>1, SeenMoves DEF StreamPart!Seen
        <3>5. StreamPart!Follows(y, dispatched)
            BY <1>0, <2>1, <3>1, <3>4 DEF StreamPart!Follows
        <3>6. QED BY <1>00, <2>1, <3>1, <3>3, <3>5, SubStep
    <2>4. ASSUME sub' = [sub EXCEPT ![s] = [x EXCEPT !.pc = "ended"]]
          PROVE  StreamPart!StreamInv'
        <3>1. /\ sub' = [sub EXCEPT ![s] = y] /\ DOMAIN y = DOMAIN x /\ y.failure = x.failure
              /\ y.since = x.since /\ y.queue = x.queue /\ y.held = x.held /\ y.got = x.got
              /\ y.listed = x.listed /\ y.pc = "ended"
            BY <1>0, <2>4
        <3> HIDE DEF y
        <3>2. StreamPart!IsSub(y)
            BY <1>0, <3>1 DEF StreamPart!IsSub
        <3>3. StreamPart!Seen(y) = StreamPart!Seen(x)
            BY <3>1 DEF StreamPart!Seen
        <3>4. StreamPart!Follows(y, dispatched)
            BY <1>0, <2>1, <3>1, <3>3 DEF StreamPart!Follows
        <3>5. QED BY <1>00, <2>1, <3>1, <3>2, <3>4, SubStep
    <2>5. QED BY <2>1, <2>3, <2>4
<1>5. CASE StreamPart!Remove(s)
    <2>1. /\ sub' = [sub EXCEPT ![s] = y] /\ DOMAIN y = DOMAIN x /\ y.failure = "canceled"
          /\ y.since = x.since /\ y.queue = x.queue /\ y.held = x.held /\ y.got = x.got
          /\ y.listed = x.listed /\ y.pc = x.pc /\ x.pc # "new"
          /\ UNCHANGED <<committed, dispatched, run, streamClosed, cancelled, close>>
        BY <1>0, <1>5 DEF StreamPart!Remove, StreamPart!Removed, StreamPart!Open
    <2> HIDE DEF y
    <2>2. StreamPart!IsSub(y)
        BY <1>0, <2>1 DEF StreamPart!IsSub
    <2>3. StreamPart!Follows(y, dispatched)
        BY <1>0, <2>1 DEF StreamPart!Follows, StreamPart!Seen
    <2>4. QED BY <2>1, <2>2, <2>3, SubStep
<1>6. QED BY <1>1, <1>2, <1>3, <1>4, <1>5

\* Subscribe opens one more, below the limit.
LEMMA SubscribeStep ==
    ASSUME StreamPart!StreamInv, NEW s \in Actor, StreamPart!Subscribe(s)
    PROVE  StreamPart!StreamInv'
<1> DEFINE x == sub[s]
           y == sub'[s]
           full == streamClosed \/ StreamPart!Cardinality(StreamPart!Open) >= MaxSubscriptions
<1>0. /\ StreamPart!IsSub(x) /\ StreamPart!Follows(x, dispatched) /\ sub = [q \in Actor |-> sub[q]]
      /\ DOMAIN x = {"pc", "failure", "since", "listed", "queue", "held", "got"}
      /\ committed \in Nat /\ dispatched \in Nat /\ dispatched <= committed
    BY AtSub
<1>1. /\ x.pc = "new" /\ UNCHANGED <<committed, dispatched, run, streamClosed, cancelled, close>>
      /\ sub' = [sub EXCEPT ![s] = IF full THEN [x EXCEPT !.pc = "ended", !.failure = "refused"]
                                   ELSE [x EXCEPT !.pc = "list", !.since = dispatched]]
    BY DEF StreamPart!Subscribe, StreamPart!Events, StreamPart!Source
<1>2. x.queue = <<>> /\ x.held = <<>> /\ x.got = <<>> /\ x.failure = "none"
    BY <1>0, <1>1 DEF StreamPart!IsSub
<1>3. CASE full
    <2>1. /\ sub' = [sub EXCEPT ![s] = y] /\ DOMAIN y = DOMAIN x /\ y.failure = "refused"
          /\ y.since = x.since /\ y.queue = x.queue /\ y.held = x.held /\ y.got = x.got
          /\ y.listed = x.listed /\ y.pc = "ended"
        BY <1>0, <1>1, <1>3
    <2> HIDE DEF y, full
    <2>2. StreamPart!IsSub(y)
        BY <1>0, <2>1 DEF StreamPart!IsSub
    <2>3. StreamPart!Follows(y, dispatched)
        BY <1>0, <2>1 DEF StreamPart!Follows, StreamPart!Seen
    <2>4. QED BY <1>1, <2>1, <2>2, <2>3, SubStep
<1>4. CASE ~full
    <2>1. /\ sub' = [sub EXCEPT ![s] = y] /\ DOMAIN y = DOMAIN x /\ y.failure = "none"
          /\ y.since = dispatched /\ y.queue = <<>> /\ y.held = <<>> /\ y.got = <<>>
          /\ y.listed = x.listed /\ y.pc = "list"
        BY <1>0, <1>1, <1>2, <1>4
    <2>2. ~streamClosed /\ ~(Cardinality(StreamPart!Open) >= MaxSubscriptions)
        BY <1>4, PartCardinality
    <2>3. sub' = [q \in Actor |-> sub'[q]] /\ \A q \in Actor : q # s => sub'[q] = sub[q]
        BY <1>0, <2>1
    <2> HIDE DEF full
    <2>4. StreamPart!IsSub(y)
        <3> HIDE DEF y
        <3>1. <<>> \in Seq(Nat)
            OBVIOUS
        <3>2. QED BY <1>0, <2>1, <3>1 DEF StreamPart!IsSub
    <2>5. StreamPart!Follows(y, dispatched)
        <3> HIDE DEF y
        <3>1. StreamPart!Seen(y) = <<>>
            BY <2>1 DEF StreamPart!Seen
        <3>2. y.since + Len(StreamPart!Seen(y)) = dispatched
            BY <1>0, <2>1, <3>1
        <3>3. StreamPart!Consecutive(<<>>, y.since)
            BY DEF StreamPart!Consecutive
        <3>4. QED BY <1>0, <2>1, <3>1, <3>2, <3>3 DEF StreamPart!Follows
    <2>6. \A q \in Actor : StreamPart!IsSub(sub'[q]) /\ StreamPart!Follows(sub'[q], dispatched')
        BY <1>1, <2>3, <2>4, <2>5 DEF StreamPart!StreamInv
    <2>7. StreamPart!Open' = StreamPart!Open \cup {s}
        BY <2>1, <2>3 DEF StreamPart!Open
    <2>8. IsFiniteSet(StreamPart!Open') /\ Cardinality(StreamPart!Open') <= MaxSubscriptions
        <3>1. /\ IsFiniteSet(StreamPart!Open) /\ Cardinality(StreamPart!Open) <= MaxSubscriptions
              /\ MaxSubscriptions \in Nat
            BY PartCardinality, ServiceAssumption DEF StreamPart!StreamInv
        <3>2. Cardinality(StreamPart!Open) < MaxSubscriptions
            BY <2>2, <3>1, FS_CardinalityType
        <3>3. QED BY <2>7, <3>1, <3>2, Limited
    <2>9. StreamPart!IsFiniteSet(StreamPart!Open') /\ StreamPart!Cardinality(StreamPart!Open') <= MaxSubscriptions
        BY <2>8, PartCardinality
    <2>10. QED BY <1>1, <2>2, <2>3, <2>6, <2>9 DEF StreamPart!StreamInv
<1>5. QED BY <1>3, <1>4

\* A step of the source on all its subscriptions, none of which it opens.
LEMMA SourceStep ==
    ASSUME StreamPart!StreamInv, sub' = [q \in Actor |-> sub'[q]], committed' \in Nat, dispatched' \in Nat,
           dispatched' <= committed', streamClosed' \in BOOLEAN,
           \A q \in Actor : StreamPart!IsSub(sub'[q]) /\ StreamPart!Follows(sub'[q], dispatched'),
           StreamPart!Open' \subseteq StreamPart!Open,
           run' \in {"new", "waiting", "failing", "done"},
           close' # "no" => streamClosed', close' = "done" => run' \in {"new", "done"},
           streamClosed' => StreamPart!Open' = {}
    PROVE  StreamPart!StreamInv'
<1>1. /\ IsFiniteSet(StreamPart!Open) /\ Cardinality(StreamPart!Open) <= MaxSubscriptions
      /\ MaxSubscriptions \in Nat
    BY PartCardinality, ServiceAssumption DEF StreamPart!StreamInv
<1>2. /\ IsFiniteSet(StreamPart!Open') /\ Cardinality(StreamPart!Open') <= Cardinality(StreamPart!Open)
    BY <1>1, FS_Subset
<1>3. Cardinality(StreamPart!Open) \in Nat /\ Cardinality(StreamPart!Open') \in Nat
    BY <1>1, <1>2, FS_CardinalityType
<1>4. StreamPart!IsFiniteSet(StreamPart!Open') /\ StreamPart!Cardinality(StreamPart!Open') <= MaxSubscriptions
    BY <1>1, <1>2, <1>3, PartCardinality
<1>5. QED BY <1>4 DEF StreamPart!StreamInv

\* The source removes a subscription: it keeps what it has.
LEMMA RemovedSub ==
    ASSUME NEW x, NEW n, NEW m, NEW reason, reason # "none", StreamPart!IsSub(x), StreamPart!Follows(x, n),
           n \in Nat, m \in Nat, n <= m, x.pc # "new", x.failure = "none"
    PROVE  /\ StreamPart!IsSub(StreamPart!Removed(x, reason))
           /\ StreamPart!Follows(StreamPart!Removed(x, reason), m)
           /\ StreamPart!Removed(x, reason).failure = reason
<1> DEFINE y == StreamPart!Removed(x, reason)
<1>1. /\ DOMAIN y = DOMAIN x /\ y.failure = reason /\ y.since = x.since /\ y.queue = x.queue
      /\ y.held = x.held /\ y.got = x.got /\ y.listed = x.listed /\ y.pc = x.pc
    BY DEF StreamPart!Removed, StreamPart!IsSub
<1> HIDE DEF y
<1>2. StreamPart!IsSub(y)
    BY <1>1 DEF StreamPart!IsSub
<1>3. StreamPart!Seen(y) = StreamPart!Seen(x)
    BY <1>1 DEF StreamPart!Seen
<1>4. x.since \in Nat /\ x.since <= n
    BY DEF StreamPart!IsSub, StreamPart!Follows
<1>5. y.since <= m
    BY <1>1, <1>4
<1>6. StreamPart!Follows(y, m)
    BY <1>1, <1>3, <1>5 DEF StreamPart!Follows
<1>7. QED BY <1>1, <1>2, <1>6 DEF y

\* dispatch: an open subscription gets the event or is removed.
LEMMA DispatchStep ==
    ASSUME StreamPart!StreamInv, StreamPart!Dispatch
    PROVE  StreamPart!StreamInv'
<1> DEFINE n == dispatched + 1
<1>0. /\ committed \in Nat /\ dispatched \in Nat /\ dispatched <= committed /\ n \in Nat /\ dispatched <= n
    BY DEF StreamPart!StreamInv
<1>1. /\ run = "waiting" /\ dispatched < committed /\ dispatched' = n
      /\ sub' = [s \in Actor |-> IF s \notin StreamPart!Open THEN sub[s]
                                 ELSE IF Len(sub[s].queue) < SubscriptionBuffer
                                      THEN [sub[s] EXCEPT !.queue = Append(@, n)]
                                      ELSE StreamPart!Removed(sub[s], "slow")]
      /\ UNCHANGED <<committed, run, streamClosed, cancelled, close>>
    BY DEF StreamPart!Dispatch, StreamPart!Source
<1> HIDE DEF n
<1>2. ASSUME NEW s \in Actor
      PROVE  /\ StreamPart!IsSub(sub'[s]) /\ StreamPart!Follows(sub'[s], n)
             /\ sub'[s].pc # "new" /\ sub'[s].failure = "none" => s \in StreamPart!Open
    <2> DEFINE x == sub[s]
               y == sub'[s]
    <2>0. /\ StreamPart!IsSub(x) /\ StreamPart!Follows(x, dispatched)
          /\ DOMAIN x = {"pc", "failure", "since", "listed", "queue", "held", "got"}
          /\ x.queue \in Seq(Nat) /\ x.held \in Seq(Nat) /\ x.got \in Seq(Nat)
          /\ x.since \in Nat /\ x.since <= dispatched
        BY AtSub DEF StreamPart!IsSub, StreamPart!Follows
    <2>1. CASE s \notin StreamPart!Open
        <3>1. y = x /\ (x.pc = "new" \/ x.failure # "none")
            BY <1>1, <2>1 DEF StreamPart!Open
        <3>2. x.since <= n
            BY <1>0, <2>0
        <3> HIDE DEF x, y
        <3>3. QED BY <2>0, <3>1, <3>2 DEF StreamPart!Follows, y
    <2>2. CASE s \in StreamPart!Open /\ Len(x.queue) < SubscriptionBuffer
        <3>1. /\ DOMAIN y = DOMAIN x /\ y.queue = Append(x.queue, n) /\ y.failure = x.failure /\ y.since = x.since
              /\ y.held = x.held /\ y.got = x.got /\ y.listed = x.listed /\ y.pc = x.pc
            BY <1>1, <2>0, <2>2
        <3>2. x.pc # "new" /\ x.failure = "none"
            BY <2>2 DEF StreamPart!Open
        <3> HIDE DEF x, y
        <3>3. y.queue \in Seq(Nat)
            BY <1>0, <2>0, <3>1, AppendProperties
        <3>4. StreamPart!IsSub(y)
            BY <2>0, <3>1, <3>2, <3>3 DEF StreamPart!IsSub
        <3>5. StreamPart!Seen(x) \in Seq(Nat) /\ StreamPart!Seen(y) = Append(StreamPart!Seen(x), n)
            <4>1. /\ x.got \o x.held \o Append(x.queue, n) = Append(x.got \o x.held \o x.queue, n)
                  /\ x.got \o x.held \o x.queue \in Seq(Nat)
                BY <1>0, <2>0, SeenMoves, SMTT(30)
            <4>2. QED BY <3>1, <4>1, Zenon DEF StreamPart!Seen
        <3>6. /\ StreamPart!Consecutive(StreamPart!Seen(x), x.since)
              /\ x.since + Len(StreamPart!Seen(x)) = dispatched
            BY <2>0, <3>2 DEF StreamPart!Follows
        <3>7. n = x.since + Len(StreamPart!Seen(x)) + 1
            BY <3>6 DEF n
        <3>8. /\ StreamPart!Consecutive(StreamPart!Seen(y), x.since)
              /\ Len(StreamPart!Seen(y)) = Len(StreamPart!Seen(x)) + 1
            BY <2>0, <3>5, <3>6, <3>7, NextEvent
        <3>9. y.since + Len(StreamPart!Seen(y)) = n /\ y.since <= n
            BY <1>0, <2>0, <3>1, <3>5, <3>7, <3>8, LenProperties
        <3>10. StreamPart!Follows(y, n)
            BY <2>0, <3>1, <3>8, <3>9 DEF StreamPart!Follows
        <3>11. QED BY <2>2, <3>4, <3>10 DEF y
    <2>3. CASE s \in StreamPart!Open /\ ~(Len(x.queue) < SubscriptionBuffer)
        <3>1. y = StreamPart!Removed(x, "slow") /\ x.pc # "new" /\ x.failure = "none"
            BY <1>1, <2>3 DEF StreamPart!Open
        <3> HIDE DEF x, y
        <3>2. /\ StreamPart!IsSub(StreamPart!Removed(x, "slow"))
              /\ StreamPart!Follows(StreamPart!Removed(x, "slow"), n)
            BY <1>0, <2>0, <3>1, RemovedSub
        <3>3. QED BY <2>3, <3>1, <3>2 DEF y
    <2>4. QED BY <2>1, <2>2, <2>3
<1>3. StreamPart!Open' \subseteq StreamPart!Open
    BY <1>2 DEF StreamPart!Open
<1>4. sub' = [q \in Actor |-> sub'[q]]
    BY <1>1
<1>5. dispatched' <= committed'
    BY <1>0, <1>1 DEF n
<1>6. QED BY <1>0, <1>1, <1>2, <1>3, <1>4, <1>5, SourceStep DEF StreamPart!StreamInv

\* fail and Close remove every subscription.
LEMMA RemoveAllSubs ==
    ASSUME StreamPart!StreamInv, StreamPart!RemoveAll("unavailable")
    PROVE  /\ sub' = [q \in Actor |-> sub'[q]] /\ StreamPart!Open' = {}
           /\ \A q \in Actor : StreamPart!IsSub(sub'[q]) /\ StreamPart!Follows(sub'[q], dispatched)
<1>1. sub' = [s \in Actor |-> IF s \in StreamPart!Open THEN StreamPart!Removed(sub[s], "unavailable") ELSE sub[s]]
    BY DEF StreamPart!RemoveAll
<1>2. ASSUME NEW s \in Actor
      PROVE  /\ StreamPart!IsSub(sub'[s]) /\ StreamPart!Follows(sub'[s], dispatched)
             /\ ~(sub'[s].pc # "new" /\ sub'[s].failure = "none")
    <2> DEFINE x == sub[s]
               y == sub'[s]
    <2>0. /\ StreamPart!IsSub(x) /\ StreamPart!Follows(x, dispatched) /\ dispatched \in Nat
          /\ dispatched <= dispatched
        BY AtSub
    <2>1. CASE s \notin StreamPart!Open
        <3>1. y = x /\ (x.pc = "new" \/ x.failure # "none")
            BY <1>1, <2>1 DEF StreamPart!Open
        <3>2. QED BY <2>0, <3>1
    <2>2. CASE s \in StreamPart!Open
        <3>1. y = StreamPart!Removed(x, "unavailable") /\ x.pc # "new" /\ x.failure = "none"
            BY <1>1, <2>2 DEF StreamPart!Open
        <3> HIDE DEF x, y
        <3>2. /\ StreamPart!IsSub(StreamPart!Removed(x, "unavailable"))
              /\ StreamPart!Follows(StreamPart!Removed(x, "unavailable"), dispatched)
              /\ StreamPart!Removed(x, "unavailable").failure = "unavailable"
            BY <2>0, <3>1, RemovedSub
        <3>3. QED BY <3>1, <3>2 DEF y
    <2>3. QED BY <2>1, <2>2
<1>3. StreamPart!Open' = {}
    BY <1>2 DEF StreamPart!Open
<1>4. QED BY <1>1, <1>2, <1>3

LEMMA RunSteps ==
    ASSUME StreamPart!StreamInv,
           \/ StreamPart!Commit \/ StreamPart!BeginRun \/ StreamPart!LeaveRun \/ StreamPart!Fail
           \/ StreamPart!BeginClose \/ StreamPart!EndClose
    PROVE  StreamPart!StreamInv'
<1> USE DEF StreamPart!Events, StreamPart!Source
<1>1. CASE StreamPart!Commit \/ StreamPart!BeginRun \/ StreamPart!LeaveRun \/ StreamPart!EndClose
    <2>1. sub' = sub /\ dispatched' = dispatched /\ streamClosed' = streamClosed
        BY <1>1 DEF StreamPart!Commit, StreamPart!BeginRun, StreamPart!LeaveRun, StreamPart!EndClose
    <2>2. StreamPart!Open' = StreamPart!Open
        BY <2>1 DEF StreamPart!Open
    <2>3. committed' \in Nat /\ dispatched' <= committed'
        BY <1>1, <2>1 DEF StreamPart!Commit, StreamPart!BeginRun, StreamPart!LeaveRun, StreamPart!EndClose,
                          StreamPart!StreamInv
    <2>4. /\ run' \in {"new", "waiting", "failing", "done"}
          /\ close' # "no" => close # "no"
          /\ close' = "done" => run' \in {"new", "done"}
        BY <1>1 DEF StreamPart!Commit, StreamPart!BeginRun, StreamPart!LeaveRun, StreamPart!EndClose,
                    StreamPart!StreamInv
    <2>5. QED BY <2>1, <2>2, <2>3, <2>4 DEF StreamPart!StreamInv
<1>2. CASE StreamPart!Fail
    <2>1. /\ run' = "done" /\ streamClosed' = TRUE /\ StreamPart!RemoveAll("unavailable")
          /\ UNCHANGED <<committed, dispatched, cancelled, close>>
        BY <1>2 DEF StreamPart!Fail
    <2>2. streamClosed' \in BOOLEAN /\ streamClosed'
        BY <2>1
    <2>3. QED BY <2>1, <2>2, RemoveAllSubs, SourceStep DEF StreamPart!StreamInv
<1>3. CASE StreamPart!BeginClose
    <2>1. /\ streamClosed' = TRUE /\ StreamPart!RemoveAll("unavailable")
          /\ close' = (IF run \in {"waiting", "failing"} THEN "waiting" ELSE "done")
          /\ UNCHANGED <<committed, dispatched, run>>
        BY <1>3 DEF StreamPart!BeginClose
    <2>2. streamClosed' \in BOOLEAN /\ streamClosed'
        BY <2>1
    <2>3. close' = "done" => run' \in {"new", "done"}
        BY <2>1 DEF StreamPart!StreamInv
    <2>4. QED BY <2>1, <2>2, <2>3, RemoveAllSubs, SourceStep DEF StreamPart!StreamInv
<1>4. QED BY <1>1, <1>2, <1>3

LEMMA StreamStart ==
    ASSUME StreamPart!Init
    PROVE  StreamPart!StreamInv
<1>1. /\ committed \in Nat /\ dispatched = committed /\ run = "new" /\ close = "no"
      /\ sub = [q \in Actor |-> sub[q]]
      /\ \A s \in Actor : sub[s] = [pc |-> "new", failure |-> "none", since |-> 0, listed |-> 0,
                                    queue |-> <<>>, held |-> <<>>, got |-> <<>>]
    BY DEF StreamPart!Init
<1>2. streamClosed \in BOOLEAN /\ ~streamClosed
    BY DEF StreamPart!Init
<1>3. ASSUME NEW s \in Actor
      PROVE  StreamPart!IsSub(sub[s]) /\ StreamPart!Follows(sub[s], dispatched) /\ sub[s].pc = "new"
    <2>1. /\ sub[s].pc = "new" /\ sub[s].failure = "none" /\ sub[s].since = 0 /\ sub[s].listed = 0
          /\ sub[s].queue = <<>> /\ sub[s].held = <<>> /\ sub[s].got = <<>>
          /\ DOMAIN sub[s] = {"pc", "failure", "since", "listed", "queue", "held", "got"}
        BY <1>1
    <2>2. <<>> \in Seq(Nat)
        OBVIOUS
    <2>3. StreamPart!Seen(sub[s]) = <<>>
        BY <2>1 DEF StreamPart!Seen
    <2>4. StreamPart!Consecutive(<<>>, 0)
        BY DEF StreamPart!Consecutive
    <2>5. StreamPart!IsSub(sub[s])
        BY <2>1, <2>2 DEF StreamPart!IsSub
    <2>6. QED BY <1>1, <2>1, <2>3, <2>4, <2>5 DEF StreamPart!Follows
<1>4. StreamPart!Open = {}
    BY <1>3 DEF StreamPart!Open
<1>5. StreamPart!IsFiniteSet({}) /\ StreamPart!Cardinality({}) <= MaxSubscriptions
    BY PartCardinality, FS_EmptySet, ServiceAssumption
<1>6. QED BY <1>1, <1>2, <1>3, <1>4, <1>5 DEF StreamPart!StreamInv

\* For any number of subscriptions, any buffer and any limit: what a consumer has got is
\* every event since it subscribed, in order, until the source has told it to list again,
\* however dispatch, Next, a slow consumer, a lost session and Close interleave.
THEOREM NoSilentGap == Spec => []GapIsNoticed
<1>1. Init => StreamPart!StreamInv
    BY StreamStart DEF Init
<1>2. StreamPart!StreamInv /\ [Next]_vars => StreamPart!StreamInv'
    <2>1. SUFFICES ASSUME StreamPart!StreamInv, [Next]_vars PROVE StreamPart!StreamInv'
        OBVIOUS
    <2>2. CASE UNCHANGED streamVars
        BY <2>1, <2>2 DEF streamVars, StreamPart!StreamInv, StreamPart!Open
    <2>3. CASE StreamPart!Next
        <3>1. ASSUME NEW s \in Actor,
                     \/ StreamPart!Subscribe(s) \/ StreamPart!List(s) \/ StreamPart!BeginNext(s)
                     \/ StreamPart!SelectDone(s) \/ StreamPart!SelectEvent(s) \/ StreamPart!Return(s)
                     \/ StreamPart!CancelNext(s) \/ StreamPart!Remove(s)
              PROVE  StreamPart!StreamInv'
            BY <2>1, <3>1, SubscribeStep, ConsumerSteps
        <3>2. QED BY <2>1, <2>3, <3>1, DispatchStep, RunSteps DEF StreamPart!Next
    <2>4. QED BY <2>1, <2>2, <2>3, PartStep
<1>3. StreamPart!StreamInv => GapIsNoticed
    <2>1. SUFFICES ASSUME StreamPart!StreamInv PROVE StreamPart!GapIsNoticed
        BY DEF GapIsNoticed
    <2>2. ASSUME NEW s \in Actor
          PROVE  /\ StreamPart!Consecutive(sub[s].got \o sub[s].held \o sub[s].queue, sub[s].since)
                 /\ s \in StreamPart!Open /\ sub[s].pc # "ended" =>
                       sub[s].since + Len(sub[s].got \o sub[s].held \o sub[s].queue) = dispatched
                 /\ sub[s].pc \in {"idle", "select", "return"} => sub[s].listed >= sub[s].since
        <3>1. StreamPart!Follows(sub[s], dispatched)
            BY <2>1 DEF StreamPart!StreamInv
        <3>2. StreamPart!Seen(sub[s]) = sub[s].got \o sub[s].held \o sub[s].queue
            BY DEF StreamPart!Seen
        <3>3. s \in StreamPart!Open => sub[s].failure = "none" /\ sub[s].pc # "new"
            BY DEF StreamPart!Open
        <3>4. QED BY <3>1, <3>2, <3>3, Zenon DEF StreamPart!Follows
    <2>3. QED BY <2>1, <2>2 DEF StreamPart!StreamInv, StreamPart!GapIsNoticed
<1>4. QED BY <1>1, <1>2, <1>3, PTL DEF Spec

-----------------------------------------------------------------------------
(***************************************************************************)
(* The key queue.                                                          *)
(***************************************************************************)

\* What is finite, and how many, means the same in the queue.
LEMMA QueueSets ==
    ASSUME NEW S
    PROVE  /\ QueuePart!IsFiniteSet(S) <=> IsFiniteSet(S)
           /\ QueuePart!Cardinality(S) = Cardinality(S)
BY DEF IsFiniteSet, Cardinality, QueuePart!IsFiniteSet, QueuePart!Cardinality

\* The variables of the queue are those of the part.
LEMMA QueuePartSame == UNCHANGED queueVars => UNCHANGED QueuePart!vars
BY DEF queueVars, QueuePart!vars, QueuePart!queueVars, QueuePart!workerVars,
       QueuePart!emitterVars

\* nextDelay keeps between the minimum and the maximum.
LEMMA NextDelayBounds ==
    ASSUME NEW d \in Nat
    PROVE  /\ QueuePart!NextDelay(d) \in Nat /\ QueuePart!NextDelay(d) > 0
           /\ QueuePart!NextDelay(d) <= RetryMax
<1>1. RetryMin \in Nat \ {0} /\ RetryMax \in Nat \ {0} /\ RetryMin <= RetryMax
    BY ControllerAssumption
<1>2. CASE d < RetryMin
    BY <1>1, <1>2 DEF QueuePart!NextDelay
<1>3. CASE ~(d < RetryMin) /\ d >= RetryMax \div 2
    BY <1>1, <1>3 DEF QueuePart!NextDelay
<1>4. CASE ~(d < RetryMin) /\ ~(d >= RetryMax \div 2)
    <2>1. QueuePart!NextDelay(d) = 2 * d
        BY <1>4 DEF QueuePart!NextDelay
    <2>2. d > 0 /\ 2 * d <= RetryMax
        BY <1>1, <1>4
    <2>3. QED BY <2>1, <2>2
<1>5. QED BY <1>2, <1>3, <1>4

\* The times that the queue compares.
LEMMA QueueTimes ==
    /\ Recheck \in Nat /\ Recheck > 0 /\ RetryMax \in Nat /\ ResyncInterval \in Nat /\ MaxDisturb \in Nat
    /\ QueuePart!Never \in Nat /\ Recheck < QueuePart!Never
    /\ \A d \in Nat : /\ QueuePart!NextDelay(d) \in Nat /\ QueuePart!NextDelay(d) > 0
                      /\ QueuePart!NextDelay(d) < QueuePart!Never
    /\ \A t \in Nat : QueuePart!Down(t) \in Nat
<1>1. Recheck \in Nat \ {0} /\ RetryMax \in Nat /\ ResyncInterval \in Nat /\ MaxDisturb \in Nat
    BY ControllerAssumption
<1>2. QED BY <1>1, NextDelayBounds DEF QueuePart!Never, QueuePart!Down

\* Who is who.
LEMMA QueueActors ==
    /\ Scanner \in QueuePart!Emitter /\ Receiver \subseteq QueuePart!Emitter
    /\ None \notin QueuePart!Emitter /\ None \notin Key
    /\ Actor \cap QueuePart!Emitter = {}
BY ControllerAssumption DEF QueuePart!Emitter

-----------------------------------------------------------------------------
(***************************************************************************)
(* The key queue: types.                                                   *)
(***************************************************************************)

LEMMA AdmitTypes ==
    ASSUME QueuePart!TypeOK, NEW k \in Key, QueuePart!Admit(k)
    PROVE  /\ place' \in [Key -> {"none", "queued", "active"}] /\ dirty' \in [Key -> BOOLEAN]
           /\ delay' = delay /\ wait' \in [Key -> Nat] /\ cool' = cool
           /\ ahead' \in [Key -> SUBSET Key] /\ retrying' = retrying
           /\ asleep' \subseteq Actor \cup QueuePart!Emitter /\ owed' \subseteq Key
<1>1. /\ dirty' = [dirty EXCEPT ![k] = TRUE] /\ owed' = owed \cup {k}
      /\ UNCHANGED <<delay, retrying, cool>>
    BY DEF QueuePart!Admit
<1>2. dirty' \in [Key -> BOOLEAN] /\ owed' \subseteq Key
    BY <1>1 DEF QueuePart!TypeOK
<1>3. CASE place[k] # "none"
    BY <1>1, <1>2, <1>3 DEF QueuePart!Admit, QueuePart!TypeOK
<1>4. CASE place[k] = "none"
    BY <1>1, <1>2, <1>4
    DEF QueuePart!Admit, QueuePart!TypeOK, QueuePart!Push, QueuePart!Notify, QueuePart!Queued
<1>5. QED BY <1>3, <1>4

\* finishResult queues the key again, as a retry or not, or lets it go.
LEMMA FinishCases ==
    ASSUME QueuePart!TypeOK, QueuePart!OneActionPerKey, NEW w \in Actor,
           NEW outcome \in QueuePart!Outcome, QueuePart!Finish(w, outcome)
    PROVE  /\ wkey[w] \in Key /\ place[wkey[w]] = "active"
           /\ \/ \E d \in Nat, t \in Nat :
                    /\ QueuePart!Requeue(wkey[w], d, t) /\ t < QueuePart!Never
                    /\ retrying' \in {retrying, retrying + 1}
                    /\ retrying' = IF d > 0 THEN retrying + 1 ELSE retrying
              \/ QueuePart!Settle(wkey[w]) /\ ~dirty[wkey[w]] /\ retrying' = retrying
<1> DEFINE k == wkey[w]
<1>1. k \in Key /\ place[k] = "active" /\ delay[k] \in Nat /\ retrying \in Int
    BY DEF QueuePart!Finish, QueuePart!OneActionPerKey, QueuePart!Active, QueuePart!TypeOK
<1> DEFINE n == QueuePart!NextDelay(delay[k])
<1>2. /\ n \in Nat /\ n > 0 /\ n < QueuePart!Never /\ Recheck \in Nat
      /\ Recheck < QueuePart!Never /\ 0 < QueuePart!Never /\ 0 \in Nat
    BY <1>1, QueueTimes
<1>3. \/ QueuePart!Requeue(k, n, n) /\ retrying' = retrying + 1
      \/ QueuePart!Requeue(k, 0, Recheck) /\ retrying' = retrying
      \/ QueuePart!Requeue(k, 0, 0) /\ retrying' = retrying
      \/ QueuePart!Settle(k) /\ ~dirty[k] /\ retrying' = retrying
    BY DEF QueuePart!Finish
<1> HIDE DEF k, n
<1>4. CASE QueuePart!Requeue(k, n, n) /\ retrying' = retrying + 1
    BY <1>1, <1>2, <1>4 DEF k
<1>5. CASE QueuePart!Requeue(k, 0, Recheck) /\ retrying' = retrying
    BY <1>1, <1>2, <1>5 DEF k
<1>6. CASE QueuePart!Requeue(k, 0, 0) /\ retrying' = retrying
    BY <1>1, <1>2, <1>6 DEF k
<1>7. QED BY <1>1, <1>3, <1>4, <1>5, <1>6 DEF k

LEMMA WorkerTypes ==
    ASSUME QueuePart!TypeOK, QueuePart!HandIsFull, QueuePart!OneActionPerKey, NEW w \in Actor,
           QueuePart!Work(w) \/ QueuePart!Returns(w) \/ QueuePart!TerminalError(w)
    PROVE  QueuePart!TypeOK' /\ QueuePart!HandIsFull'
<1> USE DEF QueuePart!TypeOK, QueuePart!HandIsFull, QueuePart!queueVars, QueuePart!workerVars,
            QueuePart!emitterVars, QueuePart!Queued, QueuePart!Active
<1>1. ASSUME NEW k \in Key, QueuePart!Take(w, k) PROVE QueuePart!TypeOK' /\ QueuePart!HandIsFull'
    BY <1>1, QueueTimes DEF QueuePart!Take, QueuePart!Onward
<1>2. CASE QueuePart!TakeNothing(w)
    BY <1>2, QueueTimes DEF QueuePart!TakeNothing
<1>3. CASE QueuePart!WorkerStops(w)
    BY <1>3, QueueTimes DEF QueuePart!WorkerStops
<1>4. ASSUME NEW outcome \in QueuePart!Outcome, QueuePart!Finish(w, outcome)
      PROVE  QueuePart!TypeOK' /\ QueuePart!HandIsFull'
    <2>1. /\ place' \in [Key -> {"none", "queued", "active"}] /\ delay' \in [Key -> Nat]
          /\ wait' \in [Key -> Nat] /\ cool' \in [Key -> Nat] /\ ahead' \in [Key -> SUBSET Key]
          /\ asleep' = {} /\ retrying' \in Int
        <3>1. ASSUME NEW d \in Nat, NEW t \in Nat, QueuePart!Requeue(wkey[w], d, t),
                     retrying' \in {retrying, retrying + 1}
              PROVE  /\ place' \in [Key -> {"none", "queued", "active"}] /\ delay' \in [Key -> Nat]
                     /\ wait' \in [Key -> Nat] /\ cool' \in [Key -> Nat] /\ ahead' \in [Key -> SUBSET Key]
                     /\ asleep' = {} /\ retrying' \in Int
            <4>1. wkey[w] \in Key
                BY <1>4, FinishCases
            <4>2. QED BY <3>1, <4>1 DEF QueuePart!Requeue, QueuePart!Push, QueuePart!Notify
        <3>2. ASSUME QueuePart!Settle(wkey[w]), retrying' = retrying
              PROVE  /\ place' \in [Key -> {"none", "queued", "active"}] /\ delay' \in [Key -> Nat]
                     /\ wait' \in [Key -> Nat] /\ cool' \in [Key -> Nat] /\ ahead' \in [Key -> SUBSET Key]
                     /\ asleep' = {} /\ retrying' \in Int
            BY <3>2 DEF QueuePart!Settle, QueuePart!Notify
        <3>3. QED BY <1>4, <3>1, <3>2, FinishCases
    <2>2. /\ wpc' = [wpc EXCEPT ![w] = QueuePart!Onward("take")]
          /\ wkey' = [wkey EXCEPT ![w] = None]
          /\ UNCHANGED <<session, ready, dirty, owed, alarm, QueuePart!emitterVars, disturbed>>
        BY <1>4 DEF QueuePart!Finish
    <2>3. QED BY <2>1, <2>2 DEF QueuePart!Onward
<1>5. CASE QueuePart!TerminalError(w)
    BY <1>5 DEF QueuePart!TerminalError
<1>6. QED BY <1>1, <1>2, <1>3, <1>4, <1>5 DEF QueuePart!Work, QueuePart!Returns

LEMMA EmitterTypes ==
    ASSUME QueuePart!TypeOK, QueuePart!HandIsFull,
           \/ \E r \in Receiver, k \in Key : QueuePart!Receive(r, k) \/ QueuePart!AddDirect(r, k)
           \/ \E e \in QueuePart!Emitter : QueuePart!Enter(e) \/ QueuePart!Emit(e)
           \/ QueuePart!ScanStart \/ \E k \in Key : QueuePart!ScanEmit(k)
           \/ \E f \in BOOLEAN : QueuePart!ScanEnd(f)
    PROVE  QueuePart!TypeOK' /\ QueuePart!HandIsFull'
<1> USE QueueActors
    DEF QueuePart!TypeOK, QueuePart!HandIsFull, QueuePart!queueVars, QueuePart!workerVars,
        QueuePart!emitterVars
<1>1. ASSUME NEW r \in Receiver, NEW k \in Key, QueuePart!Receive(r, k)
      PROVE  QueuePart!TypeOK' /\ QueuePart!HandIsFull'
    BY <1>1 DEF QueuePart!Receive
<1>2. ASSUME NEW r \in Receiver, NEW k \in Key, QueuePart!AddDirect(r, k)
      PROVE  QueuePart!TypeOK' /\ QueuePart!HandIsFull'
    <2>1. UNCHANGED <<ready, QueuePart!workerVars, QueuePart!emitterVars>>
        BY <1>2 DEF QueuePart!AddDirect
    <2>2. CASE QueuePart!Admit(k) /\ UNCHANGED <<session, disturbed>>
        <3>1. /\ place' \in [Key -> {"none", "queued", "active"}] /\ dirty' \in [Key -> BOOLEAN]
              /\ delay' = delay /\ wait' \in [Key -> Nat] /\ cool' = cool
              /\ ahead' \in [Key -> SUBSET Key] /\ retrying' = retrying
              /\ asleep' \subseteq Actor \cup QueuePart!Emitter /\ owed' \subseteq Key
            BY <2>2, AdmitTypes
        <3>2. QED BY <2>1, <2>2, <3>1
    <2>3. CASE /\ disturbed < MaxDisturb /\ session' = "failed" /\ disturbed' = disturbed + 1
               /\ UNCHANGED <<QueuePart!queueVars, asleep>>
        BY <2>1, <2>3, QueueTimes
    <2>4. QED BY <1>2, <2>2, <2>3 DEF QueuePart!AddDirect
<1>3. ASSUME NEW e \in QueuePart!Emitter, QueuePart!Enter(e)
      PROVE  QueuePart!TypeOK' /\ QueuePart!HandIsFull'
    BY <1>3 DEF QueuePart!Enter
<1>4. ASSUME NEW e \in QueuePart!Emitter, QueuePart!TryAdmit(e)
      PROVE  QueuePart!TypeOK' /\ QueuePart!HandIsFull'
    <2>1. ekey[e] \in Key
        BY <1>4 DEF QueuePart!TryAdmit
    <2>2. /\ place' \in [Key -> {"none", "queued", "active"}] /\ dirty' \in [Key -> BOOLEAN]
          /\ delay' = delay /\ wait' \in [Key -> Nat] /\ cool' = cool
          /\ ahead' \in [Key -> SUBSET Key] /\ retrying' = retrying
          /\ asleep' \subseteq Actor \cup QueuePart!Emitter /\ owed' \subseteq Key
        BY <1>4, <2>1, AdmitTypes DEF QueuePart!TryAdmit
    <2>3. /\ admission' = None /\ ekey' = [ekey EXCEPT ![e] = None]
          /\ epc' = [epc EXCEPT ![e] = QueuePart!Onward(IF e = Scanner THEN "scan" ELSE "rest")]
          /\ UNCHANGED <<session, ready, QueuePart!workerVars, scan, disturbed>>
        BY <1>4 DEF QueuePart!TryAdmit
    <2>4. QED BY <2>2, <2>3 DEF QueuePart!Onward
<1>5. ASSUME NEW e \in QueuePart!Emitter, QueuePart!TrySleep(e)
      PROVE  QueuePart!TypeOK' /\ QueuePart!HandIsFull'
    BY <1>5 DEF QueuePart!TrySleep
<1>6. ASSUME NEW e \in QueuePart!Emitter, QueuePart!EmitterStops(e)
      PROVE  QueuePart!TypeOK' /\ QueuePart!HandIsFull'
    BY <1>6 DEF QueuePart!EmitterStops
<1>7. CASE QueuePart!ScanStart
    <2>1. CASE ready
        <3>1. /\ epc' = [epc EXCEPT ![Scanner] = "scan"] /\ scan' = [scan EXCEPT !.active = TRUE]
              /\ UNCHANGED <<asleep, session, ready, QueuePart!queueVars, QueuePart!workerVars,
                              ekey, admission, disturbed>>
            BY <1>7, <2>1 DEF QueuePart!ScanStart
        <3>2. scan' \in [wait : Nat, delay : Nat, active : BOOLEAN]
            BY <3>1
        <3>3. QED BY <3>1, <3>2
    <2>2. CASE ~ready
        BY <1>7, <2>2 DEF QueuePart!ScanStart
    <2>3. QED BY <2>1, <2>2
<1>8. ASSUME NEW k \in Key, QueuePart!ScanEmit(k) PROVE QueuePart!TypeOK' /\ QueuePart!HandIsFull'
    BY <1>8 DEF QueuePart!ScanEmit
<1>9. ASSUME NEW f \in BOOLEAN, QueuePart!ScanEnd(f)
      PROVE  QueuePart!TypeOK' /\ QueuePart!HandIsFull'
    <2>1. /\ epc' = [epc EXCEPT ![Scanner] = "wait"]
          /\ UNCHANGED <<session, ready, QueuePart!queueVars, QueuePart!workerVars, asleep,
                         ekey, admission, disturbed>>
        BY <1>9 DEF QueuePart!ScanEnd
    <2>2. scan' \in [wait : Nat, delay : Nat, active : BOOLEAN]
        <3>1. scan.delay \in Nat
            OBVIOUS
        <3>2. CASE f
            BY <1>9, <3>1, <3>2, QueueTimes DEF QueuePart!ScanEnd
        <3>3. CASE ~f
            BY <1>9, <3>3, QueueTimes DEF QueuePart!ScanEnd
        <3>4. QED BY <3>2, <3>3
    <2>3. QED BY <2>1, <2>2
<1>10. QED BY <1>1, <1>2, <1>3, <1>4, <1>5, <1>6, <1>7, <1>8, <1>9 DEF QueuePart!Emit

LEMMA SessionTypes ==
    ASSUME QueuePart!TypeOK, QueuePart!HandIsFull, QueuePart!IsFiniteSet(QueuePart!Entries),
           \/ \E b \in BOOLEAN : QueuePart!SetReady(b)
           \/ QueuePart!WatchFails \/ QueuePart!Restart \/ QueuePart!Reopen \/ QueuePart!Tick
    PROVE  QueuePart!TypeOK' /\ QueuePart!HandIsFull'
<1> USE QueueTimes, QueueActors
    DEF QueuePart!TypeOK, QueuePart!HandIsFull, QueuePart!queueVars, QueuePart!workerVars,
        QueuePart!emitterVars, QueuePart!Notify
<1>1. ASSUME NEW b \in BOOLEAN, QueuePart!SetReady(b)
      PROVE  QueuePart!TypeOK' /\ QueuePart!HandIsFull'
    BY <1>1 DEF QueuePart!SetReady
<1>2. CASE QueuePart!WatchFails
    BY <1>2 DEF QueuePart!WatchFails
<1>3. CASE QueuePart!Restart
    <2>1. /\ session' = "down" /\ ready' = FALSE /\ asleep' = {}
          /\ UNCHANGED <<owed, wpc, wkey, alarm, epc, ekey, admission, disturbed>>
        BY <1>3 DEF QueuePart!Restart
    <2>2. scan' \in [wait : Nat, delay : Nat, active : BOOLEAN]
        BY <1>3 DEF QueuePart!Restart, QueuePart!Reconnect
    <2>3. /\ place' \in [Key -> {"none", "queued", "active"}] /\ dirty' \in [Key -> BOOLEAN]
          /\ delay' \in [Key -> Nat] /\ wait' \in [Key -> Nat] /\ cool' \in [Key -> Nat]
        BY <1>3 DEF QueuePart!Restart
    <2>4. ahead' \in [Key -> SUBSET Key]
        BY <1>3 DEF QueuePart!Restart, QueuePart!Queued, QueuePart!Active
    <2>5. retrying' \in Int
        <3>1. /\ QueuePart!IsFiniteSet(QueuePart!Active)
              /\ QueuePart!Cardinality(QueuePart!Active) \in Nat
            <4>1. QueuePart!Active \in SUBSET QueuePart!Entries
                BY DEF QueuePart!Entries
            <4>2. QueuePart!IsFiniteSet(QueuePart!Active)
                BY <4>1, QueueSets, FS_Subset
            <4>3. QED BY <4>2, QueueSets, FS_CardinalityType
        <3>2. QED BY <1>3, <3>1 DEF QueuePart!Restart
    <2>6. QED BY <2>1, <2>2, <2>3, <2>4, <2>5
<1>4. CASE QueuePart!Reopen
    BY <1>4 DEF QueuePart!Reopen
<1>5. CASE QueuePart!Tick
    BY <1>5 DEF QueuePart!Tick
<1>6. QED BY <1>1, <1>2, <1>3, <1>4, <1>5

-----------------------------------------------------------------------------
(***************************************************************************)
(* The queue: its order, its delays, its size and its counter.             *)
(***************************************************************************)

Retries == {k \in QueuePart!Queued : delay[k] > 0}

Sound ==
    /\ QueuePart!DelaysAgree /\ QueuePart!HeapOrdered /\ QueuePart!NoKeyLost
    /\ QueuePart!IsFiniteSet(QueuePart!Entries) /\ QueuePart!WithinCapacity
    /\ QueuePart!RetryingCounts

\* Where a key is decides which sets hold it.
LEMMA Places ==
    ASSUME QueuePart!TypeOK, NEW k \in Key
    PROVE  /\ place' = [place EXCEPT ![k] = "queued"] =>
                 /\ QueuePart!Queued' = QueuePart!Queued \cup {k}
                 /\ QueuePart!Active' = QueuePart!Active \ {k}
                 /\ QueuePart!Entries' = QueuePart!Entries \cup {k}
           /\ place' = [place EXCEPT ![k] = "active"] =>
                 /\ QueuePart!Queued' = QueuePart!Queued \ {k}
                 /\ QueuePart!Active' = QueuePart!Active \cup {k}
                 /\ QueuePart!Entries' = QueuePart!Entries \cup {k}
           /\ place' = [place EXCEPT ![k] = "none"] =>
                 /\ QueuePart!Queued' = QueuePart!Queued \ {k}
                 /\ QueuePart!Active' = QueuePart!Active \ {k}
                 /\ QueuePart!Entries' = QueuePart!Entries \ {k}
           /\ QueuePart!Queued \cap QueuePart!Active = {}
<1>1. ASSUME place' = [place EXCEPT ![k] = "queued"]
      PROVE  /\ QueuePart!Queued' = QueuePart!Queued \cup {k}
             /\ QueuePart!Active' = QueuePart!Active \ {k}
             /\ QueuePart!Entries' = QueuePart!Entries \cup {k}
    BY <1>1 DEF QueuePart!TypeOK, QueuePart!Queued, QueuePart!Active, QueuePart!Entries
<1>2. ASSUME place' = [place EXCEPT ![k] = "active"]
      PROVE  /\ QueuePart!Queued' = QueuePart!Queued \ {k}
             /\ QueuePart!Active' = QueuePart!Active \cup {k}
             /\ QueuePart!Entries' = QueuePart!Entries \cup {k}
    BY <1>2 DEF QueuePart!TypeOK, QueuePart!Queued, QueuePart!Active, QueuePart!Entries
<1>3. ASSUME place' = [place EXCEPT ![k] = "none"]
      PROVE  /\ QueuePart!Queued' = QueuePart!Queued \ {k}
             /\ QueuePart!Active' = QueuePart!Active \ {k}
             /\ QueuePart!Entries' = QueuePart!Entries \ {k}
    BY <1>3 DEF QueuePart!TypeOK, QueuePart!Queued, QueuePart!Active, QueuePart!Entries
<1>4. QueuePart!Queued \cap QueuePart!Active = {}
    BY DEF QueuePart!Queued, QueuePart!Active
<1>5. QED BY <1>1, <1>2, <1>3, <1>4

\* heap.Push keeps the order.
LEMMA PushOrdered ==
    ASSUME QueuePart!TypeOK, QueuePart!HeapOrdered, NEW k \in Key, k \notin QueuePart!Queued,
           NEW t \in Nat, QueuePart!Push(k, t),
           QueuePart!Queued' = QueuePart!Queued \cup {k}
    PROVE  QueuePart!HeapOrdered'
<1>1. /\ wait' = [wait EXCEPT ![k] = t]
      /\ ahead' = [j \in Key |->
            IF j = k THEN {i \in QueuePart!Queued : wait[i] <= t}
            ELSE IF j \in QueuePart!Queued /\ wait[j] > t THEN ahead[j] \cup {k}
            ELSE ahead[j]]
    BY DEF QueuePart!Push
<1>2. QueuePart!Queued \subseteq Key /\ \A j \in QueuePart!Queued : j # k
    BY DEF QueuePart!Queued
<1>3. wait'[k] = t /\ \A j \in QueuePart!Queued : wait'[j] = wait[j] /\ wait[j] \in Nat
    BY <1>1, <1>2 DEF QueuePart!TypeOK
<1>4. /\ ahead'[k] = {i \in QueuePart!Queued : wait[i] <= t}
      /\ \A j \in QueuePart!Queued : ahead'[j] = IF wait[j] > t THEN ahead[j] \cup {k} ELSE ahead[j]
    BY <1>1, <1>2
<1>5. ASSUME NEW j \in QueuePart!Queued
      PROVE  ahead'[j] \subseteq QueuePart!Queued' /\ \A i \in ahead'[j] : wait'[i] <= wait'[j]
    <2>1. ahead[j] \subseteq QueuePart!Queued /\ \A i \in ahead[j] : wait[i] <= wait[j]
        BY DEF QueuePart!HeapOrdered
    <2>2. \A i \in ahead[j] : wait'[i] <= wait'[j]
        BY <1>3, <2>1
    <2>3. CASE wait[j] > t
        <3>1. ahead'[j] = ahead[j] \cup {k}
            BY <1>4, <2>3
        <3>2. wait'[k] = t /\ wait'[j] = wait[j] /\ wait[j] \in Nat
            BY <1>3
        <3>3. wait'[k] <= wait'[j]
            BY <2>3, <3>2
        <3>4. QED BY <2>1, <2>2, <3>1, <3>3
    <2>4. CASE ~(wait[j] > t)
        BY <1>4, <2>1, <2>2, <2>4
    <2>5. QED BY <2>3, <2>4
<1>6. ahead'[k] \subseteq QueuePart!Queued' /\ \A i \in ahead'[k] : wait'[i] <= wait'[k]
    BY <1>3, <1>4
<1>7. ASSUME NEW i \in QueuePart!Queued PROVE i \in ahead'[k] \/ k \in ahead'[i]
    <2>1. wait[i] \in Nat
        BY <1>3
    <2>2. CASE wait[i] <= t
        BY <1>4, <2>2
    <2>3. CASE wait[i] > t
        BY <1>4, <2>3
    <2>4. QED BY <2>1, <2>2, <2>3
<1>8. ASSUME NEW i \in QueuePart!Queued, NEW j \in QueuePart!Queued, i # j
      PROVE  i \in ahead'[j] \/ j \in ahead'[i]
    <2>1. i \in ahead[j] \/ j \in ahead[i]
        BY <1>8 DEF QueuePart!HeapOrdered
    <2>2. QED BY <1>4, <2>1
<1>9. QED BY <1>5, <1>6, <1>7, <1>8 DEF QueuePart!HeapOrdered

\* addLocked.
LEMMA AdmitSound ==
    ASSUME QueuePart!TypeOK, Sound, NEW k \in Key, QueuePart!Admit(k)
    PROVE  Sound'
<1>1. /\ ~QueuePart!Full(k) /\ dirty' = [dirty EXCEPT ![k] = TRUE] /\ owed' = owed \cup {k}
      /\ delay' = delay /\ retrying' = retrying /\ cool' = cool
    BY DEF QueuePart!Admit
<1>2. CASE place[k] # "none"
    <2>1. place' = place /\ wait' = wait /\ ahead' = ahead
        BY <1>2 DEF QueuePart!Admit
    <2>2. /\ QueuePart!Queued' = QueuePart!Queued /\ QueuePart!Active' = QueuePart!Active
          /\ QueuePart!Entries' = QueuePart!Entries
        BY <2>1 DEF QueuePart!Queued, QueuePart!Active, QueuePart!Entries
    <2>3. QueuePart!NoKeyLost'
        <3>1. k \in QueuePart!Queued \/ k \in QueuePart!Active
            BY <1>2 DEF QueuePart!TypeOK, QueuePart!Queued, QueuePart!Active
        <3>2. QueuePart!Active \subseteq Key
            BY DEF QueuePart!Active
        <3>3. \A j \in Key : dirty[j] => dirty'[j]
            BY <1>1 DEF QueuePart!TypeOK
        <3>4. dirty'[k]
            BY <1>1 DEF QueuePart!TypeOK
        <3>5. QED BY <1>1, <2>2, <3>1, <3>2, <3>3, <3>4 DEF Sound, QueuePart!NoKeyLost
    <2>4. /\ QueuePart!DelaysAgree' /\ QueuePart!HeapOrdered' /\ QueuePart!WithinCapacity'
          /\ QueuePart!RetryingCounts' /\ QueuePart!IsFiniteSet(QueuePart!Entries')
        BY <1>1, <2>1, <2>2
        DEF Sound, QueuePart!DelaysAgree, QueuePart!HeapOrdered, QueuePart!WithinCapacity,
            QueuePart!RetryingCounts
    <2>5. QED BY <2>3, <2>4 DEF Sound
<1>3. CASE place[k] = "none"
    <2>1. place' = [place EXCEPT ![k] = "queued"] /\ QueuePart!Push(k, 0)
        BY <1>3 DEF QueuePart!Admit
    <2>2. /\ QueuePart!Queued' = QueuePart!Queued \cup {k}
          /\ QueuePart!Active' = QueuePart!Active \ {k}
          /\ QueuePart!Entries' = QueuePart!Entries \cup {k}
        BY <2>1, Places
    <2>3. k \notin QueuePart!Queued /\ k \notin QueuePart!Active /\ k \notin QueuePart!Entries
        BY <1>3 DEF QueuePart!Queued, QueuePart!Active, QueuePart!Entries
    <2>4. QueuePart!HeapOrdered'
        BY <2>1, <2>2, <2>3, PushOrdered DEF Sound
    <2>5. QueuePart!DelaysAgree'
        <3>1. wait' = [wait EXCEPT ![k] = 0]
            BY <2>1 DEF QueuePart!Push
        <3>2. delay[k] = 0 /\ cool[k] = 0
            BY <1>3 DEF Sound, QueuePart!DelaysAgree
        <3>3. \A j \in Key : j # k => place'[j] = place[j] /\ wait'[j] = wait[j]
            BY <2>1, <3>1 DEF QueuePart!TypeOK
        <3>4. place'[k] = "queued" /\ wait'[k] = 0
            BY <2>1, <3>1 DEF QueuePart!TypeOK
        <3>5. QED BY <1>1, <3>2, <3>3, <3>4, QueueTimes DEF Sound, QueuePart!DelaysAgree
    <2>6. QueuePart!NoKeyLost'
        <3>1. \A j \in Key : dirty[j] => dirty'[j]
            BY <1>1 DEF QueuePart!TypeOK
        <3>2. QueuePart!Active \subseteq Key
            BY DEF QueuePart!Active
        <3>3. QED BY <1>1, <2>2, <2>3, <3>1, <3>2 DEF Sound, QueuePart!NoKeyLost
    <2>7. QueuePart!IsFiniteSet(QueuePart!Entries') /\ QueuePart!WithinCapacity'
        <3>1. /\ QueuePart!IsFiniteSet(QueuePart!Entries)
              /\ QueuePart!Cardinality(QueuePart!Entries) \in Nat /\ Capacity \in Nat
            BY QueueSets, FS_CardinalityType, ControllerAssumption DEF Sound
        <3>2. ~(QueuePart!Cardinality(QueuePart!Entries) >= Capacity)
            BY <1>1, <1>3 DEF QueuePart!Full
        <3>3. /\ QueuePart!IsFiniteSet(QueuePart!Entries \cup {k})
              /\ QueuePart!Cardinality(QueuePart!Entries \cup {k}) = QueuePart!Cardinality(QueuePart!Entries) + 1
            BY <2>3, <3>1, QueueSets, FS_AddElement
        <3>4. QED BY <2>2, <3>1, <3>2, <3>3 DEF QueuePart!WithinCapacity
    <2>8. QueuePart!RetryingCounts'
        <3>1. delay[k] = 0
            BY <1>3 DEF Sound, QueuePart!DelaysAgree
        <3>2. {j \in QueuePart!Queued' : delay'[j] > 0} = {j \in QueuePart!Queued : delay[j] > 0}
            BY <1>1, <2>2, <3>1
        <3>3. QED BY <1>1, <3>2 DEF Sound, QueuePart!RetryingCounts
    <2>9. QED BY <2>4, <2>5, <2>6, <2>7, <2>8 DEF Sound
<1>4. QED BY <1>2, <1>3

\* take.
LEMMA TakeSound ==
    ASSUME QueuePart!TypeOK, Sound, NEW w \in Actor, NEW k \in Key, QueuePart!Take(w, k)
    PROVE  Sound'
<1>1. /\ k \in QueuePart!Queued /\ place' = [place EXCEPT ![k] = "active"]
      /\ dirty' = [dirty EXCEPT ![k] = FALSE]
      /\ ahead' = [j \in Key |-> ahead[j] \ {k}] /\ owed' = owed \ {k}
      /\ retrying' = (IF delay[k] > 0 THEN retrying - 1 ELSE retrying)
      /\ delay' = delay /\ wait' = wait /\ cool' = cool
    BY DEF QueuePart!Take
<1>2. /\ QueuePart!Queued' = QueuePart!Queued \ {k}
      /\ QueuePart!Active' = QueuePart!Active \cup {k} /\ QueuePart!Entries' = QueuePart!Entries
    <2>1. k \in QueuePart!Entries
        BY <1>1 DEF QueuePart!Entries
    <2>2. /\ QueuePart!Queued' = QueuePart!Queued \ {k}
          /\ QueuePart!Active' = QueuePart!Active \cup {k}
          /\ QueuePart!Entries' = QueuePart!Entries \cup {k}
        BY <1>1, Places
    <2>3. QED BY <2>1, <2>2
<1>3. QueuePart!Queued \subseteq Key /\ QueuePart!Active \subseteq Key
    BY DEF QueuePart!Queued, QueuePart!Active
<1>4. QueuePart!DelaysAgree'
    <2>1. \A j \in Key : place'[j] = place[j] \/ place'[j] = "active"
        BY <1>1 DEF QueuePart!TypeOK
    <2>2. QED BY <1>1, <2>1 DEF Sound, QueuePart!DelaysAgree
<1>5. QueuePart!HeapOrdered'
    <2>1. \A j \in QueuePart!Queued' : ahead'[j] = ahead[j] \ {k}
        BY <1>1, <1>2, <1>3
    <2>2. ASSUME NEW j \in QueuePart!Queued'
          PROVE  ahead'[j] \subseteq QueuePart!Queued' /\ \A i \in ahead'[j] : wait'[i] <= wait'[j]
        BY <1>1, <1>2, <2>1 DEF Sound, QueuePart!HeapOrdered
    <2>3. ASSUME NEW i \in QueuePart!Queued', NEW j \in QueuePart!Queued', i # j
          PROVE  i \in ahead'[j] \/ j \in ahead'[i]
        BY <1>2, <2>1, <2>3 DEF Sound, QueuePart!HeapOrdered
    <2>4. QED BY <2>2, <2>3 DEF QueuePart!HeapOrdered
<1>6. QueuePart!NoKeyLost'
    <2>1. \A j \in Key : j # k => dirty'[j] = dirty[j]
        BY <1>1 DEF QueuePart!TypeOK
    <2>2. QED BY <1>1, <1>2, <1>3, <2>1 DEF Sound, QueuePart!NoKeyLost
<1>7. QueuePart!RetryingCounts'
    <2>1. /\ QueuePart!IsFiniteSet(Retries) /\ QueuePart!Cardinality(Retries) \in Nat
          /\ retrying = QueuePart!Cardinality(Retries)
        <3>1. Retries \in SUBSET QueuePart!Entries
            BY DEF Retries, QueuePart!Entries
        <3>2. QueuePart!IsFiniteSet(Retries)
            BY <3>1, QueueSets, FS_Subset DEF Sound
        <3>3. QED BY <3>2, QueueSets, FS_CardinalityType
                  DEF Sound, QueuePart!RetryingCounts, Retries
    <2>2. Retries' = Retries \ {k}
        BY <1>1, <1>2 DEF Retries
    <2>3. QueuePart!Cardinality(Retries \ {k}) =
             IF k \in Retries THEN QueuePart!Cardinality(Retries) - 1
             ELSE QueuePart!Cardinality(Retries)
        BY <2>1, QueueSets, FS_RemoveElement
    <2>4. k \in Retries <=> delay[k] > 0
        BY <1>1 DEF Retries
    <2>5. retrying' = QueuePart!Cardinality(Retries')
        BY <1>1, <2>1, <2>2, <2>3, <2>4
    <2>6. QED BY <2>5 DEF QueuePart!RetryingCounts, Retries
<1>8. QueuePart!IsFiniteSet(QueuePart!Entries') /\ QueuePart!WithinCapacity'
    BY <1>2 DEF Sound, QueuePart!WithinCapacity
<1>9. QED BY <1>4, <1>5, <1>6, <1>7, <1>8 DEF Sound

\* finishResult, when the key is queued again.
LEMMA RequeueSound ==
    ASSUME QueuePart!TypeOK, Sound, NEW k \in Key, place[k] = "active", NEW d \in Nat,
           NEW t \in Nat, t < QueuePart!Never,
           QueuePart!Requeue(k, d, t), retrying' = IF d > 0 THEN retrying + 1 ELSE retrying,
           dirty' = dirty, owed' = owed
    PROVE  Sound'
<1>1. /\ place' = [place EXCEPT ![k] = "queued"] /\ delay' = [delay EXCEPT ![k] = d]
      /\ QueuePart!Push(k, t) /\ cool' = [cool EXCEPT ![k] = t]
    BY DEF QueuePart!Requeue
<1>2. /\ QueuePart!Queued' = QueuePart!Queued \cup {k}
      /\ QueuePart!Active' = QueuePart!Active \ {k} /\ QueuePart!Entries' = QueuePart!Entries
      /\ k \notin QueuePart!Queued /\ QueuePart!Queued \subseteq Key
    <2>1. k \in QueuePart!Entries /\ k \notin QueuePart!Queued /\ QueuePart!Queued \subseteq Key
        BY DEF QueuePart!Entries, QueuePart!Active, QueuePart!Queued
    <2>2. /\ QueuePart!Queued' = QueuePart!Queued \cup {k}
          /\ QueuePart!Active' = QueuePart!Active \ {k}
          /\ QueuePart!Entries' = QueuePart!Entries \cup {k}
        BY <1>1, Places
    <2>3. QED BY <2>1, <2>2
<1>3. QueuePart!HeapOrdered'
    BY <1>1, <1>2, PushOrdered DEF Sound
<1>4. QueuePart!DelaysAgree'
    <2>1. wait' = [wait EXCEPT ![k] = t]
        BY <1>1 DEF QueuePart!Push
    <2>2. place'[k] = "queued" /\ cool'[k] = t /\ wait'[k] = t
        BY <1>1, <2>1 DEF QueuePart!TypeOK
    <2>3. \A j \in Key : j # k => /\ place'[j] = place[j] /\ wait'[j] = wait[j] /\ cool'[j] = cool[j]
                                  /\ delay'[j] = delay[j]
        BY <1>1, <2>1 DEF QueuePart!TypeOK
    <2>4. QED BY <2>2, <2>3 DEF Sound, QueuePart!DelaysAgree
<1>5. QueuePart!NoKeyLost'
    BY <1>2 DEF Sound, QueuePart!NoKeyLost
<1>6. QueuePart!RetryingCounts'
    <2>1. /\ QueuePart!IsFiniteSet(Retries) /\ QueuePart!Cardinality(Retries) \in Nat
          /\ retrying = QueuePart!Cardinality(Retries)
        <3>1. Retries \in SUBSET QueuePart!Entries
            BY DEF Retries, QueuePart!Entries
        <3>2. QueuePart!IsFiniteSet(Retries)
            BY <3>1, QueueSets, FS_Subset DEF Sound
        <3>3. QED BY <3>2, QueueSets, FS_CardinalityType
                  DEF Sound, QueuePart!RetryingCounts, Retries
    <2>2. delay'[k] = d /\ \A j \in QueuePart!Queued : delay'[j] = delay[j]
        BY <1>1, <1>2 DEF QueuePart!TypeOK
    <2>3. CASE d > 0
        <3>1. Retries' = Retries \cup {k} /\ k \notin Retries
            BY <1>2, <2>2, <2>3 DEF Retries
        <3>2. QueuePart!Cardinality(Retries \cup {k}) = QueuePart!Cardinality(Retries) + 1
            BY <2>1, <3>1, QueueSets, FS_AddElement
        <3>3. QED BY <2>1, <2>3, <3>1, <3>2 DEF QueuePart!RetryingCounts, Retries
    <2>4. CASE ~(d > 0)
        <3>1. Retries' = Retries
            BY <1>2, <2>2, <2>4 DEF Retries
        <3>2. QED BY <2>1, <2>4, <3>1 DEF QueuePart!RetryingCounts, Retries
    <2>5. QED BY <2>3, <2>4
<1>7. QueuePart!IsFiniteSet(QueuePart!Entries') /\ QueuePart!WithinCapacity'
    BY <1>2 DEF Sound, QueuePart!WithinCapacity
<1>8. QED BY <1>3, <1>4, <1>5, <1>6, <1>7 DEF Sound

\* ... and when it leaves the queue.
LEMMA SettleSound ==
    ASSUME QueuePart!TypeOK, Sound, NEW k \in Key, place[k] = "active", ~dirty[k],
           QueuePart!Settle(k),
           retrying' = retrying, dirty' = dirty, owed' = owed
    PROVE  Sound'
<1>1. /\ place' = [place EXCEPT ![k] = "none"] /\ delay' = [delay EXCEPT ![k] = 0]
      /\ cool' = [cool EXCEPT ![k] = 0] /\ wait' = wait /\ ahead' = ahead
    BY DEF QueuePart!Settle
<1>2. /\ QueuePart!Queued' = QueuePart!Queued /\ QueuePart!Active' = QueuePart!Active \ {k}
      /\ QueuePart!Entries' = QueuePart!Entries \ {k}
      /\ k \notin QueuePart!Queued /\ QueuePart!Queued \subseteq Key
    <2>1. k \notin QueuePart!Queued /\ QueuePart!Queued \subseteq Key
        BY DEF QueuePart!Active, QueuePart!Queued
    <2>2. /\ QueuePart!Queued' = QueuePart!Queued \ {k}
          /\ QueuePart!Active' = QueuePart!Active \ {k}
          /\ QueuePart!Entries' = QueuePart!Entries \ {k}
        BY <1>1, Places
    <2>3. QED BY <2>1, <2>2
<1>3. QueuePart!HeapOrdered'
    BY <1>1, <1>2 DEF Sound, QueuePart!HeapOrdered
<1>4. QueuePart!DelaysAgree'
    <2>1. place'[k] = "none" /\ cool'[k] = 0 /\ delay'[k] = 0
        BY <1>1 DEF QueuePart!TypeOK
    <2>2. \A j \in Key : j # k => place'[j] = place[j] /\ cool'[j] = cool[j] /\ delay'[j] = delay[j]
        BY <1>1 DEF QueuePart!TypeOK
    <2>3. QED BY <1>1, <2>1, <2>2 DEF Sound, QueuePart!DelaysAgree
<1>5. QueuePart!NoKeyLost'
    BY <1>2 DEF Sound, QueuePart!NoKeyLost
<1>6. QueuePart!RetryingCounts'
    <2>1. \A j \in QueuePart!Queued : delay'[j] = delay[j]
        BY <1>1, <1>2 DEF QueuePart!TypeOK
    <2>2. {j \in QueuePart!Queued' : delay'[j] > 0} = {j \in QueuePart!Queued : delay[j] > 0}
        BY <1>2, <2>1
    <2>3. QED BY <2>2 DEF Sound, QueuePart!RetryingCounts
<1>7. QueuePart!IsFiniteSet(QueuePart!Entries') /\ QueuePart!WithinCapacity'
    <2>1. /\ QueuePart!IsFiniteSet(QueuePart!Entries)
          /\ QueuePart!Cardinality(QueuePart!Entries) <= Capacity /\ Capacity \in Nat
        BY ControllerAssumption DEF Sound, QueuePart!WithinCapacity
    <2>2. QueuePart!Cardinality(QueuePart!Entries) \in Nat
        BY <2>1, QueueSets, FS_CardinalityType
    <2>3. /\ QueuePart!IsFiniteSet(QueuePart!Entries \ {k})
          /\ QueuePart!Cardinality(QueuePart!Entries \ {k}) =
                IF k \in QueuePart!Entries THEN QueuePart!Cardinality(QueuePart!Entries) - 1
                ELSE QueuePart!Cardinality(QueuePart!Entries)
        BY <2>1, QueueSets, FS_RemoveElement
    <2>4. QED BY <1>2, <2>1, <2>2, <2>3 DEF QueuePart!WithinCapacity
<1>8. QED BY <1>3, <1>4, <1>5, <1>6, <1>7 DEF Sound

\* restart.
LEMMA RestartSound ==
    ASSUME QueuePart!TypeOK, Sound, QueuePart!Restart
    PROVE  Sound'
<1> DEFINE t(k) == IF k \in QueuePart!Active THEN QueuePart!NextDelay(delay[k]) ELSE wait[k]
<1>1. PICK rank \in [QueuePart!Active -> 1 .. QueuePart!Cardinality(QueuePart!Active)] :
        /\ \A i, j \in QueuePart!Active : rank[i] = rank[j] => i = j
        /\ ahead' = [j \in Key |->
              IF j \in QueuePart!Active
              THEN {i \in QueuePart!Queued : wait[i] <= t(j)} \cup
                   {i \in QueuePart!Active : t(i) < t(j) \/ (t(i) = t(j) /\ rank[i] < rank[j])}
              ELSE IF j \in QueuePart!Queued THEN ahead[j] \cup {i \in QueuePart!Active : t(i) < wait[j]}
              ELSE ahead[j]]
    BY DEF QueuePart!Restart
<1>2. /\ place' = [k \in Key |-> IF k \in QueuePart!Active THEN "queued" ELSE place[k]]
      /\ dirty' = [k \in Key |-> dirty[k] \/ k \in QueuePart!Active]
      /\ delay' = [k \in Key |-> IF k \in QueuePart!Active THEN QueuePart!NextDelay(delay[k]) ELSE delay[k]]
      /\ wait' = [k \in Key |-> t(k)]
      /\ cool' = [k \in Key |-> IF k \in QueuePart!Active THEN t(k) ELSE cool[k]]
      /\ retrying' = retrying + QueuePart!Cardinality(QueuePart!Active) /\ owed' = owed
    BY DEF QueuePart!Restart
<1>3. /\ QueuePart!Queued \subseteq Key /\ QueuePart!Active \subseteq Key
      /\ QueuePart!Queued \cap QueuePart!Active = {}
    BY DEF QueuePart!Queued, QueuePart!Active
<1>4. /\ QueuePart!Queued' = QueuePart!Queued \cup QueuePart!Active /\ QueuePart!Active' = {}
      /\ QueuePart!Entries' = QueuePart!Entries
    BY <1>2 DEF QueuePart!Queued, QueuePart!Active, QueuePart!Entries, QueuePart!TypeOK
<1>5. \A k \in Key : t(k) \in Nat /\ (k \in QueuePart!Active => t(k) > 0 /\ t(k) < QueuePart!Never)
    BY <1>3, QueueTimes DEF QueuePart!TypeOK
<1>6. \A k \in QueuePart!Queued : t(k) = wait[k]
    BY <1>3
<1>7. \A i \in QueuePart!Active : rank[i] \in Int
    OBVIOUS
<1> HIDE DEF t
<1>8. \A k \in Key : wait'[k] = t(k)
    BY <1>2
<1>9. QueuePart!HeapOrdered'
    <2>1. ASSUME NEW j \in QueuePart!Active
          PROVE  ahead'[j] = {i \in QueuePart!Queued : wait[i] <= t(j)} \cup
                             {i \in QueuePart!Active : t(i) < t(j) \/ (t(i) = t(j) /\ rank[i] < rank[j])}
        BY <1>1, <1>3
    <2>2. ASSUME NEW j \in QueuePart!Queued
          PROVE  ahead'[j] = ahead[j] \cup {i \in QueuePart!Active : t(i) < wait[j]}
        BY <1>1, <1>3
    <2>3. ASSUME NEW j \in QueuePart!Active
          PROVE  ahead'[j] \subseteq QueuePart!Queued' /\ \A i \in ahead'[j] : wait'[i] <= wait'[j]
        <3>1. ahead'[j] \subseteq QueuePart!Queued'
            BY <1>4, <2>1
        <3>2. ASSUME NEW i \in ahead'[j] PROVE t(i) <= t(j)
            BY <1>3, <1>5, <1>6, <2>1
        <3>3. QED BY <1>3, <1>4, <1>8, <3>1, <3>2
    <2>4. ASSUME NEW j \in QueuePart!Queued
          PROVE  ahead'[j] \subseteq QueuePart!Queued' /\ \A i \in ahead'[j] : wait'[i] <= wait'[j]
        <3>1. ahead[j] \subseteq QueuePart!Queued /\ \A i \in ahead[j] : wait[i] <= wait[j]
            BY DEF Sound, QueuePart!HeapOrdered
        <3>2. ahead'[j] \subseteq QueuePart!Queued'
            BY <1>4, <2>2, <3>1
        <3>3. ASSUME NEW i \in ahead'[j] PROVE t(i) <= t(j)
            BY <1>3, <1>5, <1>6, <2>2, <3>1
        <3>4. QED BY <1>3, <1>4, <1>8, <3>2, <3>3
    <2>5. ASSUME NEW i \in QueuePart!Active, NEW j \in QueuePart!Active, i # j
          PROVE  i \in ahead'[j] \/ j \in ahead'[i]
        <3>1. t(i) \in Nat /\ t(j) \in Nat /\ rank[i] \in Int /\ rank[j] \in Int /\ rank[i] # rank[j]
            BY <1>1, <1>3, <1>5, <1>7, <2>5
        <3>2. t(i) < t(j) \/ t(j) < t(i) \/ (t(i) = t(j) /\ (rank[i] < rank[j] \/ rank[j] < rank[i]))
            BY <3>1
        <3>3. QED BY <2>1, <3>2
    <2>6. ASSUME NEW i \in QueuePart!Queued, NEW j \in QueuePart!Active
          PROVE  i \in ahead'[j] \/ j \in ahead'[i]
        <3>1. wait[i] \in Nat /\ t(j) \in Nat
            BY <1>3, <1>5 DEF QueuePart!TypeOK
        <3>2. wait[i] <= t(j) \/ t(j) < wait[i]
            BY <3>1
        <3>3. QED BY <2>1, <2>2, <3>2
    <2>7. ASSUME NEW i \in QueuePart!Queued, NEW j \in QueuePart!Queued, i # j
          PROVE  i \in ahead'[j] \/ j \in ahead'[i]
        <3>1. i \in ahead[j] \/ j \in ahead[i]
            BY <2>7 DEF Sound, QueuePart!HeapOrdered
        <3>2. QED BY <2>2, <3>1
    <2>8. QED BY <1>4, <2>3, <2>4, <2>5, <2>6, <2>7 DEF QueuePart!HeapOrdered
<1>10. QueuePart!DelaysAgree'
    <2>1. ASSUME NEW k \in Key
          PROVE  /\ place'[k] = "none" => delay'[k] = 0 /\ cool'[k] = 0
                 /\ place'[k] = "queued" => cool'[k] <= wait'[k] /\ wait'[k] < QueuePart!Never
        <3>1. CASE k \in QueuePart!Active
            BY <1>2, <1>5, <1>8, <3>1
        <3>2. CASE k \notin QueuePart!Active
            <4>1. /\ place'[k] = place[k] /\ delay'[k] = delay[k] /\ cool'[k] = cool[k] /\ wait'[k] = wait[k]
                BY <1>2, <3>2 DEF t
            <4>2. QED BY <4>1 DEF Sound, QueuePart!DelaysAgree
        <3>3. QED BY <3>1, <3>2
    <2>2. QED BY <2>1 DEF QueuePart!DelaysAgree
<1>11. QueuePart!NoKeyLost'
    BY <1>2, <1>4 DEF Sound, QueuePart!NoKeyLost
<1>12. QueuePart!RetryingCounts'
    <2>1. /\ QueuePart!IsFiniteSet(Retries) /\ QueuePart!Cardinality(Retries) \in Nat
          /\ retrying = QueuePart!Cardinality(Retries)
          /\ QueuePart!IsFiniteSet(QueuePart!Active)
          /\ QueuePart!Cardinality(QueuePart!Active) \in Nat
        <3>1. Retries \in SUBSET QueuePart!Entries /\ QueuePart!Active \in SUBSET QueuePart!Entries
            BY DEF Retries, QueuePart!Entries
        <3>2. QueuePart!IsFiniteSet(Retries) /\ QueuePart!IsFiniteSet(QueuePart!Active)
            BY <3>1, QueueSets, FS_Subset DEF Sound
        <3>3. QED BY <3>2, QueueSets, FS_CardinalityType
                  DEF Sound, QueuePart!RetryingCounts, Retries
    <2>2. Retries' = Retries \cup QueuePart!Active
        <3>1. \A k \in QueuePart!Queued : delay'[k] = delay[k]
            BY <1>2, <1>3
        <3>2. \A k \in QueuePart!Active : delay'[k] > 0
            BY <1>2, <1>3, QueueTimes DEF QueuePart!TypeOK
        <3>3. QED BY <1>4, <3>1, <3>2 DEF Retries
    <2>3. Retries \cap QueuePart!Active = {}
        BY <1>3 DEF Retries
    <2>4. QueuePart!Cardinality(Retries \cup QueuePart!Active) =
             QueuePart!Cardinality(Retries) + QueuePart!Cardinality(QueuePart!Active)
        BY <2>1, <2>3, QueueSets, FS_Union, FS_EmptySet
    <2>5. QED BY <1>2, <2>1, <2>2, <2>4 DEF QueuePart!RetryingCounts, Retries
<1>13. QueuePart!IsFiniteSet(QueuePart!Entries') /\ QueuePart!WithinCapacity'
    BY <1>4 DEF Sound, QueuePart!WithinCapacity
<1>14. QED BY <1>9, <1>10, <1>11, <1>12, <1>13 DEF Sound

\* Time passes for all keys alike.
LEMMA TickSound ==
    ASSUME QueuePart!TypeOK, Sound, QueuePart!Tick
    PROVE  Sound'
<1>1. /\ wait' = [k \in Key |-> QueuePart!Down(wait[k])] /\ cool' = [k \in Key |-> QueuePart!Down(cool[k])]
      /\ place' = place /\ dirty' = dirty /\ delay' = delay /\ ahead' = ahead
      /\ retrying' = retrying /\ owed' = owed
    BY DEF QueuePart!Tick
<1>2. /\ QueuePart!Queued' = QueuePart!Queued /\ QueuePart!Active' = QueuePart!Active
      /\ QueuePart!Entries' = QueuePart!Entries /\ QueuePart!Queued \subseteq Key
    BY <1>1 DEF QueuePart!Queued, QueuePart!Active, QueuePart!Entries
<1>3. ASSUME NEW s \in Nat, NEW t \in Nat, s <= t
      PROVE  /\ QueuePart!Down(s) <= QueuePart!Down(t) /\ QueuePart!Down(t) <= t
             /\ QueuePart!Down(s) \in Nat
    BY <1>3 DEF QueuePart!Down
<1>4. QueuePart!HeapOrdered'
    <2>1. ASSUME NEW j \in QueuePart!Queued, NEW i \in ahead[j] PROVE wait'[i] <= wait'[j]
        <3>1. i \in Key /\ j \in Key /\ wait[i] \in Nat /\ wait[j] \in Nat /\ wait[i] <= wait[j]
            BY <1>2 DEF Sound, QueuePart!HeapOrdered, QueuePart!TypeOK
        <3>2. QED BY <1>1, <1>3, <3>1
    <2>2. QED BY <1>1, <1>2, <2>1 DEF Sound, QueuePart!HeapOrdered
<1>5. QueuePart!DelaysAgree'
    <2>1. ASSUME NEW k \in Key
          PROVE  /\ place[k] = "none" => delay[k] = 0 /\ cool'[k] = 0
                 /\ place[k] = "queued" => cool'[k] <= wait'[k] /\ wait'[k] < QueuePart!Never
        <3>1. /\ wait[k] \in Nat /\ cool[k] \in Nat /\ wait'[k] = QueuePart!Down(wait[k])
              /\ cool'[k] = QueuePart!Down(cool[k])
            BY <1>1 DEF QueuePart!TypeOK
        <3>2. CASE place[k] = "none"
            BY <3>1, <3>2 DEF Sound, QueuePart!DelaysAgree, QueuePart!Down
        <3>3. CASE place[k] = "queued"
            <4>1. cool[k] <= wait[k] /\ wait[k] < QueuePart!Never
                BY <3>3 DEF Sound, QueuePart!DelaysAgree
            <4>2. QED BY <1>3, <3>1, <3>3, <4>1, QueueTimes DEF QueuePart!Down
        <3>4. QED BY <3>2, <3>3
    <2>2. QED BY <1>1, <2>1 DEF QueuePart!DelaysAgree
<1>6. /\ QueuePart!NoKeyLost' /\ QueuePart!WithinCapacity' /\ QueuePart!RetryingCounts'
      /\ QueuePart!IsFiniteSet(QueuePart!Entries')
    BY <1>1, <1>2 DEF Sound, QueuePart!NoKeyLost, QueuePart!WithinCapacity, QueuePart!RetryingCounts
<1>7. QED BY <1>4, <1>5, <1>6 DEF Sound

LEMMA SameSound ==
    ASSUME Sound, UNCHANGED QueuePart!queueVars
    PROVE  Sound'
BY
DEF Sound, QueuePart!queueVars, QueuePart!DelaysAgree, QueuePart!HeapOrdered, QueuePart!NoKeyLost,
    QueuePart!WithinCapacity, QueuePart!RetryingCounts,
       QueuePart!Queued, QueuePart!Active, QueuePart!Entries

-----------------------------------------------------------------------------
(***************************************************************************)
(* The workers of the queue: one action per key, somebody awake for each.  *)
(***************************************************************************)

Attended ==
    /\ QueuePart!OneActionPerKey
    /\ \A k \in QueuePart!Queued : QueuePart!WakesFor(k)
    /\ session = "down" => ~ready

\* Nothing that matters to the workers changes, or they are all woken.
LEMMA SameAttended ==
    ASSUME Attended, UNCHANGED <<session, ready, QueuePart!queueVars, QueuePart!workerVars>>,
           \A w \in Actor : w \notin asleep => w \notin asleep'
    PROVE  Attended'
<1>1. /\ session' = session /\ ready' = ready /\ place' = place /\ wait' = wait
      /\ wpc' = wpc /\ wkey' = wkey /\ alarm' = alarm
    BY DEF QueuePart!queueVars, QueuePart!workerVars
<1>2. QueuePart!Queued' = QueuePart!Queued /\ QueuePart!Active' = QueuePart!Active
    BY <1>1 DEF QueuePart!Queued, QueuePart!Active
<1>3. QueuePart!OneActionPerKey'
    BY <1>1, <1>2 DEF Attended, QueuePart!OneActionPerKey
<1>4. ASSUME NEW k \in QueuePart!Queued' PROVE QueuePart!WakesFor(k)'
    BY <1>1, <1>2 DEF Attended, QueuePart!WakesFor
<1>5. QED BY <1>1, <1>3, <1>4 DEF Attended

\* addLocked.
LEMMA AdmitAttended ==
    ASSUME QueuePart!TypeOK, Attended, NEW k \in Key, QueuePart!Admit(k), UNCHANGED <<session,
           ready, QueuePart!workerVars>>
    PROVE  Attended'
<1>1. session' = session /\ ready' = ready /\ wpc' = wpc /\ wkey' = wkey /\ alarm' = alarm
    BY DEF QueuePart!workerVars
<1>2. CASE place[k] # "none"
    <2>1. place' = place /\ wait' = wait /\ asleep' = asleep
        BY <1>2 DEF QueuePart!Admit
    <2>2. QueuePart!Queued' = QueuePart!Queued /\ QueuePart!Active' = QueuePart!Active
        BY <2>1 DEF QueuePart!Queued, QueuePart!Active
    <2>3. QueuePart!OneActionPerKey'
        BY <1>1, <2>2 DEF Attended, QueuePart!OneActionPerKey
    <2>4. ASSUME NEW i \in QueuePart!Queued' PROVE QueuePart!WakesFor(i)'
        BY <1>1, <2>1, <2>2 DEF Attended, QueuePart!WakesFor
    <2>5. QED BY <1>1, <2>3, <2>4 DEF Attended
<1>3. CASE place[k] = "none"
    <2>1. place' = [place EXCEPT ![k] = "queued"] /\ asleep' = {}
        BY <1>3 DEF QueuePart!Admit, QueuePart!Notify
    <2>2. QueuePart!Active' = QueuePart!Active
        <3>1. k \notin QueuePart!Active
            BY <1>3 DEF QueuePart!Active
        <3>2. QueuePart!Active' = QueuePart!Active \ {k}
            BY <2>1, Places
        <3>3. QED BY <3>1, <3>2
    <2>3. QueuePart!OneActionPerKey'
        BY <1>1, <2>2 DEF Attended, QueuePart!OneActionPerKey
    <2>4. ASSUME NEW i \in QueuePart!Queued' PROVE QueuePart!WakesFor(i)'
        BY <1>1, <2>1 DEF QueuePart!WakesFor
    <2>5. QED BY <1>1, <2>3, <2>4 DEF Attended
<1>4. QED BY <1>2, <1>3

LEMMA TakeAttended ==
    ASSUME QueuePart!TypeOK, Attended, NEW w \in Actor, NEW k \in Key, QueuePart!Take(w, k)
    PROVE  Attended'
<1>1. /\ session \in {"open", "failed"} /\ session' = session /\ k \in QueuePart!Queued
      /\ place' = [place EXCEPT ![k] = "active"]
      /\ wpc' = [wpc EXCEPT ![w] = QueuePart!Onward("run")]
      /\ wkey' = [wkey EXCEPT ![w] = IF session = "open" THEN k ELSE None]
    BY DEF QueuePart!Take, QueuePart!Running
<1>2. QueuePart!Active' = QueuePart!Active \cup {k} /\ k \notin QueuePart!Active
    <2>1. QueuePart!Active' = QueuePart!Active \cup {k}
        BY <1>1, Places
    <2>2. k \notin QueuePart!Active
        BY <1>1 DEF QueuePart!Queued, QueuePart!Active
    <2>3. QED BY <2>1, <2>2
<1>3. /\ \A v \in Actor : v # w => wpc'[v] = wpc[v] /\ wkey'[v] = wkey[v]
      /\ session = "open" => wpc'[w] = "run" /\ wkey'[w] = k
      /\ session # "open" => wpc'[w] = "done"
    BY <1>1 DEF QueuePart!TypeOK, QueuePart!Onward
<1>4. QueuePart!OneActionPerKey'
    <2>1. \A v \in Actor : wpc[v] = "run" => wkey[v] # k
        BY <1>2 DEF Attended, QueuePart!OneActionPerKey
    <2>2. ASSUME NEW v \in Actor, NEW u \in Actor, wpc'[v] = "run", wpc'[u] = "run",
                 wkey'[v] = wkey'[u]
          PROVE  v = u
        <3>1. CASE v = w \/ u = w
            BY <1>3, <2>1, <2>2, <3>1
        <3>2. CASE v # w /\ u # w
            BY <1>3, <2>2, <3>2 DEF Attended, QueuePart!OneActionPerKey
        <3>3. QED BY <3>1, <3>2
    <2>3. ASSUME NEW v \in Actor, wpc'[v] = "run" PROVE wkey'[v] \in QueuePart!Active'
        BY <1>2, <1>3, <2>3 DEF Attended, QueuePart!OneActionPerKey
    <2>4. QED BY <2>2, <2>3 DEF QueuePart!OneActionPerKey
<1>5. ASSUME NEW i \in QueuePart!Queued' PROVE QueuePart!WakesFor(i)'
    BY <1>1, <1>3 DEF QueuePart!WakesFor
<1>6. QED BY <1>1, <1>4, <1>5 DEF Attended

\* The first key of the heap is due no later than any other.
LEMMA TakeNothingAttended ==
    ASSUME QueuePart!TypeOK, QueuePart!HeapOrdered, Attended, NEW w \in Actor,
           QueuePart!TakeNothing(w)
    PROVE  Attended'
<1>1. /\ session = "open" /\ session' = session /\ ready' = ready /\ place' = place /\ wait' = wait
      /\ wpc' = wpc /\ wkey' = wkey
    BY DEF QueuePart!TakeNothing, QueuePart!queueVars
<1>2. /\ QueuePart!Queued' = QueuePart!Queued /\ QueuePart!Active' = QueuePart!Active
      /\ QueuePart!Queued \subseteq Key
    BY <1>1 DEF QueuePart!Queued, QueuePart!Active
<1>3. QueuePart!OneActionPerKey'
    BY <1>1, <1>2 DEF Attended, QueuePart!OneActionPerKey
<1>4. ASSUME NEW i \in QueuePart!Queued', ready PROVE alarm'[w] <= wait'[i]
    <2>1. PICK k \in QueuePart!Queued : ahead[k] = {} /\ alarm' = [alarm EXCEPT ![w] = wait[k]]
        BY <1>2, <1>4 DEF QueuePart!TakeNothing
    <2>2. alarm'[w] = wait[k] /\ wait[k] \in Nat /\ wait[i] \in Nat
        BY <1>2, <2>1 DEF QueuePart!TypeOK
    <2>3. wait[k] <= wait[i]
        <3>1. CASE k = i
            BY <2>2, <3>1
        <3>2. CASE k # i
            BY <1>2, <2>1, <3>2 DEF QueuePart!HeapOrdered
        <3>3. QED BY <3>1, <3>2
    <2>4. QED BY <1>1, <2>2, <2>3
<1>5. ASSUME NEW i \in QueuePart!Queued' PROVE QueuePart!WakesFor(i)'
    BY <1>1, <1>4 DEF QueuePart!WakesFor
<1>6. QED BY <1>1, <1>3, <1>5 DEF Attended

LEMMA FinishAttended ==
    ASSUME QueuePart!TypeOK, Attended, NEW w \in Actor, NEW outcome \in QueuePart!Outcome,
           QueuePart!Finish(w, outcome)
    PROVE  Attended'
<1> DEFINE k == wkey[w]
<1>1. /\ session \in {"open", "failed"} /\ session' = session /\ ready' = ready /\ wpc[w] = "run"
      /\ wpc' = [wpc EXCEPT ![w] = QueuePart!Onward("take")] /\ wkey' = [wkey EXCEPT ![w] = None]
    BY DEF QueuePart!Finish, QueuePart!Running
<1>2. k \in Key /\ place[k] = "active"
    BY FinishCases DEF Attended
<1>3. asleep' = {} /\ QueuePart!Active' = QueuePart!Active \ {k}
    <2>1. ASSUME NEW d \in Nat, NEW t \in Nat, QueuePart!Requeue(k, d, t)
          PROVE  asleep' = {} /\ place' = [place EXCEPT ![k] = "queued"]
        BY <2>1 DEF QueuePart!Requeue, QueuePart!Notify
    <2>2. ASSUME QueuePart!Settle(k) PROVE asleep' = {} /\ place' = [place EXCEPT ![k] = "none"]
        BY <2>2 DEF QueuePart!Settle, QueuePart!Notify
    <2>3. asleep' = {} /\ (place' = [place EXCEPT ![k] = "queued"] \/ place' = [place EXCEPT ![k] = "none"])
        BY <2>1, <2>2, FinishCases DEF Attended
    <2> HIDE DEF k
    <2>4. QED BY <1>2, <2>3, Places
<1>4. wpc'[w] # "run" /\ \A v \in Actor : v # w => wpc'[v] = wpc[v] /\ wkey'[v] = wkey[v]
    BY <1>1 DEF QueuePart!TypeOK, QueuePart!Onward
<1>5. QueuePart!OneActionPerKey'
    <2>1. \A v \in Actor : v # w /\ wpc[v] = "run" => wkey[v] # k
        BY <1>1 DEF Attended, QueuePart!OneActionPerKey
    <2>2. QED BY <1>3, <1>4, <2>1 DEF Attended, QueuePart!OneActionPerKey
<1>6. ASSUME NEW i \in QueuePart!Queued' PROVE QueuePart!WakesFor(i)'
    BY <1>3 DEF QueuePart!WakesFor
<1>7. QED BY <1>1, <1>5, <1>6 DEF Attended

LEMMA StopsAttended ==
    ASSUME QueuePart!TypeOK, Attended, NEW w \in Actor,
           QueuePart!WorkerStops(w) \/ QueuePart!TerminalError(w)
    PROVE  Attended'
<1>1. /\ place' = place /\ \A v \in Actor : wpc'[v] = "run" => wpc[v] = "run" /\ wkey'[v] = wkey[v]
    BY
    DEF QueuePart!TypeOK, QueuePart!WorkerStops, QueuePart!TerminalError, QueuePart!queueVars,
        QueuePart!workerVars
<1>2. session' \notin {"open", "down"}
    BY DEF QueuePart!WorkerStops, QueuePart!TerminalError
<1>3. QueuePart!Active' = QueuePart!Active
    BY <1>1 DEF QueuePart!Active
<1>4. QueuePart!OneActionPerKey'
    BY <1>1, <1>3 DEF Attended, QueuePart!OneActionPerKey
<1>5. QED BY <1>2, <1>4 DEF Attended, QueuePart!WakesFor

LEMMA SessionAttended ==
    ASSUME QueuePart!TypeOK, QueuePart!DelaysAgree, Attended,
           \/ \E b \in BOOLEAN : QueuePart!SetReady(b)
           \/ QueuePart!WatchFails \/ QueuePart!Restart \/ QueuePart!Reopen
    PROVE  Attended'
<1>1. ASSUME NEW b \in BOOLEAN, QueuePart!SetReady(b) PROVE Attended'
    <2>1. /\ asleep' = {} /\ session' = session /\ session = "open" /\ place' = place
          /\ wpc' = wpc /\ wkey' = wkey
        BY <1>1 DEF QueuePart!SetReady, QueuePart!Notify, QueuePart!queueVars, QueuePart!workerVars
    <2>2. QueuePart!Active' = QueuePart!Active
        BY <2>1 DEF QueuePart!Active
    <2>3. QueuePart!OneActionPerKey'
        BY <2>1, <2>2 DEF Attended, QueuePart!OneActionPerKey
    <2>4. QED BY <2>1, <2>3 DEF Attended, QueuePart!WakesFor
<1>2. CASE QueuePart!WatchFails
    <2>1. session' = "failed" /\ place' = place /\ wpc' = wpc /\ wkey' = wkey
        BY <1>2 DEF QueuePart!WatchFails, QueuePart!queueVars, QueuePart!workerVars
    <2>2. QueuePart!Active' = QueuePart!Active
        BY <2>1 DEF QueuePart!Active
    <2>3. QueuePart!OneActionPerKey'
        BY <2>1, <2>2 DEF Attended, QueuePart!OneActionPerKey
    <2>4. QED BY <2>1, <2>3 DEF Attended, QueuePart!WakesFor
<1>3. CASE QueuePart!Restart
    <2>1. session' = "down" /\ ready' = FALSE /\ wpc' = wpc /\ \A w \in Actor : wpc[w] = "done"
        BY <1>3 DEF QueuePart!Restart, QueuePart!Joined, QueuePart!workerVars
    <2>2. QED BY <2>1 DEF Attended, QueuePart!WakesFor, QueuePart!OneActionPerKey
<1>4. CASE QueuePart!Reopen
    <2>1. session = "down" /\ session' = "open" /\ ready' = ready /\ \A w \in Actor : wpc'[w] = "take"
        BY <1>4 DEF QueuePart!Reopen
    <2>2. QED BY <2>1 DEF Attended, QueuePart!WakesFor, QueuePart!OneActionPerKey
<1>5. QED BY <1>1, <1>2, <1>3, <1>4

\* A timer fires no later than the key it waits for is due.
LEMMA TickAttended ==
    ASSUME QueuePart!TypeOK, QueuePart!DelaysAgree, Attended, QueuePart!Tick
    PROVE  Attended'
<1>1. /\ wait' = [k \in Key |-> QueuePart!Down(wait[k])]
      /\ alarm' = [w \in Actor |-> IF alarm[w] = QueuePart!Never THEN QueuePart!Never
                                   ELSE QueuePart!Down(alarm[w])]
      /\ session' = session /\ ready' = ready /\ place' = place /\ wpc' = wpc /\ wkey' = wkey
      /\ asleep' = asleep
    BY DEF QueuePart!Tick
<1>2. /\ QueuePart!Queued' = QueuePart!Queued /\ QueuePart!Active' = QueuePart!Active
      /\ QueuePart!Queued \subseteq Key
    BY <1>1 DEF QueuePart!Queued, QueuePart!Active
<1>3. QueuePart!OneActionPerKey'
    BY <1>1, <1>2 DEF Attended, QueuePart!OneActionPerKey
<1>4. ASSUME NEW k \in QueuePart!Queued, NEW w \in Actor, alarm[w] <= wait[k]
      PROVE  alarm'[w] <= wait'[k]
    <2>1. /\ alarm[w] \in Nat /\ wait[k] \in Nat /\ wait[k] < QueuePart!Never
          /\ QueuePart!Never \in Nat
        BY <1>2, QueueTimes DEF QueuePart!TypeOK, QueuePart!DelaysAgree, QueuePart!Queued
    <2>2. alarm'[w] = QueuePart!Down(alarm[w]) /\ wait'[k] = QueuePart!Down(wait[k])
        BY <1>1, <1>2, <1>4, <2>1
    <2>3. QED BY <1>4, <2>1, <2>2 DEF QueuePart!Down
<1>5. ASSUME NEW k \in QueuePart!Queued PROVE QueuePart!WakesFor(k)'
    <2>1. SUFFICES ASSUME ready, session = "open", \E w \in Actor : wpc[w] = "take"
                   PROVE  \E w \in Actor : wpc[w] = "run" \/ w \notin asleep \/ alarm'[w] <= wait'[k]
        BY <1>1 DEF QueuePart!WakesFor
    <2>2. \E w \in Actor : wpc[w] = "run" \/ w \notin asleep \/ alarm[w] <= wait[k]
        BY <2>1 DEF Attended, QueuePart!WakesFor
    <2>3. QED BY <1>4, <2>2
<1>6. QED BY <1>1, <1>2, <1>3, <1>5 DEF Attended

-----------------------------------------------------------------------------
(***************************************************************************)
(* The key queue: every step keeps the invariant.                          *)
(***************************************************************************)

LEMMA QueueInvParts == QueuePart!QueueInv <=> QueuePart!TypeOK /\ QueuePart!HandIsFull /\ Sound /\ Attended
BY DEF QueuePart!QueueInv, Sound, Attended

LEMMA WorkerStep ==
    ASSUME QueuePart!QueueInv, NEW w \in Actor,
           QueuePart!Work(w) \/ QueuePart!Returns(w) \/ QueuePart!TerminalError(w)
    PROVE  QueuePart!QueueInv'
<1>1. /\ QueuePart!TypeOK /\ QueuePart!HandIsFull /\ Sound /\ Attended
      /\ QueuePart!OneActionPerKey /\ QueuePart!HeapOrdered
    BY QueueInvParts DEF Sound, Attended
<1>2. QueuePart!TypeOK' /\ QueuePart!HandIsFull'
    BY <1>1, WorkerTypes
<1>3. ASSUME NEW k \in Key, QueuePart!Take(w, k) PROVE Sound' /\ Attended'
    BY <1>1, <1>3, TakeSound, TakeAttended
<1>4. ASSUME QueuePart!TakeNothing(w) PROVE Sound' /\ Attended'
    <2>1. UNCHANGED QueuePart!queueVars
        BY <1>4 DEF QueuePart!TakeNothing
    <2>2. QED BY <1>1, <1>4, <2>1, SameSound, TakeNothingAttended
<1>5. ASSUME QueuePart!WorkerStops(w) \/ QueuePart!TerminalError(w) PROVE Sound' /\ Attended'
    <2>1. UNCHANGED QueuePart!queueVars
        BY <1>5 DEF QueuePart!WorkerStops, QueuePart!TerminalError
    <2>2. QED BY <1>1, <1>5, <2>1, SameSound, StopsAttended
<1>6. ASSUME NEW outcome \in QueuePart!Outcome, QueuePart!Finish(w, outcome)
      PROVE  Sound' /\ Attended'
    <2>1. wkey[w] \in Key /\ place[wkey[w]] = "active"
        BY <1>1, <1>6, FinishCases
    <2>2. dirty' = dirty /\ owed' = owed
        BY <1>6 DEF QueuePart!Finish
    <2>3. ASSUME NEW d \in Nat, NEW t \in Nat, QueuePart!Requeue(wkey[w], d, t),
                 t < QueuePart!Never,
                 retrying' = IF d > 0 THEN retrying + 1 ELSE retrying
          PROVE  Sound'
        BY <1>1, <2>1, <2>2, <2>3, RequeueSound
    <2>4. ASSUME QueuePart!Settle(wkey[w]), ~dirty[wkey[w]], retrying' = retrying PROVE Sound'
        BY <1>1, <2>1, <2>2, <2>4, SettleSound
    <2>5. Sound'
        BY <1>1, <1>6, <2>3, <2>4, FinishCases
    <2>6. QED BY <1>1, <1>6, <2>5, FinishAttended
<1>7. Sound' /\ Attended'
    BY <1>3, <1>4, <1>5, <1>6 DEF QueuePart!Work, QueuePart!Returns
<1>8. QED BY <1>2, <1>7 DEF QueuePart!QueueInv, Sound, Attended

LEMMA EmitterStep ==
    ASSUME QueuePart!QueueInv,
           \/ \E r \in Receiver, k \in Key : QueuePart!Receive(r, k) \/ QueuePart!AddDirect(r, k)
           \/ \E e \in QueuePart!Emitter : QueuePart!Enter(e) \/ QueuePart!Emit(e)
           \/ QueuePart!ScanStart \/ \E k \in Key : QueuePart!ScanEmit(k)
           \/ \E f \in BOOLEAN : QueuePart!ScanEnd(f)
    PROVE  QueuePart!QueueInv'
<1>1. QueuePart!TypeOK /\ QueuePart!HandIsFull /\ Sound /\ Attended
    BY QueueInvParts
<1>2. QueuePart!TypeOK' /\ QueuePart!HandIsFull'
    BY <1>1, EmitterTypes
<1>3. ASSUME UNCHANGED <<session, ready, QueuePart!queueVars, QueuePart!workerVars>>,
             asleep' = asleep \/ \E e \in QueuePart!Emitter : asleep' = asleep \cup {e}
      PROVE  Sound' /\ Attended'
    <2>1. \A w \in Actor : w \notin asleep => w \notin asleep'
        BY <1>3, QueueActors
    <2>2. QED BY <1>1, <1>3, <2>1, SameSound, SameAttended
<1>4. ASSUME NEW k \in Key, QueuePart!Admit(k), UNCHANGED <<session, ready, QueuePart!workerVars>>
      PROVE  Sound' /\ Attended'
    BY <1>1, <1>4, AdmitSound, AdmitAttended
<1>5. ASSUME UNCHANGED <<QueuePart!queueVars, QueuePart!workerVars>>, session' = "failed"
      PROVE  Sound' /\ Attended'
    <2>1. QueuePart!Active' = QueuePart!Active /\ wpc' = wpc /\ wkey' = wkey
        BY <1>5 DEF QueuePart!Active, QueuePart!queueVars, QueuePart!workerVars
    <2>2. QueuePart!OneActionPerKey'
        BY <1>1, <2>1 DEF Attended, QueuePart!OneActionPerKey
    <2>3. Attended'
        BY <1>5, <2>2 DEF Attended, QueuePart!WakesFor
    <2>4. QED BY <1>1, <1>5, <2>3, SameSound
<1>6. ASSUME NEW r \in Receiver, NEW k \in Key, QueuePart!Receive(r, k) PROVE Sound' /\ Attended'
    BY <1>3, <1>6 DEF QueuePart!Receive
<1>7. ASSUME NEW r \in Receiver, NEW k \in Key, QueuePart!AddDirect(r, k) PROVE Sound' /\ Attended'
    BY <1>4, <1>5, <1>7 DEF QueuePart!AddDirect
<1>8. ASSUME NEW e \in QueuePart!Emitter, QueuePart!Enter(e) PROVE Sound' /\ Attended'
    BY <1>3, <1>8 DEF QueuePart!Enter
<1>9. ASSUME NEW e \in QueuePart!Emitter, QueuePart!TryAdmit(e) PROVE Sound' /\ Attended'
    <2>1. ekey[e] \in Key
        BY <1>1, <1>9 DEF QueuePart!TryAdmit, QueuePart!HandIsFull
    <2>2. QED BY <1>4, <1>9, <2>1 DEF QueuePart!TryAdmit
<1>10. ASSUME NEW e \in QueuePart!Emitter, QueuePart!TrySleep(e) PROVE Sound' /\ Attended'
    BY <1>3, <1>10 DEF QueuePart!TrySleep
<1>11. ASSUME NEW e \in QueuePart!Emitter, QueuePart!EmitterStops(e) PROVE Sound' /\ Attended'
    <2>1. /\ UNCHANGED <<QueuePart!queueVars, QueuePart!workerVars>> /\ session' = "failed"
        BY <1>11 DEF QueuePart!EmitterStops
    <2>2. QED BY <1>5, <2>1
<1>12. ASSUME QueuePart!ScanStart PROVE Sound' /\ Attended'
    BY <1>3, <1>12, QueueActors DEF QueuePart!ScanStart
<1>13. ASSUME (\E k \in Key : QueuePart!ScanEmit(k)) \/ (\E f \in BOOLEAN : QueuePart!ScanEnd(f))
       PROVE  Sound' /\ Attended'
    BY <1>3, <1>13 DEF QueuePart!ScanEmit, QueuePart!ScanEnd
<1>14. Sound' /\ Attended'
    BY <1>6, <1>7, <1>8, <1>9, <1>10, <1>11, <1>12, <1>13 DEF QueuePart!Emit
<1>15. QED BY <1>2, <1>14 DEF QueuePart!QueueInv, Sound, Attended

LEMMA SessionStep ==
    ASSUME QueuePart!QueueInv,
           \/ \E b \in BOOLEAN : QueuePart!SetReady(b)
           \/ QueuePart!WatchFails \/ QueuePart!Restart \/ QueuePart!Reopen \/ QueuePart!Tick
    PROVE  QueuePart!QueueInv'
<1>1. /\ QueuePart!TypeOK /\ QueuePart!HandIsFull /\ Sound /\ Attended /\ QueuePart!DelaysAgree
      /\ QueuePart!IsFiniteSet(QueuePart!Entries)
    BY QueueInvParts DEF Sound
<1>2. QueuePart!TypeOK' /\ QueuePart!HandIsFull'
    BY <1>1, SessionTypes
<1>3. CASE (\E b \in BOOLEAN : QueuePart!SetReady(b)) \/ QueuePart!WatchFails \/ QueuePart!Reopen
    <2>1. UNCHANGED QueuePart!queueVars
        BY <1>3 DEF QueuePart!SetReady, QueuePart!WatchFails, QueuePart!Reopen
    <2>2. QED BY <1>1, <1>2, <1>3, <2>1, SameSound, SessionAttended
              DEF QueuePart!QueueInv, Sound, Attended
<1>4. CASE QueuePart!Restart
    BY <1>1, <1>2, <1>4, RestartSound, SessionAttended DEF QueuePart!QueueInv, Sound, Attended
<1>5. CASE QueuePart!Tick
    BY <1>1, <1>2, <1>5, TickSound, TickAttended DEF QueuePart!QueueInv, Sound, Attended
<1>6. QED BY <1>3, <1>4, <1>5

LEMMA QueueStep ==
    ASSUME QueuePart!QueueInv, [QueuePart!Next]_(QueuePart!vars)
    PROVE  QueuePart!QueueInv'
<1>1. ASSUME NEW w \in Actor,
             QueuePart!Work(w) \/ QueuePart!Returns(w) \/ QueuePart!TerminalError(w)
      PROVE  QueuePart!QueueInv'
    BY <1>1, WorkerStep
<1>2. CASE \/ \E r \in Receiver, k \in Key : QueuePart!Receive(r, k) \/ QueuePart!AddDirect(r, k)
           \/ \E e \in QueuePart!Emitter : QueuePart!Enter(e) \/ QueuePart!Emit(e)
           \/ QueuePart!ScanStart \/ \E k \in Key : QueuePart!ScanEmit(k)
           \/ \E f \in BOOLEAN : QueuePart!ScanEnd(f)
    BY <1>2, EmitterStep
<1>3. CASE \/ \E b \in BOOLEAN : QueuePart!SetReady(b)
           \/ QueuePart!WatchFails \/ QueuePart!Restart \/ QueuePart!Reopen \/ QueuePart!Tick
    BY <1>3, SessionStep
<1>4. CASE UNCHANGED QueuePart!vars
    BY <1>4
    DEF QueuePart!QueueInv, QueuePart!vars, QueuePart!queueVars, QueuePart!workerVars,
        QueuePart!emitterVars, QueuePart!TypeOK, QueuePart!HandIsFull, QueuePart!DelaysAgree,
                QueuePart!HeapOrdered, QueuePart!OneActionPerKey, QueuePart!NoKeyLost,
                QueuePart!WithinCapacity, QueuePart!RetryingCounts, QueuePart!WakesFor,
                QueuePart!Queued, QueuePart!Active, QueuePart!Entries
<1>5. QED BY <1>1, <1>2, <1>3, <1>4 DEF QueuePart!Next

LEMMA QueueStart == QueuePart!Init => QueuePart!QueueInv
<1> SUFFICES ASSUME QueuePart!Init PROVE QueuePart!QueueInv
    OBVIOUS
<1>1. QueuePart!TypeOK /\ QueuePart!HandIsFull
    <2>1. scan \in [wait : Nat, delay : Nat, active : BOOLEAN]
        BY DEF QueuePart!Init
    <2>2. disturbed \in 0 .. MaxDisturb
        BY QueueTimes DEF QueuePart!Init
    <2>3. wkey \in [Actor -> Key \cup {None}] /\ ekey \in [QueuePart!Emitter -> Key \cup {None}]
        BY DEF QueuePart!Init
    <2>4. /\ place \in [Key -> {"none", "queued", "active"}] /\ dirty \in [Key -> BOOLEAN]
          /\ delay \in [Key -> Nat] /\ wait \in [Key -> Nat] /\ cool \in [Key -> Nat]
          /\ ahead \in [Key -> SUBSET Key] /\ retrying \in Int /\ owed \subseteq Key
        BY DEF QueuePart!Init
    <2>5. /\ wpc \in [Actor -> {"take", "run", "done"}] /\ alarm \in [Actor -> Nat]
          /\ asleep \subseteq Actor \cup QueuePart!Emitter
          /\ admission \in QueuePart!Emitter \cup {None}
          /\ session \in {"open", "failed", "down", "stopped"} /\ ready \in BOOLEAN
        BY QueueTimes DEF QueuePart!Init
    <2>6. /\ epc \in [QueuePart!Emitter -> {"wait", "scan", "rest", "want", "try", "done"}]
          /\ \A e \in QueuePart!Emitter : epc[e] \notin {"want", "try"}
        BY DEF QueuePart!Init
    <2>7. QED BY <2>1, <2>2, <2>3, <2>4, <2>5, <2>6 DEF QueuePart!TypeOK, QueuePart!HandIsFull
<1>2. /\ QueuePart!Queued = {} /\ QueuePart!Active = {} /\ QueuePart!Entries = {}
      /\ {k \in QueuePart!Queued : delay[k] > 0} = {}
    BY DEF QueuePart!Init, QueuePart!Queued, QueuePart!Active, QueuePart!Entries
<1>3. /\ QueuePart!IsFiniteSet(QueuePart!Entries) /\ QueuePart!WithinCapacity
      /\ QueuePart!RetryingCounts
    <2>1. QueuePart!Cardinality({}) = 0 /\ QueuePart!IsFiniteSet({}) /\ 0 <= Capacity
        BY QueueSets, FS_EmptySet, ControllerAssumption
    <2>2. retrying = 0
        BY DEF QueuePart!Init
    <2>3. QED BY <1>2, <2>1, <2>2 DEF QueuePart!WithinCapacity, QueuePart!RetryingCounts
<1>4. /\ QueuePart!DelaysAgree /\ QueuePart!HeapOrdered /\ QueuePart!OneActionPerKey
      /\ QueuePart!NoKeyLost
    BY <1>2
    DEF QueuePart!Init, QueuePart!DelaysAgree, QueuePart!HeapOrdered, QueuePart!OneActionPerKey,
        QueuePart!NoKeyLost
<1>5. QED BY <1>1, <1>2, <1>3, <1>4 DEF QueuePart!QueueInv, QueuePart!Init

\* What the invariant says of the queue: it stays within its capacity, loses no
\* key, runs one action per key, counts its retries, and nobody sleeps through work.
LEMMA QueueInvSafe ==
    QueuePart!QueueInv =>
       /\ QueuePart!TypeOK /\ QueuePart!WithinCapacity /\ QueuePart!OneActionPerKey
       /\ QueuePart!NoKeyLost /\ QueuePart!RetryingCounts /\ QueuePart!NoSleepThroughWork
<1> SUFFICES ASSUME QueuePart!QueueInv PROVE QueuePart!NoSleepThroughWork
    BY DEF QueuePart!QueueInv
<1>1. SUFFICES ASSUME ready, session = "open", NEW k \in QueuePart!Queued, wait[k] = 0,
                      \E w \in Actor : wpc[w] = "take"
               PROVE  \E w \in Actor : wpc[w] = "run" \/ w \notin asleep \/ alarm[w] = 0
    BY DEF QueuePart!NoSleepThroughWork
<1>2. PICK w \in Actor : wpc[w] = "run" \/ w \notin asleep \/ alarm[w] <= wait[k]
    BY <1>1 DEF QueuePart!QueueInv, QueuePart!WakesFor
<1>3. alarm[w] \in Nat
    BY DEF QueuePart!QueueInv, QueuePart!TypeOK
<1>4. QED BY <1>1, <1>2, <1>3

-----------------------------------------------------------------------------
(***************************************************************************)
(* The queue as a set of dirty keys.                                       *)
(***************************************************************************)

DirtySet == QueuePart!Queued \cup {k \in QueuePart!Active : dirty[k]}

AbstractStep == [QueuePart!Dirty!Next]_<<DirtySet, QueuePart!Active>>

\* Only take makes a key active, and only one that may run.
Rested == \A k \in Key : place[k] = "queued" /\ place'[k] = "active" => cool[k] = 0

LEMMA TakeAbstract ==
    ASSUME QueuePart!QueueInv, NEW w \in Actor, NEW k \in Key, QueuePart!Take(w, k)
    PROVE  Rested /\ AbstractStep
<1>1. /\ place' = [place EXCEPT ![k] = "active"] /\ dirty' = [dirty EXCEPT ![k] = FALSE]
      /\ k \in QueuePart!Queued /\ wait[k] = 0 /\ QueuePart!TypeOK /\ QueuePart!DelaysAgree
    BY DEF QueuePart!Take, QueuePart!QueueInv
<1>2. Rested
    <2>1. cool[k] \in Nat /\ cool[k] <= 0
        BY <1>1 DEF QueuePart!DelaysAgree, QueuePart!Queued, QueuePart!TypeOK
    <2>2. \A j \in Key : j # k => place'[j] = place[j]
        BY <1>1 DEF QueuePart!TypeOK
    <2>3. QED BY <2>1, <2>2 DEF Rested
<1>3. /\ QueuePart!Queued' = QueuePart!Queued \ {k}
      /\ QueuePart!Active' = QueuePart!Active \cup {k}
      /\ QueuePart!Queued \cap QueuePart!Active = {}
    BY <1>1, Places
<1>4. ~dirty'[k] /\ \A j \in QueuePart!Active : j # k => dirty'[j] = dirty[j]
    BY <1>1 DEF QueuePart!TypeOK, QueuePart!Active
<1>5. DirtySet' = DirtySet \ {k} /\ k \in DirtySet \ QueuePart!Active
    BY <1>1, <1>3, <1>4 DEF DirtySet
<1>6. QueuePart!Dirty!Start(k)
    BY <1>3, <1>5 DEF QueuePart!Dirty!Start, DirtySet
<1>7. QED BY <1>2, <1>6 DEF AbstractStep, QueuePart!Dirty!Next

LEMMA AdmitAbstract ==
    ASSUME QueuePart!TypeOK, NEW k \in Key, QueuePart!Admit(k)
    PROVE  Rested /\ AbstractStep
<1>1. dirty' = [dirty EXCEPT ![k] = TRUE]
    BY DEF QueuePart!Admit
<1>2. dirty'[k] /\ \A j \in Key : j # k => dirty'[j] = dirty[j]
    BY <1>1 DEF QueuePart!TypeOK
<1>3. QueuePart!Queued \subseteq Key /\ QueuePart!Active \subseteq Key
    BY DEF QueuePart!Queued, QueuePart!Active
<1>4. ASSUME place[k] # "none"
      PROVE  Rested /\ DirtySet' = DirtySet \cup {k} /\ QueuePart!Active' = QueuePart!Active
    <2>1. place' = place
        BY <1>4 DEF QueuePart!Admit
    <2>2. QueuePart!Queued' = QueuePart!Queued /\ QueuePart!Active' = QueuePart!Active
        BY <2>1 DEF QueuePart!Queued, QueuePart!Active
    <2>3. k \in QueuePart!Queued \/ k \in QueuePart!Active
        BY <1>4 DEF QueuePart!TypeOK, QueuePart!Queued, QueuePart!Active
    <2>4. DirtySet' = DirtySet \cup {k}
        BY <1>2, <1>3, <2>2, <2>3 DEF DirtySet
    <2>5. QED BY <2>1, <2>2, <2>4 DEF Rested
<1>5. ASSUME place[k] = "none"
      PROVE  Rested /\ DirtySet' = DirtySet \cup {k} /\ QueuePart!Active' = QueuePart!Active
    <2>1. place' = [place EXCEPT ![k] = "queued"]
        BY <1>5 DEF QueuePart!Admit
    <2>2. k \notin QueuePart!Active
        BY <1>5 DEF QueuePart!Active
    <2>3. /\ QueuePart!Queued' = QueuePart!Queued \cup {k}
          /\ QueuePart!Active' = QueuePart!Active \ {k}
        BY <2>1, Places
    <2>4. DirtySet' = DirtySet \cup {k}
        BY <1>2, <1>3, <2>2, <2>3 DEF DirtySet
    <2>5. Rested
        BY <2>1 DEF Rested, QueuePart!TypeOK
    <2>6. QED BY <2>2, <2>3, <2>4, <2>5
<1>6. Rested /\ QueuePart!Dirty!Add(k)
    BY <1>4, <1>5 DEF QueuePart!Dirty!Add, DirtySet
<1>7. QED BY <1>6 DEF AbstractStep, QueuePart!Dirty!Next

LEMMA FinishAbstract ==
    ASSUME QueuePart!QueueInv, NEW w \in Actor, NEW outcome \in QueuePart!Outcome,
           QueuePart!Finish(w, outcome)
    PROVE  Rested /\ AbstractStep
<1> DEFINE k == wkey[w]
<1>1. QueuePart!TypeOK /\ QueuePart!OneActionPerKey /\ dirty' = dirty
    BY DEF QueuePart!Finish, QueuePart!QueueInv
<1>2. k \in Key /\ place[k] = "active" /\ k \in QueuePart!Active
    BY <1>1, FinishCases DEF QueuePart!Active
<1>3. \/ place' = [place EXCEPT ![k] = "queued"]
      \/ place' = [place EXCEPT ![k] = "none"] /\ ~dirty[k]
    <2>1. ASSUME NEW d \in Nat, NEW t \in Nat, QueuePart!Requeue(k, d, t)
          PROVE  place' = [place EXCEPT ![k] = "queued"]
        BY <2>1 DEF QueuePart!Requeue
    <2>2. ASSUME QueuePart!Settle(k) PROVE place' = [place EXCEPT ![k] = "none"]
        BY <2>2 DEF QueuePart!Settle
    <2>3. QED BY <1>1, <2>1, <2>2, FinishCases
<1> HIDE DEF k
<1>4. Rested
    BY <1>1, <1>2, <1>3 DEF Rested, QueuePart!TypeOK
<1>5. QueuePart!Active' = QueuePart!Active \ {k} /\ QueuePart!Queued \cap QueuePart!Active = {}
    BY <1>1, <1>2, <1>3, Places
<1>6. DirtySet' \in {DirtySet, DirtySet \cup {k}}
    <2>1. CASE place' = [place EXCEPT ![k] = "queued"]
        <3>1. QueuePart!Queued' = QueuePart!Queued \cup {k}
            BY <1>1, <1>2, <2>1, Places
        <3>2. QED BY <1>1, <1>5, <3>1 DEF DirtySet
    <2>2. CASE place' = [place EXCEPT ![k] = "none"] /\ ~dirty[k]
        <3>1. QueuePart!Queued' = QueuePart!Queued \ {k}
            BY <1>1, <1>2, <2>2, Places
        <3>2. QED BY <1>1, <1>2, <1>5, <2>2, <3>1 DEF DirtySet
    <2>3. QED BY <1>3, <2>1, <2>2
<1>7. \E j \in Key : QueuePart!Dirty!Succeed(j)
    <2>1. ASSUME NEW j \in Key, j = k PROVE QueuePart!Dirty!Succeed(j)
        BY <1>2, <1>5, <1>6, <2>1 DEF QueuePart!Dirty!Succeed, DirtySet
    <2>2. QED BY <1>2, <2>1
<1>8. QED BY <1>4, <1>7 DEF AbstractStep, QueuePart!Dirty!Next

LEMMA RestartAbstract ==
    ASSUME QueuePart!TypeOK, QueuePart!Restart
    PROVE  Rested /\ AbstractStep
<1>1. /\ place' = [k \in Key |-> IF k \in QueuePart!Active THEN "queued" ELSE place[k]]
    BY DEF QueuePart!Restart
<1>2. /\ QueuePart!Queued' = QueuePart!Queued \cup QueuePart!Active /\ QueuePart!Active' = {}
      /\ QueuePart!Active \in SUBSET Key
    BY <1>1 DEF QueuePart!Queued, QueuePart!Active
<1>3. DirtySet' = DirtySet \cup QueuePart!Active
    BY <1>2 DEF DirtySet
<1>4. \E ks \in SUBSET Key : QueuePart!Dirty!Fail(ks)
    <2>1. ASSUME NEW ks \in SUBSET Key, ks = QueuePart!Active PROVE QueuePart!Dirty!Fail(ks)
        BY <1>2, <1>3, <2>1 DEF QueuePart!Dirty!Fail, DirtySet
    <2>2. QED BY <1>2, <2>1
<1>5. Rested
    BY <1>1 DEF Rested
<1>6. QED BY <1>4, <1>5 DEF AbstractStep, QueuePart!Dirty!Next

LEMMA OtherAbstract ==
    ASSUME place' = place, dirty' = dirty
    PROVE  Rested /\ AbstractStep
BY DEF Rested, AbstractStep, DirtySet, QueuePart!Queued, QueuePart!Active

LEMMA EveryStepAbstract ==
    ASSUME QueuePart!QueueInv, [QueuePart!Next]_(QueuePart!vars)
    PROVE  Rested /\ AbstractStep
<1>1. QueuePart!TypeOK /\ QueuePart!HandIsFull
    BY DEF QueuePart!QueueInv
<1>2. ASSUME NEW w \in Actor,
             QueuePart!Work(w) \/ QueuePart!Returns(w) \/ QueuePart!TerminalError(w)
      PROVE  Rested /\ AbstractStep
    <2>1. ASSUME NEW k \in Key, QueuePart!Take(w, k) PROVE Rested /\ AbstractStep
        BY <2>1, TakeAbstract
    <2>2. ASSUME NEW outcome \in QueuePart!Outcome, QueuePart!Finish(w, outcome)
          PROVE  Rested /\ AbstractStep
        BY <2>2, FinishAbstract
    <2>3. ASSUME QueuePart!TakeNothing(w) \/ QueuePart!WorkerStops(w) \/ QueuePart!TerminalError(w)
          PROVE  Rested /\ AbstractStep
        <3>1. place' = place /\ dirty' = dirty
            BY <2>3
            DEF QueuePart!TakeNothing, QueuePart!WorkerStops, QueuePart!TerminalError,
                QueuePart!queueVars
        <3>2. QED BY <3>1, OtherAbstract
    <2>4. QED BY <1>2, <2>1, <2>2, <2>3 DEF QueuePart!Work, QueuePart!Returns
<1>3. ASSUME NEW r \in Receiver, NEW k \in Key, QueuePart!Receive(r, k) \/ QueuePart!AddDirect(r, k)
      PROVE  Rested /\ AbstractStep
    <2>1. QueuePart!Admit(k) \/ UNCHANGED QueuePart!queueVars
        BY <1>3 DEF QueuePart!Receive, QueuePart!AddDirect
    <2>2. QED BY <1>1, <2>1, AdmitAbstract, OtherAbstract DEF QueuePart!queueVars
<1>4. ASSUME NEW e \in QueuePart!Emitter, QueuePart!Enter(e) \/ QueuePart!Emit(e)
      PROVE  Rested /\ AbstractStep
    <2>1. CASE QueuePart!TryAdmit(e)
        <3>1. ekey[e] \in Key /\ QueuePart!Admit(ekey[e])
            BY <1>1, <2>1 DEF QueuePart!TryAdmit, QueuePart!HandIsFull
        <3>2. QED BY <1>1, <3>1, AdmitAbstract
    <2>2. CASE QueuePart!Enter(e) \/ QueuePart!TrySleep(e) \/ QueuePart!EmitterStops(e)
        <3>1. place' = place /\ dirty' = dirty
            BY <2>2
            DEF QueuePart!Enter, QueuePart!TrySleep, QueuePart!EmitterStops, QueuePart!queueVars
        <3>2. QED BY <3>1, OtherAbstract
    <2>3. QED BY <1>4, <2>1, <2>2 DEF QueuePart!Emit
<1>5. CASE QueuePart!Restart
    BY <1>1, <1>5, RestartAbstract
<1>6. ASSUME \/ QueuePart!ScanStart \/ \E k \in Key : QueuePart!ScanEmit(k)
             \/ \E f \in BOOLEAN : QueuePart!ScanEnd(f)
             \/ \E b \in BOOLEAN : QueuePart!SetReady(b)
             \/ QueuePart!WatchFails \/ QueuePart!Reopen \/ QueuePart!Tick
             \/ UNCHANGED QueuePart!vars
      PROVE  Rested /\ AbstractStep
    <2>1. place' = place /\ dirty' = dirty
        BY <1>6
        DEF QueuePart!ScanStart, QueuePart!ScanEmit, QueuePart!ScanEnd, QueuePart!SetReady,
            QueuePart!WatchFails, QueuePart!Reopen, QueuePart!Tick, QueuePart!vars,
            QueuePart!queueVars
    <2>2. QED BY <2>1, OtherAbstract
<1>7. QED BY <1>2, <1>3, <1>4, <1>5, <1>6 DEF QueuePart!Next

\* The inductive invariant of the queue: what the heap, the delays, the workers and
\* their timers have to do with each other.
THEOREM QueueInvariance == Spec => []QueuePart!QueueInv
<1>1. Init => QueuePart!QueueInv
    BY QueueStart DEF Init
<1>2. QueuePart!QueueInv /\ [Next]_vars => QueuePart!QueueInv'
    BY PartStep, QueuePartSame, QueueStep
<1>3. QED BY <1>1, <1>2, PTL DEF Spec

\* For any keys, workers, capacity and delays: the queue stays within its capacity,
\* loses no accepted key, runs one action per key, counts its retries, and nobody
\* sleeps while a key is due (addLocked, take, finishResult, restart, notify).
THEOREM QueueIsSafe == Spec => []QueueHolds
<1>1. QueuePart!QueueInv => QueueHolds
    BY QueueInvSafe DEF QueueHolds
<1>2. QED BY <1>1, QueueInvariance, PTL

\* For any keys, workers, capacity and delays: no step shortens the delay that a key must
\* keep, and each one is a step of a set of dirty keys, so that what is added while an
\* action runs, fails or is interrupted stays dirty (addLocked, finishResult, restart).
THEOREM QueueRefines == Spec => QueueSteps
<1>1. Init => QueuePart!Dirty!Init
    BY DEF Init, QueuePart!Init, QueuePart!Dirty!Init, QueuePart!Queued, QueuePart!Active
<1>2. QueuePart!QueueInv /\ [Next]_vars => Rested /\ AbstractStep
    BY PartStep, QueuePartSame, EveryStepAbstract
<1>3. QueuePart!QueueInv /\ [Next]_vars =>
        [QueuePart!Dirty!Next]_<<QueuePart!Queued \cup {k \in QueuePart!Active : dirty[k]},
                                 QueuePart!Active>>
    BY <1>2 DEF AbstractStep, DirtySet
<1>4. QueuePart!QueueInv /\ [Next]_vars =>
        [\A k \in Key : place[k] = "queued" /\ place'[k] = "active" => cool[k] = 0]_QueuePart!vars
    BY <1>2 DEF Rested
<1>5. QED BY <1>1, <1>3, <1>4, QueueInvariance, PTL
          DEF Spec, QueueSteps, QueuePart!DelayKept, QueuePart!ImplementsDirtyKeys, QueuePart!Dirty!Spec
=============================================================================
