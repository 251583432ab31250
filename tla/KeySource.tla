----------------------------- MODULE KeySource -----------------------------
(***************************************************************************)
(* The cached keys of a generated service that verifies tokens with a JWKS *)
(* key source (internal/auth: key_source.go, jwks.go, middleware.go).      *)
(*                                                                         *)
(* Requests verify tokens concurrently. A request that finds the cache     *)
(* stale, or does not know the key of its token, refreshes the cache       *)
(* itself, outside the lock, while the others go on with what is there.    *)
(* Time is kept as the age of the events that the code compares with now.  *)
(***************************************************************************)
EXTENDS Integers, FiniteSets

CONSTANTS
    Request,     \* requests, each of which verifies one token
    KeyID,       \* key IDs
    Key,         \* key material
    NoKey,
    RetryAfter,  \* 30 s: no two refreshes start within this time
    StaleAfter,  \* 5 min: from this age a request refreshes
    ExpireAfter, \* 15 min: from this age the keys verify nothing
    ReadTimeout, \* 5 s: the longest that a refresh may take
    MaxChanges   \* bound on the changes of the published keys

VARIABLES
    published,   \* what the key source serves: key ID -> key
    withdrawn,   \* <<key ID, key>> -> age of its last publication
    changes,     \* changes of published so far
    keys,        \* the cache: key ID -> key
    loaded,      \* age of the last successful load
    attempted,   \* age of the last attempt
    refreshing, closed,
    req          \* the requests

vars == <<published, withdrawn, changes, keys, loaded, attempted, refreshing, closed, req>>

KeySets == [KeyID -> Key \cup {NoKey}]
NoKeys == [id \in KeyID |-> NoKey]
Pairs == KeyID \X Key
Older(age, limit) == IF age < limit THEN age + 1 ELSE limit
Longest == ExpireAfter + ReadTimeout
NewRequest == [pc |-> "new", id |-> CHOOSE id \in KeyID : TRUE, by |-> NoKey,
               document |-> NoKeys, reading |-> 0, canceled |-> FALSE, lag |-> 0]

\* NewJWKSVerifier has loaded the keys once.
Init ==
    /\ published \in KeySets \ {NoKeys} /\ changes = 0
    /\ withdrawn = [p \in Pairs |-> IF published[p[1]] = p[2] THEN 0 ELSE Longest]
    /\ keys = published /\ loaded = 0 /\ attempted = 0
    /\ refreshing = FALSE /\ closed = FALSE
    /\ req = [r \in Request |-> NewRequest]

At(r, pc) == req[r].pc = pc
Go(r, pc) == req' = [req EXCEPT ![r].pc = pc]
Cache == <<keys, loaded, attempted, refreshing, closed>>
World == <<published, withdrawn, changes>>

-----------------------------------------------------------------------------
\* Verify reads the cache under the lock. The token names key id and is signed
\* with key by, or with NoKey if Verifier.Verify refuses it for another reason: its
\* header, its issuer, audience or times, its role claim.
Look(r, id, by) ==
    LET stale == loaded >= StaleAfter
        unknown == keys[id] = NoKey
    IN
    /\ At(r, "new")
    /\ req' = [req EXCEPT ![r].id = id, ![r].by = by,
                          ![r].pc = IF closed THEN "refused"
                                    ELSE IF stale \/ unknown THEN "refresh" ELSE "use"]
    /\ UNCHANGED <<Cache, World>>

\* Middleware: no token, or one without a key ID.
Malformed(r) == At(r, "new") /\ Go(r, "refused") /\ UNCHANGED <<Cache, World>>

\* refresh, up to the unlock.
BeginRefresh(r) ==
    /\ At(r, "refresh")
    /\ IF closed \/ refreshing \/ attempted < RetryAfter
       THEN Go(r, "use") /\ UNCHANGED <<refreshing, attempted>>
       ELSE /\ refreshing' = TRUE /\ attempted' = 0
            /\ req' = [req EXCEPT ![r].pc = "read", ![r].reading = 0]
    /\ UNCHANGED <<keys, loaded, closed, World>>

\* read and compileJWKS: a document without a usable key is an error, as is a
\* source that does not answer.
Read(r, answers) ==
    /\ At(r, "read")
    /\ req' = [req EXCEPT ![r].pc = "install", ![r].document = IF answers THEN published ELSE NoKeys]
    /\ UNCHANGED <<Cache, World>>

\* Mutant: a failed refresh renews the keys that are known.
EndRefreshRenews(r) ==
    LET fails == req[r].document = NoKeys \/ req[r].canceled \/ req[r].reading > ReadTimeout \/ closed IN
    /\ At(r, "install") /\ req' = [req EXCEPT ![r].pc = "use", ![r].document = NoKeys, ![r].reading = 0]
    /\ refreshing' = FALSE /\ loaded' = 0
    /\ keys' = IF fails THEN keys ELSE req[r].document
    /\ UNCHANGED <<attempted, closed, World>>

\* refresh, from the second lock on.
EndRefresh(r) ==
    LET fails == req[r].document = NoKeys \/ req[r].canceled \/ req[r].reading > ReadTimeout \/ closed IN
    /\ At(r, "install") /\ req' = [req EXCEPT ![r].pc = "use", ![r].document = NoKeys, ![r].reading = 0]
    /\ refreshing' = FALSE
    /\ keys' = IF fails THEN keys ELSE req[r].document
    /\ loaded' = IF fails THEN loaded ELSE 0
    /\ UNCHANGED <<attempted, closed, World>>

\* Verify reads the cache again, and Middleware passes the request on or refuses.
Use(r) ==
    LET key == keys[req[r].id]
        valid == ~closed /\ loaded < ExpireAfter
        passes == valid /\ key # NoKey /\ ~req[r].canceled /\ key = req[r].by
    IN
    /\ At(r, "use")
    /\ req' = [req EXCEPT ![r] =
          IF passes THEN [NewRequest EXCEPT !.pc = "accepted", !.lag = withdrawn[<<req[r].id, key>>]]
          ELSE [NewRequest EXCEPT !.pc = "refused"]]
    /\ UNCHANGED <<Cache, World>>

\* The client goes away.
Cancel(r) ==
    /\ req[r].pc \in {"refresh", "read", "install", "use"} /\ ~req[r].canceled
    /\ req' = [req EXCEPT ![r].canceled = TRUE]
    /\ UNCHANGED <<Cache, World>>

\* Stop, once or again.
Stop ==
    /\ closed' = TRUE /\ keys' = NoKeys
    /\ UNCHANGED <<loaded, attempted, refreshing, req, World>>

\* The issuer publishes other keys.
Publish ==
    /\ changes < MaxChanges /\ changes' = changes + 1
    /\ published' \in KeySets \ {published}
    /\ withdrawn' = [p \in Pairs |-> IF published'[p[1]] = p[2] THEN 0 ELSE withdrawn[p]]
    /\ UNCHANGED <<Cache, req>>

Tick ==
    /\ loaded' = Older(loaded, ExpireAfter) /\ attempted' = Older(attempted, RetryAfter)
    /\ withdrawn' = [p \in Pairs |-> IF published[p[1]] = p[2] THEN 0 ELSE Older(withdrawn[p], Longest)]
    /\ req' = [r \in Request |-> IF req[r].pc \in {"read", "install"}
                                 THEN [req[r] EXCEPT !.reading = Older(@, ReadTimeout + 1)] ELSE req[r]]
    /\ UNCHANGED <<published, changes, keys, refreshing, closed>>

Next ==
    \/ \E r \in Request :
          \/ \E id \in KeyID, by \in Key \cup {NoKey} : Look(r, id, by)
          \/ Malformed(r) \/ BeginRefresh(r) \/ EndRefresh(r) \/ Use(r) \/ Cancel(r)
          \/ \E answers \in BOOLEAN : Read(r, answers)
    \/ Stop \/ Publish \/ Tick

Spec == Init /\ [][Next]_vars

-----------------------------------------------------------------------------
Refreshes == {r \in Request : req[r].pc \in {"read", "install"}}

\* A withdrawn key verifies nothing longer than the code says, however requests,
\* refreshes that fail or are late, and Stop interleave: an accepted token was signed
\* with a key that the source published within the last fifteen minutes and the time
\* of one read; a stopped verifier holds no key, so a refresh that was under way does
\* not bring one back; and one request at a time refreshes, and always ends it.
KeysAreCurrent ==
    /\ \A r \in Request : At(r, "accepted") => req[r].lag < ExpireAfter + ReadTimeout
    /\ \A p \in Pairs : keys[p[1]] = p[2] =>
          loaded = ExpireAfter \/ withdrawn[p] <= loaded + ReadTimeout
    /\ closed => keys = NoKeys
    /\ Cardinality(Refreshes) <= 1 /\ (refreshing <=> Refreshes # {})

-----------------------------------------------------------------------------
\* The inductive invariant behind it: a document that was read, and is still to be
\* installed, is not older than the read; and one refresh is under way at most.
IsRequest(x) ==
    /\ DOMAIN x = {"pc", "id", "by", "document", "reading", "canceled", "lag"}
    /\ x.id \in KeyID /\ x.document \in KeySets /\ x.reading \in Nat /\ x.lag \in Nat
    /\ x.canceled \in BOOLEAN
    /\ x.pc \in {"new", "refresh", "read", "install", "use", "accepted", "refused"}

SourceInv ==
    /\ published \in KeySets /\ keys \in KeySets /\ withdrawn \in [Pairs -> Nat]
    /\ loaded \in 0 .. ExpireAfter /\ refreshing \in BOOLEAN /\ closed \in BOOLEAN
    /\ req = [r \in Request |-> req[r]] /\ \A r \in Request : IsRequest(req[r])
    /\ \A p \in Pairs : published[p[1]] = p[2] => withdrawn[p] = 0
    /\ \A p \in Pairs : keys[p[1]] = p[2] =>
          loaded = ExpireAfter \/ withdrawn[p] <= loaded + ReadTimeout
    /\ \A r \in Request, p \in Pairs :
          At(r, "install") /\ req[r].document[p[1]] = p[2] /\ req[r].reading <= ReadTimeout =>
              withdrawn[p] <= req[r].reading
    /\ \A r \in Request : At(r, "accepted") => req[r].lag < ExpireAfter + ReadTimeout
    /\ closed => keys = NoKeys
    /\ refreshing = (Refreshes # {}) /\ \A q, r \in Refreshes : q = r
=============================================================================
