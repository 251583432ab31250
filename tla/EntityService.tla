---------------------------- MODULE EntityService ----------------------------
(***************************************************************************)
(* The REST handlers of the generated user-management service, the slots   *)
(* they call and the entity operations of its store (examples/             *)
(* user-management/out: internal/api, slots, internal/storage/store.go).   *)
(*                                                                         *)
(* Every handler is the sequence of its steps. The steps of concurrent     *)
(* requests interleave: every step is a statement of its own, and what a   *)
(* request has read may be stale when it writes.                           *)
(***************************************************************************)
EXTENDS Integers, Sequences, FiniteSets

CONSTANTS
    Request,      \* concurrent requests
    MaxId,        \* bound on rows; ids grow with the time of creation
    Name,         \* values of the unique columns, and keys of settings
    Generation,   \* generations a client sends with a setting
    Seed,         \* the rows at the start
    OrgPath, IdPath,       \* ids in the paths of requests
    Page, Size,            \* pages and sizes that clients ask for, 0 when they do not
    DefaultSize, MaxSize,  \* page sizes
    Offered       \* the operations that the clients use

VARIABLES
    rows,   \* id -> row; deleted rows stay, with live = FALSE
    req     \* request -> its progress, its parameters and its answer

vars == <<rows, req>>

Id == 1 .. MaxId
None == 0
Absent == [kind |-> "none", live |-> FALSE, name |-> "", org |-> None, body |-> 0, gen |-> 0]
Used == {i \in Id : rows[i].kind # "none"}
NewId == CHOOSE i \in Id : i \notin Used /\ \A j \in Id \ Used : i <= j

-----------------------------------------------------------------------------
(***************************************************************************)
(* Slots: several fills behind one call.                                   *)
(***************************************************************************)

\* What a fill returns: ok, a refusal, ok with Halt, or an error.
Verdict == {"ok", "refuse", "halt", "error"}

\* A gate: all n fills must accept; v are the verdicts so far.
Gate(v, n) ==
    CASE v[Len(v)] = "error" -> "error"
      [] v[Len(v)] = "refuse" -> "refused"
      [] OTHER -> IF Len(v) < n THEN "more" ELSE "ok"

\* A chain with short_circuit: as a gate, but Halt ends it with success.
Chain(v, n) ==
    CASE v[Len(v)] = "error" -> "error"
      [] v[Len(v)] = "refuse" -> "refused"
      [] v[Len(v)] = "halt" -> "halted"
      [] OTHER -> IF Len(v) < n THEN "more" ELSE "ok"

\* The slot that a handler calls before it writes.
Before(op, v) ==
    CASE op = "org-users.Create" -> Gate(v, 2)
      [] op = "organizations.Create" -> Chain(v, 2)
      [] op = "organizations.Delete" -> Gate(v, 1)

\* The fills that a handler starts together after it has written.
OnEntityChanged == {"user-change-notifier", "audit-logger"}
AfterCreate == {"send-welcome"}

-----------------------------------------------------------------------------
(***************************************************************************)
(* The handlers.                                                           *)
(***************************************************************************)

OrganizationsCreate == <<"body", "before", "create", "answer">>
OrganizationsRead == <<"get", "answer">>
OrganizationsDelete == <<"before", "delete", "answer">>
OrganizationsList == <<"count", "find", "answer">>

\* Mutant: the body is checked after the row is written.
OrgUsersCreateLate == <<"ancestors", "before", "create", "body", "changed", "after", "answer">>
OrgUsersCreate == <<"ancestors", "body", "before", "create", "changed", "after", "answer">>
OrgUsersRead == <<"ancestors", "get", "scope", "answer">>
\* Mutant: the user is not looked up in its organization.
OrgUsersUpdateUnscoped == <<"ancestors", "get", "body", "replace", "changed", "answer">>
OrgUsersUpdate == <<"ancestors", "get", "scope", "body", "replace", "changed", "answer">>
OrgUsersDelete == <<"ancestors", "get", "scope", "delete", "changed", "answer">>
\* Mutant: the answer does not wait for the change to be announced.
OrgUsersPatchSilent == <<"ancestors", "get", "scope", "body", "merge", "replace", "answer", "changed">>
OrgUsersPatch == <<"ancestors", "get", "scope", "body", "merge", "replace", "changed", "answer">>
OrgUsersList == <<"ancestors", "count", "find", "answer">>

AllUsersList == <<"count", "find", "answer">>

OrgSettingsList == <<"ancestors", "count", "find", "answer">>
OrgSettingsUpsert == <<"ancestors", "body", "upsert", "answer">>

UserAuditEventsCreate == <<"body", "create", "answer">>
UserAuditEventsList == <<"count", "find", "answer">>
OrgAuditEventsCreate == <<"body", "create", "answer">>
OrgAuditEventsList == <<"count", "find", "answer">>

Operation == {
    "organizations.Create", "organizations.Read", "organizations.Delete", "organizations.List",
    "org-users.Create", "org-users.Read", "org-users.Update", "org-users.Delete",
    "org-users.Patch", "org-users.List", "all-users.List",
    "org-settings.List", "org-settings.Upsert",
    "user-audit-events.Create", "user-audit-events.List",
    "org-audit-events.Create", "org-audit-events.List"}

\* The routes of the service.
Handler(op) ==
    CASE op = "organizations.Create" -> OrganizationsCreate
      [] op = "organizations.Read" -> OrganizationsRead
      [] op = "organizations.Delete" -> OrganizationsDelete
      [] op = "organizations.List" -> OrganizationsList
      [] op = "org-users.Create" -> OrgUsersCreate
      [] op = "org-users.Read" -> OrgUsersRead
      [] op = "org-users.Update" -> OrgUsersUpdate
      [] op = "org-users.Delete" -> OrgUsersDelete
      [] op = "org-users.Patch" -> OrgUsersPatch
      [] op = "org-users.List" -> OrgUsersList
      [] op = "all-users.List" -> AllUsersList
      [] op = "org-settings.List" -> OrgSettingsList
      [] op = "org-settings.Upsert" -> OrgSettingsUpsert
      [] op = "user-audit-events.Create" -> UserAuditEventsCreate
      [] op = "user-audit-events.List" -> UserAuditEventsList
      [] op = "org-audit-events.Create" -> OrgAuditEventsCreate
      [] op = "org-audit-events.List" -> OrgAuditEventsList

UserOps == {"org-users.Create", "org-users.Read", "org-users.Update", "org-users.Delete",
            "org-users.Patch", "org-users.List"}
ListOps == {"organizations.List", "org-users.List", "all-users.List", "org-settings.List",
            "user-audit-events.List", "org-audit-events.List"}
ScopedOps == UserOps \cup {"org-settings.List", "org-settings.Upsert"}
ByIdOps == {"organizations.Read", "organizations.Delete", "org-users.Read", "org-users.Update",
            "org-users.Delete", "org-users.Patch"}
WriteOps == Operation \ (ListOps \cup {"organizations.Read", "org-users.Read"})

KindOf(op) ==
    CASE op \in {"organizations.Create", "organizations.Read", "organizations.Delete",
                 "organizations.List"} -> "Organization"
      [] op \in UserOps \cup {"all-users.List"} -> "User"
      [] op \in {"org-settings.List", "org-settings.Upsert"} -> "OrgSetting"
      [] OTHER -> "AuditEvent"

\* The implicit source_type of the two collections of audit events.
Implicit(op) ==
    CASE op \in {"user-audit-events.Create", "user-audit-events.List"} -> "User"
      [] op \in {"org-audit-events.Create", "org-audit-events.List"} -> "Organization"
      [] OTHER -> ""

Idle == [op |-> "", todo |-> <<>>, org |-> None, id |-> None, name |-> "", body |-> 0, gen |-> 0,
         page |-> 1, size |-> 0, order |-> "desc", sound |-> TRUE, held |-> Absent, verdicts |-> <<>>,
         pending |-> {}, failed |-> FALSE, told |-> {}, wrote |-> FALSE, refused |-> FALSE,
         total |-> 0, items |-> <<>>, answer |-> None]

Init == rows = Seed /\ req = [p \in Request |-> Idle]

\* What the service answers.
Answer(p, code) == [req[p] EXCEPT !.todo = <<>>, !.answer = code]
Continue(p) == [req[p] EXCEPT !.todo = Tail(@)]
Set(p, r) == req' = [req EXCEPT ![p] = r]
At(p, step) == req[p].todo # <<>> /\ Head(req[p].todo) = step
Running(p) == req[p].todo # <<>>

\* A request arrives: its route, its path, its body and its query.
Arrive(p, op) ==
    /\ req[p] = Idle
    /\ \E org \in IF op \in ScopedOps THEN OrgPath ELSE {None},
          id \in IF op \in ByIdOps THEN IdPath ELSE {None},
          name \in IF op \in {"organizations.Create", "org-users.Create", "org-users.Update",
                              "org-settings.Upsert"} THEN Name ELSE {""},
          body \in IF op = "org-users.Patch" THEN {1} ELSE {0},
          gen \in IF op = "org-settings.Upsert" THEN Generation ELSE {0},
          page \in IF op \in ListOps THEN Page ELSE {1},
          size \in IF op \in ListOps THEN Size ELSE {0},
          order \in IF op \in ListOps THEN {"asc", "desc"} ELSE {"desc"},
          sound \in IF op \in ByIdOps \ {"org-users.Update", "org-users.Patch"}
                    THEN {TRUE} ELSE BOOLEAN :
          Set(p, [Idle EXCEPT !.op = op, !.todo = Handler(op), !.org = org, !.id = id,
                  !.name = IF Implicit(op) # "" THEN Implicit(op) ELSE name, !.body = body,
                  !.gen = gen, !.page = page, !.size = size, !.order = order, !.sound = sound])
    /\ UNCHANGED rows

-----------------------------------------------------------------------------
(***************************************************************************)
(* The steps of the handlers.                                              *)
(***************************************************************************)

\* A row that the queries of the store see.
Live(kind, i) == i \in Used /\ rows[i].kind = kind /\ rows[i].live

\* Exists, and checkAncestors. Any statement may fail: the answer is 500.
Ancestors(p) ==
    /\ At(p, "ancestors")
    /\ \/ Set(p, Answer(p, 500))
       \/ ~Live("Organization", req[p].org) /\ Set(p, Answer(p, 404))
       \/ Live("Organization", req[p].org) /\ Set(p, Continue(p))
    /\ UNCHANGED rows

\* The body is read, its kind is checked, and it is decoded.
Body(p) ==
    /\ At(p, "body")
    /\ Set(p, IF req[p].sound THEN Continue(p) ELSE Answer(p, 400))
    /\ UNCHANGED rows

\* Get: the row that the request goes on with.
Get(p) ==
    /\ At(p, "get")
    /\ \/ Set(p, Answer(p, 500))
       \/ ~Live(KindOf(req[p].op), req[p].id) /\ Set(p, Answer(p, 404))
       \/ /\ Live(KindOf(req[p].op), req[p].id)
          /\ Set(p, [Continue(p) EXCEPT !.held = rows[req[p].id],
                     !.items = IF req[p].op \in {"organizations.Read", "org-users.Read"}
                               THEN <<req[p].id>> ELSE <<>>])
    /\ UNCHANGED rows

\* The row that was read must belong to the organization of the path.
Scope(p) ==
    /\ At(p, "scope")
    /\ Set(p, IF req[p].held.org = req[p].org THEN Continue(p)
              ELSE [Answer(p, 404) EXCEPT !.items = <<>>])
    /\ UNCHANGED rows

\* The status that a handler answers with when a slot ends the request: the one of
\* the fill's result, and 403 or 200 where the fill gives none.
RefusalCode == {400, 403, 409}
HaltCode == {200, 204}

\* One fill of the slot before the write returns.
BeforeFill(p, verdict) ==
    LET v == Append(req[p].verdicts, verdict)
        r == [req[p] EXCEPT !.verdicts = v]
        slot == Before(req[p].op, v)
        End(code) == Set(p, [r EXCEPT !.todo = <<>>, !.answer = code])
    IN
    /\ At(p, "before")
    /\ \/ slot = "more" /\ Set(p, r)
       \/ slot = "ok" /\ Set(p, [r EXCEPT !.todo = Tail(@)])
       \/ slot = "halted" /\ \E code \in HaltCode : End(code)
       \/ slot = "refused" /\ \E code \in RefusalCode : End(code)
       \/ slot = "error" /\ End(500)
    /\ UNCHANGED rows

\* The unique columns: names of organizations, emails of users. Deleted rows count.
Taken(kind, name, except) ==
    kind \in {"Organization", "User"} /\
    \E i \in Used \ {except} : rows[i].kind = kind /\ rows[i].name = name

\* Store.Create: insert, or ErrConflict. A write that fails may have reached the
\* database.
Create(p) ==
    LET kind == KindOf(req[p].op)
        row == [Absent EXCEPT !.kind = kind, !.live = TRUE, !.name = req[p].name,
                              !.org = req[p].org, !.body = req[p].body]
    IN
    /\ At(p, "create")
    /\ \/ UNCHANGED rows /\ Set(p, Answer(p, 500))
       \/ Taken(kind, req[p].name, None) /\ UNCHANGED rows /\ Set(p, Answer(p, 409))
       \/ /\ ~Taken(kind, req[p].name, None) /\ Used # Id
          /\ rows' = [rows EXCEPT ![NewId] = row]
          /\ \/ Set(p, [Continue(p) EXCEPT !.wrote = TRUE, !.id = NewId])
             \/ Set(p, [Answer(p, 500) EXCEPT !.wrote = TRUE])

\* Patch: the fields of the patch replace those of the row that was read.
Merge(p) ==
    /\ At(p, "merge")
    /\ Set(p, [Continue(p) EXCEPT !.name = req[p].held.name])
    /\ UNCHANGED rows

\* Store.Replace: all columns of a live row, or ErrNotFound, or ErrConflict.
Replace(p) ==
    LET i == req[p].id IN
    /\ At(p, "replace")
    /\ \/ UNCHANGED rows /\ Set(p, Answer(p, 500))
       \/ ~Live("User", i) /\ UNCHANGED rows /\ Set(p, Answer(p, 404))
       \/ /\ Live("User", i) /\ Taken("User", req[p].name, i)
          /\ UNCHANGED rows /\ Set(p, Answer(p, 409))
       \/ /\ Live("User", i) /\ ~Taken("User", req[p].name, i)
          /\ rows' = [rows EXCEPT ![i].name = req[p].name, ![i].body = req[p].body,
                                  ![i].org = req[p].org]
          /\ \/ Set(p, [Continue(p) EXCEPT !.wrote = TRUE])
             \/ Set(p, [Answer(p, 500) EXCEPT !.wrote = TRUE])

\* Store.Delete marks a live row, or returns ErrNotFound.
Delete(p) ==
    LET i == req[p].id IN
    /\ At(p, "delete")
    /\ \/ UNCHANGED rows /\ Set(p, Answer(p, 500))
       \/ ~Live(KindOf(req[p].op), i) /\ UNCHANGED rows /\ Set(p, Answer(p, 404))
       \/ /\ Live(KindOf(req[p].op), i)
          /\ rows' = [rows EXCEPT ![i].live = FALSE]
          /\ \/ Set(p, [Continue(p) EXCEPT !.wrote = TRUE])
             \/ Set(p, [Answer(p, 500) EXCEPT !.wrote = TRUE])

\* Store.Upsert in a serializable transaction: the database may fail, and otherwise
\* it refuses the statement itself, in whose WHERE the column "generation" is named
\* without its table while EXCLUDED has one too. Neither writes anything.
Upsert(p) ==
    /\ At(p, "upsert")
    /\ \E refused \in BOOLEAN : Set(p, [Answer(p, 500) EXCEPT !.refused = refused])
    /\ UNCHANGED rows

\* The rows that a list of each kind selects: live ones, in the scope of the path,
\* and with the implicit source type of the collection.
SelectOrganizations == {i \in Used : Live("Organization", i)}
SelectUsers(org) == {i \in Used : Live("User", i) /\ (org # None => rows[i].org = org)}
SelectSettings(org) == {i \in Used : Live("OrgSetting", i) /\ rows[i].org = org}
SelectAuditEvents(source) == {i \in Used : Live("AuditEvent", i) /\ rows[i].name = source}

Selected(p) ==
    CASE KindOf(req[p].op) = "Organization" -> SelectOrganizations
      [] KindOf(req[p].op) = "User" -> SelectUsers(req[p].org)
      [] KindOf(req[p].op) = "OrgSetting" -> SelectSettings(req[p].org)
      [] KindOf(req[p].op) = "AuditEvent" -> SelectAuditEvents(Implicit(req[p].op))

\* ORDER BY id: the k-th row is the one with k rows of S up to it.
InOrder(order, i, j) == IF order = "asc" THEN i < j ELSE i > j
UpTo(S, order, i) == {j \in S : j = i \/ InOrder(order, j, i)}
Ordered(S, order) ==
    [k \in 1 .. Cardinality(S) |-> CHOOSE i \in S : Cardinality(UpTo(S, order, i)) = k]

\* The handlers bring the page and its size into range.
PageOf(page) == IF page < 1 THEN 1 ELSE page
SizeOf(size) == IF size < 1 THEN DefaultSize ELSE IF size > MaxSize THEN MaxSize ELSE size

\* OFFSET and LIMIT.
Window(s, page, size) ==
    LET first == (page - 1) * size + 1
        last == IF Len(s) < first + size - 1 THEN Len(s) ELSE first + size - 1
    IN  SubSeq(s, first, last)

\* listQuery counts the rows, and then reads a page of them. A query that does not
\* parse is the client's error.
Count(p) ==
    /\ At(p, "count")
    /\ \/ Set(p, Answer(p, 500))
       \/ ~req[p].sound /\ Set(p, Answer(p, 400))
       \/ req[p].sound /\ Set(p, [Continue(p) EXCEPT !.total = Cardinality(Selected(p))])
    /\ UNCHANGED rows

Find(p) ==
    /\ At(p, "find")
    /\ \/ Set(p, Answer(p, 500))
       \/ Set(p, [Continue(p) EXCEPT !.items =
             Window(Ordered(Selected(p), req[p].order), PageOf(req[p].page), SizeOf(req[p].size))])
    /\ UNCHANGED rows

\* FanOut.Evaluate starts all fills of the slot at once ...
FanOutStart(p, fills, step) ==
    /\ At(p, step) /\ req[p].pending = {} /\ ~(fills \subseteq req[p].told)
    /\ Set(p, [req[p] EXCEPT !.pending = fills])
    /\ UNCHANGED rows

\* ... a fill returns ...
FillReturns(p, fill, verdict) ==
    /\ fill \in req[p].pending
    /\ Set(p, [req[p] EXCEPT !.pending = @ \ {fill}, !.told = @ \cup {fill},
                             !.failed = @ \/ verdict = "error"])
    /\ UNCHANGED rows

\* ... and the call ends when all have: an error of any of them is the answer.
FanOutEnd(p, fills, step) ==
    /\ At(p, step) /\ req[p].pending = {} /\ fills \subseteq req[p].told
    /\ Set(p, IF req[p].failed THEN Answer(p, 500) ELSE Continue(p))
    /\ UNCHANGED rows

\* The answer of a request that went through; an upsert never does.
Success(p) ==
    CASE req[p].op \in {"organizations.Create", "org-users.Create", "user-audit-events.Create",
                        "org-audit-events.Create"} -> 201
      [] req[p].op \in {"organizations.Delete", "org-users.Delete"} -> 204
      [] OTHER -> 200

Respond(p) ==
    /\ At(p, "answer")
    /\ Set(p, [Continue(p) EXCEPT !.answer = Success(p)])
    /\ UNCHANGED rows

Step(p) ==
    \/ Ancestors(p) \/ Body(p) \/ Get(p) \/ Scope(p) \/ Merge(p)
    \/ Create(p) \/ Replace(p) \/ Delete(p) \/ Upsert(p) \/ Count(p) \/ Find(p)
    \/ \E verdict \in Verdict : BeforeFill(p, verdict)
    \/ FanOutStart(p, OnEntityChanged, "changed") \/ FanOutEnd(p, OnEntityChanged, "changed")
    \/ FanOutStart(p, AfterCreate, "after") \/ FanOutEnd(p, AfterCreate, "after")
    \/ \E fill \in OnEntityChanged \cup AfterCreate, verdict \in {"ok", "refuse", "error"} :
          FillReturns(p, fill, verdict)
    \/ Respond(p)

Next == \E p \in Request : Step(p) \/ \E op \in Offered : Arrive(p, op)

Spec == Init /\ [][Next]_vars

-----------------------------------------------------------------------------
(***************************************************************************)
(* Properties.                                                             *)
(***************************************************************************)

RowName == Name \cup {"", "User", "Organization"}
Row == [kind : {"none", "Organization", "User", "OrgSetting", "AuditEvent"}, live : BOOLEAN,
        name : RowName, org : {None} \cup Id, body : 0 .. 1, gen : Nat]
Code == {None, 200, 201, 204, 400, 403, 404, 409, 500}

TypeOK ==
    /\ rows \in [Id -> Row]
    /\ \A p \in Request : req[p].answer \in Code

Answered(p) == req[p].answer # None
Clean(p) == Answered(p) /\ req[p].answer \in {200, 201, 204}
Halted(r) == r.op = "organizations.Create" /\ \E k \in DOMAIN r.verdicts : r.verdicts[k] = "halt"

\* A request that is answered with a client error has changed nothing, whatever
\* the others did between its reads and its write (all handlers).
ClientErrorChangesNothing ==
    \A p \in Request : req[p].answer \in {400, 403, 404, 409} => ~req[p].wrote

\* A success answer to a write means that the row was written and that every fill
\* of the slots after the write ran and returned without an error.
SuccessMeansDone ==
    \A p \in Request : Clean(p) /\ req[p].op \in WriteOps /\ ~Halted(req[p]) =>
        /\ req[p].wrote
        /\ (req[p].op \in UserOps => OnEntityChanged \subseteq req[p].told)
        /\ (req[p].op = "org-users.Create" => AfterCreate \subseteq req[p].told)
        /\ ~req[p].failed

\* A row is only created or deleted when every fill of the slot before the write
\* has accepted it (Gate, Chain).
WrittenOnlyIfAccepted ==
    \A p \in Request : req[p].wrote =>
        /\ \A k \in DOMAIN req[p].verdicts : req[p].verdicts[k] \in {"ok", "halt"}
        /\ (req[p].op \in {"org-users.Create", "organizations.Create"} => Len(req[p].verdicts) = 2)
        /\ ~Halted(req[p])

\* No fill is still running for a request that has its answer (FanOut).
NoFillAfterAnswer == \A p \in Request : Answered(p) => req[p].pending = {}

\* Whoever reads through an organization sees only rows of that organization, and
\* of the collection's source type.
AnswersStayInScope ==
    \A p \in Request : Clean(p) =>
        \A k \in DOMAIN req[p].items :
            LET row == rows[req[p].items[k]] IN
            /\ row.kind = KindOf(req[p].op)
            /\ req[p].org # None => row.org = req[p].org
            /\ Implicit(req[p].op) # "" => row.name = Implicit(req[p].op)

\* A page holds each row once, in order, and no more rows than the largest page.
PageInOrder ==
    \A p \in Request : req[p].op \in ListOps =>
        /\ Len(req[p].items) <= MaxSize
        /\ \A k \in 1 .. Len(req[p].items) - 1 :
              InOrder(req[p].order, req[p].items[k], req[p].items[k + 1])

\* No sequence of requests moves a row to another organization or kind.
RowsKeepIdentity ==
    [][\A i \in Used : rows'[i].kind = rows[i].kind /\ rows'[i].org = rows[i].org]_vars

\* A deleted row never changes again: a request that read it before cannot bring it
\* back or write it.
DeletedIsFinal == [][\A i \in Used : ~rows[i].live => rows'[i] = rows[i]]_vars

\* The setting that an upsert is about, if there is one.
SettingOf(p) ==
    {i \in Used : rows[i].kind = "OrgSetting" /\ rows[i].org = req[p].org
                     /\ rows[i].name = req[p].name}

\* Store.Upsert refuses a setting only when the stored one is as new: a new setting is
\* inserted, and one of a newer generation is updated.
NewerGenerationAccepted ==
    \A p \in Request : req[p].refused => \E i \in SettingOf(p) : req[p].gen <= rows[i].gen

-----------------------------------------------------------------------------
(***************************************************************************)
(* The inductive invariant behind the properties.                          *)
(***************************************************************************)

\* What the constants are.
Bounds ==
    /\ MaxId \in Nat /\ Seed \in [Id -> Row] /\ Generation \subseteq Nat
    /\ Page \subseteq Int /\ Size \subseteq Int /\ MaxSize \in Nat /\ DefaultSize \in 1 .. MaxSize
    /\ Offered \subseteq Operation

WriteStep == {"create", "replace", "delete", "upsert"}
StepName == {"ancestors", "get", "scope", "body", "merge", "before", "count", "find", "changed",
             "after", "answer"} \cup WriteStep

\* The steps of every handler come in this order.
Order == [ancestors |-> 1, get |-> 2, scope |-> 3, body |-> 4, merge |-> 5, before |-> 6,
          count |-> 7, find |-> 8, create |-> 9, replace |-> 9, delete |-> 9, upsert |-> 9,
          changed |-> 10, after |-> 11, answer |-> 12]
Place(step) == Order[step]

StepsOf(s) == {s[k] : k \in DOMAIN s}
Steps(op) == IF op = "" THEN {} ELSE StepsOf(Handler(op))
NextIs(r, step) == r.todo # <<>> /\ Head(r.todo) = step

Field == {"op", "todo", "org", "id", "name", "body", "gen", "page", "size", "order", "sound", "held",
          "verdicts", "pending", "failed", "told", "wrote", "refused", "total", "items",
          "answer"}

IsRequest(r) ==
    /\ DOMAIN r = Field /\ r.op \in Operation \cup {""} /\ r.todo \in Seq(StepName)
    /\ r.name \in RowName /\ r.body \in 0 .. 1 /\ r.page \in Int /\ r.size \in Int
    /\ r.held \in Row /\ r.verdicts \in Seq(Verdict)
    /\ r.failed \in BOOLEAN /\ r.wrote \in BOOLEAN
    /\ r.items \in Seq(Id) /\ r.answer \in Code
    /\ r.org = None \/ r.op \in ScopedOps

\* A request has the steps before it that its handler has left.
OnCourse(r) ==
    /\ \A k, l \in DOMAIN r.todo : k < l => Place(r.todo[k]) < Place(r.todo[l])
    /\ StepsOf(r.todo) \subseteq Steps(r.op)
    /\ \A s \in Steps(r.op) \ StepsOf(r.todo), u \in StepsOf(r.todo) : Place(s) < Place(u)
    /\ r.answer # None => r.todo = <<>>

\* What a request wrote, and whom it told, agree with what is left and with its answer.
Accounted(r) ==
    /\ r.wrote => r.answer \notin {400, 403, 404, 409}
                  /\ \A s \in StepsOf(r.todo) : Place(s) > Place("create")
    /\ r.answer \in {None, 200, 201, 204} /\ ~Halted(r) =>
          /\ WriteStep \cap Steps(r.op) \subseteq StepsOf(r.todo) \/ r.wrote
          /\ "changed" \in Steps(r.op) \ StepsOf(r.todo) => OnEntityChanged \subseteq r.told
          /\ "after" \in Steps(r.op) \ StepsOf(r.todo) => AfterCreate \subseteq r.told
    /\ r.pending # {} => NextIs(r, "changed") \/ NextIs(r, "after")
    /\ r.failed => NextIs(r, "changed") \/ NextIs(r, "after") \/ r.answer = 500

\* The fills that a handler asks before it writes.
Gates(op) == CASE op \in {"organizations.Create", "org-users.Create"} -> 2
               [] op = "organizations.Delete" -> 1
               [] OTHER -> 0

\* A request that goes on, or has written, was accepted by the fills it has asked.
Accepted(r) ==
    r.todo # <<>> \/ r.wrote =>
        /\ \A k \in DOMAIN r.verdicts : r.verdicts[k] \in {"ok", "halt"}
        /\ ~Halted(r)
        /\ IF "before" \in StepsOf(r.todo) THEN Len(r.verdicts) < Gates(r.op)
           ELSE Len(r.verdicts) = Gates(r.op)

\* The page that a list has read.
IsPage(r) ==
    /\ Len(r.items) <= MaxSize
    /\ \A k \in 1 .. Len(r.items) - 1 : InOrder(r.order, r.items[k], r.items[k + 1])

\* What a request has read is still true of the rows t where it must be.
Grounded(t, r) ==
    /\ r.todo # <<>> => "ancestors" \in StepsOf(r.todo) \/ r.org \in Id \cup {None}
    /\ r.items # <<>> => \A s \in StepsOf(r.todo) : Place(s) > Place("get")
    /\ \A k \in DOMAIN r.items :
          /\ t[r.items[k]].kind = KindOf(r.op)
          /\ Implicit(r.op) # "" => t[r.items[k]].name = Implicit(r.op)
          /\ "scope" \in StepsOf(r.todo) \/ r.org = None \/ t[r.items[k]].org = r.org
    /\ "scope" \in Steps(r.op) /\ r.todo # <<>> /\ "get" \notin StepsOf(r.todo) =>
          /\ r.id \in Id /\ t[r.id].kind = "User" /\ t[r.id].org = r.held.org
          /\ \A k \in DOMAIN r.items : r.items[k] = r.id
          /\ "scope" \in StepsOf(r.todo) \/ r.held.org = r.org

EntityInv ==
    /\ rows \in [Id -> Row] /\ req = [p \in Request |-> req[p]]
    /\ \A p \in Request :
          /\ IsRequest(req[p]) /\ OnCourse(req[p]) /\ Accounted(req[p]) /\ Accepted(req[p])
          /\ Grounded(rows, req[p])
          /\ req[p].op \in ListOps => IsPage(req[p])
=============================================================================
