------------------------ MODULE EntityServiceProofs ------------------------
(***************************************************************************)
(* The requests of EntityService, for any number of them, and any rows,    *)
(* names, generations and page sizes: the inductive invariant EntityInv,   *)
(* what the answers say by it, and what a request may do to a row.         *)
(***************************************************************************)
EXTENDS EntityService, FiniteSetTheorems, SequenceTheorems, TLAPS

-----------------------------------------------------------------------------
(***************************************************************************)
(* Lists: the order of the rows, and the page of them.                     *)
(***************************************************************************)

LEMMA FiniteRows ==
    ASSUME NEW n \in Nat, NEW S \in SUBSET (1 .. n)
    PROVE  IsFiniteSet(S) /\ Cardinality(S) \in Nat
<1>1. 1 \in Int /\ n \in Int
    OBVIOUS
<1>2. IsFiniteSet(1 .. n)
    BY <1>1, FS_Interval
<1>3. IsFiniteSet(S)
    BY <1>2, FS_Subset
<1>4. QED BY <1>3, FS_CardinalityType

\* The order of a list is a strict order of the ids.
LEMMA OrderIsStrict ==
    ASSUME NEW order, NEW i \in Int, NEW j \in Int, NEW k \in Int
    PROVE  /\ ~InOrder(order, i, i)
           /\ i = j \/ InOrder(order, i, j) \/ InOrder(order, j, i)
           /\ InOrder(order, i, j) /\ InOrder(order, j, k) => InOrder(order, i, k)
<1>1. (\A x, y : InOrder(order, x, y) <=> x < y) \/ (\A x, y : InOrder(order, x, y) <=> x > y)
    BY Zenon DEF InOrder
<1>2. QED BY <1>1

\* The row up to which there are k rows exists for every k, and these rows are in order.
LEMMA UpToStep ==
    ASSUME NEW n \in Nat, NEW S \in SUBSET (1 .. n), NEW order, NEW i \in S, NEW j \in S,
           InOrder(order, i, j)
    PROVE  Cardinality(UpTo(S, order, i)) < Cardinality(UpTo(S, order, j))
<1>1. IsFiniteSet(S)
    BY FiniteRows
<1>2. UpTo(S, order, i) \subseteq UpTo(S, order, j) /\ UpTo(S, order, j) \subseteq S
    <2>1. \A x \in S : InOrder(order, x, i) => InOrder(order, x, j)
        BY OrderIsStrict
    <2>2. QED BY <2>1 DEF UpTo
<1>3. j \in UpTo(S, order, j) /\ j \notin UpTo(S, order, i)
    <2>1. ~InOrder(order, j, i) /\ i # j
        BY OrderIsStrict
    <2>2. QED BY <2>1 DEF UpTo
<1>4. IsFiniteSet(UpTo(S, order, j))
    BY <1>1, <1>2, FS_Subset
<1>5. /\ Cardinality(UpTo(S, order, i)) <= Cardinality(UpTo(S, order, j))
      /\ Cardinality(UpTo(S, order, i)) # Cardinality(UpTo(S, order, j))
      /\ IsFiniteSet(UpTo(S, order, i))
    BY <1>2, <1>3, <1>4, FS_Subset
<1>6. Cardinality(UpTo(S, order, i)) \in Nat /\ Cardinality(UpTo(S, order, j)) \in Nat
    BY <1>4, <1>5, FS_CardinalityType
<1>7. QED BY <1>5, <1>6

LEMMA Ranked ==
    ASSUME NEW n \in Nat, NEW S \in SUBSET (1 .. n), NEW order, NEW k \in 1 .. Cardinality(S)
    PROVE  \E i \in S : Cardinality(UpTo(S, order, i)) = k
<1> DEFINE rank == [i \in S |-> Cardinality(UpTo(S, order, i))]
           m == Cardinality(S)
<1>1. IsFiniteSet(S) /\ m \in Nat
    BY FiniteRows
<1>2. ASSUME NEW i \in S PROVE rank[i] \in 1 .. m
    <2>1. UpTo(S, order, i) \subseteq S /\ i \in UpTo(S, order, i)
        BY DEF UpTo
    <2>2. /\ IsFiniteSet(UpTo(S, order, i)) /\ Cardinality(UpTo(S, order, i)) <= m
          /\ Cardinality(UpTo(S, order, i)) \in Nat
        BY <1>1, <2>1, FS_Subset, FS_CardinalityType
    <2>3. Cardinality(UpTo(S, order, i)) # 0
        BY <2>1, <2>2, FS_EmptySet
    <2>4. QED BY <1>1, <2>2, <2>3
<1>3. ASSUME NEW i \in S, NEW j \in S, rank[i] = rank[j] PROVE i = j
    <2>1. i \in Int /\ j \in Int
        OBVIOUS
    <2>2. /\ IsFiniteSet(UpTo(S, order, i)) /\ IsFiniteSet(UpTo(S, order, j))
        <3>1. UpTo(S, order, i) \subseteq S /\ UpTo(S, order, j) \subseteq S
            BY DEF UpTo
        <3>2. QED BY <1>1, <3>1, FS_Subset
    <2>3. Cardinality(UpTo(S, order, i)) \in Nat /\ Cardinality(UpTo(S, order, j)) \in Nat
        BY <2>2, FS_CardinalityType
    <2>4. Cardinality(UpTo(S, order, i)) = Cardinality(UpTo(S, order, j))
        BY <1>3
    <2> HIDE DEF rank
    <2>5. ~InOrder(order, i, j) /\ ~InOrder(order, j, i)
        <3>1. \A a, b \in S : InOrder(order, a, b) =>
                  Cardinality(UpTo(S, order, a)) < Cardinality(UpTo(S, order, b))
            BY UpToStep
        <3>2. QED BY <2>3, <2>4, <3>1
    <2>6. QED BY <2>1, <2>5, OrderIsStrict
<1>4. rank \in Injection(S, 1 .. m)
    BY <1>2, <1>3 DEF Injection, IsInjective
<1>5. IsFiniteSet(1 .. m) /\ Cardinality(1 .. m) = m
    BY <1>1, FS_Interval
<1>6. rank \in Surjection(S, 1 .. m)
    <2> HIDE DEF rank
    <2>1. QED BY <1>4, <1>5, FS_Injection DEF m
<1>7. PICK i \in S : rank[i] = k
    BY <1>6 DEF Surjection
<1>8. QED BY <1>7

LEMMA OrderedRows ==
    ASSUME NEW n \in Nat, NEW S \in SUBSET (1 .. n), NEW order
    PROVE  /\ Ordered(S, order) \in Seq(S) /\ Len(Ordered(S, order)) = Cardinality(S)
           /\ \A k, l \in 1 .. Cardinality(S) : k < l =>
                 InOrder(order, Ordered(S, order)[k], Ordered(S, order)[l])
<1> DEFINE m == Cardinality(S)
           s == Ordered(S, order)
<1>1. m \in Nat
    BY FiniteRows
<1>2. \A k \in 1 .. m : s[k] \in S /\ Cardinality(UpTo(S, order, s[k])) = k
    BY Ranked DEF Ordered
<1>3. s \in Seq(S) /\ Len(s) = m
    BY <1>1, <1>2 DEF Ordered
<1>4. ASSUME NEW k \in 1 .. m, NEW l \in 1 .. m, k < l
      PROVE  InOrder(order, s[k], s[l])
    <2> HIDE DEF s, m
    <2>1. s[k] \in S /\ s[l] \in S /\ \A x \in S : x \in Int
        BY <1>2
    <2>2. /\ Cardinality(UpTo(S, order, s[k])) = k /\ Cardinality(UpTo(S, order, s[l])) = l
        BY <1>2
    <2>3. s[k] # s[l] /\ k \in Int /\ l \in Int
        BY <1>1, <1>4, <2>2
    <2>4. ~InOrder(order, s[l], s[k])
        <3>1. \A a, b \in S : InOrder(order, a, b) =>
                  Cardinality(UpTo(S, order, a)) < Cardinality(UpTo(S, order, b))
            BY UpToStep
        <3>2. InOrder(order, s[l], s[k]) => l < k
            BY <2>1, <2>2, <3>1, Zenon
        <3>3. QED BY <1>4, <2>3, <3>2
    <2>5. QED BY <2>1, <2>3, <2>4, OrderIsStrict
<1>5. QED BY <1>3, <1>4

-----------------------------------------------------------------------------
(***************************************************************************)
(* The handlers.                                                           *)
(***************************************************************************)

\* The order of the steps.
LEMMA Places ==
    /\ Place("ancestors") = 1 /\ Place("get") = 2 /\ Place("scope") = 3 /\ Place("body") = 4
    /\ Place("merge") = 5 /\ Place("before") = 6 /\ Place("count") = 7 /\ Place("find") = 8
    /\ Place("create") = 9 /\ Place("replace") = 9 /\ Place("delete") = 9 /\ Place("upsert") = 9
    /\ Place("changed") = 10 /\ Place("after") = 11 /\ Place("answer") = 12
BY DEF Place, Order

\* What is left after the first of the steps that are left.
Ascends(s) == \A k, l \in DOMAIN s : k < l => Place(s[k]) < Place(s[l])

LEMMA TailOf ==
    ASSUME NEW s \in Seq(StepName), s # <<>>, Ascends(s)
    PROVE  /\ Head(s) \in StepName /\ Tail(s) \in Seq(StepName) /\ Ascends(Tail(s))
           /\ StepsOf(s) = {Head(s)} \cup StepsOf(Tail(s))
           /\ \A x \in StepsOf(Tail(s)) : Place(Head(s)) < Place(x)
<1>1. /\ Head(s) \in StepName /\ Tail(s) \in Seq(StepName) /\ Len(Tail(s)) = Len(s) - 1
      /\ \A k \in 1 .. Len(Tail(s)) : Tail(s)[k] = s[k + 1]
    BY HeadTailProperties
<1>2. Head(s) = s[1] /\ Len(s) \in Nat /\ Len(s) >= 1 /\ DOMAIN s = 1 .. Len(s)
      /\ DOMAIN Tail(s) = 1 .. Len(s) - 1
    BY <1>1
<1>3. Ascends(Tail(s))
    BY <1>1, <1>2 DEF Ascends
<1>4. ASSUME NEW k \in 1 .. Len(s), k # 1 PROVE k - 1 \in 1 .. Len(s) - 1 /\ s[k] = Tail(s)[k - 1]
    BY <1>1, <1>2, <1>4
<1>5. StepsOf(s) = {Head(s)} \cup StepsOf(Tail(s))
    <2>1. \A x \in StepsOf(s) : x \in {Head(s)} \cup StepsOf(Tail(s))
        BY <1>2, <1>4, ZenonT(60) DEF StepsOf
    <2>2. \A x \in StepsOf(Tail(s)) : x \in StepsOf(s)
        BY <1>1, <1>2 DEF StepsOf
    <2>3. Head(s) \in StepsOf(s)
        BY <1>2 DEF StepsOf
    <2>4. QED BY <2>1, <2>2, <2>3
<1>6. \A x \in StepsOf(Tail(s)) : Place(Head(s)) < Place(x)
    BY <1>1, <1>2 DEF StepsOf, Ascends
<1>7. QED BY <1>1, <1>3, <1>5, <1>6

LEMMA OrganizationsCreateSteps ==
    /\ OrganizationsCreate \in Seq(StepName) /\ OrganizationsCreate # <<>> /\ Ascends(OrganizationsCreate)
    /\ StepsOf(OrganizationsCreate) = {"body", "before", "create", "answer"}
BY Places DEF OrganizationsCreate, Ascends, StepsOf, StepName, WriteStep

LEMMA OrganizationsReadSteps ==
    /\ OrganizationsRead \in Seq(StepName) /\ OrganizationsRead # <<>> /\ Ascends(OrganizationsRead)
    /\ StepsOf(OrganizationsRead) = {"get", "answer"}
BY Places DEF OrganizationsRead, Ascends, StepsOf, StepName, WriteStep

LEMMA OrganizationsDeleteSteps ==
    /\ OrganizationsDelete \in Seq(StepName) /\ OrganizationsDelete # <<>> /\ Ascends(OrganizationsDelete)
    /\ StepsOf(OrganizationsDelete) = {"before", "delete", "answer"}
BY Places DEF OrganizationsDelete, Ascends, StepsOf, StepName, WriteStep

LEMMA OrganizationsListSteps ==
    /\ OrganizationsList \in Seq(StepName) /\ OrganizationsList # <<>> /\ Ascends(OrganizationsList)
    /\ StepsOf(OrganizationsList) = {"count", "find", "answer"}
BY Places DEF OrganizationsList, Ascends, StepsOf, StepName, WriteStep

LEMMA OrgUsersCreateSteps ==
    /\ OrgUsersCreate \in Seq(StepName) /\ OrgUsersCreate # <<>> /\ Ascends(OrgUsersCreate)
    /\ StepsOf(OrgUsersCreate) = {"ancestors", "body", "before", "create", "changed", "after", "answer"}
BY Places DEF OrgUsersCreate, Ascends, StepsOf, StepName, WriteStep

LEMMA OrgUsersReadSteps ==
    /\ OrgUsersRead \in Seq(StepName) /\ OrgUsersRead # <<>> /\ Ascends(OrgUsersRead)
    /\ StepsOf(OrgUsersRead) = {"ancestors", "get", "scope", "answer"}
BY Places DEF OrgUsersRead, Ascends, StepsOf, StepName, WriteStep

LEMMA OrgUsersUpdateSteps ==
    /\ OrgUsersUpdate \in Seq(StepName) /\ OrgUsersUpdate # <<>> /\ Ascends(OrgUsersUpdate)
    /\ StepsOf(OrgUsersUpdate) = {"ancestors", "get", "scope", "body", "replace", "changed", "answer"}
BY Places DEF OrgUsersUpdate, Ascends, StepsOf, StepName, WriteStep

LEMMA OrgUsersDeleteSteps ==
    /\ OrgUsersDelete \in Seq(StepName) /\ OrgUsersDelete # <<>> /\ Ascends(OrgUsersDelete)
    /\ StepsOf(OrgUsersDelete) = {"ancestors", "get", "scope", "delete", "changed", "answer"}
BY Places DEF OrgUsersDelete, Ascends, StepsOf, StepName, WriteStep

LEMMA OrgUsersPatchSteps ==
    /\ OrgUsersPatch \in Seq(StepName) /\ OrgUsersPatch # <<>> /\ Ascends(OrgUsersPatch)
    /\ StepsOf(OrgUsersPatch) = {"ancestors", "get", "scope", "body", "merge", "replace", "changed", "answer"}
BY Places DEF OrgUsersPatch, Ascends, StepsOf, StepName, WriteStep

LEMMA OrgUsersListSteps ==
    /\ OrgUsersList \in Seq(StepName) /\ OrgUsersList # <<>> /\ Ascends(OrgUsersList)
    /\ StepsOf(OrgUsersList) = {"ancestors", "count", "find", "answer"}
BY Places DEF OrgUsersList, Ascends, StepsOf, StepName, WriteStep

LEMMA AllUsersListSteps ==
    /\ AllUsersList \in Seq(StepName) /\ AllUsersList # <<>> /\ Ascends(AllUsersList)
    /\ StepsOf(AllUsersList) = {"count", "find", "answer"}
BY Places DEF AllUsersList, Ascends, StepsOf, StepName, WriteStep

LEMMA OrgSettingsListSteps ==
    /\ OrgSettingsList \in Seq(StepName) /\ OrgSettingsList # <<>> /\ Ascends(OrgSettingsList)
    /\ StepsOf(OrgSettingsList) = {"ancestors", "count", "find", "answer"}
BY Places DEF OrgSettingsList, Ascends, StepsOf, StepName, WriteStep

LEMMA OrgSettingsUpsertSteps ==
    /\ OrgSettingsUpsert \in Seq(StepName) /\ OrgSettingsUpsert # <<>> /\ Ascends(OrgSettingsUpsert)
    /\ StepsOf(OrgSettingsUpsert) = {"ancestors", "body", "upsert", "answer"}
BY Places DEF OrgSettingsUpsert, Ascends, StepsOf, StepName, WriteStep

LEMMA UserAuditEventsCreateSteps ==
    /\ UserAuditEventsCreate \in Seq(StepName) /\ UserAuditEventsCreate # <<>> /\ Ascends(UserAuditEventsCreate)
    /\ StepsOf(UserAuditEventsCreate) = {"body", "create", "answer"}
BY Places DEF UserAuditEventsCreate, Ascends, StepsOf, StepName, WriteStep

LEMMA UserAuditEventsListSteps ==
    /\ UserAuditEventsList \in Seq(StepName) /\ UserAuditEventsList # <<>> /\ Ascends(UserAuditEventsList)
    /\ StepsOf(UserAuditEventsList) = {"count", "find", "answer"}
BY Places DEF UserAuditEventsList, Ascends, StepsOf, StepName, WriteStep

LEMMA OrgAuditEventsCreateSteps ==
    /\ OrgAuditEventsCreate \in Seq(StepName) /\ OrgAuditEventsCreate # <<>> /\ Ascends(OrgAuditEventsCreate)
    /\ StepsOf(OrgAuditEventsCreate) = {"body", "create", "answer"}
BY Places DEF OrgAuditEventsCreate, Ascends, StepsOf, StepName, WriteStep

LEMMA OrgAuditEventsListSteps ==
    /\ OrgAuditEventsList \in Seq(StepName) /\ OrgAuditEventsList # <<>> /\ Ascends(OrgAuditEventsList)
    /\ StepsOf(OrgAuditEventsList) = {"count", "find", "answer"}
BY Places DEF OrgAuditEventsList, Ascends, StepsOf, StepName, WriteStep

\* What the handler of an operation is made of.
Course(op) ==
    /\ Handler(op) \in Seq(StepName) /\ Handler(op) # <<>> /\ Ascends(Handler(op))
    /\ "ancestors" \in Steps(op) <=> op \in ScopedOps
    /\ "get" \in Steps(op) <=> op \in ByIdOps \ {"organizations.Delete"}
    /\ "scope" \in Steps(op) <=> op \in UserOps \ {"org-users.Create", "org-users.List"}
    /\ "merge" \in Steps(op) => op = "org-users.Patch"
    /\ "before" \in Steps(op) <=>
          op \in {"organizations.Create", "organizations.Delete", "org-users.Create"}
    /\ "find" \in Steps(op) => op \in ListOps
    /\ "count" \in Steps(op) => op \in ListOps
    /\ "create" \in Steps(op) => op \in {"organizations.Create", "org-users.Create",
          "user-audit-events.Create", "org-audit-events.Create"}
    /\ "replace" \in Steps(op) => op \in {"org-users.Update", "org-users.Patch"}
    /\ "delete" \in Steps(op) => op \in {"organizations.Delete", "org-users.Delete"}
    /\ "upsert" \in Steps(op) => op = "org-settings.Upsert"
    /\ op \in WriteOps => WriteStep \cap Steps(op) # {}
    /\ "changed" \in Steps(op) <=> op \in UserOps \cap WriteOps
    /\ "after" \in Steps(op) <=> op = "org-users.Create"

LEMMA HandlerCourse == ASSUME NEW op \in Operation PROVE Course(op)
<1>1. CASE op = "organizations.Create"
    <2>1. Handler(op) = OrganizationsCreate /\ op # ""
        BY <1>1 DEF Handler
    <2>2. Steps(op) = StepsOf(OrganizationsCreate)
        BY <2>1 DEF Steps
    <2>3. QED
        BY <1>1, <2>1, <2>2, OrganizationsCreateSteps, SMTT(20)
        DEF Course, ScopedOps, UserOps, ListOps, ByIdOps, WriteOps, Operation, WriteStep
<1>2. CASE op = "organizations.Read"
    <2>1. Handler(op) = OrganizationsRead /\ op # ""
        BY <1>2 DEF Handler
    <2>2. Steps(op) = StepsOf(OrganizationsRead)
        BY <2>1 DEF Steps
    <2>3. QED
        BY <1>2, <2>1, <2>2, OrganizationsReadSteps
        DEF Course, ScopedOps, UserOps, ListOps, ByIdOps, WriteOps, Operation, WriteStep
<1>3. CASE op = "organizations.Delete"
    <2>1. Handler(op) = OrganizationsDelete /\ op # ""
        BY <1>3 DEF Handler
    <2>2. Steps(op) = StepsOf(OrganizationsDelete)
        BY <2>1 DEF Steps
    <2>3. QED
        BY <1>3, <2>1, <2>2, OrganizationsDeleteSteps
        DEF Course, ScopedOps, UserOps, ListOps, ByIdOps, WriteOps, Operation, WriteStep
<1>4. CASE op = "organizations.List"
    <2>1. Handler(op) = OrganizationsList /\ op # ""
        BY <1>4 DEF Handler
    <2>2. Steps(op) = StepsOf(OrganizationsList)
        BY <2>1 DEF Steps
    <2>3. QED
        BY <1>4, <2>1, <2>2, OrganizationsListSteps
        DEF Course, ScopedOps, UserOps, ListOps, ByIdOps, WriteOps, Operation, WriteStep
<1>5. CASE op = "org-users.Create"
    <2>1. Handler(op) = OrgUsersCreate /\ op # ""
        BY <1>5 DEF Handler
    <2>2. Steps(op) = StepsOf(OrgUsersCreate)
        BY <2>1 DEF Steps
    <2>3. QED
        BY <1>5, <2>1, <2>2, OrgUsersCreateSteps
        DEF Course, ScopedOps, UserOps, ListOps, ByIdOps, WriteOps, Operation, WriteStep
<1>6. CASE op = "org-users.Read"
    <2>1. Handler(op) = OrgUsersRead /\ op # ""
        BY <1>6 DEF Handler
    <2>2. Steps(op) = StepsOf(OrgUsersRead)
        BY <2>1 DEF Steps
    <2>3. QED
        BY <1>6, <2>1, <2>2, OrgUsersReadSteps
        DEF Course, ScopedOps, UserOps, ListOps, ByIdOps, WriteOps, Operation, WriteStep
<1>7. CASE op = "org-users.Update"
    <2>1. Handler(op) = OrgUsersUpdate /\ op # ""
        BY <1>7 DEF Handler
    <2>2. Steps(op) = StepsOf(OrgUsersUpdate)
        BY <2>1 DEF Steps
    <2>3. /\ op \in UserOps \cap WriteOps /\ op \in ByIdOps \ {"organizations.Delete"}
          /\ op \in ScopedOps /\ op \notin ListOps
        BY <1>7 DEF ScopedOps, UserOps, ListOps, ByIdOps, WriteOps, Operation
    <2>4. "replace" \in WriteStep \cap Steps(op)
        BY <2>2, OrgUsersUpdateSteps DEF WriteStep
    <2>5. QED
        BY <1>7, <2>1, <2>2, <2>3, <2>4, OrgUsersUpdateSteps DEF Course
<1>8. CASE op = "org-users.Delete"
    <2>1. Handler(op) = OrgUsersDelete /\ op # ""
        BY <1>8 DEF Handler
    <2>2. Steps(op) = StepsOf(OrgUsersDelete)
        BY <2>1 DEF Steps
    <2>3. /\ op \in UserOps \cap WriteOps /\ op \in ByIdOps \ {"organizations.Delete"}
          /\ op \in ScopedOps /\ op \notin ListOps
        BY <1>8 DEF ScopedOps, UserOps, ListOps, ByIdOps, WriteOps, Operation
    <2>4. "delete" \in WriteStep \cap Steps(op)
        BY <2>2, OrgUsersDeleteSteps DEF WriteStep
    <2>5. QED
        BY <1>8, <2>1, <2>2, <2>3, <2>4, OrgUsersDeleteSteps DEF Course
<1>9. CASE op = "org-users.Patch"
    <2>1. Handler(op) = OrgUsersPatch /\ op # ""
        BY <1>9 DEF Handler
    <2>2. Steps(op) = StepsOf(OrgUsersPatch)
        BY <2>1 DEF Steps
    <2>3. /\ op \in UserOps \cap WriteOps /\ op \in ByIdOps \ {"organizations.Delete"}
          /\ op \in ScopedOps /\ op \notin ListOps
        BY <1>9 DEF ScopedOps, UserOps, ListOps, ByIdOps, WriteOps, Operation
    <2>4. "replace" \in WriteStep \cap Steps(op)
        BY <2>2, OrgUsersPatchSteps DEF WriteStep
    <2>5. QED
        BY <1>9, <2>1, <2>2, <2>3, <2>4, OrgUsersPatchSteps DEF Course
<1>10. CASE op = "org-users.List"
    <2>1. Handler(op) = OrgUsersList /\ op # ""
        BY <1>10 DEF Handler
    <2>2. Steps(op) = StepsOf(OrgUsersList)
        BY <2>1 DEF Steps
    <2>3. QED
        BY <1>10, <2>1, <2>2, OrgUsersListSteps
        DEF Course, ScopedOps, UserOps, ListOps, ByIdOps, WriteOps, Operation, WriteStep
<1>11. CASE op = "all-users.List"
    <2>1. Handler(op) = AllUsersList /\ op # ""
        BY <1>11 DEF Handler
    <2>2. Steps(op) = StepsOf(AllUsersList)
        BY <2>1 DEF Steps
    <2>3. QED
        BY <1>11, <2>1, <2>2, AllUsersListSteps
        DEF Course, ScopedOps, UserOps, ListOps, ByIdOps, WriteOps, Operation, WriteStep
<1>12. CASE op = "org-settings.List"
    <2>1. Handler(op) = OrgSettingsList /\ op # ""
        BY <1>12 DEF Handler
    <2>2. Steps(op) = StepsOf(OrgSettingsList)
        BY <2>1 DEF Steps
    <2>3. QED
        BY <1>12, <2>1, <2>2, OrgSettingsListSteps
        DEF Course, ScopedOps, UserOps, ListOps, ByIdOps, WriteOps, Operation, WriteStep
<1>13. CASE op = "org-settings.Upsert"
    <2>1. Handler(op) = OrgSettingsUpsert /\ op # ""
        BY <1>13 DEF Handler
    <2>2. Steps(op) = StepsOf(OrgSettingsUpsert)
        BY <2>1 DEF Steps
    <2>3. QED
        BY <1>13, <2>1, <2>2, OrgSettingsUpsertSteps
        DEF Course, ScopedOps, UserOps, ListOps, ByIdOps, WriteOps, Operation, WriteStep
<1>14. CASE op = "user-audit-events.Create"
    <2>1. Handler(op) = UserAuditEventsCreate /\ op # ""
        BY <1>14 DEF Handler
    <2>2. Steps(op) = StepsOf(UserAuditEventsCreate)
        BY <2>1 DEF Steps
    <2>3. QED
        BY <1>14, <2>1, <2>2, UserAuditEventsCreateSteps
        DEF Course, ScopedOps, UserOps, ListOps, ByIdOps, WriteOps, Operation, WriteStep
<1>15. CASE op = "user-audit-events.List"
    <2>1. Handler(op) = UserAuditEventsList /\ op # ""
        BY <1>15 DEF Handler
    <2>2. Steps(op) = StepsOf(UserAuditEventsList)
        BY <2>1 DEF Steps
    <2>3. QED
        BY <1>15, <2>1, <2>2, UserAuditEventsListSteps
        DEF Course, ScopedOps, UserOps, ListOps, ByIdOps, WriteOps, Operation, WriteStep
<1>16. CASE op = "org-audit-events.Create"
    <2>1. Handler(op) = OrgAuditEventsCreate /\ op # ""
        BY <1>16 DEF Handler
    <2>2. Steps(op) = StepsOf(OrgAuditEventsCreate)
        BY <2>1 DEF Steps
    <2>3. QED
        BY <1>16, <2>1, <2>2, OrgAuditEventsCreateSteps
        DEF Course, ScopedOps, UserOps, ListOps, ByIdOps, WriteOps, Operation, WriteStep
<1>17. CASE op = "org-audit-events.List"
    <2>1. Handler(op) = OrgAuditEventsList /\ op # ""
        BY <1>17 DEF Handler
    <2>2. Steps(op) = StepsOf(OrgAuditEventsList)
        BY <2>1 DEF Steps
    <2>3. QED
        BY <1>17, <2>1, <2>2, OrgAuditEventsListSteps
        DEF Course, ScopedOps, UserOps, ListOps, ByIdOps, WriteOps, Operation, WriteStep
<1>18. QED BY <1>1, <1>2, <1>3, <1>4, <1>5, <1>6, <1>7, <1>8, <1>9, <1>10, <1>11, <1>12, <1>13,
       <1>14, <1>15, <1>16, <1>17 DEF Operation
-----------------------------------------------------------------------------
(***************************************************************************)
(* Pages of a list, and new rows.                                          *)
(***************************************************************************)

\* The page and its size are in range.
LEMMA PageInRange ==
    ASSUME Bounds, NEW page \in Int, NEW size \in Int
    PROVE  PageOf(page) \in Nat /\ PageOf(page) >= 1 /\ SizeOf(size) \in 1 .. MaxSize
BY DEF Bounds, PageOf, SizeOf

\* A window is a part of the list, in its order.
LEMMA WindowPart ==
    ASSUME NEW S, NEW s \in Seq(S), NEW page \in Nat, page >= 1, NEW size \in Nat, size >= 1
    PROVE  /\ Window(s, page, size) \in Seq(S) /\ Len(Window(s, page, size)) <= size
           /\ \E m \in Nat : \A k \in 1 .. Len(Window(s, page, size)) :
                 k + m \in 1 .. Len(s) /\ Window(s, page, size)[k] = s[k + m]
<1> DEFINE m == (page - 1) * size
           first == m + 1
           last == IF Len(s) < first + size - 1 THEN Len(s) ELSE first + size - 1
           w == SubSeq(s, first, last)
<1>1. m \in Nat
    <2>1. page - 1 \in Nat
        OBVIOUS
    <2>2. \A a, b \in Nat : a * b \in Nat
        OBVIOUS
    <2>3. QED BY <2>1, <2>2
<1>2. Window(s, page, size) = w
    BY DEF Window
<1> HIDE DEF m
<1>3. /\ first \in Int /\ last \in Int /\ first >= 1 /\ last <= Len(s) /\ last <= first + size - 1
      /\ Len(s) \in Nat
    BY <1>1
<1> HIDE DEF first, last
<1>4. \A k \in first .. last : s[k] \in S
    BY <1>3
<1>5. /\ w \in Seq(S) /\ Len(w) = IF first <= last THEN last - first + 1 ELSE 0
      /\ \A k \in 1 .. last - first + 1 : w[k] = s[first + k - 1]
    BY <1>3, <1>4, SubSeqProperties
<1> HIDE DEF w
<1>6. Len(w) <= size
    BY <1>3, <1>5
<1>7. \A k \in 1 .. Len(w) : k + m \in 1 .. Len(s) /\ w[k] = s[k + m]
    <2> TAKE k \in 1 .. Len(w)
    <2>1. k \in Int /\ k >= 1 /\ k <= last - first + 1 /\ first = m + 1
        BY <1>3, <1>5 DEF first
    <2>2. k + m = first + k - 1 /\ k + m \in 1 .. Len(s)
        BY <1>1, <1>3, <2>1
    <2>3. k \in 1 .. last - first + 1
        BY <1>3, <2>1
    <2>4. QED BY <1>5, <2>2, <2>3
<1>8. QED BY <1>1, <1>2, <1>5, <1>6, <1>7

\* A page of a set of rows has no more than MaxSize of them, each once and in order.
LEMMA PageOfRows ==
    ASSUME Bounds, NEW S \in SUBSET Id, NEW order, NEW page \in Int, NEW size \in Int, NEW w,
           w = Window(Ordered(S, order), PageOf(page), SizeOf(size))
    PROVE  /\ w \in Seq(S) /\ w \in Seq(Id) /\ Len(w) <= MaxSize
           /\ \A k \in 1 .. Len(w) - 1 : InOrder(order, w[k], w[k + 1])
<1> DEFINE s == Ordered(S, order)
<1>1. /\ s \in Seq(S) /\ Len(s) = Cardinality(S)
      /\ \A k, l \in 1 .. Len(s) : k < l => InOrder(order, s[k], s[l])
    BY OrderedRows DEF Bounds, Id
<1>2. /\ PageOf(page) \in Nat /\ PageOf(page) >= 1 /\ SizeOf(size) \in Nat /\ SizeOf(size) >= 1
      /\ SizeOf(size) <= MaxSize /\ MaxSize \in Nat
    BY PageInRange DEF Bounds
<1>8. w = Window(s, PageOf(page), SizeOf(size))
    OBVIOUS
<1> HIDE DEF s
<1>3. /\ w \in Seq(S) /\ Len(w) <= SizeOf(size)
      /\ \E m \in Nat : \A k \in 1 .. Len(w) : k + m \in 1 .. Len(s) /\ w[k] = s[k + m]
    <2>1. PICK p \in Nat : p = PageOf(page) /\ p >= 1
        BY <1>2
    <2>2. PICK z \in Nat : z = SizeOf(size) /\ z >= 1
        BY <1>2
    <2>3. w = Window(s, p, z)
        BY <1>8, <2>1, <2>2
    <2>4. /\ Window(s, p, z) \in Seq(S) /\ Len(Window(s, p, z)) <= z
          /\ \E m \in Nat : \A k \in 1 .. Len(Window(s, p, z)) :
                k + m \in 1 .. Len(s) /\ Window(s, p, z)[k] = s[k + m]
        <3>1. s \in Seq(S) /\ p >= 1 /\ z >= 1
            BY <1>1, <2>1, <2>2
        <3>2. QED BY ONLY <3>1, WindowPart, p \in Nat, z \in Nat, Zenon
    <2>5. QED BY <2>2, <2>3, <2>4
<1>4. PICK m \in Nat : \A k \in 1 .. Len(w) : k + m \in 1 .. Len(s) /\ w[k] = s[k + m]
    BY <1>3
<1>5. ASSUME NEW k \in 1 .. Len(w) - 1 PROVE InOrder(order, w[k], w[k + 1])
    <2>1. k \in 1 .. Len(w) /\ k + 1 \in 1 .. Len(w) /\ k + m < (k + 1) + m /\ Len(w) \in Nat
        BY <1>3
    <2>2. QED BY <1>1, <1>4, <2>1
<1>6. Len(w) <= MaxSize /\ w \in Seq(Id)
    BY <1>2, <1>3
<1>7. QED BY <1>3, <1>5, <1>6

\* There is a least id that no row has.
LEMMA NewIdIsFree ==
    ASSUME Bounds, Used # Id
    PROVE  NewId \in Id /\ NewId \notin Used
<1> DEFINE S == Id \ Used
<1>1. S \in SUBSET (1 .. MaxId) /\ S # {} /\ MaxId \in Nat
    BY DEF Bounds, Id, Used
<1> HIDE DEF S
<1>2. 1 \in 1 .. Cardinality(S)
    <2>1. IsFiniteSet(S) /\ Cardinality(S) \in Nat
        BY <1>1, FiniteRows
    <2>2. Cardinality(S) # 0
        BY <1>1, <2>1, FS_EmptySet
    <2>3. QED BY <2>1, <2>2
<1>3. PICK i \in S : Cardinality(UpTo(S, "asc", i)) = 1
    BY <1>1, <1>2, Ranked
<1>4. IsFiniteSet(UpTo(S, "asc", i)) /\ i \in UpTo(S, "asc", i)
    <2>1. UpTo(S, "asc", i) \in SUBSET (1 .. MaxId) /\ i \in UpTo(S, "asc", i)
        BY <1>1 DEF UpTo
    <2>2. QED BY <1>1, <2>1, FiniteRows
<1>5. PICK x : UpTo(S, "asc", i) = {x}
    BY <1>3, <1>4, FS_Singleton
<1>6. ASSUME NEW j \in S PROVE i <= j
    <2>1. j \in UpTo(S, "asc", i) => j = i
        BY <1>4, <1>5
    <2>2. InOrder("asc", j, i) <=> j < i
        BY DEF InOrder
    <2>3. j < i => j \in UpTo(S, "asc", i)
        BY <1>6, <2>2, Zenon DEF UpTo
    <2>4. QED BY <1>1, <2>1, <2>3
<1>7. \E n \in Id : n \notin Used /\ \A j \in Id \ Used : n <= j
    BY <1>6 DEF S
<1>8. QED BY <1>7 DEF NewId
-----------------------------------------------------------------------------
(***************************************************************************)
(* Steps of one request.                                                   *)
(***************************************************************************)

\* A request y that agrees with x but for the fields F.
Same(x, y, F) == DOMAIN x = Field /\ DOMAIN y = Field /\ \A f \in Field \ F : y[f] = x[f]

LEMMA SameFields ==
    ASSUME NEW x, NEW y, NEW F, Same(x, y, F)
    PROVE  /\ DOMAIN x = Field /\ DOMAIN y = Field
           /\ ("op" \in F \/ y.op = x.op) /\ ("todo" \in F \/ y.todo = x.todo)
           /\ ("org" \in F \/ y.org = x.org) /\ ("id" \in F \/ y.id = x.id)
           /\ ("name" \in F \/ y.name = x.name) /\ ("body" \in F \/ y.body = x.body)
           /\ ("page" \in F \/ y.page = x.page) /\ ("size" \in F \/ y.size = x.size)
           /\ ("order" \in F \/ y.order = x.order) /\ ("held" \in F \/ y.held = x.held)
           /\ ("verdicts" \in F \/ y.verdicts = x.verdicts)
           /\ ("pending" \in F \/ y.pending = x.pending) /\ ("failed" \in F \/ y.failed = x.failed)
           /\ ("told" \in F \/ y.told = x.told) /\ ("wrote" \in F \/ y.wrote = x.wrote)
           /\ ("refused" \in F \/ y.refused = x.refused) /\ ("items" \in F \/ y.items = x.items)
           /\ ("answer" \in F \/ y.answer = x.answer)
BY DEF Same, Field

\* What the invariant says of one request.
Sound(x) ==
    /\ IsRequest(x) /\ OnCourse(x) /\ Accounted(x) /\ Accepted(x)
    /\ x.op \in ListOps => IsPage(x)

\* A request at a step of its handler.
LEMMA AtStep ==
    ASSUME NEW x, Sound(x), NEW h, NextIs(x, h)
    PROVE  /\ x.op \in Operation /\ Course(x.op) /\ h \in StepName /\ h \in Steps(x.op)
           /\ x.answer = None /\ x.todo # <<>>
           /\ Tail(x.todo) \in Seq(StepName) /\ Ascends(Tail(x.todo))
           /\ StepsOf(x.todo) = {h} \cup StepsOf(Tail(x.todo))
           /\ StepsOf(Tail(x.todo)) \subseteq Steps(x.op)
           /\ \A s \in StepsOf(Tail(x.todo)) : Place(h) < Place(s)
           /\ x.wrote => Place("create") < Place(h)
           /\ h \notin {"changed", "after"} => x.pending = {} /\ ~x.failed
<1>1. /\ x.todo \in Seq(StepName) /\ x.todo # <<>> /\ Ascends(x.todo) /\ Head(x.todo) = h
    BY DEF Sound, IsRequest, OnCourse, Ascends, NextIs
<1>2. /\ Head(x.todo) \in StepName /\ Tail(x.todo) \in Seq(StepName) /\ Ascends(Tail(x.todo))
      /\ StepsOf(x.todo) = {Head(x.todo)} \cup StepsOf(Tail(x.todo))
      /\ \A s \in StepsOf(Tail(x.todo)) : Place(Head(x.todo)) < Place(s)
    BY <1>1, TailOf
<1>3. StepsOf(x.todo) \subseteq Steps(x.op) /\ x.answer = None
    BY <1>1 DEF Sound, OnCourse
<1>4. x.op # ""
    BY <1>2, <1>3 DEF Steps
<1>5. x.op \in Operation /\ Course(x.op)
    BY <1>4, HandlerCourse DEF Sound, IsRequest
<1>6. x.wrote => Place("create") < Place(h)
    <2>1. \A a, b : Place(a) > Place(b) <=> Place(b) < Place(a)
        OBVIOUS
    <2>2. QED BY <1>1, <1>2, <2>1 DEF Sound, Accounted
<1>7. h \notin {"changed", "after"} => x.pending = {} /\ ~x.failed
    BY <1>1, <1>3 DEF Sound, Accounted, NextIs, None
<1>8. QED BY <1>1, <1>2, <1>3, <1>5, <1>6, <1>7

\* A request is answered with an error.
EndFields == {"todo", "answer", "wrote", "verdicts", "items", "refused"}

Fails(x, y) ==
    /\ Same(x, y, EndFields) /\ x.pending = {}
    /\ y.todo = <<>> /\ y.answer \in {400, 403, 404, 409, 500} /\ (x.failed => y.answer = 500)
    /\ y.wrote \in BOOLEAN /\ (x.wrote => y.wrote) /\ y.verdicts \in Seq(Verdict)
    /\ y.wrote => /\ y.answer = 500 /\ y.verdicts = x.verdicts
                  /\ "before" \notin StepsOf(x.todo)
    /\ y.items = <<>> \/ (y.items = x.items /\ "scope" \notin StepsOf(x.todo))

LEMMA Ends ==
    ASSUME Bounds, NEW x, Sound(x), NEW h, NextIs(x, h), NEW y, Fails(x, y)
    PROVE  Sound(y)
<1>1. /\ DOMAIN y = Field /\ y.op = x.op /\ y.org = x.org /\ y.id = x.id /\ y.name = x.name
      /\ y.body = x.body /\ y.page = x.page /\ y.size = x.size /\ y.order = x.order
      /\ y.held = x.held /\ y.pending = x.pending /\ y.failed = x.failed /\ y.told = x.told
    BY SameFields DEF EndFields, Fails
<1>0. /\ y.todo = <<>> /\ y.answer \in {400, 403, 404, 409, 500} /\ (x.failed => y.answer = 500)
      /\ y.wrote \in BOOLEAN /\ (x.wrote => y.wrote) /\ y.verdicts \in Seq(Verdict)
      /\ y.wrote => y.answer = 500 /\ y.verdicts = x.verdicts /\ "before" \notin StepsOf(x.todo)
      /\ y.items = x.items \/ y.items = <<>>
      /\ x.pending = {}
    BY DEF Fails
<1>2. StepsOf(y.todo) = {}
    BY <1>0 DEF StepsOf
<1>3. IsRequest(y)
    <2>1. y.todo \in Seq(StepName) /\ y.answer \in Code /\ y.verdicts \in Seq(Verdict)
          /\ y.wrote \in BOOLEAN
        BY <1>0, EmptySeq DEF Code
    <2>2. y.items \in Seq(Id)
        <3>1. x.items \in Seq(Id)
            BY Zenon DEF Sound, IsRequest
        <3>2. CASE y.items = x.items
            BY ONLY <3>1, <3>2
        <3>3. CASE y.items = <<>>
            BY ONLY <3>3, EmptySeq, Zenon
        <3>4. QED BY <1>0, <3>2, <3>3, ZenonT(60)
    <2>3. /\ x.op \in Operation \cup {""} /\ x.name \in RowName /\ x.body \in 0 .. 1
          /\ x.page \in Int /\ x.size \in Int /\ x.held \in Row /\ x.failed \in BOOLEAN
          /\ (x.org = None \/ x.op \in ScopedOps)
        BY Zenon DEF Sound, IsRequest
    <2>4. QED BY ONLY <1>1, <2>1, <2>2, <2>3 DEF IsRequest
<1>4. OnCourse(y)
    BY <1>0, <1>2 DEF OnCourse
<1>5. Accounted(y)
    <2>1. y.wrote => y.answer \notin {400, 403, 404, 409} /\ StepsOf(y.todo) = {}
        BY <1>0, <1>2
    <2>2. y.answer \notin {None, 200, 201, 204}
        BY <1>0 DEF None
    <2>3. y.pending = {} /\ (y.failed => y.answer = 500)
        BY <1>0, <1>1
    <2>4. QED BY <2>1, <2>2, <2>3 DEF Accounted
<1>6. Accepted(y)
    BY <1>0, <1>1, <1>2, AtStep DEF Sound, Accepted, Halted
<1>7. y.op \in ListOps => IsPage(y)
    <2>1. CASE y.items = x.items
        BY <1>1, <2>1 DEF Sound, IsPage
    <2>2. CASE y.items = <<>>
        BY <2>2 DEF IsPage, Bounds
    <2>3. QED BY <1>0, <2>1, <2>2
<1>8. QED BY <1>3, <1>4, <1>5, <1>6, <1>7 DEF Sound

\* The places of the steps, in numbers.
LEMMA PlaceTypes ==
    /\ \A s \in StepName : Place(s) \in 1 .. 12
    /\ \A s \in WriteStep : Place(s) = 9 /\ s \in StepName
<1>1. \A s \in WriteStep : Place(s) = 9 /\ s \in StepName
    BY Places DEF WriteStep, StepName
<1>2. \A s \in StepName : Place(s) \in 1 .. 12
    BY <1>1, Places DEF StepName
<1>3. QED BY <1>1, <1>2

\* A request goes on to the next step, or ends with success.
Proceeds(x, h, y) ==
    /\ x.pending = {} /\ ~x.failed /\ y.todo = Tail(x.todo)
    /\ y.wrote \in BOOLEAN
    /\ IF h = "answer" THEN y.answer \in {200, 201, 204} ELSE y.answer = None
    /\ IF h \in WriteStep THEN y.wrote = TRUE ELSE y.wrote = x.wrote
    /\ h = "changed" => OnEntityChanged \subseteq x.told
    /\ h = "after" => AfterCreate \subseteq x.told

LEMMA GoesOn ==
    ASSUME NEW x, Sound(x), NEW h, NextIs(x, h), NEW y, Proceeds(x, h, y),
           y.op = x.op, y.told = x.told, y.pending = {}, y.failed = FALSE
    PROVE  /\ OnCourse(y) /\ Accounted(y)
           /\ h # "before" /\ y.verdicts = x.verdicts => Accepted(y)
<1> DEFINE left == StepsOf(Tail(x.todo))
<1>0. /\ y.todo = Tail(x.todo)
      /\ (h = "answer" => y.answer \in {200, 201, 204}) /\ (h # "answer" => y.answer = None)
      /\ (h \in WriteStep => y.wrote) /\ (h \notin WriteStep => y.wrote = x.wrote)
      /\ h = "changed" => OnEntityChanged \subseteq x.told
      /\ h = "after" => AfterCreate \subseteq x.told
    BY DEF Proceeds
<1>1. /\ x.op \in Operation /\ Course(x.op) /\ h \in StepName /\ h \in Steps(x.op)
      /\ x.answer = None /\ x.todo # <<>>
      /\ Tail(x.todo) \in Seq(StepName) /\ Ascends(Tail(x.todo))
      /\ StepsOf(x.todo) = {h} \cup left
      /\ left \subseteq Steps(x.op)
      /\ \A s \in left : Place(h) < Place(s)
      /\ x.wrote => Place("create") < Place(h)
    BY AtStep
<1>2. StepsOf(y.todo) = left
    BY <1>0
<1> HIDE DEF left
<1>3. left \subseteq StepName
    BY <1>1 DEF left, StepsOf
<1>4. h = "answer" => y.todo = <<>>
    <2>1. h = "answer" => left = {}
        BY <1>1, <1>3, Places, PlaceTypes
    <2>2. left = {} => Len(Tail(x.todo)) = 0
        <3>1. Len(Tail(x.todo)) \in Nat /\ DOMAIN Tail(x.todo) = 1 .. Len(Tail(x.todo))
            BY <1>1
        <3>2. Len(Tail(x.todo)) # 0 => Tail(x.todo)[1] \in left
            <4>1. \A n \in Nat : n # 0 => 1 \in 1 .. n
                OBVIOUS
            <4>2. Len(Tail(x.todo)) # 0 => 1 \in DOMAIN Tail(x.todo)
                BY <3>1, <4>1, Zenon
            <4>3. QED BY <4>2, Zenon DEF left, StepsOf
        <3>3. QED BY <3>2
    <2>3. h = "answer" => Tail(x.todo) = <<>>
        BY <1>1, <2>1, <2>2, EmptySeq
    <2>4. QED BY ONLY <1>0, <2>3, Zenon
<1>5. OnCourse(y)
    <2>1. y.answer # None => h = "answer"
        BY <1>0
    <2>2. \A k, l \in DOMAIN y.todo : k < l => Place(y.todo[k]) < Place(y.todo[l])
        BY <1>0, <1>1 DEF Ascends
    <2>3. ASSUME NEW s \in Steps(x.op) \ left, NEW u \in left PROVE Place(s) < Place(u)
        <3>1. CASE s = h
            BY <1>1, <2>3, <3>1
        <3>2. CASE s # h
            <4>1. s \in Steps(x.op) \ StepsOf(x.todo) /\ u \in StepsOf(x.todo)
                BY <1>1, <2>3, <3>2
            <4>2. QED BY <4>1 DEF Sound, OnCourse
        <3>3. QED BY <3>1, <3>2
    <2>4. QED BY <1>1, <1>2, <1>4, <2>1, <2>2, <2>3, Zenon DEF OnCourse
<1>6. y.wrote => y.answer \notin {400, 403, 404, 409} /\ \A s \in left : Place(s) > Place("create")
    <2>1. y.answer \notin {400, 403, 404, 409}
        BY <1>0 DEF None
    <2>2. y.wrote => x.wrote \/ h \in WriteStep
        BY <1>0
    <2>3. ASSUME x.wrote \/ h \in WriteStep, NEW s \in left PROVE Place(s) > Place("create")
        BY <1>1, <1>3, <2>3, Places, PlaceTypes
    <2>4. QED BY <2>1, <2>2, <2>3
<1>7. ~Halted(x) /\ x.answer \in {None, 200, 201, 204}
    BY <1>1 DEF Sound, Accepted
<1>8. /\ WriteStep \cap Steps(y.op) \subseteq left \/ y.wrote
      /\ "changed" \in Steps(y.op) \ left => OnEntityChanged \subseteq y.told
      /\ "after" \in Steps(y.op) \ left => AfterCreate \subseteq y.told
    <2>1. /\ WriteStep \cap Steps(x.op) \subseteq StepsOf(x.todo) \/ x.wrote
          /\ "changed" \in Steps(x.op) \ StepsOf(x.todo) => OnEntityChanged \subseteq x.told
          /\ "after" \in Steps(x.op) \ StepsOf(x.todo) => AfterCreate \subseteq x.told
        BY <1>7 DEF Sound, Accounted
    <2>2. WriteStep \cap Steps(y.op) \subseteq left \/ y.wrote
        BY <1>0, <1>1, <2>1
    <2>3. /\ "changed" \in Steps(y.op) \ left => OnEntityChanged \subseteq y.told
          /\ "after" \in Steps(y.op) \ left => AfterCreate \subseteq y.told
        BY <1>0, <1>1, <2>1
    <2>4. QED BY <2>2, <2>3
<1>9. Accounted(y)
    BY <1>0, <1>2, <1>6, <1>8 DEF Accounted
<1>10. ASSUME h # "before", y.verdicts = x.verdicts PROVE Accepted(y)
    <2>1. "before" \in StepsOf(y.todo) <=> "before" \in StepsOf(x.todo)
        BY <1>1, <1>2, <1>10
    <2>2. QED BY <1>0, <1>1, <1>10, <2>1 DEF Sound, Accepted, Halted
<1>11. QED BY <1>5, <1>9, <1>10

\* The rows that a step may not change: kinds, organizations, and all names but those
\* of users.
Kept(t, u) ==
    \A i \in Id : t[i].kind # "none" =>
        u[i].kind = t[i].kind /\ u[i].org = t[i].org /\ (t[i].kind # "User" => u[i].name = t[i].name)

\* An operation that has read rows is of a kind of rows.
LEMMA Kinds ==
    ASSUME NEW op
    PROVE  KindOf(op) # "none" /\ (Implicit(op) # "" => KindOf(op) = "AuditEvent")
BY DEF KindOf, Implicit, UserOps

LEMMA GroundedStays ==
    ASSUME NEW t \in [Id -> Row], NEW u, Kept(t, u), NEW x, IsRequest(x), Grounded(t, x)
    PROVE  Grounded(u, x)
<1>1. /\ x.todo # <<>> => "ancestors" \in StepsOf(x.todo) \/ x.org \in Id \cup {None}
      /\ x.items # <<>> => \A s \in StepsOf(x.todo) : Place(s) > Place("get")
    BY DEF Grounded
<1>2. \A k \in DOMAIN x.items : x.items[k] \in Id
    <2>1. x.items \in Seq(Id)
        BY Zenon DEF IsRequest
    <2>2. QED BY <2>1
<1>3. ASSUME NEW k \in DOMAIN x.items
      PROVE  /\ u[x.items[k]].kind = KindOf(x.op)
             /\ Implicit(x.op) # "" => u[x.items[k]].name = Implicit(x.op)
             /\ "scope" \in StepsOf(x.todo) \/ x.org = None \/ u[x.items[k]].org = x.org
    <2>1. PICK i \in Id : i = x.items[k]
        BY <1>2
    <2>2. /\ t[i].kind = KindOf(x.op) /\ (Implicit(x.op) # "" => t[i].name = Implicit(x.op))
          /\ "scope" \in StepsOf(x.todo) \/ x.org = None \/ t[i].org = x.org
        BY <2>1 DEF Grounded
    <2>3. t[i].kind # "none" /\ (Implicit(x.op) # "" => t[i].kind # "User")
        BY <2>2, Kinds
    <2>4. QED BY <2>1, <2>2, <2>3 DEF Kept
<1>4. "scope" \in Steps(x.op) /\ x.todo # <<>> /\ "get" \notin StepsOf(x.todo) =>
          /\ x.id \in Id /\ u[x.id].kind = "User" /\ u[x.id].org = x.held.org
          /\ \A k \in DOMAIN x.items : x.items[k] = x.id
          /\ "scope" \in StepsOf(x.todo) \/ x.held.org = x.org
    BY DEF Grounded, Kept
<1>5. QED BY <1>1, <1>3, <1>4 DEF Grounded

LEMMA GroundedGoesOn ==
    ASSUME NEW t, NEW x, Sound(x), Grounded(t, x), NEW h, NextIs(x, h), h # "get",
           h = "ancestors" => x.org \in Id, h = "scope" => x.held.org = x.org, NEW y,
           y.op = x.op, y.org = x.org, y.todo = Tail(x.todo), y.held = x.held, y.items = x.items,
           y.id = x.id \/ "scope" \notin Steps(x.op)
    PROVE  Grounded(t, y)
<1> DEFINE left == StepsOf(Tail(x.todo))
<1>1. /\ x.todo # <<>> /\ StepsOf(x.todo) = {h} \cup left /\ StepsOf(y.todo) = left
      /\ Course(x.op) /\ h \in Steps(x.op) /\ h \in StepName
      /\ \A s \in left : Place(h) < Place(s)
    BY AtStep
<1>2. left \subseteq StepName
    BY AtStep DEF StepsOf
<1> HIDE DEF left
<1>3. "ancestors" \in left \/ y.org \in Id \cup {None}
    BY <1>1 DEF Grounded
<1>4. y.items # <<>> => \A s \in left : Place(s) > Place("get")
    BY <1>1 DEF Grounded
<1>5. h = "scope" => "get" \notin left /\ "get" \notin StepsOf(x.todo)
    BY <1>1, <1>2, Places, PlaceTypes
<1>6. "scope" \in Steps(x.op) /\ "get" \notin left =>
          /\ x.id \in Id /\ t[x.id].kind = "User" /\ t[x.id].org = x.held.org
          /\ \A k \in DOMAIN x.items : x.items[k] = x.id
          /\ "scope" \in left \/ x.held.org = x.org
    BY <1>1 DEF Grounded
<1>7. ASSUME NEW k \in DOMAIN x.items
      PROVE  /\ t[x.items[k]].kind = KindOf(x.op)
             /\ Implicit(x.op) # "" => t[x.items[k]].name = Implicit(x.op)
             /\ "scope" \in left \/ x.org = None \/ t[x.items[k]].org = x.org
    <2>1. /\ t[x.items[k]].kind = KindOf(x.op)
          /\ Implicit(x.op) # "" => t[x.items[k]].name = Implicit(x.op)
          /\ "scope" \in StepsOf(x.todo) \/ x.org = None \/ t[x.items[k]].org = x.org
        BY DEF Grounded
    <2>2. h = "scope" => t[x.items[k]].org = x.org
        BY <1>1, <1>5, <1>6
    <2>3. QED BY <1>1, <2>1, <2>2
<1>8. QED BY <1>1, <1>3, <1>4, <1>6, <1>7, ZenonT(60) DEF Grounded

\* A request that has ended keeps what it has read in its scope, or drops it.
LEMMA GroundedEnds ==
    ASSUME NEW t, NEW x, Grounded(t, x), NEW y,
           y.op = x.op, y.org = x.org, y.todo = <<>>,
           y.items = <<>> \/ (y.items = x.items /\ "scope" \notin StepsOf(x.todo))
    PROVE  Grounded(t, y)
<1>1. StepsOf(y.todo) = {}
    BY DEF StepsOf
<1>2. CASE y.items = <<>>
    <2>1. DOMAIN y.items = {}
        BY <1>2
    <2>2. QED BY <1>1, <1>2, <2>1, Zenon DEF Grounded
<1>3. CASE y.items = x.items /\ "scope" \notin StepsOf(x.todo)
    BY <1>1, <1>3 DEF Grounded
<1>4. QED BY <1>2, <1>3

-----------------------------------------------------------------------------
(***************************************************************************)
(* Steps of the service.                                                   *)
(***************************************************************************)

\* The invariant, request by request.
LEMMA AtRequest ==
    ASSUME EntityInv, NEW p \in Request
    PROVE  /\ rows \in [Id -> Row] /\ req = [q \in Request |-> req[q]]
           /\ Sound(req[p]) /\ Grounded(rows, req[p])
<1>1. rows \in [Id -> Row] /\ req = [q \in Request |-> req[q]]
    BY DEF EntityInv
<1>2. /\ IsRequest(req[p]) /\ OnCourse(req[p]) /\ Accounted(req[p]) /\ Accepted(req[p])
      /\ Grounded(rows, req[p]) /\ (req[p].op \in ListOps => IsPage(req[p]))
    BY DEF EntityInv
<1>3. QED BY <1>1, <1>2 DEF Sound

LEMMA OneStep ==
    ASSUME EntityInv, NEW p \in Request, NEW y, req' = [req EXCEPT ![p] = y],
           rows' \in [Id -> Row], Kept(rows, rows'), Sound(y), Grounded(rows', y)
    PROVE  EntityInv'
<1>1. /\ rows \in [Id -> Row] /\ req = [q \in Request |-> req[q]]
      /\ req' = [q \in Request |-> req'[q]]
      /\ req'[p] = y /\ \A q \in Request : q # p => req'[q] = req[q]
    BY DEF EntityInv
<1>2. ASSUME NEW q \in Request PROVE Sound(req'[q]) /\ Grounded(rows', req'[q])
    <2>1. CASE q = p
        BY <1>1, <2>1
    <2>2. CASE q # p
        <3>1. Sound(req[q]) /\ IsRequest(req[q]) /\ Grounded(rows, req[q])
            BY AtRequest DEF Sound
        <3>2. Grounded(rows', req[q])
            BY <1>1, <3>1, GroundedStays
        <3>3. QED BY <1>1, <2>2, <3>1, <3>2
    <2>3. QED BY <2>1, <2>2
<1>3. QED BY <1>1, <1>2 DEF EntityInv, Sound

\* A request that writes no row.
LEMMA KeptSame == ASSUME NEW t PROVE Kept(t, t)
BY DEF Kept

\* A request is answered with an error.
LEMMA EndStep ==
    ASSUME Bounds, EntityInv, NEW p \in Request, NEW x, x = req[p],
           NEW h, NextIs(x, h), NEW y, Fails(x, y),
           req' = [req EXCEPT ![p] = y], rows' \in [Id -> Row], Kept(rows, rows')
    PROVE  EntityInv'
<1>2. Sound(x) /\ Grounded(rows, x) /\ rows \in [Id -> Row]
    BY AtRequest
<1>3. Sound(y)
    BY <1>2, Ends
<1>4. y.op = x.op /\ y.org = x.org
    BY SameFields DEF EndFields, Fails
<1>5. Grounded(rows', x)
    BY <1>2, GroundedStays DEF Sound
<1>6. Grounded(rows', y)
    BY <1>4, <1>5, GroundedEnds DEF Fails
<1>7. QED BY <1>3, <1>6, OneStep

\* A step before the fills after the write refuses the request, and changes no row.
LEMMA RefuseStep ==
    ASSUME Bounds, EntityInv, NEW p \in Request, NEW h, At(p, h),
           h \notin {"changed", "after", "scope"},
           NEW code, code \in {400, 403, 404, 409, 500}, Set(p, Answer(p, code)), rows' = rows,
           code # 500 => Place(h) <= Place("create")
    PROVE  EntityInv'
<1>1. PICK x : x = req[p]
    OBVIOUS
<1>2. PICK y : y = [x EXCEPT !.todo = <<>>, !.answer = code]
    OBVIOUS
<1>3. Sound(x) /\ Grounded(rows, x) /\ rows \in [Id -> Row] /\ NextIs(x, h)
    BY <1>1, AtRequest DEF At, NextIs
<1>4. /\ x.pending = {} /\ ~x.failed /\ StepsOf(x.todo) = {h} \cup StepsOf(Tail(x.todo))
      /\ h \in StepName /\ StepsOf(Tail(x.todo)) \subseteq StepName
      /\ \A s \in StepsOf(Tail(x.todo)) : Place(h) < Place(s)
      /\ x.wrote => Place("create") < Place(h)
    <2>1. h \in StepName /\ Tail(x.todo) \in Seq(StepName)
        BY <1>3, AtStep
    <2>2. StepsOf(Tail(x.todo)) \subseteq StepName
        BY <2>1 DEF StepsOf
    <2>3. QED BY <1>3, <2>1, <2>2, AtStep
<1>5. /\ DOMAIN x = Field /\ x.wrote \in BOOLEAN /\ x.verdicts \in Seq(Verdict)
    BY <1>3, ZenonT(60) DEF Sound, IsRequest
<1>6. /\ y.todo = <<>> /\ y.answer = code /\ y.wrote = x.wrote /\ y.verdicts = x.verdicts
      /\ y.items = x.items /\ Same(x, y, EndFields)
    BY <1>2, <1>5, ZenonT(60) DEF Same, Field, EndFields
<1>7. x.wrote => code = 500
    BY <1>4, Places, PlaceTypes
<1>8. y.items = <<>> \/ "scope" \notin StepsOf(x.todo)
    <2>1. x.items # <<>> => \A s \in StepsOf(x.todo) : Place(s) > Place("get")
        BY <1>3 DEF Grounded
    <2>2. Place(h) > Place("get") => "scope" \notin StepsOf(x.todo)
        BY <1>4, Places, PlaceTypes
    <2>3. x.items # <<>> => "scope" \notin StepsOf(x.todo)
        BY <1>4, <2>1, <2>2
    <2>4. QED BY <1>6, <2>3, ZenonT(60)
<1>9. x.wrote => "before" \notin StepsOf(x.todo)
    BY <1>4, Places, PlaceTypes
<1>10. req' = [req EXCEPT ![p] = y]
    BY <1>1, <1>2 DEF Set, Answer
<1>11. rows' \in [Id -> Row] /\ Kept(rows, rows')
    BY <1>3, KeptSame
<1>12. Fails(x, y)
    BY <1>4, <1>5, <1>6, <1>7, <1>8, <1>9 DEF Fails
<1>13. NextIs(x, h)
    BY <1>3
<1>14. QED
    BY ONLY Bounds, EntityInv, p \in Request, <1>1, <1>10, <1>11, <1>12, <1>13, EndStep

\* A request goes on to its next step, or ends with success.
NextFields == {"todo", "answer", "wrote", "id", "name", "total"}

LEMMA NextStep ==
    ASSUME EntityInv, NEW p \in Request, NEW x, x = req[p],
           NEW h, NextIs(x, h), h # "before", h # "get", NEW y, Proceeds(x, h, y),
           Same(x, y, NextFields),
           req' = [req EXCEPT ![p] = y], rows' \in [Id -> Row], Kept(rows, rows'),
           y.name \in RowName, y.id = x.id \/ "scope" \notin Steps(x.op),
           h = "ancestors" => x.org \in Id, h = "scope" => x.held.org = x.org
    PROVE  EntityInv'
<1>2. Sound(x) /\ Grounded(rows, x) /\ rows \in [Id -> Row]
    BY AtRequest
<1>4. /\ DOMAIN y = Field /\ y.op = x.op /\ y.org = x.org /\ y.body = x.body
      /\ y.page = x.page /\ y.size = x.size /\ y.order = x.order /\ y.held = x.held
      /\ y.pending = x.pending /\ y.failed = x.failed /\ y.told = x.told
      /\ y.verdicts = x.verdicts /\ y.items = x.items
    BY SameFields DEF NextFields
<1>3. /\ x.pending = {} /\ ~x.failed /\ y.todo = Tail(x.todo)
      /\ y.wrote \in BOOLEAN /\ y.answer \in {None, 200, 201, 204}
    BY DEF Proceeds
<1>5. IsRequest(y)
    <2>1. /\ x.op \in Operation \cup {""} /\ x.body \in 0 .. 1 /\ x.verdicts \in Seq(Verdict)
          /\ x.page \in Int /\ x.size \in Int /\ x.held \in Row /\ x.failed \in BOOLEAN
          /\ x.items \in Seq(Id) /\ (x.org = None \/ x.op \in ScopedOps)
        BY <1>2, Zenon DEF Sound, IsRequest
    <2>2. y.todo \in Seq(StepName)
        BY <1>2, <1>3, AtStep
    <2>3. y.answer \in Code
        BY <1>3 DEF Code
    <2>4. y.wrote \in BOOLEAN /\ y.name \in RowName
        BY <1>3
    <2>5. QED BY ONLY <1>4, <2>1, <2>2, <2>3, <2>4 DEF IsRequest
<1>6. OnCourse(y) /\ Accounted(y) /\ Accepted(y)
    <2>1. y.pending = {} /\ y.failed = FALSE
        <3>1. x.failed \in BOOLEAN
            BY <1>2, Zenon DEF Sound, IsRequest
        <3>2. QED BY <1>3, <1>4, <3>1
    <2>2. QED BY <1>2, <1>4, <2>1, GoesOn
<1>7. y.op \in ListOps => IsPage(y)
    BY <1>2, <1>4 DEF Sound, IsPage
<1>8. Sound(y)
    BY <1>5, <1>6, <1>7 DEF Sound
<1>9. Grounded(rows', x)
    BY <1>2, GroundedStays DEF Sound
<1>10. Grounded(rows', y)
    BY <1>2, <1>3, <1>4, <1>9, GroundedGoesOn
<1>11. QED BY <1>8, <1>10, OneStep

\* A request at a step: what the lemmas on steps need of it.
LEMMA Facts ==
    ASSUME EntityInv, NEW p \in Request, NEW x, x = req[p], NEW h, NextIs(x, h)
    PROVE  /\ Sound(x) /\ Grounded(rows, x) /\ rows \in [Id -> Row] /\ DOMAIN x = Field
           /\ x.op \in Operation /\ Course(x.op) /\ h \in StepName /\ h \in Steps(x.op)
           /\ x.answer = None /\ x.name \in RowName /\ x.verdicts \in Seq(Verdict)
           /\ x.body \in 0 .. 1 /\ x.page \in Int /\ x.size \in Int /\ x.held \in Row
           /\ x.failed \in BOOLEAN /\ x.wrote \in BOOLEAN
           /\ x.wrote => Place("create") < Place(h)
           /\ h \notin {"changed", "after"} => x.pending = {} /\ ~x.failed
           /\ x.items # <<>> => Place("get") < Place(h)
           /\ Place("scope") < Place(h) => "scope" \notin StepsOf(x.todo)
           /\ Place("before") < Place(h) => "before" \notin StepsOf(x.todo)
<1>1. Sound(x) /\ Grounded(rows, x) /\ rows \in [Id -> Row]
    BY AtRequest
<1>2. /\ x.name \in RowName /\ x.verdicts \in Seq(Verdict) /\ DOMAIN x = Field
      /\ x.body \in 0 .. 1 /\ x.page \in Int /\ x.size \in Int /\ x.held \in Row
      /\ x.failed \in BOOLEAN /\ x.wrote \in BOOLEAN
    BY <1>1, Zenon DEF Sound, IsRequest
<1>4. /\ x.op \in Operation /\ Course(x.op) /\ h \in StepName /\ h \in Steps(x.op)
      /\ x.answer = None /\ (x.wrote => Place("create") < Place(h))
      /\ h \notin {"changed", "after"} => x.pending = {} /\ ~x.failed
    BY <1>1, AtStep
<1>5. /\ StepsOf(x.todo) = {h} \cup StepsOf(Tail(x.todo)) /\ StepsOf(Tail(x.todo)) \subseteq StepName
      /\ \A s \in StepsOf(Tail(x.todo)) : Place(h) < Place(s)
    <2>1. Tail(x.todo) \in Seq(StepName)
        BY <1>1, AtStep
    <2>2. StepsOf(Tail(x.todo)) \subseteq StepName
        BY <2>1 DEF StepsOf
    <2>3. QED BY <1>1, <2>2, AtStep
<1>6. x.items # <<>> => Place("get") < Place(h)
    <2>1. x.items # <<>> => \A s \in StepsOf(x.todo) : Place(s) > Place("get")
        BY <1>1 DEF Grounded
    <2>2. h \in StepsOf(x.todo)
        BY <1>5
    <2>3. Place(h) > Place("get") => Place("get") < Place(h)
        BY <1>4, Places, PlaceTypes
    <2>4. QED BY <2>1, <2>2, <2>3, Zenon
<1>7. /\ Place("scope") < Place(h) => "scope" \notin StepsOf(x.todo)
      /\ Place("before") < Place(h) => "before" \notin StepsOf(x.todo)
    BY <1>4, <1>5, Places, PlaceTypes
<1>8. QED BY <1>1, <1>2, <1>4, <1>6, <1>7

\* No fill runs for a request at any step but those that start fills.
LEMMA Quiet ==
    ASSUME EntityInv, NEW p \in Request, NEW x, x = req[p], NEW h, NextIs(x, h),
           h \notin {"changed", "after"}
    PROVE  DOMAIN x = Field /\ x.pending = {} /\ ~x.failed
BY Facts

\* A step that writes no row lets the request go on.
PassFields == {"todo", "name", "total"}

LEMMA PassStep ==
    ASSUME EntityInv, NEW p \in Request, NEW x, x = req[p], NEW h, NextIs(x, h),
           h \notin WriteStep \cup {"get", "before", "answer"},
           x.pending = {}, ~x.failed,
           h = "changed" => OnEntityChanged \subseteq x.told,
           h = "after" => AfterCreate \subseteq x.told,
           h = "ancestors" => x.org \in Id, h = "scope" => x.held.org = x.org,
           NEW y, Same(x, y, PassFields), y.todo = Tail(x.todo),
           y.name = x.name \/ y.name \in RowName, Set(p, y), rows' = rows
    PROVE  EntityInv'
<1>1. /\ rows \in [Id -> Row] /\ x.name \in RowName /\ x.answer = None
      /\ x.wrote \in BOOLEAN
    BY Facts
<1>2. y.answer = x.answer /\ y.wrote = x.wrote /\ y.id = x.id
    BY SameFields DEF PassFields
<1>3. Proceeds(x, h, y)
    BY <1>1, <1>2 DEF Proceeds
<1>4. Same(x, y, NextFields)
    BY DEF Same, PassFields, NextFields
<1>5. req' = [req EXCEPT ![p] = y] /\ rows' \in [Id -> Row] /\ Kept(rows, rows')
    BY <1>1, KeptSame DEF Set
<1>6. h # "before" /\ h # "get" /\ y.name \in RowName
    BY <1>1
<1>7. QED BY <1>2, <1>3, <1>4, <1>5, <1>6, NextStep

\* A step that writes rows: the request goes on, or is answered with 500.
WriteFields == {"todo", "answer", "wrote", "id"}

LEMMA Writes ==
    ASSUME Bounds, EntityInv, NEW p \in Request, NEW x, x = req[p], NEW h, NextIs(x, h),
           h \in WriteStep, NEW y, Same(x, y, WriteFields), y.wrote = TRUE,
           \/ y.todo = Tail(x.todo) /\ y.answer = x.answer /\ (y.id = x.id \/ h = "create")
           \/ y.todo = <<>> /\ y.answer = 500 /\ y.id = x.id,
           Set(p, y), rows' \in [Id -> Row], Kept(rows, rows')
    PROVE  EntityInv'
<1>1. /\ Sound(x) /\ x.name \in RowName /\ x.answer = None /\ x.pending = {} /\ ~x.failed
      /\ x.wrote \in BOOLEAN
      /\ "scope" \notin StepsOf(x.todo) /\ "before" \notin StepsOf(x.todo)
      /\ x.verdicts \in Seq(Verdict) /\ Course(x.op) /\ h \in Steps(x.op)
    <2>1. Place("scope") < Place(h) /\ Place("before") < Place(h)
        BY Places, PlaceTypes
    <2>2. h \notin {"changed", "after"}
        BY DEF WriteStep
    <2>3. /\ Sound(x) /\ x.name \in RowName /\ x.answer = None
          /\ x.wrote \in BOOLEAN
          /\ x.verdicts \in Seq(Verdict) /\ Course(x.op) /\ h \in Steps(x.op)
        BY ONLY EntityInv, p \in Request, x = req[p], NextIs(x, h), Facts
    <2>4. /\ h \notin {"changed", "after"} => x.pending = {} /\ ~x.failed
          /\ Place("scope") < Place(h) => "scope" \notin StepsOf(x.todo)
          /\ Place("before") < Place(h) => "before" \notin StepsOf(x.todo)
        BY ONLY EntityInv, p \in Request, x = req[p], NextIs(x, h), Facts
    <2>5. QED BY <2>1, <2>2, <2>3, <2>4
<1>2. /\ y.name = x.name /\ y.verdicts = x.verdicts /\ y.items = x.items
    BY SameFields DEF WriteFields
<1>3. req' = [req EXCEPT ![p] = y]
    BY DEF Set
<1>4. CASE y.todo = Tail(x.todo) /\ y.answer = x.answer /\ (y.id = x.id \/ h = "create")
    <2>1. Proceeds(x, h, y)
        BY <1>1, <1>2, <1>4 DEF Proceeds, WriteStep
    <2>2. Same(x, y, NextFields)
        BY DEF Same, WriteFields, NextFields
    <2>3. h = "create" => "scope" \notin Steps(x.op)
        BY <1>1 DEF Course, UserOps
    <2>4. h \notin {"before", "get", "ancestors", "scope"}
        BY DEF WriteStep
    <2>5. QED BY <1>1, <1>2, <1>3, <1>4, <2>1, <2>2, <2>3, <2>4, NextStep
<1>5. CASE y.todo = <<>> /\ y.answer = 500 /\ y.id = x.id
    <2>1. Same(x, y, EndFields)
        BY <1>5 DEF Same, WriteFields, EndFields
    <2>2. Fails(x, y)
        BY <1>1, <1>2, <1>5, <2>1, ZenonT(60) DEF Fails
    <2>3. QED BY <1>3, <2>2, EndStep
<1>6. QED BY <1>4, <1>5

-----------------------------------------------------------------------------
(***************************************************************************)
(* The steps, one by one.                                                  *)
(***************************************************************************)

LEMMA AncestorsStep ==
    ASSUME Bounds, EntityInv, NEW p \in Request, Ancestors(p)
    PROVE  EntityInv'
<1>1. At(p, "ancestors") /\ rows' = rows /\ Place("ancestors") <= Place("create")
    BY Places DEF Ancestors
<1>2. CASE Set(p, Answer(p, 500))
    BY <1>1, <1>2, RefuseStep
<1>3. CASE Set(p, Answer(p, 404))
    BY <1>1, <1>3, RefuseStep
<1>4. CASE Live("Organization", req[p].org) /\ Set(p, Continue(p))
    <2>1. PICK x : x = req[p]
        OBVIOUS
    <2>2. PICK y : y = [x EXCEPT !.todo = Tail(@)]
        OBVIOUS
    <2>3. NextIs(x, "ancestors")
        BY <1>1, <2>1 DEF At, NextIs
    <2>4. DOMAIN x = Field /\ x.pending = {} /\ ~x.failed
        BY <2>1, <2>3, Quiet
    <2>5. Same(x, y, PassFields) /\ y.todo = Tail(x.todo) /\ y.name = x.name
        BY <2>2, <2>4 DEF Same, Field, PassFields
    <2>6. Set(p, y) /\ x.org \in Id
        BY <1>4, <2>1, <2>2 DEF Continue, Live, Used
    <2>7. "ancestors" \notin WriteStep \cup {"get", "before", "answer"}
        BY DEF WriteStep
    <2>8. QED BY <1>1, <2>1, <2>3, <2>4, <2>5, <2>6, <2>7, PassStep
<1>5. QED BY <1>2, <1>3, <1>4 DEF Ancestors

LEMMA BodyStep ==
    ASSUME Bounds, EntityInv, NEW p \in Request, Body(p)
    PROVE  EntityInv'
<1>1. At(p, "body") /\ rows' = rows /\ Place("body") <= Place("create")
    BY Places DEF Body
<1>2. CASE Set(p, Answer(p, 400))
    BY <1>1, <1>2, RefuseStep
<1>3. CASE Set(p, Continue(p))
    <2>1. PICK x : x = req[p]
        OBVIOUS
    <2>2. PICK y : y = [x EXCEPT !.todo = Tail(@)]
        OBVIOUS
    <2>3. NextIs(x, "body")
        BY <1>1, <2>1 DEF At, NextIs
    <2>4. DOMAIN x = Field /\ x.pending = {} /\ ~x.failed
        BY <2>1, <2>3, Quiet
    <2>5. Same(x, y, PassFields) /\ y.todo = Tail(x.todo) /\ y.name = x.name
        BY <2>2, <2>4 DEF Same, Field, PassFields
    <2>6. Set(p, y)
        BY <1>3, <2>1, <2>2 DEF Continue
    <2>7. "body" \notin WriteStep \cup {"get", "before", "answer"}
        BY DEF WriteStep
    <2>8. QED BY <1>1, <2>1, <2>3, <2>4, <2>5, <2>6, <2>7, PassStep
<1>4. QED BY <1>2, <1>3 DEF Body

LEMMA ScopeStep ==
    ASSUME Bounds, EntityInv, NEW p \in Request, Scope(p)
    PROVE  EntityInv'
<1>1. At(p, "scope") /\ rows' = rows
    BY DEF Scope
<1>2. PICK x : x = req[p]
    OBVIOUS
<1>3. NextIs(x, "scope")
    BY <1>1, <1>2 DEF At, NextIs
<1>4. /\ DOMAIN x = Field /\ x.pending = {} /\ ~x.failed /\ ~x.wrote /\ rows \in [Id -> Row]
      /\ x.wrote \in BOOLEAN /\ x.verdicts \in Seq(Verdict)
    <2>1. ~(Place("create") < Place("scope"))
        BY Places
    <2>2. QED BY <1>2, <1>3, <2>1, Facts
<1>5. CASE x.held.org = x.org /\ Set(p, Continue(p))
    <2>2. PICK y : y = [x EXCEPT !.todo = Tail(@)]
        OBVIOUS
    <2>5. Same(x, y, PassFields) /\ y.todo = Tail(x.todo) /\ y.name = x.name
        BY <1>4, <2>2 DEF Same, Field, PassFields
    <2>6. Set(p, y)
        BY <1>2, <1>5, <2>2 DEF Continue
    <2>7. "scope" \notin WriteStep \cup {"get", "before", "answer"}
        BY DEF WriteStep
    <2>8. QED BY <1>1, <1>2, <1>3, <1>4, <1>5, <2>5, <2>6, <2>7, PassStep
<1>6. CASE Set(p, [Answer(p, 404) EXCEPT !.items = <<>>])
    <2>2. PICK y : y = [x EXCEPT !.todo = <<>>, !.answer = 404, !.items = <<>>]
        OBVIOUS
    <2>3. /\ Same(x, y, EndFields) /\ y.todo = <<>> /\ y.answer = 404 /\ y.items = <<>>
          /\ y.wrote = x.wrote /\ y.verdicts = x.verdicts
        BY <1>4, <2>2, ZenonT(60) DEF Same, Field, EndFields
    <2>4. Fails(x, y)
        BY <1>4, <2>3 DEF Fails
    <2>5. req' = [req EXCEPT ![p] = y]
        BY <1>2, <1>6, <2>2 DEF Set, Answer
    <2>6. rows' \in [Id -> Row] /\ Kept(rows, rows')
        BY <1>1, <1>4, KeptSame
    <2>7. QED BY <1>2, <1>3, <2>4, <2>5, <2>6, EndStep
<1>7. QED BY <1>2, <1>5, <1>6 DEF Scope

LEMMA MergeStep ==
    ASSUME Bounds, EntityInv, NEW p \in Request, Merge(p)
    PROVE  EntityInv'
<1>1. At(p, "merge") /\ rows' = rows /\ Set(p, [Continue(p) EXCEPT !.name = req[p].held.name])
    BY DEF Merge
<1>2. PICK x : x = req[p]
    OBVIOUS
<1>3. PICK y : y = [x EXCEPT !.todo = Tail(@), !.name = x.held.name]
    OBVIOUS
<1>4. NextIs(x, "merge")
    BY <1>1, <1>2 DEF At, NextIs
<1>5. DOMAIN x = Field /\ x.pending = {} /\ ~x.failed /\ x.held \in Row
    <2>1. DOMAIN x = Field /\ x.pending = {} /\ ~x.failed
        BY <1>2, <1>4, Quiet
    <2>2. x.held \in Row
        BY <1>2, <1>4, Facts
    <2>3. QED BY <2>1, <2>2
<1>6. Same(x, y, PassFields) /\ y.todo = Tail(x.todo) /\ y.name \in RowName
    BY <1>3, <1>5 DEF Same, Field, PassFields, Row
<1>7. Set(p, y)
    BY <1>1, <1>2, <1>3 DEF Continue, Set
<1>8. "merge" \notin WriteStep \cup {"get", "before", "answer"}
    BY DEF WriteStep
<1>9. QED BY <1>1, <1>2, <1>4, <1>5, <1>6, <1>7, <1>8, PassStep

LEMMA CountStep ==
    ASSUME Bounds, EntityInv, NEW p \in Request, Count(p)
    PROVE  EntityInv'
<1>1. At(p, "count") /\ rows' = rows /\ Place("count") <= Place("create")
    BY Places DEF Count
<1>2. CASE Set(p, Answer(p, 500))
    BY <1>1, <1>2, RefuseStep
<1>3. CASE Set(p, Answer(p, 400))
    BY <1>1, <1>3, RefuseStep
<1>4. CASE Set(p, [Continue(p) EXCEPT !.total = Cardinality(Selected(p))])
    <2>1. PICK x : x = req[p]
        OBVIOUS
    <2>2. PICK y : y = [x EXCEPT !.todo = Tail(@), !.total = Cardinality(Selected(p))]
        OBVIOUS
    <2>3. NextIs(x, "count")
        BY <1>1, <2>1 DEF At, NextIs
    <2>4. DOMAIN x = Field /\ x.pending = {} /\ ~x.failed
        BY <2>1, <2>3, Quiet
    <2>5. Same(x, y, PassFields) /\ y.todo = Tail(x.todo) /\ y.name = x.name
        BY <2>2, <2>4 DEF Same, Field, PassFields
    <2>6. Set(p, y)
        BY <1>4, <2>1, <2>2 DEF Continue
    <2>7. "count" \notin WriteStep \cup {"get", "before", "answer"}
        BY DEF WriteStep
    <2>8. QED BY <1>1, <2>1, <2>3, <2>4, <2>5, <2>6, <2>7, PassStep
<1>5. QED BY <1>2, <1>3, <1>4 DEF Count

\* All fills of a slot have returned.
LEMMA FanOutEndStep ==
    ASSUME Bounds, EntityInv, NEW p \in Request, NEW fills, NEW h, FanOutEnd(p, fills, h),
           (h = "changed" /\ fills = OnEntityChanged) \/ (h = "after" /\ fills = AfterCreate)
    PROVE  EntityInv'
<1>1. At(p, h) /\ rows' = rows /\ req[p].pending = {} /\ fills \subseteq req[p].told
    BY DEF FanOutEnd
<1>2. PICK x : x = req[p]
    OBVIOUS
<1>3. NextIs(x, h)
    BY <1>1, <1>2 DEF At, NextIs
<1>4. /\ DOMAIN x = Field /\ rows \in [Id -> Row] /\ x.verdicts \in Seq(Verdict)
      /\ x.wrote \in BOOLEAN /\ x.pending = {}
      /\ "scope" \notin StepsOf(x.todo) /\ "before" \notin StepsOf(x.todo)
    <2>1. Place("scope") < Place(h) /\ Place("before") < Place(h)
        BY Places
    <2>2. QED BY <1>1, <1>2, <1>3, <2>1, Facts
<1>5. CASE req[p].failed /\ Set(p, Answer(p, 500))
    <2>1. PICK y : y = [x EXCEPT !.todo = <<>>, !.answer = 500]
        OBVIOUS
    <2>2. /\ Same(x, y, EndFields) /\ y.todo = <<>> /\ y.answer = 500 /\ y.items = x.items
          /\ y.wrote = x.wrote /\ y.verdicts = x.verdicts
        BY <1>4, <2>1, ZenonT(60) DEF Same, Field, EndFields
    <2>3. Fails(x, y)
        BY <1>4, <2>2 DEF Fails
    <2>4. req' = [req EXCEPT ![p] = y]
        BY <1>2, <1>5, <2>1 DEF Set, Answer
    <2>5. rows' \in [Id -> Row] /\ Kept(rows, rows')
        BY <1>1, <1>4, KeptSame
    <2>6. QED BY <1>2, <1>3, <2>3, <2>4, <2>5, EndStep
<1>6. CASE ~req[p].failed /\ Set(p, Continue(p))
    <2>1. PICK y : y = [x EXCEPT !.todo = Tail(@)]
        OBVIOUS
    <2>2. Same(x, y, PassFields) /\ y.todo = Tail(x.todo) /\ y.name = x.name
        BY <1>4, <2>1 DEF Same, Field, PassFields
    <2>3. Set(p, y) /\ ~x.failed
        BY <1>2, <1>6, <2>1 DEF Continue
    <2>4. h \notin WriteStep \cup {"get", "before", "answer", "ancestors", "scope"}
        BY DEF WriteStep
    <2>5. /\ h = "changed" => OnEntityChanged \subseteq x.told
          /\ h = "after" => AfterCreate \subseteq x.told
        BY <1>1, <1>2
    <2>6. QED BY <1>1, <1>2, <1>3, <1>4, <2>2, <2>3, <2>4, <2>5, PassStep
<1>7. QED BY <1>5, <1>6 DEF FanOutEnd

LEMMA RespondStep ==
    ASSUME Bounds, EntityInv, NEW p \in Request, Respond(p)
    PROVE  EntityInv'
<1>1. At(p, "answer") /\ rows' = rows /\ Set(p, [Continue(p) EXCEPT !.answer = Success(p)])
    BY DEF Respond
<1>2. PICK x : x = req[p]
    OBVIOUS
<1>3. PICK y : y = [x EXCEPT !.todo = Tail(@), !.answer = Success(p)]
    OBVIOUS
<1>4. NextIs(x, "answer")
    BY <1>1, <1>2 DEF At, NextIs
<1>5. DOMAIN x = Field /\ x.pending = {} /\ ~x.failed
    BY <1>2, <1>4, Quiet
<1>6. x.wrote \in BOOLEAN /\ x.name \in RowName /\ rows \in [Id -> Row]
    BY ONLY EntityInv, p \in Request, <1>2, <1>4, Facts
<1>7. /\ Same(x, y, NextFields) /\ y.todo = Tail(x.todo) /\ y.answer = Success(p)
      /\ y.name = x.name /\ y.wrote = x.wrote /\ y.id = x.id
    BY <1>3, <1>5 DEF Same, Field, NextFields
<1>8. Success(p) \in {200, 201, 204}
    BY DEF Success
<1>9. Proceeds(x, "answer", y)
    BY <1>5, <1>6, <1>7, <1>8 DEF Proceeds, WriteStep
<1>10. req' = [req EXCEPT ![p] = y]
    BY <1>1, <1>2, <1>3 DEF Set, Continue
<1>11. rows' \in [Id -> Row] /\ Kept(rows, rows')
    BY <1>1, <1>6, KeptSame
<1>12. QED BY <1>2, <1>4, <1>6, <1>7, <1>9, <1>10, <1>11, NextStep

\* A new row, of a name, and in an organization or in none.
LEMMA NewRow ==
    ASSUME rows \in [Id -> Row], NEW i, i \in Id, i \notin Used, NEW row, row \in Row,
           rows' = [rows EXCEPT ![i] = row]
    PROVE  rows' \in [Id -> Row] /\ Kept(rows, rows') /\ rows'[i] = row
<1>1. rows' \in [Id -> Row] /\ rows'[i] = row /\ \A j \in Id \ {i} : rows'[j] = rows[j]
    OBVIOUS
<1>2. rows[i].kind = "none"
    BY DEF Used
<1>3. QED BY <1>1, <1>2 DEF Kept

LEMMA CreateStep ==
    ASSUME Bounds, EntityInv, NEW p \in Request, Create(p)
    PROVE  EntityInv'
<1> DEFINE kind == KindOf(req[p].op)
           row == [Absent EXCEPT !.kind = kind, !.live = TRUE, !.name = req[p].name,
                                 !.org = req[p].org, !.body = req[p].body]
<1>1. At(p, "create") /\ Place("create") <= Place("create")
    BY Places DEF Create
<1>2. CASE rows' = rows /\ Set(p, Answer(p, 500))
    BY <1>1, <1>2, RefuseStep
<1>3. CASE rows' = rows /\ Set(p, Answer(p, 409))
    BY <1>1, <1>3, RefuseStep
<1>4. CASE /\ Used # Id /\ rows' = [rows EXCEPT ![NewId] = row]
           /\ \/ Set(p, [Continue(p) EXCEPT !.wrote = TRUE, !.id = NewId])
              \/ Set(p, [Answer(p, 500) EXCEPT !.wrote = TRUE])
    <2>1. PICK x : x = req[p]
        OBVIOUS
    <2>2. NextIs(x, "create")
        BY <1>1, <2>1 DEF At, NextIs
    <2>3. DOMAIN x = Field /\ rows \in [Id -> Row] /\ x.name \in RowName /\ x.body \in 0 .. 1
        BY ONLY EntityInv, p \in Request, <2>1, <2>2, Facts
    <2>4. x.org \in {None} \cup Id
        <3>1. /\ StepsOf(x.todo) = {"create"} \cup StepsOf(Tail(x.todo)) /\ x.todo # <<>>
              /\ \A s \in StepsOf(Tail(x.todo)) : Place("create") < Place(s)
            BY <2>1, <2>2, AtRequest, AtStep
        <3>2. "ancestors" \notin StepsOf(x.todo)
            BY <3>1, Places
        <3>3. Grounded(rows, x)
            BY <2>1, AtRequest
        <3>4. QED BY <3>1, <3>2, <3>3 DEF Grounded
    <2>5. kind \in {"none", "Organization", "User", "OrgSetting", "AuditEvent"}
        BY DEF KindOf
    <2>6. row \in Row
        BY <2>1, <2>3, <2>4, <2>5 DEF Absent, Row
    <2>7. NewId \in Id /\ NewId \notin Used
        BY <1>4, NewIdIsFree
    <2> HIDE DEF row, kind
    <2>8. rows' \in [Id -> Row] /\ Kept(rows, rows')
        BY <1>4, <2>3, <2>6, <2>7, NewRow
    <2>9. "create" \in WriteStep
        BY DEF WriteStep
    <2>10. CASE Set(p, [Continue(p) EXCEPT !.wrote = TRUE, !.id = NewId])
        <3>1. PICK y : y = [x EXCEPT !.todo = Tail(@), !.wrote = TRUE, !.id = NewId]
            OBVIOUS
        <3>2. /\ Same(x, y, WriteFields) /\ y.wrote = TRUE /\ y.todo = Tail(x.todo)
              /\ y.answer = x.answer
            BY <2>3, <3>1 DEF Same, Field, WriteFields
        <3>3. Set(p, y)
            BY <2>1, <2>10, <3>1 DEF Set, Continue
        <3>4. QED BY <2>1, <2>2, <2>8, <2>9, <3>2, <3>3, Writes
    <2>11. CASE Set(p, [Answer(p, 500) EXCEPT !.wrote = TRUE])
        <3>1. PICK y : y = [x EXCEPT !.todo = <<>>, !.answer = 500, !.wrote = TRUE]
            OBVIOUS
        <3>2. /\ Same(x, y, WriteFields) /\ y.wrote = TRUE /\ y.todo = <<>> /\ y.answer = 500
              /\ y.id = x.id
            BY <2>3, <3>1, ZenonT(60) DEF Same, Field, WriteFields
        <3>3. Set(p, y)
            BY <2>1, <2>11, <3>1 DEF Set, Answer
        <3>4. QED BY <2>1, <2>2, <2>8, <2>9, <3>2, <3>3, Writes
    <2>12. QED BY <1>4, <2>10, <2>11
<1>5. QED BY <1>2, <1>3, <1>4, Zenon DEF Create

\* A row is replaced for a request that has read it in its organization.
LEMMA ReplacedRow ==
    ASSUME EntityInv, NEW p \in Request, NEW x, x = req[p], NextIs(x, "replace"),
           Live("User", x.id),
           rows' = [rows EXCEPT ![x.id].name = x.name, ![x.id].body = x.body, ![x.id].org = x.org]
    PROVE  rows' \in [Id -> Row] /\ Kept(rows, rows')
<1>1. /\ Sound(x) /\ Grounded(rows, x) /\ rows \in [Id -> Row] /\ x.name \in RowName
      /\ x.body \in 0 .. 1 /\ Course(x.op) /\ "replace" \in Steps(x.op)
    BY ONLY EntityInv, p \in Request, x = req[p], NextIs(x, "replace"), Facts
<1>2. /\ x.todo # <<>> /\ StepsOf(x.todo) = {"replace"} \cup StepsOf(Tail(x.todo))
      /\ \A s \in StepsOf(Tail(x.todo)) : Place("replace") < Place(s)
    BY <1>1, AtStep
<1>3. "get" \notin StepsOf(x.todo) /\ "scope" \notin StepsOf(x.todo)
    BY <1>2, Places
<1>4. "scope" \in Steps(x.op)
    BY <1>1 DEF Course, UserOps
<1>5. x.id \in Id /\ rows[x.id].kind = "User" /\ rows[x.id].org = x.org
    BY <1>1, <1>2, <1>3, <1>4 DEF Grounded
<1>6. PICK i \in Id : i = x.id
    BY <1>5
<1>7. rows' = [rows EXCEPT ![i] = [rows[i] EXCEPT !.name = x.name, !.body = x.body, !.org = x.org]]
    BY <1>1, <1>6
<1>8. rows[i] \in Row /\ rows[i].kind = "User" /\ rows[i].org = x.org
    BY <1>1, <1>5, <1>6
<1>9. PICK row : row = [rows[i] EXCEPT !.name = x.name, !.body = x.body, !.org = x.org]
    OBVIOUS
<1>10. row \in Row /\ row.kind = "User" /\ row.org = rows[i].org
    BY <1>1, <1>8, <1>9 DEF Row
<1>11. /\ rows' \in [Id -> Row] /\ rows'[i] = row /\ \A j \in Id \ {i} : rows'[j] = rows[j]
    <2>1. rows' = [rows EXCEPT ![i] = row]
        BY ONLY <1>7, <1>9
    <2>2. QED BY ONLY <1>1, <1>10, <2>1, i \in Id
<1>12. QED BY <1>8, <1>10, <1>11 DEF Kept

LEMMA ReplaceStep ==
    ASSUME Bounds, EntityInv, NEW p \in Request, Replace(p)
    PROVE  EntityInv'
<1>1. At(p, "replace") /\ Place("replace") <= Place("create")
    BY Places DEF Replace
<1>2. CASE rows' = rows /\ Set(p, Answer(p, 500))
    BY <1>1, <1>2, RefuseStep
<1>3. CASE rows' = rows /\ Set(p, Answer(p, 404))
    BY <1>1, <1>3, RefuseStep
<1>4. CASE rows' = rows /\ Set(p, Answer(p, 409))
    BY <1>1, <1>4, RefuseStep
<1>5. CASE /\ Live("User", req[p].id)
           /\ rows' = [rows EXCEPT ![req[p].id].name = req[p].name, ![req[p].id].body = req[p].body,
                                   ![req[p].id].org = req[p].org]
           /\ \/ Set(p, [Continue(p) EXCEPT !.wrote = TRUE])
              \/ Set(p, [Answer(p, 500) EXCEPT !.wrote = TRUE])
    <2>1. PICK x : x = req[p]
        OBVIOUS
    <2>2. NextIs(x, "replace")
        BY <1>1, <2>1 DEF At, NextIs
    <2>3. DOMAIN x = Field
        BY <2>1, <2>2, Quiet
    <2>4. rows' \in [Id -> Row] /\ Kept(rows, rows')
        BY <1>5, <2>1, <2>2, ReplacedRow
    <2>5. "replace" \in WriteStep
        BY DEF WriteStep
    <2>6. CASE Set(p, [Continue(p) EXCEPT !.wrote = TRUE])
        <3>1. PICK y : y = [x EXCEPT !.todo = Tail(@), !.wrote = TRUE]
            OBVIOUS
        <3>2. /\ Same(x, y, WriteFields) /\ y.wrote = TRUE /\ y.todo = Tail(x.todo)
              /\ y.answer = x.answer /\ y.id = x.id
            BY <2>3, <3>1 DEF Same, Field, WriteFields
        <3>3. Set(p, y)
            BY <2>1, <2>6, <3>1 DEF Set, Continue
        <3>4. QED BY <2>1, <2>2, <2>4, <2>5, <3>2, <3>3, Writes
    <2>7. CASE Set(p, [Answer(p, 500) EXCEPT !.wrote = TRUE])
        <3>1. PICK y : y = [x EXCEPT !.todo = <<>>, !.answer = 500, !.wrote = TRUE]
            OBVIOUS
        <3>2. /\ Same(x, y, WriteFields) /\ y.wrote = TRUE /\ y.todo = <<>> /\ y.answer = 500
              /\ y.id = x.id
            BY <2>3, <3>1, ZenonT(60) DEF Same, Field, WriteFields
        <3>3. Set(p, y)
            BY <2>1, <2>7, <3>1 DEF Set, Answer
        <3>4. QED BY <2>1, <2>2, <2>4, <2>5, <3>2, <3>3, Writes
    <2>8. QED BY <1>5, <2>6, <2>7
<1>6. QED BY <1>2, <1>3, <1>4, <1>5, Zenon DEF Replace

LEMMA DeleteStep ==
    ASSUME Bounds, EntityInv, NEW p \in Request, Delete(p)
    PROVE  EntityInv'
<1>1. At(p, "delete") /\ Place("delete") <= Place("create")
    BY Places DEF Delete
<1>2. CASE rows' = rows /\ Set(p, Answer(p, 500))
    BY <1>1, <1>2, RefuseStep
<1>3. CASE rows' = rows /\ Set(p, Answer(p, 404))
    BY <1>1, <1>3, RefuseStep
<1>4. CASE /\ Live(KindOf(req[p].op), req[p].id) /\ rows' = [rows EXCEPT ![req[p].id].live = FALSE]
           /\ \/ Set(p, [Continue(p) EXCEPT !.wrote = TRUE])
              \/ Set(p, [Answer(p, 500) EXCEPT !.wrote = TRUE])
    <2>1. PICK x : x = req[p]
        OBVIOUS
    <2>2. NextIs(x, "delete")
        BY <1>1, <2>1 DEF At, NextIs
    <2>3. DOMAIN x = Field
        BY <2>1, <2>2, Quiet
    <2>4. rows' \in [Id -> Row] /\ Kept(rows, rows')
        <3>1. rows \in [Id -> Row]
            BY AtRequest
        <3>2. PICK i \in Id : i = req[p].id
            BY <1>4 DEF Live, Used
        <3>3. rows' = [rows EXCEPT ![i] = [rows[i] EXCEPT !.live = FALSE]]
            BY <1>4, <3>1, <3>2
        <3>4. PICK row : row = [rows[i] EXCEPT !.live = FALSE]
            OBVIOUS
        <3>5. /\ row \in Row /\ row.kind = rows[i].kind /\ row.org = rows[i].org
              /\ row.name = rows[i].name
            <4>1. rows[i] \in Row
                BY <3>1
            <4>2. QED BY ONLY <3>4, <4>1 DEF Row
        <3>6. /\ rows' \in [Id -> Row] /\ rows'[i] = row /\ \A j \in Id \ {i} : rows'[j] = rows[j]
            BY <3>1, <3>3, <3>4, <3>5
        <3>7. QED BY <3>5, <3>6 DEF Kept
    <2>5. "delete" \in WriteStep
        BY DEF WriteStep
    <2>6. CASE Set(p, [Continue(p) EXCEPT !.wrote = TRUE])
        <3>1. PICK y : y = [x EXCEPT !.todo = Tail(@), !.wrote = TRUE]
            OBVIOUS
        <3>2. /\ Same(x, y, WriteFields) /\ y.wrote = TRUE /\ y.todo = Tail(x.todo)
              /\ y.answer = x.answer /\ y.id = x.id
            BY <2>3, <3>1 DEF Same, Field, WriteFields
        <3>3. Set(p, y)
            BY <2>1, <2>6, <3>1 DEF Set, Continue
        <3>4. QED BY <2>1, <2>2, <2>4, <2>5, <3>2, <3>3, Writes
    <2>7. CASE Set(p, [Answer(p, 500) EXCEPT !.wrote = TRUE])
        <3>1. PICK y : y = [x EXCEPT !.todo = <<>>, !.answer = 500, !.wrote = TRUE]
            OBVIOUS
        <3>2. /\ Same(x, y, WriteFields) /\ y.wrote = TRUE /\ y.todo = <<>> /\ y.answer = 500
              /\ y.id = x.id
            BY <2>3, <3>1, ZenonT(60) DEF Same, Field, WriteFields
        <3>3. Set(p, y)
            BY <2>1, <2>7, <3>1 DEF Set, Answer
        <3>4. QED BY <2>1, <2>2, <2>4, <2>5, <3>2, <3>3, Writes
    <2>8. QED BY <1>4, <2>6, <2>7
<1>5. QED BY <1>2, <1>3, <1>4, Zenon DEF Delete

LEMMA AbsentRow == Absent \in Row
<1>1. "" \in RowName
    BY DEF RowName
<1>2. \A e \in RowName, b \in BOOLEAN :
        [kind |-> "none", live |-> b, name |-> e, org |-> None, body |-> 0, gen |-> 0] \in Row
    BY DEF Row
<1>3. QED BY <1>1, <1>2, Zenon DEF Absent

LEMMA UpsertStep ==
    ASSUME Bounds, EntityInv, NEW p \in Request, Upsert(p)
    PROVE  EntityInv'
<1>1. At(p, "upsert") /\ rows' = rows
    BY Zenon DEF Upsert
<1>2. PICK x : x = req[p]
    OBVIOUS
<1>3. NextIs(x, "upsert")
    BY <1>1, <1>2 DEF At, NextIs
<1>4. DOMAIN x = Field /\ x.pending = {} /\ ~x.failed
    BY <1>2, <1>3, Quiet
<1>5. rows \in [Id -> Row] /\ x.wrote \in BOOLEAN /\ x.verdicts \in Seq(Verdict)
    BY ONLY EntityInv, p \in Request, <1>2, <1>3, Facts
<1>6. PICK refused \in BOOLEAN : Set(p, [Answer(p, 500) EXCEPT !.refused = refused])
    BY Zenon DEF Upsert
<1>7. PICK y : y = [x EXCEPT !.todo = <<>>, !.answer = 500, !.refused = refused]
    OBVIOUS
<1>8. /\ Same(x, y, EndFields) /\ y.todo = <<>> /\ y.answer = 500 /\ y.items = x.items
      /\ y.wrote = x.wrote /\ y.verdicts = x.verdicts
    BY <1>4, <1>7, ZenonT(60) DEF Same, Field, EndFields
<1>9. ~x.wrote /\ "scope" \notin StepsOf(x.todo)
    <2>1. Place("scope") < Place("upsert") /\ ~(Place("create") < Place("upsert"))
        BY Places
    <2>2. QED BY ONLY EntityInv, p \in Request, <1>2, <1>3, <2>1, Facts
<1>10. Fails(x, y)
    BY <1>4, <1>5, <1>8, <1>9 DEF Fails
<1>11. req' = [req EXCEPT ![p] = y]
    BY <1>2, <1>6, <1>7 DEF Set, Answer
<1>12. rows' \in [Id -> Row] /\ Kept(rows, rows')
    BY <1>1, <1>5, KeptSame
<1>13. QED BY <1>2, <1>3, <1>10, <1>11, <1>12, EndStep

\* A fill is started, or returns.
TellFields == {"pending", "failed", "told"}

LEMMA TellStep ==
    ASSUME EntityInv, NEW p \in Request, NEW x, x = req[p],
           NextIs(x, "changed") \/ NextIs(x, "after"), NEW y, Same(x, y, TellFields),
           x.told \subseteq y.told, y.failed \in BOOLEAN, Set(p, y), rows' = rows
    PROVE  EntityInv'
<1>1. Sound(x) /\ Grounded(rows, x) /\ rows \in [Id -> Row]
    BY AtRequest
<1>2. /\ DOMAIN y = Field /\ y.op = x.op /\ y.todo = x.todo /\ y.org = x.org /\ y.id = x.id
      /\ y.name = x.name /\ y.body = x.body /\ y.page = x.page /\ y.size = x.size
      /\ y.order = x.order /\ y.held = x.held /\ y.verdicts = x.verdicts /\ y.wrote = x.wrote
      /\ y.items = x.items /\ y.answer = x.answer
    BY SameFields DEF TellFields
<1>3. IsRequest(y)
    <2>1. IsRequest(x)
        BY <1>1 DEF Sound
    <2>2. QED BY ONLY <1>2, <2>1, y.failed \in BOOLEAN DEF IsRequest
<1>4. OnCourse(y)
    BY <1>1, <1>2, Zenon DEF Sound, OnCourse
<1>5. Accounted(y)
    <2>1. Accounted(x)
        BY <1>1 DEF Sound
    <2>2. NextIs(y, "changed") \/ NextIs(y, "after")
        BY <1>2 DEF NextIs
    <2>3. Halted(y) <=> Halted(x)
        BY <1>2 DEF Halted
    <2>4. QED BY <1>2, <2>1, <2>2, <2>3 DEF Accounted
<1>6. Accepted(y)
    BY <1>1, <1>2 DEF Sound, Accepted, Halted
<1>7. y.op \in ListOps => IsPage(y)
    BY <1>1, <1>2 DEF Sound, IsPage
<1>8. Sound(y)
    BY <1>3, <1>4, <1>5, <1>6, <1>7 DEF Sound
<1>9. Grounded(rows', y)
    <2>1. Grounded(rows, y)
        BY ONLY <1>1, <1>2, ZenonT(60) DEF Grounded
    <2>2. QED BY ONLY <2>1, rows' = rows
<1>10. req' = [req EXCEPT ![p] = y] /\ rows' \in [Id -> Row] /\ Kept(rows, rows')
    BY <1>1, KeptSame DEF Set
<1>11. QED BY <1>8, <1>9, <1>10, OneStep

LEMMA FanOutStartStep ==
    ASSUME EntityInv, NEW p \in Request, NEW fills, NEW h \in {"changed", "after"},
           FanOutStart(p, fills, h)
    PROVE  EntityInv'
<1>1. At(p, h) /\ rows' = rows /\ Set(p, [req[p] EXCEPT !.pending = fills])
    BY DEF FanOutStart
<1>2. PICK x : x = req[p]
    OBVIOUS
<1>3. PICK y : y = [x EXCEPT !.pending = fills]
    OBVIOUS
<1>4. IsRequest(x) /\ (NextIs(x, "changed") \/ NextIs(x, "after"))
    BY <1>1, <1>2, AtRequest DEF Sound, At, NextIs
<1>5. DOMAIN x = Field /\ x.failed \in BOOLEAN
    BY <1>4, Zenon DEF IsRequest
<1>6. Same(x, y, TellFields) /\ x.told \subseteq y.told /\ y.failed \in BOOLEAN
    BY <1>3, <1>5 DEF Same, Field, TellFields
<1>7. Set(p, y)
    BY <1>1, <1>2, <1>3
<1>8. QED BY <1>1, <1>2, <1>4, <1>6, <1>7, TellStep

LEMMA FillReturnsStep ==
    ASSUME EntityInv, NEW p \in Request, NEW fill, NEW verdict, FillReturns(p, fill, verdict)
    PROVE  EntityInv'
<1>1. /\ fill \in req[p].pending /\ rows' = rows
      /\ Set(p, [req[p] EXCEPT !.pending = @ \ {fill}, !.told = @ \cup {fill},
                               !.failed = @ \/ verdict = "error"])
    BY DEF FillReturns
<1>2. PICK x : x = req[p]
    OBVIOUS
<1>3. PICK y : y = [x EXCEPT !.pending = @ \ {fill}, !.told = @ \cup {fill},
                             !.failed = @ \/ verdict = "error"]
    OBVIOUS
<1>4. IsRequest(x) /\ Accounted(x)
    BY <1>2, AtRequest DEF Sound
<1>5. NextIs(x, "changed") \/ NextIs(x, "after")
    BY <1>1, <1>2, <1>4 DEF Accounted
<1>6. DOMAIN x = Field /\ x.failed \in BOOLEAN
    BY <1>4, Zenon DEF IsRequest
<1>7. Same(x, y, TellFields) /\ x.told \subseteq y.told /\ y.failed \in BOOLEAN
    BY <1>3, <1>6 DEF Same, Field, TellFields
<1>8. Set(p, y)
    BY <1>1, <1>2, <1>3
<1>9. QED BY <1>1, <1>2, <1>5, <1>7, <1>8, TellStep

-----------------------------------------------------------------------------
(***************************************************************************)
(* The fills before a write.                                               *)
(***************************************************************************)

\* What a gate and a chain make of one more verdict.
Asked(op, w, verdict, v) ==
    /\ v \in Seq(Verdict) /\ Len(w) \in Nat /\ Len(v) = Len(w) + 1 /\ v[Len(v)] = verdict
    /\ \A k \in DOMAIN v : (k \in DOMAIN w /\ v[k] = w[k]) \/ v[k] = verdict
    /\ Len(v) \in DOMAIN v
    /\ Before(op, v) \in {"more", "ok", "halted", "refused", "error"}
    /\ Before(op, v) \in {"more", "ok"} =>
          verdict \in {"ok", "halt"} /\ (verdict = "halt" => op # "organizations.Create")
    /\ Before(op, v) = "more" => Len(v) < Gates(op)
    /\ Before(op, v) = "ok" => ~(Len(v) < Gates(op))
    /\ Before(op, v) = "halted" => verdict = "halt" /\ op = "organizations.Create"
    /\ Gates(op) \in {1, 2}

LEMMA OneMore ==
    ASSUME NEW op, op \in {"organizations.Create", "organizations.Delete", "org-users.Create"},
           NEW w \in Seq(Verdict), NEW verdict \in Verdict, NEW v, v = Append(w, verdict)
    PROVE  Asked(op, w, verdict, v)
<1>1. /\ v \in Seq(Verdict) /\ Len(w) \in Nat /\ Len(v) = Len(w) + 1 /\ v[Len(v)] = verdict
      /\ DOMAIN v = 1 .. Len(w) + 1 /\ DOMAIN w = 1 .. Len(w)
      /\ \A k \in 1 .. Len(w) : v[k] = w[k]
    BY AppendProperties
<1>2. \A k \in DOMAIN v : k \in DOMAIN w \/ k = Len(v)
    BY <1>1
<1>3. Len(v) \in DOMAIN v
    BY <1>1
<1>4. ASSUME NEW n
      PROVE  /\ Gate(v, n) \in {"more", "ok", "refused", "error"}
             /\ Gate(v, n) \in {"more", "ok"} => verdict \in {"ok", "halt"}
             /\ Gate(v, n) = "more" => Len(v) < n
             /\ Gate(v, n) = "ok" => ~(Len(v) < n)
             /\ Chain(v, n) \in {"more", "ok", "refused", "error", "halted"}
             /\ Chain(v, n) \in {"more", "ok"} => verdict = "ok"
             /\ Chain(v, n) = "more" => Len(v) < n
             /\ Chain(v, n) = "ok" => ~(Len(v) < n)
             /\ Chain(v, n) = "halted" => verdict = "halt"
    BY <1>1 DEF Gate, Chain, Verdict
<1>5. CASE op = "organizations.Create"
    BY <1>1, <1>2, <1>3, <1>4, <1>5 DEF Before, Gates, Asked
<1>6. CASE op = "organizations.Delete"
    BY <1>1, <1>2, <1>3, <1>4, <1>6 DEF Before, Gates, Asked
<1>7. CASE op = "org-users.Create"
    BY <1>1, <1>2, <1>3, <1>4, <1>7 DEF Before, Gates, Asked
<1>8. QED BY <1>5, <1>6, <1>7

LEMMA BeforeFillStep ==
    ASSUME Bounds, EntityInv, NEW p \in Request, NEW verdict \in Verdict, BeforeFill(p, verdict)
    PROVE  EntityInv'
<1>1. At(p, "before") /\ rows' = rows
    BY DEF BeforeFill
<1>2. PICK x : x = req[p]
    OBVIOUS
<1>3. NextIs(x, "before")
    BY <1>1, <1>2 DEF At, NextIs
<1>4. DOMAIN x = Field /\ x.pending = {} /\ ~x.failed
    BY <1>2, <1>3, Quiet
<1>5. /\ Sound(x) /\ Grounded(rows, x) /\ rows \in [Id -> Row] /\ x.name \in RowName
      /\ x.wrote \in BOOLEAN
      /\ Course(x.op) /\ "before" \in Steps(x.op) /\ x.verdicts \in Seq(Verdict)
      /\ x.answer = None
    BY ONLY EntityInv, p \in Request, <1>2, <1>3, Facts
<1>6. ~x.wrote /\ "scope" \notin StepsOf(x.todo)
    <2>1. Place("scope") < Place("before") /\ ~(Place("create") < Place("before"))
        BY Places
    <2>2. QED BY ONLY EntityInv, p \in Request, <1>2, <1>3, <2>1, Facts
<1>7. x.op \in {"organizations.Create", "organizations.Delete", "org-users.Create"}
    BY <1>5 DEF Course
<1>8. PICK v : v = Append(x.verdicts, verdict)
    OBVIOUS
<1>9. /\ v \in Seq(Verdict) /\ Len(x.verdicts) \in Nat /\ Len(v) = Len(x.verdicts) + 1
      /\ v[Len(v)] = verdict /\ Len(v) \in DOMAIN v
      /\ \A k \in DOMAIN v : (k \in DOMAIN x.verdicts /\ v[k] = x.verdicts[k]) \/ v[k] = verdict
      /\ Before(x.op, v) \in {"more", "ok", "halted", "refused", "error"}
      /\ Before(x.op, v) \in {"more", "ok"} =>
            verdict \in {"ok", "halt"} /\ (verdict = "halt" => x.op # "organizations.Create")
      /\ Before(x.op, v) = "more" => Len(v) < Gates(x.op)
      /\ Before(x.op, v) = "ok" => ~(Len(v) < Gates(x.op))
      /\ Before(x.op, v) = "halted" => verdict = "halt" /\ x.op = "organizations.Create"
      /\ Gates(x.op) \in {1, 2}
    <2>1. x.verdicts \in Seq(Verdict)
        BY <1>5
    <2>2. Asked(x.op, x.verdicts, verdict, v)
        BY ONLY <1>7, <1>8, <2>1, verdict \in Verdict, OneMore
    <2>3. QED BY <2>2 DEF Asked
<1>10. /\ x.todo # <<>> /\ StepsOf(x.todo) = {"before"} \cup StepsOf(Tail(x.todo))
       /\ \A s \in StepsOf(Tail(x.todo)) : Place("before") < Place(s)
    BY <1>3, <1>5, AtStep
<1>11. /\ \A k \in DOMAIN x.verdicts : x.verdicts[k] \in {"ok", "halt"}
       /\ ~Halted(x) /\ Len(x.verdicts) < Gates(x.op)
    BY <1>5, <1>10 DEF Sound, Accepted
<1>12. ASSUME NEW y, y.verdicts = v, y.op = x.op, Before(x.op, v) \in {"more", "ok"}
       PROVE  ~Halted(y) /\ \A k \in DOMAIN y.verdicts : y.verdicts[k] \in {"ok", "halt"}
    BY <1>9, <1>11, <1>12 DEF Halted
<1>13. CASE Before(x.op, v) = "more"
    <2>1. PICK y : y = [x EXCEPT !.verdicts = v]
        OBVIOUS
    <2>2. req' = [req EXCEPT ![p] = y]
        BY <1>2, <1>8, <1>13, <2>1 DEF BeforeFill, Set
    <2>3. Same(x, y, {"verdicts"}) /\ y.verdicts = v
        BY <1>4, <2>1 DEF Same, Field
    <2>4. /\ DOMAIN y = Field /\ y.op = x.op /\ y.todo = x.todo /\ y.org = x.org /\ y.id = x.id
          /\ y.name = x.name /\ y.body = x.body /\ y.page = x.page /\ y.size = x.size
          /\ y.order = x.order /\ y.held = x.held /\ y.wrote = x.wrote /\ y.failed = x.failed
          /\ y.items = x.items /\ y.answer = x.answer /\ y.told = x.told
          /\ y.pending = x.pending
        BY <2>3, SameFields
    <2>5. IsRequest(y)
        <3>1. IsRequest(x)
            BY <1>5 DEF Sound
        <3>2. QED BY ONLY <1>9, <2>3, <2>4, <3>1 DEF IsRequest
    <2>6. OnCourse(y)
        BY <1>5, <2>4, Zenon DEF Sound, OnCourse
    <2>7. Accounted(y)
        <3>1. Accounted(x)
            BY <1>5 DEF Sound
        <3>2. QED BY ONLY <1>4, <1>5, <1>11, <2>4, <3>1 DEF Accounted
    <2>8. Accepted(y)
        BY <1>9, <1>10, <1>12, <1>13, <2>3, <2>4 DEF Accepted
    <2>9. y.op \in ListOps => IsPage(y)
        BY <1>5, <2>4 DEF Sound, IsPage
    <2>10. Sound(y)
        BY <2>5, <2>6, <2>7, <2>8, <2>9 DEF Sound
    <2>11. Grounded(rows', y)
        <3>1. Grounded(rows, y)
            <4>1. Grounded(rows, x)
                BY <1>5
            <4>2. QED BY ONLY <4>1, <2>4, ZenonT(60) DEF Grounded
        <3>2. QED BY ONLY <1>1, <3>1
    <2>12. rows' \in [Id -> Row] /\ Kept(rows, rows')
        BY <1>1, <1>5, KeptSame
    <2>13. QED BY <2>2, <2>10, <2>11, <2>12, OneStep
<1>14. CASE Before(x.op, v) = "ok"
    <2>1. PICK y : y = [x EXCEPT !.verdicts = v, !.todo = Tail(@)]
        OBVIOUS
    <2>2. req' = [req EXCEPT ![p] = y]
        BY <1>2, <1>8, <1>14, <2>1 DEF BeforeFill, Set
    <2>3. Same(x, y, {"verdicts", "todo"}) /\ y.verdicts = v /\ y.todo = Tail(x.todo)
        BY <1>4, <2>1 DEF Same, Field
    <2>4. /\ DOMAIN y = Field /\ y.op = x.op /\ y.org = x.org /\ y.id = x.id
          /\ y.name = x.name /\ y.body = x.body /\ y.page = x.page /\ y.size = x.size
          /\ y.order = x.order /\ y.held = x.held /\ y.wrote = x.wrote /\ y.failed = x.failed
          /\ y.items = x.items /\ y.answer = x.answer /\ y.told = x.told
          /\ y.pending = x.pending
        BY <2>3, SameFields
    <2>5. IsRequest(y)
        <3>1. IsRequest(x)
            BY <1>5 DEF Sound
        <3>2. y.todo \in Seq(StepName)
            BY <1>3, <1>5, <2>3, AtStep
        <3>3. QED BY ONLY <1>9, <2>3, <2>4, <3>1, <3>2 DEF IsRequest
    <2>6. OnCourse(y) /\ Accounted(y)
        <3>1. Proceeds(x, "before", y)
            BY <1>4, <1>5, <2>3, <2>4 DEF Proceeds, WriteStep
        <3>2. y.pending = {} /\ y.failed = FALSE
            BY <1>4, <2>4, <2>5 DEF IsRequest
        <3>3. QED BY <1>3, <1>5, <2>4, <3>1, <3>2, GoesOn
    <2>7. "before" \notin StepsOf(y.todo)
        BY <1>10, <2>3, Places
    <2>8. Accepted(y)
        <3>1. Len(v) = Gates(x.op)
            BY <1>9, <1>11, <1>14
        <3>2. QED BY <1>12, <1>14, <2>3, <2>4, <2>7, <3>1 DEF Accepted
    <2>9. y.op \in ListOps => IsPage(y)
        BY <1>5, <2>4 DEF Sound, IsPage
    <2>10. Sound(y)
        BY <2>5, <2>6, <2>8, <2>9 DEF Sound
    <2>11. Grounded(rows', y)
        <3>1. Grounded(rows', x)
            BY <1>1, <1>5
        <3>2. QED BY <1>3, <1>5, <2>3, <2>4, <3>1, GroundedGoesOn
    <2>12. rows' \in [Id -> Row] /\ Kept(rows, rows')
        BY <1>1, <1>5, KeptSame
    <2>13. QED BY <2>2, <2>10, <2>11, <2>12, OneStep
<1>15. CASE Before(x.op, v) = "halted"
    <2>1. PICK code \in HaltCode :
             Set(p, [[req[p] EXCEPT !.verdicts = v] EXCEPT !.todo = <<>>, !.answer = code])
        BY <1>2, <1>8, <1>15 DEF BeforeFill
    <2>2. PICK y : y = [[x EXCEPT !.verdicts = v] EXCEPT !.todo = <<>>, !.answer = code]
        OBVIOUS
    <2>3. /\ Same(x, y, {"verdicts", "todo", "answer"}) /\ y.verdicts = v /\ y.todo = <<>>
          /\ y.answer = code /\ code \in {200, 204} /\ req' = [req EXCEPT ![p] = y]
        <3>1. Same(x, y, {"verdicts", "todo", "answer"}) /\ y.verdicts = v /\ y.todo = <<>>
              /\ y.answer = code
            BY ONLY <1>4, <2>2 DEF Same, Field
        <3>2. req' = [req EXCEPT ![p] = y]
            BY <1>2, <2>1, <2>2 DEF Set
        <3>3. QED BY <3>1, <3>2 DEF HaltCode
    <2>4. /\ DOMAIN y = Field /\ y.op = x.op /\ y.org = x.org /\ y.id = x.id
          /\ y.name = x.name /\ y.body = x.body /\ y.page = x.page /\ y.size = x.size
          /\ y.order = x.order /\ y.held = x.held /\ y.wrote = x.wrote /\ y.failed = x.failed
          /\ y.items = x.items /\ y.told = x.told
          /\ y.pending = x.pending
        BY <2>3, SameFields
    <2>5. StepsOf(y.todo) = {} /\ y.todo \in Seq(StepName) /\ y.answer \in Code
        <3>1. StepsOf(y.todo) = {}
            BY <2>3 DEF StepsOf
        <3>2. y.todo \in Seq(StepName)
            <4>1. y.todo = <<>>
                BY <2>3
            <4>2. QED BY ONLY <4>1, EmptySeq, Zenon
        <3>3. y.answer \in Code
            BY <2>3 DEF Code
        <3>4. QED BY <3>1, <3>2, <3>3
    <2>6. IsRequest(y)
        <3>1. IsRequest(x)
            BY <1>5 DEF Sound
        <3>2. QED BY ONLY <1>9, <2>3, <2>4, <2>5, <3>1 DEF IsRequest
    <2>7. OnCourse(y)
        BY <2>3, <2>5 DEF OnCourse
    <2>8. Halted(y)
        BY <1>9, <1>15, <2>3, <2>4 DEF Halted
    <2>9. Accounted(y)
        <3>1. y.pending = {} /\ ~y.failed /\ ~y.wrote
            BY <1>4, <1>5, <1>6, <2>4
        <3>2. QED BY <2>8, <3>1 DEF Accounted
    <2>10. Accepted(y)
        BY <1>6, <2>3, <2>4 DEF Accepted
    <2>11. y.op \in ListOps => IsPage(y)
        BY <1>5, <2>4 DEF Sound, IsPage
    <2>12. Sound(y)
        BY <2>6, <2>7, <2>9, <2>10, <2>11 DEF Sound
    <2>13. Grounded(rows', y)
        <3>1. Grounded(rows', x)
            BY <1>1, <1>5
        <3>2. QED BY <1>6, <2>3, <2>4, <3>1, GroundedEnds
    <2>14. rows' \in [Id -> Row] /\ Kept(rows, rows')
        BY <1>1, <1>5, KeptSame
    <2>15. QED BY <2>3, <2>12, <2>13, <2>14, OneStep
<1>16. CASE Before(x.op, v) \in {"refused", "error"}
    <2>1. PICK y : /\ req' = [req EXCEPT ![p] = y]
                   /\ Same(x, y, EndFields) /\ y.verdicts = v /\ y.todo = <<>>
                   /\ y.answer \in {400, 403, 404, 409, 500}
                   /\ y.wrote = x.wrote /\ y.items = x.items
        <3>1. PICK code \in RefusalCode \cup {500} :
                 Set(p, [[req[p] EXCEPT !.verdicts = v] EXCEPT !.todo = <<>>, !.answer = code])
            BY <1>2, <1>8, <1>16 DEF BeforeFill
        <3>2. PICK y : y = [[x EXCEPT !.verdicts = v] EXCEPT !.todo = <<>>, !.answer = code]
            OBVIOUS
        <3>3. req' = [req EXCEPT ![p] = y] /\ code \in {400, 403, 404, 409, 500}
            BY <1>2, <3>1, <3>2 DEF Set, RefusalCode
        <3>4. /\ Same(x, y, EndFields) /\ y.verdicts = v /\ y.todo = <<>> /\ y.answer = code
              /\ y.wrote = x.wrote /\ y.items = x.items
            BY <1>4, <3>2 DEF Same, Field, EndFields
        <3>5. QED BY <3>3, <3>4
    <2>2. Fails(x, y)
        BY <1>4, <1>5, <1>6, <1>9, <2>1 DEF Fails
    <2>3. rows' \in [Id -> Row] /\ Kept(rows, rows')
        BY <1>1, <1>5, KeptSame
    <2>4. req' = [req EXCEPT ![p] = y]
        BY <2>1
    <2>5. QED BY <1>2, <1>3, <2>2, <2>3, <2>4, EndStep
<1>17. QED BY <1>9, <1>13, <1>14, <1>15, <1>16

-----------------------------------------------------------------------------
(***************************************************************************)
(* What a request reads, and how it starts.                                *)
(***************************************************************************)

\* A request that reads rows at the step h, and goes on.
ReadFields == {"todo", "held", "items"}

LEMMA ReadStep ==
    ASSUME EntityInv, NEW p \in Request, NEW x, x = req[p], NEW h, h \in {"get", "find"},
           NextIs(x, h), NEW y, Same(x, y, ReadFields), y.todo = Tail(x.todo),
           y.held \in Row, y.items \in Seq(Id), y.op \in ListOps => IsPage(y),
           Set(p, y), rows' = rows, Grounded(rows, y)
    PROVE  EntityInv'
<1>1. DOMAIN x = Field /\ x.pending = {} /\ ~x.failed
    BY Quiet
<1>2. /\ Sound(x) /\ rows \in [Id -> Row] /\ x.answer = None
      /\ x.wrote \in BOOLEAN
    BY ONLY EntityInv, p \in Request, x = req[p], NextIs(x, h), Facts
<1>3. /\ DOMAIN y = Field /\ y.op = x.op /\ y.org = x.org /\ y.id = x.id
      /\ y.name = x.name /\ y.body = x.body /\ y.page = x.page /\ y.size = x.size
      /\ y.order = x.order /\ y.wrote = x.wrote /\ y.failed = x.failed
      /\ y.answer = x.answer /\ y.told = x.told /\ y.pending = x.pending
      /\ y.verdicts = x.verdicts
    BY SameFields DEF ReadFields
<1>4. IsRequest(y)
    <2>1. IsRequest(x)
        BY <1>2 DEF Sound
    <2>2. y.todo \in Seq(StepName)
        BY <1>2, AtStep
    <2>3. QED BY ONLY <1>3, <2>1, <2>2, y.held \in Row, y.items \in Seq(Id) DEF IsRequest
<1>5. OnCourse(y) /\ Accounted(y) /\ Accepted(y)
    <2>1. Proceeds(x, h, y)
        BY <1>1, <1>2, <1>3 DEF Proceeds, WriteStep
    <2>2. y.pending = {} /\ y.failed = FALSE
        BY <1>1, <1>3, <1>4 DEF IsRequest
    <2>3. h # "before"
        OBVIOUS
    <2>4. QED BY <1>2, <1>3, <2>1, <2>2, <2>3, GoesOn
<1>6. Sound(y)
    BY <1>4, <1>5 DEF Sound
<1>7. Grounded(rows', y)
    BY ONLY Grounded(rows, y), rows' = rows
<1>8. req' = [req EXCEPT ![p] = y] /\ rows' \in [Id -> Row] /\ Kept(rows, rows')
    BY <1>2, KeptSame DEF Set
<1>9. QED BY <1>6, <1>7, <1>8, OneStep

LEMMA GetStep ==
    ASSUME Bounds, EntityInv, NEW p \in Request, Get(p)
    PROVE  EntityInv'
<1>1. At(p, "get") /\ rows' = rows /\ Place("get") <= Place("create")
    BY Places DEF Get
<1>2. CASE Set(p, Answer(p, 500))
    BY <1>1, <1>2, RefuseStep
<1>3. CASE Set(p, Answer(p, 404))
    BY <1>1, <1>3, RefuseStep
<1>4. CASE /\ Live(KindOf(req[p].op), req[p].id)
           /\ Set(p, [Continue(p) EXCEPT !.held = rows[req[p].id],
                     !.items = IF req[p].op \in {"organizations.Read", "org-users.Read"}
                               THEN <<req[p].id>> ELSE <<>>])
    <2>1. PICK x : x = req[p]
        OBVIOUS
    <2>2. PICK items : items = IF x.op \in {"organizations.Read", "org-users.Read"}
                               THEN <<x.id>> ELSE <<>>
        OBVIOUS
    <2>3. PICK y : y = [x EXCEPT !.todo = Tail(@), !.held = rows[x.id], !.items = items]
        OBVIOUS
    <2>4. NextIs(x, "get")
        BY <1>1, <2>1 DEF At, NextIs
    <2>5. DOMAIN x = Field
        BY <2>1, <2>4, Quiet
    <2>6. /\ Sound(x) /\ Grounded(rows, x) /\ rows \in [Id -> Row] /\ Course(x.op)
          /\ "get" \in Steps(x.op)
        BY ONLY EntityInv, p \in Request, <2>1, <2>4, Facts
    <2>8. /\ x.id \in Id /\ rows[x.id] \in Row /\ rows[x.id].kind = KindOf(x.op)
        BY <1>4, <2>1, <2>6 DEF Live, Used
    <2>9. /\ items \in Seq(Id) /\ \A k \in DOMAIN items : items[k] = x.id
          /\ items # <<>> => x.op \in {"organizations.Read", "org-users.Read"}
        <3>1. CASE x.op \in {"organizations.Read", "org-users.Read"}
            <4>1. items = <<x.id>>
                BY <2>2, <3>1
            <4>2. QED BY ONLY <3>1, <4>1, <2>8
        <3>2. CASE x.op \notin {"organizations.Read", "org-users.Read"}
            <4>1. items = <<>>
                BY <2>2, <3>2
            <4>2. items \in Seq(Id)
                BY ONLY <4>1, EmptySeq, Zenon
            <4>3. DOMAIN items = {}
                BY <4>1
            <4>4. QED BY ONLY <4>1, <4>2, <4>3
        <3>3. QED BY <3>1, <3>2
    <2>10. /\ Same(x, y, ReadFields) /\ y.todo = Tail(x.todo) /\ y.held = rows[x.id]
           /\ y.items = items /\ y.op = x.op /\ y.org = x.org /\ y.id = x.id
        BY <2>3, <2>5 DEF Same, Field, ReadFields
    <2>11. Set(p, y)
        BY <1>4, <2>1, <2>2, <2>3 DEF Set, Continue
    <2>12. /\ x.todo # <<>> /\ StepsOf(x.todo) = {"get"} \cup StepsOf(Tail(x.todo))
           /\ \A s \in StepsOf(Tail(x.todo)) : Place("get") < Place(s)
           /\ StepsOf(Tail(x.todo)) \subseteq StepName
        <3>1. Tail(x.todo) \in Seq(StepName)
            BY <2>4, <2>6, AtStep
        <3>2. StepsOf(Tail(x.todo)) \subseteq StepName
            BY <3>1 DEF StepsOf
        <3>3. QED BY <2>4, <2>6, <3>2, AtStep
    <2>13. "ancestors" \notin StepsOf(x.todo)
        BY <2>12, Places
    <2>14. "scope" \in Steps(x.op) => "scope" \in StepsOf(y.todo)
        <3>1. ASSUME "scope" \in Steps(x.op), "scope" \notin StepsOf(x.todo) PROVE FALSE
            <4>1. "get" \in StepsOf(x.todo)
                BY <2>12
            <4>2. Place("scope") < Place("get")
                BY <2>6, <3>1, <4>1 DEF Sound, OnCourse
            <4>3. QED BY <4>2, Places
        <3>2. QED BY <2>10, <2>12, <3>1
    <2>15. x.op \in ByIdOps /\ x.op \notin ListOps /\ x.op # "organizations.Delete"
        BY <2>6 DEF Course, ByIdOps, ListOps
    <2>16. Implicit(x.op) = ""
        BY <2>15 DEF Implicit, ByIdOps
    <2>17. "scope" \in Steps(x.op) => KindOf(x.op) = "User"
        BY <2>6 DEF Course, KindOf, UserOps
    <2>18. items # <<>> => "scope" \in StepsOf(y.todo) \/ x.org = None
        <3>1. CASE x.op = "organizations.Read"
            <4>1. x.op \notin ScopedOps
                BY <3>1 DEF ScopedOps, UserOps
            <4>2. QED BY <2>6, <4>1, Zenon DEF Sound, IsRequest
        <3>2. CASE x.op = "org-users.Read"
            <4>1. "scope" \in Steps(x.op)
                BY <2>6, <3>2 DEF Course, UserOps
            <4>2. QED BY <2>14, <4>1
        <3>3. QED BY <2>9, <3>1, <3>2
    <2>19. Grounded(rows, y)
        <3>1. y.org \in Id \cup {None}
            BY <2>6, <2>10, <2>12, <2>13 DEF Grounded
        <3>2. \A s \in StepsOf(y.todo) : Place(s) > Place("get")
            BY <2>10, <2>12, Places, PlaceTypes
        <3>3. ASSUME NEW k \in DOMAIN y.items
              PROVE  /\ rows[y.items[k]].kind = KindOf(y.op) /\ Implicit(y.op) = ""
                     /\ "scope" \in StepsOf(y.todo) \/ y.org = None
            <4>1. y.items # <<>>
                OBVIOUS
            <4>2. QED BY <2>8, <2>9, <2>10, <2>16, <2>18, <4>1
        <3>4. "scope" \in Steps(y.op) =>
                /\ y.id \in Id /\ rows[y.id].kind = "User" /\ rows[y.id].org = y.held.org
                /\ \A k \in DOMAIN y.items : y.items[k] = y.id
                /\ "scope" \in StepsOf(y.todo)
            BY <2>8, <2>9, <2>10, <2>14, <2>17
        <3>5. QED BY <3>1, <3>2, <3>3, <3>4 DEF Grounded
    <2>20. "get" \in {"get", "find"} /\ y.held \in Row /\ y.items \in Seq(Id)
           /\ (y.op \in ListOps => IsPage(y))
        BY <2>8, <2>9, <2>10, <2>15
    <2>21. QED BY <1>1, <2>1, <2>4, <2>10, <2>11, <2>19, <2>20, ReadStep
<1>5. QED BY <1>2, <1>3, <1>4 DEF Get

\* A list selects rows of its kind, of its organization and of its source type.
LEMMA SelectedRows ==
    ASSUME NEW p \in Request, NEW x, x = req[p], x.op \in ListOps,
           x.org = None \/ x.op \in ScopedOps, NEW i \in Selected(p)
    PROVE  /\ i \in Id /\ rows[i].kind = KindOf(x.op)
           /\ Implicit(x.op) # "" => rows[i].name = Implicit(x.op)
           /\ x.org = None \/ rows[i].org = x.org
<1>1. KindOf(x.op) \in {"Organization", "User", "OrgSetting", "AuditEvent"}
    BY DEF KindOf
<1>2. /\ KindOf(x.op) = "Organization" => x.org = None /\ Implicit(x.op) = ""
      /\ KindOf(x.op) = "User" => Implicit(x.op) = ""
      /\ KindOf(x.op) = "OrgSetting" => Implicit(x.op) = ""
      /\ KindOf(x.op) = "AuditEvent" => x.org = None
    BY DEF KindOf, Implicit, ListOps, ScopedOps, UserOps
<1>3. CASE KindOf(x.op) = "Organization"
    <2>1. Selected(p) = SelectOrganizations
        BY <1>3 DEF Selected
    <2>2. QED BY <1>2, <1>3, <2>1 DEF SelectOrganizations, Live, Used
<1>4. CASE KindOf(x.op) = "User"
    <2>1. Selected(p) = SelectUsers(x.org)
        BY <1>4 DEF Selected
    <2>2. QED BY <1>2, <1>4, <2>1 DEF SelectUsers, Live, Used
<1>5. CASE KindOf(x.op) = "OrgSetting"
    <2>1. Selected(p) = SelectSettings(x.org)
        BY <1>5 DEF Selected
    <2>2. QED BY <1>2, <1>5, <2>1 DEF SelectSettings, Live, Used
<1>6. CASE KindOf(x.op) = "AuditEvent"
    <2>1. Selected(p) = SelectAuditEvents(Implicit(x.op))
        BY <1>6 DEF Selected
    <2>2. QED BY <1>2, <1>6, <2>1 DEF SelectAuditEvents, Live, Used
<1>7. QED BY <1>1, <1>3, <1>4, <1>5, <1>6

LEMMA FindStep ==
    ASSUME Bounds, EntityInv, NEW p \in Request, Find(p)
    PROVE  EntityInv'
<1>1. At(p, "find") /\ rows' = rows /\ Place("find") <= Place("create")
    BY Places DEF Find
<1>2. CASE Set(p, Answer(p, 500))
    BY <1>1, <1>2, RefuseStep
<1>3. CASE Set(p, [Continue(p) EXCEPT !.items = Window(Ordered(Selected(p), req[p].order),
                       PageOf(req[p].page), SizeOf(req[p].size))])
    <2>1. PICK x : x = req[p]
        OBVIOUS
    <2>2. PICK S : S = Selected(p)
        OBVIOUS
    <2>3. PICK items : items = Window(Ordered(S, x.order), PageOf(x.page), SizeOf(x.size))
        OBVIOUS
    <2>4. PICK y : y = [x EXCEPT !.todo = Tail(@), !.items = items]
        OBVIOUS
    <2>5. NextIs(x, "find")
        BY <1>1, <2>1 DEF At, NextIs
    <2>6. DOMAIN x = Field
        BY <2>1, <2>5, Quiet
    <2>7. /\ Sound(x) /\ Grounded(rows, x) /\ rows \in [Id -> Row] /\ Course(x.op)
          /\ "find" \in Steps(x.op)
          /\ x.page \in Int /\ x.size \in Int /\ x.held \in Row
        BY ONLY EntityInv, p \in Request, <2>1, <2>5, Facts
    <2>9. x.op \in ListOps /\ (x.org = None \/ x.op \in ScopedOps)
        <3>1. x.op \in ListOps
            BY <2>7 DEF Course
        <3>2. x.org = None \/ x.op \in ScopedOps
            BY <2>7, Zenon DEF Sound, IsRequest
        <3>3. QED BY <3>1, <3>2
    <2>10. ASSUME NEW i \in S
           PROVE  /\ i \in Id /\ rows[i].kind = KindOf(x.op)
                  /\ Implicit(x.op) # "" => rows[i].name = Implicit(x.op)
                  /\ x.org = None \/ rows[i].org = x.org
        BY <2>1, <2>2, <2>9, SelectedRows
    <2>11. /\ items \in Seq(S) /\ items \in Seq(Id) /\ Len(items) <= MaxSize
           /\ \A k \in 1 .. Len(items) - 1 : InOrder(x.order, items[k], items[k + 1])
        <3>1. S \in SUBSET Id
            BY <2>10
        <3>2. QED BY <2>3, <2>7, <3>1, PageOfRows
    <2>12. /\ Same(x, y, ReadFields) /\ y.todo = Tail(x.todo) /\ y.held = x.held
           /\ y.items = items /\ y.op = x.op /\ y.org = x.org
           /\ y.order = x.order
        BY <2>4, <2>6 DEF Same, Field, ReadFields
    <2>13. Set(p, y)
        BY <1>3, <2>1, <2>2, <2>3, <2>4 DEF Set, Continue
    <2>14. /\ x.todo # <<>> /\ StepsOf(x.todo) = {"find"} \cup StepsOf(Tail(x.todo))
           /\ \A s \in StepsOf(Tail(x.todo)) : Place("find") < Place(s)
           /\ StepsOf(Tail(x.todo)) \subseteq StepName
        <3>1. Tail(x.todo) \in Seq(StepName)
            BY <2>5, <2>7, AtStep
        <3>2. StepsOf(Tail(x.todo)) \subseteq StepName
            BY <3>1 DEF StepsOf
        <3>3. QED BY <2>5, <2>7, <3>2, AtStep
    <2>15. "ancestors" \notin StepsOf(x.todo)
        BY <2>14, Places
    <2>16. "scope" \notin Steps(x.op)
        BY <2>7, <2>9 DEF Course, ListOps, UserOps
    <2>17. Grounded(rows, y)
        <3>1. y.org \in Id \cup {None}
            BY <2>7, <2>12, <2>14, <2>15 DEF Grounded
        <3>2. \A s \in StepsOf(y.todo) : Place(s) > Place("get")
            BY <2>12, <2>14, Places, PlaceTypes
        <3>3. ASSUME NEW k \in DOMAIN y.items
              PROVE  /\ rows[y.items[k]].kind = KindOf(y.op)
                     /\ Implicit(y.op) # "" => rows[y.items[k]].name = Implicit(y.op)
                     /\ y.org = None \/ rows[y.items[k]].org = y.org
            <4>1. items[k] \in S
                BY <2>11, <2>12
            <4>2. QED BY <2>10, <2>12, <4>1
        <3>4. "scope" \notin Steps(y.op)
            BY <2>12, <2>16
        <3>5. QED BY <3>1, <3>2, <3>3, <3>4 DEF Grounded
    <2>18. y.held \in Row /\ y.items \in Seq(Id) /\ (y.op \in ListOps => IsPage(y))
        BY <2>7, <2>11, <2>12 DEF IsPage
    <2>19. QED BY <1>1, <2>1, <2>5, <2>12, <2>13, <2>17, <2>18, ReadStep
<1>4. QED BY <1>2, <1>3 DEF Find

\* A request has not started.
LEMMA IdleRequest ==
    ASSUME Bounds
    PROVE  /\ DOMAIN Idle = Field /\ Idle.op = "" /\ Idle.todo = <<>> /\ Idle.org = None
           /\ Idle.name = "" /\ Idle.body = 0 /\ Idle.page = 1 /\ Idle.size = 0
           /\ Idle.held \in Row /\ Idle.verdicts = <<>> /\ Idle.pending = {} /\ ~Idle.failed
           /\ ~Idle.wrote /\ Idle.items = <<>> /\ Idle.answer = None
           /\ Idle.failed \in BOOLEAN /\ Idle.wrote \in BOOLEAN
BY AbsentRow DEF Idle, Field

\* The empty sequence.
LEMMA Nothing == ASSUME NEW s, s = <<>> PROVE DOMAIN s = {} /\ Len(s) = 0
OBVIOUS

\* A request that has its handler before it, or nothing.
LEMMA Starts ==
    ASSUME Bounds, NEW y, DOMAIN y = Field, y.op \in Operation \cup {""},
           y.todo = IF y.op = "" THEN <<>> ELSE Handler(y.op),
           y.org = None \/ y.op \in ScopedOps, y.name \in RowName, y.body \in 0 .. 1,
           y.page \in Int, y.size \in Int, y.held \in Row, y.verdicts = <<>>, y.pending = {},
           y.failed = FALSE, y.wrote = FALSE, y.items = <<>>, y.answer = None,
           NEW t
    PROVE  Sound(y) /\ Grounded(t, y)
<1>1. DOMAIN y.items = {} /\ DOMAIN y.verdicts = {} /\ Len(y.items) = 0 /\ Len(y.verdicts) = 0
    BY ONLY y.items = <<>>, y.verdicts = <<>>, Nothing
<1>2. /\ StepsOf(y.todo) = Steps(y.op) /\ y.todo \in Seq(StepName) /\ Ascends(y.todo)
      /\ y.op # "" => y.op \in Operation /\ Course(y.op)
      /\ y.op = "" => y.todo = <<>>
    <2>1. CASE y.op = ""
        <3>1. y.todo = <<>>
            BY <2>1
        <3>2. y.todo \in Seq(StepName)
            BY ONLY <3>1, EmptySeq, Zenon
        <3>3. DOMAIN y.todo = {}
            BY ONLY <3>1, Nothing
        <3>4. StepsOf(y.todo) = {} /\ Ascends(y.todo)
            BY ONLY <3>3 DEF StepsOf, Ascends
        <3>5. QED BY ONLY <2>1, <3>1, <3>2, <3>4 DEF Steps
    <2>2. CASE y.op # ""
        <3>1. y.op \in Operation /\ y.todo = Handler(y.op)
            BY <2>2
        <3>2. Course(y.op)
            BY <3>1, HandlerCourse
        <3>3. QED BY ONLY <2>2, <3>1, <3>2 DEF Course, Steps
    <2>3. QED BY <2>1, <2>2
<1>3. IsRequest(y)
    <2>1. y.items \in Seq(Id)
        BY ONLY y.items = <<>>, EmptySeq, Zenon
    <2>2. y.verdicts \in Seq(Verdict)
        BY ONLY y.verdicts = <<>>, EmptySeq, Zenon
    <2>3. y.answer \in Code /\ y.failed \in BOOLEAN /\ y.wrote \in BOOLEAN
        BY DEF Code
    <2>4. QED BY ONLY DOMAIN y = Field, y.op \in Operation \cup {""}, <1>2,
             y.org = None \/ y.op \in ScopedOps, y.name \in RowName, y.body \in 0 .. 1,
             y.page \in Int, y.size \in Int, y.held \in Row, <2>1, <2>2, <2>3 DEF IsRequest
<1>4. OnCourse(y)
    BY <1>2, Zenon DEF OnCourse, Ascends
<1>5. Accounted(y)
    <2>1. StepsOf(y.todo) = Steps(y.op)
        BY <1>2
    <2>2. y.pending = {} /\ y.failed = FALSE /\ y.wrote = FALSE
        OBVIOUS
    <2>3. QED BY ONLY <2>1, <2>2 DEF Accounted
<1>6. ~Halted(y)
    BY <1>1 DEF Halted
<1>7. Accepted(y)
    <2>1. "before" \in StepsOf(y.todo) => 0 < Gates(y.op)
        <3>1. "before" \in StepsOf(y.todo) =>
                y.op \in {"organizations.Create", "organizations.Delete", "org-users.Create"}
            <4>1. "before" \in StepsOf(y.todo) => y.op # ""
                BY <1>2 DEF Steps
            <4>2. QED BY ONLY <1>2, <4>1 DEF Course
        <3>2. QED BY ONLY <3>1 DEF Gates
    <2>2. y.todo # <<>> /\ "before" \notin StepsOf(y.todo) => Gates(y.op) = 0
        BY <1>2 DEF Course, Gates
    <2>3. QED BY <1>1, <1>6, <2>1, <2>2 DEF Accepted
<1>8. IsPage(y)
    <2>1. MaxSize \in Nat
        BY DEF Bounds
    <2>2. QED BY ONLY <1>1, <2>1 DEF IsPage
<1>9. Grounded(t, y)
    <2>1. y.todo # <<>> => "ancestors" \in StepsOf(y.todo) \/ y.org = None
        BY <1>2 DEF Course
    <2>2. y.todo # <<>> /\ "scope" \in Steps(y.op) => "get" \in StepsOf(y.todo)
        BY <1>2 DEF Course, UserOps, ByIdOps
    <2>3. QED BY <1>1, <2>1, <2>2 DEF Grounded
<1>10. QED BY <1>3, <1>4, <1>5, <1>7, <1>8, <1>9 DEF Sound

LEMMA ArriveStep ==
    ASSUME Bounds, EntityInv, NEW p \in Request, NEW op \in Offered, Arrive(p, op),
           Name \subseteq RowName
    PROVE  EntityInv'
<1>0. /\ \A k \in {0, 1} : k \in 0 .. 1
      /\ \A k \in Page \cup {1} : k \in Int
      /\ \A k \in Size \cup {0} : k \in Int
    BY DEF Bounds
<1>1. PICK org \in (IF op \in ScopedOps THEN OrgPath ELSE {None}),
           id \in (IF op \in ByIdOps THEN IdPath ELSE {None}),
           name \in (IF op \in {"organizations.Create", "org-users.Create", "org-users.Update",
                                "org-settings.Upsert"} THEN Name ELSE {""}),
           body \in (IF op = "org-users.Patch" THEN {1} ELSE {0}),
           gen \in (IF op = "org-settings.Upsert" THEN Generation ELSE {0}),
           page \in (IF op \in ListOps THEN Page ELSE {1}),
           size \in (IF op \in ListOps THEN Size ELSE {0}),
           order \in (IF op \in ListOps THEN {"asc", "desc"} ELSE {"desc"}),
           sound \in (IF op \in ByIdOps \ {"org-users.Update", "org-users.Patch"}
                      THEN {TRUE} ELSE BOOLEAN) :
        Set(p, [Idle EXCEPT !.op = op, !.todo = Handler(op), !.org = org, !.id = id,
                !.name = IF Implicit(op) # "" THEN Implicit(op) ELSE name, !.body = body,
                !.gen = gen, !.page = page, !.size = size, !.order = order, !.sound = sound])
    BY Zenon DEF Arrive
<1>2. PICK n : n = IF Implicit(op) # "" THEN Implicit(op) ELSE name
    OBVIOUS
<1>3. PICK y : y = [Idle EXCEPT !.op = op, !.todo = Handler(op), !.org = org, !.id = id,
                    !.name = n, !.body = body, !.gen = gen, !.page = page, !.size = size,
                    !.order = order, !.sound = sound]
    OBVIOUS
<1>4. op \in Operation /\ op # ""
    BY DEF Bounds, Operation
<1>5. org = None \/ op \in ScopedOps
    BY ONLY <1>1
<1>6. n \in RowName
    <2>1. name \in RowName
        BY <1>1 DEF RowName
    <2>2. Implicit(op) \in {"", "User", "Organization"}
        BY DEF Implicit
    <2>3. QED BY <1>2, <2>1, <2>2 DEF RowName
<1>7. body \in 0 .. 1 /\ page \in Int /\ size \in Int
    <2>1. body \in {0, 1} /\ page \in Page \cup {1} /\ size \in Size \cup {0}
        OBVIOUS
    <2>2. QED BY ONLY <1>0, <2>1, Zenon
<1>8. /\ DOMAIN y = Field /\ y.op = op /\ y.todo = Handler(op) /\ y.org = org /\ y.name = n
      /\ y.body = body /\ y.page = page /\ y.size = size /\ y.held = Idle.held
      /\ y.verdicts = Idle.verdicts /\ y.pending = Idle.pending /\ y.failed = Idle.failed
      /\ y.wrote = Idle.wrote /\ y.items = Idle.items
      /\ y.answer = Idle.answer
    <2>1. DOMAIN Idle = Field
        BY IdleRequest
    <2>2. PICK e : e = Idle
        OBVIOUS
    <2>3. QED BY ONLY <1>3, <2>1, <2>2 DEF Field
<1>9. /\ y.held \in Row /\ y.verdicts = <<>> /\ y.pending = {} /\ y.failed = FALSE
      /\ y.wrote = FALSE /\ y.items = <<>> /\ y.answer = None
    BY <1>8, IdleRequest
<1>10. y.todo = IF y.op = "" THEN <<>> ELSE Handler(y.op)
    BY ONLY <1>4, <1>8
<1>11. Sound(y) /\ Grounded(rows, y)
    <2>1. /\ y.op \in Operation \cup {""} /\ (y.org = None \/ y.op \in ScopedOps)
          /\ y.name \in RowName /\ y.body \in 0 .. 1 /\ y.page \in Int /\ y.size \in Int
          /\ DOMAIN y = Field
        BY ONLY <1>4, <1>5, <1>6, <1>7, <1>8
    <2>2. QED BY <1>9, <1>10, <2>1, Starts
<1>12. rows' = rows /\ rows \in [Id -> Row]
    BY AtRequest DEF Arrive
<1>13. rows' \in [Id -> Row] /\ Kept(rows, rows') /\ Grounded(rows', y)
    BY ONLY <1>11, <1>12, KeptSame
<1>14. req' = [req EXCEPT ![p] = y]
    BY <1>1, <1>2, <1>3 DEF Set
<1>15. QED BY <1>9, <1>11, <1>13, <1>14, OneStep

-----------------------------------------------------------------------------
(***************************************************************************)
(* The invariant.                                                          *)
(***************************************************************************)

LEMMA InitEntity == Bounds /\ Init => EntityInv
<1> SUFFICES ASSUME Bounds, Init PROVE EntityInv
    OBVIOUS
<1>1. rows \in [Id -> Row] /\ req = [p \in Request |-> req[p]]
    BY DEF Bounds, Init
<1>0. 0 \in 0 .. 1 /\ 1 \in Int /\ 0 \in Int
    OBVIOUS
<1>2. ASSUME NEW p \in Request
      PROVE  Sound(req[p]) /\ Grounded(rows, req[p])
    <2>1. PICK y : y = Idle
        OBVIOUS
    <2>2. /\ DOMAIN y = Field /\ y.op = "" /\ y.todo = <<>> /\ y.org = None
          /\ y.name = "" /\ y.body = 0 /\ y.page = 1 /\ y.size = 0
          /\ y.held \in Row /\ y.verdicts = <<>> /\ y.pending = {} /\ y.failed = FALSE
          /\ y.wrote = FALSE /\ y.items = <<>> /\ y.answer = None
        BY <2>1, IdleRequest
    <2>3. /\ y.op \in Operation \cup {""} /\ (y.org = None \/ y.op \in ScopedOps)
          /\ y.name \in RowName
        BY ONLY <2>2, Zenon DEF RowName
    <2>8. y.body \in 0 .. 1 /\ y.page \in Int /\ y.size \in Int
        BY ONLY <1>0, <2>2, Zenon
    <2>7. y.todo = IF y.op = "" THEN <<>> ELSE Handler(y.op)
        BY ONLY <2>2, Zenon
    <2>4. Sound(y) /\ Grounded(rows, y)
        BY <2>2, <2>3, <2>7, <2>8, Starts
    <2>5. req[p] = y
        BY <2>1 DEF Init
    <2>6. QED BY ONLY <2>2, <2>4, <2>5
<1>3. QED BY <1>1, <1>2, Zenon DEF EntityInv, Sound

LEMMA StepEntity ==
    ASSUME Bounds, EntityInv, [Next]_vars
    PROVE  EntityInv'
<1>1. CASE UNCHANGED vars
    BY <1>1 DEF vars, EntityInv
<1>2. ASSUME NEW p \in Request, Step(p) PROVE EntityInv'
    <2>1. CASE Ancestors(p)
        BY <2>1, AncestorsStep
    <2>2. CASE Body(p)
        BY <2>2, BodyStep
    <2>3. CASE Get(p)
        BY <2>3, GetStep
    <2>4. CASE Scope(p)
        BY <2>4, ScopeStep
    <2>5. CASE Merge(p)
        BY <2>5, MergeStep
    <2>6. CASE Create(p)
        BY <2>6, CreateStep
    <2>7. CASE Replace(p)
        BY <2>7, ReplaceStep
    <2>8. CASE Delete(p)
        BY <2>8, DeleteStep
    <2>9. CASE Upsert(p)
        BY <2>9, UpsertStep
    <2>10. CASE Count(p)
        BY <2>10, CountStep
    <2>11. CASE Find(p)
        BY <2>11, FindStep
    <2>12. ASSUME NEW verdict \in Verdict, BeforeFill(p, verdict) PROVE EntityInv'
        BY <2>12, BeforeFillStep
    <2>13. CASE FanOutStart(p, OnEntityChanged, "changed")
        BY <2>13, FanOutStartStep
    <2>14. CASE FanOutEnd(p, OnEntityChanged, "changed")
        BY <2>14, FanOutEndStep
    <2>15. CASE FanOutStart(p, AfterCreate, "after")
        BY <2>15, FanOutStartStep
    <2>16. CASE FanOutEnd(p, AfterCreate, "after")
        BY <2>16, FanOutEndStep
    <2>17. ASSUME NEW fill, NEW verdict, FillReturns(p, fill, verdict) PROVE EntityInv'
        BY <2>17, FillReturnsStep
    <2>18. CASE Respond(p)
        BY <2>18, RespondStep
    <2>19. QED BY <1>2, <2>1, <2>2, <2>3, <2>4, <2>5, <2>6, <2>7, <2>8, <2>9, <2>10, <2>11, <2>12,
               <2>13, <2>14, <2>15, <2>16, <2>17, <2>18, Zenon DEF Step
<1>3. ASSUME NEW p \in Request, NEW op \in Offered, Arrive(p, op) PROVE EntityInv'
    <2>1. Name \subseteq RowName
        BY DEF RowName
    <2>2. QED BY <1>3, <2>1, ArriveStep
<1>4. QED BY <1>1, <1>2, <1>3, Zenon DEF Next

\* What the invariant says of the answers.
LEMMA InvMeans ==
    ASSUME Bounds, EntityInv
    PROVE  /\ TypeOK /\ ClientErrorChangesNothing /\ SuccessMeansDone /\ WrittenOnlyIfAccepted
           /\ NoFillAfterAnswer /\ AnswersStayInScope /\ PageInOrder
<1>1. ASSUME NEW p \in Request
      PROVE  /\ Sound(req[p]) /\ Grounded(rows, req[p]) /\ rows \in [Id -> Row]
             /\ IsRequest(req[p]) /\ OnCourse(req[p]) /\ Accounted(req[p]) /\ Accepted(req[p])
             /\ req[p].answer # None => req[p].todo = <<>> /\ StepsOf(req[p].todo) = {}
    <2>1. Sound(req[p]) /\ Grounded(rows, req[p]) /\ rows \in [Id -> Row]
        BY AtRequest
    <2>2. IsRequest(req[p]) /\ OnCourse(req[p]) /\ Accounted(req[p]) /\ Accepted(req[p])
        BY <2>1 DEF Sound
    <2>3. req[p].answer # None => req[p].todo = <<>>
        BY <2>2 DEF OnCourse
    <2>4. req[p].todo = <<>> => StepsOf(req[p].todo) = {}
        BY Nothing DEF StepsOf
    <2>5. QED BY <2>1, <2>2, <2>3, <2>4
<1>2. TypeOK
    <2>1. rows \in [Id -> Row]
        BY DEF EntityInv
    <2>2. \A p \in Request : req[p].answer \in Code
        BY <1>1, Zenon DEF IsRequest
    <2>3. QED BY <2>1, <2>2 DEF TypeOK
<1>3. ClientErrorChangesNothing
    BY <1>1 DEF ClientErrorChangesNothing, Accounted
<1>4. SuccessMeansDone
    <2> SUFFICES ASSUME NEW p \in Request, Clean(p), req[p].op \in WriteOps, ~Halted(req[p])
                 PROVE  /\ req[p].wrote
                        /\ (req[p].op \in UserOps => OnEntityChanged \subseteq req[p].told)
                        /\ (req[p].op = "org-users.Create" => AfterCreate \subseteq req[p].told)
                        /\ ~req[p].failed
        BY DEF SuccessMeansDone
    <2>1. PICK x : x = req[p]
        OBVIOUS
    <2>2. x.answer \in {200, 201, 204} /\ x.answer # None /\ x.todo = <<>> /\ StepsOf(x.todo) = {}
        BY <1>1, <2>1 DEF Clean, Answered
    <2>3. Course(x.op)
        BY <2>1, HandlerCourse DEF WriteOps
    <2>4. /\ WriteStep \cap Steps(x.op) \subseteq {} \/ x.wrote
          /\ "changed" \in Steps(x.op) => OnEntityChanged \subseteq x.told
          /\ "after" \in Steps(x.op) => AfterCreate \subseteq x.told
          /\ x.failed => NextIs(x, "changed") \/ NextIs(x, "after") \/ x.answer = 500
        <3>1. Accounted(x) /\ ~Halted(x)
            BY <1>1, <2>1
        <3>2. QED BY ONLY <2>2, <3>1 DEF Accounted
    <2>5. x.wrote
        BY <2>1, <2>3, <2>4 DEF Course
    <2>6. /\ x.op \in UserOps => "changed" \in Steps(x.op)
          /\ x.op = "org-users.Create" => "after" \in Steps(x.op)
        BY <2>1, <2>3 DEF Course
    <2>7. ~x.failed
        BY <2>2, <2>4 DEF NextIs
    <2>8. QED BY <2>1, <2>4, <2>5, <2>6, <2>7
<1>5. WrittenOnlyIfAccepted
    <2> SUFFICES ASSUME NEW p \in Request, req[p].wrote
                 PROVE  /\ \A k \in DOMAIN req[p].verdicts : req[p].verdicts[k] \in {"ok", "halt"}
                        /\ (req[p].op \in {"org-users.Create", "organizations.Create"} =>
                               Len(req[p].verdicts) = 2)
                        /\ ~Halted(req[p])
        BY DEF WrittenOnlyIfAccepted
    <2>1. PICK x : x = req[p]
        OBVIOUS
    <2>2. \A s \in StepsOf(x.todo) : Place(s) > Place("create")
        BY <1>1, <2>1 DEF Accounted
    <2>3. "before" \notin StepsOf(x.todo)
        BY <2>2, Places
    <2>4. /\ \A k \in DOMAIN x.verdicts : x.verdicts[k] \in {"ok", "halt"}
          /\ ~Halted(x) /\ Len(x.verdicts) = Gates(x.op)
        BY <1>1, <2>1, <2>3 DEF Accepted
    <2>5. QED BY <2>1, <2>4 DEF Gates
<1>6. NoFillAfterAnswer
    BY <1>1 DEF NoFillAfterAnswer, Answered, Accounted, NextIs
<1>7. AnswersStayInScope
    <2> SUFFICES ASSUME NEW p \in Request, Clean(p), NEW k \in DOMAIN req[p].items
                 PROVE  /\ rows[req[p].items[k]].kind = KindOf(req[p].op)
                        /\ req[p].org # None => rows[req[p].items[k]].org = req[p].org
                        /\ Implicit(req[p].op) # "" =>
                              rows[req[p].items[k]].name = Implicit(req[p].op)
        BY DEF AnswersStayInScope
    <2>1. "scope" \notin StepsOf(req[p].todo)
        BY <1>1 DEF Clean, Answered
    <2>2. QED BY <1>1, <2>1 DEF Grounded
<1>8. PageInOrder
    BY DEF EntityInv, IsPage, PageInOrder
<1>9. QED BY <1>2, <1>3, <1>4, <1>5, <1>6, <1>7, <1>8

\* What a step does to a row that there is.
LEMMA RowsStep ==
    ASSUME Bounds, EntityInv, [Next]_vars
    PROVE  \A i \in Used : /\ rows'[i].kind = rows[i].kind /\ rows'[i].org = rows[i].org
                           /\ ~rows[i].live => rows'[i] = rows[i]
<1> DEFINE Faithful == \A i \in Used : /\ rows'[i].kind = rows[i].kind
                                       /\ rows'[i].org = rows[i].org
                                       /\ ~rows[i].live => rows'[i] = rows[i]
<1>1. rows \in [Id -> Row]
    BY DEF EntityInv
<1>2. ASSUME rows' = rows PROVE Faithful
    BY <1>2
<1>3. ASSUME NEW row, Used # Id, rows' = [rows EXCEPT ![NewId] = row] PROVE Faithful
    <2>1. NewId \in Id /\ NewId \notin Used
        BY <1>3, NewIdIsFree
    <2>2. \A i \in Used : i \in Id /\ i # NewId
        BY <2>1 DEF Used
    <2>3. \A i \in Used : rows'[i] = rows[i]
        BY <1>1, <1>3, <2>2
    <2>4. QED BY <2>3
<1>4. ASSUME NEW p \in Request, Create(p) PROVE Faithful
    <2>1. rows' = rows \/ (Used # Id /\ \E row : rows' = [rows EXCEPT ![NewId] = row])
        BY <1>4 DEF Create
    <2> HIDE DEF Faithful
    <2>2. QED BY <1>2, <1>3, <2>1
<1>5. ASSUME NEW p \in Request, Replace(p) PROVE Faithful
    <2>1. CASE rows' = rows
        BY <1>2, <2>1
    <2>2. CASE /\ Live("User", req[p].id)
               /\ rows' = [rows EXCEPT ![req[p].id].name = req[p].name,
                                       ![req[p].id].body = req[p].body,
                                       ![req[p].id].org = req[p].org]
        <3>1. PICK x : x = req[p]
            OBVIOUS
        <3>2. NextIs(x, "replace")
            BY <1>5, <3>1, Zenon DEF Replace, At, NextIs
        <3>3. Kept(rows, rows')
            BY <2>2, <3>1, <3>2, ReplacedRow
        <3>4. PICK j : j = req[p].id
            OBVIOUS
        <3>5. \A i \in Id : i # j => rows'[i] = rows[i]
            BY <1>1, <2>2, <3>4
        <3>6. rows[j].live
            BY <2>2, <3>4 DEF Live
        <3>7. \A i \in Used : i \in Id /\ rows[i].kind # "none"
            BY DEF Used
        <3>8. QED BY <3>3, <3>5, <3>6, <3>7 DEF Kept
    <2>3. QED BY <1>5, <2>1, <2>2, Zenon DEF Replace
<1>6. ASSUME NEW p \in Request, Delete(p) PROVE Faithful
    <2>1. CASE rows' = rows
        BY <1>2, <2>1
    <2>2. CASE /\ Live(KindOf(req[p].op), req[p].id)
               /\ rows' = [rows EXCEPT ![req[p].id].live = FALSE]
        <3>1. PICK j \in Id : j = req[p].id /\ rows[j].live
            BY <2>2 DEF Live, Used
        <3>2. rows' = [rows EXCEPT ![j] = [rows[j] EXCEPT !.live = FALSE]]
            BY <1>1, <2>2, <3>1
        <3>3. \A i \in Id : i # j => rows'[i] = rows[i]
            BY ONLY <1>1, <3>2
        <3>4. rows'[j] = [rows[j] EXCEPT !.live = FALSE]
            BY ONLY <1>1, <3>1, <3>2
        <3>5. rows[j] \in Row
            BY <1>1
        <3>6. rows'[j].kind = rows[j].kind /\ rows'[j].org = rows[j].org
            BY ONLY <3>4, <3>5 DEF Row
        <3>7. \A i \in Used : i \in Id
            BY DEF Used
        <3>8. QED BY <3>1, <3>3, <3>6, <3>7
    <2>3. QED BY <1>6, <2>1, <2>2, Zenon DEF Delete
<1>7. ASSUME NEW p \in Request, Step(p), ~Create(p), ~Replace(p), ~Delete(p)
      PROVE  rows' = rows
    BY <1>7, Zenon DEF Step, Ancestors, Body, Get, Scope, Merge, Upsert, Count, Find, BeforeFill,
       FanOutStart, FanOutEnd, FillReturns, Respond
<1>8. ASSUME NEW p \in Request, NEW op, Arrive(p, op) PROVE rows' = rows
    BY <1>8, Zenon DEF Arrive
<1>9. UNCHANGED vars => rows' = rows
    BY DEF vars
<1> HIDE DEF Faithful
<1>10. Faithful
    BY <1>2, <1>4, <1>5, <1>6, <1>7, <1>8, <1>9, Zenon DEF Next
<1>11. QED BY <1>10 DEF Faithful
=============================================================================
