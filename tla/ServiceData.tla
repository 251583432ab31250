----------------------------- MODULE ServiceData -----------------------------
(***************************************************************************)
(* The data of a generated service: a behaviour runs the transactions of   *)
(* the store or the handlers of the API, as `part` says, and the other one *)
(* stays as it starts. A member of Tx is a transaction or a request.       *)
(***************************************************************************)
EXTENDS StoreTransaction

CONSTANTS
    MaxId, Name, Generation, Seed, OrgPath, IdPath, Page, Size, DefaultSize, MaxSize,
    Offered                      \* as in EntityService

VARIABLES part, rows, req

EntityPart == INSTANCE EntityServiceProofs WITH Request <- Tx

ASSUME EntityAssumption == EntityPart!Bounds

-----------------------------------------------------------------------------
entityVars == <<rows, req>>

DataInit == part \in {"store", "entity"} /\ Init /\ EntityPart!Init

DataNext ==
    \/ part = "store" /\ Next /\ UNCHANGED <<part, entityVars>>
    \/ part = "entity" /\ EntityPart!Next /\ UNCHANGED <<part, vars>>

dataVars == <<part, vars, entityVars>>

DataSpec == DataInit /\ [][DataNext]_dataVars

-----------------------------------------------------------------------------
\* The HTTP handlers: what a status code says of the rows and of the fills is true
\* whatever the other requests did between the handler's reads and its writes
\* (the handlers of out/internal/api with the slots and the store they call).
\* EntityInv is the inductive invariant.
AnswersAreTrue ==
    /\ EntityPart!EntityInv
    /\ EntityPart!TypeOK /\ EntityPart!ClientErrorChangesNothing /\ EntityPart!SuccessMeansDone
    /\ EntityPart!WrittenOnlyIfAccepted /\ EntityPart!NoFillAfterAnswer
    /\ EntityPart!AnswersStayInScope /\ EntityPart!PageInOrder

\* Their writes: no row moves to another organization or kind, and a deleted row
\* never changes again (Replace, Delete).
RowsKeepFaith == EntityPart!RowsKeepIdentity /\ EntityPart!DeletedIsFinal
=============================================================================
