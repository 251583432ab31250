------------------------------ MODULE WatchSet ------------------------------
(***************************************************************************)
(* The watch set of the Kubernetes client: WatchSet.Run and Replace over   *)
(* Client.Observe.                                                         *)
(*                                                                         *)
(* Run is one loop that starts and stops the watches of the assigned       *)
(* collections and hands their changes to the consumer. Each watch is a    *)
(* goroutine in Observe: it lists its collection and then follows its      *)
(* history, from a version that the server may have forgotten. One list at *)
(* a time is under way. The consumer keeps what it was told (`view`).      *)
(***************************************************************************)
EXTENDS Integers, Sequences, FiniteSets

CONSTANTS
    Path, Identity,   \* collections, and identities of their namespaces
    Object,           \* objects of a collection
    Initial,          \* path -> its objects at first
    Assignment,       \* what Replace is called with: path -> identity, partial
    MaxObjects,       \* limits.MaxObjects
    MaxWatches,       \* bound on the watches that are started
    MaxWrites         \* bound on the changes of the collections

VARIABLES
    history,   \* path -> the sets of objects it has had, newest last
    floor,     \* path -> the oldest version that can still be followed
    watches,   \* the watches started in this session
    active,    \* path -> index of its watch, or 0
    total,     \* totalObjects
    run,       \* the loop of Run
    view       \* path -> what the consumer knows of it

vars == <<history, floor, watches, active, total, run, view>>
serverVars == <<history, floor>>

Watch == DOMAIN watches
NoView == [kind |-> "none", identity |-> 0, objects |-> {}]
Unassigned == [p \in {} |-> 0]

Init ==
    /\ history = [p \in Path |-> <<Initial[p]>>] /\ floor = [p \in Path |-> 1]
    /\ watches = <<>> /\ active = [p \in Path |-> 0] /\ total = 0
    /\ run = [pc |-> "down", request |-> Unassigned, remove |-> {}, waits |-> 0, cancelled |-> FALSE]
    /\ view = [p \in Path |-> NoView]

-----------------------------------------------------------------------------
(***************************************************************************)
(* A watch: the goroutine of start, and Observe.                           *)
(***************************************************************************)

\* rv 0 is the empty version; `listed` is the version of the list under way.
NewWatch(p, identity) ==
    [path |-> p, identity |-> identity, pc |-> "observe", rv |-> 0, listed |-> 0, held |-> FALSE,
     cancelled |-> FALSE, failed |-> FALSE, ready |-> FALSE, sizes |-> {}]

Set(w, change) == watches' = [watches EXCEPT ![w] = change]
Alone == UNCHANGED <<serverVars, active, total, run, view>>

Live(w) == ~watches[w].cancelled /\ ~run.cancelled

\* observe starts: without a version it resets and lists. A repeated RESET first gives
\* up the slot of the list that failed.
BeginObserve(w) ==
    /\ watches[w].pc = "observe" /\ Live(w)
    /\ Set(w, IF watches[w].rv = 0 THEN [watches[w] EXCEPT !.pc = "slot", !.held = FALSE]
              ELSE [watches[w] EXCEPT !.pc = "watch"])
    /\ Alone

TakeSlot(w) ==
    /\ watches[w].pc = "slot" /\ Live(w)
    /\ \A v \in Watch : ~watches[v].held
    /\ Set(w, [watches[w] EXCEPT !.pc = "reset", !.held = TRUE])
    /\ Alone

\* The pages of a list are of one version.
List(w) ==
    /\ watches[w].pc = "list" /\ Live(w)
    /\ Set(w, [watches[w] EXCEPT !.pc = "replace", !.listed = Len(history[watches[w].path])])
    /\ Alone

\* A request fails, or the history that a watch follows has expired; it waits and
\* starts again.
ObserveFails(w) ==
    LET expired == watches[w].rv < floor[watches[w].path] IN
    /\ watches[w].pc \in {"list", "watch"} /\ Live(w)
    /\ Set(w, [watches[w] EXCEPT !.pc = "observe", !.rv = IF expired THEN 0 ELSE @])
    /\ Alone

\* The next event of the history.
Frame(w) ==
    LET p == watches[w].path IN
    /\ watches[w].pc = "watch" /\ Live(w)
    /\ floor[p] <= watches[w].rv /\ watches[w].rv < Len(history[p])
    /\ Set(w, [watches[w] EXCEPT !.pc = "event"])
    /\ Alone

\* Observe returns: access was denied. The slot is released before the result.
Denied(w) ==
    /\ watches[w].pc \in {"list", "watch"} /\ Live(w)
    /\ Set(w, [watches[w] EXCEPT !.pc = "result", !.held = FALSE])
    /\ Alone

\* Its context ends: the goroutine releases what it holds and is done.
Leave(w) ==
    /\ watches[w].pc # "done" /\ ~Live(w)
    /\ Set(w, [watches[w] EXCEPT !.pc = "done", !.held = FALSE, !.rv = 0, !.listed = 0])
    /\ Alone

-----------------------------------------------------------------------------
(***************************************************************************)
(* Run.                                                                    *)
(***************************************************************************)

\* The deferred function of Run: everything is cancelled, and Run waits for it.
Stop == [run EXCEPT !.pc = "stopping", !.cancelled = TRUE, !.request = Unassigned,
                    !.remove = {}, !.waits = 0]

\* Run is called with a consumer, which has been told nothing yet.
BeginRun ==
    /\ run.pc = "down"
    /\ run' = [run EXCEPT !.pc = "loop", !.cancelled = FALSE]
    /\ view' = [p \in Path |-> NoView]
    /\ UNCHANGED <<serverVars, watches, active, total>>

\* The parent's context ends; the loop sees it when it selects.
ParentEnds ==
    /\ run.pc \in {"loop", "replace"} /\ ~run.cancelled
    /\ run' = [run EXCEPT !.cancelled = TRUE]
    /\ UNCHANGED <<serverVars, watches, active, total, view>>

LeaveLoop ==
    /\ run.pc = "loop" /\ run.cancelled /\ run' = Stop
    /\ UNCHANGED <<serverVars, watches, active, total, view>>

\* All watches are done, and the session ends. The consumer is told nothing of it.
EndRun ==
    /\ run.pc = "stopping"
    /\ \A p \in Path : active[p] # 0 => watches[active[p]].pc = "done"
    /\ run' = [run EXCEPT !.pc = "down"]
    /\ watches' = <<>> /\ active' = [p \in Path |-> 0] /\ total' = 0
    /\ UNCHANGED <<serverVars, view>>

\* Mutant: an assignment that changes only the identity keeps the watch.
OutdatedPaths(request) == {p \in Path : active[p] # 0 /\
    (p \notin DOMAIN request \/ watches[active[p]].failed)}

\* The watches that a request removes.
Outdated(request) ==
    {p \in Path : /\ active[p] # 0
                  /\ \/ p \notin DOMAIN request
                     \/ request[p] # watches[active[p]].identity
                     \/ watches[active[p]].failed}

\* Replace is called, and Run receives its request. A call that gives up before has
\* changed nothing; one that gives up later does not stop Run.
Replace(request) ==
    /\ run.pc = "loop"
    /\ LET started == {p \in DOMAIN request : active[p] = 0 \/ p \in Outdated(request)}
       IN  Len(watches) + Cardinality(started) <= MaxWatches
    /\ run' = [run EXCEPT !.pc = "replace", !.request = request, !.remove = Outdated(request)]
    /\ UNCHANGED <<serverVars, watches, active, total, view>>

\* A watch leaves `active` and is cancelled, and Run waits until it is done.
RemoveWatch(p) ==
    /\ run.pc = "replace" /\ run.waits = 0 /\ p \in run.remove
    /\ run' = [run EXCEPT !.waits = active[p], !.remove = @ \ {p}]
    /\ watches' = [watches EXCEPT ![active[p]].cancelled = TRUE]
    /\ active' = [active EXCEPT ![p] = 0]
    /\ UNCHANGED <<serverVars, total, view>>

\* REMOVED, to a consumer that may fail.
Removed(fails) ==
    LET w == run.waits IN
    /\ run.pc = "replace" /\ w # 0 /\ watches[w].pc = "done"
    /\ total' = total - Cardinality(watches[w].sizes)
    /\ watches' = [watches EXCEPT ![w].sizes = {}, ![w].ready = FALSE]
    /\ view' = [view EXCEPT ![watches[w].path] = NoView]
    /\ run' = IF fails THEN Stop ELSE [run EXCEPT !.waits = 0]
    /\ UNCHANGED <<serverVars, active>>

\* The watches that are missing start, and Replace returns.
StartWatches ==
    LET request == run.request
        new == {p \in DOMAIN request : active[p] = 0}
        n == Len(watches)
    IN
    /\ run.pc = "replace" /\ run.waits = 0 /\ run.remove = {}
    /\ \E order \in [1 .. Cardinality(new) -> new] :
          /\ \A p \in new : \E i \in DOMAIN order : order[i] = p
          /\ watches' = watches \o [i \in DOMAIN order |-> NewWatch(order[i], request[order[i]])]
          /\ active' = [p \in Path |-> IF p \in new
                           THEN n + CHOOSE i \in DOMAIN order : order[i] = p ELSE active[p]]
    /\ run' = [run EXCEPT !.pc = "loop"]
    /\ UNCHANGED <<serverVars, total, view>>

\* What a change makes of a set of objects (account).
Applied(w, objects) ==
    LET h == history[watches[w].path]
        rv == watches[w].rv
    IN  CASE watches[w].pc = "reset" -> {}
          [] watches[w].pc = "replace" -> h[watches[w].listed]
          [] watches[w].pc = "event" -> (objects \ (h[rv] \ h[rv + 1])) \cup (h[rv + 1] \ h[rv])

\* An event needs a baseline, and what adds objects keeps to the limit.
Accounted(w) ==
    LET old == watches[w]
        sizes == Applied(w, old.sizes)
    IN  /\ old.pc = "event" => old.ready
        /\ old.pc = "replace" \/ sizes \ old.sizes # {}
              => total - Cardinality(old.sizes) + Cardinality(sizes) <= MaxObjects

\* Run receives a change: it counts its objects, tells the consumer and answers the
\* watch. A change that cannot be counted, or a failing consumer, ends Run.
Deliver(w, fails) ==
    LET old == watches[w]
        sizes == Applied(w, old.sizes)
    IN
    /\ run.pc = "loop" /\ old.pc \in {"reset", "replace", "event"} /\ ~old.cancelled
    /\ IF active[old.path] # w
       THEN Set(w, [old EXCEPT !.pc = "result", !.held = FALSE]) /\ UNCHANGED <<run, total, view>>
       ELSE IF ~Accounted(w) THEN run' = Stop /\ UNCHANGED <<watches, total, view>>
       ELSE /\ run' = IF fails THEN Stop ELSE run
            /\ total' = total - Cardinality(old.sizes) + Cardinality(sizes)
            /\ view' = [view EXCEPT ![old.path] =
                  [kind |-> IF old.pc = "reset" THEN "reset" ELSE "baseline",
                   identity |-> old.identity, objects |-> Applied(w, @.objects)]]
            /\ Set(w, CASE old.pc = "reset" ->
                              [old EXCEPT !.pc = "list", !.sizes = {}, !.ready = FALSE]
                        [] old.pc = "replace" ->
                              [old EXCEPT !.pc = "watch", !.sizes = sizes, !.ready = TRUE,
                                          !.rv = old.listed, !.listed = 0, !.held = FALSE]
                        [] old.pc = "event" ->
                              [old EXCEPT !.pc = "watch", !.sizes = sizes, !.rv = @ + 1])
    /\ UNCHANGED <<serverVars, active>>

\* Run receives the end of a watch: RESET with an error, until the next Replace.
Result(w, fails) ==
    LET old == watches[w] IN
    /\ run.pc = "loop" /\ old.pc = "result" /\ ~old.cancelled
    /\ IF active[old.path] # w
       THEN Set(w, [old EXCEPT !.pc = "done"]) /\ UNCHANGED <<run, total, view>>
       ELSE /\ Set(w, [old EXCEPT !.pc = "done", !.cancelled = TRUE, !.failed = TRUE,
                                  !.rv = 0, !.sizes = {}, !.ready = FALSE])
            /\ total' = total - Cardinality(old.sizes)
            /\ view' = [view EXCEPT ![old.path] =
                           [kind |-> "reset", identity |-> old.identity, objects |-> {}]]
            /\ run' = IF fails THEN Stop ELSE run
    /\ UNCHANGED <<serverVars, active>>

-----------------------------------------------------------------------------
(***************************************************************************)
(* The server.                                                             *)
(***************************************************************************)

\* What was written since the start.
Writes == UNION {{p} \X (2 .. Len(history[p])) : p \in Path}

Write(p, o) ==
    LET now == history[p][Len(history[p])] IN
    /\ Cardinality(Writes) < MaxWrites
    /\ history' = [history EXCEPT ![p] = Append(@, IF o \in now THEN now \ {o} ELSE now \cup {o})]
    /\ UNCHANGED <<floor, watches, active, total, run, view>>

Compact(p) ==
    /\ floor[p] < Len(history[p])
    /\ floor' = [floor EXCEPT ![p] = Len(history[p])]
    /\ UNCHANGED <<history, watches, active, total, run, view>>

Next ==
    \/ \E w \in Watch :
          \/ BeginObserve(w) \/ TakeSlot(w) \/ List(w) \/ ObserveFails(w) \/ Frame(w)
          \/ Denied(w) \/ Leave(w)
          \/ \E fails \in BOOLEAN : Deliver(w, fails) \/ Result(w, fails)
    \/ BeginRun \/ ParentEnds \/ LeaveLoop \/ EndRun
    \/ \E fails \in BOOLEAN : Removed(fails)
    \/ StartWatches
    \/ \E p \in Path : RemoveWatch(p) \/ Compact(p) \/ \E o \in Object : Write(p, o)
    \/ \E request \in Assignment : Replace(request)

Spec == Init /\ [][Next]_vars

-----------------------------------------------------------------------------
(***************************************************************************)
(* Properties.                                                             *)
(***************************************************************************)

TypeOK ==
    /\ \A p \in Path : active[p] \in 0 .. Len(watches) /\ floor[p] \in DOMAIN history[p]
    /\ run.waits \in 0 .. Len(watches) /\ run.remove \subseteq Path
    /\ run.pc \in {"down", "loop", "replace", "stopping"}

\* A baseline that the consumer has is what the collection was at the version of its
\* active watch, of the same identity; a path without a watch, or with a failed one,
\* has none (Deliver, Removed, Result; Observe's version).
ViewIsTrue ==
    run.pc = "loop" => \A p \in Path :
        LET w == active[p] IN
        IF w = 0 THEN view[p] = NoView
        ELSE /\ view[p].kind = "baseline" <=> watches[w].ready
             /\ view[p].kind # "none" => view[p].identity = watches[w].identity
             /\ watches[w].ready => /\ ~watches[w].failed
                                    /\ watches[w].rv = 0 \/ view[p].objects = history[p][watches[w].rv]

\* The objects of the watches, each with the watch that counts it.
Counted(list) == UNION {{w} \X list[w].sizes : w \in DOMAIN list}

\* The objects are counted exactly and within the limit.
ObjectsCounted ==
    run.pc \in {"loop", "replace"} =>
        /\ total = Cardinality(Counted(watches))
        /\ total <= MaxObjects
        /\ \A p \in Path : active[p] # 0 /\ view[p].kind = "baseline"
                                => watches[active[p]].sizes = view[p].objects

\* The loop watches exactly what it was assigned last, no event comes before a
\* baseline, one list at most is under way, and a watch that was replaced is done
\* before Run goes on (Replace, start, baseline, done).
WatchesAreAssigned ==
    /\ run.pc = "loop" =>
          /\ {p \in Path : active[p] # 0} = DOMAIN run.request
          /\ \A p \in DOMAIN run.request : watches[active[p]].identity = run.request[p]
          /\ \A w \in Watch : watches[w].pc # "done" => active[watches[w].path] = w
    /\ Cardinality({w \in Watch : watches[w].held}) <= 1
    /\ \A w \in Watch : watches[w].pc = "event" => watches[w].ready \/ run.pc = "stopping"

-----------------------------------------------------------------------------
(***************************************************************************)
(* The inductive invariant behind the properties.                          *)
(***************************************************************************)

IsAssignment(request) ==
    /\ DOMAIN request \subseteq Path /\ IsFiniteSet(DOMAIN request)
    /\ \A p \in DOMAIN request : request[p] \in Identity

\* What the constants are: collections and assignments are finite.
Objects == {S \in SUBSET Object : IsFiniteSet(S)}
Bounds ==
    /\ Initial \in [Path -> Objects] /\ MaxObjects \in Nat
    /\ \A request \in Assignment : IsAssignment(request)

WatchState ==
    [path : Path, identity : Identity,
     pc : {"observe", "slot", "reset", "list", "replace", "watch", "event", "result", "done"},
     rv : Nat, listed : Nat, held : BOOLEAN, cancelled : BOOLEAN, failed : BOOLEAN,
     ready : BOOLEAN, sizes : Objects]

Types ==
    /\ history \in [Path -> Seq(Objects)] /\ floor \in [Path -> Nat]
    /\ watches \in Seq(WatchState) /\ active \in [Path -> 0 .. Len(watches)]
    /\ run \in [pc : {"down", "loop", "replace", "stopping"}, request : {run.request},
                remove : SUBSET Path, waits : 0 .. Len(watches), cancelled : BOOLEAN]
    /\ IsAssignment(run.request) /\ view = [p \in Path |-> view[p]]
    /\ \A p \in Path : floor[p] \in 1 .. Len(history[p])

\* A watch x of the history h has a version exactly when it follows it, and then a
\* baseline, until it ends.
Follows(x, h) ==
    /\ x.rv <= Len(h) /\ x.listed <= Len(h)
    /\ x.pc = "replace" => x.listed > 0
    /\ x.pc \in {"slot", "reset", "list", "replace"} => x.rv = 0
    /\ x.pc \in {"watch", "event"} => x.rv > 0
    /\ x.pc = "event" => x.rv < Len(h)
    /\ x.rv > 0 /\ x.pc # "done" => x.ready
    /\ x.failed => x.pc = "done" /\ ~x.ready

OneSlot == \A v, w \in Watch : watches[v].held /\ watches[w].held => v = w

\* What the consumer knows of p, v, is what the watch x of p counts, and what the
\* collection was at its version.
Shows(v, x, h) ==
    /\ v.kind = "baseline" <=> x.ready
    /\ v.kind # "none" => v.identity = x.identity
    /\ x.ready => /\ x.rv = 0 \/ v.objects = h[x.rv]
                  /\ x.sizes = v.objects

\* The session while the loop runs, and while it replaces watches.
Session ==
    /\ total = Cardinality(Counted(watches)) /\ total <= MaxObjects
    /\ \A p \in Path : active[p] # 0 =>
          watches[active[p]].path = p /\ Shows(view[p], watches[active[p]], history[p])
    /\ \A p \in Path : active[p] = 0 =>
          view[p] = NoView \/ (run.waits # 0 /\ watches[run.waits].path = p)
    /\ \A w \in Watch : watches[w].pc # "done" => active[watches[w].path] = w \/ run.waits = w

\* What Replace has still to do.
Replacing ==
    /\ \A p \in run.remove : active[p] # 0
    /\ \A p \in Path \ run.remove : active[p] # 0 =>
          p \in DOMAIN run.request /\ watches[active[p]].identity = run.request[p]
    /\ run.waits # 0 => active[watches[run.waits].path] = 0

Quiet ==
    /\ run.pc # "replace" => run.remove = {} /\ run.waits = 0
    /\ run.pc \in {"down", "stopping"} => run.request = Unassigned
    /\ run.pc = "down" => watches = <<>> /\ total = 0 /\ \A p \in Path : active[p] = 0

WatchInv ==
    /\ Types /\ OneSlot /\ Quiet
    /\ \A w \in Watch : Follows(watches[w], history[watches[w].path])
    /\ run.pc \in {"loop", "replace"} => Session
    /\ run.pc = "replace" => Replacing
    /\ run.pc = "loop" =>
          /\ {p \in Path : active[p] # 0} = DOMAIN run.request
          /\ \A p \in DOMAIN run.request : watches[active[p]].identity = run.request[p]
=============================================================================
