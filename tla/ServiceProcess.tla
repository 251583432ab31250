--------------------------- MODULE ServiceProcess ---------------------------
(***************************************************************************)
(* The process of a generated service (out/main.go, the Run methods of     *)
(* out/health and out/internal/events): the stages of its start, the tasks *)
(* it runs until a signal or a failure, the drain of its HTTP requests and *)
(* the deferred cleanup.                                                   *)
(***************************************************************************)
EXTENDS Integers, Sequences, FiniteSets

CONSTANTS
    Request,   \* HTTP requests
    Hijacked   \* the requests whose handler takes over its connection

\* The stages of run, and what main defers to close after them.
Stages == <<"database.configure", "database.open", "database.ping", "migrate", "store",
            "tracing", "health", "auth", "runtime", "http.configure", "http.listen">>
Resource == {"database.open", "tracing", "runtime", "http.listen"}
Task == {"http", "health", "kafka"}

VARIABLES
    phase,     \* "starting", "running", "cleanup" or "exited"
    stage,     \* the stages that are done
    signal,    \* the parent context is cancelled
    ended,     \* the context of the tasks is cancelled
    opened,    \* the resources to close, the last one first
    task,      \* task -> "new", "running", "sent" (its result waits) or "collected"
    failed,    \* the tasks that returned a failure, or "start"
    http,      \* "no", "serving", "shutdown", "draining" or "returned"
    trouble,   \* an error of the HTTP server so far
    stopped,   \* stegoHTTPRequests.stopped
    request,   \* request -> "new", "active", "done" or "unavailable"
    busy       \* a goroutine of the outbox worker delivers a message

vars == <<phase, stage, signal, ended, opened, task, failed, http, trouble, stopped, request, busy>>

Init ==
    /\ phase = "starting" /\ stage = 0 /\ signal = FALSE /\ ended = FALSE /\ opened = <<>>
    /\ task = [t \in Task |-> "new"] /\ failed = {}
    /\ http = "no" /\ trouble = FALSE /\ stopped = FALSE
    /\ request = [r \in Request |-> "new"] /\ busy = FALSE

Active == {r \in Request : request[r] = "active"}
Lifetime == <<phase, stage, opened>>
Server == <<http, trouble, stopped, request>>

-----------------------------------------------------------------------------
\* A stage of run succeeds.
Start ==
    /\ phase = "starting" /\ stage < Len(Stages)
    /\ stage' = stage + 1
    /\ opened' = IF Stages[stage'] \in Resource THEN <<Stages[stage']>> \o opened ELSE opened
    /\ UNCHANGED <<phase, signal, ended, task, failed, Server, busy>>

\* Or it fails: run returns, and only what was opened is closed.
StartFails ==
    /\ phase = "starting" /\ stage < Len(Stages)
    /\ phase' = "cleanup" /\ failed' = {"start"}
    /\ UNCHANGED <<stage, opened, signal, ended, task, Server, busy>>

\* stegoRunTasks: nothing runs after a signal; else every task has its goroutine.
RunTasks ==
    /\ phase = "starting" /\ stage = Len(Stages)
    /\ IF signal THEN phase' = "cleanup" /\ UNCHANGED <<task, http>>
       ELSE /\ phase' = "running" /\ task' = [t \in Task |-> "running"] /\ http' = "serving"
    /\ UNCHANGED <<stage, opened, signal, ended, failed, trouble, stopped, request, busy>>

Signal ==
    /\ ~signal /\ signal' = TRUE
    /\ UNCHANGED <<Lifetime, ended, task, failed, Server, busy>>

\* The cancellation of the parent reaches the context of the tasks.
Propagate ==
    /\ signal /\ ~ended /\ ended' = TRUE
    /\ UNCHANGED <<Lifetime, signal, task, failed, Server, busy>>

\* The deferred function of a task's goroutine: err is "nil", "canceled" or
\* "error"; a panic is an error.
Settled(t, err) ==
    LET over == signal \/ ended
        fails == err = "error" \/ (err = "nil" /\ ~over) \/ (err = "canceled" /\ ~over)
    IN
    /\ task' = [task EXCEPT ![t] = "sent"]
    /\ failed' = IF fails THEN failed \cup {t} ELSE failed

\* The first failure cancels the others.
Collect(t) ==
    /\ phase = "running" /\ task[t] = "sent"
    /\ task' = [task EXCEPT ![t] = "collected"]
    /\ ended' = (ended \/ t \in failed)
    /\ UNCHANGED <<Lifetime, signal, failed, Server, busy>>

\* Mutant: the first result ends the service.
AllReturnedFirst ==
    /\ phase = "running" /\ \E t \in Task : task[t] = "collected"
    /\ phase' = "cleanup"
    /\ UNCHANGED <<stage, opened, signal, ended, task, failed, Server, busy>>

AllReturned ==
    /\ phase = "running" /\ \A t \in Task : task[t] = "collected"
    /\ phase' = "cleanup"
    /\ UNCHANGED <<stage, opened, signal, ended, task, failed, Server, busy>>

-----------------------------------------------------------------------------
(* The tasks *)

\* Monitor.Run returns nil when its context, or the one it was made with, ends.
HealthReturns ==
    /\ task["health"] = "running" /\ (ended \/ signal) /\ Settled("health", "nil")
    /\ UNCHANGED <<Lifetime, signal, ended, Server, busy>>

\* The worker of Runtime.Run claims and delivers until its context ends; a
\* delivery that is under way is finished first.
BeginDelivery ==
    /\ task["kafka"] = "running" /\ ~ended /\ ~busy /\ busy' = TRUE
    /\ UNCHANGED <<Lifetime, signal, ended, task, failed, Server>>

EndDelivery ==
    /\ busy /\ busy' = FALSE
    /\ UNCHANGED <<Lifetime, signal, ended, task, failed, Server>>

KafkaReturns ==
    /\ task["kafka"] = "running" /\ ended /\ ~busy /\ Settled("kafka", "nil")
    /\ UNCHANGED <<Lifetime, signal, ended, Server, busy>>

\* A task returns an error, or nil before anyone asked, or panics.
TaskFails(t, err) ==
    /\ t # "http" /\ task[t] = "running" /\ (t = "kafka" => ~busy) /\ Settled(t, err)
    /\ UNCHANGED <<Lifetime, signal, ended, Server, busy>>

\* stegoHTTPRequests.ServeHTTP. A connection that is open can bring a request
\* until Shutdown has closed it.
Arrive(r) ==
    /\ http \in {"serving", "shutdown", "draining"} /\ request[r] = "new"
    /\ request' = [request EXCEPT ![r] = IF stopped THEN "unavailable" ELSE "active"]
    /\ UNCHANGED <<Lifetime, signal, ended, task, failed, http, trouble, stopped, busy>>

Finish(r) ==
    /\ request[r] = "active" /\ request' = [request EXCEPT ![r] = "done"]
    /\ UNCHANGED <<Lifetime, signal, ended, task, failed, http, trouble, stopped, busy>>

\* stegoServeHTTP: Shutdown begins, or Serve fails and the server closes at once.
BeginShutdown ==
    /\ http = "serving" /\ ended /\ http' = "shutdown"
    /\ UNCHANGED <<Lifetime, signal, ended, task, failed, trouble, stopped, request, busy>>

ServeFails ==
    /\ http = "serving" /\ http' = "draining" /\ trouble' = TRUE /\ stopped' = TRUE
    /\ UNCHANGED <<Lifetime, signal, ended, task, failed, request, busy>>

\* Shutdown ends: it does not wait for a hijacked connection. Then drain.
EndShutdown(late) ==
    /\ http = "shutdown" /\ (late \/ Active \subseteq Hijacked)
    /\ http' = "draining" /\ trouble' = (trouble \/ late) /\ stopped' = TRUE
    /\ UNCHANGED <<Lifetime, signal, ended, task, failed, request, busy>>

\* Mutant: drain has no deadline.
EndDrainWaits(late) ==
    /\ http = "draining" /\ ~late /\ Active = {}
    /\ http' = "returned" /\ Settled("http", IF trouble THEN "error" ELSE "nil")
    /\ UNCHANGED <<Lifetime, signal, ended, trouble, stopped, request, busy>>

\* drain ends: no handler is left, or the deadline has passed.
EndDrain(late) ==
    /\ http = "draining" /\ (late \/ Active = {})
    /\ http' = "returned" /\ Settled("http", IF trouble \/ late THEN "error" ELSE "nil")
    /\ UNCHANGED <<Lifetime, signal, ended, trouble, stopped, request, busy>>

-----------------------------------------------------------------------------
\* A deferred close.
Close ==
    /\ phase = "cleanup" /\ opened # <<>> /\ opened' = Tail(opened)
    /\ UNCHANGED <<phase, stage, signal, ended, task, failed, Server, busy>>

Exit ==
    /\ phase = "cleanup" /\ opened = <<>> /\ phase' = "exited"
    /\ UNCHANGED <<stage, opened, signal, ended, task, failed, Server, busy>>

Steps ==
    \/ Start \/ RunTasks \/ Propagate \/ AllReturned \/ HealthReturns \/ EndDelivery \/ KafkaReturns
    \/ BeginShutdown \/ Close \/ Exit
    \/ \E t \in Task : Collect(t)

Deadlines == \E late \in BOOLEAN : EndShutdown(late) \/ EndDrain(late)

Next ==
    \/ Steps \/ Deadlines \/ StartFails \/ Signal \/ BeginDelivery \/ ServeFails
    \/ \E t \in Task, err \in {"nil", "error"} : TaskFails(t, err)
    \/ \E r \in Request : Arrive(r) \/ Finish(r)

Spec == Init /\ [][Next]_vars

\* The goroutines of the process run on, a delivery ends by its timeout, and the
\* deadline of the drain passes. Nothing is asked of a handler.
FairSpec ==
    /\ Spec /\ WF_vars(Deadlines)
    /\ WF_vars(Start) /\ WF_vars(RunTasks) /\ WF_vars(Propagate) /\ WF_vars(AllReturned)
    /\ WF_vars(HealthReturns) /\ WF_vars(EndDelivery) /\ WF_vars(KafkaReturns)
    /\ WF_vars(BeginShutdown) /\ WF_vars(Close) /\ WF_vars(Exit)
    /\ \A t \in Task : WF_vars(Collect(t))

-----------------------------------------------------------------------------
ExitCode == IF failed = {} THEN 0 ELSE 1

\* Nothing that a task uses is closed while the task runs or a delivery is under way,
\* and a handler that outlives the drain makes the exit code 1; a service never runs on
\* without one of its tasks, and it ends with 0 only after a signal, with every request
\* answered (stegoRunTasks, stegoServeHTTP, the deferred closes of run).
ExitIsHonest ==
    /\ (\E t \in Task : task[t] = "collected") => signal \/ ended
    /\ phase \in {"cleanup", "exited"} =>
          /\ ~busy /\ \A t \in Task : task[t] \in {"new", "collected"}
          /\ Active # {} => "http" \in failed
    /\ phase = "exited" =>
          opened = <<>> /\ (ExitCode = 0 => signal /\ Active = {})

\* A signal ends the process, whatever its handlers do (the drain deadline, and the
\* contract that a task returns after cancellation).
SignalEnds == signal ~> phase = "exited"

-----------------------------------------------------------------------------
\* The inductive invariant behind ExitIsHonest: a task that has returned has failed,
\* or somebody had asked it to end; and the HTTP task returns after its handlers, or
\* fails.
Returned(t) == task[t] \in {"sent", "collected"}

ProcessInv ==
    /\ task = [t \in Task |-> task[t]] /\ request = [r \in Request |-> request[r]]
    /\ {signal, ended, busy, trouble, stopped} \subseteq BOOLEAN
    /\ phase \in {"starting", "running", "cleanup", "exited"}
    /\ \A t \in Task : task[t] \in {"new", "running", "sent", "collected"}
    /\ phase = "starting" => \A t \in Task : task[t] = "new"
    /\ phase \in {"cleanup", "exited"} => \A t \in Task : task[t] \in {"new", "collected"}
    /\ \A t \in Task : task[t] = "new" <=> task["http"] = "new"
    /\ (http = "no") = (task["http"] = "new")
    /\ (http \in {"serving", "shutdown", "draining"}) = (task["http"] = "running")
    /\ (http = "returned") = Returned("http")
    /\ http = "no" => Active = {}
    /\ http = "returned" => Active = {} \/ "http" \in failed
    /\ busy => task["kafka"] = "running"
    /\ \A t \in Task : Returned(t) => t \in failed \/ signal \/ ended
    /\ \A t \in Task : task[t] = "collected" => signal \/ ended
    /\ ended => signal \/ failed # {}
    /\ phase \in {"cleanup", "exited"} => signal \/ failed # {}
    /\ phase = "exited" => opened = <<>>
=============================================================================
