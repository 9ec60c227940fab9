---------------------------- MODULE PlanScheduler ----------------------------
(***************************************************************************)
(* The distributed scheduler of one deploy plan                            *)
(* (backend/src/app/tasks.py: start_plan_task, run_plan_operation_task and  *)
(* _advance_plan, over Celery, MongoDB and Valkey).                         *)
(*                                                                         *)
(* The actors are Celery worker slots.  A slot holds one task message at a  *)
(* time and is interrupted by the others between any two round trips to     *)
(* MongoDB (plan_runs.scheduler.ops), to the broker, or to Valkey (the      *)
(* job's snapshot and its cancel flag), so each round trip is one action.   *)
(* Messages are acknowledged late: a message whose slot dies is delivered   *)
(* again, and the broker may deliver again the message of a slow task.      *)
(***************************************************************************)
EXTENDS Integers, FiniteSets

CONSTANTS
    Ops,            \* operations of the compiled plan
    Deps,           \* Deps[o]: the operations o depends on (PlanOp.depends_on)
    CloneOps,       \* the createVm operations: they go to the esxi queue
    Start,          \* the start_plan_v2 task
    Workers,        \* worker slots of both queues
    EsxiWorkers,    \* the slots that consume the esxi queue
    CancelModes,    \* stop requests a user may make: subset of step, operation
    AdminStops,     \* TRUE if an administrator may stop the plan with a reason
    MaxEnqueueFaults,   \* bound: failing apply_async calls
    MaxCrashes,         \* bound: slots that die in an operation's task
    MaxRedeliveries,    \* bound: deliveries again of the message of a slow task
    MaxStartRedeliveries, \* bound: the same for the start task
    MaxOutages          \* bound: publishes to Valkey that raise

NoTask == "none"

ASSUME OpsAssumption ==
    /\ IsFiniteSet(Ops) /\ Ops # {}
    /\ Start \notin Ops
    /\ NoTask \notin Ops \cup {Start}
    /\ CloneOps \subseteq Ops
    /\ Deps \in [Ops -> SUBSET Ops]
ASSUME DepsAreAcyclic ==       \* LabDeploysProofs!PlansAreAcyclic
    \A S \in SUBSET Ops : S # {} => \E o \in S : Deps[o] \cap S = {}
ASSUME WorkersAssumption ==
    /\ EsxiWorkers \subseteq Workers
    /\ CancelModes \subseteq {"step", "operation"}
    /\ AdminStops \in BOOLEAN
ASSUME BoundsAssumption ==
    /\ MaxEnqueueFaults \in Nat /\ MaxCrashes \in Nat /\ MaxRedeliveries \in Nat
    /\ MaxStartRedeliveries \in Nat /\ MaxOutages \in Nat

VARIABLES
    status,     \* plan_runs.scheduler.ops[o].status ("absent": no scheduler yet)
    runs,       \* how often the body of o was begun on the lab
    inbox,      \* messages in the broker's queues, per task
    snapshot,   \* jobs:{id}:snapshot, the last message published
    cancel,     \* jobs:{id}:cancel
    reason,     \* jobs:{id}:cancel:reason is set
    held,       \* the task a worker slot holds
    pc,         \* where the slot is in its task
    sending,    \* the operation it claimed and is about to enqueue
    seen,       \* the operation states the slot read last
    ready,      \* operations the slot is still to enqueue
    blocked,    \* operations the slot is still to cancel
    changed,    \* `changed` of the cascade loop
    failed,     \* `enqueue_failed`
    rescue,     \* the slot is in the except handler of its task
    faults      \* how much of each bound is used; history: how many operations were deserted

planVars == <<status, runs, inbox>>
jobVars == <<snapshot, cancel, reason>>
localVars == <<held, pc, sending, seen, ready, blocked, changed, failed, rescue>>
vars == <<planVars, jobVars, localVars, faults>>

Tasks == Ops \cup {Start}

Terminal == {"done", "error", "cancelled"}
Statuses == {"pending", "queued", "running"} \cup Terminal \cup {"absent"}
NoStates == [o \in Ops |-> "absent"]

Message(kind, states) == [kind |-> kind, ops |-> states]
TerminalKinds == {"done", "error"}

OpSteps == {"claim", "check", "begin", "readRun", "publishRun", "body",
            "finish", "readEnd", "publishEnd"}
StartSteps == {"setup", "reset", "announce"}
AdvanceSteps == {"advance", "cascade", "enqueue", "send", "readStates",
                 "publishStates", "conclude"}

Steps == {"idle"} \cup OpSteps \cup StartSteps \cup AdvanceSteps
Kinds == {"none", "queued", "running", "planState", "done", "error"}
Faults == {"enqueue", "crash", "redeliver", "restart", "outage", "deserted"}

\* Which task a slot can be in at each of its steps.
StepFits(w) ==
    /\ pc[w] = "idle" => held[w] = NoTask
    /\ pc[w] \in StartSteps => held[w] = Start
    /\ pc[w] \in OpSteps => held[w] \in Ops
    /\ pc[w] \in AdvanceSteps => held[w] \in Tasks
    /\ pc[w] = "send" <=> sending[w] # NoTask

TypeOK ==
    /\ status \in [Ops -> Statuses]
    /\ runs \in [Ops -> Nat]
    /\ inbox \in [Tasks -> Nat]
    /\ snapshot \in [kind : Kinds, ops : [Ops -> Statuses]]
    /\ cancel \in {"none", "step", "operation"}
    /\ reason \in BOOLEAN
    /\ held \in [Workers -> Tasks \cup {NoTask}]
    /\ pc \in [Workers -> Steps]
    /\ sending \in [Workers -> Ops \cup {NoTask}]
    /\ seen \in [Workers -> [Ops -> Statuses]]
    /\ ready \in [Workers -> SUBSET Ops]
    /\ blocked \in [Workers -> SUBSET Ops]
    /\ changed \in [Workers -> BOOLEAN]
    /\ failed \in [Workers -> BOOLEAN]
    /\ rescue \in [Workers -> BOOLEAN]
    /\ faults \in [Faults -> Nat]
    /\ \A w \in Workers : StepFits(w)

Init ==
    /\ status = NoStates
    /\ runs = [o \in Ops |-> 0]
    /\ inbox = [t \in Tasks |-> 0]
    /\ snapshot = Message("none", NoStates)
    /\ cancel = "none"
    /\ reason = FALSE
    /\ held = [w \in Workers |-> NoTask]
    /\ pc = [w \in Workers |-> "idle"]
    /\ sending = [w \in Workers |-> NoTask]
    /\ seen = [w \in Workers |-> NoStates]
    /\ ready = [w \in Workers |-> {}]
    /\ blocked = [w \in Workers |-> {}]
    /\ changed = [w \in Workers |-> FALSE]
    /\ failed = [w \in Workers |-> FALSE]
    /\ rescue = [w \in Workers |-> FALSE]
    /\ faults = [f \in Faults |-> 0]

-----------------------------------------------------------------------------
\* Decisions of the scheduler on a set of operation states.

DependenciesDone(s, o) == \A d \in Deps[o] : s[d] = "done"
DependencyFailed(s, o) == \E d \in Deps[o] : s[d] \in {"error", "cancelled"}

\* ready_plan_operations: the pending operations to enqueue and to cancel.
PendingOps(s) == {o \in Ops : s[o] = "pending"}
BlockedOps(s) == {o \in Ops : s[o] = "pending" /\ DependencyFailed(s, o)}
\* Mutant: one finished dependency is enough.
ReadyEarly(s) ==
    {o \in PendingOps(s) : /\ ~DependencyFailed(s, o)
                           /\ Deps[o] = {} \/ \E d \in Deps[o] : s[d] = "done"}
ReadyOps(s) ==
    {o \in Ops : /\ s[o] = "pending"
                 /\ ~DependencyFailed(s, o)
                 /\ DependenciesDone(s, o)}

\* Mutant: the operation is enqueued without comparing its status first.
EnqueueAnyway(o) == status[o] # "absent"
EnqueueClaims(o) == status[o] = "pending"
TaskClaims(o) == status[o] = "queued"

\* Mutant: the plan concludes while an operation still runs.
NoneWaiting(s) == \A o \in Ops : s[o] \in Terminal \cup {"running"}
\* Mutant: the plan concludes only if every operation succeeded.
AllDone(s) == \A o \in Ops : s[o] = "done"
AllTerminal(s) == \A o \in Ops : s[o] \in Terminal

\* _advance_plan's routing: only a clone goes to the esxi queue, which the
\* start task shares with it (celery_app.task_routes).
OnEsxiQueue(t) == t \in CloneOps \cup {Start}
Consumes(w, t) == OnEsxiQueue(t) <=> w \in EsxiWorkers

-----------------------------------------------------------------------------
\* Steps of a slot.

Goto(w, step) == pc' = [pc EXCEPT ![w] = step]
At(w, step) == pc[w] = step

\* The task function returns: its message is acknowledged, its locals vanish.
Release(w) ==
    /\ pc' = [pc EXCEPT ![w] = "idle"]
    /\ held' = [held EXCEPT ![w] = NoTask]
    /\ sending' = [sending EXCEPT ![w] = NoTask]
    /\ seen' = [seen EXCEPT ![w] = NoStates]
    /\ ready' = [ready EXCEPT ![w] = {}]
    /\ blocked' = [blocked EXCEPT ![w] = {}]
    /\ changed' = [changed EXCEPT ![w] = FALSE]
    /\ failed' = [failed EXCEPT ![w] = FALSE]
    /\ rescue' = [rescue EXCEPT ![w] = FALSE]

ReadStates(w) == seen' = [seen EXCEPT ![w] = status]
Publish(kind, states) == snapshot' = Message(kind, states)

-----------------------------------------------------------------------------
\* The API process.

\* POST /deploy: the run document, the queued snapshot and the start task.
Deploy ==
    /\ snapshot.kind = "none"
    /\ Publish("queued", NoStates)
    /\ inbox' = [inbox EXCEPT ![Start] = @ + 1]
    /\ UNCHANGED <<status, runs, cancel, reason, localVars, faults>>

\* POST /deploy/{id}/cancel: the owner's own stop carries no reason.
CancelOwn ==
    /\ snapshot.kind # "none"
    /\ \E mode \in CancelModes : cancel' = mode
    /\ UNCHANGED <<planVars, snapshot, reason, localVars, faults>>

\* POST /admin/deployments/stop: only plans with a non-terminal operation.
StopByAdmin ==
    /\ AdminStops
    /\ \E o \in Ops : status[o] \notin Terminal \cup {"absent"}
    /\ \E mode \in {"step", "operation"} : cancel' = mode
    /\ reason' = TRUE
    /\ UNCHANGED <<planVars, snapshot, localVars, faults>>

-----------------------------------------------------------------------------
\* start_plan_task

Take(w) ==
    /\ At(w, "idle")
    /\ \E t \in Tasks :
          /\ inbox[t] > 0
          /\ Consumes(w, t)
          /\ inbox' = [inbox EXCEPT ![t] = @ - 1]
          /\ held' = [held EXCEPT ![w] = t]
          /\ Goto(w, IF t = Start THEN "setup" ELSE "claim")
    /\ UNCHANGED <<status, runs, jobVars, sending, seen, ready, blocked, changed,
                   failed, rescue, faults>>

\* Compiling, connecting and the second preflight.  A failure publishes the
\* terminal error and ends the task before any operation exists.
SetUp(w) ==
    /\ At(w, "setup")
    /\ Goto(w, "reset")
    /\ Publish("queued", NoStates)
    /\ UNCHANGED <<planVars, cancel, reason, held, sending, seen, ready, blocked, changed,
                   failed, rescue, faults>>

SetUpFails(w) ==
    /\ At(w, "setup")
    /\ Publish("error", NoStates)
    /\ Release(w)
    /\ UNCHANGED <<planVars, cancel, reason, faults>>

\* The unconditional $set of scheduler.ops to all pending.
ResetOps(w) ==
    /\ At(w, "reset")
    /\ status' = [o \in Ops |-> "pending"]
    /\ Goto(w, "announce")
    /\ UNCHANGED <<runs, inbox, jobVars, held, sending, seen, ready, blocked, changed,
                   failed, rescue, faults>>

Announce(w) ==
    /\ At(w, "announce")
    /\ Publish("running", NoStates)
    /\ Goto(w, "advance")
    /\ UNCHANGED <<planVars, cancel, reason, held, sending, seen, ready, blocked, changed,
                   failed, rescue, faults>>

-----------------------------------------------------------------------------
\* run_plan_operation_task

Claim(w) ==
    /\ At(w, "claim")
    /\ TaskClaims(held[w])
    /\ status' = [status EXCEPT ![held[w]] = "running"]
    /\ Goto(w, "check")
    /\ UNCHANGED <<runs, inbox, jobVars, held, sending, seen, ready, blocked, changed,
                   failed, rescue, faults>>

ClaimLost(w) ==
    /\ At(w, "claim")
    /\ ~TaskClaims(held[w])
    /\ Release(w)
    /\ UNCHANGED <<planVars, jobVars, faults>>

\* The cancel flag is read after the claim; a cancelled claim ends at once.
CheckCancelled(w) ==
    /\ At(w, "check")
    /\ cancel # "none"
    /\ status' = [status EXCEPT ![held[w]] = "cancelled"]
    /\ Goto(w, "advance")
    /\ UNCHANGED <<runs, inbox, jobVars, held, sending, seen, ready, blocked, changed,
                   failed, rescue, faults>>

CheckPasses(w) ==
    /\ At(w, "check")
    /\ cancel = "none"
    /\ Goto(w, "begin")
    /\ UNCHANGED <<planVars, jobVars, held, sending, seen, ready, blocked, changed, failed,
                   rescue, faults>>

\* push(): persist the operation's own state, read all states, publish them.
BeginOp(w) ==
    /\ At(w, "begin")
    /\ status' = [status EXCEPT ![held[w]] = "running"]
    /\ Goto(w, "readRun")
    /\ UNCHANGED <<runs, inbox, jobVars, held, sending, seen, ready, blocked, changed,
                   failed, rescue, faults>>

\* The body (clone, provision or sequence, modelled by their own modules)
\* reaches the lab and ends done, with an error, or cancelled by a stop in
\* mode "step".
EnterBody(w) ==
    /\ At(w, "body")
    /\ runs' = [runs EXCEPT ![held[w]] = @ + 1]
    /\ Goto(w, "finish")
    /\ UNCHANGED <<status, inbox, jobVars, held, sending, seen, ready, blocked,
                   changed, failed, rescue, faults>>

FinishBody(w) ==
    /\ At(w, "finish")
    /\ \/ \E result \in {"done", "error"} : status' = [status EXCEPT ![held[w]] = result]
       \/ cancel = "step" /\ status' = [status EXCEPT ![held[w]] = "cancelled"]
    /\ Goto(w, "readEnd")
    /\ UNCHANGED <<runs, inbox, jobVars, held, sending, seen, ready, blocked,
                   changed, failed, rescue, faults>>

\* _publish_scheduler_states is a read and, later, a publish of what was read.
NextRead(step) ==
    CASE step = "readRun" -> "publishRun"
      [] step = "readEnd" -> "publishEnd"
      [] step = "readStates" -> "publishStates"
ReadForPublish(w) ==
    /\ pc[w] \in {"readRun", "readEnd", "readStates"}
    /\ ReadStates(w)
    /\ Goto(w, NextRead(pc[w]))
    /\ UNCHANGED <<planVars, jobVars, held, sending, ready, blocked, changed, failed,
                   rescue, faults>>

PublishOwn(w) ==
    /\ pc[w] \in {"publishRun", "publishEnd"}
    /\ Publish("planState", seen[w])
    /\ Goto(w, IF At(w, "publishRun") THEN "body" ELSE "advance")
    /\ UNCHANGED <<planVars, cancel, reason, held, sending, seen, ready, blocked, changed,
                   failed, rescue, faults>>

-----------------------------------------------------------------------------
\* _advance_plan

\* Read the states, look at the cancel flag, decide.
Advance(w) ==
    /\ At(w, "advance")
    /\ ReadStates(w)
    /\ blocked' = [blocked EXCEPT ![w] =
                     IF cancel = "none" THEN BlockedOps(status) ELSE PendingOps(status)]
    /\ ready' = [ready EXCEPT ![w] = IF cancel = "none" THEN ReadyOps(status) ELSE {}]
    /\ changed' = [changed EXCEPT ![w] = FALSE]
    /\ failed' = [failed EXCEPT ![w] = FALSE]
    /\ Goto(w, IF blocked'[w] = {} THEN "enqueue" ELSE "cascade")
    /\ UNCHANGED <<planVars, jobVars, held, sending, rescue, faults>>

\* One compare-and-set pending -> cancelled of the cascade.
CancelBlocked(w) ==
    /\ At(w, "cascade")
    /\ \E o \in blocked[w] :
          /\ blocked' = [blocked EXCEPT ![w] = @ \ {o}]
          /\ IF status[o] = "pending"
               THEN /\ status' = [status EXCEPT ![o] = "cancelled"]
                    /\ seen' = [seen EXCEPT ![w][o] = "cancelled"]
                    /\ changed' = [changed EXCEPT ![w] = TRUE]
               ELSE UNCHANGED <<status, seen, changed>>
    /\ UNCHANGED <<runs, inbox, jobVars, held, sending, pc, ready, failed, rescue, faults>>

\* The end of one round: a stop leaves the loop with what was decided before
\* it; otherwise the next level of the cascade is computed.
EndRound(w) ==
    /\ At(w, "cascade")
    /\ blocked[w] = {}
    /\ IF cancel # "none"
         THEN /\ Goto(w, "enqueue")
              /\ UNCHANGED <<seen, ready, blocked>>
         ELSE /\ seen' = [seen EXCEPT ![w] = IF changed[w] THEN @ ELSE status]
              /\ ready' = [ready EXCEPT ![w] = ReadyOps(seen'[w])]
              /\ blocked' = [blocked EXCEPT ![w] = BlockedOps(seen'[w])]
              /\ Goto(w, IF blocked'[w] = {} THEN "enqueue" ELSE "cascade")
    /\ changed' = [changed EXCEPT ![w] = FALSE]
    /\ UNCHANGED <<planVars, jobVars, held, sending, failed, rescue, faults>>

\* One compare-and-set pending -> queued; losing it drops the operation.
ClaimReady(w) ==
    /\ At(w, "enqueue")
    /\ \E o \in ready[w] :
          /\ ready' = [ready EXCEPT ![w] = @ \ {o}]
          /\ IF EnqueueClaims(o)
               THEN /\ status' = [status EXCEPT ![o] = "queued"]
                    /\ sending' = [sending EXCEPT ![w] = o]
                    /\ Goto(w, "send")
               ELSE UNCHANGED <<status, sending, pc>>
    /\ UNCHANGED <<runs, inbox, jobVars, held, seen, blocked, changed, failed,
                   rescue, faults>>

SendOp(w) ==
    /\ At(w, "send")
    /\ inbox' = [inbox EXCEPT ![sending[w]] = @ + 1]
    /\ sending' = [sending EXCEPT ![w] = NoTask]
    /\ Goto(w, "enqueue")
    /\ UNCHANGED <<status, runs, jobVars, held, seen, ready, blocked, changed,
                   failed, rescue, faults>>

\* apply_async raises: the operation fails and the advance is repeated.
SendFails(w) ==
    /\ At(w, "send")
    /\ faults["enqueue"] < MaxEnqueueFaults
    /\ faults' = [faults EXCEPT !["enqueue"] = @ + 1]
    /\ status' = [status EXCEPT ![sending[w]] = "error"]
    /\ sending' = [sending EXCEPT ![w] = NoTask]
    /\ failed' = [failed EXCEPT ![w] = TRUE]
    /\ Goto(w, "enqueue")
    /\ UNCHANGED <<runs, inbox, jobVars, held, seen, ready, blocked, changed, rescue>>

EndEnqueue(w) ==
    /\ At(w, "enqueue")
    /\ ready[w] = {}
    /\ Goto(w, "readStates")
    /\ UNCHANGED <<planVars, jobVars, held, sending, seen, ready, blocked, changed, failed,
                   rescue, faults>>

\* Publish what was read; then advance again, conclude the job, or return.
PublishStates(w) ==
    /\ At(w, "publishStates")
    /\ Publish("planState", seen[w])
    /\ IF failed[w] \/ AllTerminal(seen[w])
         THEN /\ Goto(w, IF failed[w] THEN "advance" ELSE "conclude")
              /\ UNCHANGED <<held, sending, seen, ready, blocked, changed, failed, rescue>>
         ELSE Release(w)
    /\ UNCHANGED <<planVars, cancel, reason, faults>>

\* The terminal message: an error carries the stop's reason.
Conclude(w) ==
    /\ At(w, "conclude")
    /\ Publish(IF reason THEN "error" ELSE "done", seen[w])
    /\ Release(w)
    /\ UNCHANGED <<planVars, cancel, reason, faults>>

-----------------------------------------------------------------------------
\* Faults.

\* An operation is deserted when its task ends after the claim and before the end of
\* its advance: no other delivery takes the claim, and nobody advances for it.
DesertedBy(w) == faults["deserted"] + (IF held[w] \in Ops /\ pc[w] # "claim" THEN 1 ELSE 0)

\* The slot's process dies: Celery puts the unacknowledged message back.
Crash(w) ==
    /\ held[w] \in Ops
    /\ faults["crash"] < MaxCrashes
    /\ faults' = [faults EXCEPT !["crash"] = @ + 1, !["deserted"] = DesertedBy(w)]
    /\ inbox' = [inbox EXCEPT ![held[w]] = @ + 1]
    /\ Release(w)
    /\ UNCHANGED <<status, runs, jobVars>>

\* The broker's visibility timeout: the message comes back, the slot lives.
RedeliverSlow(w) ==
    /\ held[w] \in Ops
    /\ faults["redeliver"] < MaxRedeliveries
    /\ faults' = [faults EXCEPT !["redeliver"] = @ + 1]
    /\ inbox' = [inbox EXCEPT ![held[w]] = @ + 1]
    /\ UNCHANGED <<status, runs, jobVars, localVars>>

CrashStart(w) ==
    /\ held[w] = Start
    /\ faults["restart"] < MaxStartRedeliveries
    /\ faults' = [faults EXCEPT !["restart"] = @ + 1]
    /\ inbox' = [inbox EXCEPT ![Start] = @ + 1]
    /\ Release(w)
    /\ UNCHANGED <<status, runs, jobVars>>

\* A publish raises.  In the operation's task the except handler persists
\* "error" for the operation, whatever its status was, and advances; a second
\* exception in the handler escapes and ends the task.  In the start task the
\* handler publishes the terminal error and the task ends.
PublishRaises(w) ==
    /\ pc[w] \in {"announce", "publishRun", "publishEnd", "publishStates", "conclude"}
    /\ faults["outage"] < MaxOutages
    /\ IF held[w] \in Ops /\ ~rescue[w]
         THEN /\ status' = [status EXCEPT ![held[w]] = "error"]
              /\ faults' = [faults EXCEPT !["outage"] = @ + 1]
              /\ rescue' = [rescue EXCEPT ![w] = TRUE]
              /\ Goto(w, "advance")
              /\ UNCHANGED <<snapshot, held, sending, seen, ready, blocked, changed, failed>>
         ELSE /\ IF held[w] = Start THEN Publish("error", NoStates) ELSE UNCHANGED snapshot
              /\ faults' = [faults EXCEPT !["outage"] = @ + 1, !["deserted"] = DesertedBy(w)]
              /\ Release(w)
              /\ UNCHANGED status
    /\ UNCHANGED <<runs, inbox, cancel, reason>>

-----------------------------------------------------------------------------
StartStep(w) == SetUp(w) \/ SetUpFails(w) \/ ResetOps(w) \/ Announce(w)
OpStep(w) ==
    \/ Claim(w) \/ ClaimLost(w) \/ CheckCancelled(w) \/ CheckPasses(w)
    \/ BeginOp(w) \/ EnterBody(w) \/ FinishBody(w) \/ PublishOwn(w)
AdvanceStep(w) ==
    \/ Advance(w) \/ CancelBlocked(w) \/ EndRound(w) \/ ClaimReady(w)
    \/ SendOp(w) \/ SendFails(w) \/ EndEnqueue(w) \/ PublishStates(w) \/ Conclude(w)
WorkerStep(w) == Take(w) \/ StartStep(w) \/ OpStep(w) \/ ReadForPublish(w) \/ AdvanceStep(w)
FaultStep(w) == Crash(w) \/ RedeliverSlow(w) \/ CrashStart(w) \/ PublishRaises(w)

Next ==
    \/ Deploy \/ CancelOwn \/ StopByAdmin
    \/ \E w \in Workers : WorkerStep(w) \/ FaultStep(w)

Spec == Init /\ [][Next]_vars

\* A live worker process keeps executing its task and keeps consuming its
\* queue; nothing is assumed of users or faults.
FairSpec == Spec /\ \A w \in Workers : WF_vars(WorkerStep(w))

-----------------------------------------------------------------------------
\* An operation is enqueued, runs and completes only after all of its
\* dependencies completed, whichever slot released it and however stale the
\* states were it decided on (_advance_plan, ready_plan_operations).
DependenciesFirst ==
    \A o \in Ops : status[o] \in {"queued", "running", "done"} => DependenciesDone(status, o)

\* An operation's body reaches the lab at most once, however often its message
\* is delivered and its slot dies (the queued -> running claim).
RunsAtMostOnce == \A o \in Ops : runs[o] <= 1

\* The strengthening that makes the two invariants above inductive while the
\* start task runs once and publishing works: who may still touch an operation.
OwnSteps == {"check", "begin", "readRun", "publishRun", "body", "finish"}
StartIsFirst ==
    /\ inbox[Start] <= 1
    /\ \A v, w \in Workers : held[v] = Start /\ held[w] = Start => v = w
    /\ inbox[Start] = 1 => \A w \in Workers : held[w] # Start
    /\ snapshot.kind = "none" =>
          inbox[Start] = 0 /\ \A w \in Workers : pc[w] = "idle"
    /\ snapshot.kind = "none" \/ inbox[Start] = 1 => \A o \in Ops : status[o] = "absent"
    /\ \A w \in Workers : pc[w] \in {"setup", "reset"} => \A o \in Ops : status[o] = "absent"
    /\ \A o \in Ops : status[o] = "absent" =>
          /\ \A p \in Ops : status[p] = "absent"
          /\ \A w \in Workers : pc[w] \in {"idle", "setup", "reset"}
Untouched ==
    \A o \in Ops :
       /\ status[o] \in {"absent", "pending"} =>
             inbox[o] = 0 /\ \A w \in Workers : held[w] # o
       /\ status[o] \in {"absent", "pending", "queued"} => runs[o] = 0
Owners ==
    /\ \A w \in Workers : pc[w] \in OwnSteps =>
          /\ status[held[w]] = "running"
          /\ pc[w] # "finish" => runs[held[w]] = 0
    /\ \A v, w \in Workers :
          pc[v] \in OwnSteps /\ pc[w] \in OwnSteps /\ held[v] = held[w] => v = w
Senders ==
    /\ \A w \in Workers : \A o \in Ops : sending[w] = o =>
          /\ status[o] = "queued"
          /\ inbox[o] = 0 /\ \A v \in Workers : held[v] # o
    /\ \A v, w \in Workers : sending[v] = sending[w] /\ sending[v] # NoTask => v = w
Decided ==
    \A w \in Workers :
       /\ \A o \in ready[w] : DependenciesDone(status, o)
       /\ \A o \in Ops : seen[w][o] = "done" => status[o] = "done"
SchedulerInv ==
    /\ StartIsFirst /\ Untouched /\ Owners /\ Senders /\ Decided
    /\ DependenciesFirst /\ RunsAtMostOnce

\* Each execution of the start task lets an operation reach the lab once more
\* at most: its reset of the statuses is the only way to run one again.
OneRunPerStart == \A o \in Ops : runs[o] <= 1 + faults["restart"]

\* When the job's stream has ended, no operation is active or waiting any more
\* and the DoneMsg reports the final states (PublishStates, Conclude).
ConcludedIsFinal ==
    snapshot.kind \in TerminalKinds /\ snapshot.ops # NoStates =>
        /\ AllTerminal(status)
        /\ snapshot.ops = status

\* A finished operation never changes its status again: a consequence of ExecutesPlan
\* (FinishedOperationsStay in PlanSchedulerProofs).
FinishedStaysFinished ==
    [][\A o \in Ops : status[o] \in Terminal => status'[o] = status[o]]_vars

\* Every submitted plan ends: its job reaches a terminal message, through failures, stops
\* and deliveries again, except two ways the code leaves one open.  An operation was
\* deserted: its slot died after the claim, or its except handler raised too.  Or a stop
\* came between two levels of the cascade, and what waits behind a failed operation
\* stays pending for good (_advance_plan leaves its loop with the cancel flag set).
LeftBehind == cancel # "none" /\ \E o \in Ops : status[o] = "pending" /\ DependencyFailed(status, o)
PlanConcludes ==
    [](snapshot.kind = "queued" =>
          \/ <>(snapshot.kind \in TerminalKinds \/ faults["deserted"] > 0)
          \/ <>[]LeftBehind)

\* The plan keeps the promise of PlanExecution: operations that are enqueued or
\* running are active, errors are failures, cancelled operations are skipped.
FateOf(s) ==
    CASE s \in {"absent", "pending"} -> "waiting"
      [] s \in {"queued", "running"} -> "active"
      [] s = "done" -> "done"
      [] s = "error" -> "failed"
      [] s = "cancelled" -> "skipped"
Execution == INSTANCE PlanExecution
    WITH fate <- [o \in Ops |-> FateOf(status[o])], stopping <- (cancel # "none")
ExecutesPlan == Execution!Spec

-----------------------------------------------------------------------------
\* Statements of the repository that the code does not keep: TLC refutes them (README.md).

\* A plan stopped by an administrator drains to a terminal message (tasks.py, the
\* stop_reason branch of _advance_plan: "drain to a terminal ErrorMsg so the canvas
\* toasts the reason and releases the deploy lock").
StoppedPlanDrains == reason ~> (snapshot.kind \in TerminalKinds)

\* The snapshot of a job that has ended says so (transport.py: "a late or reconnecting
\* WebSocket subscriber sees current state immediately").
SnapshotStaysTerminal ==
    [][snapshot.kind \in TerminalKinds => snapshot'.kind \in TerminalKinds]_vars
=============================================================================
