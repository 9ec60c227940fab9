----------------------------- MODULE SequenceRun -----------------------------
(***************************************************************************)
(* One operation's step sequence on one guest: the engine                   *)
(* (core/sequences/engine.py) under run_op_sequence (worker.py), the        *)
(* dispatch bridge to the agent (core/agentbus.py dispatch_and_wait and     *)
(* run_dispatch_subscriber, orchestrator.py _relay_progress), the reboot    *)
(* wait, and the plan_runs document a redelivered task resumes from.        *)
(*                                                                         *)
(* The agent runs on the guest and is external: it executes what it is      *)
(* sent, keeps its terminal frames until they are relayed, and forgets      *)
(* everything when the guest reboots.  The liveness lease follows the       *)
(* connection; AgentConnection models when it does not.                     *)
(***************************************************************************)
EXTENDS Integers, FiniteSets

CONSTANTS
    N,              \* the number of steps
    Reboots,        \* steps with expects_disconnect
    Verified,       \* steps with a verify probe
    Produces,       \* steps that produce an artifact; the last step consumes them all
    Skippable,      \* those with skip_if_artifacts: another operation may have produced it
    Gates,          \* steps with an aggregate, which dispatch nothing
    Retries,        \* the number of retry_delays_s of each step
    MaxVerify,      \* probes within one verify window
    MaxCrashes, MaxDrops, MaxLost, MaxExpiries      \* bounds on faults

Steps == 1..N

ASSUME SequenceAssumption ==
    /\ N \in Nat \ {0}
    /\ Reboots \subseteq Steps /\ Verified \subseteq Steps /\ Produces \subseteq Steps
    /\ Skippable \subseteq Produces /\ Gates \subseteq Steps \ Produces
    /\ Retries \in [Steps -> Nat]
    /\ {MaxVerify, MaxCrashes, MaxDrops, MaxLost, MaxExpiries} \subseteq Nat

\* deterministic_step_job_id: one key per attempt of a step or of its probe.
Attempts == (0 .. MaxVerify) \cup UNION {0 .. Retries[i] : i \in Steps}
Keys == [step : Steps, kind : {"run", "verify"}, attempt : Attempts]

VARIABLES
    pc,         \* where the worker is
    key,        \* the dispatch the engine is at
    since,      \* dispatched_at, as the number of connects by then
    completed,  \* the engine's completed set
    carried,    \* ctx.artifacts
    inbox,      \* the terminal frame in the worker's subscription
    task,       \* the task that runs the sequence: of a plan's operation, or one that
                \* repeats what it finds undone (reconcile_plan, teardown)
    cursor, artifacts,      \* plan_runs: cursor and artifacts of the operation
    snapshot,   \* jobs:{id}:snapshot of every key
    stop,       \* a stop at the next step was requested
    channel,    \* requests on agent-dispatch, not yet forwarded
    executing,  \* commands the agent executes
    outbound,   \* terminal frames the agent has to relay
    connected, connects,    \* the agent's connection, agent.lastConnectedAt
    rebootDue,  \* the guest is about to reboot
    rebooted,   \* history: the number of connects at the last reboot of each step
    ranBefore,  \* history: steps whose done frame preceded this delivery
    relayedDone,    \* history: steps a done frame was relayed of, of this operation
                    \* or of the one that left an artifact
    crashes, drops, lost, expiries

worker == <<pc, key, since, completed, carried, inbox>>
document == <<task, cursor, artifacts>>
agent == <<executing, outbound, rebootDue>>
link == <<connected, connects>>
history == <<rebooted, ranBefore, relayedDone>>
counts == <<crashes, drops, lost, expiries>>
vars == <<worker, document, snapshot, stop, channel, agent, link, history, counts>>

Phases == {"queued", "head", "check", "lease", "send", "wait", "reconnect", "persist",
           "succeeded", "failed", "cancelled", "abandoned"}
Ended == {"succeeded", "failed", "cancelled"}

RunKey(i, n) == [step |-> i, kind |-> "run", attempt |-> n]
VerifyKey(i, n) == [step |-> i, kind |-> "verify", attempt |-> n]

TypeOK ==
    /\ pc \in Phases
    /\ key \in Keys
    /\ since \in Nat
    /\ completed \in SUBSET Steps /\ carried \in SUBSET Steps
    /\ inbox \in {"none", "done", "error"}
    /\ task \in {"plan", "repeat"}
    /\ cursor \in SUBSET Steps /\ artifacts \in SUBSET Steps
    /\ snapshot \in [Keys -> {"none", "done", "error"}]
    /\ stop \in BOOLEAN
    /\ channel \in SUBSET Keys
    /\ executing \in SUBSET Keys
    /\ outbound \in SUBSET (Keys \X {"done", "error"})
    /\ connected \in BOOLEAN /\ connects \in Nat
    /\ rebootDue \in BOOLEAN
    /\ rebooted \in [Steps -> Nat]
    /\ ranBefore \in SUBSET Steps /\ relayedDone \in SUBSET Steps
    /\ crashes \in Nat /\ drops \in Nat /\ lost \in Nat /\ expiries \in Nat

Init ==
    /\ pc = "queued"
    /\ key = RunKey(1, 0)
    /\ since = 0
    /\ completed = {} /\ carried = {}
    /\ inbox = "none"
    /\ task \in {"plan", "repeat"}
    /\ cursor = {} /\ artifacts \in SUBSET Skippable
    /\ snapshot = [k \in Keys |-> "none"]
    /\ stop = FALSE
    /\ channel = {} /\ executing = {} /\ outbound = {}
    /\ connected = TRUE /\ connects = 1
    /\ rebootDue = FALSE
    /\ rebooted = [i \in Steps |-> 0]
    /\ ranBefore = {} /\ relayedDone = artifacts
    /\ crashes = 0 /\ drops = 0 /\ lost = 0 /\ expiries = 0

outside == <<snapshot, stop, channel, agent, link>>

-----------------------------------------------------------------------------
\* The worker.

\* run_op_sequence: _load_run_state, then engine.run from the first step.
Load ==
    /\ pc = "queued"
    /\ completed' = cursor
    /\ carried' = artifacts
    /\ ranBefore' = relayedDone
    /\ key' = RunKey(1, 0)
    /\ pc' = "head"
    /\ UNCHANGED <<since, inbox, document, outside, rebooted, relayedDone, counts>>

step == key.step

\* Past the current step; the loop ends after the last one.
NextStep ==
    IF step = N THEN pc' = "succeeded" /\ UNCHANGED key
    ELSE pc' = "head" /\ key' = RunKey(step + 1, 0)

HeadStops ==
    /\ pc = "head"
    /\ stop
    /\ pc' = "cancelled"
    /\ UNCHANGED <<key, since, completed, carried, inbox, document, outside, history, counts>>

\* A step already complete is skipped.
HeadSkips ==
    /\ pc = "head" /\ ~stop
    /\ step \in completed
    /\ NextStep
    /\ UNCHANGED <<since, completed, carried, inbox, document, outside, history, counts>>

AtStep == pc = "head" /\ ~stop /\ step \notin completed

\* skip_if_artifacts: recorded without a command.
HeadHasArtifact ==
    /\ AtStep
    /\ step \in Skippable \cap carried
    /\ pc' = "persist"
    /\ UNCHANGED <<key, since, completed, carried, inbox, document, outside, history, counts>>

\* The aggregate over the results of the earlier steps is healthy, or raises.
HeadGate ==
    /\ AtStep
    /\ step \in Gates
    /\ pc' \in {"persist", "failed"}
    /\ UNCHANGED <<key, since, completed, carried, inbox, document, outside, history, counts>>

\* consumes: every payload must be in the relay map.
Consumable == step = N => Produces \ {N} \subseteq carried

\* A missing payload raises before anything is dispatched.
HeadDispatches ==
    /\ AtStep
    /\ step \notin Gates \cup (Skippable \cap carried)
    /\ since' = connects
    /\ pc' = IF Consumable THEN "check" ELSE "failed"
    /\ UNCHANGED <<key, completed, carried, inbox, document, outside, history, counts>>

\* What follows the dispatched command: the reboot wait, the probe, the cursor.
AfterRun ==
    /\ carried' = IF step \in Produces THEN carried \cup {step} ELSE carried
    /\ \/ step \in Reboots /\ pc' = "reconnect" /\ UNCHANGED key
       \/ step \notin Reboots /\ step \in Verified /\ pc' = "check" /\ key' = VerifyKey(step, 0)
       \/ step \notin Reboots /\ step \notin Verified /\ pc' = "persist" /\ UNCHANGED key

\* A probe's result satisfies the predicate, or counts as not ready.
Succeeds ==
    IF key.kind = "run" THEN AfterRun
    ELSE pc' = "persist" /\ UNCHANGED <<key, carried>>

\* retry_delays_s bounds the attempts of a step, the window those of a probe.
MayRetry(k) == IF k.kind = "run" THEN k.attempt < Retries[k.step] ELSE k.attempt < MaxVerify

\* Mutant: a step whose attempts are exhausted is logged and passed over.
GoesOn ==
    /\ IF MayRetry(key) THEN pc' = "check" /\ key' = [key EXCEPT !.attempt = @ + 1]
       ELSE NextStep
    /\ UNCHANGED carried
\* An exception: the next attempt, or the sequence fails.
Fails ==
    /\ IF MayRetry(key) THEN pc' = "check" /\ key' = [key EXCEPT !.attempt = @ + 1]
       ELSE pc' = "failed" /\ UNCHANGED key
    /\ UNCHANGED carried

LacksResult ==
    /\ key.kind = "run" /\ step \in Produces
    /\ pc' = "failed"
    /\ UNCHANGED <<key, carried>>

\* What the engine does with a result, or with the exception of an error.
Resolve(outcome) ==
    \/ outcome = "done" /\ Succeeds
    \/ outcome = "done" /\ LacksResult
    \/ outcome = "error" /\ Fails
    \/ outcome = "done" /\ key.kind = "verify" /\ Fails

\* Mutant: the snapshot is not consulted.
Unchecked ==
    /\ pc = "check"
    /\ pc' = "lease"
    /\ UNCHANGED <<key, since, completed, carried, inbox, document, outside, history, counts>>
\* dispatch_and_wait: the snapshot short-circuit ...
Check ==
    /\ pc = "check"
    /\ IF snapshot[key] = "none" THEN pc' = "lease" /\ UNCHANGED <<key, carried>>
       ELSE Resolve(snapshot[key])
    /\ UNCHANGED <<since, completed, inbox, document, outside, history, counts>>

\* ... the liveness key ...
Lease ==
    /\ pc = "lease"
    /\ IF connected THEN pc' = "send" /\ UNCHANGED <<key, carried>> ELSE Fails
    /\ UNCHANGED <<since, completed, inbox, document, outside, history, counts>>

\* ... subscribe and publish ...
Send ==
    /\ pc = "send"
    /\ channel' = channel \cup {key}
    /\ inbox' = "none"
    /\ pc' = "wait"
    /\ UNCHANGED <<key, since, completed, carried, document, snapshot, stop, agent, link,
                   history, counts>>

\* ... and the poll loop: a frame, or the snapshot when none came.
WaitFrame ==
    /\ pc = "wait"
    /\ LET outcome == IF inbox # "none" THEN inbox ELSE snapshot[key] IN
       outcome # "none" /\ Resolve(outcome)
    /\ inbox' = "none"
    /\ UNCHANGED <<since, completed, document, outside, history, counts>>

\* The lease was gone for _DISPATCH_LIVENESS_GRACE_POLLS polls.
WaitUnreachable ==
    /\ pc = "wait"
    /\ ~connected
    /\ ~(key.kind = "run" /\ step \in Reboots)
    /\ inbox = "none" /\ snapshot[key] = "none"
    /\ Fails
    /\ UNCHANGED <<since, completed, inbox, document, outside, history, counts>>

\* Mutant: waiting for a frame has no deadline.
NoDeadline == FALSE
\* timeout_s is finite for every step.
DeadlinePasses == inbox = "none"

WaitTimeout ==
    /\ pc = "wait"
    /\ DeadlinePasses
    /\ Fails
    /\ UNCHANGED <<since, completed, inbox, document, outside, history, counts>>

\* Mutant: the liveness key alone ends the reboot wait.
IsLive == connected
\* wait_for_reconnect: connected after the dispatch, and still live.
Reconnected == connects > since /\ connected

Reconnect ==
    /\ pc = "reconnect"
    /\ Reconnected
    /\ \/ step \in Verified /\ pc' = "check" /\ key' = VerifyKey(step, 0)
       \/ step \notin Verified /\ pc' = "persist" /\ UNCHANGED key
    /\ UNCHANGED <<since, completed, carried, inbox, document, outside, history, counts>>

ReconnectTimeout ==
    /\ pc = "reconnect"
    /\ ~Reconnected
    /\ pc' = "failed"
    /\ UNCHANGED <<key, since, completed, carried, inbox, document, outside, history, counts>>

\* _persist_step: new artifacts in the same update as the cursor.
PersistsArtifacts == artifacts' = artifacts \cup carried

Persist ==
    /\ pc = "persist"
    /\ cursor' = cursor \cup {step}
    /\ PersistsArtifacts
    /\ completed' = completed \cup {step}
    /\ NextStep
    /\ UNCHANGED <<task, since, carried, inbox, outside, history, counts>>

\* The worker dies, and the message is delivered again (task_acks_late).  Reconcile and
\* teardown start over and load the cursor; run_plan_operation_task finds its
\* operation running, loses the claim and returns.
Redelivered == IF task = "repeat" THEN "queued" ELSE "abandoned"

Crash ==
    /\ pc \notin Ended \cup {"queued", "abandoned"}
    /\ crashes < MaxCrashes
    /\ crashes' = crashes + 1
    /\ pc' = Redelivered
    /\ completed' = {} /\ carried' = {} /\ inbox' = "none" /\ since' = 0
    /\ key' = RunKey(1, 0)
    /\ UNCHANGED <<document, outside, history, drops, lost, expiries>>

RequestStop ==
    /\ ~stop
    /\ stop' = TRUE
    /\ UNCHANGED <<worker, document, snapshot, channel, agent, link, history, counts>>

-----------------------------------------------------------------------------
\* The API process and Valkey.

\* run_dispatch_subscriber sends the request down the agent's socket; nobody
\* answers for a request without one.
Forward(k) ==
    /\ k \in channel
    /\ channel' = channel \ {k}
    /\ executing' = IF connected THEN executing \cup {k} ELSE executing
    /\ UNCHANGED <<worker, document, snapshot, stop, outbound, rebootDue, link, history, counts>>

\* The send fails, or no process held the socket.
LoseDispatch(k) ==
    /\ k \in channel
    /\ lost < MaxLost
    /\ lost' = lost + 1
    /\ channel' = channel \ {k}
    /\ UNCHANGED <<worker, document, snapshot, stop, agent, link, history, crashes, drops, expiries>>

\* _relay_progress publishes the terminal frame: the snapshot, then the
\* subscribers.
Relay(k, outcome) ==
    /\ connected
    /\ <<k, outcome>> \in outbound
    /\ outbound' = outbound \ {<<k, outcome>>}
    /\ snapshot' = [snapshot EXCEPT ![k] = outcome]
    /\ inbox' = IF pc = "wait" /\ key = k THEN outcome ELSE inbox
    /\ relayedDone' = IF outcome = "done" /\ k.kind = "run" THEN relayedDone \cup {k.step}
                      ELSE relayedDone
    /\ UNCHANGED <<pc, key, since, completed, carried, document, stop, channel, executing,
                   rebootDue, link, rebooted, ranBefore, counts>>

\* _TERMINAL_TTL_SECONDS passed.
ExpireSnapshot(k) ==
    /\ snapshot[k] # "none"
    /\ ~(pc = "wait" /\ key = k)
    /\ expiries < MaxExpiries
    /\ expiries' = expiries + 1
    /\ snapshot' = [snapshot EXCEPT ![k] = "none"]
    /\ UNCHANGED <<worker, document, stop, channel, agent, link, history, crashes, drops, lost>>

-----------------------------------------------------------------------------
\* The agent and its guest.

Execute(k, outcome) ==
    /\ k \in executing
    /\ ~(k.kind = "run" /\ k.step \in Reboots)
    /\ executing' = executing \ {k}
    /\ outbound' = outbound \cup {<<k, outcome>>}
    /\ UNCHANGED <<worker, document, snapshot, stop, channel, rebootDue, link, history, counts>>

\* system.reboot answers first and takes the guest down afterwards.
ExecuteReboot(k) ==
    /\ k \in executing
    /\ k.kind = "run" /\ k.step \in Reboots
    /\ ~rebootDue
    /\ executing' = executing \ {k}
    /\ outbound' = outbound \cup {<<k, "done">>}
    /\ rebootDue' = TRUE
    /\ rebooted' = [rebooted EXCEPT ![k.step] = connects]
    /\ UNCHANGED <<worker, document, snapshot, stop, channel, link, ranBefore, relayedDone, counts>>

Reboot ==
    /\ rebootDue
    /\ rebootDue' = FALSE
    /\ connected' = FALSE
    /\ executing' = {} /\ outbound' = {}
    /\ UNCHANGED <<worker, document, snapshot, stop, channel, connects, history, counts>>

Drop ==
    /\ connected
    /\ drops < MaxDrops
    /\ drops' = drops + 1
    /\ connected' = FALSE
    /\ UNCHANGED <<worker, document, snapshot, stop, channel, agent, connects, history,
                   crashes, lost, expiries>>

Connect ==
    /\ ~connected /\ ~rebootDue
    /\ connected' = TRUE
    /\ connects' = connects + 1
    /\ UNCHANGED <<worker, document, snapshot, stop, channel, agent, history, counts>>

-----------------------------------------------------------------------------
WorkerStep ==
    \/ Load \/ HeadStops \/ HeadSkips \/ HeadHasArtifact \/ HeadGate \/ HeadDispatches
    \/ Check \/ Lease \/ Send \/ WaitFrame \/ WaitUnreachable \/ WaitTimeout
    \/ Reconnect \/ ReconnectTimeout \/ Persist

Environment ==
    \/ Crash \/ RequestStop \/ Reboot \/ Drop \/ Connect
    \/ \E k \in Keys :
          \/ Forward(k) \/ LoseDispatch(k) \/ ExpireSnapshot(k) \/ ExecuteReboot(k)
          \/ \E outcome \in {"done", "error"} : Relay(k, outcome) \/ Execute(k, outcome)

Next == WorkerStep \/ Environment

Spec == Init /\ [][Next]_vars

\* A worker process that lives goes on, and a message is delivered again; nothing
\* is assumed of the agent, its connection or the bridge.
FairSpec == Spec /\ WF_vars(WorkerStep)

-----------------------------------------------------------------------------
\* A step's command is only on its way or executing once every earlier step is recorded as
\* complete, really succeeded at the agent and left its artifact for the steps that consume
\* it, across failures, retries and redeliveries (SequenceEngine.run: "Run every step in
\* order"; _persist_step).
StepsInOrder ==
    \A k \in channel \cup executing : \A j \in 1 .. k.step - 1 :
        /\ j \in cursor
        /\ j \in relayedDone \cup Gates
        /\ j \in Produces => j \in artifacts

\* In the first delivery, and while the connection does not drop on its own, a
\* reboot step is recorded only after the agent connected again since the guest
\* was told to reboot (wait_for_reconnect: "a post-reboot agent connection").
RebootConfirmed ==
    drops = 0 /\ crashes = 0 =>
        \A j \in cursor \cap Reboots : rebooted[j] # 0 /\ connects > rebooted[j]

\* A step without retries whose success was relayed before this delivery is not
\* dispatched again while its snapshot lives (dispatch_and_wait: "Redelivery-safe").
NotDispatchedAgain ==
    [][expiries = 0 =>
          \A j \in ranBefore : Retries[j] = 0 /\ RunKey(j, 0) \in channel'
              => RunKey(j, 0) \in channel]_vars

\* The operation ends, whatever the agent, its connection and the bridge do, also in a task
\* that is delivered again; unless it is a plan's operation and the worker died under it
\* (dispatch_and_wait: every wait has a deadline; reconcile_plan, teardown).
OperationEnds == <>(pc \in Ended \/ (task = "plan" /\ crashes > 0))

\* Statements of the repository that the code does not keep (README.md): TLC
\* refutes them.

\* A sequence whose worker died is resumed and ends (engine.py: "a mid-sequence redelivery
\* picks up where it left off").  That of a plan's operation is not: its claim is lost.
RedeliveryResumes == (crashes > 0) ~> (pc \in Ended)

\* The reboot wait only fails when the agent has not come back since the guest
\* rebooted (engine.py: "Reboot waits use a timestamp compare").
ReconnectTimeoutMeansGone ==
    [][pc = "reconnect" /\ pc' = "failed" => ~connected \/ connects <= rebooted[step]]_vars
=============================================================================
