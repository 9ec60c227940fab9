---------------------------- MODULE DeployClient ----------------------------
(***************************************************************************)
(* Deploying from the browser: the staging store of one tab                 *)
(* (frontend/src/store/staging.ts), its progress socket (lib/ws.ts), the    *)
(* job stream behind it (routers/ws.py over core/jobs/transport.py), and     *)
(* the switch between projects (store/projects.ts).  What a worker does      *)
(* with a plan is PlanScheduler's subject; here it publishes the states of   *)
(* the operations and concludes.  The canvas, the toasts, planPhase and the  *)
(* dates are left out.  Operation ids are unique over all projects.          *)
(***************************************************************************)
EXTENDS Integers, Sequences, FiniteSets

CONSTANTS
    Projects, Ops,
    Clones,         \* the createVm operations
    Deps,           \* Deps[o]: what inferDependsOn found when o was staged
    Staged,         \* Staged[p]: the operations staged in project p
    MaxJobs, MaxFaults, MaxLeaves   \* bounds; a fault drops the socket, an answer or a
                                    \* snapshot, or delays a message

\* The row of a synthesized provision operation, {createVmOpId}::provision.
Provision(o) == <<o, "provision">>
Parent(r) == r[1]
Provisions == {Provision(o) : o \in Clones}
Rows == Ops \cup Provisions

ASSUME ClientAssumption ==
    /\ Clones \subseteq Ops /\ Ops \cap Provisions = {}
    /\ Deps \in [Ops -> SUBSET Ops]
    /\ Staged \in [Projects -> SUBSET Ops]
    /\ \A p, q \in Projects : p # q => Staged[p] \cap Staged[q] = {}
    /\ \A p \in Projects : \A o \in Staged[p] : Deps[o] \subseteq Staged[p]
ASSUME BoundsAssumption ==
    /\ MaxJobs \in Nat \ {0}
    /\ MaxFaults \in Nat /\ MaxLeaves \in Nat

NoJob == 0
JobIds == 1..MaxJobs
Retries == 3                    \* PLAN_SOCKET_RETRY_DELAYS_MS.length

Finals == {"done", "error", "cancelled"}
Statuses == {"absent", "staged", "pending", "running"} \cup Finals
States == [Rows -> Statuses]
Absent == [r \in Rows |-> "absent"]

\* What a project keeps of its deployment: the list of operations with their
\* dependsOn, and deployJobId.
Documents == [rows : States, deps : [Rows -> SUBSET Rows], job : JobIds \cup {NoJob}]

\* live: queued or running; reply: the answer to its POST is awaited; snapshot: the last
\* message published, kept: it has not expired; past: the states the worker has read.
Phases == {"unused", "posted", "refused", "queued", "running", "done", "error"}
Frames == [type : {"queued", "running", "done", "error"}, ops : States]
Jobs == [project : Projects, phase : Phases, ops : States, reply : BOOLEAN,
         kept : BOOLEAN, snapshot : Frames, past : SUBSET States]

Sockets == [job : JobIds \cup {NoJob}, attempt : 0..Retries,
            at : {"none", "opening", "subscribed", "open", "waiting"}, frames : Seq(Frames)]
NoSocket == [job |-> NoJob, attempt |-> 0, at |-> "none", frames |-> <<>>]

VARIABLES
    active,         \* activeProjectId
    store,          \* ops and deployJobId of the staging store
    deploying,
    saved,          \* the projects, as the autosave keeps them
    socket,         \* planSocketClose and planRetryTimer, and the server's end
    jobs,
    strayed,        \* history: the tab lost track of a plan; the operator left or the answer
                    \* was lost while it was awaited, or a plan was given up that may be read
    faults, leaves

vars == <<active, store, deploying, saved, socket, jobs, strayed, faults, leaves>>
counts == <<faults, leaves>>

TypeOK ==
    /\ active \in Projects
    /\ store \in Documents /\ saved \in [Projects -> Documents]
    /\ deploying \in BOOLEAN /\ strayed \in BOOLEAN
    /\ socket \in Sockets
    /\ jobs \in [JobIds -> Jobs]
    /\ faults \in 0..MaxFaults /\ leaves \in 0..MaxLeaves

-----------------------------------------------------------------------------
\* The list of operations.

Listed(d) == {r \in Rows : d.rows[r] # "absent"}

Keeping(d, kept) ==
    [d EXCEPT !.rows = [r \in Rows |-> IF r \in kept THEN d.rows[r] ELSE "absent"],
              !.deps = [r \in Rows |-> IF r \in kept THEN d.deps[r] ELSE {}]]

\* sanitizeOps: drops whatever depends on something that is not listed.
Sanitized(d) ==
    Keeping(d, UNION {K \in SUBSET Listed(d) : \A r \in K : d.deps[r] \subseteq K})

\* Mutant: a retry sends the operations that are done, too.
SendsDone(d) == Listed(d)

\* prepareDeployPlan and the reset of deploy.
Resettable(d) == {r \in Listed(d) : d.rows[r] # "done"}
Prepared(d) ==
    LET kept == {r \in Resettable(d) : r \in Ops \/ Parent(r) \in Resettable(d)}
    IN  [d EXCEPT !.rows = [r \in Rows |-> IF r \in kept THEN "pending" ELSE "absent"],
                  !.deps = [r \in Rows |-> IF r \in kept THEN d.deps[r] \cap kept ELSE {}]]

\* ensureSyntheticRows and applyPlanState.
Synthetic(d, ops) ==
    {r \in Provisions : ops[r] # "absent" /\ d.rows[r] = "absent" /\ d.rows[Parent(r)] # "absent"}
Applied(d, ops) ==
    LET new == Synthetic(d, ops) IN
    [d EXCEPT !.rows = [r \in Rows |-> IF r \in Listed(d) \cup new /\ ops[r] # "absent"
                                       THEN ops[r] ELSE d.rows[r]],
              !.deps = [r \in Rows |-> IF r \in new THEN {Parent(r)} ELSE d.deps[r]]]

\* finishDeploy: a clone stays listed beside its failed provision operation.
Finished(d, ops) ==
    LET now == Applied(d, ops)
        failed == {Parent(r) : r \in {s \in Listed(now) \cap Provisions : ops[s] = "error"}}
        kept == {r \in Listed(now) : ops[r] # "done" \/ r \in failed}
    IN  [Keeping(now, kept) EXCEPT
            !.rows = [r \in Rows |-> IF r \in kept /\ ops[r] = "cancelled" THEN "staged" ELSE @[r]],
            !.job = NoJob]

\* revertNonTerminalToStaged.
Reverted(d) ==
    LET kept == {r \in Listed(d) \cap Ops : d.rows[r] # "done"}
    IN  [Keeping(d, kept) EXCEPT
            !.rows = [r \in Rows |-> IF r \in kept THEN "staged" ELSE "absent"],
            !.job = NoJob]

\* transitiveDependents, with o itself.
Cascade(d, o) ==
    {r \in Listed(d) : \A K \in SUBSET Listed(d) :
        (o \in K /\ \A s \in Listed(d) : d.deps[s] \cap K # {} => s \in K) => r \in K}

\* What compile_plan makes of the operations sent: a provision operation for each
\* clone, ahead of what depends on the clone.
Planned(sent) ==
    [r \in Rows |-> IF r \in sent \/ (r \in Provisions /\ Parent(r) \in sent)
                    THEN "pending" ELSE "absent"]
PlanDeps(ops, r) ==
    {d \in Rows : /\ ops[d] # "absent"
                  /\ IF r \in Provisions THEN d = Parent(r)
                     ELSE d \in Deps[r] \/ (d \in Provisions /\ Parent(d) \in Deps[r])}

Message(type, ops) == [type |-> type, ops |-> ops]

-----------------------------------------------------------------------------
Init ==
    /\ active \in Projects
    /\ saved = [p \in Projects |->
                  [rows |-> [r \in Rows |-> IF r \in Staged[p] THEN "staged" ELSE "absent"],
                   deps |-> [r \in Rows |-> IF r \in Staged[p] THEN Deps[r] ELSE {}],
                   job |-> NoJob]]
    /\ store = saved[active]
    /\ deploying = FALSE /\ strayed = FALSE
    /\ socket = NoSocket
    /\ jobs = [j \in JobIds |-> [project |-> active, phase |-> "unused",
                                 ops |-> Absent, reply |-> FALSE, kept |-> FALSE,
                                 snapshot |-> Message("queued", Absent), past |-> {}]]
    /\ faults = 0 /\ leaves = 0

\* The autosave checkpoints each change of the store into the active project.
Save(d) == store' = d /\ saved' = [saved EXCEPT ![active] = d]

Attach(j, n) == socket' = [job |-> j, attempt |-> n, at |-> "opening", frames |-> <<>>]

\* Mutant: the second click is not refused.
ClicksAgain == Listed(store) # {}

\* The button is hidden and deploy() returns while a plan is in flight.
MayDeploy == ~deploying /\ Listed(store) # {}

Deploy ==
    /\ MayDeploy
    /\ \E j \in JobIds :
        /\ jobs[j].phase = "unused" /\ \A i \in 1..(j - 1) : jobs[i].phase # "unused"
        /\ jobs' = [jobs EXCEPT ![j].project = active, ![j].phase = "posted", ![j].reply = TRUE,
                                ![j].ops = Planned(Listed(Prepared(store)) \cap Ops)]
    /\ Save(Prepared(store))
    /\ deploying' = TRUE
    /\ UNCHANGED <<active, socket, strayed, counts>>

\* The handler of the POST: the plan is queued, or refused (422, 409, 5xx).
Enqueue(j) ==
    /\ jobs[j].phase = "posted" /\ jobs[j].ops # Absent
    /\ jobs' = [jobs EXCEPT ![j].phase = "queued", ![j].kept = TRUE,
                            ![j].snapshot = Message("queued", jobs[j].ops)]
    /\ UNCHANGED <<active, store, deploying, saved, socket, strayed, counts>>

Refuse(j) ==
    /\ jobs[j].phase = "posted"
    /\ jobs' = [jobs EXCEPT ![j].phase = "refused"]
    /\ UNCHANGED <<active, store, deploying, saved, socket, strayed, counts>>

\* The answers write into whatever project is active by then.
Accepted(j) ==
    /\ jobs[j].reply /\ jobs[j].phase \notin {"posted", "refused"}
    /\ jobs' = [jobs EXCEPT ![j].reply = FALSE]
    /\ Save([store EXCEPT !.job = j])
    /\ Attach(j, 0)
    /\ UNCHANGED <<active, deploying, strayed, counts>>

\* The .catch of deploy: the rows are staged again and the button is free.
Unposted(j) ==
    /\ jobs' = [jobs EXCEPT ![j].reply = FALSE]
    /\ Save([store EXCEPT !.rows = [r \in Rows |-> IF @[r] = "absent" THEN "absent" ELSE "staged"]])
    /\ deploying' = FALSE
    /\ UNCHANGED <<active, socket, leaves>>

Refused(j) ==
    /\ jobs[j].reply /\ jobs[j].phase = "refused"
    /\ Unposted(j)
    /\ UNCHANGED <<strayed, faults>>

\* The connection fails under the POST, whatever became of the plan.
AnswerLost(j) ==
    /\ jobs[j].reply /\ faults < MaxFaults
    /\ Unposted(j)
    /\ strayed' = TRUE /\ faults' = faults + 1

-----------------------------------------------------------------------------
\* The worker: transport.publish writes the snapshot and sends the message to
\* the sockets that subscribed.

Announce(j, message) ==
    socket' = IF socket.job = j /\ socket.at \in {"subscribed", "open"}
              THEN [socket EXCEPT !.frames = Append(@, message)]
              ELSE socket

Publish(j, phase, ops) ==
    /\ jobs' = [jobs EXCEPT ![j].phase = phase, ![j].ops = ops, ![j].past = @ \cup {ops},
                            ![j].snapshot = Message(phase, ops), ![j].kept = TRUE]
    /\ Announce(j, Message(phase, ops))
    /\ UNCHANGED <<active, store, deploying, saved, strayed, counts>>

Pickup(j) == jobs[j].phase = "queued" /\ Publish(j, "running", jobs[j].ops)

StartRow(j, r) ==
    LET ops == jobs[j].ops IN
    /\ jobs[j].phase = "running" /\ ops[r] = "pending"
    /\ \A d \in PlanDeps(ops, r) : ops[d] = "done"
    /\ Publish(j, "running", [ops EXCEPT ![r] = "running"])

EndRow(j, r) ==
    /\ jobs[j].phase = "running" /\ jobs[j].ops[r] = "running"
    /\ \E end \in {"done", "error"} : Publish(j, "running", [jobs[j].ops EXCEPT ![r] = end])

\* What _advance_plan cancels goes out in one message: what waits for a failed
\* operation, or everything that waits after a stop request.
Doomed(ops) ==
    {r \in Rows : ops[r] = "pending" /\ \E d \in PlanDeps(ops, r) : ops[d] \in {"error", "cancelled"}}
SkipRows(j) ==
    LET waiting == {r \in Rows : jobs[j].ops[r] = "pending"} IN
    /\ jobs[j].phase = "running"
    /\ \E skipped \in {Doomed(jobs[j].ops), waiting} \ {{}} :
          Publish(j, "running", [r \in Rows |-> IF r \in skipped THEN "cancelled" ELSE jobs[j].ops[r]])

Through(ops) == \A r \in Rows : ops[r] \in Finals \cup {"absent"}

Conclude(j) ==
    /\ jobs[j].phase = "running" /\ Through(jobs[j].ops)
    /\ Publish(j, "done", jobs[j].ops)

\* start_plan_task fails, or the plan drains after an administrator's stop.
Collapse(j) ==
    /\ jobs[j].phase \in {"queued", "running"} /\ \A r \in Rows : jobs[j].ops[r] # "running"
    /\ Publish(j, "error", [r \in Rows |-> IF jobs[j].ops[r] = "pending" THEN "cancelled"
                                           ELSE jobs[j].ops[r]])

\* _publish_scheduler_states in a slot that read the states, and publishes them when others
\* have published newer ones, or the last message: nothing compares the two.  (A slot that
\* reads every operation ended publishes the last message itself, afterwards.)
PublishLate(j) ==
    /\ jobs[j].phase \in {"running", "done", "error"} /\ faults < MaxFaults
    /\ \E ops \in jobs[j].past :
        /\ ~Through(ops)
        /\ jobs' = [jobs EXCEPT ![j].snapshot = Message("running", ops), ![j].kept = TRUE]
        /\ Announce(j, Message("running", ops))
    /\ faults' = faults + 1
    /\ UNCHANGED <<active, store, deploying, saved, strayed, leaves>>

\* A snapshot lives for ten minutes after a terminal message, for an hour after another.
Expire(j) ==
    /\ jobs[j].kept /\ faults < MaxFaults
    /\ jobs' = [jobs EXCEPT ![j].kept = FALSE]
    /\ faults' = faults + 1
    /\ UNCHANGED <<active, store, deploying, saved, socket, strayed, leaves>>

-----------------------------------------------------------------------------
\* The progress socket.

Live(j) == jobs[j].phase \in {"queued", "running"}

\* job_progress subscribes before it reads the snapshot.
Subscribe ==
    /\ socket.at = "opening"
    /\ socket' = [socket EXCEPT !.at = "subscribed"]
    /\ UNCHANGED <<active, store, deploying, saved, jobs, strayed, counts>>

\* onclose without a terminal frame: try again, or give the plan up.
Retry ==
    /\ socket.attempt < Retries
    /\ socket' = [socket EXCEPT !.at = "waiting", !.frames = <<>>]
    /\ UNCHANGED <<store, saved, deploying, strayed>>

GiveUp ==
    /\ socket.attempt = Retries
    /\ strayed' = (strayed \/ Live(socket.job) \/ jobs[socket.job].kept)
    /\ Save(Reverted(store))
    /\ deploying' = FALSE /\ socket' = NoSocket

Closed == Retry \/ GiveUp

\* Mutant: the snapshot is not replayed, the stream starts with what comes next.
StreamNews ==
    /\ socket.at = "subscribed" /\ jobs[socket.job].kept
    /\ socket' = [socket EXCEPT !.at = "open"]
    /\ UNCHANGED <<active, store, deploying, saved, jobs, strayed, counts>>

Stream ==
    /\ socket.at = "subscribed" /\ jobs[socket.job].kept
    /\ LET last == jobs[socket.job].snapshot
       IN  socket' = [socket EXCEPT !.at = "open",
                        !.frames = IF last.type \in {"done", "error"} THEN <<last>> ELSE <<last>> \o @]
    /\ UNCHANGED <<active, store, deploying, saved, jobs, strayed, counts>>

\* Without a snapshot the server closes with 4404.
Unknown ==
    /\ socket.at = "subscribed" /\ ~jobs[socket.job].kept
    /\ Closed
    /\ UNCHANGED <<active, jobs, counts>>

Drop ==
    /\ socket.at \in {"opening", "subscribed", "open"} /\ faults < MaxFaults
    /\ faults' = faults + 1
    /\ Closed
    /\ UNCHANGED <<active, jobs, leaves>>

Reconnect ==
    /\ socket.at = "waiting"
    /\ Attach(socket.job, socket.attempt + 1)
    /\ UNCHANGED <<active, store, deploying, saved, jobs, strayed, counts>>

\* onPlanState; a queued message only moves the label.
Progress(frame) ==
    /\ frame.type \in {"queued", "running"}
    /\ socket' = [socket EXCEPT !.frames = Tail(@)]
    /\ IF frame.type = "running" THEN Save(Applied(store, frame.ops)) ELSE UNCHANGED <<store, saved>>
    /\ UNCHANGED deploying

\* onDone, onError with a status.
Ended(frame) ==
    /\ frame.type \in {"done", "error"}
    /\ Save(IF frame.type = "done" THEN Finished(store, frame.ops) ELSE Reverted(store))
    /\ deploying' = FALSE /\ socket' = NoSocket

Receive ==
    /\ socket.at = "open" /\ socket.frames # <<>>
    /\ Progress(Head(socket.frames)) \/ Ended(Head(socket.frames))
    /\ UNCHANGED <<active, jobs, strayed, counts>>

-----------------------------------------------------------------------------
\* The operator.

\* loadOps: closes the socket, clears the timer, and resumes the job of the project.
Load(d) ==
    /\ store' = Sanitized(d)
    /\ deploying' = (d.job # NoJob)
    /\ IF d.job = NoJob THEN socket' = NoSocket ELSE Attach(d.job, 0)

Leave ==
    /\ leaves < MaxLeaves /\ leaves' = leaves + 1
    /\ strayed' = (strayed \/ \E j \in JobIds : jobs[j].reply)
    /\ UNCHANGED faults

Switch(p) ==
    /\ p # active
    /\ saved' = [saved EXCEPT ![active] = store]
    /\ active' = p
    /\ Load(saved[p])
    /\ Leave
    /\ UNCHANGED jobs

\* The page is opened again; an answer to the old page is lost.
Reload ==
    /\ Load(saved[active])
    /\ jobs' = [j \in JobIds |-> [jobs[j] EXCEPT !.reply = FALSE]]
    /\ Leave
    /\ UNCHANGED <<active, saved>>

\* removeOpCascade; the panel offers it while nothing is deploying.
Remove(o) ==
    /\ ~deploying /\ o \in Listed(store)
    /\ Save(Keeping(store, Listed(store) \ Cascade(store, o)))
    /\ UNCHANGED <<active, deploying, socket, jobs, strayed, counts>>

\* cacheExecutionGroups, after the review of the compiled plan.
Review ==
    LET new == {r \in Provisions : /\ Parent(r) \in Resettable(store)
                                   /\ store.rows[r] = "absent"}
    IN  /\ ~deploying /\ new # {}
        /\ Save([store EXCEPT !.rows = [r \in Rows |-> IF r \in new THEN "pending" ELSE @[r]],
                              !.deps = [r \in Rows |-> IF r \in new THEN {Parent(r)} ELSE @[r]]])
        /\ UNCHANGED <<active, deploying, socket, jobs, strayed, counts>>

-----------------------------------------------------------------------------
Works(j) ==
    \/ Pickup(j) \/ SkipRows(j) \/ Conclude(j)
    \/ \E r \in Rows : StartRow(j, r) \/ EndRow(j, r)

Handles(j) == Enqueue(j) \/ Refuse(j)
Answers(j) == Accepted(j) \/ Refused(j) \/ AnswerLost(j)
Streams == Subscribe \/ Stream \/ Unknown \/ Reconnect \/ Receive

Next ==
    \/ Deploy \/ Review \/ Reload
    \/ \E o \in Ops : Remove(o)
    \/ \E p \in Projects : Switch(p)
    \/ \E j \in JobIds : Handles(j) \/ Answers(j) \/ Works(j)
                           \/ Collapse(j) \/ PublishLate(j) \/ Expire(j)
    \/ Streams \/ Drop

Spec == Init /\ [][Next]_vars

-----------------------------------------------------------------------------
\* As long as the tab keeps track of its plans, a project has at most one in flight,
\* whatever is dropped, overtaken or expires, and wherever the operator goes (deploy,
\* loadOps and attachPlanSocket of staging.ts).
OneLivePlan ==
    ~strayed => \A i, j \in JobIds :
        Live(i) /\ Live(j) /\ jobs[i].project = jobs[j].project => i = j

\* What a concluded plan has done is not sent again while its last message can be read:
\* it has not expired, and no older one was published over it (prepareDeployPlan,
\* finishDeploy).
Readable(j) == jobs[j].kept /\ jobs[j].snapshot.type = jobs[j].phase
DoneNotResent ==
    ~strayed => \A i, j \in JobIds : \A o \in Ops :
        i < j /\ jobs[i].phase = "done" /\ Readable(i) /\ jobs[i].ops[o] = "done"
            => jobs[j].ops[o] = "absent"

\* While the button is blocked something is on its way that unblocks it: an answer, a
\* connection, or a message (staging.ts deploy, ws.py job_progress).  The exception is a
\* plan whose last message was overwritten by an older one: who connects after that
\* waits for nothing (PlanScheduler's SnapshotStaysTerminal).
Overwritten(j) == jobs[j].phase \in {"done", "error"} /\ jobs[j].snapshot.type # jobs[j].phase
DeployIsDriven ==
    deploying =>
        \/ \E j \in JobIds : jobs[j].reply /\ jobs[j].project = active
        \/ socket.at \in {"opening", "subscribed", "waiting"}
        \/ /\ socket.at = "open"
           /\ socket.frames # <<>> \/ Live(socket.job) \/ Overwritten(socket.job)

\* What staging.ts says of it ("a project only ever has one active deploy"), whatever
\* happens to the answers: TLC refutes it with an answer that is lost (README.md).
OneActiveDeploy ==
    \A i, j \in JobIds : Live(i) /\ Live(j) /\ jobs[i].project = jobs[j].project => i = j
=============================================================================
