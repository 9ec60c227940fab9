# Verification of EC-PKI-Playground

TLA+ models of the program in this repository, the TLC configurations that check
them on small instances, and theorems about them checked by TLAPS.

The program draws PKI labs on a canvas (domain controllers, certificate
authorities, web servers, clients), clones the machines on an ESXi host, and
configures them through an agent that phones home from each guest.  It is a
React frontend, a FastAPI process, Celery workers in two queues, MongoDB, and
Valkey (broker, job snapshots, pub/sub, leases).  Almost everything that can go
wrong is a matter of *when*: worker slots that share a plan document, a browser
tab that awaits answers while its user goes elsewhere, a guest that reboots in the
middle of an operation, tasks that are delivered again.

- [Reading the project](#reading-the-project)
- [The system](#the-system)
- [The modules](#the-modules)
- [The runs](#the-runs)
- [Fairness](#fairness)
- [What is proved](#what-is-proved)
- [What does not hold](#what-does-not-hold)
- [What is not modelled](#what-is-not-modelled)
- [Plan](#plan)

## Reading the project

`PROJECT.json` names, for every definition that models code, the file, the lines
and the symbol it stands for (`map`); the runs with their properties; for every
property a mutant of the model that breaks it; the hazards, each at its line; and the
theorems.  A definition whose comment begins with "Mutant:" is the changed form
of the definition that follows it and is used by nothing else in its module.

    tlc -config MCPlanScheduler_faults.cfg MCPlanScheduler
    tlapm PlanSchedulerProofs.tla

## The system

### Components, their state and their operations

| Component | Where | State | Operations |
|---|---|---|---|
| Plan scheduler | `tasks.py`, `routers/deploy.py`, `core/jobs` | `plan_runs.scheduler.ops`, broker queues, the job's snapshot and cancel flag in Valkey | deploy, cancel, administrator's stop; start task, operation task, advance, cascade, enqueue, publish, conclude |
| Operation sequences and agent dispatch | `core/sequences/engine.py`, `worker.py`, `core/agentbus.py`, `routers/orchestrator.py` | `plan_runs` cursor and artifacts, job snapshots per step, pub/sub channels, what the agent executes | run a step, retry, verify, gate, reboot and reconnect, persist; forward, execute, relay |
| Agent connections | `routers/orchestrator.py`, `core/agents.py`, `core/agentbus.py` | the process's map of live sockets, the lease in Valkey, `agent.lastConnectedAt` | connect, take over, keep alive, expire, disconnect, close on deletion |
| Guest lifecycle | `tasks.py`, `core/ippool.py`, `core/db/client.py` | `ip_pool`, `vm_registry`, the ESXi inventory, the guest range | clone with roll back, destroy, allocate, release, sync of the pool |
| Deploy client and job stream | `store/staging.ts`, `lib/staging.ts`, `lib/ws.ts`, `routers/ws.py`, `core/jobs/transport.py` | the list of operations, `deployJobId`, the progress socket, the job's snapshot | stage, undo, remove, review, deploy, follow, retry the socket, finish, revert, load, switch, reload |
| Project persistence | `lib/projectSync.ts`, `routers/projects.py` | last acknowledged copy, timers, in-flight and pending sets; the `projects` collection | hydrate, edit, debounce, flush, create, update, delete, retry, sign out |
| Project tabs and autosave | `store/projects.ts`, `lib/projectAutosave.ts`, `lib/projectTemplate.ts` | open tabs, their documents, what is marked dirty | open, switch, delete, reload, checkpoint, save, start from the template |
| Canvas and topology store | `store/topology.ts`, `lib/topology.ts`, `lib/deployTopology.ts`, `Canvas.tsx`, `hooks/useAgentPromotion.ts` | cards with lifecycle and place, ghost and committed edges, open dialogs | drop, drag, configure, connect, join, leave, delete, undo, remove; preview, lint; fold a plan's states; promote |
| Inspector and config ISOs | `Inspector.tsx`, `IsoAuthoringPanel.tsx`, `ScriptEditorDialog.tsx`, `GenerateScriptDialog.tsx`, `routers/iso.py` | the panel's own state, each card's scripts and upload, GridFS | select, rename, configure, delete, author, import, generate, upload, replace, sweep, run a command |
| Evidence | `lib/labEvidence.ts`, `lib/certificateJourney.ts`, `EvidenceMode.tsx`, `core/evidence.py` | reports on nodes, health and services on edges, the frozen snapshot | fold a report, freeze, show, export |
| Plan compiler and validation | `core/topology.py`, `routers/deploy.py`, `core/execution_manifest.py` | none | validate a topology, compile operations into a plan |
| Reconcile and teardown | `tasks.py`, `core/teardown.py` | `plan_runs`, the job snapshot | compare a run with the lab, take a lab down in order |
| Boot settling | `core/agentbus.py` | none of its own: polls lease and connect record | wait for a first, a stable, a settled connection |
| Presence stream | `core/agents.py`, `routers/orchestrator.py`, `store/agents.ts`, `lib/ws.ts` | signal queues, the tab's copy of the map | signal, snapshot, recheck, reconnect, promote a node |
| Project shares | `routers/project_shares.py` | `project_shares` | publish, inspect, accept |
| The rest | see `PROJECT.json` | | sequence tables, preflights, authentication, settings, admin console, set-up |

### How they interact

    tab (DeployClient) --POST /deploy--> API --start_plan_v2--> esxi queue
       ^                                              |
       |  /ws/jobs/{id}: snapshot, then live frames   v
       +------------------- Valkey <---publish--- worker slots (PlanScheduler)
                              ^                       |  body of an operation
        lease, dispatch,      |                       +--> clone / destroy (GuestLifecycle)
        progress channels     |                       +--> step sequence   (SequenceRun)
                              v                                  |
    guest agent <--WebSocket--> API (AgentConnection) <--agent-dispatch--+

    tab (ProjectSync) --PUT/POST/DELETE /projects--> API --> MongoDB

    inside the tab:  mouse, shortcuts, dialogs (CanvasEditing) --+-- list of operations (StagedOps)
                     panel of a card (Inspector) ----------------+        |
                     tabs, autosave, lenses (LabEvidence) <-- states, report --+-- DeployClient
                     rules, guidance, topology that is sent (CanvasRules) --> PlanCompiler

The cuts between the models are the calls between the components.  PlanScheduler
takes the body of an operation as a step that ends done, with an error, or
cancelled; DeployClient takes a plan as something that publishes states and
concludes; SequenceRun takes the agent's connection as up or down and asks of it
only what AgentConnection's properties state (a served connection is the one a
dispatch resolves, the lease follows it).  GuestLifecycle takes the tasks on one
name as not overlapping, which is what the plan gives it (one `createVm` per
node, `compile_plan`) and what the reader must know, since nothing in the pool
enforces it (constant `Overlap`).  LabDeploys looks across deploys: an operation is one
step there, in an order that PlanCompiler's dependencies allow, which is what
PlanScheduler's `DependenciesFirst` and `PlanExecution` promise.  CanvasEditing takes a
plan as one step with every outcome that the dependencies allow; LabEvidence has its
single frames, and the report at the end.  The four modules of the canvas share
`StagedOps`, so what a plan's end makes of the list is written once.

### What is hard

* **Interleaving without locks.** Every slot that finishes an operation reads the
  states, decides, and writes with one compare-and-set per operation; another slot
  does the same between any two of its calls.  The only protection is the two
  claims `pending -> queued` and `queued -> running`.
* **Late acknowledgement.** A task whose process dies, or that is slow, is delivered
  again.  Each task has its own answer: the claim, a cursor with artifacts, a
  lookup of the address by name.
* **State read before an await and used after it**: published states, the owner of
  the connection map, the copy a save compares with, the project a POST was for.
* **Reboots**: the connection must drop and come back, and both look like failures.
* **Gestures that undo each other.** A drag can join, leave or retarget a domain; each
  part of it can be undone alone, before or after it was deployed, and shortcuts act
  whatever dialog is open.
* **Panels without a key.** What the Inspector holds for one card is shown for the next,
  and answers arrive when the card, the selection or the list is another.
* **Several tables of one truth.** The guidance of the canvas and the validation of the
  backend; the checks of the health gate, the warnings of cards and the services of
  edges: each pair was written twice.
* **Snapshots that expire**, or that an older reading overwrites, while somebody still
  relies on them.
* **Answers that are lost** after what they answer was done: a plan that was enqueued, an
  upload that was stored, a VM that was cloned.

`hazards` in `PROJECT.json` has each at its line.

### What makes each component correct

* Scheduler: an operation runs after its dependencies and once; what has ended
  stays ended; a terminal message tells the final states; every plan gets one, but for
  the two ways the code leaves one open.
* Sequences: steps in order over redeliveries; a recorded step did succeed, its
  artifacts are there, its reboot happened; it is not repeated; the operation ends.
* Connections: one served socket per identity, the one that dispatches resolve; the
  lease follows it.
* Guests: a VM that is up owns its address and its identity; nothing else does; what
  takes an identity away is the teardown, and for failed clones the sweep.
* Compiler and canvas: a plan can always go on; what a later plan builds on was done by
  an earlier one; list and canvas tell the same; what the compiler takes the guidance
  does not fault, and what is configured and valid can be deployed as it is listed; a
  drop does what its drag showed.
* Inspector: a clone is what its card showed; an upload belongs to a card or has leaked
  through a deletion that failed; no answer takes anything away; what is deleted was asked about.
* Evidence and tabs: every failed check is seen; what is open is not shown as done; leaving
  and reloading lose nothing that was saved.
* Deploy client: one plan per project; done work is not sent again; undone work is
  not lost; something under way gives the button back, but for a terminal snapshot that was
  overwritten.
* Presence: what a workspace shows settles on the map.
* Persistence: nothing unsaved without a trigger; what counts as saved is saved; what
  was deleted stays deleted.

## The modules

| Module | Models | EXTENDed by |
|---|---|---|
| `PlanExecution` | the abstract promise of a plan (no slots, messages, round trips) | – |
| `PlanScheduler` | the Celery fan-out | `MCPlanScheduler`, `PlanSchedulerProofs` |
| `SequenceRun` | engine, worker record, dispatch bridge, agent | `MCSequenceRun`, `SequenceRunProofs` |
| `AgentConnection` | connect handler, map, lease, presence stream | `SequenceRunProofs` (its cfg gives all constants) |
| `GuestLifecycle` | clone, destroy, pool, registry | `MCGuestLifecycle`, `GuestLifecycleProofs` |
| `DeployClient` | deploy button, progress socket, job stream | `MCDeployClient`, `DeployClientProofs` |
| `PlanCompiler` | validation and dependencies of a plan: operators only | `CanvasRules`, `LabDeploys` |
| `StagedOps` | the list of operations: operators only | `LabDeploys`, `CanvasEditing`, `LabEvidence` |
| `CanvasRules` | rules, guidance, geometry and topology of a canvas: operators only | `CanvasEditing`, `LabEvidence` |
| `LabDeploys` | canvas, list and lab over several deploys | `MCLabDeploys`, `LabDeploysProofs` |
| `CanvasEditing` | gestures, dialogs, shortcuts, review | `MCCanvasEditing`, `CanvasEditingProofs` |
| `Inspector` | the panel of a card, its scripts and uploads | `MCInspector`, `InspectorProofs` |
| `LabEvidence` | health reports, lenses, autosave, tabs | `MCLabEvidence` |
| `ProjectSync` | write-through saving and the CRUD handlers | `MCProjectSync`, `ProjectSyncProofs` |

All of them choose their atomic steps the same way: **one action per call that
leaves the process** (MongoDB, Valkey, the broker, vSphere, a WebSocket, an HTTP
request) in Python tasks and **one action from one await to the next** in the two
event loops (FastAPI, the browser).  What the code does between two such points is
part of the action.  In the browser a gesture, an answer, a frame or a timer is one action.
Each of the modules with variables has one type invariant, `TypeOK` (the abstract
PlanExecution has none; ProjectSync's is strengthened to `SyncTypes` in its proofs).  Those of
PlanScheduler, SequenceRun, AgentConnection, GuestLifecycle, ProjectSync, DeployClient,
Inspector and LabDeploys are theorems; the others (CanvasEditing, LabEvidence) hold on the instances
of their runs, whose configurations list only what says more than a type.

**PlanScheduler.** `status` is `plan_runs.scheduler.ops`; `inbox` the broker; `snapshot`,
`cancel`, `reason` the three keys of the job in Valkey; `held` and `pc` say which task
a slot executes and where; `seen`, `ready`, `blocked`, `changed`, `failed` are the
locals of `_advance_plan`, `rescue` the except handler of the operation's task.
`Take` is the delivery; `SetUp`, `ResetOps`, `Announce` are `start_plan_task`;
`Claim` … `FinishBody` are `run_plan_operation_task`; `Advance` … `Conclude` are
`_advance_plan`, with its cascade split into its compare-and-sets and with the loop
test that leaves a cascade when a stop was asked for.  `_publish_scheduler_states`
is two actions, a read and a publish, since another slot may write in between.
`Crash` and `CrashStart` give the message back; `RedeliverSlow` delivers it while
the slot lives; `SendFails` is an `apply_async` that raises; `PublishRaises` a Valkey
call that raises.  `runs` is a history variable: how often a body was begun.
`faults["deserted"]` is another: how many tasks of operations ended between their claim and the
end of their advance (`DesertedBy`), by a dead slot or by an except handler that raised too; a
message delivered again finds the claim gone.
The slots of the two queues are told apart (`EsxiWorkers`, `OnEsxiQueue`), because a
clone and the start task share one.

**SequenceRun.** `pc` walks through one iteration of the engine's loop: the cursor
check, the stop flag, the lease, the dispatch with its subscription, the wait,
verification, the reboot wait, the record.  A key is (step, run or verify, attempt),
as `deterministic_step_job_id` builds it, so a late answer to an earlier attempt
arrives under its own key.  `cursor` and `artifacts` are the document, `completed`
and `carried` the engine's memory of it.  `task` is what runs the sequence: a plan's operation, whose
redelivered message loses its claim and returns, so that a crash leaves it `abandoned`, or a task that runs
it again from the document when it is delivered again or asked for, as reconcile and teardown do
(`Redelivered`).  `channel`, `executing`, `outbound` and
`snapshot` are the ways of a request and of its answer.  The agent is external:
it executes, keeps terminal frames until they are relayed, and forgets all in a
reboot.  Time does not appear: a wait may expire at any moment.

**AgentConnection.** One identity.  `at` is the point of each connection's handler
between two awaits: accept and authenticate, pop and close the previous owner,
write the lease, write the connect time, serve, and the `finally` block.  `registered`
is `_connected[vm_id]`; `lease` the key; `keepalive` the tasks that renew it.
`DeleteVm` and `ClosePopped` are the forced close of `delete_vm`.  `overtaken` is history: a
handler registered over the connection of another.  `tab` is a workspace and its
presence socket: `Notify` is part of every action that changes the map; `ReadMap` and
`SendSnapshot` are the handler's loop, with the burst of signals it coalesces
(`Pending`); `ShowSnapshot` is the frame's arrival, `WatchDrops` and `OpenWatch` the
reconnect.  The flag `watching` is read by nobody in the code and left out.

**GuestLifecycle.** `pool`, `registry`, `vm` are the three records of a guest;
`pc`, `ip`, `identity` the locals of each task.  The clone's order is the code's:
find, claim, register, mint, persist, clone, ready; a failure runs the cleanup that
first looks whether the VM exists.  `edit` is `sync_pool_async` under way, in its two
calls.  `Provision` is what a provision operation writes into the entry, and `Sweep` the sweep of stale
agents, on which the 24 h are no bound (any entry that qualifies may be old enough); `swept` is history: the
identities that it took from a failed clone's entry.  `unproven` is history: names for which a lost task, a failed lookup or an
early failure leaves something that nobody will reclaim.

**DeployClient.** Two projects, one tab.  `store` is the active project's list and job,
`saved` what the autosave keeps, `socket` the progress socket with both of its ends
(the server reads a snapshot, subscribes, reads again: `routers/ws.py`), `jobs` the plans
as the tab can see them.  `Deploy` with its answers (`Accepted`, `Refused`, and `AnswerLost`, which runs the same `.catch` whether or not
the plan was enqueued), the plan's rows on the server (`Works`),
the socket's subscription and its frames (`Subscribe`, `Stream`, `Receive`), its retries and
their end (`Closed`), `Switch` and `Reload`, which leave the tab's socket.  A snapshot, of a running plan or of
one that is through, may expire (`Expire`), and a slot that read the states earlier may publish them late, over
the terminal message (`PublishLate`).  `strayed` is
history: the tab lost track of a plan, since the answer to its POST was lost or left behind, or since the
retries were used up while the plan ran or could still be read.

**PlanCompiler.** `Valid` is `validate_topology`, `Compiles` what `compile_plan` accepts, `Needs`
what its last loop requires of each kind of operation, `Dependencies` that part of it which
the plan holds.  An operation is its key (kind, target, secondary); an edge carries
whether it is planned or realized.

**StagedOps.** A row has an id, an operation, a status, the ids it depends on and the
domain it replaces.  `Inferred` is what staging makes it depend on, `Dependents` the cascade
of a removal, `Prepared` what a deploy or a retry sends, `Mirrors` the provision rows,
`Finished` and `Reverted` what the end or the loss of a plan leaves, `LifeShown` what its states
make of a card.

**CanvasRules.** A canvas `c` is a record of cards (type, life, one setting, place) and edges.
`CanConnect`, `CanConnectSockets` and `JoinBlocked` say what may be drawn, `FindDomain` and the circles
where a card belongs, `Lint` and `ReadyToStage` are the guidance, `Hydrated` is what opening
a saved canvas repairs, `DeployTopology` is what is sent.  A place is a point on a line, so a
circle is an interval.  `IsQuiet` says that no warning and no preview asks for anything.

**LabDeploys.** `life` and `edges` are the canvas, `rows` the list of operations with its
mirrored provision rows, `Topology` what is sent of them.  The actions are the operator's edits
(`Configure`, `Retarget`, `Connect`, `Remove`), the button (`Deploy`, which asks
`PlanCompiler` and is refused or starts a plan), the ends of operations (`Succeed`, `Fail`
with its cascade, the two stops), what the tab makes of the end (`Finish`,
and the revert in `StopByAdmin`) and `Promote`, the agent's presence.  `real` is what has been done
in the lab, independent of what anyone believes of it: the properties compare
the two.  `ended` is history: which kinds of operation the last plan had and which failed.
`strayed` and `unleft` are history: an owner stopped a plan, or a retargeting join was undone; a
leave was undone and the join above it was not ([below](#what-does-not-hold)).

**CanvasEditing.** The same canvas under the hand of its operator.  `Drop`, `Drag`, `Configure`,
`Connect`, `JoinAction` and `RequestRemove` are gestures, which find no dialog open; `dialogs` is the
stack of questions they ask (`domain`, `delete`, `cut`, `review`), answered from the top; `Undo` and
`DeleteKey` are the shortcuts, listeners of the window that act past any dialog.  A question about domains knows
which cards were where they belong when the drag began (`rested`): declining it must leave them there.
`Compile` and `Compiled` are the review, between which the canvas may be edited;
`ConfirmReview` sends what is listed by then, as the code does; `DeployEnds` takes one of
the `Outcomes` of the plan.  `strayed` is history and names what the code does not survive:
a shortcut or a review past a dialog, half of a retarget undone or changed again, a failed
card configured while its clone is listed, the type of a CA changed below its connections.
`Listed` and `Opened` are a saved project as `loadOps` and `loadSnapshot` take it; `ListFits` says when a
list and a canvas tell the same.

**Inspector.** `canvas` has the cards with names, configurations and ISOs, `panel` the state of
the components under the Inspector, `calls` the answers that are awaited, each with `mine`,
whether the panel that asked is still mounted: an answer then also writes the panel's
state, and what it writes to the card it writes either way.  `stored` and `swept` are the
uploads.  `Deploy`, `PlanStarts` and `CloneEnds` are the plan as far as clones go; what a clone
is made of (`Disc`) is fixed when it is sent.  Every deletion of an upload is best-effort
(`Deletes`), in the client as in the worker, and an upload whose answer is lost may have been stored
(`UploadFails`).  `leaked`, `raced`, `stale` and `strayed` are history: an upload whose deletion or
answer failed, an
upload answered at the wrong time, a list of scripts changed while one was awaited, a
shortcut past a dialog.

**LabEvidence.** `tabs` and `docs` are the projects and what is stored of them, `canvas` the
working stores of the active one, `plans` what the server does for each.  A report is the
set of checks that failed; `Services`, `CardWarning` and `AuditSnapshot` say what is made of it.
`Frame` folds the plan's states, `PlanEnds` the final ones and the report; `Lost` is a job
that is gone.  Every action that changes the stores ends in what `initProjectAutosave`
does: a checkpoint of the document, or only its mark as dirty.

**ProjectSync.** One project and its document.  `tab` is the module state of
`projectSync.ts`, `requests` the requests that the server or the tab still has to deal
with; a request of an earlier session stays, and its answer does nothing.
`update_project` is its find and its replace.  `removed` is history: whether the operator
deleted the project, and whether the tab knew of its document then.

## The runs

Every bound is a constant named `Max…`, a bound of a scene, or a set.  Each run ends within
about three minutes on two cores.

| Run | Instance | Shows |
|---|---|---|
| `plan_faults` | two operations feed a third (`Join`), two slots, one stop of each kind, one failing send, one dying slot, one slow one | `DependenciesFirst`, `ConcludedIsFinal`, and that the scheduler implements `PlanExecution` (`ExecutesPlan`) |
| `plan_concludes` | three operations in a row (`Chain`), so a cascade of two levels; one stop of each kind, and two of a failing send, a dying slot, a slow one and a raising publish; or the start task delivered twice and a raising publish (constraint `TwoFaults`) | `OneRunPerStart`, `PlanConcludes` |
| `seq` | four steps: one retried and skippable with an artifact, one reboot with verification, one gate, one plain; one crash, drop, lost request and expired snapshot; in a plan or in a task that is repeated | `StepsInOrder`, `RebootConfirmed`, `NotDispatchedAgain`, `OperationEnds` |
| `conn` | two connections, one raising call, one deletion of the VM, one break of the presence socket or the workspace | `ServedIsResolved`, `LeaseFollows`, `PresenceSettles` |
| `guest` | two clones and a teardown of one name, a clone of another, two addresses, one crash, one failing call, one edit of the range, sweeps at any time | `VmAddressHeld`, `IdentityKept`, `NothingStranded` |
| `sync` | two edits, three versions, a deletion, two sessions; a failure, a denial, an edit that leads back, a document somebody else removes, two of these troubles at most (constraint `TwoTroubles`) | `NothingForgotten`, `SavedIsServed`, `PendingIsDriven`, `SavedInCalm` |
| `deploy` | two projects; a clone, its provision row and a join; two jobs; a drop, a lost answer, a late message, an expired snapshot, a switch or a reload; the tab at most three messages behind (constraint `OneTrouble`) | `OneLivePlan`, `DoneNotResent`, `DeployIsDriven` |
| `lab` | `PkiLab`: four machines of a two-tier PKI join a running domain, two deploys, two edits; `DomainLab`: a member between two domains, three deploys, four edits; one failing operation and one stop | `CanvasIsReal`, `EditsCanBeRetried`, `PrerequisitesFirst` |
| `lab_retry` | `DomainLab`, one failing operation | finding: `RetryCompiles` is violated |
| `canvas` | six canvases, two to four gestures each, one shortcut, cards dropped at four places | `ListMatchesCanvas`, `ConfiguredCanvasCompiles`, `AcceptedIsGuided`, `DroppedWhereItBelongs`, `AskedAsPreviewed`, `ReadyKeepsComplete` |
| `inspector` | two cards, three starts (two staged with scripts and with an upload; a draft beside a running one; two running), five gestures, one shortcut, two uploads, two files at most; any deletion of an upload and any answer may fail | `UploadsMatchCards`, `PlanMatchesPanel`, `AnswersKeepScripts`, `CascadeIsConfirmed` |
| `evidence` | six projects, each with its bounds of deploys, errors, losses, reloads, edits, switches and verdicts | `SnapshotAgrees`, `EveryFailureIsShown`, `ListedIsOpen`, `LeavingKeeps` |

**Why the bounds are enough.**  *Plans:* an anomaly of the scheduler needs two slots
that decide on each other's stale reads, and an operation with two dependencies
and two that are ready together, which is `Join`; the ways in which a plan may stay open need a cascade of two
levels, a slot that dies, a message delivered again or a send that fails, which `Chain` has.  The
theorems lift the safety part to every plan and every number of slots.  *Sequences:*
each kind of step occurs, before and after a step of another kind; a redelivery sees
a cursor of every length; the theorems lift the order and the absence of repetitions.
*Connections:* a takeover has an old and a new handler; the theorem has any number, and a
third see [below](#what-does-not-hold).  *Guests:* two addresses are the fewest with
which one can be handed out in place of another, and the theorem lifts the result.
*Deploy:* a second job is what may overlap or resend;
the theorems have any number of jobs, faults and reloads, in any combination, and of messages under way.  *Lab:* the PKI has every kind of
operation and each of the compiler's cross-dependencies once (client after CA, CA after
web server); three deploys are the fewest in which a membership is made, moved and
moved again, and with four edits a move is taken back, changed and half undone between two
of them.  *Sync:* an edit can fall before,
during and after a write, and between a find and a replace; the theorems have any number
of edits and faults.  *Canvas:* the places are in a circle, at its rim beside a card,
in the gap between two circles, and in the other circle; each scene puts one thing within reach of
its gestures: relating a staged PKI (`Pki`), moving a member between two domains (`Lab`),
repairing an old canvas (`Legacy`), CAs that may be connected wrongly (`Cas`), a new card (`New`),
a second host for a CA that publishes (`Grown`).  *Inspector:* state that is carried over needs two
cards and a change of selection between a call and its answer.  *Evidence:* every
single check fails in `Probing`; the other scenes need only a clean and a failed
verdict, twice where a retry follows (`Relations`, `TwoHosts`).  One fault of
each kind per behaviour is the case the code has answers for; where it gives up with
more, the section on what does not hold says so.

## Fairness

* `PlanScheduler`: `WF(WorkerStep(w))` for every slot.  A live Celery process goes on
  executing its task and consuming its queue; a `Crash` ends the task and frees the
  slot, as the worker pool replaces a dead process.  Nothing is assumed of users,
  of faults, or of what a body's outcome is.
* `SequenceRun`: `WF(WorkerStep)`.  Every wait of the engine has a deadline, so the
  worker alone makes `OperationEnds` true, with no help from the agent or the bridge.  That a task which is
  repeated is run again is part of it: Celery delivers the message again, or somebody asks for another
  reconcile or teardown; nothing is assumed of a plan's operation whose worker died, which nobody runs again.
* `AgentConnection`: weak fairness of each handler and of each keepalive (an event loop
  runs ready coroutines), of `Expire` (Valkey expires keys), of the presence handler and, apart
  from it, of the browser that shows what arrives.  The recheck every 30 s is not fair:
  `PresenceSettles` holds by the signals alone.
* `ProjectSync`: weak fairness, each for itself, of the debounce, of the retry, of the server,
  and of the delivery of answers.
* `GuestLifecycle`, `DeployClient`, `LabDeploys`, `CanvasEditing`, `Inspector`, `LabEvidence`: safety only.
  Of an agent's command in the Inspector nothing is assumed: neither its socket nor the command has a deadline.
  `DeployIsDriven` is an invariant that says what is under way that will unblock the button.

## What is proved

TLAPS checks, for every value of the constants:

* **`PlanSchedulerProofs!TypeCorrect`**, `Spec => []TypeOK`.  `TypeOK` includes
  `StepFits`, that a slot is only at steps of the task it holds; the step of the
  operation's task index `status` with `held[w]`, so the types need it.
* **`PlanSchedulerProofs!SafeScheduling`**: `DependenciesFirst` and `RunsAtMostOnce`, for
  specifications whose start task is executed once (`MaxStartRedeliveries = 0`) and
  whose publishes do not raise (`MaxOutages = 0`): with either the code may run
  a body again (`OneRunPerStart` says how often).  `SchedulerInv` is the inductive
  invariant: who may still touch an operation.  An untouched operation has no message
  and no slot (`Untouched`); at most one slot is in its body, and `status` says running
  while it is (`Owners`); whoever holds the claim `queued` has not sent yet (`Senders`);
  what a slot has read as done is done, and what it decided to enqueue is ready
  (`Decided`).  The last is why stale reads are harmless: "all dependencies are done" is
  stable, because done is never left.  Assumed: `Deps` maps operations to sets of them;
  acyclicity is not needed.
* **`PlanSchedulerProofs!ConcludedPlansAreFinal`**, **`SchedulerExecutesPlan`** and
  `FinishedOperationsStay`, under the same two conditions: `[]ConcludedIsFinal`, the refinement of
  `PlanExecution`, and that a finished operation is left alone.  `StatusSteps` lists the ways of one
  operation from a status to the next (`Moves`) and finds one of them in every action; `RefinementStep`
  reads each as a step of the abstract plan.  `Excused` is what they rest on beside `SchedulerInv`:
  what a slot has read as finished is so, what it is about to cancel has a failed
  dependency or a stop asked for it, and it concludes on finished operations only.
* **`PlanSchedulerProofs!OneRunPerExecution`**, `Spec => []OneRunPerStart`, with every fault and no
  condition.  `RunBudget` counts an operation's chances: its runs, the slots on their way to its body
  (`Carriers`), the status from which one more may claim it, the messages and slots of the start
  task, and the plan not submitted yet.  No step adds a chance but a redelivery of the start task.
* **`LabDeploysProofs!PlansAreAcyclic`**: in a compiled plan every set of operations has one
  that waits for no other of the set, which is `PlanScheduler`'s assumption
  `DepsAreAcyclic` (liveness needs it).  `Rank` gives each operation a number that falls along
  every dependency.  The kinds alone are no such rank: a CA connection waits for joins
  and a client's join waits for CA connections; that joins of servers and of
  clients differ is `RolesFit`, so the proof needs that the topology validates.
* **`LabDeploysProofs!NeedsAreMet`**: what `require` drops because the plan does not hold it is
  realized in the topology that was sent.  That the topology is true is the next theorem.
* **`LabDeploysProofs!CanvasStaysReal`**, `Spec => []CanvasIsReal`, for every lab and any number of deploys,
  edits, errors and stops.  `DeploysInv` says of the list that ids and departures are unique (`Listed`); of
  a plan in flight that every join of it is drawn and a machine leaves before it joins, that a provision
  row ends behind its clone, and that what is done is done in the lab and shown (`Planned`); of the list at rest
  that only clones and their provision rows may be listed as done (`AtRest`); and of the canvas that a
  planned membership has its row, that the membership a staged departure would bring back is real, that none
  of a machine that is to leave is shown as realized (`LeftIsReal`, `LeftIsNotShown`), and that a node
  provisions only in a plan that says so (`Provisioning`).  The first two are why an undo may draw an edge
  as realized.  Assumed: the list that a lab starts with has operations of its nodes and
  relationships (`LabsAssumption`).  After `strayed` it does not hold ([below](#what-does-not-hold)).
* **`LabDeploysProofs!PrerequisitesStandFirst`**, `Spec => PrerequisitesFirst`, under the same
  assumption: what an operation stands on (`StandsOn`) is in the lab when it succeeds.  `DeploysInv` says
  that what is shown has been done; this also needs the converse for domains, as a machine shown
  outside the domain it is in would be joined to a second one.  `OrderInv` adds it: a machine in a domain is
  shown in it or has a departure staged (`JoinedIsShown`), a machine that is to join is not shown as
  joined (`JoinsAreNotShown`), and a departure leaves a domain (`LeavesMove`); and of a plan in flight what
  `Accepted` saw to: one row per join, drawn relations, a row for what is not realized (`PlanFits`), complete CAs
  (`CasFit`).  `PlanStands` says once how an operation that may run stands to its dependencies: they
  are done in this plan, or realized in the topology that was accepted, and hence real; one lemma per kind
  of operation reads `StandsOn` from it.  Excluded: `strayed`, and `unleft`, without which TLC
  refutes it ([below](#what-does-not-hold)).
* **`LabDeploysProofs!EndedEditsCanBeRetried`**, `Spec => []EditsCanBeRetried`, for every lab, also when
  `strayed`.  `DeploysInv` says nothing once an owner has stopped a plan, so `RetryInv` stands alone: it is of a
  plan without clones, from the moment it is accepted (`CanGoOn`).  The topology is valid, no operation
  has two rows, and what is not done is exactly what the canvas still plans.  A frame keeps this because it
  commits the edge of every operation that it tells is done (`PlanStillMatches`, `StaysValid`), and an end because it drops
  what is done and nothing else (`RemainderGoesOn`).  A machine's life is not touched (`LifeStays`), since a provision
  row is sent beside its clone only; that needs the ids of the rows to be those of one row, or of a clone and its
  mirror (`Mirrored`).  With clones it is not so: `RetryCompiles` ([below](#what-does-not-hold)).
* **`LabDeploysProofs!TypeCorrect`**, `Spec => []TypeOK`.  `TypeInv` adds what keeps the ids apart: a row that is staged
  gets an id above all others, and a provision row that of its clone, whose only mirror it is
  (`MirroredOnce`).  Marking rows keeps this whatever the marks are, so that frames, stops and
  ends share one lemma (`RewrittenTyped`).
* **`CanvasEditingProofs!AcceptedCanvasIsQuiet`**: on every canvas of configured cards without half
  a publication, if `validate_topology` accepts the topology that is sent, no warning of the
  guidance panel is left and no preview asks for anything.  It is `AcceptedIsGuided` without
  the gestures.  The argument goes back from the topology to the drawing: an edge of the
  topology has the ends of one that was drawn (`EdgesMade`), so what validation finds of an issuing
  CA (`IssuingIsDrawn`) and of a host (`HostIsDrawn`) is on the canvas, and a card that may be in
  only one domain is shown in that one (`OneDomainIsDrawn`).  `IsCanvas` is all that is assumed of the drawing:
  a publication is between cards of the canvas and starts at a CA.
* **`CanvasEditingProofs!AcceptedStaysGuided`**, `Spec => []AcceptedIsGuided`: so it is on every canvas
  that editing leads to, also after `strayed`.  `DrawnInv` is the invariant.  It says nothing of joins, which
  an undo may draw to a card that is gone ([below](#what-does-not-hold)): only `connect` draws a publication,
  undoing and the dialogs bring back joins, a plan changes the state of an edge and not its ends, and a deleted card
  takes its edges along.  Assumed: a saved canvas is of this shape (`ScenesAssumption`).
* **`CanvasEditingProofs!ListStaysWithCanvas`**, `Spec => []ListMatchesCanvas`, for every saved project whose list
  fits its canvas, any number of cards, and any gestures, undos, reviews and plans.  `ListInv` says of the list
  and the canvas what no single gesture shows (`Tells`): a ghost has its row, a row has its edge, a card that
  departs is drawn in no realized domain; and each operation has one row (`OneRowEach`), or undoing one would
  take the edge of both.  A certificate stands on two sockets: its row is drawn by the OCSP socket of a complete
  publication, so a cut of either takes the row along.  `ChangesTell` treats a dialog of any number of
  changes at once: each is of a card of its own (`DialogFits`), so its rows and edges are apart from those of the
  others, with ids that no row has.  In a plan, `PlanFits` knows which row goes before which:
  `JoinsWaitForLeaves` says that a join that is done was preceded by its departure, since a departure that fails
  cancels it, and so what `DeployEndsTells` gives back as staged still has what it was listed beside.
  Excluded: `strayed`, each part of which TLC refutes ([below](#what-does-not-hold)).  Assumed, beside the
  shape of a saved canvas: `SavedAssumption`, that a saved list was listed beside its canvas, with no operation
  twice.  The autosave stores the two together, so a session at rest without `strayed` leaves them so; but
  `sanitizeOps` may drop operations of a plan that failed in part (see DeployClient below).
* **`CanvasEditingProofs!ConfiguredCanvasesCompile`**, `Spec => []ConfiguredCanvasCompiles`: what is listed is what
  `compile_plan` asks of the topology of the canvas.  `ListMatchesCanvas` is not enough for it: a row may be
  of an edge that is realized already, and a card that is staged may have no clone.  `OpenInv` adds that what is
  listed is still to be done (`Awaits`): a staged card has its clone listed and a listed clone is of a card
  that is staged or failed; a relation that is listed has a ghost, a certificate that is listed a whole
  publication of an issuing CA; roots issue, and a CA that was configured is one of either kind.  A step
  has to keep these together.  An undo takes a clone along with what mirrors it
  (`Closed`: a cascade, the last row and a row without dependents are), and no edge of a row that stays
  (`OwnRows`: the edges of a connection include publications, but of a root, which has no certificate).  After a plan,
  `PlanClones` says that a provision row is cancelled exactly if its clone failed, so what is left as done or
  mirrored is of a card that is shown as failed (`LeftHaveFailed`): the configured canvas of the property has none.
  Last, `OpenCompiles` finds every planned resource in the list and no realized one: where two edges would be
  of one operation, a ghost and a realized one, `EdgesAreSound` of the validation says that they are one.
  Excluded: `strayed`, as above.  Assumed, beside `SavedAssumption`: `OpenAssumption`, that the list of a saved
  project was not carried out yet, and that a card that is dropped is new.
* **`CanvasEditingProofs!DropsAreAskedAsPreviewed`**, `Spec => AskedAsPreviewed`, on every canvas and for any
  geometry: `onNodeDrag` looks for the region under the card among the edges as drawn, `onNodeDragStop` for
  the circles that hold each card after the move, and `computeDomainChanges` compares those with the
  memberships.  They agree because a card that does not give way lands where it was shown (`ClearStays`), and
  one that is no controller moves no circle.  Assumed: places are numbers (`PlacesAssumption`), and of
  circles what `GeometryAssumption` says of `CanvasRules`' constants.
* **`CanvasEditingProofs!ReadyConnectionsKeepComplete`**, `Spec => ReadyKeepsComplete`: three functions judge a
  connection (its preview, `edgeType` with the sockets, `validate_topology`), and a CA that validates
  still does after a connection that was announced as ready.  The hypotheses, one domain per card and no OCSP connection of a
  responder turned off, were found in the proof ([below](#what-does-not-hold)).
* **`GuestLifecycleProofs!TypeCorrect`**, `Spec => []TypeOK`.
* **`GuestLifecycleProofs!GuestSafe`**: with `Overlap = FALSE`, `VmAddressHeld`,
  `NoSharedAddress` and `IdentityKept`, for every number of names, addresses and
  tasks, and any number of crashes, failing calls and edits.  The invariant
  `GuestInv` adds what the one task on a name knows at each step: which steps it
  reaches only with the VM absent (`VmAbsentAt`), which only with its address allocated
  (`HoldsAddress`), when its identity is recorded (`Recorded`) and when it has
  none yet (`Unminted`).  The sweep takes an identity from an entry that is failed or torn down, and then
  its VM is gone or the identity is in `swept`.  **`AgentsKeepIdentity`** states the part about the identity.
* **`GuestLifecycleProofs!NothingStaysStranded`**: with `Overlap = FALSE`, `[]NothingStranded`.
  `ReclaimInv` says by which step of a task an address or an identity is not yet
  reclaimed and who still will: an allocated address of a name without a VM has a task of that name
  that still uses it or gives it back (`Reclaims`, `Reclaimed`), and an entry that is torn down has no
  identity, since one is only written into an entry being cloned (`Forgotten`, `Cloning`).  A name
  keeps to one address (`OneAddress`, `AtMostOne`), because the claim is made only after nothing
  was found for the name (`ClaimsFirst`).
* **`SequenceRunProofs!TypeCorrect`** and **`SequenceRunProofs!RunsInOrder`**, `Spec => []StepsInOrder`, for
  every list of steps and every number of retries and faults.  `StepsInOrder` speaks of requests
  that may be old; `SequenceInv` adds where the engine is.  What the document, the engine's memory and
  the snapshots tell of a success is true (`Truthful`); a frame is in the subscription only while the
  engine waits (`InboxWaits`); the earlier steps are recorded, and past a step's command it has
  succeeded and its artifact is carried (`Placed`).
* **`SequenceRunProofs!NeverDispatchedAgain`**, `Spec => NotDispatchedAgain`.  `AgainInv`: while no
  snapshot expired, a relayed success of a step without retries has its snapshot, or its
  artifact came from another operation and the step is skipped (`Kept`); no key has an attempt that its step does
  not have (`Attempted`); and a step whose success preceded the delivery does not get past
  the snapshot check (`Fresh`).
* **`SequenceRunProofs!RebootsAreConfirmed`**, `Spec => []RebootConfirmed`, for sequences whose reboot steps
  have no retries and are neither skippable nor gates (`PlainReboots`; so are the three
  `system.reboot` steps of `definitions.py`).  With retries it would not hold: `engine.py` takes the
  time of the dispatch once, before `_dispatch_with_retry`.  `RebootInv`: a guest is told once (`ToldOnce`); the
  engine goes through its list once, and no step ahead of it was told (`GoesThrough`); the connection
  only breaks for the reboot that the engine waits for (`LinkHolds`); past that wait the
  reboot is confirmed, and so are the recorded ones (`Waited`).
* **`SequenceRunProofs!ConnTypeCorrect`** and **`SequenceRunProofs!DispatchReaches`**, `ConnSpec => []ServedIsResolved`,
  for any number of connections that a sequence's commands go over.  `ConnInv`: as long as no handler registered over a third
  connection, a connection whose handler is between registration and its end is the registered one, or
  somebody has popped it and is closing it, or its socket is closed.
* **`ProjectSyncProofs!TypeCorrect`** and **`ProjectSyncProofs!PendingDriven`**, `Spec => []PendingIsDriven`,
  under every fault.  It is inductive beside the types: a flush of a pending tab leaves a request
  or a reason (`FlushDrives`), and every branch of an answer that leaves the mark arms a timer.
* **`ProjectSyncProofs!NothingIsLost`**, `Spec => [](NothingForgotten /\ SavedIsServed)`.  `CalmInv` is the
  invariant of a session without trouble: an open project has at most one write, which fits the
  document that it will meet (`WritesFit`), and what is not in that write is scheduled (`Flowing`); a
  project that is not loaded is untouched; after a deletion no creation is under way, and the
  document is gone or its DELETE is not served yet (`Deleting`).  The last is where "No upsert"
  of `update_project` is needed.  **`SavedReachesServer`** states the second half.
* **`DeployClientProofs!TypeCorrect`** and **`DeployStaysDriven`**, `Spec => []DeployIsDriven`, for any projects,
  operations, jobs, switches, reloads and faults, whatever the tab lost track of.  `Wired` is the invariant: a
  blocked button awaits an answer or has a socket (`Waits`); a terminal snapshot is the end of its plan
  (`SnapshotsFit`), and so is a terminal frame; once the plan of an open socket is through, a terminal frame is on
  the way, or the snapshot that the socket began with had been overwritten (`FramesFit`).
* **`DeployClientProofs!OnePlanAtATime`** and **`DoneStaysDone`**: `[]OneLivePlan`, `[]DoneNotResent`, as long as the tab
  keeps track of its plans (`~strayed`; [below](#what-does-not-hold) is what happens else), for any number of faults.
  `DeployInv` ties what the browser knows to the plans: a plan in flight is awaited by the open
  project or recorded in its own (`Tracked`), and is the latest one of its project; a document holds operations of
  its project, the job it records has no later one, and of what a concluded plan has done, while it can be read,
  it lists nothing, or only as done (`DocumentsFit`); the socket follows the recorded plan (`Follows`).
* **`InspectorProofs!TypeCorrect`**, `Spec => []TypeOK`.  It needs that the dialog of a generated script is
  only open over the panel of a disc (`Mounted`), since it asks for the card that is selected.
* **`InspectorProofs!ClonesAreAsShown`**, `Spec => []PlanMatchesPanel`.  `PlanInv` adds that what is listed is on
  the canvas, so that what is sent has a card, and that clones are in flight only while the plan is: that is
  why the lock of renaming and authoring holds long enough.
* **`InspectorProofs!DeletionIsConfirmed`**, `Spec => CascadeIsConfirmed`.  The dialog of the panel names no card, it
  deletes the selected one: `AskInv` says that these are the same and that the other dialog is closed,
  as long as no shortcut went past a dialog.
* **`InspectorProofs!AnswersOnlyAdd`**, `Spec => AnswersKeepScripts`.  `AnswerInv`: what an awaited answer will add to
  has every script that its card has, while no list changed that one was read from.
* **`InspectorProofs!UploadsAreOfCards`**, `Spec => []UploadsMatchCards`.  An upload, its replacement and the
  deletion of its card each change the card, the server and the awaited answers apart, and any deletion may fail.
  `UploadInv`: a card that has no machine that counts has its upload, and no two have the same
  (`Matched`); an upload that is kept and did not leak is of a card (`Owned`); one in flight is new, the only one of its card, and replaces what its card has or has dropped
  (`Awaited`); clones that are not done have theirs (`Supplied`).  `CloneInv`, which stands
  alone: a card has one clone, and until it is done the card is a draft, staged, deploying or failed.
  Without this last part the clone of a card that has a machine would use up an upload that nobody misses.
  The five theorems hold for every canvas to start from on which a machine has the name of its card and no
  two cards share an upload (`InspectorAssumption`): a machine is named after its card and the card is
  then locked, and an upload's id is made by the server and written to the one card it was made for.
  MCInspector's canvases satisfy it, and TLC evaluates it.

Lists are filtered by recursive functions (`Kept`), so that what a filter keeps is proved by a least counterexample
(`LeastNat`), without an induction theorem.

Model-checked only: all liveness (`PlanConcludes`, `OperationEnds`, `LeaseFollows`, `PresenceSettles`,
`SavedInCalm`), since TLAPS has no fairness reasoning here; of the
editing of the canvas `DroppedWhereItBelongs`, which speaks of cards that settled; and the properties of evidence,
whose states are folds of a plan's rows over the canvas (`Applied`), so that a proof is an induction over them.

## What does not hold

Each statement is found in a comment of the code, or is what a reader would expect.
One is a finding with a run.  Those that are named are stated at the end of their module or
are a property without its exception, and TLC refutes them with the constants given here
(the rest as in the run's cfg); those without a name were met while translating
the code, and the properties leave them out by the history variables said above.

PlanScheduler
: * `StoppedPlanDrains` on `Chain`, with an administrator's stop and no fault.  `_advance_plan` leaves its
    cascade when it sees the stop flag (tasks.py:1525), although tasks.py:1576 says
    "Stopped (not completed): drain to a terminal ErrorMsg".  If that is between two levels
    of a failure's cascade, the deeper operations stay pending; no slot
    is left that would advance, and the job never gets a terminal message.  `PlanConcludes` names this case
    `LeftBehind`.
  * `SnapshotStaysTerminal`, as in `plan_faults`: a slot that read the states earlier publishes "running"
    after another published the terminal message, and whoever connects then does not see the
    "current state immediately" of transport.py:9.
  * `PlanConcludes` without `deserted`: the message of an operation whose slot died after the claim is delivered
    again, loses the claim and returns (tasks.py:1707), and the operation is running for ever.  The same holds for
    one that was claimed `queued` and not sent yet, and for a task whose except handler raises too.

SequenceRun
: * `RedeliveryResumes`, as in `seq`: for the same reason the sequence of a plan's operation is not resumed
    when its worker dies, although engine.py:20 says that "a mid-sequence redelivery picks up where it left
    off".  Only reconcile and teardown load a cursor again.
  * `ReconnectTimeoutMeansGone` with `N = 1`, `Reboots = {1}`, the other sets empty,
    `Retries <- NoRetries`, `MaxCrashes = 1` and the other bounds 0: a redelivered
    reboot step takes a new timestamp (engine.py:163), and the connect that already
    happened is older; engine.py:22 calls the compare "immune".
  * `NotDispatchedAgain` without `expiries = 0`, or for steps with retries: the next
    attempt has another key.
  * `RebootConfirmed` with a dropped connection (a reconnect after the dispatch and before
    the reboot passes for the one after it) or after a redelivery.

AgentConnection
: * `ClearsOnlyAsLastOwner`: `disconnect_if` answers that this was the last owner, the agent
    reconnects while the answer is used, and the new lease is deleted.  The next
    refresh brings it back (`LeaseFollows`).
  * `ServedIsResolved` without `~overtaken`, with `Conns = {c1, c2, c3}`: a third connection
    registers while the second awaits the close of the first, and is overwritten in the map
    unclosed: it is served and no dispatch reaches it.

GuestLifecycle
: * With `Overlap = TRUE`, `NoSharedAddress` and the first part of `NothingStranded`: a teardown releases by
    name after a new clone of that name found the old address; two clones of one name
    both find nothing and both claim.
  * `HandsOutInRange`: an address released after the range was narrowed away from it is
    free again, and is handed out.
  * `TeardownReclaims`, as in `guest`: a clone that fails after its VM is up is marked failed and keeps its
    identity, and tasks.py:396 says that "teardown is the reclaim path either way"; a day later
    `_sweep_stale_agents_sync` takes it, as the agent was never provisioned, and the VM's agent is refused from
    then on.  `IdentityKept` excepts it (`swept`).
  * `NothingStranded` without `\ unproven`: a redelivered clone that fails before it
    reaches the pool does not know what its lost delivery claimed.

ProjectSync
: * `EventuallySaved` with a failure: an acknowledged write clears the
    pending mark of a project that changed during it; when the write of that change
    fails, and the next change leads to no flush, the retry no longer sees it
    (projectSync.ts:423, against "nothing is lost while the tab lives", projectSync.ts:15).
  * `UnsavedIsPending`, by the same clearing: the unload warning is not armed.
  * `DeletedIsGone`: a project removed while its creation is awaited leaves a document; so does
    one whose DELETE is denied or fails, which is never repeated.
  * `NothingForgotten` without `Calm`: an edit back to the last acknowledged copy,
    made while another copy is in flight, counts as no change.
  * `SavedIsServed` without `Calm`: a PUT whose answer was lost is served after
    the one that followed it.

LabDeploys
: * **`RetryCompiles`** (run `lab_retry`).  A join, a connection or a certificate fails, its node
    is marked failed and so is sent as planned; but its `createVm` is done and was dropped,
    and the retry is refused with missing-operation.  The same holds for a node whose
    operations were cancelled because another node failed.
  * `ShownIsReal`, which `CanvasIsReal` states without `strayed`, first way: an owner stops a plan between
    a clone and its provision.  The provision row goes back to staged, `nodeAwaitingRealization`
    does not count staged rows, and the agent's presence promotes a machine whose role was
    never installed, although the hook says "Presence proves the VM booted, not that its role
    landed" (useAgentPromotion.ts:37).
  * The same, second way: undoing only the join of a retarget restores the old
    membership as committed (store/topology.ts:644), while the leave stays staged or has
    been done; the canvas then shows a membership the lab has left.
  * `PrerequisitesFirst` without `unleft`: a machine is joined to a second domain while in the
    first.  It is moved out and back in, which stages a leave and, above it, a join that carries no old
    domain.  Removing the leave restores nothing, as the planned membership has the id of the realized
    one; and the next move finds a staged join to undo and stages no leave
    (`prevDcId && !existingJoinOp`, store/topology.ts:628).  TLC needs `maxEdits = 4`.
  * `RetryCompiles` with `MaxStops = 1`, `MaxErrors = 0`: an administrator's stop sets a node
    back to staged whose clone is done and dropped.

DeployClient
: * `finishDeploy` drops what is done from the list and
    leaves it in the `dependsOn` of what remains; opening the project again runs
    `sanitizeOps`, which drops operations with unknown dependencies, so a failed
    operation on top of a finished one is gone.
  * `OneActiveDeploy`, as in `deploy`, which is `OneLivePlan` without `~strayed`: the answer of the POST is
    lost after the plan was enqueued, the `.catch` of `deploy` (staging.ts:936) gives the rows back and releases
    the button, and the next click starts a second plan.  So does a reload or a switch of project while the
    answer is awaited, which also writes the answer to whichever project is active; and the fourth
    drop of a connection, since attempts are counted over the life of the
    job (`MaxFaults = 4`, `MaxLeaves = 0`), gives the operations back while the worker runs.
  * `DoneNotResent` without `Readable`: when the terminal snapshot has expired the socket is
    refused until the retries are used up, and when it was overwritten nobody tells the tab what is done; what is
    done is sent again.
  * `DeployIsDriven` without `Overwritten`: a tab that connects to a plan whose terminal message was overwritten
    reads "running" and waits; only leaving the project and the end of the snapshot free it.

CanvasEditing, each by dropping a part of `strayed`
: * **Retargets.**  A member of one domain is dragged to another, and then its join is
    undone alone or it is dragged out of every circle: the old membership comes back as
    realized while its departure stays listed, and the next deploy silently leaves the domain.  Dragged
    again after undoing only the join, it has two departures and the compiler refuses.
  * Undoing a departure after its domain controller was deleted brings back an edge to a card that is gone.
  * A failed card that is configured while its clone is still listed is listed twice, and
    refused.
  * The type of a CA is changed below its connections.  `configureNode` neither cuts nor stages: a root's
    whole publication, which needs no operation of its own, becomes that of an issuing CA, a ghost that no
    operation is listed for.  TLC needs six gestures; the proof of `ListStaysWithCanvas` led to it.
  * The shortcuts (Ctrl+Z in Workspace.tsx, Delete in Canvas.tsx) act under open dialogs: a join can be
    confirmed for a card that was deleted meanwhile, or to a controller that was undone to a draft, although
    `removeNodeCore` promises that "the Staged panel never lists a dangling op".
  * The review shows what was compiled; edits between it and the button, or a dialog it opened
    over, change what `deploy()` sends.  Removing an operation is not guarded while deploying.
  * `applyDomainChanges`, `removeNode`, `renameNode` and `setIsoAuthoring` return silently while a plan runs;
    the dialog of the domain toasts success all the same.

CanvasEditing, outside the properties
: * A controller whose circle grows by dragging takes in cards that are asked nothing: `DroppedWhereItBelongs` is
    of the cards that settled.
  * `NothingSitsUnjoined`, as in `canvas`: a card whose join was undone stays in the circle; it is
    dragged within it and the question is declined, which puts it back into a region it did not join, against
    Canvas.tsx:599.  `DroppedWhereItBelongs` is of declined cards that belonged where they were.
  * A preview is taken under the mouse, the drop after the card gave way (`nearestFreePosition`):
    `AskedAsPreviewed` is where it need not.
  * `ReadyKeepsComplete` without `RespondersAreOn`: the responder of a host is turned off under its OCSP
    connection, then the other socket is connected.  `connectionMissingRequirements` asks for the
    responder at the `ocsp` socket only (lib/topology.ts:1552), so the preview says ready, and the publication that
    is now whole makes the compiler refuse the CA.
  * `AcceptedIsGuided` without `~HalfPublished`: half a publication is no relationship for the backend, and the panel
    asks for the other half.  The converse of `AcceptedIsGuided` fails: guidance calls complete what the
    compiler refuses, and a host without publication blocks every deploy of a running PKI.

Inspector, each by dropping a history variable
: * `UploadsMatchCards` without `raced`: a plan that starts during a replacement makes
    `setIsoAuthoring` do nothing while `deleteIso(previous)` deletes the ISO the clone refers to
    (against routers/iso.py:11); a second upload after the panel was remounted orphans the first, and so
    does a card deleted meanwhile.
  * `UploadsMatchCards` without `leaked`: a DELETE that fails, of the client or of the worker, leaves its upload to
    the sweep, and so does an upload whose answer is lost after it was stored.
  * A command of the agent whose answer is lost leaves the command buttons disabled as long as the panel is
    open: `openJobSocket` reports the end of a job or a closed socket, and the server waits for
    messages without a deadline (ws.py:71).
  * `AnswersKeepScripts` without `stale`: an imported or generated script is added to the list as it was
    when the file was asked for.
  * `CascadeIsConfirmed` without `strayed`: the dialog of a deletion survives its card, and confirming it
    deletes the card that is selected by then (against Inspector.tsx:614).
  * A rename begun for one card is committed to the next, results and busy buttons are shown
    on it: the panels have no key.
  * Role scripts answered while authoring is switched off are never asked for again.
  * Draft cards are sent with half-typed configurations: the colliding name of a draft
    blocks every deploy.

LabEvidence
: * `SnapshotAgrees` without `OneHost`: the report of one web host is folded onto every edge, also over what
    another host failed, and the snapshot shows the first host's report beside the last one's services.
  * After a retry whose checks all pass, edges that an earlier plan left broken stay so.
  * A capability edge draws its probed services only: one that is broken by its operation may
    look verified.  Ghosts and publications of a root get live probes too.
  * The template draws the root's publication first, so the certificate journey
    shows the root as the issuer.
  * Deleting the web host from the Inspector in Evidence mode leaves both lenses disabled until
    the project is left.
  * A reload between the last frame and the end of a plan, its job lost, keeps a ghost without its operation:
    committing an edge is no checkpoint.
  * A refused deploy sets broken edges back to planned.

StagedPanel (read, not modelled as a module)
: * It is shared by the projects: a review asked for in one opens over the next, and confirming
    it deploys that one's list.  Its preview depends on `deploying`, `ops` and `nodes`, not on
    the edges.

## What is not modelled

`PROJECT.json` lists every component with its reason.  Beyond whole components:
time (waits expire at any moment, sequences of retries are counted), the contents
of commands, images and documents, and failures of MongoDB inside a task, after
which the code's own roll back fails as well.  On the canvas: multiple selection and layout,
a second dimension (circles are intervals), names other than in Inspector, the preview of the Staged
panel, and code no control reaches (`teardownNode`, edge removal through the flow library, the
branches of `connect` for joins).  `emptyIsoNodes`, restoring an earlier controller and
`openSharedProject` are left out of LabEvidence.

## Plan

Order: what can lose or corrupt a user's lab first.

1. `PlanScheduler`, `PlanExecution`: done, with proofs of the refinement and of every safety property.
2. `AgentConnection`: done, with proofs; the presence stream with it.
3. `GuestLifecycle`: done, with proofs.
4. `SequenceRun`: done, with proofs of every safety property.
5. `ProjectSync`: done, with proofs.
6. `DeployClient`: done, with proofs.
7. `PlanCompiler`, `CanvasRules`, `StagedOps`, `LabDeploys`, `CanvasEditing`: done, with proofs about the
   compiler, the rules, `CanvasIsReal`, `PrerequisitesFirst`, `EditsCanBeRetried`, `AcceptedIsGuided`,
   `AskedAsPreviewed`, `ReadyKeepsComplete`, `ListMatchesCanvas` and `ConfiguredCanvasCompiles`.
8. `Inspector`, with proofs, and `LabEvidence`: done.
9. `BootSettle`: the stability window over lease and connect time; the order in which
   `core/teardown.py` takes a lab down; reconcile; shares.
