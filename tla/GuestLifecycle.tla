---------------------------- MODULE GuestLifecycle ----------------------------
(***************************************************************************)
(* A guest VM from its clone to its destruction: the address pool           *)
(* (core/ippool.py), the registry entry with the minted agent identity, and *)
(* the VM in the ESXi inventory, under the worker's clone (_run_clone_op)   *)
(* and destroy (destroy_vm_task, teardown_plan_task) and the operator's     *)
(* edits of the guest range.                                               *)
(*                                                                         *)
(* A task makes its MongoDB and vSphere calls one after the other in a      *)
(* process of its own: every call is an action, so any two tasks, and the   *)
(* API process, interleave between them.                                   *)
(***************************************************************************)
EXTENDS Integers, FiniteSets

CONSTANTS
    Names,      \* VM names
    Addrs,      \* addresses, as numbers in address order
    Clones,     \* createVm operations
    Destroys,   \* teardowns
    Authored,   \* the clones with an authored or uploaded ISO: no address, no agent
    NameOf,     \* the VM name of each task
    Ranges,     \* the guest ranges the operator may configure; {} is "unset"
    Overlap,    \* may two tasks on one name run at the same time?
    MaxCrashes, MaxFaults, MaxEdits     \* bounds

Tasks == Clones \cup Destroys
Free == "free"
Out == "out"        \* no pool document for the address

ASSUME GuestAssumption ==
    /\ IsFiniteSet(Addrs) /\ Addrs \subseteq Nat \ {0}
    /\ Free \notin Names /\ Out \notin Names
    /\ Clones \cap Destroys = {}
    /\ Authored \subseteq Clones
    /\ NameOf \in [Tasks -> Names]
    /\ Ranges \subseteq SUBSET Addrs /\ Ranges # {}
    /\ Overlap \in BOOLEAN
    /\ MaxCrashes \in Nat /\ MaxFaults \in Nat /\ MaxEdits \in Nat

VARIABLES
    pc,         \* the next call of each task
    ip,         \* _run_clone_op's ip, 0 for None
    identity,   \* the identity in the ISO it builds, 0 for None
    pool,       \* ip_pool: the VM name of an allocated address, Free or Out
    registry,   \* vm_registry: status, ip and agent identity by name
    vm,         \* the ESXi inventory: what each VM booted with
    range,      \* the settings document's guest range
    edit,       \* the step of sync_pool_async under way
    mints,      \* identities minted so far
    provisioned,    \* identities whose provisionState is no longer "pending"
    swept,      \* history: identities the sweep took from Forfeited entries
    unproven,   \* history: names a lost task, a failed lookup or an early
                \* failure may have left unreclaimed
    crashes, faults, edits

locals == <<pc, ip, identity>>
counts == <<crashes, faults, edits>>
settings == <<range, edit>>
minted == <<mints, provisioned, swept>>
vars == <<locals, pool, registry, vm, settings, minted, unproven, counts>>

NoEntry == [status |-> "none", ip |-> 0, agent |-> 0]
NoVm == [on |-> FALSE, ip |-> 0, agent |-> 0]

Steps == {"new", "network", "find", "claim", "register", "mint", "persist", "clone",
          "ready", "cleanup", "release", "wipe", "mark",
          "destroy", "reclaim", "delete", "end", "lost"}

Entries == [status : {"none", "cloning", "ready", "error", "deleted"},
            ip : Addrs \cup {0}, agent : Nat]
Machines == [on : BOOLEAN, ip : Addrs \cup {0}, agent : Nat]

TypeOK ==
    /\ pc \in [Tasks -> Steps]
    /\ ip \in [Tasks -> Addrs \cup {0}]
    /\ identity \in [Tasks -> Nat]
    /\ pool \in [Addrs -> Names \cup {Free, Out}]
    /\ registry \in [Names -> Entries]
    /\ vm \in [Names -> Machines]
    /\ range \in SUBSET Addrs
    /\ edit \in {"none", "seed", "drop"}
    /\ mints \in Nat
    /\ provisioned \in SUBSET Nat /\ swept \in SUBSET Nat
    /\ unproven \in SUBSET Names
    /\ crashes \in Nat /\ faults \in Nat /\ edits \in Nat

Init ==
    /\ pc = [t \in Tasks |-> "new"]
    /\ ip = [t \in Tasks |-> 0]
    /\ identity = [t \in Tasks |-> 0]
    /\ range \in Ranges
    /\ pool = [a \in Addrs |-> IF a \in range THEN Free ELSE Out]
    /\ registry = [n \in Names |-> NoEntry]
    /\ vm = [n \in Names |-> NoVm]
    /\ edit = "none"
    /\ mints = 0
    /\ provisioned = {} /\ swept = {}
    /\ unproven = {}
    /\ crashes = 0 /\ faults = 0 /\ edits = 0

Live(t) == pc[t] \notin {"new", "end", "lost"}
LiveOn(n) == {t \in Tasks : Live(t) /\ NameOf[t] = n}
FreeAddrs == {a \in Addrs : pool[a] = Free}
AddrsOf(n) == {a \in Addrs : pool[a] = n}

Goto(t, step) == pc' = [pc EXCEPT ![t] = step]

-----------------------------------------------------------------------------
\* The clone.

\* Celery hands the operation or the teardown to a worker.
Start(t) ==
    /\ pc[t] = "new"
    /\ Overlap \/ LiveOn(NameOf[t]) = {}
    /\ Goto(t, IF t \in Destroys THEN "destroy"
               ELSE IF t \in Authored THEN "register" ELSE "network")
    /\ UNCHANGED <<ip, identity, pool, registry, vm, settings, minted, unproven, counts>>

\* load_guest_network_sync; without a range, or without the agent binary, the
\* operation fails before it looks for what an earlier delivery claimed.
FailsEarly(t) ==
    /\ Goto(t, "end")
    /\ unproven' = unproven \cup {n \in {NameOf[t]} : AddrsOf(n) # {}}

LoadNetwork(t) ==
    /\ pc[t] = "network"
    /\ \/ range # {} /\ Goto(t, "find") /\ UNCHANGED <<unproven, faults>>
       \/ range = {} /\ FailsEarly(t) /\ UNCHANGED faults
       \/ faults < MaxFaults /\ faults' = faults + 1 /\ FailsEarly(t)
    /\ UNCHANGED <<ip, identity, pool, registry, vm, settings, minted, crashes, edits>>

\* allocate_ip_sync: the addresses already allocated to the name.
Allocated(n) == AddrsOf(n)

FindExisting(t) ==
    /\ pc[t] = "find"
    /\ LET held == Allocated(NameOf[t]) IN
       \/ held = {} /\ Goto(t, "claim") /\ UNCHANGED ip
       \/ \E a \in held : ip' = [ip EXCEPT ![t] = a] /\ Goto(t, "register")
    /\ UNCHANGED <<identity, pool, registry, vm, settings, minted, unproven, counts>>

\* The sort of find_one_and_update.
IsLowest(a) == pool[a] = Free /\ \A b \in FreeAddrs : a <= b

\* find_one_and_update, atomic; nothing matches in an exhausted pool.
Claim(t) ==
    /\ pc[t] = "claim"
    /\ \/ FreeAddrs = {} /\ Goto(t, "end") /\ UNCHANGED <<pool, ip>>
       \/ \E a \in Addrs :
             /\ IsLowest(a)
             /\ pool' = [pool EXCEPT ![a] = NameOf[t]]
             /\ ip' = [ip EXCEPT ![t] = a]
             /\ Goto(t, "register")
    /\ UNCHANGED <<identity, registry, vm, settings, minted, unproven, counts>>

\* _registry_upsert_sync(status="cloning"); the agent field is left alone.
Register(t) ==
    /\ pc[t] = "register"
    /\ LET n == NameOf[t] IN
       registry' = [registry EXCEPT ![n].status = "cloning", ![n].ip = ip[t]]
    /\ Goto(t, IF t \in Authored THEN "clone" ELSE "mint")
    /\ UNCHANGED <<ip, identity, pool, vm, settings, minted, unproven, counts>>

\* Mutant: an identity is minted for a survivor too.
MintsAlways(n) == TRUE
\* Only a VM that is not in the inventory gets a new identity.
MintsFor(n) == ~vm[n].on

Mint(t) ==
    /\ pc[t] = "mint"
    /\ \/ /\ MintsFor(NameOf[t])
          /\ mints' = mints + 1
          /\ identity' = [identity EXCEPT ![t] = mints + 1]
          /\ Goto(t, "persist")
       \/ /\ ~MintsFor(NameOf[t])
          /\ Goto(t, "clone")
          /\ UNCHANGED <<mints, identity>>
    /\ UNCHANGED <<ip, pool, registry, vm, settings, provisioned, swept, unproven, counts>>

Persist(t) ==
    /\ pc[t] = "persist"
    /\ registry' = [registry EXCEPT ![NameOf[t]].agent = identity[t]]
    /\ Goto(t, "clone")
    /\ UNCHANGED <<ip, identity, pool, vm, settings, minted, unproven, counts>>

\* clone_workflow: VmExistsError keeps everything; otherwise the VM is in the
\* inventory and boots with the address and the identity of its ISO.
Clone(t) ==
    /\ pc[t] = "clone"
    /\ LET n == NameOf[t] IN
       \/ vm[n].on /\ Goto(t, "end") /\ UNCHANGED vm
       \/ /\ ~vm[n].on
          /\ vm' = [vm EXCEPT ![n] = [on |-> TRUE, ip |-> ip[t], agent |-> identity[t]]]
          /\ Goto(t, "ready")
    /\ UNCHANGED <<ip, identity, pool, registry, settings, minted, unproven, counts>>

Ready(t) ==
    /\ pc[t] = "ready"
    /\ registry' = [registry EXCEPT ![NameOf[t]].status = "ready"]
    /\ Goto(t, "end")
    /\ UNCHANGED <<ip, identity, pool, vm, settings, minted, unproven, counts>>

\* Anything from the inventory lookup to the final upsert raises, before the VM
\* exists or after it.
Fail(t) ==
    /\ pc[t] \in {"mint", "persist", "clone", "ready"}
    /\ faults < MaxFaults
    /\ faults' = faults + 1
    /\ Goto(t, "cleanup")
    /\ UNCHANGED <<ip, identity, pool, registry, vm, settings, minted, unproven, crashes, edits>>

-----------------------------------------------------------------------------
\* _cleanup_failed_clone.

\* Mutant: a failed clone is reclaimed whatever the inventory says.
ReclaimsAnyway(n) == TRUE
Absent(n) == ~vm[n].on

CleanupLookup(t) ==
    /\ pc[t] = "cleanup"
    /\ Goto(t, IF ~Absent(NameOf[t]) THEN "mark"
               ELSE IF ip[t] # 0 THEN "release" ELSE "wipe")
    /\ UNCHANGED <<ip, identity, pool, registry, vm, settings, minted, unproven, counts>>

\* The lookup raises: absence is not proven and everything is kept. MaxFaults
\* does not count it: a cleanup is only entered by a fault that it counts.
CleanupLookupFails(t) ==
    /\ pc[t] = "cleanup"
    /\ unproven' = unproven \cup {NameOf[t]}
    /\ Goto(t, "mark")
    /\ UNCHANGED <<ip, identity, pool, registry, vm, settings, minted, counts>>

\* Mutant: the release returns nothing.
ReleasesNone(n) == {}
\* release_ip_sync: update_many by name.
Released(n) == AddrsOf(n)

ReleaseAddrs(n) ==
    /\ pool' = [a \in Addrs |-> IF a \in Released(n) THEN Free ELSE pool[a]]
    /\ unproven' = unproven \ {n}

Release(t) ==
    /\ pc[t] = "release"
    /\ ReleaseAddrs(NameOf[t])
    /\ Goto(t, "wipe")
    /\ UNCHANGED <<ip, identity, registry, vm, settings, minted, counts>>

Wipe(t) ==
    /\ pc[t] = "wipe"
    /\ registry' = [registry EXCEPT ![NameOf[t]] = [status |-> "error", ip |-> 0, agent |-> 0]]
    /\ Goto(t, "end")
    /\ UNCHANGED <<ip, identity, pool, vm, settings, minted, unproven, counts>>

MarkError(t) ==
    /\ pc[t] = "mark"
    /\ registry' = [registry EXCEPT ![NameOf[t]].status = "error"]
    /\ Goto(t, "end")
    /\ UNCHANGED <<ip, identity, pool, vm, settings, minted, unproven, counts>>

-----------------------------------------------------------------------------
\* destroy_vm_task, and the vm.destroy action of teardown_plan_task.

\* destroy_workflow; a VM already absent is a success.
DestroyVm(t) ==
    /\ pc[t] = "destroy"
    /\ vm' = [vm EXCEPT ![NameOf[t]] = NoVm]
    /\ Goto(t, "reclaim")
    /\ UNCHANGED <<ip, identity, pool, registry, settings, minted, unproven, counts>>

\* Any other failure leaves the VM and its allocation in place.
DestroyFails(t) ==
    /\ pc[t] = "destroy"
    /\ faults < MaxFaults
    /\ faults' = faults + 1
    /\ FailsEarly(t)
    /\ UNCHANGED <<ip, identity, pool, registry, vm, settings, minted, crashes, edits>>

Reclaim(t) ==
    /\ pc[t] = "reclaim"
    /\ ReleaseAddrs(NameOf[t])
    /\ Goto(t, "delete")
    /\ UNCHANGED <<ip, identity, registry, vm, settings, minted, counts>>

Deleted(entry) == [entry EXCEPT !.status = "deleted", !.ip = 0, !.agent = 0]

\* update_one without upsert: a name without an entry gets none.
MarkDeleted(t) ==
    /\ pc[t] = "delete"
    /\ LET n == NameOf[t] IN
       registry' = IF registry[n].status = "none" THEN registry
                   ELSE [registry EXCEPT ![n] = Deleted(@)]
    /\ Goto(t, "end")
    /\ UNCHANGED <<ip, identity, pool, vm, settings, minted, unproven, counts>>

-----------------------------------------------------------------------------
\* What other tasks do to an entry.

\* _run_provision_op: the provision operation of a clone that is done sets the agent's
\* provisionState (what it installs is SequenceRun's).
Provision(n) ==
    /\ registry[n].status = "ready" /\ registry[n].agent # 0
    /\ registry[n].agent \notin provisioned
    /\ provisioned' = provisioned \cup {registry[n].agent}
    /\ UNCHANGED <<locals, pool, registry, vm, settings, mints, swept, unproven, counts>>

\* The entries marked failed whose agent was never provisioned.
Forfeited == {n \in Names : registry[n].status = "error" /\ registry[n].agent \notin provisioned}

\* Mutant: an agent that is not provisioned yet is stale, whatever became of its VM.
StaleAnyway(entry) == entry.status # "none"
StaleEntry(entry) == entry.status \in {"error", "deleted"}

\* _sweep_stale_agents_sync, which every plan runs before its operations: an identity that
\* was minted more than a day ago and never provisioned.  The clock is left out: a day may
\* have passed.
Sweep(n) ==
    /\ StaleEntry(registry[n])
    /\ registry[n].agent # 0 /\ registry[n].agent \notin provisioned
    /\ registry' = [registry EXCEPT ![n].agent = 0]
    /\ swept' = swept \cup {registry[m].agent : m \in {n} \cap Forfeited}
    /\ UNCHANGED <<locals, pool, vm, settings, mints, provisioned, unproven, counts>>

-----------------------------------------------------------------------------
\* The worker process dies. The message comes back (task_acks_late) and the task
\* starts over, or its plan never runs the operation again.
Crash(t) ==
    /\ Live(t)
    /\ crashes < MaxCrashes
    /\ crashes' = crashes + 1
    /\ ip' = [ip EXCEPT ![t] = 0]
    /\ identity' = [identity EXCEPT ![t] = 0]
    /\ \/ Goto(t, "new") /\ UNCHANGED unproven
       \/ Goto(t, "lost") /\ unproven' = unproven \cup {NameOf[t]}
    /\ UNCHANGED <<pool, registry, vm, settings, minted, faults, edits>>

-----------------------------------------------------------------------------
\* The API process: PUT /api/settings, then sync_pool_async.

EditRange ==
    /\ edit = "none"
    /\ edits < MaxEdits
    /\ edits' = edits + 1
    /\ range' \in Ranges \ {range}
    /\ edit' = IF range' = {} THEN "drop" ELSE "seed"
    /\ UNCHANGED <<locals, pool, registry, vm, minted, unproven, crashes, faults>>

\* $setOnInsert: only an address without a document is seeded.
Seeds(a) == a \in range /\ pool[a] = Out

Seed ==
    /\ edit = "seed"
    /\ pool' = [a \in Addrs |-> IF Seeds(a) THEN Free ELSE pool[a]]
    /\ edit' = "drop"
    /\ UNCHANGED <<locals, registry, vm, range, minted, unproven, counts>>

\* delete_many: free addresses outside the range; allocated ones stay.
DropFree ==
    /\ edit = "drop"
    /\ pool' = [a \in Addrs |-> IF a \notin range /\ pool[a] = Free THEN Out ELSE pool[a]]
    /\ edit' = "none"
    /\ UNCHANGED <<locals, registry, vm, range, minted, unproven, counts>>

-----------------------------------------------------------------------------
CloneStep(t) ==
    \/ LoadNetwork(t) \/ FindExisting(t) \/ Claim(t) \/ Register(t) \/ Mint(t) \/ Persist(t)
    \/ Clone(t) \/ Ready(t) \/ Fail(t)
    \/ CleanupLookup(t) \/ CleanupLookupFails(t) \/ Release(t) \/ Wipe(t) \/ MarkError(t)

DestroyStep(t) == DestroyVm(t) \/ DestroyFails(t) \/ Reclaim(t) \/ MarkDeleted(t)

Next ==
    \/ \E t \in Tasks : Start(t) \/ CloneStep(t) \/ DestroyStep(t) \/ Crash(t)
    \/ \E n \in Names : Provision(n) \/ Sweep(n)
    \/ EditRange \/ Seed \/ DropFree

Spec == Init /\ [][Next]_vars

-----------------------------------------------------------------------------
\* A VM in the inventory holds the address it booted with: no failure, crash,
\* redelivery or range edit frees it while the VM is up (_cleanup_failed_clone:
\* "let a later clone claim an address still in use").
VmAddressHeld == \A n \in Names : vm[n].on /\ vm[n].ip # 0 => pool[vm[n].ip] = n

\* No two VMs in the inventory booted with one address.
NoSharedAddress ==
    \A m, n \in Names :
        vm[m].on /\ vm[n].on /\ vm[m].ip # 0 /\ vm[m].ip = vm[n].ip => m = n

\* The registry still knows the identity baked into a VM that is up, so its agent can
\* authenticate (_cleanup_failed_clone: "strand the agent (403 forever, the hash is
\* gone)"), unless the agent was never provisioned and the sweep of stale agents found its
\* entry marked failed: a clone that failed after its VM was up loses its identity there.
IdentityKept ==
    \A n \in Names : vm[n].on /\ vm[n].agent # 0 =>
        registry[n].agent = vm[n].agent \/ vm[n].agent \in swept

\* A name never holds a second address, however often its clone is redelivered
\* (allocate_ip_sync: "Idempotent per VM name").  Once its tasks are through, a name
\* without a VM holds no address and, if it was torn down, no identity, unless a task was
\* lost, absence could not be proven, or a redelivered task failed before it reached the
\* address that its lost delivery left (_run_clone_op: "a failed op never strands an
\* address").
NothingStranded ==
    /\ \A n \in Names : Cardinality(AddrsOf(n)) <= 1
    /\ \A n \in Names \ unproven :
        {t \in Tasks : NameOf[t] = n /\ pc[t] \notin {"end", "lost"}} = {} /\ ~vm[n].on
            => AddrsOf(n) = {} /\ (registry[n].status = "deleted" => registry[n].agent = 0)

-----------------------------------------------------------------------------
\* Statements of the repository that the code does not keep: TLC refutes them (README.md).

\* While its VM is up, nothing but a teardown takes an identity that the VM booted with
\* (_cleanup_failed_clone: "everything is kept; teardown is the reclaim path either way").
TeardownReclaims ==
    [][\A n \in Names :
          vm[n].on /\ vm[n].agent # 0 /\ registry[n].agent = vm[n].agent /\ vm'[n].on
              => registry'[n].agent = vm[n].agent]_vars

\* While no edit of the range is under way, an address that is handed out lies in
\* the configured range (sync_pool_async: "drop free addresses that fell out").
HandsOutInRange ==
    [][edit = "none" => \A a \in Addrs : pool[a] = Free /\ pool'[a] \in Names => a \in range]_vars
=============================================================================
