------------------------- MODULE GuestLifecycleProofs -------------------------
(***************************************************************************)
(* A VM that is up keeps its address and its identity, and a name without a *)
(* VM keeps nothing, for any set of names, addresses, tasks and ranges, any *)
(* number of crashes, failing calls and range edits, as long as the tasks   *)
(* on one name do not overlap.                                             *)
(*                                                                         *)
(* None of the properties is inductive.  The invariant GuestInv adds what   *)
(* the task working on a name knows: which steps it reaches only with the   *)
(* VM absent, which only with the address allocated, and when its identity  *)
(* is recorded.  ReclaimInv says which task gives an address back.          *)
(***************************************************************************)
EXTENDS GuestLifecycle, FiniteSetTheorems, TLAPS

\* One live task per name.
OneTask == \A t, u \in Tasks : Live(t) /\ Live(u) /\ NameOf[t] = NameOf[u] => t = u

\* An authored clone asks for no address and mints no identity.
AuthoredBare ==
    \A t \in Authored :
        /\ ip[t] = 0 /\ identity[t] = 0
        /\ pc[t] \notin {"network", "find", "claim", "mint", "persist"}

\* The steps of a clone during which the address it holds is allocated to its name.
Holding == {"register", "mint", "persist", "clone", "ready"}

HoldsAddress ==
    \A t \in Tasks : pc[t] \in Holding /\ ip[t] # 0 => pool[ip[t]] = NameOf[t]

\* The steps a task reaches only while its VM is not in the inventory.
VmAbsentAt ==
    \A t \in Tasks :
        \/ pc[t] \in {"persist", "release", "wipe", "reclaim", "delete"}
        \/ pc[t] = "clone" /\ identity[t] # 0
        => ~vm[NameOf[t]].on

\* From the clone step on, the identity in the ISO is the recorded one.
Recorded ==
    \A t \in Tasks :
        pc[t] = "clone" /\ identity[t] # 0 => registry[NameOf[t]].agent = identity[t]

\* Before the mint a task has no identity.
Unminted ==
    \A t \in Tasks :
        pc[t] \in {"new", "network", "find", "claim", "register", "mint",
                   "destroy", "reclaim", "delete"} => identity[t] = 0

Known == OneTask /\ AuthoredBare /\ HoldsAddress /\ VmAbsentAt /\ Recorded /\ Unminted

GuestInv == TypeOK /\ Known /\ VmAddressHeld /\ IdentityKept

\* A guided clone has its address from the registry entry on to the cleanup.
Bound == \A t \in Tasks \ Authored : pc[t] \in Holding \cup {"cleanup"} => ip[t] # 0

\* A task claims only after it found nothing allocated to the name.
ClaimsFirst == \A t \in Tasks : pc[t] = "claim" => AddrsOf(NameOf[t]) = {}

OneAddress == \A a, b \in Addrs : pool[a] = pool[b] /\ pool[a] \in Names => a = b

\* The final upsert comes after the VM.
Up == \A t \in Tasks : pc[t] = "ready" => vm[NameOf[t]].on

Teardowns == \A t \in Tasks : pc[t] = "destroy" => t \in Destroys

\* A task that uses the address of its name, or gives it back, before it ends.
Reclaims(t) == t \notin Authored /\ pc[t] \notin {"wipe", "mark", "delete", "end", "lost"}

Reclaimed ==
    \A n \in Names \ unproven :
        ~vm[n].on /\ AddrsOf(n) # {} => \E t \in Tasks : NameOf[t] = n /\ Reclaims(t)

\* A torn down entry has no identity: one is only written into an entry being cloned,
\* which no sweep touches until the VM is up.
Forgotten == \A n \in Names : registry[n].status = "deleted" => registry[n].agent = 0
Cloning ==
    \A t \in Tasks : pc[t] \in {"mint", "persist", "clone"} => registry[NameOf[t]].status = "cloning"

ReclaimInv == Bound /\ Up /\ Teardowns /\ ClaimsFirst /\ OneAddress /\ Reclaimed /\ Forgotten /\ Cloning

-----------------------------------------------------------------------------
\* The writes of the registry keep its entries' type.
LEMMA EntryWrites ==
    ASSUME NEW e \in Entries, NEW a \in Addrs \cup {0}, NEW k \in Nat
    PROVE  /\ [e EXCEPT !.status = "cloning", !.ip = a] \in Entries
           /\ [e EXCEPT !.agent = k] \in Entries
           /\ Deleted(e) \in Entries
BY DEF Entries, Deleted

\* Type correctness of GuestLifecycle: every call of a task, every crash and
\* every edit of the range keeps the types.
THEOREM TypeCorrect == Spec => []TypeOK
<1>1. Init => TypeOK
  BY GuestAssumption DEF GuestAssumption, Init, TypeOK, Steps, Entries, Machines, NoEntry, NoVm, Tasks
<1>2. TypeOK /\ [Next]_vars => TypeOK'
  <2>. SUFFICES ASSUME TypeOK, [Next]_vars PROVE TypeOK'
    OBVIOUS
  <2>. /\ NameOf \in [Tasks -> Names] /\ Authored \subseteq Clones /\ Clones \cap Destroys = {}
       /\ Free \notin Names /\ Out \notin Names /\ Ranges \subseteq SUBSET Addrs
       /\ Addrs \subseteq Nat \ {0}
    BY GuestAssumption DEF GuestAssumption
  <2>. USE DEF TypeOK, Steps, Tasks, vars, locals, counts, settings, minted, Goto
  <2>1. ASSUME NEW t \in Tasks, Start(t) PROVE TypeOK'
    BY <2>1 DEF Start, LiveOn
  <2>2. ASSUME NEW t \in Tasks, LoadNetwork(t) PROVE TypeOK'
    BY <2>2 DEF LoadNetwork, FailsEarly
  <2>3. ASSUME NEW t \in Tasks, FindExisting(t) PROVE TypeOK'
    <3>1. NameOf[t] \in Names
      OBVIOUS
    <3>2. ip' \in [Tasks -> Addrs \cup {0}]
      BY <3>1, <2>3 DEF FindExisting, Allocated, AddrsOf
    <3>. QED
      BY <3>1, <3>2, <2>3 DEF FindExisting
  <2>4. ASSUME NEW t \in Tasks, Claim(t) PROVE TypeOK'
    <3>1. NameOf[t] \in Names
      OBVIOUS
    <3>2. pool' \in [Addrs -> Names \cup {Free, Out}]
      BY <3>1, <2>4 DEF Claim, IsLowest, FreeAddrs
    <3>3. ip' \in [Tasks -> Addrs \cup {0}]
      BY <3>1, <3>2, <2>4 DEF Claim, IsLowest, FreeAddrs
    <3>. QED
      BY <3>1, <3>2, <3>3, <2>4 DEF Claim
  <2>5. ASSUME NEW t \in Tasks, Register(t) PROVE TypeOK'
    <3>1. NameOf[t] \in Names
      OBVIOUS
    <3>2. [registry[NameOf[t]] EXCEPT !.status = "cloning", !.ip = ip[t]] \in Entries
      BY <3>1, EntryWrites
    <3>3. registry' \in [Names -> Entries]
      BY <3>1, <3>2, <2>5 DEF Register
    <3>. QED
      BY <3>1, <3>2, <3>3, <2>5 DEF Register
  <2>6. ASSUME NEW t \in Tasks, Mint(t) PROVE TypeOK'
    <3>1. NameOf[t] \in Names
      OBVIOUS
    <3>2. mints' \in Nat /\ identity' \in [Tasks -> Nat]
      BY <3>1, <2>6 DEF Mint, MintsFor
    <3>. QED
      BY <3>1, <3>2, <2>6 DEF Mint
  <2>7. ASSUME NEW t \in Tasks, Persist(t) PROVE TypeOK'
    <3>1. NameOf[t] \in Names
      OBVIOUS
    <3>2. [registry[NameOf[t]] EXCEPT !.agent = identity[t]] \in Entries
      BY <3>1, EntryWrites
    <3>3. registry' \in [Names -> Entries]
      BY <3>1, <3>2, <2>7 DEF Persist
    <3>. QED
      BY <3>1, <3>2, <3>3, <2>7 DEF Persist
  <2>8. ASSUME NEW t \in Tasks, Clone(t) PROVE TypeOK'
    <3>1. NameOf[t] \in Names
      OBVIOUS
    <3>2. [on |-> TRUE, ip |-> ip[t], agent |-> identity[t]] \in Machines
      BY <3>1 DEF Entries, Machines
    <3>3. vm' \in [Names -> Machines]
      BY <3>1, <3>2, <2>8 DEF Clone
    <3>. QED
      BY <3>1, <3>2, <3>3, <2>8 DEF Clone
  <2>9. ASSUME NEW t \in Tasks, Ready(t) PROVE TypeOK'
    <3>1. NameOf[t] \in Names
      OBVIOUS
    <3>2. [registry[NameOf[t]] EXCEPT !.status = "ready"] \in Entries
      BY <3>1 DEF Entries, Machines
    <3>3. registry' \in [Names -> Entries]
      BY <3>1, <3>2, <2>9 DEF Ready
    <3>. QED
      BY <3>1, <3>2, <3>3, <2>9 DEF Ready
  <2>10. ASSUME NEW t \in Tasks, Fail(t) PROVE TypeOK'
    BY <2>10 DEF Fail
  <2>11. ASSUME NEW t \in Tasks, CleanupLookup(t) PROVE TypeOK'
    BY <2>11 DEF CleanupLookup, Absent
  <2>12. ASSUME NEW t \in Tasks, CleanupLookupFails(t) PROVE TypeOK'
    BY <2>12 DEF CleanupLookupFails
  <2>13. ASSUME NEW t \in Tasks, Release(t) PROVE TypeOK'
    BY <2>13 DEF Release, ReleaseAddrs, Released, AddrsOf
  <2>14. ASSUME NEW t \in Tasks, Wipe(t) PROVE TypeOK'
    <3>1. NameOf[t] \in Names
      OBVIOUS
    <3>2. [status |-> "error", ip |-> 0, agent |-> 0] \in Entries
      BY <3>1 DEF Entries, Machines
    <3>3. registry' \in [Names -> Entries]
      BY <3>1, <3>2, <2>14 DEF Wipe
    <3>. QED
      BY <3>1, <3>2, <3>3, <2>14 DEF Wipe
  <2>15. ASSUME NEW t \in Tasks, MarkError(t) PROVE TypeOK'
    <3>1. NameOf[t] \in Names
      OBVIOUS
    <3>2. [registry[NameOf[t]] EXCEPT !.status = "error"] \in Entries
      BY <3>1 DEF Entries, Machines
    <3>3. registry' \in [Names -> Entries]
      BY <3>1, <3>2, <2>15 DEF MarkError
    <3>. QED
      BY <3>1, <3>2, <3>3, <2>15 DEF MarkError
  <2>16. ASSUME NEW t \in Tasks, DestroyVm(t) PROVE TypeOK'
    <3>1. NameOf[t] \in Names
      OBVIOUS
    <3>2. NoVm \in Machines
      BY <3>1 DEF Entries, Machines, NoVm
    <3>3. vm' \in [Names -> Machines]
      BY <3>1, <3>2, <2>16 DEF DestroyVm, NoVm
    <3>. QED
      BY <3>1, <3>2, <3>3, <2>16 DEF DestroyVm
  <2>17. ASSUME NEW t \in Tasks, DestroyFails(t) PROVE TypeOK'
    BY <2>17 DEF DestroyFails, FailsEarly
  <2>18. ASSUME NEW t \in Tasks, Reclaim(t) PROVE TypeOK'
    BY <2>18 DEF Reclaim, ReleaseAddrs, Released, AddrsOf
  <2>19. ASSUME NEW t \in Tasks, MarkDeleted(t) PROVE TypeOK'
    <3>1. NameOf[t] \in Names
      OBVIOUS
    <3>2. Deleted(registry[NameOf[t]]) \in Entries
      BY <3>1, EntryWrites
    <3>3. registry' \in [Names -> Entries]
      BY <3>1, <3>2, <2>19 DEF MarkDeleted, Deleted
    <3>. QED
      BY <3>1, <3>2, <3>3, <2>19 DEF MarkDeleted
  <2>20. ASSUME NEW t \in Tasks, Crash(t) PROVE TypeOK'
    BY <2>20 DEF Crash
  <2>21. CASE EditRange
    BY <2>21 DEF EditRange
  <2>22. CASE Seed
    BY <2>22 DEF Seed, Seeds
  <2>23. CASE DropFree
    BY <2>23 DEF DropFree
  <2>24. CASE UNCHANGED vars
    BY <2>24
  <2>25. ASSUME NEW n \in Names, Provision(n) PROVE TypeOK'
    <3>1. registry[n].agent \in Nat
      BY DEF Entries
    <3>. QED
      BY <2>25, <3>1 DEF Provision
  <2>26. ASSUME NEW n \in Names, Sweep(n) PROVE TypeOK'
    <3>1. [registry[n] EXCEPT !.agent = 0] \in Entries
      BY EntryWrites
    <3>2. registry' \in [Names -> Entries]
      BY <3>1, <2>26 DEF Sweep
    <3>3. swept' \in SUBSET Nat
      <4>1. \A m \in Names : registry[m].agent \in Nat
        BY DEF Entries
      <4>. QED
        BY <2>26, <4>1 DEF Sweep, Forfeited
    <3>. QED
      BY <3>2, <3>3, <2>26 DEF Sweep
  <2>. QED
    BY <2>1, <2>2, <2>3, <2>4, <2>5, <2>6, <2>7, <2>8, <2>9, <2>10, <2>11, <2>12, <2>13,
       <2>14, <2>15, <2>16, <2>17, <2>18, <2>19, <2>20, <2>21, <2>22, <2>23, <2>24, <2>25, <2>26
    DEF Next, CloneStep, DestroyStep
<1>. QED
  BY <1>1, <1>2, PTL DEF Spec

-----------------------------------------------------------------------------
\* Every step keeps what the tasks know and what the VMs hold.
LEMMA GuestStep ==
    ASSUME ~Overlap, GuestInv, Forgotten, Cloning, TypeOK', [Next]_vars
    PROVE  GuestInv'
<1>. /\ NameOf \in [Tasks -> Names] /\ Authored \subseteq Clones /\ Clones \cap Destroys = {}
     /\ Free \notin Names /\ Out \notin Names /\ Ranges \subseteq SUBSET Addrs
     /\ Addrs \subseteq Nat \ {0}
  BY GuestAssumption DEF GuestAssumption
<1>. USE DEF GuestInv, Known, OneTask, AuthoredBare, HoldsAddress, VmAbsentAt, Recorded, Unminted,
             Holding, VmAddressHeld, IdentityKept, Live, Goto, TypeOK, Machines, Tasks,
             vars, locals, counts, settings, minted
<1>1. ASSUME NEW t \in Tasks, Start(t) PROVE Known' /\ VmAddressHeld' /\ IdentityKept'
  BY <1>1 DEF Start, LiveOn
<1>2. ASSUME NEW t \in Tasks, LoadNetwork(t) PROVE Known' /\ VmAddressHeld' /\ IdentityKept'
  BY <1>2 DEF LoadNetwork, FailsEarly
<1>3. ASSUME NEW t \in Tasks, FindExisting(t) PROVE Known' /\ VmAddressHeld' /\ IdentityKept'
  BY <1>3, SMTT(30) DEF FindExisting, Allocated, AddrsOf
<1>4. ASSUME NEW t \in Tasks, Claim(t) PROVE Known' /\ VmAddressHeld' /\ IdentityKept'
  <2>1. OneTask'
    BY <1>4 DEF Claim, IsLowest, FreeAddrs
  <2>2. AuthoredBare'
    BY <1>4 DEF Claim, IsLowest, FreeAddrs
  <2>3. HoldsAddress'
    <3>1. CASE UNCHANGED <<pool, ip>> /\ Goto(t, "end")
      BY <1>4, <3>1 DEF Claim, IsLowest, FreeAddrs
    <3>2. CASE \E a \in Addrs : /\ pool[a] = Free /\ pool' = [pool EXCEPT ![a] = NameOf[t]]
                                /\ ip' = [ip EXCEPT ![t] = a] /\ Goto(t, "register")
      <4>1. PICK a \in Addrs : /\ pool[a] = Free /\ pool' = [pool EXCEPT ![a] = NameOf[t]]
                               /\ ip' = [ip EXCEPT ![t] = a] /\ Goto(t, "register")
        BY <3>2
      <4>2. \A b \in Addrs : pool[b] # Free => pool'[b] = pool[b]
        BY <4>1
      <4>3. pool'[a] = NameOf[t] /\ vm' = vm
        BY <1>4, <4>1 DEF Claim
      <4>. QED
        BY <4>1, <4>2, <4>3
    <3>. QED
      BY <1>4, <3>1, <3>2 DEF Claim, IsLowest
  <2>4. VmAbsentAt'
    BY <1>4 DEF Claim, IsLowest, FreeAddrs
  <2>5. Recorded'
    BY <1>4 DEF Claim, IsLowest, FreeAddrs
  <2>6. Unminted'
    BY <1>4 DEF Claim, IsLowest, FreeAddrs
  <2>7. VmAddressHeld'
    <3>1. CASE UNCHANGED <<pool, ip>> /\ Goto(t, "end")
      BY <1>4, <3>1 DEF Claim, IsLowest, FreeAddrs
    <3>2. CASE \E a \in Addrs : /\ pool[a] = Free /\ pool' = [pool EXCEPT ![a] = NameOf[t]]
                                /\ ip' = [ip EXCEPT ![t] = a] /\ Goto(t, "register")
      <4>1. PICK a \in Addrs : /\ pool[a] = Free /\ pool' = [pool EXCEPT ![a] = NameOf[t]]
                               /\ ip' = [ip EXCEPT ![t] = a] /\ Goto(t, "register")
        BY <3>2
      <4>2. \A b \in Addrs : pool[b] # Free => pool'[b] = pool[b]
        BY <4>1
      <4>3. pool'[a] = NameOf[t] /\ vm' = vm
        BY <1>4, <4>1 DEF Claim
      <4>. QED
        BY <4>1, <4>2, <4>3
    <3>. QED
      BY <1>4, <3>1, <3>2 DEF Claim, IsLowest
  <2>8. IdentityKept'
    BY <1>4 DEF Claim, IsLowest, FreeAddrs
  <2>. QED
    BY <2>1, <2>2, <2>3, <2>4, <2>5, <2>6, <2>7, <2>8
<1>5. ASSUME NEW t \in Tasks, Register(t) PROVE Known' /\ VmAddressHeld' /\ IdentityKept'
  BY <1>5 DEF Register
<1>6. ASSUME NEW t \in Tasks, Mint(t) PROVE Known' /\ VmAddressHeld' /\ IdentityKept'
  BY <1>6, SMTT(30) DEF Mint, MintsFor
<1>7. ASSUME NEW t \in Tasks, Persist(t) PROVE Known' /\ VmAddressHeld' /\ IdentityKept'
  <2>1. OneTask'
    BY <1>7 DEF Persist
  <2>2. AuthoredBare'
    BY <1>7 DEF Persist
  <2>3. HoldsAddress'
    BY <1>7 DEF Persist
  <2>4. VmAbsentAt'
    BY <1>7 DEF Persist
  <2>5. Recorded'
    BY <1>7 DEF Persist
  <2>6. Unminted'
    BY <1>7 DEF Persist
  <2>7. VmAddressHeld'
    BY <1>7 DEF Persist
  <2>8. IdentityKept'
    BY <1>7 DEF Persist
  <2>. QED
    BY <2>1, <2>2, <2>3, <2>4, <2>5, <2>6, <2>7, <2>8
<1>8. ASSUME NEW t \in Tasks, Clone(t) PROVE Known' /\ VmAddressHeld' /\ IdentityKept'
  <2>1. OneTask'
    BY <1>8 DEF Clone
  <2>2. AuthoredBare'
    BY <1>8 DEF Clone
  <2>3. HoldsAddress'
    BY <1>8 DEF Clone
  <2>4. VmAbsentAt'
    BY <1>8, SMTT(30) DEF Clone
  <2>5. Recorded'
    BY <1>8 DEF Clone
  <2>6. Unminted'
    BY <1>8 DEF Clone
  <2>7. VmAddressHeld'
    BY <1>8 DEF Clone
  <2>8. IdentityKept'
    BY <1>8 DEF Clone
  <2>. QED
    BY <2>1, <2>2, <2>3, <2>4, <2>5, <2>6, <2>7, <2>8
<1>9. ASSUME NEW t \in Tasks, Ready(t) PROVE Known' /\ VmAddressHeld' /\ IdentityKept'
  BY <1>9 DEF Ready
<1>10. ASSUME NEW t \in Tasks, Fail(t) PROVE Known' /\ VmAddressHeld' /\ IdentityKept'
  BY <1>10 DEF Fail
<1>11. ASSUME NEW t \in Tasks, CleanupLookup(t) PROVE Known' /\ VmAddressHeld' /\ IdentityKept'
  BY <1>11 DEF CleanupLookup, Absent
<1>12. ASSUME NEW t \in Tasks, CleanupLookupFails(t) PROVE Known' /\ VmAddressHeld' /\ IdentityKept'
  BY <1>12 DEF CleanupLookupFails
<1>13. ASSUME NEW t \in Tasks, Release(t) PROVE Known' /\ VmAddressHeld' /\ IdentityKept'
  BY <1>13 DEF Release, ReleaseAddrs, Released, AddrsOf
<1>14. ASSUME NEW t \in Tasks, Wipe(t) PROVE Known' /\ VmAddressHeld' /\ IdentityKept'
  <2>1. OneTask'
    BY <1>14 DEF Wipe
  <2>2. AuthoredBare'
    BY <1>14 DEF Wipe
  <2>3. HoldsAddress'
    BY <1>14 DEF Wipe
  <2>4. VmAbsentAt'
    BY <1>14 DEF Wipe
  <2>5. Recorded'
    BY <1>14, SMTT(30) DEF Wipe
  <2>6. Unminted'
    BY <1>14 DEF Wipe
  <2>7. VmAddressHeld'
    BY <1>14 DEF Wipe
  <2>8. IdentityKept'
    BY <1>14 DEF Wipe
  <2>. QED
    BY <2>1, <2>2, <2>3, <2>4, <2>5, <2>6, <2>7, <2>8
<1>15. ASSUME NEW t \in Tasks, MarkError(t) PROVE Known' /\ VmAddressHeld' /\ IdentityKept'
  BY <1>15 DEF MarkError
<1>16. ASSUME NEW t \in Tasks, DestroyVm(t) PROVE Known' /\ VmAddressHeld' /\ IdentityKept'
  BY <1>16 DEF DestroyVm, NoVm
<1>17. ASSUME NEW t \in Tasks, DestroyFails(t) PROVE Known' /\ VmAddressHeld' /\ IdentityKept'
  BY <1>17 DEF DestroyFails, FailsEarly
<1>18. ASSUME NEW t \in Tasks, Reclaim(t) PROVE Known' /\ VmAddressHeld' /\ IdentityKept'
  <2>1. OneTask'
    BY <1>18 DEF Reclaim, ReleaseAddrs, Released, AddrsOf
  <2>2. AuthoredBare'
    BY <1>18 DEF Reclaim, ReleaseAddrs, Released, AddrsOf
  <2>3. HoldsAddress'
    BY <1>18, SMTT(30) DEF Reclaim, ReleaseAddrs, Released, AddrsOf
  <2>4. VmAbsentAt'
    BY <1>18 DEF Reclaim, ReleaseAddrs, Released, AddrsOf
  <2>5. Recorded'
    BY <1>18 DEF Reclaim, ReleaseAddrs, Released, AddrsOf
  <2>6. Unminted'
    BY <1>18 DEF Reclaim, ReleaseAddrs, Released, AddrsOf
  <2>7. VmAddressHeld'
    BY <1>18 DEF Reclaim, ReleaseAddrs, Released, AddrsOf
  <2>8. IdentityKept'
    BY <1>18 DEF Reclaim, ReleaseAddrs, Released, AddrsOf
  <2>. QED
    BY <2>1, <2>2, <2>3, <2>4, <2>5, <2>6, <2>7, <2>8
<1>19. ASSUME NEW t \in Tasks, MarkDeleted(t) PROVE Known' /\ VmAddressHeld' /\ IdentityKept'
  BY <1>19 DEF MarkDeleted, Deleted
<1>20. ASSUME NEW t \in Tasks, Crash(t) PROVE Known' /\ VmAddressHeld' /\ IdentityKept'
  BY <1>20 DEF Crash
<1>21. ASSUME EditRange PROVE Known' /\ VmAddressHeld' /\ IdentityKept'
  BY <1>21 DEF EditRange
<1>22. ASSUME Seed PROVE Known' /\ VmAddressHeld' /\ IdentityKept'
  BY <1>22 DEF Seed, Seeds
<1>23. ASSUME DropFree PROVE Known' /\ VmAddressHeld' /\ IdentityKept'
  BY <1>23 DEF DropFree
<1>24. ASSUME UNCHANGED vars PROVE Known' /\ VmAddressHeld' /\ IdentityKept'
  BY <1>24
<1>25. ASSUME NEW n \in Names, Provision(n) PROVE Known' /\ VmAddressHeld' /\ IdentityKept'
  BY <1>25 DEF Provision
<1>26. ASSUME NEW n \in Names, Sweep(n) PROVE Known' /\ VmAddressHeld' /\ IdentityKept'
  <2>1. /\ UNCHANGED <<pc, ip, identity, pool, vm, provisioned>> /\ swept \subseteq swept'
        /\ registry' = [registry EXCEPT ![n].agent = 0]
    BY <1>26 DEF Sweep
  <2>2. registry[n].status = "error" /\ registry[n].agent \in swept'
    BY <1>26 DEF Sweep, StaleEntry, Forgotten, Forfeited
  <2>3. Recorded'
    BY <2>1, <2>2 DEF Cloning
  <2>4. IdentityKept'
    BY <2>1, <2>2
  <2>. QED
    BY <2>1, <2>3, <2>4
<1>. HIDE DEF Known, OneTask, AuthoredBare, HoldsAddress, VmAbsentAt, Recorded, Unminted,
             Holding, VmAddressHeld, IdentityKept, Live, Goto, TypeOK, Machines, vars, locals,
             counts, settings, minted
<1>. QED
  BY <1>1, <1>2, <1>3, <1>4, <1>5, <1>6, <1>7, <1>8, <1>9, <1>10, <1>11, <1>12, <1>13,
     <1>14, <1>15, <1>16, <1>17, <1>18, <1>19, <1>20, <1>21, <1>22, <1>23, <1>24, <1>25, <1>26
  DEF Next, CloneStep, DestroyStep

-----------------------------------------------------------------------------
\* Two addresses of one name would make Cardinality exceed one.
LEMMA AtMostOne ==
    ASSUME OneAddress, NEW n \in Names
    PROVE  Cardinality(AddrsOf(n)) <= 1
<1>1. CASE AddrsOf(n) = {}
  BY <1>1, FS_EmptySet
<1>2. CASE AddrsOf(n) # {}
  <2>1. PICK a \in Addrs : AddrsOf(n) = {a}
    BY <1>2 DEF AddrsOf, OneAddress
  <2>2. Cardinality({a}) = 1
    BY FS_Singleton
  <2>. QED
    BY <2>1, <2>2
<1>. QED
  BY <1>1, <1>2

\* A release takes the name's addresses and nobody else's.
LEMMA ReleaseFrees ==
    ASSUME NEW n \in Names, ReleaseAddrs(n), pool \in [Addrs -> Names \cup {Free, Out}],
           Free \notin Names, unproven \in SUBSET Names
    PROVE  /\ AddrsOf(n)' = {}
           /\ \A m \in Names \ {n} : AddrsOf(m)' = AddrsOf(m)
           /\ \A a, b \in Addrs : pool'[a] = pool'[b] /\ pool'[a] \in Names => pool[a] = pool[b] /\ pool[a] \in Names
           /\ unproven' \subseteq unproven
           /\ \A m \in Names \ {n} : m \in unproven <=> m \in unproven'
BY DEF ReleaseAddrs, Released, AddrsOf

\* A call that leaves the pool, the inventory and the other tasks alone keeps the
\* promise to reclaim, if its own task keeps it or has no name to keep it for.
LEMMA StillReclaimed ==
    ASSUME TypeOK, Reclaimed, NEW t \in Tasks, NEW step \in Steps, Goto(t, step),
           UNCHANGED <<pool, vm>>, unproven \subseteq unproven',
           \/ step \notin {"wipe", "mark", "delete", "end", "lost"}
           \/ ~Reclaims(t)
           \/ vm[NameOf[t]].on
           \/ AddrsOf(NameOf[t]) = {}
           \/ NameOf[t] \in unproven'
    PROVE  Reclaimed'
<1>. USE DEF Reclaims, AddrsOf, Goto, TypeOK
<1>. SUFFICES ASSUME NEW n \in Names, n \notin unproven', ~vm[n].on, AddrsOf(n) # {}
              PROVE  \E u \in Tasks : NameOf[u] = n /\ Reclaims(u)'
  BY DEF Reclaimed
<1>1. PICK u \in Tasks : NameOf[u] = n /\ Reclaims(u)
  BY DEF Reclaimed
<1>2. CASE u # t
  BY <1>1, <1>2
<1>3. CASE u = t
  BY <1>1, <1>3
<1>. QED
  BY <1>2, <1>3

\* Every step keeps the promise that somebody reclaims.
LEMMA ReclaimStep ==
    ASSUME ~Overlap, GuestInv, ReclaimInv, [Next]_vars
    PROVE  ReclaimInv'
<1>. /\ NameOf \in [Tasks -> Names] /\ Authored \subseteq Clones /\ Clones \cap Destroys = {}
     /\ Free \notin Names /\ Out \notin Names /\ Ranges \subseteq SUBSET Addrs
     /\ Addrs \subseteq Nat \ {0}
  BY GuestAssumption DEF GuestAssumption
<1>. TypeOK /\ Known /\ Bound /\ Up /\ Teardowns /\ ClaimsFirst /\ OneAddress /\ Reclaimed /\ Forgotten /\ Cloning
  BY DEF GuestInv, ReclaimInv
<1>. USE DEF TypeOK, Goto
<1>1. ASSUME NEW t \in Tasks, Start(t) PROVE ReclaimInv'
  <2>1. UNCHANGED <<pool, vm, registry>> /\ unproven \subseteq unproven'
    BY <1>1 DEF Start, Tasks
  <2>2. Bound' /\ Up' /\ Teardowns'
    BY <1>1, <2>1 DEF Start, Tasks, Bound, Up, Teardowns, Holding
  <2>3. ClaimsFirst'
    BY <1>1, <2>1 DEF Start, Tasks, ClaimsFirst, AddrsOf
  <2>4. Reclaimed'
    BY <1>1, <2>1, StillReclaimed DEF Start, Tasks, Steps, Reclaims
  <2>5. OneAddress' /\ Forgotten'
    BY <2>1 DEF OneAddress, Forgotten
  <2>6. Cloning'
    BY <1>1, <2>1 DEF Start, Tasks, Cloning
  <2>. QED
    BY <2>2, <2>3, <2>4, <2>5, <2>6 DEF ReclaimInv
<1>2. ASSUME NEW t \in Tasks, LoadNetwork(t) PROVE ReclaimInv'
  <2>1. UNCHANGED <<pool, vm, registry>> /\ unproven \subseteq unproven'
    BY <1>2 DEF LoadNetwork, FailsEarly
  <2>2. Bound' /\ Up' /\ Teardowns'
    BY <1>2, <2>1 DEF LoadNetwork, FailsEarly, Bound, Up, Teardowns, Holding
  <2>3. ClaimsFirst'
    BY <1>2, <2>1 DEF LoadNetwork, FailsEarly, ClaimsFirst, AddrsOf
  <2>4. Reclaimed'
    BY <1>2, <2>1, StillReclaimed DEF LoadNetwork, FailsEarly, Steps, Reclaims
  <2>5. OneAddress' /\ Forgotten'
    BY <2>1 DEF OneAddress, Forgotten
  <2>6. Cloning'
    BY <1>2, <2>1 DEF LoadNetwork, FailsEarly, Cloning
  <2>. QED
    BY <2>2, <2>3, <2>4, <2>5, <2>6 DEF ReclaimInv
<1>3. ASSUME NEW t \in Tasks, FindExisting(t) PROVE ReclaimInv'
  <2>1. UNCHANGED <<pool, vm, registry>> /\ unproven \subseteq unproven'
    BY <1>3 DEF FindExisting, Allocated, AddrsOf
  <2>2. Bound' /\ Up' /\ Teardowns'
    BY <1>3, <2>1 DEF FindExisting, Allocated, AddrsOf, Bound, Up, Teardowns, Holding
  <2>3. ClaimsFirst'
    BY <1>3, <2>1 DEF FindExisting, Allocated, AddrsOf, ClaimsFirst, AddrsOf
  <2>4. Reclaimed'
    BY <1>3, <2>1, StillReclaimed DEF FindExisting, Allocated, AddrsOf, Steps, Reclaims
  <2>5. OneAddress' /\ Forgotten'
    BY <2>1 DEF OneAddress, Forgotten
  <2>6. Cloning'
    BY <1>3, <2>1 DEF FindExisting, Allocated, AddrsOf, Cloning
  <2>. QED
    BY <2>2, <2>3, <2>4, <2>5, <2>6 DEF ReclaimInv
<1>4. ASSUME NEW t \in Tasks, Register(t) PROVE ReclaimInv'
  <2>1. UNCHANGED <<pool, vm, unproven>>
    BY <1>4 DEF Register
  <2>2. Bound' /\ Up' /\ Teardowns'
    BY <1>4, <2>1 DEF Register, Bound, Up, Teardowns, Holding, Known, AuthoredBare
  <2>3. ClaimsFirst'
    BY <1>4, <2>1 DEF Register, ClaimsFirst, AddrsOf
  <2>4. Reclaimed'
    BY <1>4, <2>1, StillReclaimed DEF Register, Steps, Reclaims
  <2>5. OneAddress'
    BY <2>1 DEF OneAddress
  <2>6. Forgotten'
    BY <1>4 DEF Register, Forgotten, Cloning, Entries
  <2>7. Cloning'
    BY <1>4 DEF Register, Cloning, Known, OneTask, Live, Entries
  <2>. QED
    BY <2>2, <2>3, <2>4, <2>5, <2>6, <2>7 DEF ReclaimInv
<1>5. ASSUME NEW t \in Tasks, Mint(t) PROVE ReclaimInv'
  <2>1. UNCHANGED <<pool, vm, registry>> /\ unproven \subseteq unproven'
    BY <1>5 DEF Mint, MintsFor
  <2>2. Bound' /\ Up' /\ Teardowns'
    BY <1>5, <2>1 DEF Mint, MintsFor, Bound, Up, Teardowns, Holding
  <2>3. ClaimsFirst'
    BY <1>5, <2>1 DEF Mint, MintsFor, ClaimsFirst, AddrsOf
  <2>4. Reclaimed'
    BY <1>5, <2>1, StillReclaimed DEF Mint, MintsFor, Steps, Reclaims
  <2>5. OneAddress' /\ Forgotten'
    BY <2>1 DEF OneAddress, Forgotten
  <2>6. Cloning'
    BY <1>5, <2>1 DEF Mint, MintsFor, Cloning
  <2>. QED
    BY <2>2, <2>3, <2>4, <2>5, <2>6 DEF ReclaimInv
<1>6. ASSUME NEW t \in Tasks, Persist(t) PROVE ReclaimInv'
  <2>1. UNCHANGED <<pool, vm, unproven>>
    BY <1>6 DEF Persist
  <2>2. Bound' /\ Up' /\ Teardowns'
    BY <1>6, <2>1 DEF Persist, Bound, Up, Teardowns, Holding
  <2>3. ClaimsFirst'
    BY <1>6, <2>1 DEF Persist, ClaimsFirst, AddrsOf
  <2>4. Reclaimed'
    BY <1>6, <2>1, StillReclaimed DEF Persist, Steps, Reclaims
  <2>5. OneAddress'
    BY <2>1 DEF OneAddress
  <2>6. Forgotten'
    BY <1>6 DEF Persist, Forgotten, Cloning, Entries
  <2>7. Cloning'
    BY <1>6 DEF Persist, Cloning, Known, OneTask, Live, Entries
  <2>. QED
    BY <2>2, <2>3, <2>4, <2>5, <2>6, <2>7 DEF ReclaimInv
<1>7. ASSUME NEW t \in Tasks, Ready(t) PROVE ReclaimInv'
  <2>1. UNCHANGED <<pool, vm, unproven>>
    BY <1>7 DEF Ready
  <2>2. Bound' /\ Up' /\ Teardowns'
    BY <1>7, <2>1 DEF Ready, Bound, Up, Teardowns, Holding
  <2>3. ClaimsFirst'
    BY <1>7, <2>1 DEF Ready, ClaimsFirst, AddrsOf
  <2>4. Reclaimed'
    BY <1>7, <2>1, StillReclaimed DEF Ready, Steps, Reclaims, Up
  <2>5. OneAddress'
    BY <2>1 DEF OneAddress
  <2>6. Forgotten'
    BY <1>7 DEF Ready, Forgotten, Cloning, Entries
  <2>7. Cloning'
    BY <1>7 DEF Ready, Cloning, Known, OneTask, Live, Entries
  <2>. QED
    BY <2>2, <2>3, <2>4, <2>5, <2>6, <2>7 DEF ReclaimInv
<1>8. ASSUME NEW t \in Tasks, Fail(t) PROVE ReclaimInv'
  <2>1. UNCHANGED <<pool, vm, registry>> /\ unproven \subseteq unproven'
    BY <1>8 DEF Fail
  <2>2. Bound' /\ Up' /\ Teardowns'
    BY <1>8, <2>1 DEF Fail, Bound, Up, Teardowns, Holding
  <2>3. ClaimsFirst'
    BY <1>8, <2>1 DEF Fail, ClaimsFirst, AddrsOf
  <2>4. Reclaimed'
    BY <1>8, <2>1, StillReclaimed DEF Fail, Steps, Reclaims
  <2>5. OneAddress' /\ Forgotten'
    BY <2>1 DEF OneAddress, Forgotten
  <2>6. Cloning'
    BY <1>8, <2>1 DEF Fail, Cloning
  <2>. QED
    BY <2>2, <2>3, <2>4, <2>5, <2>6 DEF ReclaimInv
<1>9. ASSUME NEW t \in Tasks, CleanupLookup(t) PROVE ReclaimInv'
  <2>1. UNCHANGED <<pool, vm, registry>> /\ unproven \subseteq unproven'
    BY <1>9 DEF CleanupLookup, Absent
  <2>2. Bound' /\ Up' /\ Teardowns'
    BY <1>9, <2>1 DEF CleanupLookup, Absent, Bound, Up, Teardowns, Holding
  <2>3. ClaimsFirst'
    BY <1>9, <2>1 DEF CleanupLookup, Absent, ClaimsFirst, AddrsOf
  <2>4. Reclaimed'
    BY <1>9, <2>1, StillReclaimed DEF CleanupLookup, Absent, Steps, Reclaims, Bound
  <2>5. OneAddress' /\ Forgotten'
    BY <2>1 DEF OneAddress, Forgotten
  <2>6. Cloning'
    BY <1>9, <2>1 DEF CleanupLookup, Absent, Cloning
  <2>. QED
    BY <2>2, <2>3, <2>4, <2>5, <2>6 DEF ReclaimInv
<1>10. ASSUME NEW t \in Tasks, CleanupLookupFails(t) PROVE ReclaimInv'
  <2>1. UNCHANGED <<pool, vm, registry>> /\ unproven \subseteq unproven'
    BY <1>10 DEF CleanupLookupFails
  <2>2. Bound' /\ Up' /\ Teardowns'
    BY <1>10, <2>1 DEF CleanupLookupFails, Bound, Up, Teardowns, Holding
  <2>3. ClaimsFirst'
    BY <1>10, <2>1 DEF CleanupLookupFails, ClaimsFirst, AddrsOf
  <2>4. Reclaimed'
    BY <1>10, <2>1, StillReclaimed DEF CleanupLookupFails, Steps, Reclaims
  <2>5. OneAddress' /\ Forgotten'
    BY <2>1 DEF OneAddress, Forgotten
  <2>6. Cloning'
    BY <1>10, <2>1 DEF CleanupLookupFails, Cloning
  <2>. QED
    BY <2>2, <2>3, <2>4, <2>5, <2>6 DEF ReclaimInv
<1>11. ASSUME NEW t \in Tasks, Wipe(t) PROVE ReclaimInv'
  <2>1. UNCHANGED <<pool, vm, unproven>>
    BY <1>11 DEF Wipe
  <2>2. Bound' /\ Up' /\ Teardowns'
    BY <1>11, <2>1 DEF Wipe, Bound, Up, Teardowns, Holding
  <2>3. ClaimsFirst'
    BY <1>11, <2>1 DEF Wipe, ClaimsFirst, AddrsOf
  <2>4. Reclaimed'
    BY <1>11, <2>1, StillReclaimed DEF Wipe, Steps, Reclaims
  <2>5. OneAddress'
    BY <2>1 DEF OneAddress
  <2>6. Forgotten'
    BY <1>11 DEF Wipe, Forgotten, Cloning, Entries
  <2>7. Cloning'
    BY <1>11 DEF Wipe, Cloning, Known, OneTask, Live, Entries
  <2>. QED
    BY <2>2, <2>3, <2>4, <2>5, <2>6, <2>7 DEF ReclaimInv
<1>12. ASSUME NEW t \in Tasks, MarkError(t) PROVE ReclaimInv'
  <2>1. UNCHANGED <<pool, vm, unproven>>
    BY <1>12 DEF MarkError
  <2>2. Bound' /\ Up' /\ Teardowns'
    BY <1>12, <2>1 DEF MarkError, Bound, Up, Teardowns, Holding
  <2>3. ClaimsFirst'
    BY <1>12, <2>1 DEF MarkError, ClaimsFirst, AddrsOf
  <2>4. Reclaimed'
    BY <1>12, <2>1, StillReclaimed DEF MarkError, Steps, Reclaims
  <2>5. OneAddress'
    BY <2>1 DEF OneAddress
  <2>6. Forgotten'
    BY <1>12 DEF MarkError, Forgotten, Cloning, Entries
  <2>7. Cloning'
    BY <1>12 DEF MarkError, Cloning, Known, OneTask, Live, Entries
  <2>. QED
    BY <2>2, <2>3, <2>4, <2>5, <2>6, <2>7 DEF ReclaimInv
<1>13. ASSUME NEW t \in Tasks, DestroyFails(t) PROVE ReclaimInv'
  <2>1. UNCHANGED <<pool, vm, registry>> /\ unproven \subseteq unproven'
    BY <1>13 DEF DestroyFails, FailsEarly
  <2>2. Bound' /\ Up' /\ Teardowns'
    BY <1>13, <2>1 DEF DestroyFails, FailsEarly, Bound, Up, Teardowns, Holding
  <2>3. ClaimsFirst'
    BY <1>13, <2>1 DEF DestroyFails, FailsEarly, ClaimsFirst, AddrsOf
  <2>4. Reclaimed'
    BY <1>13, <2>1, StillReclaimed DEF DestroyFails, FailsEarly, Steps, Reclaims
  <2>5. OneAddress' /\ Forgotten'
    BY <2>1 DEF OneAddress, Forgotten
  <2>6. Cloning'
    BY <1>13, <2>1 DEF DestroyFails, FailsEarly, Cloning
  <2>. QED
    BY <2>2, <2>3, <2>4, <2>5, <2>6 DEF ReclaimInv
<1>14. ASSUME NEW t \in Tasks, MarkDeleted(t) PROVE ReclaimInv'
  <2>1. UNCHANGED <<pool, vm, unproven>>
    BY <1>14 DEF MarkDeleted, Deleted
  <2>2. Bound' /\ Up' /\ Teardowns'
    BY <1>14, <2>1 DEF MarkDeleted, Deleted, Bound, Up, Teardowns, Holding
  <2>3. ClaimsFirst'
    BY <1>14, <2>1 DEF MarkDeleted, Deleted, ClaimsFirst, AddrsOf
  <2>4. Reclaimed'
    BY <1>14, <2>1, StillReclaimed DEF MarkDeleted, Deleted, Steps, Reclaims
  <2>5. OneAddress'
    BY <2>1 DEF OneAddress
  <2>6. Forgotten'
    BY <1>14 DEF MarkDeleted, Deleted, Forgotten, Cloning, Entries
  <2>7. Cloning'
    BY <1>14 DEF MarkDeleted, Deleted, Cloning, Known, OneTask, Live, Entries
  <2>. QED
    BY <2>2, <2>3, <2>4, <2>5, <2>6, <2>7 DEF ReclaimInv
<1>15. ASSUME NEW t \in Tasks, Crash(t) PROVE ReclaimInv'
  <2>1. UNCHANGED <<pool, vm, registry>> /\ unproven \subseteq unproven'
    BY <1>15 DEF Crash
  <2>2. Bound' /\ Up' /\ Teardowns'
    BY <1>15, <2>1 DEF Crash, Bound, Up, Teardowns, Holding
  <2>3. ClaimsFirst'
    BY <1>15, <2>1 DEF Crash, ClaimsFirst, AddrsOf
  <2>4. Reclaimed'
    BY <1>15, <2>1, StillReclaimed DEF Crash, Steps, Reclaims
  <2>5. OneAddress' /\ Forgotten'
    BY <2>1 DEF OneAddress, Forgotten
  <2>6. Cloning'
    BY <1>15, <2>1 DEF Crash, Cloning
  <2>. QED
    BY <2>2, <2>3, <2>4, <2>5, <2>6 DEF ReclaimInv
<1>16. ASSUME NEW t \in Tasks, Claim(t) PROVE ReclaimInv'
  <2>1. CASE UNCHANGED <<pool, ip>> /\ Goto(t, "end")
    <3>1. UNCHANGED <<vm, registry, unproven>>
      BY <1>16 DEF Claim
    <3>2. /\ Bound' /\ Up' /\ Teardowns' /\ Cloning'
          /\ ClaimsFirst'
      <4>1. \A n \in Names : AddrsOf(n)' = AddrsOf(n)
        BY <2>1 DEF AddrsOf
      <4>2. Bound' /\ Up' /\ Teardowns' /\ Cloning'
        BY <2>1, <3>1 DEF Bound, Up, Teardowns, Cloning, Holding
      <4>3. ClaimsFirst'
        BY <2>1, <4>1 DEF ClaimsFirst
      <4>. QED
        BY <4>2, <4>3
    <3>3. Reclaimed'
      BY <1>16, <2>1, <3>1, StillReclaimed DEF Claim, ClaimsFirst, Steps
    <3>. QED
      BY <2>1, <3>1, <3>2, <3>3 DEF ReclaimInv, OneAddress, Forgotten
  <2>2. CASE \E a \in Addrs : /\ pool[a] = Free /\ pool' = [pool EXCEPT ![a] = NameOf[t]]
                              /\ ip' = [ip EXCEPT ![t] = a] /\ Goto(t, "register")
    <3>1. PICK a \in Addrs : /\ pool[a] = Free /\ pool' = [pool EXCEPT ![a] = NameOf[t]]
                             /\ ip' = [ip EXCEPT ![t] = a] /\ Goto(t, "register")
      BY <2>2
    <3>2. UNCHANGED <<vm, registry, unproven>> /\ pc[t] = "claim" /\ AddrsOf(NameOf[t]) = {}
      BY <1>16 DEF Claim, ClaimsFirst
    <3>3. a # 0
      OBVIOUS
    <3>4. Bound' /\ Up' /\ Teardowns' /\ Cloning'
      BY <3>1, <3>2, <3>3 DEF Bound, Up, Teardowns, Cloning, Holding
    <3>5. \A m \in Names \ {NameOf[t]} : AddrsOf(m)' = AddrsOf(m)
      BY <3>1 DEF AddrsOf
    <3>6. ClaimsFirst'
      BY <3>1, <3>2, <3>5 DEF ClaimsFirst, Known, OneTask, Live
    <3>7. OneAddress'
      BY <3>1, <3>2 DEF OneAddress, AddrsOf
    <3>8. t \notin Authored
      BY <3>2 DEF Known, AuthoredBare
    <3>9. Reclaimed'
      <4>. SUFFICES ASSUME NEW n \in Names, n \notin unproven, ~vm[n].on, AddrsOf(n)' # {}
                    PROVE  \E u \in Tasks : NameOf[u] = n /\ Reclaims(u)'
        BY <3>2 DEF Reclaimed
      <4>1. CASE n = NameOf[t]
        BY <4>1, <3>1, <3>8 DEF Reclaims
      <4>2. CASE n # NameOf[t]
        <5>1. PICK u \in Tasks : NameOf[u] = n /\ Reclaims(u)
          BY <4>2, <3>5 DEF Reclaimed
        <5>. QED
          BY <5>1, <4>2, <3>1 DEF Reclaims
      <4>. QED
        BY <4>1, <4>2
    <3>. QED
      BY <3>2, <3>4, <3>6, <3>7, <3>9 DEF ReclaimInv, Forgotten
  <2>. QED
    BY <1>16, <2>1, <2>2 DEF Claim, IsLowest
<1>17. ASSUME NEW t \in Tasks, Clone(t) PROVE ReclaimInv'
  <2>1. UNCHANGED <<pool, registry, unproven, ip>> /\ pc[t] = "clone"
    BY <1>17 DEF Clone
  <2>2. \A n \in Names : vm[n].on => vm'[n].on
    <3>1. CASE UNCHANGED vm
      BY <3>1
    <3>2. CASE vm' = [vm EXCEPT ![NameOf[t]] = [on |-> TRUE, ip |-> ip[t], agent |-> identity[t]]]
      BY <3>2
    <3>. QED
      BY <1>17, <3>1, <3>2 DEF Clone
  <2>3. vm'[NameOf[t]].on
    BY <1>17 DEF Clone
  <2>4. \A u \in Tasks : u # t => pc'[u] = pc[u]
    BY <1>17 DEF Clone
  <2>5. pc'[t] \in {"end", "ready"}
    BY <1>17 DEF Clone
  <2>6. /\ Bound' /\ Up' /\ Teardowns' /\ Cloning'
        /\ ClaimsFirst'
    <3>1. Bound' /\ Teardowns' /\ Cloning'
      BY <2>1, <2>4, <2>5 DEF Bound, Teardowns, Cloning, Holding
    <3>2. Up'
      <4>. SUFFICES ASSUME NEW u \in Tasks, pc'[u] = "ready" PROVE vm'[NameOf[u]].on
        BY DEF Up
      <4>1. CASE u = t
        BY <4>1, <2>3
      <4>2. CASE u # t
        <5>1. vm[NameOf[u]].on /\ NameOf[u] \in Names
          BY <4>2, <2>4 DEF Up
        <5>. QED
          BY <5>1, <2>2
      <4>. QED
        BY <4>1, <4>2
    <3>3. \A n \in Names : AddrsOf(n)' = AddrsOf(n)
      BY <2>1 DEF AddrsOf
    <3>4. ClaimsFirst'
      BY <2>4, <2>5, <3>3 DEF ClaimsFirst
    <3>. QED
      BY <3>1, <3>2, <3>4
  <2>7. Reclaimed'
    <3>. SUFFICES ASSUME NEW n \in Names, n \notin unproven, ~vm'[n].on, AddrsOf(n) # {}
                  PROVE  \E u \in Tasks : NameOf[u] = n /\ Reclaims(u)'
      BY <2>1 DEF Reclaimed, AddrsOf
    <3>1. ~vm[n].on
      BY <2>2
    <3>2. PICK u \in Tasks : NameOf[u] = n /\ Reclaims(u)
      BY <3>1 DEF Reclaimed
    <3>3. u # t
      BY <3>2, <2>3
    <3>. QED
      BY <3>2, <3>3, <2>1, <2>4 DEF Reclaims
  <2>. QED
    BY <2>1, <2>6, <2>7 DEF ReclaimInv, OneAddress, Forgotten
<1>18. ASSUME NEW t \in Tasks, DestroyVm(t) PROVE ReclaimInv'
  <2>1. UNCHANGED <<pool, registry, unproven, ip>> /\ pc[t] = "destroy"
    BY <1>18 DEF DestroyVm
  <2>2. \A n \in Names : n # NameOf[t] => vm'[n] = vm[n]
    BY <1>18 DEF DestroyVm
  <2>3. pc' = [pc EXCEPT ![t] = "reclaim"]
    BY <1>18 DEF DestroyVm
  <2>4. Bound' /\ Teardowns' /\ ClaimsFirst' /\ Cloning'
    BY <2>1, <2>3 DEF Bound, Teardowns, ClaimsFirst, Cloning, Holding, AddrsOf
  <2>5. Up'
    BY <2>1, <2>2, <2>3 DEF Up, Known, OneTask, Live
  <2>6. Reclaims(t)'
    BY <2>1, <2>3, <1>18 DEF Reclaims, Teardowns
  <2>7. Reclaimed'
    BY <2>1, <2>2, <2>3, <2>6 DEF Reclaimed, Reclaims, AddrsOf
  <2>. QED
    BY <2>1, <2>4, <2>5, <2>7 DEF ReclaimInv, OneAddress, Forgotten
<1>19. ASSUME NEW t \in Tasks, Release(t) \/ Reclaim(t) PROVE ReclaimInv'
  <2>1. UNCHANGED <<registry, vm, ip>> /\ ReleaseAddrs(NameOf[t]) /\ pc[t] \in {"release", "reclaim"}
    BY <1>19 DEF Release, Reclaim
  <2>2. \E step \in {"wipe", "delete"} : pc' = [pc EXCEPT ![t] = step]
    BY <1>19 DEF Release, Reclaim
  <2>3. /\ AddrsOf(NameOf[t])' = {}
        /\ \A m \in Names \ {NameOf[t]} : AddrsOf(m)' = AddrsOf(m)
        /\ \A a, b \in Addrs : pool'[a] = pool'[b] /\ pool'[a] \in Names => pool[a] = pool[b] /\ pool[a] \in Names
        /\ \A m \in Names \ {NameOf[t]} : m \in unproven <=> m \in unproven'
    BY <2>1, ReleaseFrees
  <2>4. Bound' /\ Up' /\ Teardowns' /\ Cloning'
    BY <2>1, <2>2 DEF Bound, Up, Teardowns, Cloning, Holding
  <2>5. ClaimsFirst'
    BY <2>2, <2>3 DEF ClaimsFirst
  <2>6. OneAddress'
    BY <2>3 DEF OneAddress
  <2>7. Reclaimed'
    <3>. SUFFICES ASSUME NEW n \in Names, n \notin unproven', ~vm[n].on, AddrsOf(n)' # {}
                  PROVE  \E u \in Tasks : NameOf[u] = n /\ Reclaims(u)'
      BY <2>1 DEF Reclaimed
    <3>1. n # NameOf[t] /\ AddrsOf(n) # {} /\ n \notin unproven
      BY <2>3
    <3>2. PICK u \in Tasks : NameOf[u] = n /\ Reclaims(u)
      BY <3>1 DEF Reclaimed
    <3>. QED
      BY <3>1, <3>2, <2>2 DEF Reclaims
  <2>. QED
    BY <2>1, <2>4, <2>5, <2>6, <2>7 DEF ReclaimInv, Forgotten
<1>20. ASSUME EditRange \/ Seed \/ DropFree \/ UNCHANGED vars PROVE ReclaimInv'
  <2>1. UNCHANGED <<pc, ip, registry, vm, unproven>>
    BY <1>20 DEF EditRange, Seed, DropFree, vars, locals, minted
  <2>2. \A a \in Addrs : \A n \in Names : pool'[a] = n <=> pool[a] = n
    BY <1>20 DEF EditRange, Seed, Seeds, DropFree, vars
  <2>3. \A n \in Names : AddrsOf(n)' = AddrsOf(n)
    BY <2>2 DEF AddrsOf
  <2>4. Bound' /\ Up' /\ Teardowns' /\ Cloning' /\ Forgotten'
    BY <2>1 DEF Bound, Up, Teardowns, Cloning, Forgotten
  <2>5. ClaimsFirst'
    BY <2>1, <2>3 DEF ClaimsFirst
  <2>6. OneAddress'
    BY <2>2 DEF OneAddress
  <2>7. Reclaimed'
    BY <2>1, <2>3 DEF Reclaimed, Reclaims
  <2>. QED
    BY <2>4, <2>5, <2>6, <2>7 DEF ReclaimInv
<1>21. ASSUME NEW n \in Names, Provision(n) \/ Sweep(n) PROVE ReclaimInv'
  <2>1. UNCHANGED <<pc, ip, pool, vm, unproven>>
    BY <1>21 DEF Provision, Sweep, locals
  <2>2. registry' \in {registry, [registry EXCEPT ![n].agent = 0]}
    BY <1>21 DEF Provision, Sweep
  <2>3. \A m \in Names : /\ registry'[m].status = registry[m].status
                         /\ registry'[m].agent \in {registry[m].agent, 0}
    BY <2>2 DEF Entries
  <2>4. Bound' /\ Up' /\ Teardowns' /\ OneAddress' /\ ClaimsFirst'
    BY <2>1 DEF Bound, Up, Teardowns, OneAddress, ClaimsFirst, AddrsOf
  <2>5. Cloning' /\ Forgotten'
    BY <2>1, <2>3 DEF Cloning, Forgotten, Tasks
  <2>6. Reclaimed'
    BY <2>1 DEF Reclaimed, Reclaims, AddrsOf
  <2>. QED
    BY <2>4, <2>5, <2>6 DEF ReclaimInv
<1>. QED
  BY <1>1, <1>2, <1>3, <1>4, <1>5, <1>6, <1>7, <1>8, <1>9, <1>10, <1>11, <1>12, <1>13,
     <1>14, <1>15, <1>16, <1>17, <1>18, <1>19, <1>20, <1>21 DEF Next, CloneStep, DestroyStep

\* Neither half is inductive alone: a sweep spares what is being cloned, which ReclaimInv
\* knows, and a promise to reclaim rests on what the tasks know.
LEMMA GuestInvariant ==
    ASSUME ~Overlap
    PROVE  Spec => [](GuestInv /\ ReclaimInv)
<1>1. Init => GuestInv
  BY GuestAssumption
  DEF Init, NoEntry, NoVm, Tasks, TypeOK, Steps, Entries, Machines, GuestInv, Known,
      OneTask, AuthoredBare, HoldsAddress, VmAbsentAt, Recorded, Unminted, Holding,
      VmAddressHeld, IdentityKept, Live
<1>2. Init => ReclaimInv
  BY GuestAssumption
  DEF GuestAssumption, Init, ReclaimInv, Bound, Up, Teardowns, ClaimsFirst, OneAddress, Reclaimed, Forgotten,
      Cloning, Holding, AddrsOf, NoEntry
<1>3. GuestInv /\ ReclaimInv /\ TypeOK' /\ [Next]_vars => GuestInv' /\ ReclaimInv'
  BY GuestStep, ReclaimStep DEF ReclaimInv
<1>. QED
  BY <1>1, <1>2, <1>3, TypeCorrect, PTL DEF Spec

\* While the tasks on one name run one after the other, a VM that is up holds the
\* address it booted with, no two VMs share one, and the registry knows its
\* identity: the clone's rollback, the teardown, redelivery and range edits never
\* take either away, and the sweep of stale agents takes an identity only from a
\* clone that was marked failed before its agent was provisioned.
THEOREM GuestSafe ==
    ASSUME ~Overlap
    PROVE  Spec => [](VmAddressHeld /\ NoSharedAddress /\ IdentityKept)
<1>1. GuestInv => VmAddressHeld /\ NoSharedAddress /\ IdentityKept
  BY DEF GuestInv, VmAddressHeld, NoSharedAddress
<1>. QED
  BY <1>1, GuestInvariant, PTL

\* The part of it about the agent: the identity baked into a VM that is up stays the
\* registered one (_run_clone_op mints only for an absent VM, _cleanup_failed_clone wipes
\* only with the VM proven absent), unless _sweep_stale_agents_sync took it from an entry
\* marked failed whose agent was never provisioned.
THEOREM AgentsKeepIdentity ==
    ASSUME ~Overlap
    PROVE  Spec => []IdentityKept
<1>. QED
  BY GuestSafe, PTL

\* However often its clone is redelivered, a name holds at most one address, and once
\* its tasks are through, a name without a VM holds none, and no identity if it was torn
\* down (allocate_ip_sync, _cleanup_failed_clone, destroy_vm_task), except for what a lost
\* task or an unproven absence left.
THEOREM NothingStaysStranded ==
    ASSUME ~Overlap
    PROVE  Spec => []NothingStranded
<1>1. ReclaimInv => NothingStranded
  <2>. SUFFICES ASSUME ReclaimInv PROVE NothingStranded
    OBVIOUS
  <2>1. \A n \in Names : Cardinality(AddrsOf(n)) <= 1
    BY AtMostOne DEF ReclaimInv
  <2>. QED
    BY <2>1 DEF ReclaimInv, NothingStranded, Reclaimed, Reclaims, Forgotten
<1>. QED
  BY <1>1, GuestInvariant, PTL
=============================================================================
