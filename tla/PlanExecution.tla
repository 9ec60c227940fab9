---------------------------- MODULE PlanExecution ----------------------------
(***************************************************************************)
(* What a deploy plan promises about its operations, without slots,        *)
(* messages or round trips: an operation starts only when everything it     *)
(* depends on is done, is skipped only if something it depends on failed or *)
(* was skipped or a stop was asked for, and its fate never changes.         *)
(* PlanScheduler implements this module.                                    *)
(***************************************************************************)
CONSTANTS Ops, Deps

VARIABLES
    fate,       \* waiting, active, done, failed or skipped
    stopping    \* somebody asked to stop the plan

vars == <<fate, stopping>>

Init ==
    /\ fate = [o \in Ops |-> "waiting"]
    /\ stopping = FALSE

Begin(o) ==
    /\ fate[o] = "waiting"
    /\ \A d \in Deps[o] : fate[d] = "done"
    /\ fate' = [fate EXCEPT ![o] = "active"]
    /\ UNCHANGED stopping

End(o) ==
    /\ fate[o] = "active"
    /\ \/ fate' = [fate EXCEPT ![o] = "done"]
       \/ fate' = [fate EXCEPT ![o] = "failed"]
       \/ stopping /\ fate' = [fate EXCEPT ![o] = "skipped"]
    /\ UNCHANGED stopping

Skip(o) ==
    /\ fate[o] = "waiting"
    /\ stopping \/ \E d \in Deps[o] : fate[d] \in {"failed", "skipped"}
    /\ fate' = [fate EXCEPT ![o] = "skipped"]
    /\ UNCHANGED stopping

Stop ==
    /\ stopping' = TRUE
    /\ UNCHANGED fate

Next == Stop \/ \E o \in Ops : Begin(o) \/ End(o) \/ Skip(o)

Spec == Init /\ [][Next]_vars
=============================================================================
