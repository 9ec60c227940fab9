-------------------------- MODULE SequenceRunProofs --------------------------
(***************************************************************************)
(* Proofs about SequenceRun, for every sequence of steps, every number of   *)
(* retries and every bound on the faults, and about AgentConnection, the    *)
(* connections that the commands of a sequence go over.                     *)
(*                                                                         *)
(* StepsInOrder is not inductive: it must be known where the engine is in   *)
(* its list, that what it carries and what it is told succeeded really did, *)
(* and that a step is only recorded with its artifact.  SequenceInv says so.*)
(* RebootConfirmed has an invariant of its own, RebootInv, about the link.  *)
(***************************************************************************)
EXTENDS SequenceRun, AgentConnection, TLAPS

\* What the relay map, the document, the snapshots and the worker's subscription tell
\* of a success is true.
Truthful ==
    /\ artifacts \subseteq relayedDone /\ carried \subseteq relayedDone
    /\ cursor \subseteq relayedDone \cup Gates
    /\ \A k \in Keys : k.kind = "run" /\ snapshot[k] = "done" => k.step \in relayedDone

\* The subscription holds a frame only while the engine waits for one.
InboxWaits ==
    /\ inbox # "none" => pc = "wait"
    /\ inbox = "done" /\ key.kind = "run" => step \in relayedDone

\* Where the engine is: the earlier steps are recorded; what it does after the command of
\* a step is done only when that succeeded and its artifact is carried.
Busy == Phases \ (Ended \cup {"queued", "abandoned"})
AfterCommand ==
    \/ pc \in {"reconnect", "persist"}
    \/ pc \in {"check", "lease", "send", "wait"} /\ key.kind = "verify"
Placed ==
    /\ pc \in Busy =>
          /\ completed \subseteq cursor
          /\ \A j \in 1 .. step - 1 : j \in cursor
    /\ AfterCommand =>
          /\ step \in relayedDone \cup Gates
          /\ step \in Produces => step \in carried
    /\ pc = "head" => key.kind = "run"

SequenceInv ==
    /\ Truthful /\ InboxWaits /\ Placed
    /\ cursor \cap Produces \subseteq artifacts
    /\ \A k \in channel \cup executing : \A j \in 1 .. k.step - 1 : j \in cursor

-----------------------------------------------------------------------------
\* The keys of the engine are in the set of keys, and the next attempt is.
LEMMA KeyTypes ==
    ASSUME NEW i \in Steps
    PROVE  RunKey(i, 0) \in Keys /\ VerifyKey(i, 0) \in Keys
  <1>1. 0 \in Attempts
    BY SequenceAssumption DEF Attempts
  <1> QED
    BY <1>1 DEF RunKey, VerifyKey, Keys

\* A retry that is allowed has a key.
LEMMA RetryTypes ==
    ASSUME NEW k \in Keys, MayRetry(k)
    PROVE  [k EXCEPT !.attempt = @ + 1] \in Keys
  <1>1. k.attempt \in Nat /\ k.step \in Steps /\ Retries[k.step] \in Nat /\ MaxVerify \in Nat
    BY SequenceAssumption DEF Keys, Attempts
  <1>2. k.attempt + 1 \in 0 .. MaxVerify \/ k.attempt + 1 \in 0 .. Retries[k.step]
    BY <1>1 DEF MayRetry, Keys
  <1>3. k.attempt + 1 \in Attempts
    BY <1>1, <1>2 DEF Attempts
  <1> QED
    BY <1>3 DEF Keys

\* So has the first step.
LEMMA FirstStep == RunKey(1, 0) \in Keys
  <1>1. 1 \in Steps
    BY SequenceAssumption DEF Steps
  <1> QED
    BY <1>1, KeyTypes

\* The step of the key is a step of the sequence.
LEMMA StepTypes == TypeOK => step \in Steps /\ step \in Nat
  BY SequenceAssumption DEF TypeOK, Keys, step, Steps

\* Where the parts of an action leave the phase, the key and the relay map.
LEMMA NextStepTypes ==
    ASSUME TypeOK, NextStep
    PROVE  pc' \in {"succeeded", "head"} /\ key' \in Keys
  <1>1. CASE step = N
    BY <1>1 DEF NextStep, TypeOK
  <1>2. CASE step # N
    <2>1. step + 1 \in Steps
      BY <1>2, StepTypes, SequenceAssumption DEF Steps
    <2> QED
      BY <1>2, <2>1, KeyTypes DEF NextStep
  <1> QED
    BY <1>1, <1>2

\* An answer leads to a phase and a key, and relays only steps of the sequence.
LEMMA ResolveTypes ==
    ASSUME TypeOK, NEW outcome, Resolve(outcome)
    PROVE  pc' \in {"reconnect", "check", "persist", "failed"} /\ key' \in Keys /\ carried' \in SUBSET Steps
  <1> USE StepTypes DEF TypeOK
  <1>1. CASE Succeeds
    BY <1>1, KeyTypes DEF Succeeds, AfterRun
  <1>2. CASE LacksResult
    BY <1>2 DEF LacksResult
  <1>3. CASE Fails
    BY <1>3, RetryTypes DEF Fails
  <1> QED
    BY <1>1, <1>2, <1>3 DEF Resolve

\* So does a failed attempt.
LEMMA FailsTypes ==
    ASSUME TypeOK, Fails
    PROVE  pc' \in {"check", "failed"} /\ key' \in Keys /\ carried' \in SUBSET Steps
  BY RetryTypes DEF TypeOK, Fails

\* Type correctness of SequenceRun: every step of the worker, the bridge, the agent and the
\* faults keeps the types (worker.py run_op_sequence, engine.py, agentbus.py).
THEOREM TypeCorrect == Spec => []TypeOK
<1>1. Init => TypeOK
  <2>. SUFFICES ASSUME Init PROVE TypeOK
    OBVIOUS
  <2>1. artifacts \in SUBSET Steps /\ relayedDone \in SUBSET Steps
    BY SequenceAssumption DEF Init
  <2>2. snapshot \in [Keys -> {"none", "done", "error"}] /\ rebooted \in [Steps -> Nat]
    BY DEF Init
  <2>3. stop \in BOOLEAN /\ connected \in BOOLEAN /\ rebootDue \in BOOLEAN
    BY DEF Init
  <2>4. pc \in Phases /\ key \in Keys
    BY FirstStep DEF Init, Phases
  <2>. QED
    BY <2>1, <2>2, <2>3, <2>4 DEF Init, TypeOK
<1>2. TypeOK /\ [Next]_vars => TypeOK'
  <2>. SUFFICES ASSUME TypeOK, [Next]_vars PROVE TypeOK'
    OBVIOUS
  <2>. USE DEF TypeOK, vars, worker, document, outside, agent, link, history, counts, Phases, AtStep
  <2>1. CASE Load
    BY <2>1, FirstStep DEF Load
  <2>2. CASE HeadStops
    BY <2>2 DEF HeadStops
  <2>3. CASE HeadSkips
    BY <2>3, NextStepTypes DEF HeadSkips
  <2>4. CASE HeadHasArtifact
    BY <2>4 DEF HeadHasArtifact
  <2>5. CASE HeadGate
    BY <2>5 DEF HeadGate
  <2>6. CASE HeadDispatches
    BY <2>6 DEF HeadDispatches
  <2>7. CASE Check
    BY <2>7, ResolveTypes DEF Check
  <2>8. CASE Lease
    BY <2>8, FailsTypes DEF Lease
  <2>9. CASE Send
    BY <2>9 DEF Send
  <2>10. CASE WaitFrame
    BY <2>10, ResolveTypes DEF WaitFrame
  <2>11. CASE WaitUnreachable
    BY <2>11, FailsTypes DEF WaitUnreachable
  <2>12. CASE WaitTimeout
    BY <2>12, FailsTypes DEF WaitTimeout
  <2>13. CASE Reconnect
    BY <2>13, KeyTypes, StepTypes DEF Reconnect
  <2>14. CASE ReconnectTimeout
    BY <2>14 DEF ReconnectTimeout
  <2>15. CASE Persist
    BY <2>15, NextStepTypes, StepTypes DEF Persist, PersistsArtifacts
  <2>16. CASE Crash
    BY <2>16, FirstStep DEF Crash, Redelivered, Phases
  <2>17. CASE RequestStop
    BY <2>17 DEF RequestStop
  <2>18. CASE Reboot
    BY <2>18 DEF Reboot
  <2>19. CASE Drop
    <3>1. drops' \in Nat /\ UNCHANGED <<crashes, lost, expiries, connects>>
      BY <2>19 DEF Drop
    <3>2. connected' \in BOOLEAN
      BY <2>19 DEF Drop
    <3>. QED
      BY <2>19, <3>1, <3>2 DEF Drop
  <2>20. CASE Connect
    BY <2>20 DEF Connect
  <2>21. ASSUME NEW k \in Keys, Forward(k) PROVE TypeOK'
    BY <2>21 DEF Forward
  <2>22. ASSUME NEW k \in Keys, LoseDispatch(k) PROVE TypeOK'
    BY <2>22 DEF LoseDispatch
  <2>23. ASSUME NEW k \in Keys, ExpireSnapshot(k) PROVE TypeOK'
    BY <2>23 DEF ExpireSnapshot
  <2>24. ASSUME NEW k \in Keys, ExecuteReboot(k) PROVE TypeOK'
    BY <2>24 DEF ExecuteReboot, Keys
  <2>25. ASSUME NEW k \in Keys, NEW outcome \in {"done", "error"}, Relay(k, outcome) PROVE TypeOK'
    BY <2>25 DEF Relay, Keys
  <2>26. ASSUME NEW k \in Keys, NEW outcome \in {"done", "error"}, Execute(k, outcome) PROVE TypeOK'
    BY <2>26 DEF Execute
  <2>27. CASE UNCHANGED vars
    BY <2>27
  <2>. QED
    BY <2>1, <2>2, <2>3, <2>4, <2>5, <2>6, <2>7, <2>8, <2>9, <2>10, <2>11, <2>12, <2>13, <2>14, <2>15, <2>16, <2>17, <2>18, <2>19, <2>20, <2>21, <2>22, <2>23, <2>24, <2>25, <2>26, <2>27 DEF Next, WorkerStep, Environment
<1>. QED
  BY <1>1, <1>2, PTL DEF Spec

-----------------------------------------------------------------------------
\* The engine goes to a later step only when the current one is recorded.
LEMMA NextStepKeeps ==
    ASSUME TypeOK, NextStep, step \in cursor', completed' \subseteq cursor',
           \A j \in 1 .. step - 1 : j \in cursor'
    PROVE  Placed'
<1>. step \in Nat
  BY StepTypes
<1>1. CASE step = N
  BY <1>1 DEF NextStep, Placed, AfterCommand, Busy, Ended, Phases
<1>2. CASE step # N
  <2>1. pc' = "head" /\ key' = RunKey(step + 1, 0)
    BY <1>2 DEF NextStep
  <2>2. step' = step + 1 /\ key'.kind = "run"
    BY <2>1 DEF step, RunKey
  <2>3. \A j \in 1 .. step' - 1 : j \in cursor'
    BY <2>2
  <2>. QED
    BY <2>1, <2>2, <2>3 DEF Placed, AfterCommand, Busy, Ended, Phases
<1>. QED
  BY <1>1, <1>2

\* A failed attempt leaves the engine at its step and at its kind of command.
LEMMA FailsKeeps ==
    ASSUME TypeOK, SequenceInv, pc \in {"check", "lease", "send", "wait"}, Fails,
           UNCHANGED <<completed, cursor, artifacts, relayedDone>>
    PROVE  Placed' /\ carried' \subseteq relayedDone' /\ pc' # "wait"
<1>1. carried' = carried /\ pc' \in {"check", "failed"} /\ step' = step /\ key'.kind = key.kind
  BY DEF Fails, TypeOK, Keys, step
<1>2. pc \in Busy /\ (AfterCommand <=> key.kind = "verify")
  BY DEF AfterCommand, Busy, Phases, Ended
<1>. QED
  BY <1>1, <1>2 DEF SequenceInv, Placed, Truthful, AfterCommand, Busy, Ended

\* What the engine does with an answer: after the success of a command its step has
\* succeeded and its artifact is carried.
LEMMA ResolveKeeps ==
    ASSUME TypeOK, SequenceInv, pc \in {"check", "wait"}, NEW outcome, Resolve(outcome),
           outcome = "done" /\ key.kind = "run" => step \in relayedDone,
           UNCHANGED <<completed, cursor, artifacts, relayedDone>>
    PROVE  Placed' /\ carried' \subseteq relayedDone' /\ pc' # "wait"
<1>0. /\ pc \in Busy /\ (AfterCommand <=> key.kind = "verify") /\ key.kind \in {"run", "verify"}
  BY DEF AfterCommand, Busy, Phases, Ended, TypeOK, Keys
<1>1. ASSUME outcome = "done", Succeeds, key.kind = "run"
      PROVE  Placed' /\ carried' \subseteq relayedDone' /\ pc' # "wait"
  <2>1. /\ step \in relayedDone
        /\ carried' = IF step \in Produces THEN carried \cup {step} ELSE carried
        /\ step' = step /\ pc' \in {"reconnect", "check", "persist"}
        /\ pc' = "check" => key'.kind = "verify"
    BY <1>1 DEF Succeeds, AfterRun, VerifyKey, step
  <2>. QED
    BY <2>1, <1>0 DEF SequenceInv, Placed, Truthful, AfterCommand, Busy, Ended, Phases
<1>2. ASSUME outcome = "done", Succeeds, key.kind = "verify"
      PROVE  Placed' /\ carried' \subseteq relayedDone' /\ pc' # "wait"
  <2>1. pc' = "persist" /\ UNCHANGED <<key, carried>> /\ step' = step
    BY <1>2 DEF Succeeds, step
  <2>. QED
    BY <2>1, <1>0, <1>2 DEF SequenceInv, Placed, Truthful, AfterCommand, Busy, Ended, Phases
<1>3. CASE LacksResult
  BY <1>3 DEF LacksResult, SequenceInv, Placed, Truthful, AfterCommand, Busy, Ended
<1>4. CASE Fails
  BY <1>4, FailsKeeps
<1>. QED
  BY <1>0, <1>1, <1>2, <1>3, <1>4 DEF Resolve

\* Steps of the others that leave the worker and its document alone.
LEMMA OthersKeep ==
    ASSUME TypeOK, SequenceInv,
           UNCHANGED <<pc, key, completed, carried, inbox, cursor, artifacts, relayedDone>>
    PROVE  /\ InboxWaits' /\ Placed' /\ cursor' \cap Produces \subseteq artifacts'
           /\ artifacts' \subseteq relayedDone' /\ carried' \subseteq relayedDone'
           /\ cursor' \subseteq relayedDone' \cup Gates
<1>. step' = step
  BY DEF step
<1>. QED
  BY DEF SequenceInv, Truthful, InboxWaits, Placed, AfterCommand

\* Nothing comes before the first step.
LEMMA FirstIsFirst == \A j \in 1 .. 0 : FALSE
  OBVIOUS

\* What the engine, its document and the snapshots say stays true.
LEMMA SequenceInvariant == Spec => []SequenceInv
<1>1. Init => SequenceInv
  BY FirstIsFirst, SequenceAssumption
  DEF Init, SequenceInv, Truthful, InboxWaits, Placed, AfterCommand, Busy, Ended
<1>2. TypeOK /\ TypeOK' /\ SequenceInv /\ [Next]_vars => SequenceInv'
  <2>. SUFFICES ASSUME TypeOK, TypeOK', SequenceInv, [Next]_vars PROVE SequenceInv'
    OBVIOUS
  <2>. USE DEF vars, worker, document, outside, agent, link, history, counts, AtStep
  <2>1. CASE Load
    <3>1. /\ completed' \subseteq cursor' /\ step' = 1 /\ key'.kind = "run" /\ pc' = "head"
          /\ carried' \subseteq relayedDone' /\ inbox' = "none"
      BY <2>1 DEF Load, RunKey, step, SequenceInv, Truthful, InboxWaits
    <3>2. Placed'
      BY <3>1, FirstIsFirst DEF Placed, AfterCommand, Busy
    <3>. QED
      BY <2>1, <3>1, <3>2 DEF Load, SequenceInv, Truthful, InboxWaits
  <2>2. CASE HeadStops
    BY <2>2 DEF HeadStops, SequenceInv, Truthful, InboxWaits, Placed, AfterCommand, Busy, Ended
  <2>3. CASE HeadSkips
    <3>1. step \in cursor /\ (\A j \in 1 .. step - 1 : j \in cursor) /\ completed \subseteq cursor
      BY <2>3 DEF HeadSkips, SequenceInv, Placed, Busy, Phases, Ended
    <3>2. Placed'
      BY <2>3, <3>1, NextStepKeeps DEF HeadSkips
    <3>. QED
      BY <2>3, <3>2 DEF HeadSkips, SequenceInv, Truthful, InboxWaits
  <2>4. CASE HeadHasArtifact
    <3>1. step \in relayedDone /\ step \in carried /\ step' = step
      BY <2>4 DEF HeadHasArtifact, SequenceInv, Truthful, step
    <3>. QED
      BY <2>4, <3>1 DEF HeadHasArtifact, SequenceInv, Truthful, InboxWaits, Placed, AfterCommand, Busy, Phases, Ended
  <2>5. CASE HeadGate
    <3>1. step \in Gates \ Produces /\ step' = step
      BY <2>5, SequenceAssumption DEF HeadGate, step
    <3>. QED
      BY <2>5, <3>1 DEF HeadGate, SequenceInv, Truthful, InboxWaits, Placed, AfterCommand, Busy, Phases, Ended
  <2>6. CASE HeadDispatches
    <3>1. key'.kind = "run" /\ step' = step
      BY <2>6 DEF HeadDispatches, SequenceInv, Placed, step
    <3>. QED
      BY <2>6, <3>1 DEF HeadDispatches, SequenceInv, Truthful, InboxWaits, Placed, AfterCommand, Busy, Phases, Ended
  <2>7. CASE Check
    <3>1. CASE snapshot[key] = "none"
      BY <2>7, <3>1 DEF Check, SequenceInv, Truthful, InboxWaits, Placed, AfterCommand, Busy, Phases, Ended, step
    <3>2. CASE snapshot[key] # "none"
      <4>0. snapshot[key] = "done" /\ key.kind = "run" => step \in relayedDone
        BY DEF SequenceInv, Truthful, TypeOK, step
      <4>1. Placed' /\ carried' \subseteq relayedDone' /\ pc' # "wait"
        BY <2>7, <3>2, <4>0, ResolveKeeps DEF Check
      <4>. QED
        BY <2>7, <4>1 DEF Check, SequenceInv, Truthful, InboxWaits
    <3>. QED
      BY <3>1, <3>2
  <2>8. CASE Lease
    <3>1. CASE connected
      BY <2>8, <3>1 DEF Lease, SequenceInv, Truthful, InboxWaits, Placed, AfterCommand, Busy, Phases, Ended, step
    <3>2. CASE ~connected
      <4>1. Placed' /\ carried' \subseteq relayedDone' /\ pc' # "wait"
        BY <2>8, <3>2, FailsKeeps DEF Lease
      <4>. QED
        BY <2>8, <4>1 DEF Lease, SequenceInv, Truthful, InboxWaits
    <3>. QED
      BY <3>1, <3>2
  <2>9. CASE Send
    <3>1. \A j \in 1 .. key.step - 1 : j \in cursor
      BY <2>9 DEF Send, SequenceInv, Placed, Busy, Phases, Ended, step
    <3>. QED
      BY <2>9, <3>1 DEF Send, SequenceInv, Truthful, InboxWaits, Placed, AfterCommand, Busy, Phases, Ended, step
  <2>10. CASE WaitFrame
    <3> DEFINE outcome == IF inbox # "none" THEN inbox ELSE snapshot[key]
    <3>1. outcome = "done" /\ key.kind = "run" => step \in relayedDone
      BY DEF SequenceInv, Truthful, InboxWaits, TypeOK, step
    <3>2. Placed' /\ carried' \subseteq relayedDone' /\ pc' # "wait"
      BY <2>10, <3>1, ResolveKeeps DEF WaitFrame
    <3>. QED
      BY <2>10, <3>2 DEF WaitFrame, SequenceInv, Truthful, InboxWaits
  <2>11. CASE WaitUnreachable
    <3>1. Placed' /\ carried' \subseteq relayedDone' /\ pc' # "wait"
      BY <2>11, FailsKeeps DEF WaitUnreachable
    <3>. QED
      BY <2>11, <3>1 DEF WaitUnreachable, SequenceInv, Truthful, InboxWaits
  <2>12. CASE WaitTimeout
    <3>1. Placed' /\ carried' \subseteq relayedDone' /\ pc' # "wait"
      BY <2>12, FailsKeeps DEF WaitTimeout
    <3>. QED
      BY <2>12, <3>1 DEF WaitTimeout, DeadlinePasses, SequenceInv, Truthful, InboxWaits
  <2>13. CASE Reconnect
    <3>1. step' = step
      BY <2>13 DEF Reconnect, VerifyKey, step
    <3>. QED
      BY <2>13, <3>1 DEF Reconnect, VerifyKey, SequenceInv, Truthful, InboxWaits, Placed, AfterCommand, Busy, Phases, Ended
  <2>14. CASE ReconnectTimeout
    BY <2>14 DEF ReconnectTimeout, SequenceInv, Truthful, InboxWaits, Placed, AfterCommand, Busy, Ended
  <2>15. CASE Persist
    <3>1. /\ \A j \in 1 .. step - 1 : j \in cursor
          /\ completed \subseteq cursor /\ step \in relayedDone \cup Gates
          /\ step \in Produces => step \in carried
      BY <2>15 DEF Persist, SequenceInv, Placed, AfterCommand, Busy, Phases, Ended
    <3>2. Placed'
      BY <2>15, <3>1, NextStepKeeps DEF Persist
    <3>3. cursor' \cap Produces \subseteq artifacts' /\ cursor' \subseteq relayedDone' \cup Gates
      BY <2>15, <3>1 DEF Persist, PersistsArtifacts, SequenceInv, Truthful
    <3>4. pc' # "wait"
      BY <2>15 DEF Persist, NextStep
    <3>. QED
      BY <2>15, <3>2, <3>3, <3>4 DEF Persist, PersistsArtifacts, SequenceInv, Truthful, InboxWaits
  <2>16. CASE Crash
    BY <2>16 DEF Crash, Redelivered, SequenceInv, Truthful, InboxWaits, Placed, AfterCommand, Busy
  <2>17. CASE RequestStop
    BY <2>17, OthersKeep DEF RequestStop, SequenceInv, Truthful
  <2>18. CASE Reboot
    BY <2>18, OthersKeep DEF Reboot, SequenceInv, Truthful
  <2>19. CASE Drop
    BY <2>19, OthersKeep DEF Drop, SequenceInv, Truthful
  <2>20. CASE Connect
    BY <2>20, OthersKeep DEF Connect, SequenceInv, Truthful
  <2>21. ASSUME NEW k \in Keys, Forward(k) PROVE SequenceInv'
    BY <2>21, OthersKeep DEF Forward, SequenceInv, Truthful
  <2>22. ASSUME NEW k \in Keys, LoseDispatch(k) PROVE SequenceInv'
    BY <2>22, OthersKeep DEF LoseDispatch, SequenceInv, Truthful
  <2>23. ASSUME NEW k \in Keys, ExpireSnapshot(k) PROVE SequenceInv'
    BY <2>23, OthersKeep DEF ExpireSnapshot, SequenceInv, Truthful, TypeOK
  <2>24. ASSUME NEW k \in Keys, ExecuteReboot(k) PROVE SequenceInv'
    BY <2>24, OthersKeep DEF ExecuteReboot, SequenceInv, Truthful
  <2>25. ASSUME NEW k \in Keys, NEW outcome \in {"done", "error"}, Relay(k, outcome) PROVE SequenceInv'
    <3>1. relayedDone \subseteq relayedDone' /\ step' = step
      BY <2>25 DEF Relay, step
    <3>2. \A q \in Keys : q.kind = "run" /\ snapshot'[q] = "done" => q.step \in relayedDone'
      BY <2>25, <3>1 DEF Relay, SequenceInv, Truthful, TypeOK
    <3>3. InboxWaits'
      BY <2>25, <3>1 DEF Relay, SequenceInv, InboxWaits, step
    <3>4. Placed'
      BY <2>25, <3>1 DEF Relay, SequenceInv, Placed, AfterCommand
    <3>. QED
      BY <2>25, <3>1, <3>2, <3>3, <3>4 DEF Relay, SequenceInv, Truthful
  <2>26. ASSUME NEW k \in Keys, NEW outcome \in {"done", "error"}, Execute(k, outcome) PROVE SequenceInv'
    BY <2>26, OthersKeep DEF Execute, SequenceInv, Truthful
  <2>27. CASE UNCHANGED vars
    BY <2>27, OthersKeep DEF SequenceInv, Truthful
  <2>. QED
    BY <2>1, <2>2, <2>3, <2>4, <2>5, <2>6, <2>7, <2>8, <2>9, <2>10, <2>11, <2>12, <2>13, <2>14, <2>15, <2>16, <2>17, <2>18, <2>19, <2>20, <2>21, <2>22, <2>23, <2>24, <2>25, <2>26, <2>27 DEF Next, WorkerStep, Environment
<1>. QED
  BY <1>1, <1>2, TypeCorrect, PTL DEF Spec

\* A step's command is only under way once every earlier step succeeded and is recorded with
\* its artifact, whatever fails, crashes, is lost or is delivered again (SequenceEngine.run,
\* _persist_step), for every sequence of steps and all bounds on the faults.
THEOREM RunsInOrder == Spec => []StepsInOrder
<1>1. TypeOK /\ SequenceInv => StepsInOrder
  BY DEF TypeOK, Keys, SequenceInv, Truthful, StepsInOrder
<1>. QED
  BY <1>1, TypeCorrect, SequenceInvariant, PTL

-----------------------------------------------------------------------------
\* NotDispatchedAgain: as long as no snapshot expired, a step whose success was relayed has
\* its snapshot, or its artifact came from another operation; a step is dispatched with a
\* retry that it has; and one whose success preceded the delivery does not get past the
\* snapshot.
Kept ==
    /\ ranBefore \subseteq relayedDone
    /\ expiries = 0 => \A j \in relayedDone :
          Retries[j] = 0 => snapshot[RunKey(j, 0)] # "none" \/ j \in artifacts \cap Skippable
Allowed(k) == k.kind = "run" => k.attempt <= Retries[k.step]
Attempted ==
    /\ Allowed(key)
    /\ \A k \in channel \cup executing : Allowed(k)
    /\ \A f \in outbound : Allowed(f[1])
Fresh ==
    /\ pc \in Busy => artifacts \subseteq carried
    /\ pc = "head" => key.kind = "run"
    /\ pc \in {"check", "lease", "send", "wait"} /\ key.kind = "run" =>
          step \notin Skippable \cap carried
    /\ expiries = 0 /\ pc \in {"lease", "send"} /\ key.kind = "run" /\ Retries[step] = 0 =>
          step \notin ranBefore
AgainInv == Kept /\ Attempted /\ Fresh

\* The only key that a step without retries may have is its first.
LEMMA AttemptIsFirst ==
    ASSUME NEW k \in Keys, Allowed(k), k.kind = "run", Retries[k.step] = 0
    PROVE  k = RunKey(k.step, 0)
<1>1. k.attempt \in Nat
  BY SequenceAssumption DEF Keys, Attempts
<1>. QED
  BY <1>1 DEF Allowed, Keys, RunKey

\* A first attempt is allowed for every step,
LEMMA RunFirst == \A i \in Steps : Allowed(RunKey(i, 0))
  BY SequenceAssumption DEF Allowed, RunKey

\* and so for the first one.
LEMMA FirstAllowed == Allowed(RunKey(1, 0)) /\ RunKey(1, 0).kind = "run"
<1>1. 1 \in Steps
  BY SequenceAssumption DEF Steps
<1>. QED
  BY <1>1, RunFirst DEF RunKey

\* The engine is at the head of the next step, and not within a command.
LEMMA NextIsFirst ==
    ASSUME TypeOK, Attempted, NextStep
    PROVE  /\ Allowed(key') /\ pc' \in {"succeeded", "head"}
           /\ pc' = "head" => key'.kind = "run"
<1>1. CASE step = N
  BY <1>1 DEF NextStep, Attempted
<1>2. CASE step # N
  <2>1. step + 1 \in Steps
    BY <1>2, StepTypes, SequenceAssumption DEF Steps
  <2>. QED
    BY <1>2, <2>1, RunFirst DEF NextStep, RunKey
<1>. QED
  BY <1>1, <1>2

\* A failed attempt dispatches nothing that was relayed before.
LEMMA FailsFresh ==
    ASSUME TypeOK, Fresh, Attempted, pc \in {"check", "lease", "send", "wait"}, Fails,
           UNCHANGED <<artifacts, channel, executing, outbound>>
    PROVE  Fresh' /\ Attempted'
<1>1. /\ carried' = carried /\ pc' \in {"check", "failed"} /\ step' = step
      /\ key'.kind = key.kind
  BY DEF Fails, TypeOK, Keys, step
<1>2. Allowed(key')
  <2>1. CASE MayRetry(key)
    <3>1. key' = [key EXCEPT !.attempt = @ + 1]
      BY <2>1 DEF Fails
    <3>2. key.kind = "run" => key.attempt < Retries[key.step]
      BY <2>1 DEF MayRetry
    <3>3. key.attempt \in Nat /\ Retries[key.step] \in Nat
      BY SequenceAssumption DEF TypeOK, Keys, Attempts
    <3>. QED
      BY <3>1, <3>2, <3>3 DEF Allowed, TypeOK, Keys
  <2>2. CASE ~MayRetry(key)
    BY <2>2 DEF Fails, Attempted
  <2>. QED
    BY <2>1, <2>2
<1>. QED
  BY <1>1, <1>2 DEF Fresh, Attempted, Busy, Phases, Ended

\* Neither does what follows an answer.
LEMMA ResolvesFresh ==
    ASSUME TypeOK, Fresh, Attempted, pc \in {"check", "wait"}, NEW outcome, Resolve(outcome),
           UNCHANGED <<artifacts, channel, executing, outbound>>
    PROVE  Fresh' /\ Attempted'
<1>1. CASE Fails
  BY <1>1, FailsFresh
<1>2. CASE LacksResult
  BY <1>2 DEF LacksResult, Fresh, Attempted, Busy, Ended
<1>3. CASE Succeeds
  <2>1. /\ Allowed(key') /\ carried \subseteq carried'
        /\ pc' \in {"reconnect", "check", "persist"}
        /\ pc' = "check" => key'.kind = "verify"
    BY <1>3 DEF Succeeds, AfterRun, VerifyKey, Attempted, Allowed
  <2>. QED
    BY <2>1, <1>3 DEF Fresh, Attempted, Busy, Phases, Ended
<1>. QED
  BY <1>1, <1>2, <1>3 DEF Resolve

\* What is known of the attempts and of the steps that succeeded earlier stays true.
LEMMA AgainInvariant == Spec => []AgainInv
<1>1. Init => AgainInv
  BY FirstAllowed DEF Init, AgainInv, Kept, Attempted, Fresh, Busy
<1>2. TypeOK /\ TypeOK' /\ AgainInv /\ [Next]_vars => AgainInv'
  <2>. SUFFICES ASSUME TypeOK, TypeOK', AgainInv, [Next]_vars PROVE AgainInv'
    OBVIOUS
  <2>. USE DEF vars, worker, document, outside, agent, link, history, counts, AtStep
  <2>1. CASE Load
    BY <2>1, FirstAllowed DEF Load, AgainInv, Kept, Attempted, Fresh
  <2>2. CASE HeadStops
    BY <2>2 DEF HeadStops, AgainInv, Kept, Attempted, Fresh, Busy, Ended
  <2>3. CASE HeadSkips
    BY <2>3, NextIsFirst DEF HeadSkips, AgainInv, Kept, Attempted, Fresh, Busy, Phases, Ended
  <2>4. CASE HeadHasArtifact
    BY <2>4 DEF HeadHasArtifact, AgainInv, Kept, Attempted, Fresh, Busy, Phases, Ended
  <2>5. CASE HeadGate
    BY <2>5 DEF HeadGate, AgainInv, Kept, Attempted, Fresh, Busy, Phases, Ended
  <2>6. CASE HeadDispatches
    BY <2>6 DEF HeadDispatches, AgainInv, Kept, Attempted, Fresh, Busy, Phases, Ended, step
  <2>7. CASE Check
    <3>1. CASE snapshot[key] = "none"
      <4>1. key.kind = "run" /\ Retries[step] = 0 => key = RunKey(step, 0)
        BY AttemptIsFirst DEF AgainInv, Attempted, TypeOK, step
      <4>2. expiries = 0 /\ key.kind = "run" /\ Retries[step] = 0 => step \notin ranBefore
        BY <2>7, <3>1, <4>1, StepTypes DEF Check, AgainInv, Kept, Fresh, Busy, Phases, Ended
      <4>. QED
        BY <2>7, <3>1, <4>2 DEF Check, AgainInv, Kept, Attempted, Fresh, Busy, Phases, Ended, step
    <3>2. CASE snapshot[key] # "none"
      <4>1. PICK outcome : Resolve(outcome)
        BY <2>7, <3>2 DEF Check
      <4>. QED
        BY <2>7, <3>2, <4>1, ResolvesFresh DEF Check, AgainInv, Kept
    <3>. QED
      BY <3>1, <3>2
  <2>8. CASE Lease
    <3>1. CASE connected
      BY <2>8, <3>1 DEF Lease, AgainInv, Kept, Attempted, Fresh, Busy, Phases, Ended, step
    <3>2. CASE ~connected
      BY <2>8, <3>2, FailsFresh DEF Lease, AgainInv, Kept
    <3>. QED
      BY <3>1, <3>2
  <2>9. CASE Send
    BY <2>9 DEF Send, AgainInv, Kept, Attempted, Fresh, Busy, Phases, Ended, step
  <2>10. CASE WaitFrame
    <3>1. PICK outcome : Resolve(outcome)
      BY <2>10 DEF WaitFrame
    <3>. QED
      BY <2>10, <3>1, ResolvesFresh DEF WaitFrame, AgainInv, Kept
  <2>11. CASE WaitUnreachable
    BY <2>11, FailsFresh DEF WaitUnreachable, DeadlinePasses, AgainInv, Kept
  <2>12. CASE WaitTimeout
    BY <2>12, FailsFresh DEF WaitTimeout, DeadlinePasses, AgainInv, Kept
  <2>13. CASE Reconnect
    BY <2>13 DEF Reconnect, VerifyKey, AgainInv, Kept, Attempted, Allowed, Fresh, Busy, Phases, Ended
  <2>14. CASE ReconnectTimeout
    BY <2>14 DEF ReconnectTimeout, AgainInv, Kept, Attempted, Fresh, Busy, Ended
  <2>15. CASE Persist
    BY <2>15, NextIsFirst DEF Persist, PersistsArtifacts, AgainInv, Kept, Attempted, Fresh, Busy, Phases, Ended
  <2>16. CASE Crash
    BY <2>16, FirstAllowed DEF Crash, Redelivered, AgainInv, Kept, Attempted, Fresh, Busy
  <2>17. CASE RequestStop
    BY <2>17 DEF RequestStop, AgainInv, Kept, Attempted, Fresh, step
  <2>18. CASE Reboot
    BY <2>18 DEF Reboot, AgainInv, Kept, Attempted, Fresh, step
  <2>19. CASE Drop
    BY <2>19 DEF Drop, AgainInv, Kept, Attempted, Fresh, step
  <2>20. CASE Connect
    BY <2>20 DEF Connect, AgainInv, Kept, Attempted, Fresh, step
  <2>21. ASSUME NEW k \in Keys, Forward(k) PROVE AgainInv'
    BY <2>21 DEF Forward, AgainInv, Kept, Attempted, Fresh, step
  <2>22. ASSUME NEW k \in Keys, LoseDispatch(k) PROVE AgainInv'
    BY <2>22 DEF LoseDispatch, AgainInv, Kept, Attempted, Fresh, step
  <2>23. ASSUME NEW k \in Keys, ExecuteReboot(k) PROVE AgainInv'
    BY <2>23 DEF ExecuteReboot, AgainInv, Kept, Attempted, Fresh, step
  <2>24. ASSUME NEW k \in Keys, ExpireSnapshot(k) PROVE AgainInv'
    <3>1. expiries' # 0
      BY <2>24 DEF ExpireSnapshot, TypeOK
    <3>. QED
      BY <2>24, <3>1 DEF ExpireSnapshot, AgainInv, Kept, Attempted, Fresh, step
  <2>25. ASSUME NEW k \in Keys, NEW outcome \in {"done", "error"}, Relay(k, outcome) PROVE AgainInv'
    <3>1. Allowed(k)
      BY <2>25 DEF Relay, AgainInv, Attempted
    <3>2. ASSUME expiries = 0, NEW j \in relayedDone', Retries[j] = 0
          PROVE  snapshot'[RunKey(j, 0)] # "none" \/ j \in artifacts \cap Skippable
      <4>1. CASE j \in relayedDone
        BY <2>25, <3>2, <4>1 DEF Relay, AgainInv, Kept, TypeOK
      <4>2. CASE j \notin relayedDone
        <5>1. outcome = "done" /\ k.kind = "run" /\ k.step = j
          BY <2>25, <4>2 DEF Relay
        <5>. QED
          BY <2>25, <3>1, <3>2, <5>1, AttemptIsFirst DEF Relay, TypeOK
      <4>. QED
        BY <4>1, <4>2
    <3>3. Kept'
      BY <2>25, <3>2 DEF Relay, AgainInv, Kept
    <3>. QED
      BY <2>25, <3>3 DEF Relay, AgainInv, Attempted, Fresh, step
  <2>26. ASSUME NEW k \in Keys, NEW outcome \in {"done", "error"}, Execute(k, outcome) PROVE AgainInv'
    BY <2>26 DEF Execute, AgainInv, Kept, Attempted, Fresh, step
  <2>27. CASE UNCHANGED vars
    BY <2>27 DEF AgainInv, Kept, Attempted, Fresh, step
  <2>. QED
    BY <2>1, <2>2, <2>3, <2>4, <2>5, <2>6, <2>7, <2>8, <2>9, <2>10, <2>11, <2>12, <2>13, <2>14, <2>15, <2>16, <2>17, <2>18, <2>19, <2>20, <2>21, <2>22, <2>23, <2>24, <2>25, <2>26, <2>27 DEF Next, WorkerStep, Environment
<1>. QED
  BY <1>1, <1>2, TypeCorrect, PTL DEF Spec

\* A step without retries whose success was relayed before this delivery is not dispatched
\* again while its snapshot lives (dispatch_and_wait: "Redelivery-safe").
THEOREM NeverDispatchedAgain == Spec => NotDispatchedAgain
<1>1. TypeOK /\ AgainInv /\ [Next]_vars
        => (expiries = 0 => \A j \in ranBefore :
               Retries[j] = 0 /\ RunKey(j, 0) \in channel' => RunKey(j, 0) \in channel)
  <2>. SUFFICES ASSUME TypeOK, AgainInv, [Next]_vars, expiries = 0, NEW j \in ranBefore,
                       Retries[j] = 0, RunKey(j, 0) \in channel', RunKey(j, 0) \notin channel
                PROVE  FALSE
    OBVIOUS
  <2>1. Send
    BY DEF Next, WorkerStep, Environment, vars, worker, document, outside, agent, link, history,
           counts, Load, HeadStops, HeadSkips, HeadHasArtifact, HeadGate, HeadDispatches, Check,
           Lease, WaitFrame, WaitUnreachable, WaitTimeout, Reconnect, ReconnectTimeout, Persist,
           Crash, RequestStop, Reboot, Drop, Connect, Forward, LoseDispatch, ExpireSnapshot,
           ExecuteReboot, Relay, Execute
  <2>2. pc = "send" /\ key = RunKey(j, 0)
    BY <2>1 DEF Send
  <2>3. key.kind = "run" /\ step = j
    BY <2>2 DEF RunKey, step
  <2>. QED
    BY <2>2, <2>3 DEF AgainInv, Fresh
<1>. QED
  BY <1>1, TypeCorrect, AgainInvariant, PTL DEF Spec, NotDispatchedAgain

-----------------------------------------------------------------------------
\* RebootConfirmed: in the first delivery and without a dropped connection, the connection
\* only breaks because a reboot step took the guest down, so the connect that ends the wait
\* is the one after it.

\* No step that reboots the guest has retries, an artifact to skip it, or an aggregate
\* (definitions.py: its three system.reboot steps).
PlainReboots == \A j \in Reboots : Retries[j] = 0 /\ j \notin Skippable \cup Gates

Calm == drops = 0 /\ crashes = 0
Underway == Busy \cup {"queued"}
Told(j) == rebooted[j] # 0
Confirmed(j) == Told(j) /\ connects > rebooted[j]
Dispatched(j) == RunKey(j, 0) \in channel \cup executing
Answered(j) ==
    \/ \E outcome \in {"done", "error"} : <<RunKey(j, 0), outcome>> \in outbound
    \/ snapshot[RunKey(j, 0)] # "none"
    \/ inbox # "none" /\ key = RunKey(j, 0)
AtReboot == key.kind = "run" /\ step \in Reboots
Ahead(j) ==
    j > step \/ (j = step /\ key.kind = "run" /\ pc \in {"queued", "head", "check", "lease", "send"})
GoingDown == AtReboot /\ pc \in {"wait", "reconnect"} /\ Told(step)

\* A guest is told once, and answers only when told.
ToldOnce ==
    \A j \in Reboots :
        /\ Told(j) => ~Dispatched(j)
        /\ Answered(j) => Told(j)
        /\ RunKey(j, 0) \notin channel \cap executing
\* The engine goes through its list once, and has not reached the steps ahead.
GoesThrough ==
    pc \in Underway =>
        /\ pc = "queued" => key = RunKey(1, 0)
        /\ \A i \in cursor \cup completed : i < step
        /\ \A j \in Reboots : Ahead(j) => ~Told(j) /\ ~Dispatched(j)
\* The connection only breaks while the engine waits for it to.
LinkHolds ==
    /\ connects # 0
    /\ pc \in Underway /\ ~GoingDown => connected /\ ~rebootDue
    /\ GoingDown => rebooted[step] = since /\ (rebootDue => connects = since)
    /\ AtReboot /\ pc \in {"check", "lease", "send", "wait"} /\ ~Told(step) => since = connects
Waited ==
    /\ pc = "reconnect" => AtReboot /\ Told(step)
    /\ step \in Reboots /\ (pc = "persist" \/ (pc \in Busy /\ key.kind = "verify")) => Confirmed(step)
    /\ \A j \in cursor \cap Reboots : Confirmed(j)
RebootInv == ToldOnce /\ GoesThrough /\ LinkHolds /\ Waited

\* Steps are numbers.
LEMMA StepsAreNumbers == Steps \subseteq Nat
  BY SequenceAssumption DEF Steps

\* The command of a reboot step has one key.
LEMMA RebootKey ==
    ASSUME PlainReboots, NEW k \in Keys, Allowed(k), k.kind = "run", k.step \in Reboots
    PROVE  k = RunKey(k.step, 0)
  BY AttemptIsFirst DEF PlainReboots

\* Steps of the worker that dispatch nothing and take no new key with a frame at hand.
LEMMA ToldAsBefore ==
    ASSUME ToldOnce, UNCHANGED <<rebooted, channel, executing, outbound, snapshot>>,
           inbox' = "none" \/ UNCHANGED <<inbox, key>>
    PROVE  ToldOnce'
  BY DEF ToldOnce, Told, Dispatched, Answered

\* The engine goes to the next step with the connection up, having recorded the current one.
LEMMA MovesOn ==
    ASSUME TypeOK, TypeOK', NextStep, connects # 0, connected, ~rebootDue,
           UNCHANGED <<rebooted, channel, executing, connected, connects, rebootDue>>,
           \A i \in cursor' \cup completed' : i <= step,
           \A j \in Reboots : j > step => ~Told(j) /\ ~Dispatched(j),
           \A j \in cursor' \cap Reboots : Confirmed(j)
    PROVE  GoesThrough' /\ LinkHolds' /\ Waited'
<1>1. CASE step = N
  BY <1>1 DEF NextStep, GoesThrough, LinkHolds, Waited, Underway, Busy, Phases, Ended, GoingDown, AtReboot,
     Confirmed, Told
<1>2. CASE step # N
  <2>1. pc' = "head" /\ step' = step + 1 /\ key'.kind = "run"
    BY <1>2 DEF NextStep, RunKey, step
  <2>2. step \in Nat /\ Reboots \subseteq Nat /\ cursor' \subseteq Nat /\ completed' \subseteq Nat
    <3>1. cursor' \subseteq Steps /\ completed' \subseteq Steps /\ Reboots \subseteq Steps
      BY SequenceAssumption DEF TypeOK
    <3>. QED
      BY <3>1, StepTypes, StepsAreNumbers
  <2>3. GoesThrough'
    <3>1. \A i \in cursor' \cup completed' : i < step'
      BY <2>1, <2>2
    <3>2. \A j \in Reboots : Ahead(j)' => j > step
      BY <2>1, <2>2 DEF Ahead
    <3>3. \A j \in Reboots : Told(j)' = Told(j) /\ Dispatched(j)' = Dispatched(j)
      BY DEF Told, Dispatched
    <3>. QED
      BY <2>1, <3>1, <3>2, <3>3 DEF GoesThrough
  <2>4. LinkHolds'
    BY <2>1 DEF LinkHolds, GoingDown, AtReboot
  <2>5. Waited'
    <3>1. \A j \in cursor' \cap Reboots : Confirmed(j)'
      BY DEF Confirmed, Told
    <3>. QED
      BY <2>1, <3>1 DEF Waited
  <2>. QED
    BY <2>3, <2>4, <2>5
<1>. QED
  BY <1>1, <1>2

\* A failed attempt of a reboot step ends the sequence; another one is made again.
LEMMA FailsWaiting ==
    ASSUME PlainReboots, TypeOK, TypeOK', Attempted, RebootInv,
           pc \in {"check", "lease", "send", "wait"}, Fails,
           UNCHANGED <<since, completed, document, rebooted, channel, executing, link, rebootDue>>
    PROVE  GoesThrough' /\ LinkHolds' /\ Waited'
<1>1. step' = step /\ key'.kind = key.kind /\ pc' \in {"check", "failed"}
  BY DEF Fails, TypeOK, Keys, step
<1>2. AtReboot => pc' = "failed"
  <2>. SUFFICES ASSUME AtReboot PROVE ~MayRetry(key)
    BY DEF Fails
  <2>1. Retries[key.step] = 0 /\ key.attempt \in Nat
    BY SequenceAssumption DEF PlainReboots, AtReboot, step, TypeOK, Keys, Attempts
  <2>. QED
    BY <2>1 DEF AtReboot, MayRetry
<1>3. \A j \in Reboots : /\ Told(j)' = Told(j) /\ Dispatched(j)' = Dispatched(j)
                         /\ Confirmed(j)' = Confirmed(j)
  BY DEF Told, Dispatched, Confirmed, link
<1>4. AtReboot' = AtReboot
  BY <1>1 DEF AtReboot
<1>5. CASE pc' = "failed"
  BY <1>3, <1>5 DEF GoesThrough, LinkHolds, Waited, RebootInv, Underway, Busy, Phases, Ended, GoingDown,
     document, link
<1>6. CASE pc' = "check"
  <2>1. ~AtReboot /\ pc \in Underway /\ pc' \in Busy /\ pc \in Busy
    BY <1>1, <1>2, <1>6 DEF Underway, Busy, Phases, Ended
  <2>2. GoesThrough'
    BY <1>1, <1>3, <1>6, <2>1 DEF RebootInv, GoesThrough, Ahead, AtReboot, document
  <2>3. LinkHolds'
    BY <1>4, <2>1 DEF RebootInv, LinkHolds, GoingDown, link
  <2>4. Waited'
    BY <1>1, <1>3, <1>6, <2>1 DEF RebootInv, Waited, document
  <2>. QED
    BY <2>2, <2>3, <2>4
<1>. QED
  BY <1>1, <1>5, <1>6

\* What follows an answer: a reboot that was answered was told, and is waited for.
LEMMA ResolvesWaiting ==
    ASSUME PlainReboots, TypeOK, TypeOK', Attempted, RebootInv, pc \in {"check", "wait"},
           NEW outcome \in {"done", "error"}, Resolve(outcome),
           AtReboot => pc = "wait" /\ Told(step),
           UNCHANGED <<since, completed, document, rebooted, channel, executing, link, rebootDue>>
    PROVE  GoesThrough' /\ LinkHolds' /\ Waited'
<1>1. CASE Fails
  BY <1>1, FailsWaiting
<1>2. CASE LacksResult
  BY <1>2 DEF LacksResult, GoesThrough, LinkHolds, Waited, RebootInv, Underway, Busy, Phases, Ended, GoingDown,
     Confirmed, Told, document, link
<1>3. CASE Succeeds
  <2>0. \A j \in Reboots : /\ Told(j)' = Told(j) /\ Dispatched(j)' = Dispatched(j)
                           /\ Confirmed(j)' = Confirmed(j)
    BY DEF Told, Dispatched, Confirmed, link
  <2>1. pc \in Busy /\ pc \in Underway /\ key.kind \in {"run", "verify"}
    BY DEF Underway, Busy, Phases, Ended, TypeOK, Keys
  <2>2. CASE AtReboot
    <3>1. pc' = "reconnect" /\ UNCHANGED key /\ step' = step /\ pc = "wait" /\ Told(step)
      BY <1>3, <2>2 DEF Succeeds, AfterRun, AtReboot, step
    <3>2. GoesThrough'
      BY <2>0, <2>1, <3>1 DEF RebootInv, GoesThrough, Ahead, document
    <3>3. GoingDown /\ GoingDown' /\ AtReboot'
      BY <2>2, <3>1 DEF GoingDown, AtReboot, Told
    <3>4. LinkHolds'
      BY <3>1, <3>3 DEF RebootInv, LinkHolds, GoingDown, link
    <3>5. Waited'
      BY <2>0, <2>1, <2>2, <3>1, <3>3 DEF RebootInv, Waited, AtReboot, document
    <3>. QED
      BY <3>2, <3>4, <3>5
  <2>3. CASE ~AtReboot
    <3>1. /\ step' = step /\ pc' \in {"check", "persist"} /\ ~GoingDown
          /\ key.kind = "run" => step \notin Reboots
          /\ key.kind = "verify" => pc' = "persist" /\ key' = key
          /\ pc' = "check" => key'.kind = "verify"
          /\ key'.kind = "run" => key.kind = "run"
      BY <1>3, <2>1, <2>3 DEF Succeeds, AfterRun, VerifyKey, AtReboot, GoingDown, step
    <3>2. pc' \in Busy /\ ~GoingDown' /\ ~AtReboot'
      BY <3>1 DEF Busy, Phases, Ended, GoingDown, AtReboot
    <3>3. GoesThrough'
      BY <2>0, <2>1, <3>1 DEF RebootInv, GoesThrough, Ahead, document
    <3>4. LinkHolds'
      BY <2>1, <3>1, <3>2 DEF RebootInv, LinkHolds, link
    <3>5. Waited'
      BY <2>0, <2>1, <3>1 DEF RebootInv, Waited, document
    <3>. QED
      BY <3>3, <3>4, <3>5
  <2>. QED
    BY <2>2, <2>3
<1>. QED
  BY <1>1, <1>2, <1>3 DEF Resolve

\* Steps of the others that dispatch nothing new and leave the engine and the link alone.
LEMMA LinkAsBefore ==
    ASSUME RebootInv,
           UNCHANGED <<pc, key, since, completed, cursor, rebooted, connected, connects, rebootDue>>,
           \A j \in Reboots : Dispatched(j)' => Dispatched(j)
    PROVE  GoesThrough' /\ LinkHolds' /\ Waited'
<1>1. step' = step /\ AtReboot' = AtReboot
  BY DEF step, AtReboot
<1>2. \A j \in Reboots : Told(j)' = Told(j) /\ Confirmed(j)' = Confirmed(j) /\ Ahead(j)' = Ahead(j)
  BY <1>1 DEF Told, Confirmed, Ahead
<1>3. GoingDown' = GoingDown
  BY <1>1 DEF GoingDown, Told
<1>4. GoesThrough'
  BY <1>1, <1>2 DEF RebootInv, GoesThrough
<1>5. LinkHolds'
  BY <1>1, <1>3 DEF RebootInv, LinkHolds, Told
<1>6. Waited'
  BY <1>1, <1>2 DEF RebootInv, Waited, Told, Confirmed
<1>. QED
  BY <1>4, <1>5, <1>6

\* A reboot step whose command is still on its way is the one the engine waits for.
LEMMA DispatchedIsAwaited ==
    ASSUME PlainReboots, TypeOK, SequenceInv, RebootInv, NEW j \in Reboots, Dispatched(j),
           pc \in Underway
    PROVE  j = step /\ key.kind = "run" /\ pc = "wait" /\ ~Told(j)
<1>1. ~Told(j) /\ ~Ahead(j)
  BY DEF RebootInv, ToldOnce, GoesThrough
<1>2. j \in Nat /\ step \in Nat /\ j >= 1
  BY StepTypes, SequenceAssumption DEF Steps
<1>3. ~(j > step)
  BY <1>1 DEF Ahead
<1>4. ~(j < step)
  <2>. SUFFICES ASSUME j < step PROVE FALSE
    OBVIOUS
  <2>1. pc # "queued"
    BY <1>2 DEF RebootInv, GoesThrough, RunKey, step
  <2>2. j \in 1 .. step - 1
    BY <1>2
  <2>3. j \in cursor
    BY <2>1, <2>2 DEF SequenceInv, Placed, Underway
  <2>. QED
    BY <1>1, <2>3 DEF RebootInv, Waited, Confirmed
<1>5. j = step
  BY <1>2, <1>3, <1>4
<1>6. pc \in Busy \cup {"queued"} /\ key.kind \in {"run", "verify"}
  BY DEF Underway, TypeOK, Keys
<1>7. pc # "queued"
  BY <1>1, <1>5 DEF Ahead, RebootInv, GoesThrough, RunKey
<1>8. pc # "persist" /\ key.kind = "run"
  BY <1>1, <1>5, <1>6, <1>7 DEF RebootInv, Waited, Confirmed
<1>9. pc # "reconnect"
  BY <1>1, <1>5 DEF RebootInv, Waited
<1>. QED
  BY <1>1, <1>5, <1>6, <1>7, <1>8, <1>9 DEF Ahead, Busy, Phases, Ended

\* The agent takes the guest down for the engine that waits for it.
LEMMA RebootsWaiting ==
    ASSUME PlainReboots, TypeOK, TypeOK', SequenceInv, Attempted, RebootInv,
           NEW k \in Keys, ExecuteReboot(k)
    PROVE  RebootInv'
<1>0. /\ k \in executing /\ k.kind = "run" /\ k.step \in Reboots /\ k.step \in Steps
      /\ executing' = executing \ {k} /\ outbound' = outbound \cup {<<k, "done">>}
      /\ rebooted' = [rebooted EXCEPT ![k.step] = connects]
      /\ UNCHANGED <<pc, key, since, completed, inbox, cursor, snapshot, channel, connected, connects>>
  BY SequenceAssumption DEF ExecuteReboot, worker, document, link
<1>1. k = RunKey(k.step, 0)
  BY <1>0, RebootKey DEF Attempted
<1>2. Dispatched(k.step) /\ ~Told(k.step) /\ connects # 0
  BY <1>0, <1>1 DEF RebootInv, ToldOnce, Dispatched, LinkHolds
<1>3. Told(k.step)' /\ \A j \in Reboots : j # k.step => rebooted'[j] = rebooted[j]
  BY <1>0, <1>2, SequenceAssumption DEF Told, TypeOK
<1>4. \A j \in Reboots : j # k.step =>
         /\ Told(j)' = Told(j) /\ Confirmed(j)' = Confirmed(j)
         /\ RunKey(j, 0) # k /\ Dispatched(j)' = Dispatched(j)
  BY <1>0, <1>3 DEF Told, Confirmed, Dispatched, RunKey
<1>5. step' = step /\ AtReboot' = AtReboot
  BY <1>0 DEF step, AtReboot
<1>6. ToldOnce'
  <2>1. ~Dispatched(k.step)' /\ RunKey(k.step, 0) \notin channel' \cap executing'
    BY <1>0, <1>1 DEF RebootInv, ToldOnce, Dispatched
  <2>2. \A j \in Reboots : j # k.step => (Answered(j)' => Answered(j))
    BY <1>0, <1>4 DEF Answered
  <2>. QED
    BY <1>0, <1>3, <1>4, <2>1, <2>2 DEF RebootInv, ToldOnce
<1>7. pc \in Underway => k.step = step /\ AtReboot /\ pc = "wait" /\ ~GoingDown
  BY <1>0, <1>2, DispatchedIsAwaited DEF AtReboot, GoingDown
<1>8. GoesThrough'
  <2>1. \A j \in Reboots : pc \in Underway /\ Ahead(j)' => Ahead(j) /\ j # k.step
    BY <1>0, <1>2, <1>5 DEF Ahead, RebootInv, GoesThrough
  <2>. QED
    BY <1>0, <1>4, <1>5, <2>1 DEF RebootInv, GoesThrough
<1>9. LinkHolds'
  <2>1. pc \in Underway => since = connects /\ rebooted'[step] = connects /\ GoingDown'
    BY <1>0, <1>2, <1>3, <1>5, <1>7 DEF RebootInv, LinkHolds, GoingDown, TypeOK
  <2>2. pc \notin Underway => ~GoingDown' /\ pc \notin {"check", "lease", "send", "wait"}
    BY <1>0 DEF GoingDown, Underway, Busy, Phases, Ended
  <2>. QED
    BY <1>0, <1>2, <1>5, <2>1, <2>2 DEF LinkHolds, GoingDown
<1>10. Waited'
  <2>1. pc # "reconnect" /\ pc # "persist" /\ (pc \in Busy => key.kind = "run")
    BY <1>7 DEF AtReboot, Underway, Busy, Phases, Ended
  <2>2. \A j \in cursor \cap Reboots : j # k.step
    BY <1>2 DEF RebootInv, Waited, Confirmed
  <2>. QED
    BY <1>0, <1>4, <2>1, <2>2 DEF RebootInv, Waited
<1>. QED
  BY <1>6, <1>8, <1>9, <1>10 DEF RebootInv

\* The first delivery starts with the connection up and nothing told.
LEMMA InitReboot == Init => RebootInv
<1>. SUFFICES ASSUME Init PROVE RebootInv
  OBVIOUS
<1>1. \A j \in Reboots : /\ ~Told(j) /\ ~Dispatched(j) /\ ~Answered(j)
                         /\ RunKey(j, 0) \notin channel \cap executing
  <2>1. \A j \in Reboots : RunKey(j, 0) \in Keys /\ rebooted[j] = 0
    BY KeyTypes, SequenceAssumption DEF Init
  <2>. QED
    BY <2>1 DEF Init, Told, Dispatched, Answered
<1>2. ToldOnce /\ GoesThrough
  BY <1>1 DEF Init, ToldOnce, GoesThrough
<1>3. LinkHolds /\ Waited
  BY <1>1 DEF Init, LinkHolds, Waited, GoingDown, Busy
<1>. QED
  BY <1>2, <1>3 DEF RebootInv

\* A step of the worker keeps it,
LEMMA WorkerReboots ==
    ASSUME PlainReboots, TypeOK, TypeOK', SequenceInv, Attempted, RebootInv, WorkerStep
    PROVE  RebootInv'
<1>. USE DEF worker, document, outside, agent, link, history, counts, AtStep
<1>0. ToldOnce /\ GoesThrough /\ LinkHolds /\ Waited
  BY DEF RebootInv
<1>a. UNCHANGED <<rebooted, connects>> => \A j \in Reboots : Told(j)' = Told(j) /\ Confirmed(j)' = Confirmed(j)
  BY DEF Told, Confirmed
<1>b. UNCHANGED <<channel, executing>> => \A j \in Reboots : Dispatched(j)' = Dispatched(j)
  BY DEF Dispatched
<1>c. inbox # "none" => pc = "wait"
  BY DEF SequenceInv, InboxWaits
<1>1. CASE Load
  <2>1. /\ key' = RunKey(1, 0) /\ key = RunKey(1, 0) /\ step = 1 /\ step' = 1
        /\ pc = "queued" /\ pc' = "head" /\ completed' = cursor
    BY <1>0, <1>1 DEF Load, GoesThrough, Underway, RunKey, step
  <2>2. ToldOnce'
    BY <1>0, <1>1, <1>c, ToldAsBefore DEF Load
  <2>3. GoesThrough'
    BY <1>0, <1>1, <1>a, <1>b, <2>1 DEF Load, GoesThrough, Underway, Ahead, RunKey
  <2>4. LinkHolds'
    BY <1>0, <1>1, <2>1 DEF Load, LinkHolds, Underway, GoingDown
  <2>5. Waited'
    BY <1>0, <1>1, <1>a, <2>1 DEF Load, Waited, RunKey
  <2>. QED
    BY <2>2, <2>3, <2>4, <2>5 DEF RebootInv
<1>2. CASE HeadStops
  <2>1. ToldOnce'
    BY <1>0, <1>2, ToldAsBefore DEF HeadStops
  <2>. QED
    BY <1>0, <1>2, <1>a, <2>1 DEF HeadStops, RebootInv, GoesThrough, LinkHolds, Waited, Underway, Busy, Ended,
       GoingDown
<1>3. ~HeadSkips
  BY <1>0, StepTypes DEF HeadSkips, GoesThrough, Underway, Busy, Phases, Ended
<1>4. CASE HeadHasArtifact \/ HeadGate
  <2>1. /\ pc = "head" /\ pc' \in {"persist", "failed"} /\ step \notin Reboots /\ step' = step
        /\ UNCHANGED <<key, since, completed, inbox, cursor, rebooted, channel, executing, outbound,
                       snapshot, connected, connects, rebootDue>>
    BY <1>4 DEF HeadHasArtifact, HeadGate, PlainReboots, step
  <2>2. ToldOnce'
    BY <1>0, <2>1, ToldAsBefore
  <2>3. GoesThrough'
    BY <1>0, <1>a, <1>b, <2>1 DEF GoesThrough, Ahead, Underway, Busy, Phases, Ended
  <2>4. LinkHolds'
    BY <1>0, <2>1 DEF LinkHolds, Underway, Busy, Phases, Ended, GoingDown, AtReboot
  <2>5. Waited'
    BY <1>0, <1>a, <2>1 DEF Waited
  <2>. QED
    BY <2>2, <2>3, <2>4, <2>5 DEF RebootInv
<1>5. CASE HeadDispatches
  <2>1. /\ pc = "head" /\ pc' \in {"check", "failed"} /\ step' = step /\ key.kind = "run"
        /\ since' = connects
        /\ UNCHANGED <<key, completed, inbox, cursor, rebooted, channel, executing, outbound,
                       snapshot, connected, connects, rebootDue>>
    BY <1>5 DEF HeadDispatches, SequenceInv, Placed, step
  <2>2. ToldOnce'
    BY <1>0, <2>1, ToldAsBefore
  <2>3. GoesThrough'
    BY <1>0, <1>a, <1>b, <2>1 DEF GoesThrough, Ahead, Underway, Busy, Phases, Ended
  <2>4. LinkHolds'
    BY <1>0, <2>1 DEF LinkHolds, Underway, Busy, Phases, Ended, GoingDown, AtReboot
  <2>5. Waited'
    BY <1>0, <1>a, <2>1 DEF Waited
  <2>. QED
    BY <2>2, <2>3, <2>4, <2>5 DEF RebootInv
<1>6. ASSUME pc \in {"check", "lease", "send"}, AtReboot
      PROVE  /\ key = RunKey(step, 0) /\ ~Told(step) /\ ~Dispatched(step) /\ ~Answered(step)
  <2>1. key = RunKey(step, 0)
    BY <1>6, RebootKey DEF Attempted, TypeOK, AtReboot, step
  <2>2. ~Told(step) /\ ~Dispatched(step)
    BY <1>0, <1>6 DEF GoesThrough, Ahead, AtReboot, Underway, Busy, Phases, Ended
  <2>. QED
    BY <1>0, <1>6, <2>1, <2>2 DEF ToldOnce, AtReboot
<1>7. CASE Check
  <2>1. ToldOnce'
    BY <1>0, <1>7, <1>c, ToldAsBefore DEF Check
  <2>2. CASE snapshot[key] = "none"
    <3>1. /\ pc = "check" /\ pc' = "lease" /\ step' = step /\ AtReboot' = AtReboot
          /\ UNCHANGED <<key, since, completed, cursor, rebooted, channel, executing,
                         connected, connects, rebootDue>>
      BY <1>7, <2>2 DEF Check, step, AtReboot
    <3>2. GoesThrough'
      BY <1>0, <1>a, <1>b, <3>1 DEF GoesThrough, Ahead, Underway, Busy, Phases, Ended
    <3>3. LinkHolds'
      BY <1>0, <3>1 DEF LinkHolds, Underway, Busy, Phases, Ended, GoingDown, Told
    <3>4. Waited'
      BY <1>0, <1>a, <3>1 DEF Waited, Busy, Phases, Ended
    <3>. QED
      BY <2>1, <3>2, <3>3, <3>4 DEF RebootInv
  <2>3. CASE snapshot[key] # "none"
    <3>1. ~AtReboot
      BY <1>6, <1>7, <2>3 DEF Check, Answered
    <3>2. snapshot[key] \in {"done", "error"} /\ Resolve(snapshot[key])
      BY <1>7, <2>3 DEF Check, TypeOK
    <3>3. GoesThrough' /\ LinkHolds' /\ Waited'
      BY <1>7, <3>1, <3>2, ResolvesWaiting DEF Check
    <3>. QED
      BY <2>1, <3>3 DEF RebootInv
  <2>. QED
    BY <2>2, <2>3
<1>8. CASE Lease
  <2>1. connected
    BY <1>0, <1>8 DEF Lease, LinkHolds, Underway, Busy, Phases, Ended, GoingDown
  <2>2. /\ pc = "lease" /\ pc' = "send" /\ step' = step /\ AtReboot' = AtReboot
        /\ UNCHANGED <<key, since, completed, inbox, cursor, rebooted, channel, executing, outbound,
                       snapshot, connected, connects, rebootDue>>
    BY <1>8, <2>1 DEF Lease, step, AtReboot
  <2>3. ToldOnce'
    BY <1>0, <2>2, ToldAsBefore
  <2>4. GoesThrough'
    BY <1>0, <1>a, <1>b, <2>2 DEF GoesThrough, Ahead, Underway, Busy, Phases, Ended
  <2>5. LinkHolds'
    BY <1>0, <2>2 DEF LinkHolds, Underway, Busy, Phases, Ended, GoingDown, Told
  <2>6. Waited'
    BY <1>0, <1>a, <2>2 DEF Waited, Busy, Phases, Ended
  <2>. QED
    BY <2>3, <2>4, <2>5, <2>6 DEF RebootInv
<1>9. CASE Send
  <2>1. /\ pc = "send" /\ pc' = "wait" /\ step' = step /\ AtReboot' = AtReboot
        /\ channel' = channel \cup {key} /\ inbox' = "none"
        /\ UNCHANGED <<key, since, completed, cursor, rebooted, executing, outbound, snapshot,
                       connected, connects, rebootDue>>
    BY <1>9 DEF Send, step, AtReboot
  <2>2. \A j \in Reboots : RunKey(j, 0) = key => AtReboot /\ j = step
    BY DEF RunKey, AtReboot, step
  <2>3. \A j \in Reboots : RunKey(j, 0) # key =>
           (Dispatched(j)' = Dispatched(j) /\ RunKey(j, 0) \notin channel' \cap executing')
    BY <1>0, <2>1 DEF Dispatched, ToldOnce
  <2>4. \A j \in Reboots : Answered(j)' => Answered(j)
    BY <2>1 DEF Answered
  <2>5. ToldOnce'
    BY <1>0, <1>6, <1>a, <2>1, <2>2, <2>3, <2>4 DEF ToldOnce, Dispatched
  <2>6. GoesThrough'
    <3>1. \A j \in Reboots : Ahead(j)' => Ahead(j) /\ RunKey(j, 0) # key
      BY <2>1, <2>2, StepTypes DEF Ahead
    <3>. QED
      BY <1>0, <1>a, <2>1, <2>3, <3>1 DEF GoesThrough, Underway, Busy, Phases, Ended
  <2>7. LinkHolds'
    BY <1>0, <1>6, <1>a, <2>1 DEF LinkHolds, Underway, Busy, Phases, Ended, GoingDown, AtReboot
  <2>8. Waited'
    BY <1>0, <1>a, <2>1 DEF Waited, Busy, Phases, Ended
  <2>. QED
    BY <2>5, <2>6, <2>7, <2>8 DEF RebootInv
<1>10. CASE WaitFrame
  <2> DEFINE outcome == IF inbox # "none" THEN inbox ELSE snapshot[key]
  <2>1. pc = "wait" /\ outcome \in {"done", "error"} /\ Resolve(outcome) /\ inbox' = "none"
    BY <1>10 DEF WaitFrame, TypeOK
  <2>2. AtReboot => Told(step)
    <3>. SUFFICES ASSUME AtReboot PROVE Told(step)
      OBVIOUS
    <3>1. key = RunKey(step, 0)
      BY RebootKey DEF Attempted, TypeOK, AtReboot, step
    <3>2. Answered(step)
      BY <2>1, <3>1 DEF Answered
    <3>. QED
      BY <1>0, <3>2 DEF ToldOnce, AtReboot
  <2>3. ToldOnce'
    BY <1>0, <1>10, <2>1, ToldAsBefore DEF WaitFrame
  <2>4. GoesThrough' /\ LinkHolds' /\ Waited'
    BY <1>10, <2>1, <2>2, ResolvesWaiting DEF WaitFrame
  <2>. QED
    BY <2>3, <2>4 DEF RebootInv
<1>11. ~WaitUnreachable
  BY <1>0 DEF WaitUnreachable, LinkHolds, GoingDown, AtReboot, Underway, Busy, Phases, Ended
<1>12. CASE WaitTimeout
  <2>1. inbox = "none" /\ inbox' = "none"
    BY <1>12 DEF WaitTimeout, DeadlinePasses
  <2>2. ToldOnce'
    BY <1>0, <1>12, <2>1, ToldAsBefore DEF WaitTimeout
  <2>3. GoesThrough' /\ LinkHolds' /\ Waited'
    BY <1>12, FailsWaiting DEF WaitTimeout
  <2>. QED
    BY <2>2, <2>3 DEF RebootInv
<1>13. CASE Reconnect
  <2>1. /\ pc = "reconnect" /\ AtReboot /\ Told(step) /\ connected /\ connects > since
        /\ inbox = "none" /\ inbox' = "none"
        /\ pc' \in {"check", "persist"} /\ step' = step /\ (pc' = "check" => key'.kind = "verify")
        /\ (key'.kind = "run" => pc' = "persist")
        /\ UNCHANGED <<since, completed, cursor, rebooted, channel, executing, outbound, snapshot,
                       connected, connects, rebootDue>>
    BY <1>0, <1>13, <1>c DEF Reconnect, Reconnected, Waited, VerifyKey, step, AtReboot
  <2>2. Confirmed(step) /\ ~rebootDue
    <3>1. rebooted[step] = since /\ (rebootDue => connects = since)
      BY <1>0, <2>1 DEF LinkHolds, GoingDown
    <3>. QED
      BY <2>1, <3>1 DEF Confirmed, TypeOK
  <2>3. ToldOnce'
    BY <1>0, <2>1, ToldAsBefore
  <2>4. GoesThrough'
    BY <1>0, <1>a, <1>b, <2>1 DEF GoesThrough, Ahead, Underway, Busy, Phases, Ended
  <2>5. LinkHolds'
    BY <1>0, <2>1, <2>2 DEF LinkHolds, GoingDown, AtReboot
  <2>6. Waited'
    BY <1>0, <1>a, <2>1, <2>2 DEF Waited, AtReboot
  <2>. QED
    BY <2>3, <2>4, <2>5, <2>6 DEF RebootInv
<1>14. CASE ReconnectTimeout
  <2>1. ToldOnce'
    BY <1>0, <1>14, ToldAsBefore DEF ReconnectTimeout
  <2>. QED
    BY <1>0, <1>14, <1>a, <2>1 DEF ReconnectTimeout, RebootInv, GoesThrough, LinkHolds, Waited, Underway, Busy,
       Ended, GoingDown
<1>15. CASE Persist
  <2>1. /\ pc = "persist" /\ cursor' = cursor \cup {step} /\ completed' = completed \cup {step}
        /\ NextStep /\ inbox = "none" /\ inbox' = "none"
        /\ UNCHANGED <<since, rebooted, channel, executing, outbound, snapshot,
                       connected, connects, rebootDue>>
    BY <1>15, <1>c DEF Persist
  <2>2. connected /\ ~rebootDue /\ connects # 0 /\ pc \in Underway
    BY <1>0, <2>1 DEF LinkHolds, GoingDown, Underway, Busy, Phases, Ended
  <2>3. \A i \in cursor' \cup completed' : i <= step
    <3>1. \A i \in cursor \cup completed : i < step
      BY <1>0, <2>2 DEF GoesThrough
    <3>2. cursor \subseteq Nat /\ completed \subseteq Nat /\ step \in Nat
      BY StepTypes, StepsAreNumbers DEF TypeOK
    <3>. QED
      BY <2>1, <3>1, <3>2
  <2>4. \A j \in Reboots : j > step => ~Told(j) /\ ~Dispatched(j)
    BY <1>0, <2>2 DEF GoesThrough, Ahead
  <2>5. \A j \in cursor' \cap Reboots : Confirmed(j)
    BY <1>0, <2>1 DEF Waited
  <2>6. ToldOnce'
    BY <1>0, <2>1, ToldAsBefore
  <2>7. GoesThrough' /\ LinkHolds' /\ Waited'
    BY <2>1, <2>2, <2>3, <2>4, <2>5, MovesOn
  <2>. QED
    BY <2>6, <2>7 DEF RebootInv
<1>. QED
  BY <1>1, <1>2, <1>3, <1>4, <1>5, <1>7, <1>8, <1>9, <1>10, <1>11, <1>12, <1>13, <1>14, <1>15
     DEF WorkerStep

\* and so does a step of the agent, the bridge or the link, as long as the worker lives and
\* the connection does not drop.
LEMMA EnvironmentReboots ==
    ASSUME PlainReboots, TypeOK, TypeOK', SequenceInv, Attempted, RebootInv,
           Environment, Calm, Calm'
    PROVE  RebootInv'
<1>. USE DEF worker, document, outside, agent, link, history, counts
<1>0. ToldOnce /\ GoesThrough /\ LinkHolds /\ Waited
  BY DEF RebootInv
<1>1. ~Crash /\ ~Drop
  BY DEF Crash, Drop, Calm, TypeOK
<1>2. CASE RequestStop
  <2>1. ToldOnce'
    BY <1>0, <1>2, ToldAsBefore DEF RequestStop
  <2>. QED
    BY <1>2, <2>1, LinkAsBefore DEF RequestStop, RebootInv, Dispatched
<1>3. CASE Reboot
  <2>1. /\ rebootDue /\ ~rebootDue' /\ executing' = {} /\ outbound' = {} /\ step' = step
        /\ AtReboot' = AtReboot
        /\ UNCHANGED <<pc, key, since, completed, inbox, cursor, rebooted, channel, snapshot, connects>>
    BY <1>3 DEF Reboot, step, AtReboot
  <2>2. \A j \in Reboots : /\ Told(j)' = Told(j) /\ Confirmed(j)' = Confirmed(j) /\ Ahead(j)' = Ahead(j)
                           /\ (Dispatched(j)' => Dispatched(j)) /\ (Answered(j)' => Answered(j))
    BY <2>1 DEF Told, Confirmed, Ahead, Dispatched, Answered
  <2>3. ToldOnce'
    BY <1>0, <2>1, <2>2 DEF ToldOnce
  <2>4. GoesThrough'
    BY <1>0, <2>1, <2>2 DEF GoesThrough
  <2>5. LinkHolds'
    <3>1. GoingDown' = GoingDown /\ Told(step)' = Told(step)
      BY <2>1 DEF GoingDown, Told
    <3>2. pc \in Underway => GoingDown
      BY <1>0, <2>1 DEF LinkHolds
    <3>. QED
      BY <1>0, <2>1, <3>1, <3>2 DEF LinkHolds
  <2>6. Waited'
    BY <1>0, <2>1, <2>2 DEF Waited, Told, Confirmed
  <2>. QED
    BY <2>3, <2>4, <2>5, <2>6 DEF RebootInv
<1>4. CASE Connect
  <2>1. /\ ~connected /\ ~rebootDue /\ connects' = connects + 1 /\ step' = step
        /\ AtReboot' = AtReboot
        /\ UNCHANGED <<pc, key, since, completed, inbox, cursor, rebooted, channel, snapshot, rebootDue,
                       executing, outbound>>
    BY <1>4 DEF Connect, step, AtReboot
  <2>2. \A j \in Steps : /\ Told(j)' = Told(j) /\ (Confirmed(j) => Confirmed(j)')
                         /\ Ahead(j)' = Ahead(j) /\ Dispatched(j)' = Dispatched(j)
    BY <2>1 DEF Told, Confirmed, Ahead, Dispatched, TypeOK
  <2>3. ToldOnce'
    BY <1>0, <2>1, ToldAsBefore
  <2>4. GoesThrough'
    BY <1>0, <2>1, <2>2, SequenceAssumption DEF GoesThrough
  <2>5. LinkHolds'
    <3>1. GoingDown' = GoingDown /\ Told(step)' = Told(step)
      BY <2>1 DEF GoingDown, Told
    <3>2. pc \in Underway => GoingDown
      BY <1>0, <2>1 DEF LinkHolds
    <3>3. connects' # 0
      BY <2>1 DEF TypeOK
    <3>4. pc \in {"check", "lease", "send", "wait"} => pc \in Underway
      BY DEF Underway, Busy, Phases, Ended
    <3>. QED
      BY <1>0, <2>1, <3>1, <3>2, <3>3, <3>4 DEF LinkHolds, GoingDown
  <2>6. Waited'
    BY <1>0, <2>1, <2>2, SequenceAssumption, StepTypes DEF Waited
  <2>. QED
    BY <2>3, <2>4, <2>5, <2>6 DEF RebootInv
<1>5. ASSUME NEW k \in Keys, Forward(k) \/ LoseDispatch(k)
      PROVE  RebootInv'
  <2>1. /\ k \in channel /\ channel' = channel \ {k}
        /\ executing' = executing \/ executing' = executing \cup {k}
        /\ UNCHANGED <<pc, key, since, completed, inbox, cursor, rebooted, outbound, snapshot,
                       connected, connects, rebootDue>>
    BY <1>5 DEF Forward, LoseDispatch
  <2>2. \A j \in Reboots : /\ Dispatched(j)' => Dispatched(j)
                           /\ Answered(j)' = Answered(j) /\ Told(j)' = Told(j)
    BY <2>1 DEF Dispatched, Answered, Told
  <2>3. ToldOnce'
    BY <1>0, <2>1, <2>2 DEF ToldOnce
  <2>. QED
    BY <2>1, <2>2, <2>3, LinkAsBefore DEF RebootInv
<1>6. ASSUME NEW k \in Keys, ExpireSnapshot(k)
      PROVE  RebootInv'
  <2>1. /\ snapshot' = [snapshot EXCEPT ![k] = "none"]
        /\ UNCHANGED <<pc, key, since, completed, inbox, cursor, rebooted, channel, executing, outbound,
                       connected, connects, rebootDue>>
    BY <1>6 DEF ExpireSnapshot
  <2>2. \A j \in Reboots : /\ Dispatched(j)' = Dispatched(j)
                           /\ (Answered(j)' => Answered(j)) /\ Told(j)' = Told(j)
    <3>1. \A j \in Reboots : RunKey(j, 0) \in Keys
      BY KeyTypes, SequenceAssumption
    <3>. QED
      BY <2>1, <3>1 DEF Dispatched, Answered, Told, TypeOK
  <2>3. ToldOnce'
    BY <1>0, <2>1, <2>2 DEF ToldOnce
  <2>. QED
    BY <2>1, <2>2, <2>3, LinkAsBefore DEF RebootInv
<1>7. ASSUME NEW k \in Keys, ExecuteReboot(k)
      PROVE  RebootInv'
  BY <1>7, RebootsWaiting
<1>8. ASSUME NEW k \in Keys, NEW outcome \in {"done", "error"}, Relay(k, outcome)
      PROVE  RebootInv'
  <2>1. /\ <<k, outcome>> \in outbound /\ outbound' \subseteq outbound
        /\ snapshot' = [snapshot EXCEPT ![k] = outcome]
        /\ inbox' = IF pc = "wait" /\ key = k THEN outcome ELSE inbox
        /\ UNCHANGED <<pc, key, since, completed, cursor, rebooted, channel, executing,
                       connected, connects, rebootDue>>
    BY <1>8 DEF Relay
  <2>2. \A j \in Reboots : /\ Dispatched(j)' = Dispatched(j)
                           /\ (Answered(j)' => Answered(j)) /\ Told(j)' = Told(j)
    <3>1. \A j \in Reboots : RunKey(j, 0) \in Keys
      BY KeyTypes, SequenceAssumption
    <3>. QED
      BY <2>1, <3>1 DEF Dispatched, Answered, Told, TypeOK
  <2>3. ToldOnce'
    BY <1>0, <2>1, <2>2 DEF ToldOnce
  <2>. QED
    BY <2>1, <2>2, <2>3, LinkAsBefore DEF RebootInv
<1>9. ASSUME NEW k \in Keys, NEW outcome \in {"done", "error"}, Execute(k, outcome)
      PROVE  RebootInv'
  <2>1. /\ ~(k.kind = "run" /\ k.step \in Reboots)
        /\ executing' = executing \ {k} /\ outbound' = outbound \cup {<<k, outcome>>}
        /\ UNCHANGED <<pc, key, since, completed, inbox, cursor, rebooted, channel, snapshot,
                       connected, connects, rebootDue>>
    BY <1>9 DEF Execute
  <2>2. \A j \in Reboots : /\ (Dispatched(j)' => Dispatched(j))
                           /\ (Answered(j)' => Answered(j)) /\ Told(j)' = Told(j)
    <3>1. \A j \in Reboots : RunKey(j, 0) # k
      BY <2>1 DEF RunKey
    <3>. QED
      BY <2>1, <3>1 DEF Dispatched, Answered, Told
  <2>3. ToldOnce'
    BY <1>0, <2>1, <2>2 DEF ToldOnce
  <2>. QED
    BY <2>1, <2>2, <2>3, LinkAsBefore DEF RebootInv
<1>. QED
  BY <1>1, <1>2, <1>3, <1>4, <1>5, <1>6, <1>7, <1>8, <1>9 DEF Environment

\* A worker that was never killed and a connection that never dropped stay so backwards.
LEMMA CalmBefore == TypeOK /\ Calm' /\ [Next]_vars => Calm
<1>. SUFFICES ASSUME TypeOK, Calm', [Next]_vars PROVE Calm
  OBVIOUS
<1>1. UNCHANGED <<crashes, drops>> \/ Crash \/ Drop
  BY ZenonT(60) DEF Next, WorkerStep, Environment, vars, worker, document, outside, agent, link, history,
         counts, Load, HeadStops, HeadSkips, HeadHasArtifact, HeadGate, HeadDispatches, Check,
         Lease, Send, WaitFrame, WaitUnreachable, WaitTimeout, Reconnect, ReconnectTimeout, Persist,
         RequestStop, Reboot, Connect, Forward, LoseDispatch, ExpireSnapshot,
         ExecuteReboot, Relay, Execute
<1>. QED
  BY <1>1 DEF Crash, Drop, Calm, TypeOK

\* In the first delivery, and while the connection does not drop on its own, a reboot step is
\* recorded only after its guest was told to reboot and the agent connected again since
\* (wait_for_reconnect: "a post-reboot agent connection"): for every sequence whose reboot
\* steps are plain ones, whatever requests, frames, stops or snapshots are lost or late.
THEOREM RebootsAreConfirmed ==
    ASSUME PlainReboots
    PROVE  Spec => []RebootConfirmed
<1>1. Init => (Calm => RebootInv)
  BY InitReboot
<1>2. TypeOK /\ TypeOK' /\ SequenceInv /\ AgainInv /\ (Calm => RebootInv) /\ [Next]_vars
        => (Calm => RebootInv)'
  <2>. SUFFICES ASSUME TypeOK, TypeOK', SequenceInv, AgainInv, RebootInv, [Next]_vars, Calm, Calm'
                PROVE  RebootInv'
    BY CalmBefore
  <2>1. CASE Next
    BY <2>1, WorkerReboots, EnvironmentReboots DEF Next, AgainInv
  <2>2. CASE UNCHANGED vars
    <3>1. UNCHANGED <<pc, key, since, completed, inbox, cursor, rebooted, channel, executing, outbound,
                      snapshot, connected, connects, rebootDue>>
      BY <2>2 DEF vars, worker, document, agent, link, history
    <3>2. ToldOnce'
      BY <3>1, ToldAsBefore DEF RebootInv
    <3>3. \A j \in Reboots : Dispatched(j)' => Dispatched(j)
      BY <3>1 DEF Dispatched
    <3>. QED
      BY <3>1, <3>2, <3>3, LinkAsBefore DEF RebootInv
  <2>. QED
    BY <2>1, <2>2
<1>3. (Calm => RebootInv) => RebootConfirmed
  BY DEF Calm, RebootInv, Waited, Confirmed, Told, RebootConfirmed
<1>. QED
  BY <1>1, <1>2, <1>3, TypeCorrect, SequenceInvariant, AgainInvariant, PTL DEF Spec

-----------------------------------------------------------------------------
\* The connections that the dispatches go over (AgentConnection), for every number of
\* connections of one identity, of deletions and of failing calls.  The run checks two
\* connections: only a third one can meet a handler that still awaits the close of the
\* connection it took over.

\* A connection that its handler serves, or is about to, is the one in the map, or its
\* end is on the way: it was popped by a deletion or a takeover, or it is closed.
Accounted(c) ==
    \/ registered = c
    \/ c \in popped
    \/ \E d \in Conns : at[d] = "closing" /\ previous[d] = c
    \/ socket[c] = "closed"
ConnInv ==
    ~overtaken => \A c \in Conns : at[c] \in {"setKey", "setTime", "serving"} => Accounted(c)

\* A signal keeps the type of the workspace.
LEMMA NotifyTypes == tab \in Tabs /\ Notify => tab' \in Tabs
  BY DEF Notify, Tabs

\* A snapshot that is sent is one of the frames of the socket.
LEMMA SendTypes == tab \in Tabs /\ SendSnapshot => tab' \in Tabs
<1>. SUFFICES ASSUME tab \in Tabs, SendSnapshot PROVE tab' \in Tabs
  OBVIOUS
<1>1. Append(tab.frames, tab.seen) \in Seq(Presence)
  BY DEF Tabs
<1>2. PICK f \in Seq(Presence) :
        tab' = [tab EXCEPT !.watch = "waiting", !.last = tab.seen, !.signal = Pending(@),
                           !.frames = f]
  BY <1>1 DEF SendSnapshot, Tabs
<1>. QED
  BY <1>2 DEF Tabs, Pending

\* What is shown was a frame of the socket.
LEMMA ShowTypes == tab \in Tabs /\ ShowSnapshot => tab' \in Tabs
<1>. SUFFICES ASSUME tab \in Tabs, ShowSnapshot PROVE tab' \in Tabs
  OBVIOUS
<1>1. Head(tab.frames) \in Presence /\ Tail(tab.frames) \in Seq(Presence)
  BY DEF ShowSnapshot, Tabs
<1>. QED
  BY <1>1 DEF ShowSnapshot, Tabs

\* Type correctness of AgentConnection: every step of the handlers, the agent, the deletion
\* and the presence stream keeps the types (orchestrator.py connect, agents.py).
THEOREM ConnTypeCorrect == ConnSpec => []ConnTypeOK
<1>1. ConnInit => ConnTypeOK
  <2>. SUFFICES ASSUME ConnInit PROVE ConnTypeOK
    OBVIOUS
  <2>1. tab \in Tabs
    BY DEF ConnInit, NoSocket, Presence, Tabs
  <2>2. lease \in BOOLEAN /\ overdue \in BOOLEAN /\ overtaken \in BOOLEAN
    BY DEF ConnInit
  <2>. QED
    BY <2>1, <2>2 DEF ConnInit, ConnTypeOK, HandlerSteps
<1>2. ConnTypeOK /\ [ConnNext]_connVars => ConnTypeOK'
  <2>. SUFFICES ASSUME ConnTypeOK, [ConnNext]_connVars PROVE ConnTypeOK'
    OBVIOUS
  <2>. USE DEF ConnTypeOK, connVars, connections, aside, HandlerSteps
  <2>1. CASE Expire
    BY <2>1 DEF Expire
  <2>2. CASE DeleteVm
    BY <2>2, NotifyTypes DEF DeleteVm
  <2>3. CASE Mount
    BY <2>3 DEF Mount, Presence, Tabs
  <2>4. CASE OpenWatch
    BY <2>4 DEF OpenWatch, ReadMap, Presence, Tabs
  <2>5. CASE SendSnapshot
    BY <2>5, SendTypes DEF SendSnapshot
  <2>6. CASE Woken
    BY <2>6 DEF Woken, ReadMap, Presence, Tabs
  <2>7. CASE ShowSnapshot
    BY <2>7, ShowTypes DEF ShowSnapshot
  <2>8. CASE Recheck
    BY <2>8 DEF Recheck, ReadMap, Presence, Tabs
  <2>9. CASE WatchDrops
    BY <2>9 DEF WatchDrops, NoSocket, Presence, Tabs
  <2>10. CASE Unmount
    BY <2>10 DEF Unmount, NoSocket, Presence, Tabs
  <2>11. ASSUME NEW c \in Conns, Dial(c) PROVE ConnTypeOK'
    BY <2>11 DEF Dial, Goto
  <2>12. ASSUME NEW c \in Conns, DropSocket(c) PROVE ConnTypeOK'
    BY <2>12 DEF DropSocket, CloseSocket
  <2>13. ASSUME NEW c \in Conns, MarkFails(c) PROVE ConnTypeOK'
    BY <2>13 DEF MarkFails, CloseSocket, Goto
  <2>14. ASSUME NEW c \in Conns, Refresh(c) PROVE ConnTypeOK'
    BY <2>14 DEF Refresh
  <2>15. ASSUME NEW c \in Conns, RefreshFails(c) PROVE ConnTypeOK'
    BY <2>15 DEF RefreshFails, RefreshSurvives
  <2>16. ASSUME NEW c \in Conns, Reject(c) PROVE ConnTypeOK'
    BY <2>16 DEF Reject, CloseSocket, Goto
  <2>17. ASSUME NEW c \in Conns, Accept(c) PROVE ConnTypeOK'
    <3>1. tab' \in Tabs
      BY <2>17, NotifyTypes DEF Accept, TakeOver, Register
    <3>2. CASE registered = NoConn
      BY <2>17, <3>1, <3>2 DEF Accept, TakeOver, Register, Goto
    <3>3. CASE registered # NoConn
      BY <2>17, <3>1, <3>3 DEF Accept, TakeOver, Goto
    <3>. QED
      BY <3>2, <3>3
  <2>18. ASSUME NEW c \in Conns, ClosePrevious(c) PROVE ConnTypeOK'
    BY <2>18, NotifyTypes DEF ClosePrevious, Register, CloseSocket, Goto
  <2>19. ASSUME NEW c \in Conns, SetKey(c) PROVE ConnTypeOK'
    BY <2>19 DEF SetKey, Goto
  <2>20. ASSUME NEW c \in Conns, SetTime(c) PROVE ConnTypeOK'
    BY <2>20 DEF SetTime, Goto
  <2>21. ASSUME NEW c \in Conns, Disconnected(c) PROVE ConnTypeOK'
    BY <2>21 DEF Disconnected, Goto, StopsKeepalive
  <2>22. ASSUME NEW c \in Conns, Leave(c) PROVE ConnTypeOK'
    BY <2>22, NotifyTypes DEF Leave, Goto, StillRegistered
  <2>23. ASSUME NEW c \in Conns, ClearLease(c) PROVE ConnTypeOK'
    BY <2>23 DEF ClearLease, Goto
  <2>24. ASSUME NEW c \in Conns, ClosePopped(c) PROVE ConnTypeOK'
    BY <2>24 DEF ClosePopped, CloseSocket
  <2>25. CASE UNCHANGED connVars
    BY <2>25
  <2>. QED
    BY <2>1, <2>2, <2>3, <2>4, <2>5, <2>6, <2>7, <2>8, <2>9, <2>10, <2>11, <2>12, <2>13,
       <2>14, <2>15, <2>16, <2>17, <2>18, <2>19, <2>20, <2>21, <2>22, <2>23, <2>24, <2>25
    DEF ConnNext, WatchStep, HandlerStep
<1>. QED
  BY <1>1, <1>2, PTL DEF ConnSpec

\* Once the handlers are at rest a dispatch reaches the open served connection, however many
\* connections the agent made and however they were taken over, dropped and deleted, as
\* long as no handler registered over another connection (agents.resolve_agent).
THEOREM DispatchReaches == ConnSpec => []ServedIsResolved
<1>1. ConnInit => ConnInv
  BY DEF ConnInit, ConnInv
<1>2. ConnTypeOK /\ ConnTypeOK' /\ ConnInv /\ [ConnNext]_connVars => ConnInv'
  <2>. SUFFICES ASSUME ConnTypeOK, ConnTypeOK', ConnInv, [ConnNext]_connVars, ~overtaken',
                       NEW c \in Conns, at'[c] \in {"setKey", "setTime", "serving"}
                PROVE  Accounted(c)'
    BY DEF ConnInv
  <2>. USE DEF ConnTypeOK, connVars, connections, aside
  <2>1. CASE Expire
    BY <2>1 DEF Expire, ConnInv, Accounted
  <2>2. CASE DeleteVm
    BY <2>2 DEF DeleteVm, ConnInv, Accounted
  <2>3. CASE Mount
    BY <2>3 DEF Mount, ConnInv, Accounted
  <2>4. CASE OpenWatch
    BY <2>4 DEF OpenWatch, ConnInv, Accounted
  <2>5. CASE SendSnapshot
    BY <2>5 DEF SendSnapshot, ConnInv, Accounted
  <2>6. CASE Woken
    BY <2>6 DEF Woken, ConnInv, Accounted
  <2>7. CASE ShowSnapshot
    BY <2>7 DEF ShowSnapshot, ConnInv, Accounted
  <2>8. CASE Recheck
    BY <2>8 DEF Recheck, ConnInv, Accounted
  <2>9. CASE WatchDrops
    BY <2>9 DEF WatchDrops, ConnInv, Accounted
  <2>10. CASE Unmount
    BY <2>10 DEF Unmount, ConnInv, Accounted
  <2>11. ASSUME NEW d \in Conns, Dial(d) PROVE Accounted(c)'
    BY <2>11 DEF Dial, Goto, ConnInv, Accounted
  <2>12. ASSUME NEW d \in Conns, DropSocket(d) PROVE Accounted(c)'
    BY <2>12 DEF DropSocket, CloseSocket, ConnInv, Accounted
  <2>13. ASSUME NEW d \in Conns, MarkFails(d) PROVE Accounted(c)'
    BY <2>13 DEF MarkFails, CloseSocket, Goto, ConnInv, Accounted
  <2>14. ASSUME NEW d \in Conns, Refresh(d) PROVE Accounted(c)'
    BY <2>14 DEF Refresh, ConnInv, Accounted
  <2>15. ASSUME NEW d \in Conns, RefreshFails(d) PROVE Accounted(c)'
    BY <2>15 DEF RefreshFails, RefreshSurvives, ConnInv, Accounted
  <2>16. ASSUME NEW d \in Conns, Reject(d) PROVE Accounted(c)'
    BY <2>16 DEF Reject, CloseSocket, Goto, ConnInv, Accounted
  <2>17. ASSUME NEW d \in Conns, Accept(d) PROVE Accounted(c)'
    <3>1. CASE registered = NoConn
      <4>1. registered' = d /\ at' = [at EXCEPT ![d] = "setKey"]
            /\ UNCHANGED <<socket, previous, popped, overtaken>> /\ at[d] = "auth"
        BY <2>17, <3>1 DEF Accept, TakeOver, Register, Goto
      <4>2. CASE c = d
        BY <4>1, <4>2 DEF Accounted
      <4>3. CASE c # d
        <5>1. at[c] \in {"setKey", "setTime", "serving"} /\ Accounted(c) /\ registered # c
          BY <3>1, <4>1, <4>3, ConnAssumption DEF ConnInv
        <5>. QED
          BY <4>1, <5>1 DEF Accounted
      <4>. QED
        BY <4>2, <4>3
    <3>2. CASE registered # NoConn
      <4>1. /\ registered' = NoConn /\ at' = [at EXCEPT ![d] = "closing"] /\ at[d] = "auth"
            /\ previous' = [previous EXCEPT ![d] = registered]
            /\ UNCHANGED <<socket, popped, overtaken>>
        BY <2>17, <3>2 DEF Accept, TakeOver, Goto
      <4>2. c # d /\ at[c] \in {"setKey", "setTime", "serving"} /\ Accounted(c)
        BY <4>1 DEF ConnInv
      <4>3. CASE registered = c
        BY <4>1, <4>3 DEF Accounted
      <4>4. CASE registered # c
        BY <4>1, <4>2, <4>4 DEF Accounted
      <4>. QED
        BY <4>3, <4>4
    <3>. QED
      BY <3>1, <3>2
  <2>18. ASSUME NEW d \in Conns, ClosePrevious(d) PROVE Accounted(c)'
    <3>1. /\ registered' = d /\ at' = [at EXCEPT ![d] = "setKey"] /\ at[d] = "closing"
          /\ socket' = [socket EXCEPT ![previous[d]] = "closed"]
          /\ previous' = [previous EXCEPT ![d] = NoConn]
          /\ ~overtaken /\ registered = NoConn /\ UNCHANGED popped
      BY <2>18 DEF ClosePrevious, Register, CloseSocket, Goto
    <3>2. CASE c = d
      BY <3>1, <3>2 DEF Accounted
    <3>3. CASE c # d
      <4>1. at[c] \in {"setKey", "setTime", "serving"} /\ Accounted(c) /\ registered # c
        BY <3>1, <3>3, ConnAssumption DEF ConnInv
      <4>2. CASE previous[d] = c
        BY <3>1, <4>2 DEF Accounted
      <4>3. CASE previous[d] # c
        BY <3>1, <4>1, <4>3 DEF Accounted
      <4>. QED
        BY <4>2, <4>3
    <3>. QED
      BY <3>2, <3>3
  <2>19. ASSUME NEW d \in Conns, SetKey(d) PROVE Accounted(c)'
    BY <2>19 DEF SetKey, Goto, ConnInv, Accounted
  <2>20. ASSUME NEW d \in Conns, SetTime(d) PROVE Accounted(c)'
    BY <2>20 DEF SetTime, Goto, ConnInv, Accounted
  <2>21. ASSUME NEW d \in Conns, Disconnected(d) PROVE Accounted(c)'
    BY <2>21 DEF Disconnected, Goto, StopsKeepalive, ConnInv, Accounted
  <2>22. ASSUME NEW d \in Conns, Leave(d) PROVE Accounted(c)'
    BY <2>22 DEF Leave, Notify, Goto, StillRegistered, ConnInv, Accounted
  <2>23. ASSUME NEW d \in Conns, ClearLease(d) PROVE Accounted(c)'
    BY <2>23 DEF ClearLease, Goto, ConnInv, Accounted
  <2>24. ASSUME NEW d \in Conns, ClosePopped(d) PROVE Accounted(c)'
    BY <2>24 DEF ClosePopped, CloseSocket, ConnInv, Accounted
  <2>25. CASE UNCHANGED connVars
    BY <2>25 DEF ConnInv, Accounted
  <2>. QED
    BY <2>1, <2>2, <2>3, <2>4, <2>5, <2>6, <2>7, <2>8, <2>9, <2>10, <2>11, <2>12, <2>13,
       <2>14, <2>15, <2>16, <2>17, <2>18, <2>19, <2>20, <2>21, <2>22, <2>23, <2>24, <2>25
    DEF ConnNext, WatchStep, HandlerStep
<1>3. ConnTypeOK /\ ConnInv => ServedIsResolved
  BY DEF ConnTypeOK, ConnInv, Accounted, ServedIsResolved, Settled, Served
<1>. QED
  BY <1>1, <1>2, <1>3, ConnTypeCorrect, PTL DEF ConnSpec
=============================================================================
