------------------------- MODULE PlanSchedulerProofs -------------------------
(***************************************************************************)
(* Proofs about the plan scheduler, for any plan and any number of slots.   *)
(***************************************************************************)
EXTENDS PlanScheduler, FiniteSetTheorems, TLAPS

-----------------------------------------------------------------------------
\* What the steps share.

\* The step sets contain the steps their names announce.
LEMMA StepFacts ==
    /\ OpSteps \subseteq Steps /\ StartSteps \subseteq Steps /\ AdvanceSteps \subseteq Steps
    /\ "idle" \in Steps
  BY DEF Steps

\* A slot that returns keeps every local variable in its type.
LEMMA ReleaseType ==
    ASSUME TypeOK, NEW w \in Workers, Release(w)
    PROVE  /\ held' \in [Workers -> Tasks \cup {NoTask}]
           /\ pc' \in [Workers -> Steps]
           /\ sending' \in [Workers -> Ops \cup {NoTask}]
           /\ seen' \in [Workers -> [Ops -> Statuses]]
           /\ ready' \in [Workers -> SUBSET Ops]
           /\ blocked' \in [Workers -> SUBSET Ops]
           /\ changed' \in [Workers -> BOOLEAN]
           /\ failed' \in [Workers -> BOOLEAN]
           /\ rescue' \in [Workers -> BOOLEAN]
           /\ \A v \in Workers : StepFits(v)'
  <1>1. NoStates \in [Ops -> Statuses]
    BY DEF NoStates, Statuses
  <1>2. pc' \in [Workers -> Steps] /\ held' \in [Workers -> Tasks \cup {NoTask}]
        /\ sending' \in [Workers -> Ops \cup {NoTask}]
    BY StepFacts DEF Release, TypeOK
  <1>3. /\ seen' \in [Workers -> [Ops -> Statuses]]
        /\ ready' \in [Workers -> SUBSET Ops]
        /\ blocked' \in [Workers -> SUBSET Ops]
        /\ changed' \in [Workers -> BOOLEAN]
        /\ failed' \in [Workers -> BOOLEAN]
        /\ rescue' \in [Workers -> BOOLEAN]
    BY <1>1 DEF Release, TypeOK
  <1>4. \A v \in Workers : StepFits(v)'
    BY DEF Release, TypeOK, StepFits, OpSteps, StartSteps, AdvanceSteps
  <1>. QED BY <1>2, <1>3, <1>4

-----------------------------------------------------------------------------
LEMMA InitType == Init => TypeOK
  <1>. SUFFICES ASSUME Init PROVE TypeOK
    OBVIOUS
  <1>1. NoStates \in [Ops -> Statuses]
    BY DEF NoStates, Statuses
  <1>2. snapshot \in [kind : Kinds, ops : [Ops -> Statuses]]
    BY <1>1 DEF Init, Message, Kinds
  <1>3. pc \in [Workers -> Steps] /\ \A w \in Workers : StepFits(w)
    BY DEF Init, StepFits, Steps, OpSteps, StartSteps, AdvanceSteps
  <1>4. seen \in [Workers -> [Ops -> Statuses]] /\ status \in [Ops -> Statuses]
    BY <1>1 DEF Init
  <1>. QED BY <1>2, <1>3, <1>4 DEF Init, TypeOK

\* The API's requests change the broker, the snapshot and the stop flag.
LEMMA RequestType == TypeOK /\ (Deploy \/ CancelOwn \/ StopByAdmin) => TypeOK'
  <1>. SUFFICES ASSUME TypeOK, Deploy \/ CancelOwn \/ StopByAdmin PROVE TypeOK'
    OBVIOUS
  <1>0. UNCHANGED localVars => \A w \in Workers : StepFits(w)'
    BY DEF localVars, TypeOK, StepFits
  <1>1. CASE Deploy
    BY <1>0, <1>1, OpsAssumption
       DEF Deploy, TypeOK, Publish, Message, NoStates, Statuses, Kinds, Tasks, localVars
  <1>2. CASE CancelOwn
    BY <1>0, <1>2, WorkersAssumption DEF CancelOwn, TypeOK, planVars, localVars
  <1>3. CASE StopByAdmin
    BY <1>0, <1>3 DEF StopByAdmin, TypeOK, planVars, localVars
  <1>. QED BY <1>1, <1>2, <1>3

LEMMA StartType ==
    ASSUME TypeOK, NEW w \in Workers, StartStep(w) PROVE TypeOK'
  <1>0. NoStates \in [Ops -> Statuses]
    BY DEF NoStates, Statuses
  <1>1. CASE SetUp(w)
    BY <1>0, <1>1 DEF SetUp, TypeOK, At, Goto, Publish, Message, Kinds, planVars, StepFits,
       Steps, OpSteps, StartSteps, AdvanceSteps
  <1>2. CASE SetUpFails(w)
    BY <1>0, <1>2, ReleaseType DEF SetUpFails, TypeOK, Publish, Message, Kinds, planVars
  <1>3. CASE ResetOps(w)
    BY <1>3 DEF ResetOps, TypeOK, At, Goto, jobVars, StepFits, Statuses,
       Steps, OpSteps, StartSteps, AdvanceSteps
  <1>4. CASE Announce(w)
    BY <1>0, <1>4 DEF Announce, TypeOK, At, Goto, Publish, Message, Kinds, planVars, StepFits,
       Steps, OpSteps, StartSteps, AdvanceSteps, Tasks
  <1>. QED BY <1>1, <1>2, <1>3, <1>4 DEF StartStep

LEMMA OpType ==
    ASSUME TypeOK, NEW w \in Workers, OpStep(w) \/ ReadForPublish(w) PROVE TypeOK'
  <1>1. CASE Claim(w)
    BY <1>1 DEF Claim, TypeOK, At, Goto, jobVars, StepFits, Statuses, Tasks,
       Steps, OpSteps, StartSteps, AdvanceSteps
  <1>2. CASE ClaimLost(w)
    BY <1>2, ReleaseType DEF ClaimLost, TypeOK, planVars, jobVars
  <1>3. CASE CheckCancelled(w)
    BY <1>3 DEF CheckCancelled, TypeOK, At, Goto, jobVars, StepFits, Statuses, Terminal, Tasks,
       Steps, OpSteps, StartSteps, AdvanceSteps
  <1>4. CASE CheckPasses(w)
    BY <1>4 DEF CheckPasses, TypeOK, At, Goto, planVars, jobVars, StepFits,
       Steps, OpSteps, StartSteps, AdvanceSteps
  <1>5. CASE BeginOp(w)
    BY <1>5 DEF BeginOp, TypeOK, At, Goto, jobVars, StepFits, Statuses, Tasks,
       Steps, OpSteps, StartSteps, AdvanceSteps
  <1>6. CASE EnterBody(w)
    BY <1>6 DEF EnterBody, TypeOK, At, Goto, jobVars, StepFits,
       Steps, OpSteps, StartSteps, AdvanceSteps
  <1>7. CASE FinishBody(w)
    <2>1. status' \in [Ops -> Statuses]
      BY <1>7 DEF FinishBody, TypeOK, At, StepFits, OpSteps, Statuses, Terminal
    <2>2. pc' \in [Workers -> Steps] /\ \A v \in Workers : StepFits(v)'
      BY <1>7 DEF FinishBody, TypeOK, At, Goto, StepFits, Steps, OpSteps, StartSteps, AdvanceSteps
    <2>. QED BY <1>7, <2>1, <2>2 DEF FinishBody, TypeOK, jobVars
  <1>8. CASE PublishOwn(w)
    <2>1. snapshot' \in [kind : Kinds, ops : [Ops -> Statuses]]
      BY <1>8 DEF PublishOwn, Publish, Message, Kinds, TypeOK
    <2>2. pc' \in [Workers -> Steps] /\ \A v \in Workers : StepFits(v)'
      BY <1>8 DEF PublishOwn, TypeOK, At, Goto, StepFits, Steps, OpSteps, StartSteps,
         AdvanceSteps, Tasks
    <2>. QED BY <1>8, <2>1, <2>2 DEF PublishOwn, TypeOK, planVars
  <1>9. CASE ReadForPublish(w)
    BY <1>9 DEF ReadForPublish, NextRead, TypeOK, Goto, ReadStates, planVars, jobVars, StepFits,
       Steps, OpSteps, StartSteps, AdvanceSteps
  <1>. QED BY <1>1, <1>2, <1>3, <1>4, <1>5, <1>6, <1>7, <1>8, <1>9 DEF OpStep

LEMMA AdvanceType ==
    ASSUME TypeOK, NEW w \in Workers, AdvanceStep(w) PROVE TypeOK'
  <1>0. \A s : BlockedOps(s) \subseteq Ops /\ ReadyOps(s) \subseteq Ops /\ PendingOps(s) \subseteq Ops
    BY DEF BlockedOps, ReadyOps, PendingOps
  <1>1. CASE Advance(w)
    <2>1. blocked' \in [Workers -> SUBSET Ops] /\ ready' \in [Workers -> SUBSET Ops]
      BY <1>0, <1>1 DEF Advance, TypeOK
    <2>2. pc' \in [Workers -> Steps] /\ \A v \in Workers : StepFits(v)'
      BY <1>1 DEF Advance, TypeOK, At, Goto, StepFits, Steps, OpSteps, StartSteps, AdvanceSteps
    <2>. QED BY <1>1, <2>1, <2>2 DEF Advance, TypeOK, ReadStates, planVars, jobVars
  <1>2. CASE CancelBlocked(w)
    <2>1. PICK o \in blocked[w] :
            /\ blocked' = [blocked EXCEPT ![w] = @ \ {o}]
            /\ IF status[o] = "pending"
                 THEN /\ status' = [status EXCEPT ![o] = "cancelled"]
                      /\ seen' = [seen EXCEPT ![w][o] = "cancelled"]
                      /\ changed' = [changed EXCEPT ![w] = TRUE]
                 ELSE UNCHANGED <<status, seen, changed>>
      BY <1>2 DEF CancelBlocked
    <2>2. /\ status' \in [Ops -> Statuses] /\ seen' \in [Workers -> [Ops -> Statuses]]
          /\ changed' \in [Workers -> BOOLEAN]
      <3>1. o \in Ops /\ seen[w] \in [Ops -> Statuses] /\ "cancelled" \in Statuses
        BY DEF TypeOK, Statuses, Terminal
      <3>2. CASE status[o] = "pending"
        <4>1. [seen[w] EXCEPT ![o] = "cancelled"] \in [Ops -> Statuses]
          BY <3>1
        <4>2. seen' = [seen EXCEPT ![w] = [seen[w] EXCEPT ![o] = "cancelled"]]
          BY <2>1, <3>2
        <4>. QED BY <2>1, <3>1, <3>2, <4>1, <4>2 DEF TypeOK
      <3>3. CASE status[o] # "pending"
        BY <2>1, <3>3 DEF TypeOK
      <3>. QED BY <3>2, <3>3
    <2>3. blocked' \in [Workers -> SUBSET Ops]
      BY <2>1 DEF TypeOK
    <2>4. \A v \in Workers : StepFits(v)'
      BY <1>2 DEF CancelBlocked, TypeOK, StepFits
    <2>. QED BY <1>2, <2>2, <2>3, <2>4 DEF CancelBlocked, TypeOK, jobVars
  <1>3. CASE EndRound(w)
    <2>1. CASE cancel # "none"
      BY <1>3, <2>1 DEF EndRound, TypeOK, At, Goto, planVars, jobVars, StepFits, Steps, OpSteps,
         StartSteps, AdvanceSteps
    <2>2. CASE cancel = "none"
      <3>1. seen' = [seen EXCEPT ![w] = IF changed[w] THEN seen[w] ELSE status]
        BY <1>3, <2>2 DEF EndRound
      <3>2. seen' \in [Workers -> [Ops -> Statuses]]
        BY <3>1 DEF TypeOK
      <3>3. blocked' \in [Workers -> SUBSET Ops] /\ ready' \in [Workers -> SUBSET Ops]
        <4>1. /\ ready' = [ready EXCEPT ![w] = ReadyOps(seen'[w])]
              /\ blocked' = [blocked EXCEPT ![w] = BlockedOps(seen'[w])]
          BY <1>3, <2>2 DEF EndRound
        <4>. QED BY <1>0, <4>1 DEF TypeOK
      <3>4. PICK step \in {"enqueue", "cascade"} : pc' = [pc EXCEPT ![w] = step]
        BY <1>3, <2>2 DEF EndRound, Goto
      <3>5. pc[w] = "cascade" /\ UNCHANGED <<held, sending>>
        BY <1>3 DEF EndRound, At
      <3>6. pc' \in [Workers -> Steps]
        BY <3>4 DEF TypeOK, Steps, AdvanceSteps
      <3>7. ASSUME NEW v \in Workers PROVE StepFits(v)'
        <4>1. CASE v = w
          BY <3>4, <3>5, <4>1 DEF TypeOK, StepFits, OpSteps, StartSteps, AdvanceSteps
        <4>2. CASE v # w
          BY <3>4, <3>5, <4>2 DEF TypeOK, StepFits
        <4>. QED BY <4>1, <4>2
      <3>. QED BY <1>3, <3>2, <3>3, <3>6, <3>7 DEF EndRound, TypeOK, planVars, jobVars
    <2>. QED BY <2>1, <2>2
  <1>4. CASE ClaimReady(w)
    <2>1. PICK o \in ready[w] :
            /\ ready' = [ready EXCEPT ![w] = @ \ {o}]
            /\ IF EnqueueClaims(o)
                 THEN /\ status' = [status EXCEPT ![o] = "queued"]
                      /\ sending' = [sending EXCEPT ![w] = o]
                      /\ pc' = [pc EXCEPT ![w] = "send"]
                 ELSE UNCHANGED <<status, sending, pc>>
      BY <1>4 DEF ClaimReady, Goto
    <2>2. o \in Ops /\ o # NoTask
      BY OpsAssumption DEF TypeOK
    <2>3. ready' \in [Workers -> SUBSET Ops]
      BY <2>1 DEF TypeOK
    <2>4. CASE EnqueueClaims(o)
      <3>1. /\ status' = [status EXCEPT ![o] = "queued"]
            /\ sending' = [sending EXCEPT ![w] = o]
            /\ pc' = [pc EXCEPT ![w] = "send"]
        BY <2>1, <2>4
      <3>2. /\ status' \in [Ops -> Statuses] /\ sending' \in [Workers -> Ops \cup {NoTask}]
            /\ pc' \in [Workers -> Steps]
        BY <2>2, <3>1 DEF TypeOK, Statuses, Steps, AdvanceSteps
      <3>3. \A v \in Workers : StepFits(v)'
        BY <1>4, <2>2, <3>1 DEF ClaimReady, TypeOK, At, StepFits, OpSteps, StartSteps, AdvanceSteps
      <3>. QED BY <1>4, <2>3, <3>2, <3>3 DEF ClaimReady, TypeOK, jobVars
    <2>5. CASE ~EnqueueClaims(o)
      BY <1>4, <2>1, <2>3, <2>5 DEF ClaimReady, TypeOK, jobVars, StepFits
    <2>. QED BY <2>4, <2>5
  <1>5. CASE SendOp(w)
    BY <1>5 DEF SendOp, TypeOK, At, Goto, jobVars, StepFits, Tasks,
       Steps, OpSteps, StartSteps, AdvanceSteps
  <1>6. CASE SendFails(w)
    BY <1>6 DEF SendFails, TypeOK, At, Goto, jobVars, StepFits, Statuses, Terminal, Faults,
       Steps, OpSteps, StartSteps, AdvanceSteps
  <1>7. CASE EndEnqueue(w)
    BY <1>7 DEF EndEnqueue, TypeOK, At, Goto, planVars, jobVars, StepFits,
       Steps, OpSteps, StartSteps, AdvanceSteps
  <1>8. CASE PublishStates(w)
    <2>1. snapshot' \in [kind : Kinds, ops : [Ops -> Statuses]]
      BY <1>8 DEF PublishStates, Publish, Message, Kinds, TypeOK
    <2>2. CASE Release(w)
      BY <1>8, <2>1, <2>2, ReleaseType DEF PublishStates, TypeOK, planVars
    <2>3. CASE failed[w] \/ AllTerminal(seen[w])
      <3>1. PICK step \in {"advance", "conclude"} : pc' = [pc EXCEPT ![w] = step]
        BY <1>8, <2>3 DEF PublishStates, Goto
      <3>2. UNCHANGED <<held, sending, seen, ready, blocked, changed, failed, rescue>>
        BY <1>8, <2>3 DEF PublishStates
      <3>3. pc' \in [Workers -> Steps] /\ \A v \in Workers : StepFits(v)'
        BY <1>8, <3>1, <3>2 DEF PublishStates, TypeOK, At, StepFits, Steps, OpSteps, StartSteps,
           AdvanceSteps
      <3>. QED BY <1>8, <2>1, <3>2, <3>3 DEF PublishStates, TypeOK, planVars
    <2>. QED BY <1>8, <2>2, <2>3 DEF PublishStates
  <1>9. CASE Conclude(w)
    <2>1. snapshot' \in [kind : Kinds, ops : [Ops -> Statuses]]
      BY <1>9 DEF Conclude, Publish, Message, Kinds, TypeOK
    <2>. QED BY <1>9, <2>1, ReleaseType DEF Conclude, TypeOK, planVars
  <1>. QED BY <1>1, <1>2, <1>3, <1>4, <1>5, <1>6, <1>7, <1>8, <1>9 DEF AdvanceStep

LEMMA FaultType ==
    ASSUME TypeOK, NEW w \in Workers, FaultStep(w) PROVE TypeOK'
  <1>0. NoStates \in [Ops -> Statuses]
    BY DEF NoStates, Statuses
  <1>1. CASE Crash(w)
    <2>1. DesertedBy(w) \in Nat /\ faults["crash"] \in Nat /\ faults \in [Faults -> Nat]
      BY DEF DesertedBy, TypeOK, Faults
    <2>2. faults' \in [Faults -> Nat]
      <3>1. faults' = [faults EXCEPT !["crash"] = @ + 1, !["deserted"] = DesertedBy(w)]
        BY <1>1 DEF Crash
      <3>. QED BY <2>1, <3>1, SMTT(30) DEF Faults
    <2>3. inbox' \in [Tasks -> Nat]
      BY <1>1 DEF Crash, TypeOK, Tasks
    <2>. QED BY <1>1, <2>2, <2>3, ReleaseType DEF Crash, TypeOK, jobVars
  <1>2. CASE RedeliverSlow(w)
    BY <1>2 DEF RedeliverSlow, TypeOK, jobVars, localVars, Faults, Tasks, StepFits
  <1>3. CASE CrashStart(w)
    BY <1>3, ReleaseType DEF CrashStart, TypeOK, jobVars, Faults, Tasks
  <1>4. CASE PublishRaises(w)
    <2>0. DesertedBy(w) \in Nat /\ faults["outage"] \in Nat
      BY DEF DesertedBy, TypeOK, Faults
    <2>1. faults' \in [Faults -> Nat]
      BY <1>4, <2>0 DEF PublishRaises, TypeOK, Faults
    <2>2. CASE held[w] \in Ops /\ ~rescue[w]
      <3>1. status' \in [Ops -> Statuses]
        BY <1>4, <2>2 DEF PublishRaises, TypeOK, Statuses, Terminal
      <3>2. pc' \in [Workers -> Steps] /\ \A v \in Workers : StepFits(v)'
        BY <1>4, <2>2 DEF PublishRaises, TypeOK, Goto, StepFits, Steps, OpSteps, StartSteps,
           AdvanceSteps, Tasks
      <3>. QED BY <1>4, <2>1, <2>2, <3>1, <3>2 DEF PublishRaises, TypeOK
    <2>3. CASE ~(held[w] \in Ops /\ ~rescue[w])
      <3>1. Release(w) /\ snapshot' \in [kind : Kinds, ops : [Ops -> Statuses]]
        BY <1>0, <1>4, <2>3 DEF PublishRaises, TypeOK, Publish, Message, Kinds
      <3>. QED BY <1>4, <2>1, <2>3, <3>1, ReleaseType DEF PublishRaises, TypeOK
    <2>. QED BY <2>2, <2>3
  <1>. QED BY <1>1, <1>2, <1>3, <1>4 DEF FaultStep

LEMMA TakeType ==
    ASSUME TypeOK, NEW w \in Workers, Take(w) PROVE TypeOK'
  <1>1. PICK t \in Tasks :
          /\ inbox[t] > 0
          /\ inbox' = [inbox EXCEPT ![t] = @ - 1]
          /\ held' = [held EXCEPT ![w] = t]
          /\ Goto(w, IF t = Start THEN "setup" ELSE "claim")
    BY DEF Take
  <1>2. inbox' \in [Tasks -> Nat]
    BY <1>1 DEF TypeOK
  <1>3. pc' \in [Workers -> Steps] /\ \A v \in Workers : StepFits(v)'
    BY <1>1 DEF Take, TypeOK, At, Goto, StepFits, Tasks, Steps, OpSteps, StartSteps, AdvanceSteps
  <1>. QED BY <1>1, <1>2, <1>3 DEF Take, TypeOK, jobVars

LEMMA NextType == TypeOK /\ [Next]_vars => TypeOK'
  <1>. SUFFICES ASSUME TypeOK, [Next]_vars PROVE TypeOK'
    OBVIOUS
  <1>1. CASE UNCHANGED vars
    BY <1>1 DEF vars, planVars, jobVars, localVars, TypeOK, StepFits
  <1>2. CASE Next
    BY <1>2, RequestType, StartType, OpType, AdvanceType, FaultType, TakeType
       DEF Next, WorkerStep
  <1>. QED BY <1>1, <1>2

\* Every variable keeps its type, and a slot is only at steps of the task it
\* holds, whatever is redelivered, raised or stopped.
THEOREM TypeCorrect == Spec => []TypeOK
  BY InitType, NextType, PTL DEF Spec

-----------------------------------------------------------------------------
\* The strengthened invariant SchedulerInv.

\* A step inside a slot that leaves the operations, the messages and the sends
\* alone, and does not enter the section in which the slot owns an operation,
\* keeps everything but what the slot decided.
LEMMA QuietStep ==
    ASSUME TypeOK, SchedulerInv, NEW w \in Workers, NEW step \in Steps,
           UNCHANGED <<status, runs, inbox, held, sending>>,
           pc' = [pc EXCEPT ![w] = step],
           pc[w] # "idle", snapshot'.kind # "none",
           step \notin {"setup"},
           step = "reset" => pc[w] = "setup",
           pc[w] \in {"setup", "reset"} => step = "reset",
           step \in OwnSteps => pc[w] \in OwnSteps \ {"finish"}
    PROVE  /\ StartIsFirst' /\ Untouched' /\ Owners' /\ Senders'
           /\ DependenciesFirst' /\ RunsAtMostOnce'
  <1>1. StartIsFirst'
    BY DEF SchedulerInv, StartIsFirst, TypeOK
  <1>2. Untouched' /\ Senders'
    BY DEF SchedulerInv, Untouched, Senders
  <1>3. Owners'
    BY DEF SchedulerInv, Owners, TypeOK, OwnSteps
  <1>4. DependenciesFirst' /\ RunsAtMostOnce'
    BY DEF SchedulerInv, DependenciesFirst, DependenciesDone, RunsAtMostOnce
  <1>. QED BY <1>1, <1>2, <1>3, <1>4

\* A slot that returns while the operations stay as they are keeps everything,
\* also if its message goes back to the broker.
LEMMA ReturnStep ==
    ASSUME TypeOK, SchedulerInv, NEW w \in Workers, Release(w), pc[w] # "idle",
           UNCHANGED <<status, runs>>, snapshot'.kind # "none",
           \/ UNCHANGED inbox
           \/ held[w] \in Ops /\ inbox' = [inbox EXCEPT ![held[w]] = @ + 1]
    PROVE  SchedulerInv'
  <1>1. StartIsFirst'
    BY OpsAssumption DEF SchedulerInv, StartIsFirst, TypeOK, Release, Tasks
  <1>2. Untouched'
    BY OpsAssumption DEF SchedulerInv, Untouched, TypeOK, Release, Tasks
  <1>3. Owners'
    BY DEF SchedulerInv, Owners, TypeOK, Release, OwnSteps
  <1>4. Senders'
    BY OpsAssumption DEF SchedulerInv, Senders, TypeOK, Release, Tasks
  <1>5. Decided'
    <2>1. \A o \in Ops : NoStates[o] # "done"
      BY DEF NoStates
    <2>. QED BY <2>1 DEF SchedulerInv, Decided, DependenciesDone, TypeOK, Release
  <1>6. DependenciesFirst' /\ RunsAtMostOnce'
    BY DEF SchedulerInv, DependenciesFirst, DependenciesDone, RunsAtMostOnce
  <1>. QED BY <1>1, <1>2, <1>3, <1>4, <1>5, <1>6 DEF SchedulerInv

\* An operation is done for good and the decisions of the slots survive if no
\* done operation changes and no slot decides anew.
LEMMA DecisionsSurvive ==
    ASSUME TypeOK, Decided, UNCHANGED ready, UNCHANGED seen,
           \A o \in Ops : status[o] = "done" => status'[o] = "done"
    PROVE  Decided'
  BY OpsAssumption DEF Decided, DependenciesDone, TypeOK

LEMMA InitInv == Init => SchedulerInv
  BY OpsAssumption DEF Init, SchedulerInv, StartIsFirst, Untouched, Owners, Senders, Decided,
     DependenciesFirst, DependenciesDone, RunsAtMostOnce, NoStates, Message, Tasks, OwnSteps

LEMMA RequestInv ==
    ASSUME TypeOK, SchedulerInv, Deploy \/ CancelOwn \/ StopByAdmin PROVE SchedulerInv'
  <1>1. CASE Deploy
    BY <1>1, OpsAssumption DEF Deploy, TypeOK, SchedulerInv, StartIsFirst, Untouched, Owners,
       Senders, Decided, DependenciesFirst, DependenciesDone, RunsAtMostOnce, Publish, Message,
       localVars, StepFits, Tasks
  <1>2. CASE CancelOwn \/ StopByAdmin
    BY <1>2 DEF CancelOwn, StopByAdmin, SchedulerInv, StartIsFirst, Untouched, Owners, Senders,
       Decided, DependenciesFirst, DependenciesDone, RunsAtMostOnce, planVars, localVars
  <1>. QED BY <1>1, <1>2

LEMMA StartInv ==
    ASSUME TypeOK, SchedulerInv, NEW w \in Workers, StartStep(w) PROVE SchedulerInv'
  <1>1. CASE SetUp(w)
    <2>1. Decided'
      BY <1>1, DecisionsSurvive DEF SetUp, planVars, SchedulerInv
    <2>2. snapshot'.kind # "none"
      BY <1>1 DEF SetUp, Publish, Message
    <2>3. /\ UNCHANGED <<status, runs, inbox, held, sending>>
          /\ pc' = [pc EXCEPT ![w] = "reset"]
          /\ pc[w] = "setup"
      BY <1>1 DEF SetUp, At, Goto, planVars
    <2>4. "reset" \in Steps /\ "reset" \notin OwnSteps
      BY DEF Steps, StartSteps, OwnSteps
    <2>. QED BY <2>1, <2>2, <2>3, <2>4, QuietStep DEF SchedulerInv
  <1>2. CASE SetUpFails(w)
    <2>1. snapshot'.kind # "none"
      BY <1>2 DEF SetUpFails, Publish, Message
    <2>. QED BY <1>2, <2>1, ReturnStep DEF SetUpFails, At, planVars
  <1>3. CASE ResetOps(w)
    <2>0. /\ held[w] = Start /\ \A o \in Ops : status[o] = "absent"
          /\ \A v \in Workers : v # w => pc[v] = "idle"
      BY <1>3, OpsAssumption DEF ResetOps, At, TypeOK, StepFits, StartSteps, SchedulerInv, StartIsFirst
    <2>1. StartIsFirst'
      BY <1>3, <2>0, OpsAssumption DEF ResetOps, At, Goto, jobVars, TypeOK, SchedulerInv, StartIsFirst
    <2>2. Untouched' /\ RunsAtMostOnce'
      BY <1>3, <2>0 DEF ResetOps, SchedulerInv, Untouched, RunsAtMostOnce
    <2>3. Owners' /\ Senders'
      BY <1>3, <2>0, OpsAssumption DEF ResetOps, Goto, TypeOK, SchedulerInv, StepFits, Owners, Senders,
         OwnSteps
    <2>4. Decided' /\ DependenciesFirst'
      BY <1>3, <2>0, DecisionsSurvive DEF ResetOps, SchedulerInv, DependenciesFirst
    <2>. QED BY <2>1, <2>2, <2>3, <2>4 DEF SchedulerInv
  <1>4. CASE Announce(w)
    <2>1. Decided'
      BY <1>4, DecisionsSurvive DEF Announce, planVars, SchedulerInv
    <2>2. snapshot'.kind # "none"
      BY <1>4 DEF Announce, Publish, Message
    <2>3. /\ UNCHANGED <<status, runs, inbox, held, sending>>
          /\ pc' = [pc EXCEPT ![w] = "advance"]
          /\ pc[w] = "announce"
      BY <1>4 DEF Announce, At, Goto, planVars
    <2>4. "advance" \in Steps /\ "advance" \notin OwnSteps
      BY DEF Steps, AdvanceSteps, OwnSteps
    <2>. QED BY <2>1, <2>2, <2>3, <2>4, QuietStep DEF SchedulerInv
  <1>. QED BY <1>1, <1>2, <1>3, <1>4 DEF StartStep

LEMMA OpInv ==
    ASSUME TypeOK, SchedulerInv, NEW w \in Workers, OpStep(w) \/ ReadForPublish(w)
    PROVE  SchedulerInv'
  <1>1. CASE Claim(w)
    <2>1. StartIsFirst'
      BY <1>1, OpsAssumption DEF Claim, TypeOK, StepFits, OpSteps, At, Goto, SchedulerInv, StartIsFirst, Tasks, jobVars, Statuses
    <2>2. Untouched' /\ RunsAtMostOnce'
      BY <1>1 DEF Claim, TypeOK, StepFits, OpSteps, At, Goto, SchedulerInv, TaskClaims, Untouched, RunsAtMostOnce
    <2>3. Owners' /\ Senders'
      BY <1>1, OpsAssumption DEF Claim, TypeOK, StepFits, OpSteps, At, Goto, SchedulerInv, TaskClaims, Owners, Senders, OwnSteps, Untouched
    <2>4. Decided'
      BY <1>1, DecisionsSurvive DEF Claim, TypeOK, StepFits, OpSteps, At, Goto, SchedulerInv, TaskClaims
    <2>5. DependenciesFirst'
      BY <1>1 DEF Claim, TypeOK, StepFits, OpSteps, At, Goto, SchedulerInv, TaskClaims, DependenciesFirst, DependenciesDone
    <2>. QED BY <2>1, <2>2, <2>3, <2>4, <2>5 DEF SchedulerInv
  <1>2. CASE ClaimLost(w)
    <2>1. snapshot'.kind # "none"
      BY <1>2 DEF ClaimLost, At, SchedulerInv, StartIsFirst, jobVars
    <2>. QED BY <1>2, <2>1, ReturnStep DEF ClaimLost, At, planVars
  <1>3. CASE CheckCancelled(w)
    <2>1. StartIsFirst'
      BY <1>3, OpsAssumption DEF CheckCancelled, TypeOK, StepFits, OpSteps, At, Goto, SchedulerInv, StartIsFirst, Tasks, jobVars, Statuses
    <2>2. Untouched' /\ RunsAtMostOnce'
      BY <1>3 DEF CheckCancelled, TypeOK, StepFits, OpSteps, At, Goto, SchedulerInv, Untouched, RunsAtMostOnce, Owners, OwnSteps
    <2>3. Owners' /\ Senders'
      BY <1>3, OpsAssumption DEF CheckCancelled, TypeOK, StepFits, OpSteps, At, Goto, SchedulerInv, Owners, Senders, OwnSteps, Untouched
    <2>4. Decided'
      BY <1>3, DecisionsSurvive DEF CheckCancelled, TypeOK, StepFits, OpSteps, At, Goto, SchedulerInv, Owners, OwnSteps
    <2>5. DependenciesFirst'
      BY <1>3 DEF CheckCancelled, TypeOK, StepFits, OpSteps, At, Goto, SchedulerInv, Owners, OwnSteps, DependenciesFirst, DependenciesDone
    <2>. QED BY <2>1, <2>2, <2>3, <2>4, <2>5 DEF SchedulerInv
  <1>4. CASE CheckPasses(w)
    <2>1. Decided'
      BY <1>4, DecisionsSurvive DEF CheckPasses, planVars, SchedulerInv
    <2>2. snapshot'.kind # "none"
      BY <1>4 DEF CheckPasses, At, SchedulerInv, StartIsFirst, jobVars, Publish, Message
    <2>3. /\ UNCHANGED <<status, runs, inbox, held, sending>>
          /\ pc' = [pc EXCEPT ![w] = "begin"]
          /\ pc[w] = "check"
      BY <1>4 DEF CheckPasses, At, Goto, planVars
    <2>4. "begin" \in Steps /\ pc[w] \in OwnSteps \ {"finish"} /\ pc[w] \notin {"setup", "reset"}
      BY <2>3 DEF Steps, OpSteps, AdvanceSteps, OwnSteps
    <2>. QED BY <2>1, <2>2, <2>3, <2>4, QuietStep DEF SchedulerInv
  <1>5. CASE BeginOp(w)
    <2>1. StartIsFirst'
      BY <1>5, OpsAssumption DEF BeginOp, TypeOK, StepFits, OpSteps, At, Goto, SchedulerInv, StartIsFirst, Tasks, jobVars, Statuses
    <2>2. Untouched' /\ RunsAtMostOnce'
      BY <1>5 DEF BeginOp, TypeOK, StepFits, OpSteps, At, Goto, SchedulerInv, Untouched, RunsAtMostOnce, Owners, OwnSteps
    <2>3. Owners' /\ Senders'
      BY <1>5, OpsAssumption DEF BeginOp, TypeOK, StepFits, OpSteps, At, Goto, SchedulerInv, Owners, Senders, OwnSteps, Untouched
    <2>4. Decided'
      BY <1>5, DecisionsSurvive DEF BeginOp, TypeOK, StepFits, OpSteps, At, Goto, SchedulerInv, Owners, OwnSteps
    <2>5. DependenciesFirst'
      BY <1>5 DEF BeginOp, TypeOK, StepFits, OpSteps, At, Goto, SchedulerInv, Owners, OwnSteps, DependenciesFirst, DependenciesDone
    <2>. QED BY <2>1, <2>2, <2>3, <2>4, <2>5 DEF SchedulerInv
  <1>6. CASE EnterBody(w)
    <2>1. StartIsFirst'
      BY <1>6, OpsAssumption DEF EnterBody, TypeOK, StepFits, OpSteps, At, Goto, SchedulerInv, StartIsFirst, Tasks, jobVars, Statuses
    <2>2. Untouched' /\ RunsAtMostOnce'
      BY <1>6 DEF EnterBody, TypeOK, StepFits, OpSteps, At, Goto, SchedulerInv, Untouched, RunsAtMostOnce, Owners, OwnSteps
    <2>3. Owners' /\ Senders'
      BY <1>6, OpsAssumption DEF EnterBody, TypeOK, StepFits, OpSteps, At, Goto, SchedulerInv, Owners, Senders, OwnSteps, Untouched
    <2>4. Decided'
      BY <1>6, DecisionsSurvive DEF EnterBody, TypeOK, StepFits, OpSteps, At, Goto, SchedulerInv, Owners, OwnSteps
    <2>5. DependenciesFirst'
      BY <1>6 DEF EnterBody, TypeOK, StepFits, OpSteps, At, Goto, SchedulerInv, Owners, OwnSteps, DependenciesFirst, DependenciesDone
    <2>. QED BY <2>1, <2>2, <2>3, <2>4, <2>5 DEF SchedulerInv
  <1>7. CASE FinishBody(w)
    <2>0. PICK result \in Terminal :
            /\ status' = [status EXCEPT ![held[w]] = result]
            /\ pc' = [pc EXCEPT ![w] = "readEnd"]
            /\ UNCHANGED <<runs, inbox, snapshot, held, sending, seen, ready>>
      BY <1>7 DEF FinishBody, Goto, Terminal, jobVars
    <2>1. StartIsFirst'
      BY <1>7, <2>0, OpsAssumption DEF FinishBody, Terminal, TypeOK, StepFits, OpSteps, At, Goto, SchedulerInv, StartIsFirst, Tasks, jobVars, Statuses
    <2>2. Untouched' /\ RunsAtMostOnce'
      BY <1>7, <2>0 DEF FinishBody, Terminal, TypeOK, StepFits, OpSteps, At, Goto, SchedulerInv, Untouched, RunsAtMostOnce, Owners, OwnSteps
    <2>3. Owners' /\ Senders'
      BY <1>7, <2>0, OpsAssumption DEF FinishBody, Terminal, TypeOK, StepFits, OpSteps, At, Goto, SchedulerInv, Owners, Senders, OwnSteps, Untouched
    <2>4. Decided'
      BY <1>7, <2>0, DecisionsSurvive DEF FinishBody, TypeOK, StepFits, OpSteps, At, Goto, SchedulerInv, Owners, OwnSteps
    <2>5. DependenciesFirst'
      BY <1>7, <2>0 DEF FinishBody, Terminal, TypeOK, StepFits, OpSteps, At, Goto, SchedulerInv, Owners, OwnSteps, DependenciesFirst, DependenciesDone
    <2>. QED BY <2>1, <2>2, <2>3, <2>4, <2>5 DEF SchedulerInv
  <1>8. CASE PublishOwn(w)
    <2>1. Decided'
      BY <1>8, DecisionsSurvive DEF PublishOwn, planVars, SchedulerInv
    <2>2. snapshot'.kind # "none"
      BY <1>8 DEF PublishOwn, At, SchedulerInv, StartIsFirst, jobVars, Publish, Message
    <2>3. /\ UNCHANGED <<status, runs, inbox, held, sending>>
          /\ \/ pc[w] = "publishRun" /\ pc' = [pc EXCEPT ![w] = "body"]
             \/ pc[w] = "publishEnd" /\ pc' = [pc EXCEPT ![w] = "advance"]
          /\ pc[w] \in {"publishRun", "publishEnd"}
      BY <1>8 DEF PublishOwn, At, Goto, planVars
    <2>. QED BY <2>1, <2>2, <2>3, QuietStep
         DEF SchedulerInv, Steps, OpSteps, AdvanceSteps, OwnSteps
  <1>9. CASE ReadForPublish(w)
    <2>1. Decided'
      BY <1>9 DEF ReadForPublish, ReadStates, planVars, TypeOK, SchedulerInv, Decided, DependenciesDone
    <2>2. snapshot'.kind # "none"
      BY <1>9 DEF ReadForPublish, At, SchedulerInv, StartIsFirst, jobVars, Publish, Message
    <2>3. /\ UNCHANGED <<status, runs, inbox, held, sending>>
          /\ \/ pc[w] = "readRun" /\ pc' = [pc EXCEPT ![w] = "publishRun"]
             \/ pc[w] = "readEnd" /\ pc' = [pc EXCEPT ![w] = "publishEnd"]
             \/ pc[w] = "readStates" /\ pc' = [pc EXCEPT ![w] = "publishStates"]
          /\ pc[w] \in {"readRun", "readEnd", "readStates"}
      BY <1>9 DEF ReadForPublish, At, Goto, planVars, NextRead
    <2>. QED BY <2>1, <2>2, <2>3, QuietStep
         DEF SchedulerInv, Steps, OpSteps, AdvanceSteps, OwnSteps
  <1>. QED BY <1>1, <1>2, <1>3, <1>4, <1>5, <1>6, <1>7, <1>8, <1>9 DEF OpStep

LEMMA AdvanceInv ==
    ASSUME TypeOK, SchedulerInv, NEW w \in Workers, AdvanceStep(w) PROVE SchedulerInv'
  <1>1. CASE Advance(w)
    <2>1. Decided'
      BY <1>1 DEF Advance, ReadStates, ReadyOps, planVars, TypeOK, SchedulerInv, Decided,
         DependenciesDone
    <2>2. snapshot'.kind # "none"
      BY <1>1 DEF Advance, At, SchedulerInv, StartIsFirst, jobVars, Publish, Message
    <2>3. /\ UNCHANGED <<status, runs, inbox, held, sending>>
          /\ \E step \in {"enqueue", "cascade"} : pc' = [pc EXCEPT ![w] = step]
          /\ pc[w] = "advance"
      BY <1>1 DEF Advance, At, Goto, planVars
    <2>. QED BY <2>1, <2>2, <2>3, QuietStep
         DEF SchedulerInv, Steps, OpSteps, AdvanceSteps, OwnSteps
  <1>2. CASE CancelBlocked(w)
    <2>0. PICK o \in Ops :
            IF status[o] = "pending"
              THEN /\ status' = [status EXCEPT ![o] = "cancelled"]
                   /\ seen' = [seen EXCEPT ![w] = [seen[w] EXCEPT ![o] = "cancelled"]]
              ELSE UNCHANGED <<status, seen>>
      BY <1>2 DEF CancelBlocked, TypeOK
    <2>1. CASE status[o] # "pending"
      <3>1. UNCHANGED <<status, seen, runs, inbox, snapshot, held, sending, pc, ready>>
        BY <1>2, <2>0, <2>1 DEF CancelBlocked, jobVars
      <3>. QED BY <3>1 DEF SchedulerInv, StartIsFirst, Untouched, Owners, Senders, Decided,
               DependenciesFirst, DependenciesDone, RunsAtMostOnce
    <2>2. CASE status[o] = "pending"
      <3>0. /\ status' = [status EXCEPT ![o] = "cancelled"]
            /\ seen' = [seen EXCEPT ![w] = [seen[w] EXCEPT ![o] = "cancelled"]]
            /\ UNCHANGED <<runs, inbox, snapshot, held, sending, pc, ready>>
        BY <1>2, <2>0, <2>2 DEF CancelBlocked, jobVars
      <3>1. StartIsFirst'
        BY <1>2, <2>2, <3>0 DEF CancelBlocked, At, TypeOK, SchedulerInv, StartIsFirst
      <3>2. Untouched' /\ RunsAtMostOnce'
        BY <2>2, <3>0 DEF TypeOK, SchedulerInv, Untouched, RunsAtMostOnce
      <3>3. Owners' /\ Senders'
        BY <2>2, <3>0 DEF TypeOK, StepFits, OpSteps, SchedulerInv, Owners, Senders, OwnSteps
      <3>4. \A v \in Workers : \A q \in Ops :
              seen'[v][q] = "done" => seen[v][q] = "done"
        <4>1. seen \in [Workers -> [Ops -> Statuses]]
          BY DEF TypeOK
        <4>. QED BY <3>0, <4>1
      <3>5. \A q \in Ops : status[q] = "done" => status'[q] = "done"
        BY <2>2, <3>0 DEF TypeOK
      <3>6. Decided'
        BY <3>0, <3>4, <3>5, OpsAssumption DEF SchedulerInv, Decided, DependenciesDone, TypeOK
      <3>7. DependenciesFirst'
        BY <2>2, <3>0, <3>5, OpsAssumption DEF TypeOK, SchedulerInv, DependenciesFirst, DependenciesDone
      <3>. QED BY <3>1, <3>2, <3>3, <3>6, <3>7 DEF SchedulerInv
    <2>. QED BY <2>1, <2>2
  <1>3. CASE EndRound(w)
    <2>1. Decided'
      <3>1. CASE cancel # "none"
        BY <1>3, <3>1, DecisionsSurvive DEF EndRound, planVars, SchedulerInv
      <3>2. CASE cancel = "none"
        <4>1. /\ seen' = [seen EXCEPT ![w] = IF changed[w] THEN seen[w] ELSE status]
              /\ ready' = [ready EXCEPT ![w] = ReadyOps(seen'[w])]
              /\ UNCHANGED status
          BY <1>3, <3>2 DEF EndRound, planVars
        <4>2. \A v \in Workers : \A o \in Ops : seen'[v][o] = "done" => status[o] = "done"
          BY <4>1 DEF TypeOK, SchedulerInv, Decided
        <4>3. \A v \in Workers : \A o \in ready'[v] :
                o \in ready[v] \/ (o \in Ops /\ DependenciesDone(seen'[v], o))
          BY <4>1 DEF TypeOK, ReadyOps
        <4>. QED BY <4>1, <4>2, <4>3, OpsAssumption DEF SchedulerInv, Decided, DependenciesDone
      <3>. QED BY <3>1, <3>2
    <2>2. snapshot'.kind # "none"
      BY <1>3 DEF EndRound, At, SchedulerInv, StartIsFirst, jobVars, Publish, Message
    <2>3. /\ UNCHANGED <<status, runs, inbox, held, sending>>
          /\ \E step \in {"enqueue", "cascade"} : pc' = [pc EXCEPT ![w] = step]
          /\ pc[w] = "cascade"
      BY <1>3 DEF EndRound, At, Goto, planVars
    <2>. QED BY <2>1, <2>2, <2>3, QuietStep
         DEF SchedulerInv, Steps, OpSteps, AdvanceSteps, OwnSteps
  <1>4. CASE ClaimReady(w)
    <2>0. PICK o \in ready[w] :
            /\ ready' = [ready EXCEPT ![w] = @ \ {o}]
            /\ IF EnqueueClaims(o)
                 THEN /\ status' = [status EXCEPT ![o] = "queued"]
                      /\ sending' = [sending EXCEPT ![w] = o]
                      /\ pc' = [pc EXCEPT ![w] = "send"]
                 ELSE UNCHANGED <<status, sending, pc>>
      BY <1>4 DEF ClaimReady, Goto
    <2>1. /\ o \in Ops /\ o # NoTask /\ pc[w] = "enqueue" /\ sending[w] = NoTask
          /\ UNCHANGED <<runs, inbox, snapshot, held, seen>>
          /\ \A q \in Ops : q \in Tasks
      BY <1>4, OpsAssumption DEF ClaimReady, At, jobVars, TypeOK, StepFits, Tasks
    <2>2. CASE EnqueueClaims(o)
      <3>0. /\ status[o] = "pending" /\ status' = [status EXCEPT ![o] = "queued"]
            /\ sending' = [sending EXCEPT ![w] = o] /\ pc' = [pc EXCEPT ![w] = "send"]
        BY <2>0, <2>2 DEF EnqueueClaims
      <3>1. StartIsFirst'
        BY <2>1, <3>0 DEF TypeOK, SchedulerInv, StartIsFirst
      <3>2. Untouched' /\ RunsAtMostOnce'
        BY <2>1, <3>0 DEF TypeOK, SchedulerInv, Untouched, RunsAtMostOnce
      <3>3. Owners'
        BY <2>1, <3>0 DEF TypeOK, StepFits, OpSteps, SchedulerInv, Owners, OwnSteps
      <3>4. Senders'
        BY <2>1, <3>0 DEF TypeOK, SchedulerInv, Senders, Untouched
      <3>5. Decided'
        BY <2>0, <2>1, <3>0, OpsAssumption DEF TypeOK, SchedulerInv, Decided, DependenciesDone
      <3>6. DependenciesDone(status, o)
        BY DEF SchedulerInv, Decided
      <3>7. DependenciesFirst'
        BY <2>1, <3>0, <3>6, OpsAssumption DEF TypeOK, SchedulerInv, DependenciesFirst, DependenciesDone
      <3>. QED BY <3>1, <3>2, <3>3, <3>4, <3>5, <3>7 DEF SchedulerInv
    <2>3. CASE ~EnqueueClaims(o)
      <3>1. /\ UNCHANGED <<status, sending, pc>>
            /\ \A v \in Workers : ready'[v] \subseteq ready[v]
        BY <2>0, <2>3 DEF TypeOK
      <3>. QED BY <2>1, <3>1 DEF SchedulerInv, StartIsFirst, Untouched, Owners, Senders, Decided,
               DependenciesFirst, DependenciesDone, RunsAtMostOnce
    <2>. QED BY <2>2, <2>3
  <1>5. CASE SendOp(w)
    <2>1. StartIsFirst'
      BY <1>5, OpsAssumption DEF SendOp, TypeOK, StepFits, OpSteps, At, Goto, SchedulerInv, StartIsFirst, Tasks, jobVars, Statuses, Senders
    <2>2. Untouched' /\ RunsAtMostOnce'
      BY <1>5, OpsAssumption DEF SendOp, TypeOK, StepFits, OpSteps, At, Goto, SchedulerInv, Untouched, RunsAtMostOnce, Senders, Tasks
    <2>3. Owners'
      BY <1>5 DEF SendOp, TypeOK, StepFits, OpSteps, At, Goto, SchedulerInv, Owners, OwnSteps, Senders
    <2>4. Senders'
      BY <1>5, OpsAssumption DEF SendOp, TypeOK, StepFits, OpSteps, At, Goto, SchedulerInv, Senders, Tasks
    <2>5. Decided'
      BY <1>5, DecisionsSurvive DEF SendOp, TypeOK, StepFits, OpSteps, At, Goto, SchedulerInv, Senders
    <2>6. DependenciesFirst'
      BY <1>5 DEF SendOp, TypeOK, StepFits, OpSteps, At, Goto, SchedulerInv, Senders, DependenciesFirst, DependenciesDone
    <2>. QED BY <2>1, <2>2, <2>3, <2>4, <2>5, <2>6 DEF SchedulerInv
  <1>6. CASE SendFails(w)
    <2>1. StartIsFirst'
      BY <1>6, OpsAssumption DEF SendFails, TypeOK, StepFits, OpSteps, At, Goto, SchedulerInv, StartIsFirst, Tasks, jobVars, Statuses, Senders
    <2>2. Untouched' /\ RunsAtMostOnce'
      BY <1>6, OpsAssumption DEF SendFails, TypeOK, StepFits, OpSteps, At, Goto, SchedulerInv, Untouched, RunsAtMostOnce, Senders, Tasks
    <2>3. Owners'
      BY <1>6 DEF SendFails, TypeOK, StepFits, OpSteps, At, Goto, SchedulerInv, Owners, OwnSteps, Senders
    <2>4. Senders'
      BY <1>6, OpsAssumption DEF SendFails, TypeOK, StepFits, OpSteps, At, Goto, SchedulerInv, Senders, Tasks
    <2>5. Decided'
      BY <1>6, DecisionsSurvive DEF SendFails, TypeOK, StepFits, OpSteps, At, Goto, SchedulerInv, Senders
    <2>6. DependenciesFirst'
      BY <1>6 DEF SendFails, TypeOK, StepFits, OpSteps, At, Goto, SchedulerInv, Senders, DependenciesFirst, DependenciesDone
    <2>. QED BY <2>1, <2>2, <2>3, <2>4, <2>5, <2>6 DEF SchedulerInv
  <1>7. CASE EndEnqueue(w)
    <2>1. Decided'
      BY <1>7, DecisionsSurvive DEF EndEnqueue, planVars, SchedulerInv
    <2>2. snapshot'.kind # "none"
      BY <1>7 DEF EndEnqueue, At, SchedulerInv, StartIsFirst, jobVars, Publish, Message
    <2>3. /\ UNCHANGED <<status, runs, inbox, held, sending>>
          /\ pc' = [pc EXCEPT ![w] = "readStates"]
          /\ pc[w] = "enqueue"
      BY <1>7 DEF EndEnqueue, At, Goto, planVars
    <2>4. "readStates" \in Steps /\ "readStates" \notin OwnSteps
      BY <2>3 DEF Steps, OpSteps, AdvanceSteps, OwnSteps
    <2>. QED BY <2>1, <2>2, <2>3, <2>4, QuietStep DEF SchedulerInv
  <1>8. CASE PublishStates(w)
    <2>0. snapshot'.kind # "none" /\ pc[w] = "publishStates"
      BY <1>8 DEF PublishStates, At, Publish, Message
    <2>1. CASE Release(w)
      BY <1>8, <2>0, <2>1, ReturnStep DEF PublishStates, planVars
    <2>2. CASE ~Release(w)
      <3>1. /\ UNCHANGED <<status, runs, inbox, held, sending, seen, ready>>
            /\ \E step \in {"advance", "conclude"} : pc' = [pc EXCEPT ![w] = step]
        BY <1>8, <2>2 DEF PublishStates, Goto, planVars
      <3>2. Decided'
        BY <3>1, DecisionsSurvive DEF SchedulerInv
      <3>. QED BY <2>0, <3>1, <3>2, QuietStep DEF SchedulerInv, Steps, AdvanceSteps, OwnSteps
    <2>. QED BY <2>1, <2>2
  <1>9. CASE Conclude(w)
    <2>1. snapshot'.kind # "none"
      BY <1>9 DEF Conclude, Publish, Message
    <2>. QED BY <1>9, <2>1, ReturnStep DEF Conclude, At, planVars
  <1>. QED BY <1>1, <1>2, <1>3, <1>4, <1>5, <1>6, <1>7, <1>8, <1>9 DEF AdvanceStep

LEMMA TakeInv ==
    ASSUME TypeOK, SchedulerInv, NEW w \in Workers, Take(w) PROVE SchedulerInv'
  <1>0. PICK t \in Tasks :
          /\ inbox[t] > 0
          /\ inbox' = [inbox EXCEPT ![t] = @ - 1]
          /\ held' = [held EXCEPT ![w] = t]
          /\ pc' = [pc EXCEPT ![w] = IF t = Start THEN "setup" ELSE "claim"]
    BY DEF Take, Goto
  <1>1. /\ pc[w] = "idle" /\ held[w] = NoTask
        /\ UNCHANGED <<status, runs, snapshot, sending, seen, ready>>
        /\ inbox[t] \in Nat /\ inbox \in [Tasks -> Nat]
        /\ Start \in Tasks /\ Start \notin Ops /\ NoTask \notin Tasks
    BY OpsAssumption DEF Take, At, jobVars, TypeOK, StepFits, Tasks
  <1>2. CASE t = Start
    <2>1. StartIsFirst'
      BY <1>0, <1>1, <1>2, OpsAssumption DEF TypeOK, SchedulerInv, StartIsFirst
    <2>2. Untouched' /\ Senders'
      BY <1>0, <1>1, <1>2 DEF TypeOK, SchedulerInv, Untouched, Senders, Tasks
    <2>3. Owners'
      BY <1>0, <1>1, <1>2 DEF TypeOK, SchedulerInv, Owners, OwnSteps
    <2>. QED BY <1>1, <2>1, <2>2, <2>3 DEF SchedulerInv, Decided, DependenciesFirst,
             DependenciesDone, RunsAtMostOnce
  <1>3. CASE t \in Ops
    <2>0. status[t] \notin {"absent", "pending"}
      BY <1>0, <1>1, <1>3 DEF SchedulerInv, Untouched
    <2>1. StartIsFirst'
      BY <1>0, <1>1, <1>3, <2>0, OpsAssumption DEF TypeOK, SchedulerInv, StartIsFirst, StepFits,
         OpSteps, StartSteps, AdvanceSteps, Steps
    <2>2. Untouched'
      BY <1>0, <1>1, <1>3, <2>0 DEF TypeOK, SchedulerInv, Untouched, Tasks
    <2>3. Senders'
      BY <1>0, <1>1, <1>3 DEF TypeOK, SchedulerInv, Senders, Tasks
    <2>4. Owners'
      BY <1>0, <1>1, <1>3 DEF TypeOK, SchedulerInv, Owners, OwnSteps
    <2>. QED BY <1>1, <2>1, <2>2, <2>3, <2>4 DEF SchedulerInv, Decided, DependenciesFirst,
             DependenciesDone, RunsAtMostOnce
  <1>. QED BY <1>2, <1>3 DEF Tasks

LEMMA FaultInv ==
    ASSUME MaxStartRedeliveries = 0, MaxOutages = 0,
           TypeOK, SchedulerInv, NEW w \in Workers, FaultStep(w)
    PROVE  SchedulerInv'
  <1>1. CASE Crash(w)
    <2>1. pc[w] # "idle" /\ held[w] \in Ops
      BY <1>1, OpsAssumption DEF Crash, TypeOK, StepFits
    <2>2. snapshot'.kind # "none"
      BY <1>1, <2>1 DEF Crash, SchedulerInv, StartIsFirst, jobVars
    <2>. QED BY <1>1, <2>1, <2>2, ReturnStep DEF Crash
  <1>2. CASE RedeliverSlow(w)
    <2>1. StartIsFirst'
      BY <1>2, OpsAssumption DEF RedeliverSlow, TypeOK, StepFits, OpSteps, At, Goto, SchedulerInv, StartIsFirst, Tasks, jobVars, localVars
    <2>2. Untouched' /\ Senders'
      BY <1>2, OpsAssumption DEF RedeliverSlow, TypeOK, StepFits, OpSteps, At, Goto, SchedulerInv, Untouched, Senders, Tasks, localVars
    <2>3. Owners' /\ Decided'
      BY <1>2 DEF RedeliverSlow, SchedulerInv, Owners, Decided, DependenciesDone, localVars
    <2>4. DependenciesFirst' /\ RunsAtMostOnce'
      BY <1>2 DEF RedeliverSlow, SchedulerInv, DependenciesFirst, DependenciesDone, RunsAtMostOnce
    <2>. QED BY <2>1, <2>2, <2>3, <2>4 DEF SchedulerInv
  <1>3. ~CrashStart(w) /\ ~PublishRaises(w)
    BY DEF CrashStart, PublishRaises, TypeOK, Faults
  <1>. QED BY <1>1, <1>2, <1>3 DEF FaultStep

LEMMA NextInv ==
    ASSUME MaxStartRedeliveries = 0, MaxOutages = 0, TypeOK, SchedulerInv, [Next]_vars
    PROVE  SchedulerInv'
  <1>1. CASE UNCHANGED vars
    BY <1>1 DEF vars, planVars, jobVars, localVars, SchedulerInv, StartIsFirst, Untouched, Owners,
       Senders, Decided, DependenciesFirst, DependenciesDone, RunsAtMostOnce
  <1>2. CASE Next
    BY <1>2, RequestInv, StartInv, OpInv, AdvanceInv, TakeInv, FaultInv DEF Next, WorkerStep
  <1>. QED BY <1>1, <1>2

\* While the start task is executed once and publishing works, an operation is
\* enqueued, run or done only after its dependencies, and its body reaches the
\* lab once at most: for every plan, any number of slots, any number of dead or
\* slow slots and failing sends, and stops at any moment.
THEOREM SafeScheduling ==
    ASSUME MaxStartRedeliveries = 0, MaxOutages = 0
    PROVE  Spec => [](DependenciesFirst /\ RunsAtMostOnce)
  <1>1. Init => TypeOK /\ SchedulerInv
    BY InitType, InitInv
  <1>2. TypeOK /\ SchedulerInv /\ [Next]_vars => (TypeOK /\ SchedulerInv)'
    BY NextType, NextInv
  <1>3. SchedulerInv => DependenciesFirst /\ RunsAtMostOnce
    BY DEF SchedulerInv
  <1>. QED BY <1>1, <1>2, <1>3, PTL DEF Spec

-----------------------------------------------------------------------------
\* PlanScheduler implements PlanExecution, and a concluded plan is final.

\* What a slot has read of a finished operation is still so, what it is about to cancel may
\* be cancelled, and it concludes only on a list of finished operations.
Excused ==
    \A w \in Workers :
        /\ \A o \in Ops : seen[w][o] \in Terminal => status[o] = seen[w][o]
        /\ \A o \in blocked[w] : cancel # "none" \/ DependencyFailed(status, o)
        /\ pc[w] = "conclude" => AllTerminal(seen[w])
ExecutionInv == Excused /\ ConcludedIsFinal

\* The ways of one operation from a status to the next, and what each rests on.
Moves(o) ==
    /\ \A p \in Ops \ {o} : status'[p] = status[p]
    /\ \/ status[o] = "pending" /\ status'[o] = "queued" /\ DependenciesDone(status, o)
       \/ /\ status[o] = "pending" /\ status'[o] = "cancelled"
          /\ cancel # "none" \/ DependencyFailed(status, o)
       \/ status[o] = "queued" /\ status'[o] \in {"running", "error"}
       \/ status[o] = "running" /\ status'[o] \in {"running", "done", "error"}
       \/ status[o] = "running" /\ status'[o] = "cancelled" /\ cancel # "none"
\* One of them, none, or all of them from nothing to pending.
StatusStep ==
    \/ UNCHANGED status
    \/ \A o \in Ops : status[o] = "absent" /\ status'[o] = "pending"
    \/ \E o \in Ops : Moves(o)

\* Every action takes an operation one of these ways: a slot compares before it writes, or
\* owns what it writes.
LEMMA StatusSteps ==
    ASSUME MaxStartRedeliveries = 0, MaxOutages = 0, TypeOK, SchedulerInv, Excused, [Next]_vars
    PROVE  /\ StatusStep
           /\ \/ UNCHANGED cancel
              \/ cancel' # "none" /\ UNCHANGED status
  <1>1. CASE UNCHANGED vars
    BY <1>1 DEF vars, planVars, jobVars, StatusStep
  <1>2. CASE Deploy \/ CancelOwn \/ StopByAdmin
    BY <1>2, WorkersAssumption DEF Deploy, CancelOwn, StopByAdmin, planVars, StatusStep
  <1>3. ASSUME NEW w \in Workers, Take(w) \/ StartStep(w)
        PROVE  StatusStep /\ UNCHANGED cancel
    <2>1. CASE ResetOps(w)
      <3>1. \A o \in Ops : status[o] = "absent"
        BY <2>1 DEF ResetOps, At, SchedulerInv, StartIsFirst
      <3>. QED BY <2>1, <3>1 DEF ResetOps, jobVars, StatusStep
    <2>2. CASE ~ResetOps(w)
      BY <1>3, <2>2 DEF Take, StartStep, SetUp, SetUpFails, Announce, jobVars, planVars, StatusStep
    <2>. QED BY <2>1, <2>2
  <1>4. ASSUME NEW w \in Workers, OpStep(w) \/ ReadForPublish(w)
        PROVE  StatusStep /\ UNCHANGED cancel
    <2>1. pc[w] \in OwnSteps => held[w] \in Ops /\ status[held[w]] = "running"
      BY DEF TypeOK, StepFits, OpSteps, OwnSteps, SchedulerInv, Owners
    <2>2. CASE Claim(w)
      <3>1. held[w] \in Ops
        BY <2>2 DEF Claim, At, TypeOK, StepFits, OpSteps
      <3>2. Moves(held[w]) /\ UNCHANGED cancel
        BY <2>2, <3>1 DEF Claim, TaskClaims, Moves, TypeOK, jobVars
      <3>. QED BY <3>1, <3>2 DEF StatusStep
    <2>3. CASE CheckCancelled(w)
      <3>1. Moves(held[w]) /\ held[w] \in Ops /\ UNCHANGED cancel
        BY <2>1, <2>3 DEF CheckCancelled, At, OwnSteps, Moves, TypeOK, jobVars
      <3>. QED BY <3>1 DEF StatusStep
    <2>4. CASE BeginOp(w)
      <3>1. Moves(held[w]) /\ held[w] \in Ops /\ UNCHANGED cancel
        BY <2>1, <2>4 DEF BeginOp, At, OwnSteps, Moves, TypeOK, jobVars
      <3>. QED BY <3>1 DEF StatusStep
    <2>5. CASE FinishBody(w)
      <3>1. Moves(held[w]) /\ held[w] \in Ops /\ UNCHANGED cancel
        BY <2>1, <2>5 DEF FinishBody, At, OwnSteps, Moves, TypeOK, jobVars
      <3>. QED BY <3>1 DEF StatusStep
    <2>6. CASE ClaimLost(w) \/ CheckPasses(w) \/ EnterBody(w) \/ PublishOwn(w) \/ ReadForPublish(w)
      BY <2>6 DEF ClaimLost, CheckPasses, EnterBody, PublishOwn, ReadForPublish, planVars, jobVars,
         StatusStep
    <2>. QED BY <1>4, <2>2, <2>3, <2>4, <2>5, <2>6 DEF OpStep
  <1>5. ASSUME NEW w \in Workers, AdvanceStep(w)
        PROVE  StatusStep /\ UNCHANGED cancel
    <2>1. CASE CancelBlocked(w)
      <3>1. PICK o \in blocked[w] :
              IF status[o] = "pending" THEN status' = [status EXCEPT ![o] = "cancelled"]
              ELSE UNCHANGED status
        BY <2>1 DEF CancelBlocked
      <3>2. o \in Ops /\ (cancel # "none" \/ DependencyFailed(status, o))
        BY DEF TypeOK, Excused
      <3>3. UNCHANGED status \/ Moves(o)
        BY <3>1, <3>2 DEF Moves, TypeOK
      <3>. QED BY <2>1, <3>2, <3>3 DEF CancelBlocked, jobVars, StatusStep
    <2>2. CASE ClaimReady(w)
      <3>1. PICK o \in ready[w] :
              IF EnqueueClaims(o) THEN status' = [status EXCEPT ![o] = "queued"]
              ELSE UNCHANGED status
        BY <2>2 DEF ClaimReady
      <3>2. o \in Ops /\ DependenciesDone(status, o)
        BY DEF TypeOK, SchedulerInv, Decided
      <3>3. UNCHANGED status \/ Moves(o)
        BY <3>1, <3>2 DEF EnqueueClaims, Moves, TypeOK
      <3>. QED BY <2>2, <3>2, <3>3 DEF ClaimReady, jobVars, StatusStep
    <2>3. CASE SendFails(w)
      <3>1. sending[w] \in Ops
        BY <2>3 DEF SendFails, At, TypeOK, StepFits
      <3>2. Moves(sending[w]) /\ UNCHANGED cancel
        BY <2>3, <3>1 DEF SendFails, SchedulerInv, Senders, Moves, TypeOK, jobVars
      <3>. QED BY <3>1, <3>2 DEF StatusStep
    <2>4. CASE Advance(w) \/ EndRound(w) \/ SendOp(w) \/ EndEnqueue(w) \/ PublishStates(w) \/ Conclude(w)
      BY <2>4 DEF Advance, EndRound, SendOp, EndEnqueue, PublishStates, Conclude, planVars, jobVars,
         StatusStep
    <2>. QED BY <1>5, <2>1, <2>2, <2>3, <2>4 DEF AdvanceStep
  <1>6. ASSUME NEW w \in Workers, FaultStep(w)
        PROVE  StatusStep /\ UNCHANGED cancel
    <2>1. ~PublishRaises(w)
      BY DEF PublishRaises, TypeOK, Faults
    <2>. QED BY <1>6, <2>1 DEF FaultStep, Crash, RedeliverSlow, CrashStart, jobVars, StatusStep
  <1>. QED BY <1>1, <1>2, <1>3, <1>4, <1>5, <1>6 DEF Next, WorkerStep

\* A finished operation stays as it ended.
LEMMA FinishedStays ==
    ASSUME StatusStep, NEW o \in Ops, status[o] \in Terminal
    PROVE  status'[o] = status[o]
  BY DEF StatusStep, Moves, Terminal

\* What a slot knows after a step: it knew it before, or it is so.
Knows(v) ==
    /\ \A o \in Ops : seen'[v][o] \in Terminal =>
          seen'[v][o] = seen[v][o] \/ seen'[v][o] = status'[o]
    /\ \A o \in blocked'[v] :
          o \in blocked[v] \/ cancel' # "none" \/ DependencyFailed(status', o)
    /\ pc'[v] = "conclude" => AllTerminal(seen'[v])

\* A step that leaves a slot's reading and its list alone, and does not make it conclude.
LEMMA KnowsAsBefore ==
    ASSUME Excused, UNCHANGED <<seen, blocked>>,
           \A v \in Workers : pc'[v] = "conclude" => pc[v] = "conclude"
    PROVE  \A v \in Workers : Knows(v)
  BY DEF Excused, Knows

\* A slot that returns knows nothing.
LEMMA KnowsNothing ==
    ASSUME TypeOK, Excused, NEW w \in Workers, Release(w)
    PROVE  \A v \in Workers : Knows(v)
  <1>1. \A v \in Workers : v # w => seen'[v] = seen[v] /\ blocked'[v] = blocked[v] /\ pc'[v] = pc[v]
    BY DEF Release, TypeOK
  <1>2. seen'[w] = NoStates /\ blocked'[w] = {} /\ pc'[w] = "idle"
    BY DEF Release, TypeOK
  <1>3. \A o \in Ops : NoStates[o] \notin Terminal
    BY DEF NoStates, Terminal
  <1>. QED BY <1>1, <1>2, <1>3 DEF Knows, Excused

LEMMA KnowledgeSteps ==
    ASSUME MaxStartRedeliveries = 0, MaxOutages = 0, TypeOK, SchedulerInv, Excused, [Next]_vars
    PROVE  \A v \in Workers : Knows(v)
  <1>1. CASE UNCHANGED vars \/ Deploy \/ CancelOwn \/ StopByAdmin
    BY <1>1, KnowsAsBefore DEF vars, localVars, Deploy, CancelOwn, StopByAdmin
  <1>2. ASSUME NEW w \in Workers, Take(w) \/ StartStep(w)
        PROVE  \A v \in Workers : Knows(v)
    <2>1. CASE SetUpFails(w)
      BY <2>1, KnowsNothing DEF SetUpFails
    <2>2. CASE Take(w) \/ SetUp(w) \/ ResetOps(w) \/ Announce(w)
      <3>1. UNCHANGED <<seen, blocked>>
        BY <2>2 DEF Take, SetUp, ResetOps, Announce
      <3>2. \A v \in Workers : pc'[v] = "conclude" => pc[v] = "conclude"
        BY <2>2 DEF Take, SetUp, ResetOps, Announce, Goto, TypeOK
      <3>. QED BY <3>1, <3>2, KnowsAsBefore
    <2>. QED BY <1>2, <2>1, <2>2 DEF StartStep
  <1>3. ASSUME NEW w \in Workers, OpStep(w)
        PROVE  \A v \in Workers : Knows(v)
    <2>1. CASE ClaimLost(w)
      BY <2>1, KnowsNothing DEF ClaimLost
    <2>2. CASE Claim(w) \/ CheckCancelled(w) \/ CheckPasses(w) \/ BeginOp(w) \/ EnterBody(w)
               \/ FinishBody(w) \/ PublishOwn(w)
      <3>1. UNCHANGED <<seen, blocked>>
        BY <2>2 DEF Claim, CheckCancelled, CheckPasses, BeginOp, EnterBody, FinishBody, PublishOwn
      <3>2. \A v \in Workers : pc'[v] = "conclude" => pc[v] = "conclude"
        BY <2>2 DEF Claim, CheckCancelled, CheckPasses, BeginOp, EnterBody, FinishBody, PublishOwn,
           Goto, TypeOK
      <3>. QED BY <3>1, <3>2, KnowsAsBefore
    <2>. QED BY <1>3, <2>1, <2>2 DEF OpStep
  <1>4. ASSUME NEW w \in Workers, ReadForPublish(w)
        PROVE  \A v \in Workers : Knows(v)
    <2>1. \A v \in Workers : pc'[v] = "conclude" => pc[v] = "conclude" /\ v # w
      BY <1>4 DEF ReadForPublish, NextRead, Goto, TypeOK
    <2>2. seen' = [seen EXCEPT ![w] = status] /\ UNCHANGED <<status, blocked>>
      BY <1>4 DEF ReadForPublish, ReadStates, planVars
    <2>. QED BY <2>1, <2>2 DEF Knows, Excused, TypeOK
  <1>5. ASSUME NEW w \in Workers, AdvanceStep(w)
        PROVE  \A v \in Workers : Knows(v)
    <2>1. CASE Advance(w)
      <3>1. \A v \in Workers : pc'[v] = "conclude" => pc[v] = "conclude" /\ v # w
        BY <2>1 DEF Advance, Goto, TypeOK
      <3>2. /\ seen' = [seen EXCEPT ![w] = status] /\ UNCHANGED <<status, cancel>>
            /\ blocked' = [blocked EXCEPT ![w] =
                  IF cancel = "none" THEN BlockedOps(status) ELSE PendingOps(status)]
        BY <2>1 DEF Advance, ReadStates, planVars, jobVars
      <3>3. \A o \in blocked'[w] : cancel # "none" \/ DependencyFailed(status, o)
        BY <3>2 DEF BlockedOps, TypeOK
      <3>. QED BY <3>1, <3>2, <3>3 DEF Knows, Excused, TypeOK
    <2>2. CASE CancelBlocked(w)
      <3>1. PICK o \in blocked[w] :
              /\ blocked' = [blocked EXCEPT ![w] = @ \ {o}]
              /\ IF status[o] = "pending"
                   THEN /\ status' = [status EXCEPT ![o] = "cancelled"]
                        /\ seen' = [seen EXCEPT ![w] = [seen[w] EXCEPT ![o] = "cancelled"]]
                   ELSE UNCHANGED <<status, seen>>
        BY <2>2 DEF CancelBlocked
      <3>2. UNCHANGED pc /\ pc[w] # "conclude" /\ o \in Ops
        BY <2>2 DEF CancelBlocked, At, TypeOK
      <3>3. \A v \in Workers : \A p \in Ops :
               seen'[v][p] = seen[v][p] \/ seen'[v][p] = status'[p]
        <4>1. seen \in [Workers -> [Ops -> Statuses]] /\ status \in [Ops -> Statuses]
          BY DEF TypeOK
        <4>. QED BY <3>1, <3>2, <4>1
      <3>4. \A v \in Workers : v # w => seen'[v] = seen[v]
        BY <3>1 DEF TypeOK
      <3>5. \A v \in Workers : blocked'[v] \subseteq blocked[v]
        BY <3>1 DEF TypeOK
      <3>. QED BY <3>2, <3>3, <3>4, <3>5 DEF Knows, Excused
    <2>3. CASE EndRound(w)
      <3>1. \A v \in Workers : pc'[v] = "conclude" => pc[v] = "conclude" /\ v # w
        BY <2>3 DEF EndRound, Goto, TypeOK
      <3>2. CASE cancel # "none"
        BY <2>3, <3>1, <3>2, KnowsAsBefore DEF EndRound
      <3>3. CASE cancel = "none"
        <4>1. /\ seen' = [seen EXCEPT ![w] = IF changed[w] THEN seen[w] ELSE status]
              /\ blocked' = [blocked EXCEPT ![w] = BlockedOps(seen'[w])]
              /\ UNCHANGED status
          BY <2>3, <3>3 DEF EndRound, planVars
        <4>2. \A o \in Ops : seen'[w][o] \in Terminal => status[o] = seen'[w][o]
          BY <4>1 DEF TypeOK, Excused
        <4>3. \A o \in blocked'[w] : DependencyFailed(status, o)
          BY <4>1, <4>2, OpsAssumption DEF BlockedOps, DependencyFailed, Terminal, TypeOK
        <4>. QED BY <3>1, <4>1, <4>2, <4>3 DEF Knows, Excused, TypeOK
      <3>. QED BY <3>2, <3>3
    <2>4. CASE ClaimReady(w) \/ SendOp(w) \/ SendFails(w) \/ EndEnqueue(w)
      <3>1. UNCHANGED <<seen, blocked>>
        BY <2>4 DEF ClaimReady, SendOp, SendFails, EndEnqueue
      <3>2. \A v \in Workers : pc'[v] = "conclude" => pc[v] = "conclude"
        BY <2>4 DEF ClaimReady, SendOp, SendFails, EndEnqueue, Goto, TypeOK
      <3>. QED BY <3>1, <3>2, KnowsAsBefore
    <2>5. CASE PublishStates(w)
      <3>1. CASE Release(w)
        BY <3>1, KnowsNothing
      <3>2. CASE ~Release(w)
        <4>1. UNCHANGED <<seen, blocked>>
          BY <2>5, <3>2 DEF PublishStates
        <4>2. \A v \in Workers : pc'[v] = "conclude" =>
                 pc[v] = "conclude" \/ (v = w /\ AllTerminal(seen[w]))
          BY <2>5, <3>2 DEF PublishStates, Goto, TypeOK
        <4>. QED BY <4>1, <4>2 DEF Knows, Excused
      <3>. QED BY <3>1, <3>2
    <2>6. CASE Conclude(w)
      BY <2>6, KnowsNothing DEF Conclude
    <2>. QED BY <1>5, <2>1, <2>2, <2>3, <2>4, <2>5, <2>6 DEF AdvanceStep
  <1>6. ASSUME NEW w \in Workers, FaultStep(w)
        PROVE  \A v \in Workers : Knows(v)
    <2>1. ~PublishRaises(w) /\ ~CrashStart(w)
      BY DEF PublishRaises, CrashStart, TypeOK, Faults
    <2>2. CASE Crash(w)
      BY <2>2, KnowsNothing DEF Crash
    <2>3. CASE RedeliverSlow(w)
      BY <2>3, KnowsAsBefore DEF RedeliverSlow, localVars
    <2>. QED BY <1>6, <2>1, <2>2, <2>3 DEF FaultStep
  <1>. QED BY <1>1, <1>2, <1>3, <1>4, <1>5, <1>6 DEF Next, WorkerStep

\* The terminal message is published by a slot that read only finished operations, or
\* reports that no operation exists.
LEMMA TerminalMessages ==
    ASSUME MaxStartRedeliveries = 0, MaxOutages = 0, TypeOK, [Next]_vars,
           snapshot'.kind \in TerminalKinds, snapshot'.ops # NoStates
    PROVE  \/ UNCHANGED snapshot
           \/ \E w \in Workers : pc[w] = "conclude" /\ snapshot'.ops = seen[w] /\ UNCHANGED status
  <1>1. CASE UNCHANGED vars \/ Deploy \/ CancelOwn \/ StopByAdmin
    BY <1>1 DEF vars, jobVars, Deploy, CancelOwn, StopByAdmin, Publish, Message, TerminalKinds
  <1>2. ASSUME NEW w \in Workers, Take(w) \/ StartStep(w) \/ OpStep(w) \/ ReadForPublish(w)
        PROVE  UNCHANGED snapshot
    BY <1>2 DEF Take, StartStep, SetUp, SetUpFails, ResetOps, Announce, OpStep, Claim, ClaimLost,
       CheckCancelled, CheckPasses, BeginOp, EnterBody, FinishBody, PublishOwn, ReadForPublish,
       jobVars, Publish, Message, TerminalKinds
  <1>3. ASSUME NEW w \in Workers, AdvanceStep(w), ~Conclude(w)
        PROVE  UNCHANGED snapshot
    BY <1>3 DEF AdvanceStep, Advance, CancelBlocked, EndRound, ClaimReady, SendOp, SendFails,
       EndEnqueue, PublishStates, jobVars, Publish, Message, TerminalKinds
  <1>4. ASSUME NEW w \in Workers, Conclude(w)
        PROVE  pc[w] = "conclude" /\ snapshot'.ops = seen[w] /\ UNCHANGED status
    BY <1>4 DEF Conclude, At, Publish, Message, planVars
  <1>5. ASSUME NEW w \in Workers, FaultStep(w)
        PROVE  UNCHANGED snapshot
    <2>1. ~PublishRaises(w)
      BY DEF PublishRaises, TypeOK, Faults
    <2>. QED BY <1>5, <2>1 DEF FaultStep, Crash, RedeliverSlow, CrashStart, jobVars
  <1>. QED BY <1>1, <1>2, <1>3, <1>4, <1>5 DEF Next, WorkerStep

LEMMA ExecutionStep ==
    ASSUME MaxStartRedeliveries = 0, MaxOutages = 0, TypeOK, SchedulerInv, ExecutionInv,
           TypeOK', [Next]_vars
    PROVE  ExecutionInv'
  <1>1. /\ StatusStep
        /\ cancel # "none" => cancel' # "none"
        /\ \A v \in Workers : Knows(v)
    BY StatusSteps, KnowledgeSteps DEF ExecutionInv
  <1>2. \A o \in Ops : status[o] \in Terminal => status'[o] = status[o]
    BY <1>1, FinishedStays
  <1>3. Excused'
    <2>. SUFFICES ASSUME NEW v \in Workers
         PROVE /\ \A o \in Ops : seen'[v][o] \in Terminal => status'[o] = seen'[v][o]
               /\ \A o \in blocked'[v] : cancel' # "none" \/ DependencyFailed(status', o)
               /\ pc'[v] = "conclude" => AllTerminal(seen'[v])
      BY DEF Excused
    <2>1. \A o \in Ops : seen'[v][o] \in Terminal => status'[o] = seen'[v][o]
      BY <1>1, <1>2 DEF Knows, ExecutionInv, Excused
    <2>2. ASSUME NEW o \in Ops, DependencyFailed(status, o) PROVE DependencyFailed(status', o)
      BY <1>2, <2>2, OpsAssumption DEF DependencyFailed, Terminal
    <2>3. \A o \in blocked'[v] : cancel' # "none" \/ DependencyFailed(status', o)
      BY <1>1, <2>2 DEF Knows, ExecutionInv, Excused, TypeOK
    <2>. QED BY <1>1, <2>1, <2>3 DEF Knows
  <1>4. ConcludedIsFinal'
    <2>. SUFFICES ASSUME snapshot'.kind \in TerminalKinds, snapshot'.ops # NoStates
                  PROVE  AllTerminal(status') /\ snapshot'.ops = status'
      BY DEF ConcludedIsFinal
    <2>1. CASE UNCHANGED snapshot
      <3>1. AllTerminal(status) /\ snapshot.ops = status
        BY <2>1 DEF ExecutionInv, ConcludedIsFinal
      <3>2. status' = status
        BY <1>2, <3>1 DEF AllTerminal, TypeOK
      <3>. QED BY <2>1, <3>1, <3>2
    <2>2. ASSUME NEW w \in Workers, pc[w] = "conclude", snapshot'.ops = seen[w], UNCHANGED status
          PROVE  AllTerminal(status') /\ snapshot'.ops = status'
      <3>1. AllTerminal(seen[w]) /\ \A o \in Ops : status[o] = seen[w][o]
        BY <2>2 DEF ExecutionInv, Excused, AllTerminal
      <3>2. seen[w] = status
        BY <3>1 DEF TypeOK
      <3>. QED BY <2>2, <3>1, <3>2
    <2>. QED BY <2>1, <2>2, TerminalMessages
  <1>. QED BY <1>3, <1>4 DEF ExecutionInv

LEMMA InitExecution == Init => ExecutionInv
  BY DEF Init, ExecutionInv, Excused, ConcludedIsFinal, NoStates, Terminal, TerminalKinds, Message

\* When the job's stream has ended with a list of operations, that list is what became of
\* them and none is left to run: for every plan and any number of slots, dead or slow slots,
\* failing sends and stops, while the start task runs once and publishing works.
THEOREM ConcludedPlansAreFinal ==
    ASSUME MaxStartRedeliveries = 0, MaxOutages = 0
    PROVE  Spec => []ConcludedIsFinal
  <1>1. Init => TypeOK /\ SchedulerInv /\ ExecutionInv
    BY InitType, InitInv, InitExecution
  <1>2. TypeOK /\ SchedulerInv /\ ExecutionInv /\ [Next]_vars
          => (TypeOK /\ SchedulerInv /\ ExecutionInv)'
    BY NextType, NextInv, ExecutionStep
  <1>3. ExecutionInv => ConcludedIsFinal
    BY DEF ExecutionInv
  <1>. QED BY <1>1, <1>2, <1>3, PTL DEF Spec

\* A step of the scheduler is a step of the execution it promises, or none: claims,
\* readings and messages are stutters.
LEMMA RefinementStep ==
    ASSUME TypeOK, StatusStep,
           \/ UNCHANGED cancel
           \/ cancel' # "none" /\ UNCHANGED status
    PROVE  [Execution!Next]_(Execution!vars)
  <1> DEFINE fate == [o \in Ops |-> FateOf(status[o])]
             stopping == cancel # "none"
  <1>1. ASSUME UNCHANGED status PROVE UNCHANGED fate
    BY <1>1
  <1>2. CASE cancel' # cancel
    BY <1>1, <1>2 DEF Execution!Next, Execution!Stop
  <1>3. CASE UNCHANGED <<status, cancel>>
    BY <1>1, <1>3 DEF Execution!vars
  <1>4. CASE UNCHANGED cancel /\ \A o \in Ops : status[o] = "absent" /\ status'[o] = "pending"
    BY <1>4 DEF Execution!vars, FateOf
  <1>5. ASSUME UNCHANGED cancel, NEW o \in Ops, Moves(o)
        PROVE  [Execution!Next]_(Execution!vars)
    <2>1. fate' = [fate EXCEPT ![o] = FateOf(status'[o])]
      BY <1>5 DEF Moves
    <2>2. \A d \in Ops : fate[d] = FateOf(status[d])
      OBVIOUS
    <2>3. CASE status[o] = "pending" /\ status'[o] = "queued" /\ DependenciesDone(status, o)
      BY <1>5, <2>1, <2>2, <2>3, OpsAssumption
         DEF FateOf, DependenciesDone, Execution!Next, Execution!Begin
    <2>4. CASE /\ status[o] = "pending" /\ status'[o] = "cancelled"
               /\ cancel # "none" \/ DependencyFailed(status, o)
      BY <1>5, <2>1, <2>2, <2>4, OpsAssumption
         DEF FateOf, DependencyFailed, Execution!Next, Execution!Skip
    <2>5. CASE \/ status[o] = "queued" /\ status'[o] = "running"
               \/ status[o] = "running" /\ status'[o] = "running"
      <3>1. FateOf(status'[o]) = fate[o]
        BY <2>5 DEF FateOf
      <3>. QED BY <1>5, <2>1, <3>1 DEF Execution!vars
    <2>6. CASE status[o] \in {"queued", "running"} /\ status'[o] \in {"done", "error"}
      BY <1>5, <2>1, <2>2, <2>6 DEF FateOf, Execution!Next, Execution!End
    <2>7. CASE status[o] = "running" /\ status'[o] = "cancelled" /\ cancel # "none"
      BY <1>5, <2>1, <2>2, <2>7 DEF FateOf, Execution!Next, Execution!End
    <2>. QED BY <1>5, <2>3, <2>4, <2>5, <2>6, <2>7 DEF Moves
  <1>. QED BY <1>2, <1>3, <1>4, <1>5 DEF StatusStep

\* PlanScheduler implements PlanExecution: whatever the slots, messages and stale readings,
\* what becomes of the operations is what a plan promises: each starts after its
\* dependencies, is skipped only for a reason, and its fate never changes.
THEOREM SchedulerExecutesPlan ==
    ASSUME MaxStartRedeliveries = 0, MaxOutages = 0
    PROVE  Spec => ExecutesPlan
  <1>1. Init => TypeOK /\ SchedulerInv /\ ExecutionInv
    BY InitType, InitInv, InitExecution
  <1>2. TypeOK /\ SchedulerInv /\ ExecutionInv /\ [Next]_vars
          => (TypeOK /\ SchedulerInv /\ ExecutionInv)'
    BY NextType, NextInv, ExecutionStep
  <1>3. Init => Execution!Init
    BY DEF Init, Execution!Init, NoStates, FateOf
  <1>4. TypeOK /\ SchedulerInv /\ ExecutionInv /\ [Next]_vars => [Execution!Next]_(Execution!vars)
    BY StatusSteps, RefinementStep DEF ExecutionInv
  <1>. QED BY <1>1, <1>2, <1>3, <1>4, PTL DEF Spec, ExecutesPlan, Execution!Spec

\* A finished operation never changes its status again, under the same conditions.
THEOREM FinishedOperationsStay ==
    ASSUME MaxStartRedeliveries = 0, MaxOutages = 0
    PROVE  Spec => FinishedStaysFinished
  <1>1. Init => TypeOK /\ SchedulerInv /\ ExecutionInv
    BY InitType, InitInv, InitExecution
  <1>2. TypeOK /\ SchedulerInv /\ ExecutionInv /\ [Next]_vars
          => (TypeOK /\ SchedulerInv /\ ExecutionInv)'
    BY NextType, NextInv, ExecutionStep
  <1>3. TypeOK /\ SchedulerInv /\ ExecutionInv /\ [Next]_vars
          => [\A o \in Ops : status[o] \in Terminal => status'[o] = status[o]]_vars
    BY StatusSteps, FinishedStays DEF ExecutionInv
  <1>. QED BY <1>1, <1>2, <1>3, PTL DEF Spec, FinishedStaysFinished

-----------------------------------------------------------------------------
\* One run of an operation for every execution of the start task.

\* What may still bring the body of o to the lab once: the slots on their way to it, the
\* status from which one more slot may claim it, and what may still reset the statuses.
Carriers(o) ==
    {w \in Workers : held[w] = o /\ pc[w] \in {"check", "begin", "readRun", "publishRun", "body"}}
Starters == {w \in Workers : pc[w] \in {"setup", "reset"}}
Claimable(o) == IF status[o] \in {"pending", "queued"} THEN 1 ELSE 0
Unsubmitted == IF snapshot.kind = "none" THEN 1 ELSE 0
Chances(o) ==
    runs[o] + Cardinality(Carriers(o)) + Claimable(o)
        + inbox[Start] + Cardinality(Starters) + Unsubmitted
RunBudget ==
    /\ IsFiniteSet(Starters)
    /\ \A o \in Ops : IsFiniteSet(Carriers(o)) /\ Chances(o) <= 1 + faults["restart"]

\* Sets of slots that a step changes by one.
LEMMA OneMore ==
    ASSUME NEW S, IsFiniteSet(S), NEW x, NEW T, T \subseteq S \cup {x}
    PROVE  IsFiniteSet(T) /\ Cardinality(T) <= Cardinality(S) + 1
  <1>0. Cardinality(S) \in Nat
    BY FS_CardinalityType
  <1>1. /\ IsFiniteSet(S \cup {x}) /\ Cardinality(S \cup {x}) <= Cardinality(S) + 1
    BY <1>0, FS_AddElement
  <1>2. T \in SUBSET (S \cup {x})
    OBVIOUS
  <1>3. IsFiniteSet(T) /\ Cardinality(T) <= Cardinality(S \cup {x})
    BY <1>1, <1>2, FS_Subset
  <1>4. Cardinality(T) \in Nat /\ Cardinality(S \cup {x}) \in Nat
    BY <1>1, <1>3, FS_CardinalityType
  <1>. QED BY <1>0, <1>1, <1>3, <1>4

LEMMA OneLess ==
    ASSUME NEW S, IsFiniteSet(S), NEW x \in S, NEW T, T \subseteq S \ {x}
    PROVE  IsFiniteSet(T) /\ Cardinality(T) <= Cardinality(S) - 1
  <1>1. IsFiniteSet(S \ {x}) /\ Cardinality(S \ {x}) = Cardinality(S) - 1
    BY FS_RemoveElement
  <1>2. T \in SUBSET (S \ {x})
    OBVIOUS
  <1>. QED BY <1>1, <1>2, FS_Subset

LEMMA NoMore ==
    ASSUME NEW S, IsFiniteSet(S), NEW T, T \subseteq S
    PROVE  IsFiniteSet(T) /\ Cardinality(T) <= Cardinality(S)
  BY FS_Subset

LEMMA InitBudget == Init => RunBudget
  <1>. SUFFICES ASSUME Init PROVE RunBudget
    OBVIOUS
  <1>1. Starters = {} /\ \A o \in Ops : Carriers(o) = {}
    BY DEF Init, Starters, Carriers
  <1>2. \A o \in Ops : runs[o] = 0 /\ Claimable(o) = 0
    BY DEF Init, Claimable, NoStates
  <1>3. inbox[Start] = 0 /\ Unsubmitted = 1 /\ faults["restart"] = 0
    BY DEF Init, Unsubmitted, Message, Tasks, Faults
  <1>. QED BY <1>1, <1>2, <1>3, FS_EmptySet DEF RunBudget, Chances

\* The terms of the budget are numbers.
LEMMA BudgetTypes ==
    ASSUME TypeOK, RunBudget
    PROVE  /\ inbox[Start] \in Nat /\ faults["restart"] \in Nat /\ Unsubmitted \in {0, 1}
           /\ IsFiniteSet(Starters) /\ Cardinality(Starters) \in Nat
           /\ \A o \in Ops : /\ runs[o] \in Nat /\ Claimable(o) \in {0, 1}
                             /\ IsFiniteSet(Carriers(o)) /\ Cardinality(Carriers(o)) \in Nat
  <1>1. IsFiniteSet(Starters) /\ \A o \in Ops : IsFiniteSet(Carriers(o))
    BY DEF RunBudget
  <1>. QED BY <1>1, FS_CardinalityType DEF TypeOK, Tasks, Faults, Unsubmitted, Claimable

\* A step that gives no operation a further chance.
LEMMA NoNewChance ==
    ASSUME TypeOK, TypeOK', RunBudget,
           Starters' \subseteq Starters,
           inbox'[Start] <= inbox[Start],
           faults["restart"] <= faults'["restart"],
           snapshot'.kind = "none" => snapshot.kind = "none",
           \A o \in Ops : /\ Carriers(o)' \subseteq Carriers(o)
                          /\ runs'[o] = runs[o]
                          /\ status'[o] \in {"pending", "queued"}
                                => status[o] \in {"pending", "queued"}
    PROVE  RunBudget'
  <1>1. IsFiniteSet(Starters') /\ Cardinality(Starters') <= Cardinality(Starters)
    BY NoMore, BudgetTypes
  <1>2. ASSUME NEW o \in Ops
        PROVE  IsFiniteSet(Carriers(o)') /\ Cardinality(Carriers(o)') <= Cardinality(Carriers(o))
    BY NoMore, BudgetTypes
  <1>3. \A o \in Ops : Claimable(o)' <= Claimable(o)
    BY DEF Claimable
  <1>4. Unsubmitted' <= Unsubmitted
    BY DEF Unsubmitted
  <1>5. /\ inbox'[Start] \in Nat /\ faults'["restart"] \in Nat /\ Unsubmitted' \in {0, 1}
        /\ Cardinality(Starters') \in Nat
        /\ \A o \in Ops : /\ Claimable(o)' \in {0, 1} /\ Cardinality(Carriers(o)') \in Nat
    BY <1>1, <1>2, FS_CardinalityType DEF TypeOK, Tasks, Faults, Unsubmitted, Claimable
  <1>6. \A o \in Ops : Chances(o)' <= 1 + faults'["restart"]
    BY <1>1, <1>2, <1>3, <1>4, <1>5, BudgetTypes DEF RunBudget, Chances
  <1>. QED BY <1>1, <1>2, <1>6 DEF RunBudget

LEMMA RequestBudget ==
    ASSUME TypeOK, TypeOK', RunBudget, Deploy \/ CancelOwn \/ StopByAdmin PROVE RunBudget'
  <1>1. UNCHANGED <<status, runs, held, pc, faults>>
    BY DEF Deploy, CancelOwn, StopByAdmin, planVars, localVars
  <1>2. Starters' = Starters /\ \A o \in Ops : Carriers(o)' = Carriers(o)
    BY <1>1 DEF Starters, Carriers
  <1>3. CASE Deploy
    <2>1. /\ inbox'[Start] = inbox[Start] + 1
          /\ Unsubmitted = 1 /\ Unsubmitted' = 0
      BY <1>3 DEF Deploy, Publish, Message, TypeOK, Tasks, Unsubmitted
    <2>2. \A o \in Ops : Claimable(o)' = Claimable(o)
      BY <1>1 DEF Claimable
    <2>3. \A o \in Ops : Chances(o)' = Chances(o)
      BY <1>1, <1>2, <2>1, <2>2, BudgetTypes DEF Chances
    <2>. QED BY <1>1, <1>2, <2>3 DEF RunBudget
  <1>4. CASE CancelOwn \/ StopByAdmin
    <2>1. UNCHANGED <<inbox, snapshot>>
      BY <1>4 DEF CancelOwn, StopByAdmin, planVars
    <2>2. inbox[Start] <= inbox[Start] /\ faults["restart"] <= faults["restart"]
      BY BudgetTypes
    <2>. QED BY <1>1, <1>2, <2>1, <2>2, NoNewChance
  <1>. QED BY <1>3, <1>4

\* A slot takes the start task: the message becomes a slot that may reset the statuses.
LEMMA TakeBudget ==
    ASSUME TypeOK, TypeOK', RunBudget, NEW w \in Workers, Take(w) PROVE RunBudget'
  <1>0. PICK t \in Tasks :
          /\ inbox[t] > 0
          /\ inbox' = [inbox EXCEPT ![t] = @ - 1]
          /\ held' = [held EXCEPT ![w] = t]
          /\ pc' = [pc EXCEPT ![w] = IF t = Start THEN "setup" ELSE "claim"]
    BY DEF Take, Goto
  <1>1. /\ pc[w] = "idle" /\ UNCHANGED <<status, runs, snapshot, faults>>
        /\ inbox \in [Tasks -> Nat] /\ Start \in Tasks
    BY DEF Take, At, jobVars, TypeOK, Tasks
  <1>2. \A o \in Ops : Carriers(o)' \subseteq Carriers(o)
    BY <1>0, <1>1 DEF Carriers, TypeOK
  <1>3. CASE t = Start
    <2>1. Starters' \subseteq Starters \cup {w}
      BY <1>0, <1>1, <1>3 DEF Starters, TypeOK
    <2>2. IsFiniteSet(Starters') /\ Cardinality(Starters') <= Cardinality(Starters) + 1
      BY <2>1, OneMore, BudgetTypes
    <2>3. \A o \in Ops : /\ IsFiniteSet(Carriers(o)')
                         /\ Cardinality(Carriers(o)') <= Cardinality(Carriers(o))
      BY <1>2, NoMore, BudgetTypes
    <2>4. inbox'[Start] = inbox[Start] - 1
      BY <1>0, <1>1, <1>3
    <2>5. Unsubmitted' = Unsubmitted /\ \A o \in Ops : Claimable(o)' = Claimable(o)
      BY <1>1 DEF Unsubmitted, Claimable
    <2>6. Cardinality(Starters') \in Nat /\ \A o \in Ops : Cardinality(Carriers(o)') \in Nat
      BY <2>2, <2>3, FS_CardinalityType
    <2>7. \A o \in Ops : Chances(o)' <= 1 + faults["restart"]
      BY <1>1, <2>2, <2>3, <2>4, <2>5, <2>6, BudgetTypes DEF RunBudget, Chances
    <2>. QED BY <1>1, <2>2, <2>3, <2>7 DEF RunBudget
  <1>4. CASE t # Start
    <2>1. Starters' \subseteq Starters
      BY <1>0, <1>1, <1>4 DEF Starters, TypeOK
    <2>2. inbox'[Start] <= inbox[Start] /\ faults["restart"] <= faults'["restart"]
      BY <1>0, <1>1, <1>4, BudgetTypes
    <2>. QED BY <1>1, <1>2, <2>1, <2>2, NoNewChance
  <1>. QED BY <1>3, <1>4

\* The reset makes every operation claimable, and is done once per execution of its task.
LEMMA StartBudget ==
    ASSUME TypeOK, TypeOK', RunBudget, NEW w \in Workers, StartStep(w) PROVE RunBudget'
  <1>1. CASE ResetOps(w)
    <2>1. /\ w \in Starters /\ Starters' \subseteq Starters \ {w}
          /\ \A o \in Ops : Carriers(o)' \subseteq Carriers(o)
      BY <1>1 DEF ResetOps, At, Goto, Starters, Carriers, TypeOK
    <2>2. /\ IsFiniteSet(Starters') /\ Cardinality(Starters') <= Cardinality(Starters) - 1
          /\ \A o \in Ops : /\ IsFiniteSet(Carriers(o)')
                            /\ Cardinality(Carriers(o)') <= Cardinality(Carriers(o))
      BY <2>1, OneLess, NoMore, BudgetTypes
    <2>3. /\ UNCHANGED <<runs, inbox, faults>> /\ Unsubmitted' = Unsubmitted
      BY <1>1 DEF ResetOps, jobVars, Unsubmitted
    <2>4. \A o \in Ops : Claimable(o)' \in {0, 1}
      BY DEF Claimable
    <2>5. Cardinality(Starters') \in Nat /\ \A o \in Ops : Cardinality(Carriers(o)') \in Nat
      BY <2>2, FS_CardinalityType
    <2>6. \A o \in Ops : Chances(o)' <= 1 + faults["restart"]
      BY <2>2, <2>3, <2>4, <2>5, BudgetTypes DEF RunBudget, Chances
    <2>. QED BY <2>2, <2>3, <2>6 DEF RunBudget
  <1>2. CASE SetUp(w) \/ SetUpFails(w) \/ Announce(w)
    <2>1. UNCHANGED <<status, runs, inbox, faults>> /\ snapshot'.kind # "none"
      BY <1>2 DEF SetUp, SetUpFails, Announce, planVars, Publish, Message
    <2>2. Starters' \subseteq Starters /\ \A o \in Ops : Carriers(o)' \subseteq Carriers(o)
      BY <1>2 DEF SetUp, SetUpFails, Announce, At, Goto, Release, Starters, Carriers, TypeOK
    <2>3. inbox[Start] <= inbox[Start] /\ faults["restart"] <= faults["restart"]
      BY BudgetTypes
    <2>. QED BY <2>1, <2>2, <2>3, NoNewChance
  <1>. QED BY <1>1, <1>2 DEF StartStep

\* A claim turns the status into a slot on its way; entering the body turns it into a run.
LEMMA OpBudget ==
    ASSUME TypeOK, TypeOK', RunBudget, NEW w \in Workers, OpStep(w) \/ ReadForPublish(w)
    PROVE  RunBudget'
  <1>1. CASE Claim(w)
    <2>1. /\ Starters' \subseteq Starters
          /\ UNCHANGED <<runs, inbox, faults>> /\ Unsubmitted' = Unsubmitted
      BY <1>1 DEF Claim, Goto, jobVars, Starters, Unsubmitted, TypeOK
    <2>2. \A o \in Ops : IF o = held[w]
            THEN /\ Carriers(o)' \subseteq Carriers(o) \cup {w}
                 /\ Claimable(o) = 1 /\ Claimable(o)' = 0
            ELSE Carriers(o)' \subseteq Carriers(o) /\ Claimable(o)' = Claimable(o)
      BY <1>1 DEF Claim, TaskClaims, Goto, Carriers, Claimable, TypeOK
    <2>3. /\ IsFiniteSet(Starters') /\ Cardinality(Starters') <= Cardinality(Starters)
          /\ Cardinality(Starters') \in Nat
      BY <2>1, NoMore, BudgetTypes, FS_CardinalityType
    <2>4. ASSUME NEW o \in Ops
          PROVE  IsFiniteSet(Carriers(o)') /\ Chances(o)' <= 1 + faults["restart"]
      <3>1. CASE o = held[w]
        <4>1. /\ IsFiniteSet(Carriers(o)')
              /\ Cardinality(Carriers(o)') <= Cardinality(Carriers(o)) + 1
          BY <2>2, <3>1, OneMore, BudgetTypes
        <4>2. Cardinality(Carriers(o)') \in Nat
          BY <4>1, FS_CardinalityType
        <4>. QED BY <2>1, <2>2, <2>3, <3>1, <4>1, <4>2, BudgetTypes DEF RunBudget, Chances
      <3>2. CASE o # held[w]
        <4>1. /\ IsFiniteSet(Carriers(o)')
              /\ Cardinality(Carriers(o)') <= Cardinality(Carriers(o))
          BY <2>2, <3>2, NoMore, BudgetTypes
        <4>2. Cardinality(Carriers(o)') \in Nat
          BY <4>1, FS_CardinalityType
        <4>. QED BY <2>1, <2>2, <2>3, <3>2, <4>1, <4>2, BudgetTypes DEF RunBudget, Chances
      <3>. QED BY <3>1, <3>2
    <2>. QED BY <2>1, <2>3, <2>4 DEF RunBudget
  <1>2. CASE EnterBody(w)
    <2>1. /\ Starters' \subseteq Starters
          /\ UNCHANGED <<status, inbox, faults>> /\ Unsubmitted' = Unsubmitted
      BY <1>2 DEF EnterBody, Goto, jobVars, Starters, Unsubmitted, TypeOK
    <2>2. \A o \in Ops : IF o = held[w]
            THEN /\ w \in Carriers(o) /\ Carriers(o)' \subseteq Carriers(o) \ {w}
                 /\ runs'[o] = runs[o] + 1
            ELSE Carriers(o)' \subseteq Carriers(o) /\ runs'[o] = runs[o]
      BY <1>2 DEF EnterBody, At, Goto, Carriers, TypeOK
    <2>3. /\ IsFiniteSet(Starters') /\ Cardinality(Starters') <= Cardinality(Starters)
          /\ Cardinality(Starters') \in Nat
      BY <2>1, NoMore, BudgetTypes, FS_CardinalityType
    <2>4. \A o \in Ops : Claimable(o)' = Claimable(o)
      BY <2>1 DEF Claimable
    <2>5. ASSUME NEW o \in Ops
          PROVE  IsFiniteSet(Carriers(o)') /\ Chances(o)' <= 1 + faults["restart"]
      <3>1. CASE o = held[w]
        <4>1. /\ IsFiniteSet(Carriers(o)')
              /\ Cardinality(Carriers(o)') <= Cardinality(Carriers(o)) - 1
          BY <2>2, <3>1, OneLess, BudgetTypes
        <4>2. Cardinality(Carriers(o)') \in Nat
          BY <4>1, FS_CardinalityType
        <4>. QED BY <2>1, <2>2, <2>3, <2>4, <3>1, <4>1, <4>2, BudgetTypes DEF RunBudget, Chances
      <3>2. CASE o # held[w]
        <4>1. /\ IsFiniteSet(Carriers(o)')
              /\ Cardinality(Carriers(o)') <= Cardinality(Carriers(o))
          BY <2>2, <3>2, NoMore, BudgetTypes
        <4>2. Cardinality(Carriers(o)') \in Nat
          BY <4>1, FS_CardinalityType
        <4>. QED BY <2>1, <2>2, <2>3, <2>4, <3>2, <4>1, <4>2, BudgetTypes DEF RunBudget, Chances
      <3>. QED BY <3>1, <3>2
    <2>. QED BY <2>1, <2>3, <2>5 DEF RunBudget
  <1>3. CASE \/ ClaimLost(w) \/ CheckCancelled(w) \/ CheckPasses(w) \/ BeginOp(w)
             \/ FinishBody(w) \/ PublishOwn(w) \/ ReadForPublish(w)
    <2>1. /\ UNCHANGED <<runs, inbox, faults>>
          /\ snapshot'.kind = "none" => snapshot.kind = "none"
      BY <1>3 DEF ClaimLost, CheckCancelled, CheckPasses, BeginOp, FinishBody, PublishOwn,
         ReadForPublish, planVars, jobVars, Publish, Message
    <2>2. \A o \in Ops :
             status'[o] \in {"pending", "queued"} => status[o] \in {"pending", "queued"}
      BY <1>3 DEF ClaimLost, CheckCancelled, CheckPasses, BeginOp, FinishBody, PublishOwn,
         ReadForPublish, planVars, TypeOK
    <2>3. /\ Starters' \subseteq Starters
      BY <1>3 DEF ClaimLost, CheckCancelled, CheckPasses, BeginOp, FinishBody, PublishOwn,
         ReadForPublish, NextRead, At, Goto, Release, Starters, TypeOK
    <2>4. \A o \in Ops : Carriers(o)' \subseteq Carriers(o)
      BY <1>3 DEF ClaimLost, CheckCancelled, CheckPasses, BeginOp, FinishBody, PublishOwn,
         ReadForPublish, NextRead, At, Goto, Release, Carriers, TypeOK
    <2>5. inbox[Start] <= inbox[Start] /\ faults["restart"] <= faults["restart"]
      BY BudgetTypes
    <2>. QED BY <2>1, <2>2, <2>3, <2>4, <2>5, NoNewChance
  <1>. QED BY <1>1, <1>2, <1>3 DEF OpStep

\* _advance_plan only narrows the chances: it queues what was pending, or ends it.
LEMMA AdvanceBudget ==
    ASSUME TypeOK, TypeOK', RunBudget, NEW w \in Workers, AdvanceStep(w) PROVE RunBudget'
  <1>1. /\ UNCHANGED runs /\ faults'["restart"] = faults["restart"]
        /\ snapshot'.kind = "none" => snapshot.kind = "none"
    BY DEF AdvanceStep, Advance, CancelBlocked, EndRound, ClaimReady, SendOp, SendFails, EndEnqueue,
       PublishStates, Conclude, planVars, jobVars, Publish, Message, TypeOK, Faults
  <1>2. inbox'[Start] = inbox[Start]
    BY OpsAssumption DEF AdvanceStep, Advance, CancelBlocked, EndRound, ClaimReady, SendOp, SendFails,
       EndEnqueue, PublishStates, Conclude, planVars, TypeOK, Tasks, StepFits, At
  <1>3. \A o \in Ops :
           status'[o] \in {"pending", "queued"} => status[o] \in {"pending", "queued"}
    BY DEF AdvanceStep, Advance, CancelBlocked, EndRound, ClaimReady, SendOp, SendFails,
       EndEnqueue, PublishStates, Conclude, planVars, EnqueueClaims, TypeOK
  <1>4. \A v \in Workers : /\ pc'[v] = pc[v] \/ pc'[v] \in AdvanceSteps \cup {"idle"}
                           /\ held'[v] = held[v] \/ pc'[v] = "idle"
    BY DEF AdvanceStep, Advance, CancelBlocked, EndRound, ClaimReady, SendOp, SendFails,
       EndEnqueue, PublishStates, Conclude, Goto, Release, TypeOK, AdvanceSteps
  <1>5. Starters' \subseteq Starters /\ \A o \in Ops : Carriers(o)' \subseteq Carriers(o)
    BY <1>4 DEF Starters, Carriers, AdvanceSteps
  <1>. QED BY <1>1, <1>2, <1>3, <1>5, BudgetTypes, NoNewChance

\* Only a dead slot of the start task adds a chance, and it counts as a restart.
LEMMA FaultBudget ==
    ASSUME TypeOK, TypeOK', RunBudget, NEW w \in Workers, FaultStep(w) PROVE RunBudget'
  <1>1. CASE CrashStart(w)
    <2>1. /\ inbox'[Start] = inbox[Start] + 1 /\ faults'["restart"] = faults["restart"] + 1
          /\ UNCHANGED <<status, runs>> /\ Unsubmitted' = Unsubmitted
      BY <1>1 DEF CrashStart, jobVars, Unsubmitted, TypeOK, Tasks, Faults
    <2>2. Starters' \subseteq Starters /\ \A o \in Ops : Carriers(o)' \subseteq Carriers(o)
      BY <1>1 DEF CrashStart, Release, Starters, Carriers, TypeOK
    <2>3. /\ IsFiniteSet(Starters') /\ Cardinality(Starters') <= Cardinality(Starters)
          /\ \A o \in Ops : /\ IsFiniteSet(Carriers(o)')
                            /\ Cardinality(Carriers(o)') <= Cardinality(Carriers(o))
      BY <2>2, NoMore, BudgetTypes
    <2>4. Cardinality(Starters') \in Nat /\ \A o \in Ops : Cardinality(Carriers(o)') \in Nat
      BY <2>3, FS_CardinalityType
    <2>5. \A o \in Ops : Claimable(o)' = Claimable(o)
      BY <2>1 DEF Claimable
    <2>6. \A o \in Ops : Chances(o)' <= 1 + faults'["restart"]
      BY <2>1, <2>3, <2>4, <2>5, BudgetTypes DEF RunBudget, Chances
    <2>. QED BY <2>3, <2>6 DEF RunBudget
  <1>2. CASE Crash(w) \/ RedeliverSlow(w) \/ PublishRaises(w)
    <2>0. faults'["restart"] = faults["restart"]
      <3>1. CASE Crash(w) BY <3>1 DEF Crash, TypeOK, Faults
      <3>2. CASE RedeliverSlow(w) BY <3>2 DEF RedeliverSlow, TypeOK, Faults
      <3>3. CASE PublishRaises(w) BY <3>3 DEF PublishRaises, TypeOK, Faults
      <3>. QED BY <1>2, <3>1, <3>2, <3>3
    <2>1. /\ UNCHANGED runs /\ faults'["restart"] = faults["restart"]
          /\ inbox'[Start] = inbox[Start]
          /\ snapshot'.kind = "none" => snapshot.kind = "none"
      BY <1>2, <2>0, OpsAssumption DEF Crash, RedeliverSlow, PublishRaises, jobVars, Publish, Message, TypeOK,
         Tasks, Faults
    <2>2. \A o \in Ops :
             status'[o] \in {"pending", "queued"} => status[o] \in {"pending", "queued"}
      BY <1>2 DEF Crash, RedeliverSlow, PublishRaises, TypeOK
    <2>3. \A v \in Workers : /\ pc'[v] = pc[v] \/ pc'[v] \in {"advance", "idle"}
                             /\ held'[v] = held[v] \/ pc'[v] = "idle"
      BY <1>2 DEF Crash, RedeliverSlow, PublishRaises, Goto, Release, localVars, TypeOK
    <2>4. Starters' \subseteq Starters /\ \A o \in Ops : Carriers(o)' \subseteq Carriers(o)
      BY <2>3 DEF Starters, Carriers
    <2>. QED BY <2>1, <2>2, <2>4, BudgetTypes, NoNewChance
  <1>. QED BY <1>1, <1>2 DEF FaultStep

\* An operation's body reaches the lab once per execution of the start task at most, whatever
\* slots die, messages come back, publishes raise or stops arrive: for every plan, any number
\* of slots and every bound on the faults, without further conditions.
THEOREM OneRunPerExecution == Spec => []OneRunPerStart
  <1>1. Init => TypeOK /\ RunBudget
    BY InitType, InitBudget
  <1>2. TypeOK /\ RunBudget /\ [Next]_vars => (TypeOK /\ RunBudget)'
    <2>. SUFFICES ASSUME TypeOK, RunBudget, [Next]_vars PROVE TypeOK' /\ RunBudget'
      OBVIOUS
    <2>1. TypeOK'
      BY NextType
    <2>2. CASE UNCHANGED vars
      <3>1. UNCHANGED <<status, runs, inbox, snapshot, held, pc, faults>>
        BY <2>2 DEF vars, planVars, jobVars, localVars
      <3>2. Starters' = Starters /\ \A o \in Ops : Carriers(o)' = Carriers(o)
        BY <3>1 DEF Starters, Carriers
      <3>. QED BY <2>1, <3>1, <3>2, BudgetTypes, NoNewChance
    <2>3. CASE Next
      BY <2>1, <2>3, RequestBudget, TakeBudget, StartBudget, OpBudget, AdvanceBudget, FaultBudget
         DEF Next, WorkerStep
    <2>. QED BY <2>1, <2>2, <2>3
  <1>3. TypeOK /\ RunBudget => OneRunPerStart
    <2>. SUFFICES ASSUME TypeOK, RunBudget PROVE OneRunPerStart
      OBVIOUS
    <2>. QED BY BudgetTypes DEF RunBudget, Chances, OneRunPerStart
  <1>. QED BY <1>1, <1>2, <1>3, PTL DEF Spec
=============================================================================
