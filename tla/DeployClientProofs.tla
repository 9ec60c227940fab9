-------------------------- MODULE DeployClientProofs --------------------------
(***************************************************************************)
(* A blocked button that something will unblock, whatever happens; one plan  *)
(* per project and nothing sent twice, as long as the tab keeps track of its *)
(* plans: for any projects, operations, plans and faults.                    *)
(*                                                                         *)
(* What the browser knows of a plan is deployJobId, the answer it awaits and *)
(* the frames on the socket.  The first invariant ties the frames to the     *)
(* plan they are about, whose last message is on the way until it has been   *)
(* read, unless an older one was published over it.  The second ties the     *)
(* three to the plans: a plan in flight is awaited or recorded in its        *)
(* project's document, and the socket follows the recorded plan.             *)
(***************************************************************************)
EXTENDS DeployClient, SequenceTheorems, TLAPS

\* Appending to a sequence and taking its tail.
LEMMA Queues ==
    ASSUME NEW S, NEW s \in Seq(S), NEW e \in S
    PROVE  /\ Append(s, e) \in Seq(S) /\ <<e>> \o s \in Seq(S) /\ <<e>> \in Seq(S)
           /\ s # <<>> => Head(s) \in S /\ Tail(s) \in Seq(S)
OBVIOUS

\* The provision rows are named after their clone.
LEMMA Parents == Rows = Ops \cup Provisions /\ \A r \in Provisions : Parent(r) \in Ops
BY ClientAssumption DEF ClientAssumption, Rows, Provisions, Provision, Parent

-----------------------------------------------------------------------------
\* The writes of a document keep its type, and so do the operators on documents.
LEMMA WriteRows ==
    ASSUME NEW d \in Documents, NEW rows \in States
    PROVE  [d EXCEPT !.rows = rows] \in Documents
BY DEF Documents

LEMMA WriteDeps ==
    ASSUME NEW d \in Documents, NEW rows \in States, NEW deps \in [Rows -> SUBSET Rows]
    PROVE  [d EXCEPT !.rows = rows, !.deps = deps] \in Documents
BY DEF Documents

LEMMA WriteJob ==
    ASSUME NEW d \in Documents, NEW rows \in States
    PROVE  [d EXCEPT !.rows = rows, !.job = NoJob] \in Documents
BY DEF Documents

LEMMA KeepingType ==
    ASSUME NEW d \in Documents, NEW kept
    PROVE  Keeping(d, kept) \in Documents
<1>. DEFINE rows == [r \in Rows |-> IF r \in kept THEN d.rows[r] ELSE "absent"]
            deps == [r \in Rows |-> IF r \in kept THEN d.deps[r] ELSE {}]
<1>1. rows \in States
  BY DEF Documents, States, Statuses
<1>2. deps \in [Rows -> SUBSET Rows]
  BY DEF Documents
<1>3. Keeping(d, kept) = [d EXCEPT !.rows = rows, !.deps = deps]
  BY Zenon DEF Keeping
<1>. HIDE DEF rows, deps
<1>4. [d EXCEPT !.rows = rows, !.deps = deps] \in Documents
  BY <1>1, <1>2, WriteDeps, Zenon
<1>. QED
  BY <1>3, <1>4, Zenon

LEMMA SanitizedType ==
    ASSUME NEW d \in Documents
    PROVE  Sanitized(d) \in Documents
BY KeepingType DEF Sanitized

LEMMA PreparedType ==
    ASSUME NEW d \in Documents
    PROVE  Prepared(d) \in Documents
<1>. DEFINE kept == {r \in Resettable(d) : r \in Ops \/ Parent(r) \in Resettable(d)}
            rows == [r \in Rows |-> IF r \in kept THEN "pending" ELSE "absent"]
            deps == [r \in Rows |-> IF r \in kept THEN d.deps[r] \cap kept ELSE {}]
<1>1. rows \in States
  BY DEF States, Statuses
<1>2. deps \in [Rows -> SUBSET Rows]
  BY DEF Documents
<1>3. Prepared(d) = [d EXCEPT !.rows = rows, !.deps = deps]
  BY Zenon DEF Prepared
<1>. HIDE DEF rows, deps
<1>4. [d EXCEPT !.rows = rows, !.deps = deps] \in Documents
  BY <1>1, <1>2, WriteDeps, Zenon
<1>. QED
  BY <1>3, <1>4, Zenon

LEMMA AppliedType ==
    ASSUME NEW d \in Documents, NEW ops \in States
    PROVE  Applied(d, ops) \in Documents
<1>. DEFINE new == Synthetic(d, ops)
            rows == [r \in Rows |-> IF r \in Listed(d) \cup new /\ ops[r] # "absent"
                                    THEN ops[r] ELSE d.rows[r]]
            deps == [r \in Rows |-> IF r \in new THEN {Parent(r)} ELSE d.deps[r]]
<1>1. rows \in States
  BY DEF States, Documents
<1>2. deps \in [Rows -> SUBSET Rows]
  BY Parents DEF Documents, Synthetic
<1>3. Applied(d, ops) = [d EXCEPT !.rows = rows, !.deps = deps]
  BY Zenon DEF Applied
<1>. HIDE DEF rows, deps
<1>4. [d EXCEPT !.rows = rows, !.deps = deps] \in Documents
  BY <1>1, <1>2, WriteDeps, Zenon
<1>. QED
  BY <1>3, <1>4, Zenon

LEMMA FinishedType ==
    ASSUME NEW d \in Documents, NEW ops \in States
    PROVE  Finished(d, ops) \in Documents
<1>. DEFINE now == Applied(d, ops)
            failed == {Parent(r) : r \in {s \in Listed(now) \cap Provisions : ops[s] = "error"}}
            kept == {r \in Listed(now) : ops[r] # "done" \/ r \in failed}
            K == Keeping(now, kept)
            rows == [r \in Rows |-> IF r \in kept /\ ops[r] = "cancelled" THEN "staged" ELSE K.rows[r]]
<1>1. K \in Documents
  BY AppliedType, KeepingType
<1>2. Finished(d, ops) = [K EXCEPT !.rows = rows, !.job = NoJob]
  BY Zenon DEF Finished
<1>. HIDE DEF K, kept
<1>3. rows \in States
  BY <1>1 DEF States, Statuses, Documents
<1>. HIDE DEF rows
<1>4. [K EXCEPT !.rows = rows, !.job = NoJob] \in Documents
  BY <1>1, <1>2, <1>3, WriteJob, Zenon
<1>. QED
  BY <1>2, <1>3, <1>4, Zenon

LEMMA RevertedType ==
    ASSUME NEW d \in Documents
    PROVE  Reverted(d) \in Documents
<1>. DEFINE kept == {r \in Listed(d) \cap Ops : d.rows[r] # "done"}
            K == Keeping(d, kept)
            rows == [r \in Rows |-> IF r \in kept THEN "staged" ELSE "absent"]
<1>1. K \in Documents
  BY KeepingType
<1>2. rows \in States
  BY DEF States, Statuses
<1>3. Reverted(d) = [K EXCEPT !.rows = rows, !.job = NoJob]
  BY Zenon DEF Reverted
<1>. HIDE DEF K, kept, rows
<1>4. [K EXCEPT !.rows = rows, !.job = NoJob] \in Documents
  BY <1>1, <1>2, <1>3, WriteJob, Zenon
<1>. QED
  BY <1>2, <1>3, <1>4, Zenon

-----------------------------------------------------------------------------
\* What the operators make of deployJobId, and of the row of an operation that was staged
\* by hand.

LEMMA KeepingJob ==
    ASSUME NEW d \in Documents, NEW kept
    PROVE  Keeping(d, kept).job = d.job
BY DEF Keeping, Documents

LEMMA SanitizedJob ==
    ASSUME NEW d \in Documents
    PROVE  Sanitized(d).job = d.job
BY KeepingJob DEF Sanitized

LEMMA PreparedJob ==
    ASSUME NEW d \in Documents
    PROVE  Prepared(d).job = d.job
BY DEF Prepared, Documents

LEMMA AppliedJob ==
    ASSUME NEW d \in Documents, NEW ops \in States
    PROVE  Applied(d, ops).job = d.job
BY DEF Applied, Documents

LEMMA FinishedJob ==
    ASSUME NEW d \in Documents, NEW ops \in States
    PROVE  Finished(d, ops).job = NoJob
<1>. DEFINE now == Applied(d, ops)
            failed == {Parent(r) : r \in {s \in Listed(now) \cap Provisions : ops[s] = "error"}}
            kept == {r \in Listed(now) : ops[r] # "done" \/ r \in failed}
            K == Keeping(now, kept)
            rows == [r \in Rows |-> IF r \in kept /\ ops[r] = "cancelled" THEN "staged" ELSE K.rows[r]]
<1>1. K \in Documents
  BY AppliedType, KeepingType
<1>2. Finished(d, ops) = [K EXCEPT !.rows = rows, !.job = NoJob]
  BY Zenon DEF Finished
<1>. HIDE DEF K, rows
<1>. QED
  BY <1>1, <1>2 DEF Documents

LEMMA RevertedJob ==
    ASSUME NEW d \in Documents
    PROVE  Reverted(d).job = NoJob
<1>. DEFINE kept == {r \in Listed(d) \cap Ops : d.rows[r] # "done"}
            K == Keeping(d, kept)
            rows == [r \in Rows |-> IF r \in kept THEN "staged" ELSE "absent"]
<1>1. K \in Documents
  BY KeepingType
<1>2. Reverted(d) = [K EXCEPT !.rows = rows, !.job = NoJob]
  BY Zenon DEF Reverted
<1>. HIDE DEF K, rows
<1>. QED
  BY <1>1, <1>2 DEF Documents

LEMMA KeepingRows ==
    ASSUME NEW d \in Documents, NEW kept, NEW o \in Ops
    PROVE  Keeping(d, kept).rows[o] = IF o \in kept THEN d.rows[o] ELSE "absent"
<1>. o \in Rows
  BY DEF Rows
<1>. QED
  BY DEF Keeping, Documents

LEMMA SanitizedRows ==
    ASSUME NEW d \in Documents, NEW o \in Ops
    PROVE  Sanitized(d).rows[o] \in {"absent", d.rows[o]}
<1>. DEFINE kept == UNION {K \in SUBSET Listed(d) : \A r \in K : d.deps[r] \subseteq K}
<1>1. Sanitized(d) = Keeping(d, kept)
  BY DEF Sanitized
<1>. HIDE DEF kept
<1>. QED
  BY <1>1, KeepingRows

LEMMA PreparedRows ==
    ASSUME NEW d \in Documents, NEW o \in Ops
    PROVE  Prepared(d).rows[o] = IF d.rows[o] \in {"absent", "done"} THEN "absent" ELSE "pending"
<1>. o \in Rows
  BY DEF Rows
<1>1. o \in Resettable(d) <=> d.rows[o] \notin {"absent", "done"}
  BY DEF Resettable, Listed
<1>2. Prepared(d).rows[o] = IF o \in Resettable(d) THEN "pending" ELSE "absent"
  BY DEF Prepared, Documents
<1>. QED
  BY <1>1, <1>2

LEMMA AppliedRows ==
    ASSUME NEW d \in Documents, NEW ops \in States, NEW o \in Ops
    PROVE  Applied(d, ops).rows[o] = IF d.rows[o] # "absent" /\ ops[o] # "absent" THEN ops[o] ELSE d.rows[o]
<1>. o \in Rows /\ o \notin Provisions
  BY ClientAssumption DEF Rows, ClientAssumption
<1>1. o \in Listed(d) \cup Synthetic(d, ops) <=> d.rows[o] # "absent"
  BY DEF Listed, Synthetic
<1>2. Applied(d, ops).rows[o] =
        IF o \in Listed(d) \cup Synthetic(d, ops) /\ ops[o] # "absent" THEN ops[o] ELSE d.rows[o]
  BY DEF Applied, Documents
<1>. QED
  BY <1>1, <1>2

LEMMA FinishedRows ==
    ASSUME NEW d \in Documents, NEW ops \in States, NEW o \in Ops
    PROVE  /\ d.rows[o] = "absent" => Finished(d, ops).rows[o] = "absent"
           /\ ops[o] = "done" => Finished(d, ops).rows[o] \in {"absent", "done"}
           /\ ops[o] = "absent" => Finished(d, ops).rows[o] \in {"absent", d.rows[o]}
<1>. o \in Rows
  BY DEF Rows
<1>. DEFINE now == Applied(d, ops)
            failed == {Parent(r) : r \in {s \in Listed(now) \cap Provisions : ops[s] = "error"}}
            kept == {r \in Listed(now) : ops[r] # "done" \/ r \in failed}
            K == Keeping(now, kept)
            rows == [r \in Rows |-> IF r \in kept /\ ops[r] = "cancelled" THEN "staged" ELSE K.rows[r]]
<1>1. K \in Documents
  BY AppliedType, KeepingType
<1>2. Finished(d, ops) = [K EXCEPT !.rows = rows, !.job = NoJob]
  BY Zenon DEF Finished
<1>3. K.rows[o] = IF o \in kept THEN now.rows[o] ELSE "absent"
  BY AppliedType, KeepingRows
<1>4. o \in kept => now.rows[o] # "absent"
  BY DEF Listed
<1>. HIDE DEF K, kept, now
<1>5. rows[o] = IF o \in kept /\ ops[o] = "cancelled" THEN "staged" ELSE K.rows[o]
  OBVIOUS
<1>. HIDE DEF rows
<1>6. Finished(d, ops).rows = rows
  BY <1>1, <1>2 DEF Documents
<1>7. now.rows[o] = IF d.rows[o] # "absent" /\ ops[o] # "absent" THEN ops[o] ELSE d.rows[o]
  BY AppliedRows DEF now
<1>. QED
  BY <1>3, <1>4, <1>5, <1>6, <1>7

LEMMA RevertedRows ==
    ASSUME NEW d \in Documents, NEW o \in Ops
    PROVE  Reverted(d).rows[o] = IF d.rows[o] \in {"absent", "done"} THEN "absent" ELSE "staged"
<1>. o \in Rows
  BY DEF Rows
<1>. DEFINE kept == {r \in Listed(d) \cap Ops : d.rows[r] # "done"}
            K == Keeping(d, kept)
            rows == [r \in Rows |-> IF r \in kept THEN "staged" ELSE "absent"]
<1>1. K \in Documents
  BY KeepingType
<1>2. Reverted(d) = [K EXCEPT !.rows = rows, !.job = NoJob]
  BY Zenon DEF Reverted
<1>3. rows[o] = IF d.rows[o] \in {"absent", "done"} THEN "absent" ELSE "staged"
  BY DEF Listed
<1>. HIDE DEF K, kept, rows
<1>4. Reverted(d).rows = rows
  BY <1>1, <1>2 DEF Documents
<1>. QED
  BY <1>3, <1>4

-----------------------------------------------------------------------------
\* A change of the store that the autosave keeps.
LEMMA SaveType ==
    ASSUME TypeOK, NEW d \in Documents, Save(d)
    PROVE  /\ store' \in Documents
           /\ saved' \in [Projects -> Documents]
BY DEF TypeOK, Save

LEMMA AttachType ==
    ASSUME NEW j \in JobIds, NEW n \in 0..Retries, Attach(j, n)
    PROVE  socket' \in Sockets
<1>1. <<>> \in Seq(Frames)
  OBVIOUS
<1>. QED
  BY <1>1 DEF Attach, Sockets

LEMMA NoSocketType == NoSocket \in Sockets
<1>1. <<>> \in Seq(Frames)
  OBVIOUS
<1>. QED
  BY <1>1 DEF NoSocket, Sockets, Retries

LEMMA FramesType ==
    ASSUME NEW s \in Sockets, NEW frames \in Seq(Frames)
    PROVE  [s EXCEPT !.frames = frames] \in Sockets
BY DEF Sockets

LEMMA SocketType ==
    ASSUME NEW s \in Sockets, NEW frames \in Seq(Frames),
           NEW at \in {"none", "opening", "subscribed", "open", "waiting"}
    PROVE  [s EXCEPT !.at = at, !.frames = frames] \in Sockets
BY DEF Sockets

\* A published state, and what closing and loading write.
LEMMA MessageType ==
    ASSUME NEW type \in {"queued", "running", "done", "error"}, NEW ops \in States
    PROVE  /\ Message(type, ops) \in Frames
           /\ Message(type, ops).type = type /\ Message(type, ops).ops = ops
BY DEF Message, Frames

LEMMA AnnounceType ==
    ASSUME TypeOK, NEW j, NEW message \in Frames, Announce(j, message)
    PROVE  socket' \in Sockets
<1>1. socket.frames \in Seq(Frames)
  BY DEF TypeOK, Sockets
<1>2. Append(socket.frames, message) \in Seq(Frames)
  BY <1>1, Queues
<1>3. CASE socket.job = j /\ socket.at \in {"subscribed", "open"}
  <2>1. socket' = [socket EXCEPT !.frames = Append(@, message)]
    BY <1>3 DEF Announce
  <2>2. [socket EXCEPT !.frames = Append(socket.frames, message)] \in Sockets
    BY <1>2, FramesType DEF TypeOK
  <2>. QED
    BY <2>1, <2>2
<1>4. CASE ~(socket.job = j /\ socket.at \in {"subscribed", "open"})
  BY <1>4 DEF Announce, TypeOK
<1>. QED
  BY <1>3, <1>4

\* A message about plan j that publishes what it has come to.
LEMMA PublishedPlan ==
    ASSUME TypeOK, NEW j \in JobIds, NEW phase \in {"running", "done", "error"}, NEW ops \in States,
           Publish(j, phase, ops)
    PROVE  /\ \A i \in JobIds \ {j} : jobs'[i] = jobs[i]
           /\ jobs'[j].project = jobs[j].project /\ jobs'[j].reply = jobs[j].reply
           /\ jobs'[j].phase = phase /\ jobs'[j].ops = ops /\ jobs'[j].kept
           /\ jobs'[j].snapshot = Message(phase, ops)
           /\ jobs' \in [JobIds -> Jobs]
<1>. DEFINE job == [jobs[j] EXCEPT !.phase = phase, !.ops = ops, !.past = @ \cup {ops},
                                   !.snapshot = Message(phase, ops), !.kept = TRUE]
<1>1. jobs' = [jobs EXCEPT ![j] = job]
  BY DEF Publish, TypeOK
<1>2. Message(phase, ops) \in Frames /\ phase \in Phases
  BY MessageType DEF Phases
<1>3. /\ job \in Jobs /\ job.project = jobs[j].project /\ job.reply = jobs[j].reply
      /\ job.phase = phase /\ job.ops = ops /\ job.kept
      /\ job.snapshot = Message(phase, ops)
  BY <1>2 DEF TypeOK, Jobs
<1>. HIDE DEF job
<1>. QED
  BY <1>1, <1>3 DEF TypeOK

LEMMA PublishType ==
    ASSUME TypeOK, NEW j \in JobIds, NEW phase \in {"running", "done", "error"}, NEW ops \in States,
           Publish(j, phase, ops)
    PROVE  TypeOK'
<1>1. socket' \in Sockets
  BY MessageType, AnnounceType DEF Publish
<1>. QED
  BY <1>1, PublishedPlan DEF Publish, TypeOK, counts

\* A late message changes the snapshot and nothing else of its plan.
LEMMA LatePlan ==
    ASSUME TypeOK, NEW j \in JobIds, PublishLate(j)
    PROVE  /\ \A i \in JobIds \ {j} : jobs'[i] = jobs[i]
           /\ jobs'[j].project = jobs[j].project /\ jobs'[j].reply = jobs[j].reply
           /\ jobs'[j].phase = jobs[j].phase /\ jobs'[j].ops = jobs[j].ops
           /\ jobs'[j].snapshot.type = "running"
           /\ jobs' \in [JobIds -> Jobs]
           /\ \E message \in Frames : message.type = "running" /\ Announce(j, message)
<1>1. PICK ops \in jobs[j].past :
        /\ jobs' = [jobs EXCEPT ![j].snapshot = Message("running", ops), ![j].kept = TRUE]
        /\ Announce(j, Message("running", ops))
  BY DEF PublishLate
<1>2. ops \in States
  BY <1>1 DEF TypeOK, Jobs
<1>. DEFINE message == Message("running", ops)
            job == [jobs[j] EXCEPT !.snapshot = message, !.kept = TRUE]
<1>3. message \in Frames /\ message.type = "running"
  BY <1>2, MessageType
<1>4. Announce(j, message)
  BY <1>1
<1>5. jobs' = [jobs EXCEPT ![j] = job]
  BY <1>1 DEF TypeOK
<1>. HIDE DEF message
<1>6. /\ job \in Jobs /\ job.project = jobs[j].project /\ job.reply = jobs[j].reply
      /\ job.phase = jobs[j].phase /\ job.ops = jobs[j].ops /\ job.snapshot = message
  BY <1>3 DEF TypeOK, Jobs
<1>. HIDE DEF job
<1>. QED
  BY <1>3, <1>4, <1>5, <1>6 DEF TypeOK

LEMMA ClosedType ==
    ASSUME TypeOK, Closed
    PROVE  /\ store' \in Documents /\ saved' \in [Projects -> Documents]
           /\ deploying' \in BOOLEAN /\ strayed' \in BOOLEAN
           /\ socket' \in Sockets
<1>1. CASE Retry
  <2>1. <<>> \in Seq(Frames)
    OBVIOUS
  <2>2. [socket EXCEPT !.at = "waiting", !.frames = <<>>] \in Sockets
    BY <2>1, SocketType, Zenon DEF TypeOK
  <2>. QED
    BY <1>1, <2>2 DEF Retry, TypeOK
<1>2. CASE GiveUp
  <2>1. strayed' \in BOOLEAN
    BY <1>2, Zenon DEF GiveUp, TypeOK
  <2>. QED
    BY <1>2, <2>1, RevertedType, SaveType, NoSocketType DEF GiveUp, TypeOK
<1>. QED
  BY <1>1, <1>2 DEF Closed

LEMMA LoadType ==
    ASSUME NEW d \in Documents, Load(d)
    PROVE  /\ store' \in Documents /\ deploying' \in BOOLEAN /\ socket' \in Sockets
<1>1. d.job = NoJob \/ d.job \in JobIds
  BY DEF Documents
<1>2. CASE d.job = NoJob
  BY <1>2, SanitizedType, NoSocketType DEF Load
<1>3. CASE d.job # NoJob
  <2>1. 0 \in 0..Retries
    BY DEF Retries
  <2>. QED
    BY <1>1, <1>3, <2>1, SanitizedType, AttachType DEF Load
<1>. QED
  BY <1>2, <1>3

\* A socket is to a plan.
Attached == /\ socket.at # "none" => socket.job \in JobIds
            /\ socket.at = "waiting" => socket.attempt < Retries

\* Every step keeps the types.
LEMMA TypeStep ==
    ASSUME TypeOK, Attached, [Next]_vars
    PROVE  TypeOK'
<1>1. CASE Deploy
  <2>1. \A sent : Planned(sent) \in States
    BY DEF Planned, States, Statuses
  <2>2. Prepared(store) \in Documents
    BY PreparedType DEF TypeOK
  <2>3. jobs' \in [JobIds -> Jobs]
    BY <1>1, <2>1 DEF Deploy, TypeOK, Jobs, Phases
  <2>. QED
    BY <1>1, <2>2, <2>3, SaveType DEF Deploy, TypeOK, counts
<1>2. CASE Review
  <2>. DEFINE new == {r \in Provisions : Parent(r) \in Resettable(store) /\ store.rows[r] = "absent"}
              rows == [r \in Rows |-> IF r \in new THEN "pending" ELSE store.rows[r]]
              deps == [r \in Rows |-> IF r \in new THEN {Parent(r)} ELSE store.deps[r]]
              d == [store EXCEPT !.rows = [r \in Rows |-> IF r \in new THEN "pending" ELSE @[r]],
                                 !.deps = [r \in Rows |-> IF r \in new THEN {Parent(r)} ELSE @[r]]]
  <2>1. rows \in States
    BY DEF States, Statuses, TypeOK, Documents
  <2>2. deps \in [Rows -> SUBSET Rows]
    BY Parents DEF TypeOK, Documents
  <2>3. d = [store EXCEPT !.rows = rows, !.deps = deps]
    BY Zenon
  <2>. HIDE DEF rows, deps
  <2>4. [store EXCEPT !.rows = rows, !.deps = deps] \in Documents
    BY <2>1, <2>2, WriteDeps, Zenon DEF TypeOK
  <2>5. Save(d)
    BY <1>2 DEF Review
  <2>6. d \in Documents
    BY <2>3, <2>4, Zenon
  <2>. HIDE DEF d
  <2>. QED
    BY <1>2, <2>5, <2>6, SaveType DEF Review, TypeOK, counts
<1>3. CASE Reload
  <2>1. saved[active] \in Documents
    BY DEF TypeOK
  <2>2. jobs' \in [JobIds -> Jobs]
    BY <1>3 DEF Reload, TypeOK, Jobs
  <2>. QED
    BY <1>3, <2>1, <2>2, LoadType, BoundsAssumption DEF Reload, Leave, TypeOK, BoundsAssumption
<1>4. ASSUME NEW o \in Ops, Remove(o) PROVE TypeOK'
  BY <1>4, KeepingType, SaveType DEF Remove, TypeOK, counts
<1>5. ASSUME NEW p \in Projects, Switch(p) PROVE TypeOK'
  <2>1. saved[p] \in Documents /\ saved' \in [Projects -> Documents]
    BY <1>5 DEF Switch, TypeOK
  <2>. QED
    BY <1>5, <2>1, LoadType, BoundsAssumption DEF Switch, Leave, TypeOK, BoundsAssumption
<1>6. ASSUME NEW j \in JobIds, Handles(j) PROVE TypeOK'
  <2>1. Message("queued", jobs[j].ops) \in Frames
    BY MessageType DEF TypeOK, Jobs
  <2>2. jobs' \in [JobIds -> Jobs]
    <3>1. CASE Enqueue(j)
      <4>. DEFINE job == [jobs[j] EXCEPT !.phase = "queued", !.kept = TRUE,
                                         !.snapshot = Message("queued", jobs[j].ops)]
      <4>1. job \in Jobs
        BY <2>1 DEF TypeOK, Jobs, Phases
      <4>2. jobs' = [jobs EXCEPT ![j] = job]
        BY <3>1 DEF Enqueue, TypeOK
      <4>. QED
        BY <4>1, <4>2 DEF TypeOK
    <3>2. CASE Refuse(j)
      BY <3>2 DEF Refuse, TypeOK, Jobs, Phases
    <3>. QED
      BY <1>6, <3>1, <3>2 DEF Handles
  <2>. QED
    BY <1>6, <2>2 DEF Handles, Enqueue, Refuse, TypeOK, counts
<1>7. ASSUME NEW j \in JobIds, Accepted(j) PROVE TypeOK'
  <2>1. [store EXCEPT !.job = j] \in Documents
    BY DEF TypeOK, Documents
  <2>2. 0 \in 0..Retries
    BY DEF Retries
  <2>3. jobs' \in [JobIds -> Jobs]
    BY <1>7 DEF Accepted, TypeOK, Jobs
  <2>. QED
    BY <1>7, <2>1, <2>2, <2>3, SaveType, AttachType DEF Accepted, TypeOK, counts
<1>8. ASSUME NEW j \in JobIds, Refused(j) \/ AnswerLost(j) PROVE TypeOK'
  <2>. DEFINE rows == [r \in Rows |-> IF store.rows[r] = "absent" THEN "absent" ELSE "staged"]
              d == [store EXCEPT !.rows = [r \in Rows |-> IF @[r] = "absent" THEN "absent" ELSE "staged"]]
  <2>1. rows \in States
    BY DEF States, Statuses
  <2>2. d = [store EXCEPT !.rows = rows]
    BY Zenon
  <2>3. Unposted(j)
    BY <1>8 DEF Refused, AnswerLost
  <2>4. Save(d)
    BY <2>3 DEF Unposted
  <2>. HIDE DEF rows
  <2>5. d \in Documents
    BY <2>1, <2>2, WriteRows DEF TypeOK
  <2>6. jobs' \in [JobIds -> Jobs]
    BY <2>3 DEF Unposted, TypeOK, Jobs
  <2>7. strayed' \in BOOLEAN /\ faults' \in 0..MaxFaults
    <3>1. CASE Refused(j)
      BY <3>1 DEF Refused, TypeOK
    <3>2. CASE AnswerLost(j)
      BY <3>2, BoundsAssumption DEF AnswerLost, TypeOK, BoundsAssumption
    <3>. QED
      BY <1>8, <3>1, <3>2
  <2>. HIDE DEF d
  <2>. QED
    BY <2>3, <2>4, <2>5, <2>6, <2>7, SaveType DEF Unposted, TypeOK
<1>9. ASSUME NEW j \in JobIds, Works(j) \/ Collapse(j) PROVE TypeOK'
  <2>1. jobs[j].ops \in States
    BY DEF TypeOK, Jobs
  <2>2. \E phase \in {"running", "done", "error"} : \E ops \in States : Publish(j, phase, ops)
    BY <1>9, <2>1 DEF Works, Pickup, StartRow, EndRow, SkipRows, Conclude, Collapse, States, Statuses, Finals
  <2>. QED
    BY <2>2, PublishType
<1>10. ASSUME NEW j \in JobIds, Expire(j) \/ PublishLate(j) PROVE TypeOK'
  <2>1. jobs' \in [JobIds -> Jobs] /\ socket' \in Sockets
    <3>1. CASE Expire(j)
      <4>1. [jobs[j] EXCEPT !.kept = FALSE] \in Jobs
        BY DEF TypeOK, Jobs
      <4>. QED
        BY <3>1, <4>1 DEF Expire, TypeOK
    <3>2. CASE PublishLate(j)
      BY <3>2, LatePlan, AnnounceType
    <3>. QED
      BY <1>10, <3>1, <3>2
  <2>2. faults' \in 0..MaxFaults
    BY <1>10, BoundsAssumption DEF Expire, PublishLate, TypeOK, BoundsAssumption
  <2>. QED
    BY <1>10, <2>1, <2>2 DEF Expire, PublishLate, TypeOK
<1>11. CASE Streams
  <2>1. CASE Subscribe
    <3>1. [socket EXCEPT !.at = "subscribed"] \in Sockets
      BY DEF TypeOK, Sockets
    <3>. QED
      BY <2>1, <3>1 DEF Subscribe, TypeOK, counts
  <2>2. CASE Stream
    <3>. DEFINE last == jobs[socket.job].snapshot
                frames == IF last.type \in {"done", "error"} THEN <<last>> ELSE <<last>> \o socket.frames
    <3>1. last \in Frames
      BY <2>2 DEF Stream, TypeOK, Jobs, Attached
    <3>2. socket.frames \in Seq(Frames)
      BY DEF TypeOK, Sockets
    <3>. HIDE DEF last
    <3>3. frames \in Seq(Frames)
      BY <3>1, <3>2, Queues
    <3>4. socket' = [socket EXCEPT !.at = "open", !.frames = frames]
      BY <2>2 DEF Stream, last
    <3>. HIDE DEF frames
    <3>5. [socket EXCEPT !.at = "open", !.frames = frames] \in Sockets
      BY <3>3, SocketType, Zenon DEF TypeOK
    <3>. QED
      BY <2>2, <3>4, <3>5 DEF Stream, TypeOK, counts
  <2>3. CASE Unknown
    BY <2>3, ClosedType DEF Unknown, TypeOK, counts
  <2>4. CASE Reconnect
    <3>1. socket.job \in JobIds /\ socket.attempt + 1 \in 0..Retries
      BY <2>4 DEF Reconnect, Attached, TypeOK, Sockets, Retries
    <3>. QED
      BY <2>4, <3>1, AttachType DEF Reconnect, TypeOK, counts
  <2>5. CASE Receive
    <3>1. socket.frames \in Seq(Frames) /\ socket.frames # <<>>
      BY <2>5 DEF Receive, TypeOK, Sockets
    <3>2. Head(socket.frames) \in Frames /\ Tail(socket.frames) \in Seq(Frames)
      BY <3>1, Queues
    <3>3. Head(socket.frames).ops \in States
      BY <3>2 DEF Frames
    <3>4. CASE Progress(Head(socket.frames))
      <4>1. [socket EXCEPT !.frames = Tail(socket.frames)] \in Sockets
        BY <3>2, FramesType DEF TypeOK
      <4>2. socket' \in Sockets /\ deploying' = deploying
        BY <3>4, <4>1 DEF Progress
      <4>3. store' \in Documents /\ saved' \in [Projects -> Documents]
        BY <3>3, <3>4, AppliedType, SaveType DEF Progress, TypeOK
      <4>. QED
        BY <2>5, <4>2, <4>3 DEF Receive, TypeOK, counts
    <3>5. CASE Ended(Head(socket.frames))
      <4>1. store' \in Documents /\ saved' \in [Projects -> Documents]
        BY <3>3, <3>5, FinishedType, RevertedType, SaveType DEF Ended, TypeOK
      <4>. QED
        BY <2>5, <3>5, <4>1, NoSocketType DEF Receive, Ended, TypeOK, counts
    <3>. QED
      BY <2>5, <3>4, <3>5 DEF Receive
  <2>. QED
    BY <1>11, <2>1, <2>2, <2>3, <2>4, <2>5 DEF Streams
<1>12. CASE Drop
  BY <1>12, ClosedType, BoundsAssumption DEF Drop, TypeOK, BoundsAssumption
<1>13. CASE UNCHANGED vars
  BY <1>13 DEF vars, TypeOK, counts
<1>. QED
  BY <1>1, <1>2, <1>3, <1>4, <1>5, <1>6, <1>7, <1>8, <1>9, <1>10, <1>11, <1>12, <1>13
  DEF Next, Answers

\* What a worker publishes: the state of a plan that was queued.
LEMMA WorkPublishes ==
    ASSUME TypeOK, NEW j \in JobIds, Works(j) \/ Collapse(j)
    PROVE  /\ jobs[j].phase \in {"queued", "running"}
           /\ \E phase \in {"running", "done", "error"} : \E ops \in States :
                /\ Publish(j, phase, ops)
                /\ \A r \in Rows : ops[r] # "absent" => jobs[j].ops[r] # "absent"
<1>1. jobs[j].ops \in States
  BY DEF TypeOK, Jobs
<1>2. jobs[j].phase \in {"queued", "running"}
  BY DEF Works, Pickup, StartRow, EndRow, SkipRows, Conclude, Collapse
<1>3. CASE Pickup(j) \/ Conclude(j)
  BY <1>1, <1>2, <1>3 DEF Pickup, Conclude
<1>4. ASSUME NEW r \in Rows, StartRow(j, r) \/ EndRow(j, r)
      PROVE  \E ops \in States : /\ Publish(j, "running", ops)
                                 /\ \A q \in Rows : ops[q] # "absent" => jobs[j].ops[q] # "absent"
  <2>1. PICK state \in {"running", "done", "error"} : Publish(j, "running", [jobs[j].ops EXCEPT ![r] = state])
    BY <1>4 DEF StartRow, EndRow
  <2>2. jobs[j].ops[r] # "absent"
    BY <1>4 DEF StartRow, EndRow
  <2>. DEFINE ops == [jobs[j].ops EXCEPT ![r] = state]
  <2>3. ops \in States /\ \A q \in Rows : ops[q] # "absent" => jobs[j].ops[q] # "absent"
    BY <1>1, <2>2 DEF States, Statuses, Finals
  <2>. QED
    BY <2>1, <2>3
<1>5. CASE SkipRows(j)
  <2>1. PICK skipped \in {Doomed(jobs[j].ops), {r \in Rows : jobs[j].ops[r] = "pending"}} :
          Publish(j, "running", [r \in Rows |-> IF r \in skipped THEN "cancelled" ELSE jobs[j].ops[r]])
    BY <1>5 DEF SkipRows
  <2>2. \A r \in skipped : jobs[j].ops[r] = "pending"
    BY <2>1 DEF Doomed
  <2>. DEFINE ops == [r \in Rows |-> IF r \in skipped THEN "cancelled" ELSE jobs[j].ops[r]]
  <2>3. ops \in States /\ \A q \in Rows : ops[q] # "absent" => jobs[j].ops[q] # "absent"
    BY <1>1, <2>2 DEF States, Statuses, Finals
  <2>. QED
    BY <1>2, <2>1, <2>3
<1>6. CASE Collapse(j)
  <2>. DEFINE ops == [r \in Rows |-> IF jobs[j].ops[r] = "pending" THEN "cancelled" ELSE jobs[j].ops[r]]
  <2>1. Publish(j, "error", ops)
    BY <1>6 DEF Collapse
  <2>2. ops \in States /\ \A q \in Rows : ops[q] # "absent" => jobs[j].ops[q] # "absent"
    BY <1>1 DEF States, Statuses, Finals
  <2>. QED
    BY <1>2, <2>1, <2>2
<1>. QED
  BY <1>2, <1>3, <1>4, <1>5, <1>6 DEF Works

LEMMA AttachedStep ==
    ASSUME TypeOK, Attached, [Next]_vars
    PROVE  Attached'
<1>1. CASE socket' = socket \/ socket' = NoSocket
  BY <1>1 DEF Attached, NoSocket
<1>2. ASSUME NEW j \in JobIds, NEW n, Attach(j, n) PROVE Attached'
  BY <1>2 DEF Attached, Attach
<1>3. CASE Closed /\ socket.at # "none"
  BY <1>1, <1>3 DEF Attached, Closed, Retry, GiveUp, TypeOK, Sockets
<1>4. CASE socket' = [socket EXCEPT !.at = "subscribed"] /\ socket.at = "opening"
  BY <1>4 DEF Attached, TypeOK, Sockets
<1>5. ASSUME NEW frames, socket' = [socket EXCEPT !.at = "open", !.frames = frames], socket.at = "subscribed"
      PROVE Attached'
  BY <1>5 DEF Attached, TypeOK, Sockets
<1>6. ASSUME NEW frames, socket' = [socket EXCEPT !.frames = frames] PROVE Attached'
  BY <1>6 DEF Attached, TypeOK, Sockets
<1>7. ASSUME NEW d \in Documents, Load(d) PROVE Attached'
  BY <1>1, <1>2, <1>7 DEF Load, Documents
<1>8. CASE Deploy \/ Review \/ \E o \in Ops : Remove(o)
  BY <1>1, <1>8 DEF Deploy, Review, Remove
<1>9. CASE Reload \/ \E p \in Projects : Switch(p)
  BY <1>7, <1>9 DEF Reload, Switch, TypeOK
<1>10. ASSUME NEW j \in JobIds, Handles(j) \/ Answers(j) \/ Expire(j) PROVE Attached'
  BY <1>1, <1>2, <1>10
  DEF Handles, Enqueue, Refuse, Answers, Accepted, Refused, AnswerLost, Unposted, Expire
<1>11. ASSUME NEW j \in JobIds, Works(j) \/ Collapse(j) \/ PublishLate(j) PROVE Attached'
  <2>1. ASSUME NEW message, Announce(j, message) PROVE Attached'
    BY <1>1, <1>6, <2>1 DEF Announce
  <2>2. CASE PublishLate(j)
    BY <2>1, <2>2 DEF PublishLate
  <2>3. CASE Works(j) \/ Collapse(j)
    <3>1. PICK phase \in {"running", "done", "error"}, ops \in States : Publish(j, phase, ops)
      BY <2>3, WorkPublishes, Zenon
    <3>. QED
      BY <2>1, <3>1 DEF Publish
  <2>. QED
    BY <1>11, <2>2, <2>3
<1>12. CASE Subscribe \/ Unknown \/ Drop
  BY <1>3, <1>4, <1>12 DEF Subscribe, Unknown, Drop
<1>13. CASE Stream
  BY <1>5, <1>13, Zenon DEF Stream
<1>14. CASE Reconnect
  BY <1>2, <1>14 DEF Reconnect, Attached
<1>15. CASE Receive
  BY <1>1, <1>6, <1>15 DEF Receive, Progress, Ended
<1>16. CASE UNCHANGED vars
  BY <1>1, <1>16 DEF vars
<1>. QED
  BY <1>8, <1>9, <1>10, <1>11, <1>12, <1>13, <1>14, <1>15, <1>16 DEF Next, Streams

TypeInv == TypeOK /\ Attached

\* Type correctness of DeployClient, whatever the operator, the connection and the
\* workers do; an attached socket is always one to a plan.
THEOREM TypeCorrect == Spec => []TypeInv
<1>1. Init => TypeInv
  <2>. SUFFICES ASSUME Init PROVE TypeInv
    OBVIOUS
  <2>1. saved \in [Projects -> Documents]
    <3>. SUFFICES ASSUME NEW p \in Projects
                  PROVE  [rows |-> [r \in Rows |-> IF r \in Staged[p] THEN "staged" ELSE "absent"],
                          deps |-> [r \in Rows |-> IF r \in Staged[p] THEN Deps[r] ELSE {}],
                          job |-> NoJob] \in Documents
      BY DEF Init
    <3>1. [r \in Rows |-> IF r \in Staged[p] THEN "staged" ELSE "absent"] \in States
      BY DEF States, Statuses
    <3>2. [r \in Rows |-> IF r \in Staged[p] THEN Deps[r] ELSE {}] \in [Rows -> SUBSET Rows]
      BY ClientAssumption DEF ClientAssumption, Rows
    <3>. QED
      BY <3>1, <3>2 DEF Documents
  <2>2. jobs \in [JobIds -> Jobs]
    <3>1. Absent \in States
      BY DEF Absent, States, Statuses
    <3>2. Message("queued", Absent) \in Frames
      BY <3>1, MessageType
    <3>. QED
      BY <3>1, <3>2 DEF Init, Jobs, Phases
  <2>3. active \in Projects /\ store = saved[active] /\ deploying = FALSE /\ strayed = FALSE
        /\ faults = 0 /\ leaves = 0 /\ socket = NoSocket
    BY DEF Init
  <2>4. TypeOK
    <3>1. faults \in 0..MaxFaults /\ leaves \in 0..MaxLeaves
      BY <2>3, BoundsAssumption DEF BoundsAssumption
    <3>2. deploying \in BOOLEAN /\ strayed \in BOOLEAN
      BY <2>3
    <3>3. store \in Documents /\ socket \in Sockets
      BY <2>1, <2>3, NoSocketType
    <3>. QED
      BY <2>1, <2>2, <2>3, <3>1, <3>2, <3>3 DEF TypeOK
  <2>5. Attached
    BY <2>3 DEF Attached, NoSocket
  <2>. QED
    BY <2>4, <2>5 DEF TypeInv
<1>2. TypeInv /\ [Next]_vars => TypeInv'
  BY TypeStep, AttachedStep DEF TypeInv
<1>. QED
  BY <1>1, <1>2, PTL DEF Spec

-----------------------------------------------------------------------------
\* What is under way to the browser, wherever the operator went and whatever was lost.

Queued == {"queued", "running", "done", "error"}
Terminal(phase) == phase \in {"done", "error"}

\* A recorded or followed plan was queued.
Known(J, j) == j # NoJob => J[j].phase \in Queued
Recorded ==
    /\ \A p \in Projects : Known(jobs, saved[p].job)
    /\ Known(jobs, store.job) /\ Known(jobs, socket.job)

\* A terminal snapshot is the end of its plan.
SnapshotsFit ==
    \A j \in JobIds : Terminal(jobs[j].snapshot.type) =>
        jobs[j].phase = jobs[j].snapshot.type /\ jobs[j].ops = jobs[j].snapshot.ops

\* The frames are about the plan that is followed, a terminal one is its end, and once the
\* plan is through, a terminal one is on the way, or the snapshot was overwritten.
FramesFit ==
    /\ socket.at \notin {"subscribed", "open"} => socket.frames = <<>>
    /\ \A k \in 1..Len(socket.frames) : Terminal(socket.frames[k].type) =>
          /\ jobs[socket.job].phase = socket.frames[k].type
          /\ jobs[socket.job].ops = socket.frames[k].ops
    /\ socket.at = "open" /\ Terminal(jobs[socket.job].phase) =>
          \/ \E k \in 1..Len(socket.frames) : Terminal(socket.frames[k].type)
          \/ jobs[socket.job].snapshot.type # jobs[socket.job].phase

\* A blocked button awaits an answer or has a socket.
Waits ==
    deploying => \/ \E j \in JobIds : jobs[j].reply /\ jobs[j].project = active
                 \/ socket.at # "none"

\* An answer is awaited for a plan.
Asked == \A j \in JobIds : jobs[j].reply => jobs[j].phase # "unused"

Wired == Asked /\ Recorded /\ SnapshotsFit /\ FramesFit /\ Waits

\* A plan that was queued remains one.
LEMMA QueuedStays ==
    ASSUME TypeInv, [Next]_vars, NEW j \in JobIds, jobs[j].phase \in Queued
    PROVE  jobs'[j].phase \in Queued
<1>1. CASE UNCHANGED jobs
  BY <1>1
<1>2. CASE Deploy
  BY <1>2 DEF Deploy, TypeInv, TypeOK, Jobs, Queued
<1>3. CASE Reload
  BY <1>3 DEF Reload, TypeInv, TypeOK, Jobs
<1>4. ASSUME NEW i \in JobIds, Handles(i) PROVE jobs'[j].phase \in Queued
  BY <1>4 DEF Handles, Enqueue, Refuse, TypeInv, TypeOK, Jobs, Queued
<1>5. ASSUME NEW i \in JobIds, Answers(i) \/ Expire(i) PROVE jobs'[j].phase \in Queued
  BY <1>5 DEF Answers, Accepted, Refused, AnswerLost, Unposted, Expire, TypeInv, TypeOK, Jobs
<1>6. ASSUME NEW i \in JobIds, PublishLate(i) PROVE jobs'[j].phase \in Queued
  BY <1>6, LatePlan DEF TypeInv
<1>7. ASSUME NEW i \in JobIds, Works(i) \/ Collapse(i) PROVE jobs'[j].phase \in Queued
  <2>1. PICK phase \in {"running", "done", "error"}, ops \in States : Publish(i, phase, ops)
    BY <1>7, WorkPublishes, Zenon DEF TypeInv
  <2>2. jobs'[j].phase \in {phase, jobs[j].phase}
    BY <2>1, PublishedPlan DEF TypeInv
  <2>. QED
    BY <2>2 DEF Queued
<1>. QED
  BY <1>1, <1>2, <1>3, <1>4, <1>5, <1>6, <1>7
  DEF Next, Streams, Subscribe, Stream, Unknown, Reconnect, Receive, Drop, Review, Remove, Switch, vars

\* The socket follows the plan it followed, one that a document records, or none.
LEMMA RecordedStep ==
    ASSUME TypeInv, TypeInv', Asked, Recorded, [Next]_vars
    PROVE  Recorded'
<1>. /\ jobs \in [JobIds -> Jobs] /\ active \in Projects /\ store \in Documents
     /\ saved \in [Projects -> Documents] /\ socket \in Sockets
  BY DEF TypeInv, TypeOK
<1>1. ASSUME NEW j \in JobIds \cup {NoJob}, Known(jobs, j) PROVE Known(jobs', j)
  BY <1>1, QueuedStays DEF Known
<1>2. /\ Known(jobs', store.job) /\ Known(jobs', socket.job)
      /\ \A p \in Projects : Known(jobs', saved[p].job)
  <2>1. /\ store.job \in JobIds \cup {NoJob} /\ socket.job \in JobIds \cup {NoJob}
        /\ \A p \in Projects : saved[p].job \in JobIds \cup {NoJob}
    BY DEF Documents, Sockets
  <2>. QED
    BY <1>1, <2>1 DEF Recorded
<1>3. Known(jobs', NoJob)
  BY DEF Known
<1>4. ASSUME NEW d \in Documents, Save(d), Known(jobs', d.job)
      PROVE  Known(jobs', store'.job) /\ \A p \in Projects : Known(jobs', saved'[p].job)
  BY <1>2, <1>4 DEF Save
<1>5. ASSUME UNCHANGED <<store, saved>>
      PROVE  Known(jobs', store'.job) /\ \A p \in Projects : Known(jobs', saved'[p].job)
  BY <1>2, <1>5
<1>6. socket' = NoSocket \/ socket'.job = socket.job => Known(jobs', socket'.job)
  BY <1>2, <1>3 DEF NoSocket
<1>7. ASSUME NEW j, NEW n, Attach(j, n), Known(jobs', j) PROVE Known(jobs', socket'.job)
  BY <1>7 DEF Attach
<1>8. \A j, message : Announce(j, message) => socket'.job = socket.job
  BY DEF Announce, Sockets
<1>9. ASSUME NEW d \in Documents, Load(d), Known(jobs', d.job)
      PROVE  Known(jobs', store'.job) /\ Known(jobs', socket'.job)
  <2>1. Known(jobs', store'.job)
    BY <1>9, SanitizedJob DEF Load
  <2>2. Known(jobs', socket'.job)
    BY <1>6, <1>7, <1>9 DEF Load
  <2>. QED
    BY <2>1, <2>2
<1>10. ASSUME Closed PROVE Recorded'
  <2>1. CASE Retry
    BY <1>5, <1>6, <2>1 DEF Retry, Recorded
  <2>2. CASE GiveUp
    <3>1. Known(jobs', Reverted(store).job) /\ Reverted(store) \in Documents
      BY <1>3, RevertedJob, RevertedType
    <3>. QED
      BY <1>4, <1>6, <2>2, <3>1 DEF GiveUp, Recorded
  <2>. QED
    BY <1>10, <2>1, <2>2 DEF Closed
<1>11. CASE Deploy
  <2>1. Known(jobs', Prepared(store).job) /\ Prepared(store) \in Documents
    BY <1>2, PreparedJob, PreparedType
  <2>. QED
    BY <1>4, <1>6, <1>11, <2>1 DEF Deploy, Recorded
<1>12. CASE Review \/ \E o \in Ops : Remove(o)
  <2>1. PICK d : Save(d) /\ d.job = store.job
    <3>1. CASE Review
      <4>. DEFINE new == {r \in Provisions : Parent(r) \in Resettable(store) /\ store.rows[r] = "absent"}
                  rows == [r \in Rows |-> IF r \in new THEN "pending" ELSE store.rows[r]]
                  deps == [r \in Rows |-> IF r \in new THEN {Parent(r)} ELSE store.deps[r]]
                  d == [store EXCEPT !.rows = [r \in Rows |-> IF r \in new THEN "pending" ELSE @[r]],
                                     !.deps = [r \in Rows |-> IF r \in new THEN {Parent(r)} ELSE @[r]]]
      <4>1. Save(d)
        BY <3>1 DEF Review
      <4>2. d = [store EXCEPT !.rows = rows, !.deps = deps]
        BY Zenon
      <4>. HIDE DEF rows, deps
      <4>3. d.job = store.job
        BY <4>2 DEF Documents
      <4>. QED
        BY <4>1, <4>3
    <3>2. ASSUME NEW o \in Ops, Remove(o) PROVE \E d : Save(d) /\ d.job = store.job
      BY <3>2, KeepingJob DEF Remove
    <3>. QED
      BY <1>12, <3>1, <3>2
  <2>2. d \in Documents
    BY <2>1 DEF Save, TypeInv, TypeOK
  <2>. QED
    BY <1>2, <1>4, <1>6, <1>12, <2>1, <2>2 DEF Review, Remove, Recorded
<1>13. CASE Reload \/ \E p \in Projects : Switch(p)
  <2>1. CASE Reload
    BY <1>2, <1>9, <2>1 DEF Reload, Recorded
  <2>2. ASSUME NEW p \in Projects, Switch(p) PROVE Recorded'
    <3>1. \A q \in Projects : Known(jobs', saved'[q].job)
      BY <1>2, <2>2 DEF Switch
    <3>. QED
      BY <1>2, <1>9, <2>2, <3>1 DEF Switch, Recorded
  <2>. QED
    BY <1>13, <2>1, <2>2
<1>14. ASSUME NEW j \in JobIds, Accepted(j) PROVE Recorded'
  <2>1. jobs[j].phase \in Queued \cup {"unused"}
    BY <1>14 DEF Accepted, Jobs, Phases, Queued
  <2>2. [store EXCEPT !.job = j] \in Documents /\ [store EXCEPT !.job = j].job = j
    BY DEF Documents
  <2>3. jobs[j].phase # "unused"
    BY <1>14 DEF Accepted, Asked
  <2>4. Known(jobs', j)
    BY <1>1, <2>1, <2>3 DEF Known
  <2>. QED
    BY <1>4, <1>7, <1>14, <2>2, <2>4 DEF Accepted, Recorded
<1>15. ASSUME NEW j \in JobIds, Unposted(j) PROVE Recorded'
  <2>1. PICK d : Save(d) /\ d.job = store.job
    BY <1>15 DEF Unposted, Documents
  <2>2. d \in Documents
    BY <2>1 DEF Save, TypeInv, TypeOK
  <2>. QED
    BY <1>2, <1>4, <1>6, <1>15, <2>1, <2>2 DEF Unposted, Recorded
<1>16. ASSUME NEW j \in JobIds, Handles(j) \/ Expire(j) PROVE Recorded'
  BY <1>5, <1>6, <1>16 DEF Handles, Enqueue, Refuse, Expire, Recorded
<1>17. ASSUME NEW j \in JobIds, Works(j) \/ Collapse(j) \/ PublishLate(j) PROVE Recorded'
  <2>1. CASE PublishLate(j)
    BY <1>5, <1>6, <1>8, <2>1 DEF PublishLate, Recorded
  <2>2. CASE Works(j) \/ Collapse(j)
    <3>1. PICK phase \in {"running", "done", "error"}, ops \in States : Publish(j, phase, ops)
      BY <2>2, WorkPublishes, Zenon DEF TypeInv
    <3>. QED
      BY <1>5, <1>6, <1>8, <3>1 DEF Publish, Recorded
  <2>. QED
    BY <1>17, <2>1, <2>2
<1>18. CASE Subscribe \/ Stream
  BY <1>5, <1>6, <1>18 DEF Subscribe, Stream, Sockets, Recorded
<1>19. CASE Unknown \/ Drop
  BY <1>10, <1>19 DEF Unknown, Drop
<1>20. CASE Reconnect
  BY <1>2, <1>5, <1>7, <1>20 DEF Reconnect, Recorded
<1>21. CASE Receive
  <2>1. Head(socket.frames).ops \in States
    <3>1. socket.frames \in Seq(Frames) /\ socket.frames # <<>>
      BY <1>21 DEF Receive, Sockets
    <3>2. Head(socket.frames) \in Frames
      BY <3>1, Queues
    <3>. QED
      BY <3>2 DEF Frames
  <2>. DEFINE ops == Head(socket.frames).ops
  <2>2. /\ Applied(store, ops) \in Documents /\ Known(jobs', Applied(store, ops).job)
        /\ Finished(store, ops) \in Documents /\ Known(jobs', Finished(store, ops).job)
        /\ Reverted(store) \in Documents /\ Known(jobs', Reverted(store).job)
    BY <1>2, <1>3, <2>1, AppliedType, AppliedJob, FinishedType, FinishedJob, RevertedType, RevertedJob
  <2>. HIDE DEF ops
  <2>3. CASE Progress(Head(socket.frames))
    <3>1. socket'.job = socket.job
      BY <2>3 DEF Progress, Sockets
    <3>2. Known(jobs', store'.job) /\ \A p \in Projects : Known(jobs', saved'[p].job)
      BY <1>4, <1>5, <2>2, <2>3 DEF Progress, ops
    <3>. QED
      BY <1>6, <3>1, <3>2 DEF Recorded
  <2>4. CASE Ended(Head(socket.frames))
    <3>1. Known(jobs', store'.job) /\ \A p \in Projects : Known(jobs', saved'[p].job)
      BY <1>4, <2>2, <2>4 DEF Ended, ops
    <3>. QED
      BY <1>6, <2>4, <3>1 DEF Ended, Recorded
  <2>. QED
    BY <1>21, <2>3, <2>4 DEF Receive
<1>22. CASE UNCHANGED vars
  BY <1>5, <1>6, <1>22 DEF vars, Recorded
<1>. QED
  BY <1>11, <1>12, <1>13, <1>14, <1>15, <1>16, <1>17, <1>18, <1>19, <1>20, <1>21, <1>22
  DEF Next, Answers, Refused, AnswerLost, Streams

LEMMA AskedStep ==
    ASSUME TypeInv, Asked, [Next]_vars
    PROVE  Asked'
<1>1. CASE UNCHANGED jobs
  BY <1>1 DEF Asked
<1>2. CASE Deploy
  BY <1>2 DEF Deploy, Asked, TypeInv, TypeOK, Jobs
<1>3. CASE Reload
  BY <1>3 DEF Reload, Asked, TypeInv, TypeOK, Jobs
<1>4. ASSUME NEW i \in JobIds, Handles(i) \/ Answers(i) \/ Expire(i) PROVE Asked'
  BY <1>4 DEF Handles, Enqueue, Refuse, Answers, Accepted, Refused, AnswerLost, Unposted, Expire,
              Asked, TypeInv, TypeOK, Jobs
<1>5. ASSUME NEW i \in JobIds, PublishLate(i) PROVE Asked'
  BY <1>5, LatePlan DEF TypeInv, Asked
<1>6. ASSUME NEW i \in JobIds, Works(i) \/ Collapse(i) PROVE Asked'
  <2>1. PICK phase \in {"running", "done", "error"}, ops \in States : Publish(i, phase, ops)
    BY <1>6, WorkPublishes, Zenon DEF TypeInv
  <2>. QED
    BY <2>1, PublishedPlan DEF TypeInv, Asked
<1>. QED
  BY <1>1, <1>2, <1>3, <1>4, <1>5, <1>6
  DEF Next, Streams, Subscribe, Stream, Unknown, Reconnect, Receive, Drop, Review, Remove, Switch, vars

LEMMA SnapshotsStep ==
    ASSUME TypeInv, SnapshotsFit, [Next]_vars
    PROVE  SnapshotsFit'
<1>. jobs \in [JobIds -> Jobs]
  BY DEF TypeInv, TypeOK
<1>1. CASE UNCHANGED jobs
  BY <1>1 DEF SnapshotsFit
<1>2. CASE Deploy
  <2>1. PICK j \in JobIds :
          /\ jobs[j].phase = "unused"
          /\ jobs' = [jobs EXCEPT ![j].project = active, ![j].phase = "posted", ![j].reply = TRUE,
                                  ![j].ops = Planned(Listed(Prepared(store)) \cap Ops)]
    BY <1>2 DEF Deploy
  <2>2. jobs'[j].snapshot = jobs[j].snapshot /\ \A i \in JobIds \ {j} : jobs'[i] = jobs[i]
    BY <2>1 DEF Jobs
  <2>3. ~Terminal(jobs[j].snapshot.type)
    BY <2>1 DEF SnapshotsFit, Terminal
  <2>. QED
    BY <2>2, <2>3 DEF SnapshotsFit
<1>3. CASE Reload
  BY <1>3 DEF Reload, SnapshotsFit, Jobs
<1>4. ASSUME NEW i \in JobIds, Enqueue(i) PROVE SnapshotsFit'
  <2>1. /\ \A k \in JobIds \ {i} : jobs'[k] = jobs[k]
        /\ jobs'[i].snapshot = Message("queued", jobs[i].ops)
    BY <1>4 DEF Enqueue, Jobs
  <2>. QED
    BY <2>1 DEF SnapshotsFit, Terminal, Message
<1>5. ASSUME NEW i \in JobIds, Refuse(i) PROVE SnapshotsFit'
  <2>1. /\ \A k \in JobIds \ {i} : jobs'[k] = jobs[k]
        /\ jobs'[i].snapshot = jobs[i].snapshot /\ jobs[i].phase = "posted"
    BY <1>5 DEF Refuse, Jobs
  <2>2. ~Terminal(jobs[i].snapshot.type)
    BY <2>1 DEF SnapshotsFit, Terminal
  <2>. QED
    BY <2>1, <2>2 DEF SnapshotsFit
<1>6. ASSUME NEW i \in JobIds, Answers(i) \/ Expire(i) PROVE SnapshotsFit'
  BY <1>6 DEF Answers, Accepted, Refused, AnswerLost, Unposted, Expire, SnapshotsFit, Jobs
<1>7. ASSUME NEW i \in JobIds, PublishLate(i) PROVE SnapshotsFit'
  BY <1>7, LatePlan DEF TypeInv, SnapshotsFit, Terminal
<1>8. ASSUME NEW i \in JobIds, Works(i) \/ Collapse(i) PROVE SnapshotsFit'
  <2>1. PICK phase \in {"running", "done", "error"}, ops \in States : Publish(i, phase, ops)
    BY <1>8, WorkPublishes, Zenon DEF TypeInv
  <2>. QED
    BY <2>1, PublishedPlan, MessageType DEF TypeInv, SnapshotsFit
<1>. QED
  BY <1>1, <1>2, <1>3, <1>4, <1>5, <1>6, <1>7, <1>8
  DEF Next, Handles, Streams, Subscribe, Stream, Unknown, Reconnect, Receive, Drop, Review, Remove, Switch, vars

\* A message that is appended for the sockets of plan j.
LEMMA Announced ==
    ASSUME TypeInv, NEW j, NEW message \in Frames, Announce(j, message)
    PROVE  \/ socket' = socket /\ ~(socket.job = j /\ socket.at \in {"subscribed", "open"})
           \/ /\ socket.job = j /\ socket.at \in {"subscribed", "open"}
              /\ socket'.job = j /\ socket'.at = socket.at
              /\ Len(socket.frames) \in Nat /\ Len(socket'.frames) = Len(socket.frames) + 1
              /\ \A k \in 1..Len(socket.frames) : socket'.frames[k] = socket.frames[k]
              /\ socket'.frames[Len(socket.frames) + 1] = message
<1>. socket \in Sockets
  BY DEF TypeInv, TypeOK
<1>1. CASE ~(socket.job = j /\ socket.at \in {"subscribed", "open"})
  BY <1>1 DEF Announce
<1>2. CASE socket.job = j /\ socket.at \in {"subscribed", "open"}
  <2>1. socket.frames \in Seq(Frames)
    BY DEF Sockets
  <2>2. socket' = [socket EXCEPT !.frames = Append(socket.frames, message)]
    BY <1>2 DEF Announce
  <2>3. /\ socket'.job = socket.job /\ socket'.at = socket.at
        /\ socket'.frames = Append(socket.frames, message)
    BY <2>2 DEF Sockets
  <2>4. /\ Len(socket.frames) \in Nat /\ Len(socket'.frames) = Len(socket.frames) + 1
        /\ \A k \in 1..Len(socket.frames) : socket'.frames[k] = socket.frames[k]
        /\ socket'.frames[Len(socket.frames) + 1] = message
    BY <2>1, <2>3
  <2>. QED
    BY <1>2, <2>3, <2>4
<1>. QED
  BY <1>1, <1>2

\* The plan that is followed is untouched, or nothing is read of it yet.
LEMMA FramesSame ==
    ASSUME TypeInv, FramesFit, socket' = socket,
           socket.job \in JobIds => \/ socket.at \notin {"subscribed", "open"}
                                    \/ /\ jobs'[socket.job].phase = jobs[socket.job].phase
                                       /\ jobs'[socket.job].ops = jobs[socket.job].ops
                                       /\ jobs'[socket.job].snapshot = jobs[socket.job].snapshot
    PROVE  FramesFit'
<1>1. CASE socket.at \in {"subscribed", "open"}
  <2>1. socket.job \in JobIds
    BY <1>1 DEF TypeInv, Attached
  <2>. QED
    BY <1>1, <2>1, SMTT(60) DEF FramesFit
<1>2. CASE socket.at \notin {"subscribed", "open"}
  BY <1>2 DEF FramesFit
<1>. QED
  BY <1>1, <1>2

\* Nothing to read.
LEMMA FramesNone ==
    ASSUME socket'.frames = <<>>, socket'.at # "open"
    PROVE  FramesFit'
BY DEF FramesFit

LEMMA FramesPublished ==
    ASSUME TypeInv, FramesFit, NEW j \in JobIds, Works(j) \/ Collapse(j)
    PROVE  FramesFit'
<1>1. PICK phase \in {"running", "done", "error"}, ops \in States : Publish(j, phase, ops)
  BY WorkPublishes, Zenon DEF TypeInv
<1>2. jobs[j].phase \in {"queued", "running"}
  BY WorkPublishes DEF TypeInv
<1>. DEFINE frame == Message(phase, ops)
<1>3. /\ \A i \in JobIds \ {j} : jobs'[i] = jobs[i]
      /\ jobs'[j].phase = phase /\ jobs'[j].ops = ops
      /\ frame \in Frames /\ frame.type = phase /\ frame.ops = ops /\ Announce(j, frame)
  <2>1. /\ \A i \in JobIds \ {j} : jobs'[i] = jobs[i]
        /\ jobs'[j].phase = phase /\ jobs'[j].ops = ops
    BY <1>1, PublishedPlan DEF TypeInv
  <2>2. frame \in Frames /\ frame.type = phase /\ frame.ops = ops
    BY MessageType
  <2>3. Announce(j, frame)
    BY <1>1 DEF Publish
  <2>. QED
    BY <2>1, <2>2, <2>3
<1>. HIDE DEF frame
<1>4. CASE socket' = socket /\ ~(socket.job = j /\ socket.at \in {"subscribed", "open"})
  BY <1>3, <1>4, FramesSame
<1>5. CASE /\ socket.job = j /\ socket.at \in {"subscribed", "open"}
           /\ socket'.job = j /\ socket'.at = socket.at
           /\ Len(socket.frames) \in Nat /\ Len(socket'.frames) = Len(socket.frames) + 1
           /\ \A k \in 1..Len(socket.frames) : socket'.frames[k] = socket.frames[k]
           /\ socket'.frames[Len(socket.frames) + 1] = frame
  <2>1. \A k \in 1..Len(socket.frames) : ~Terminal(socket.frames[k].type)
    BY <1>2, <1>5 DEF FramesFit, Terminal
  <2>2. \A k \in 1..Len(socket'.frames) : Terminal(socket'.frames[k].type) =>
            phase = socket'.frames[k].type /\ ops = socket'.frames[k].ops
    BY <1>3, <1>5, <2>1
  <2>3. Terminal(phase) => Terminal(socket'.frames[Len(socket.frames) + 1].type)
    BY <1>3, <1>5
  <2>4. Len(socket.frames) + 1 \in 1..Len(socket'.frames)
    BY <1>5
  <2>. QED
    BY <1>3, <1>5, <2>2, <2>3, <2>4 DEF FramesFit
<1>. QED
  BY <1>3, <1>4, <1>5, Announced

\* A late message ends nothing, and overwrites the snapshot of a plan that is through.
LEMMA FramesLate ==
    ASSUME TypeInv, FramesFit, NEW j \in JobIds, PublishLate(j)
    PROVE  FramesFit'
<1>1. PICK message \in Frames : message.type = "running" /\ Announce(j, message)
  BY LatePlan DEF TypeInv
<1>2. /\ \A i \in JobIds \ {j} : jobs'[i] = jobs[i]
      /\ jobs'[j].phase = jobs[j].phase /\ jobs'[j].ops = jobs[j].ops
      /\ jobs'[j].snapshot.type = "running"
  BY LatePlan DEF TypeInv
<1>3. CASE socket' = socket /\ ~(socket.job = j /\ socket.at \in {"subscribed", "open"})
  BY <1>2, <1>3, FramesSame
<1>4. CASE /\ socket.job = j /\ socket.at \in {"subscribed", "open"}
           /\ socket'.job = j /\ socket'.at = socket.at
           /\ Len(socket.frames) \in Nat /\ Len(socket'.frames) = Len(socket.frames) + 1
           /\ \A k \in 1..Len(socket.frames) : socket'.frames[k] = socket.frames[k]
           /\ socket'.frames[Len(socket.frames) + 1] = message
  <2>1. \A k \in 1..Len(socket.frames) : Terminal(socket.frames[k].type) =>
            jobs[j].phase = socket.frames[k].type /\ jobs[j].ops = socket.frames[k].ops
    BY <1>4 DEF FramesFit
  <2>2. \A k \in 1..Len(socket'.frames) : Terminal(socket'.frames[k].type) =>
            jobs[j].phase = socket'.frames[k].type /\ jobs[j].ops = socket'.frames[k].ops
    <3>. SUFFICES ASSUME NEW k \in 1..Len(socket'.frames), Terminal(socket'.frames[k].type)
                  PROVE  jobs[j].phase = socket'.frames[k].type /\ jobs[j].ops = socket'.frames[k].ops
      OBVIOUS
    <3>1. k \in 1..Len(socket.frames)
      BY <1>1, <1>4 DEF Terminal
    <3>. QED
      BY <1>4, <2>1, <3>1
  <2>3. Terminal(jobs[j].phase) => jobs'[j].snapshot.type # jobs'[j].phase
    BY <1>2 DEF Terminal
  <2>. QED
    BY <1>2, <1>4, <2>2, <2>3 DEF FramesFit
<1>. QED
  BY <1>1, <1>3, <1>4, Announced

\* The snapshot is replayed ahead of what was published since the subscription.
LEMMA FramesStream ==
    ASSUME TypeInv, SnapshotsFit, FramesFit, Stream
    PROVE  FramesFit'
<1>. socket \in Sockets /\ jobs \in [JobIds -> Jobs]
  BY DEF TypeInv, TypeOK
<1>. DEFINE job == jobs[socket.job]
            last == job.snapshot
<1>1. /\ socket.at = "subscribed" /\ UNCHANGED jobs
      /\ socket'.job = socket.job /\ socket'.at = "open"
      /\ socket'.frames = IF last.type \in {"done", "error"} THEN <<last>> ELSE <<last>> \o socket.frames
  BY DEF Stream, Sockets
<1>2. socket.job \in JobIds
  BY <1>1 DEF TypeInv, Attached
<1>3. Terminal(last.type) => job.phase = last.type /\ job.ops = last.ops
  BY <1>2 DEF SnapshotsFit
<1>4. socket.frames \in Seq(Frames)
  BY DEF Sockets
<1>5. \A k \in 1..Len(socket.frames) : Terminal(socket.frames[k].type) =>
          job.phase = socket.frames[k].type /\ job.ops = socket.frames[k].ops
  BY DEF FramesFit
<1>8. jobs'[socket'.job] = job /\ last = job.snapshot
  BY <1>1
<1>. HIDE DEF job, last
<1>. SUFFICES /\ \A k \in 1..Len(socket'.frames) : Terminal(socket'.frames[k].type) =>
                    job.phase = socket'.frames[k].type /\ job.ops = socket'.frames[k].ops
              /\ Terminal(job.phase) =>
                    \/ \E k \in 1..Len(socket'.frames) : Terminal(socket'.frames[k].type)
                    \/ last.type # job.phase
  BY <1>1, <1>8, SMTT(30) DEF FramesFit
<1>6. CASE Terminal(last.type)
  <2>1. socket'.frames = <<last>>
    BY <1>1, <1>6 DEF Terminal
  <2>. QED
    BY <1>3, <1>6, <2>1
<1>7. CASE ~Terminal(last.type)
  <2>1. socket'.frames = <<last>> \o socket.frames
    BY <1>1, <1>7 DEF Terminal
  <2>2. Len(socket'.frames) = Len(socket.frames) + 1
    BY <1>4, <2>1
  <2>3. \A k \in 1..Len(socket'.frames) :
            socket'.frames[k] = IF k = 1 THEN last ELSE socket.frames[k - 1]
    BY <1>4, <2>1
  <2>4. ASSUME NEW k \in 1..Len(socket'.frames), Terminal(socket'.frames[k].type)
        PROVE  job.phase = socket'.frames[k].type /\ job.ops = socket'.frames[k].ops
    <3>1. k # 1
      BY <1>7, <2>3, <2>4
    <3>2. k - 1 \in 1..Len(socket.frames) /\ socket'.frames[k] = socket.frames[k - 1]
      BY <1>4, <2>2, <2>3, <3>1
    <3>. QED
      BY <1>5, <2>4, <3>2, Zenon
  <2>5. Terminal(job.phase) => last.type # job.phase
    BY <1>7
  <2>. QED
    BY <2>4, <2>5, Zenon
<1>. QED
  BY <1>6, <1>7

\* A message is read, and it was not the last.
LEMMA FramesProgress ==
    ASSUME TypeInv, FramesFit, socket.at = "open", socket.frames # <<>>,
           Progress(Head(socket.frames)), UNCHANGED jobs
    PROVE  FramesFit'
<1>. socket \in Sockets
  BY DEF TypeInv, TypeOK
<1>1. /\ Head(socket.frames).type \in {"queued", "running"}
      /\ socket'.job = socket.job /\ socket'.at = "open" /\ socket'.frames = Tail(socket.frames)
  BY DEF Progress, Sockets
<1>2. socket.frames \in Seq(Frames)
  BY DEF Sockets
<1>3. Head(socket.frames) = socket.frames[1]
  BY <1>2
<1>4. Len(socket'.frames) = Len(socket.frames) - 1 /\ Len(socket.frames) \in Nat
  BY <1>1, <1>2
<1>5. \A k \in 1..Len(socket'.frames) : socket'.frames[k] = socket.frames[k + 1]
  BY <1>1, <1>2
<1>6. \A k \in 1..Len(socket'.frames) : k + 1 \in 1..Len(socket.frames)
  BY <1>4
<1>7. ASSUME NEW k \in 1..Len(socket'.frames), Terminal(socket'.frames[k].type)
      PROVE  /\ jobs'[socket'.job].phase = socket'.frames[k].type
             /\ jobs'[socket'.job].ops = socket'.frames[k].ops
  BY <1>1, <1>5, <1>6, <1>7 DEF FramesFit
<1>8. ASSUME NEW k \in 1..Len(socket.frames), Terminal(socket.frames[k].type)
      PROVE  \E i \in 1..Len(socket'.frames) : Terminal(socket'.frames[i].type)
  <2>1. k # 1
    BY <1>1, <1>3, <1>8 DEF Terminal
  <2>2. k - 1 \in 1..Len(socket'.frames) /\ k = (k - 1) + 1
    BY <1>4, <2>1
  <2>3. socket'.frames[k - 1] = socket.frames[k]
    BY <1>5, <2>2
  <2>. QED
    BY <1>8, <2>2, <2>3
<1>9. Terminal(jobs'[socket'.job].phase) =>
          \/ \E k \in 1..Len(socket'.frames) : Terminal(socket'.frames[k].type)
          \/ jobs'[socket'.job].snapshot.type # jobs'[socket'.job].phase
  BY <1>1, <1>8 DEF FramesFit
<1>. QED
  BY <1>1, <1>7, <1>9 DEF FramesFit

LEMMA FramesStep ==
    ASSUME TypeInv, Recorded, SnapshotsFit, FramesFit, [Next]_vars
    PROVE  FramesFit'
<1>. /\ jobs \in [JobIds -> Jobs] /\ socket \in Sockets
  BY DEF TypeInv, TypeOK
<1>1. socket.job \in JobIds => jobs[socket.job].phase \in Queued /\ socket.job # NoJob
  BY DEF Recorded, Known, NoJob, JobIds
<1>2. socket' = NoSocket => FramesFit'
  BY FramesNone DEF NoSocket
<1>3. \A j, n : Attach(j, n) => FramesFit'
  BY FramesNone DEF Attach
<1>4. ASSUME NEW d, Load(d) PROVE FramesFit'
  BY <1>2, <1>3, <1>4 DEF Load
<1>5. ASSUME Closed PROVE FramesFit'
  BY <1>2, <1>5, FramesNone DEF Closed, Retry, GiveUp, Sockets
<1>6. ASSUME UNCHANGED <<socket, jobs>> PROVE FramesFit'
  BY <1>6, FramesSame
<1>7. CASE Deploy
  BY <1>1, <1>7, FramesSame DEF Deploy, Queued
<1>8. CASE Review \/ \E o \in Ops : Remove(o)
  BY <1>6, <1>8 DEF Review, Remove
<1>9. CASE Reload \/ \E p \in Projects : Switch(p)
  BY <1>4, <1>9 DEF Reload, Switch
<1>10. ASSUME NEW j \in JobIds, Handles(j) PROVE FramesFit'
  BY <1>1, <1>10, FramesSame DEF Handles, Enqueue, Refuse, Queued
<1>11. ASSUME NEW j \in JobIds, Answers(j) \/ Expire(j) PROVE FramesFit'
  <2>1. CASE Accepted(j)
    BY <1>3, <2>1 DEF Accepted
  <2>2. CASE Unposted(j) \/ Expire(j)
    BY <2>2, FramesSame DEF Unposted, Expire, Jobs
  <2>. QED
    BY <1>11, <2>1, <2>2 DEF Answers, Refused, AnswerLost
<1>12. ASSUME NEW j \in JobIds, Works(j) \/ Collapse(j) \/ PublishLate(j) PROVE FramesFit'
  BY <1>12, FramesPublished, FramesLate
<1>13. CASE Subscribe
  <2>1. socket.frames = <<>>
    BY <1>13 DEF Subscribe, FramesFit
  <2>. QED
    BY <1>13, <2>1, FramesNone DEF Subscribe, Sockets
<1>14. CASE Stream
  BY <1>14, FramesStream
<1>15. CASE Unknown \/ Drop
  BY <1>5, <1>15 DEF Unknown, Drop
<1>16. CASE Reconnect
  BY <1>3, <1>16 DEF Reconnect
<1>17. CASE Receive
  BY <1>2, <1>17, FramesProgress DEF Receive, Ended
<1>18. CASE UNCHANGED vars
  BY <1>6, <1>18 DEF vars
<1>. QED
  BY <1>7, <1>8, <1>9, <1>10, <1>11, <1>12, <1>13, <1>14, <1>15, <1>16, <1>17, <1>18 DEF Next, Streams

LEMMA WaitsStep ==
    ASSUME TypeInv, Waits, [Next]_vars
    PROVE  Waits'
<1>. /\ jobs \in [JobIds -> Jobs] /\ socket \in Sockets
  BY DEF TypeInv, TypeOK
<1>1. ASSUME socket.at # "none" => socket'.at # "none", UNCHANGED <<deploying, active>>,
             \A j \in JobIds : /\ jobs'[j].project = jobs[j].project
                               /\ jobs'[j].reply = jobs[j].reply
      PROVE  Waits'
  BY <1>1 DEF Waits
<1>2. ~deploying' => Waits'
  BY DEF Waits
<1>3. \A j, n : Attach(j, n) => Waits'
  BY DEF Attach, Waits
<1>4. ASSUME NEW d, Load(d) PROVE Waits'
  BY <1>2, <1>3, <1>4 DEF Load
<1>5. CASE Deploy
  BY <1>5 DEF Deploy, Waits, Jobs
<1>6. CASE Review \/ \E o \in Ops : Remove(o)
  BY <1>1, <1>6 DEF Review, Remove
<1>7. CASE Reload \/ \E p \in Projects : Switch(p)
  BY <1>4, <1>7 DEF Reload, Switch
<1>8. ASSUME NEW j \in JobIds, Handles(j) \/ Expire(j) PROVE Waits'
  BY <1>1, <1>8 DEF Handles, Enqueue, Refuse, Expire, Jobs
<1>9. ASSUME NEW j \in JobIds, Answers(j) PROVE Waits'
  BY <1>2, <1>3, <1>9 DEF Answers, Accepted, Refused, AnswerLost, Unposted
<1>10. ASSUME NEW j \in JobIds, Works(j) \/ Collapse(j) \/ PublishLate(j) PROVE Waits'
  <2>1. \A message : Announce(j, message) => socket'.at = socket.at
    BY DEF Announce, Sockets
  <2>2. CASE PublishLate(j)
    BY <1>1, <2>1, <2>2, LatePlan DEF PublishLate, TypeInv
  <2>3. CASE Works(j) \/ Collapse(j)
    <3>1. PICK phase \in {"running", "done", "error"}, ops \in States : Publish(j, phase, ops)
      BY <2>3, WorkPublishes, Zenon DEF TypeInv
    <3>. QED
      BY <1>1, <2>1, <3>1, PublishedPlan DEF Publish, TypeInv
  <2>. QED
    BY <1>10, <2>2, <2>3
<1>11. CASE Subscribe \/ Stream
  <2>1. socket'.at \in {"subscribed", "open"} /\ UNCHANGED <<deploying, active, jobs>>
    BY <1>11, Zenon DEF Subscribe, Stream, Sockets
  <2>. QED
    BY <1>1, <2>1
<1>12. CASE Unknown \/ Drop
  BY <1>1, <1>2, <1>12 DEF Unknown, Drop, Closed, Retry, GiveUp, Sockets
<1>13. CASE Reconnect
  BY <1>3, <1>13 DEF Reconnect
<1>14. CASE Receive
  BY <1>1, <1>2, <1>14 DEF Receive, Progress, Ended, Sockets
<1>15. CASE UNCHANGED vars
  BY <1>1, <1>15 DEF vars
<1>. QED
  BY <1>5, <1>6, <1>7, <1>8, <1>9, <1>10, <1>11, <1>12, <1>13, <1>14, <1>15 DEF Next, Streams

LEMMA WiredInvariant == Spec => [](TypeInv /\ Wired)
<1>1. ASSUME Init PROVE Wired
  <2>1. /\ \A j \in JobIds : /\ jobs[j].snapshot.type = "queued" /\ ~jobs[j].reply
        /\ ~deploying /\ socket = NoSocket /\ active \in Projects /\ store = saved[active]
        /\ \A p \in Projects : saved[p].job = NoJob
    BY <1>1 DEF Init, Message
  <2>2. socket.job = NoJob /\ socket.at = "none" /\ socket.frames = <<>>
    BY <2>1 DEF NoSocket
  <2>. QED
    BY <2>1, <2>2 DEF Wired, Asked, Recorded, Known, SnapshotsFit, Terminal, FramesFit, Waits
<1>2. TypeInv /\ TypeInv' /\ Wired /\ [Next]_vars => Wired'
  BY AskedStep, RecordedStep, SnapshotsStep, FramesStep, WaitsStep DEF Wired
<1>. QED
  BY <1>1, <1>2, TypeCorrect, PTL DEF Spec

\* A blocked button has something under way that unblocks it, whatever is lost, expires or
\* is overtaken, and wherever the operator went: the answer to its POST, or a connection
\* on which the last message of its plan is, or will be, on the way (staging.ts
\* watchPlanJob, ws.py job_progress).  Only a last message that was overwritten by an older
\* one is not.
THEOREM DeployStaysDriven == Spec => []DeployIsDriven
<1>1. ASSUME TypeInv, Wired, deploying PROVE DeployIsDriven
  <2>1. CASE \E j \in JobIds : jobs[j].reply /\ jobs[j].project = active
    BY <2>1 DEF DeployIsDriven
  <2>2. CASE socket.at # "none"
    <3>1. socket.at \in {"opening", "subscribed", "open", "waiting"}
      BY <1>1, <2>2 DEF TypeInv, TypeOK, Sockets
    <3>2. jobs[socket.job].phase \in Queued
      BY <1>1, <2>2 DEF TypeInv, Attached, Wired, Recorded, Known, NoJob, JobIds
    <3>3. ASSUME socket.at = "open", ~Live(socket.job), ~Overwritten(socket.job)
          PROVE  socket.frames # <<>>
      <4>1. Terminal(jobs[socket.job].phase)
        BY <3>2, <3>3 DEF Live, Terminal, Queued
      <4>2. \E k \in 1..Len(socket.frames) : TRUE
        BY <1>1, <3>3, <4>1 DEF Wired, FramesFit, Overwritten, Terminal
      <4>. QED
        BY <4>2
    <3>. QED
      BY <3>1, <3>3 DEF DeployIsDriven
  <2>. QED
    BY <1>1, <2>1, <2>2 DEF Wired, Waits
<1>2. ~deploying => DeployIsDriven
  BY DEF DeployIsDriven
<1>. QED
  BY <1>1, <1>2, WiredInvariant, PTL

-----------------------------------------------------------------------------
\* What the browser's state says of the plans J, as long as the tab keeps track of them.

InFlight(phase) == phase \in {"posted", "queued", "running"}

\* No later plan of its project was posted.
Latest(J, j) == \A i \in JobIds : i > j /\ J[i].phase # "unused" => J[i].project # J[j].project

Quiet(J) == \A j \in JobIds : ~J[j].reply

\* A plan holds operations of its project, and the plans are numbered in order.
PlansFit ==
    \A j \in JobIds :
        /\ \A i \in JobIds : i < j /\ jobs[i].phase = "unused" => jobs[j].phase = "unused"
        /\ \A o \in Ops : jobs[j].ops[o] # "absent" => o \in Staged[jobs[j].project]
        /\ jobs[j].phase = "unused" => jobs[j].ops = Absent /\ ~jobs[j].reply

\* One answer at a time, to the project on the screen, for its latest plan.
AnswersFit ==
    \A j \in JobIds : jobs[j].reply =>
        /\ jobs[j].project = active /\ store.job = NoJob /\ Latest(jobs, j)
        /\ \A i \in JobIds : jobs[i].reply => i = j

\* A plan in flight is awaited or recorded.
Tracked ==
    \A j \in JobIds : InFlight(jobs[j].phase) => jobs[j].reply \/ saved[jobs[j].project].job = j

\* A document d of project p: its operations, its deployJobId, and what is left of the
\* operations that plan i has done.
Owns(p, d) == \A o \in Ops : d.rows[o] # "absent" => o \in Staged[p]

Records(J, p, d) ==
    d.job # NoJob => /\ J[d.job].project = p /\ J[d.job].phase \in Queued
                     /\ ~J[d.job].reply /\ Latest(J, d.job)

Settled(J, i, p, d) ==
    \A o \in Ops : J[i].ops[o] = "done" =>
        \/ d.rows[o] = "absent"
        \/ /\ d.rows[o] = "done" /\ d.job = NoJob
           /\ \A j \in JobIds : J[j].reply => J[j].project # p

\* The snapshot of plan i tells what it has done.
Concluded(J, i) == J[i].phase = "done" /\ J[i].kept /\ J[i].snapshot.type = "done"

Settles(J, p, d) ==
    \A i \in JobIds : Concluded(J, i) /\ J[i].project = p =>
        J[i].reply \/ d.job = i \/ Settled(J, i, p, d)

Fits(J, p, d) == Owns(p, d) /\ Records(J, p, d) /\ Settles(J, p, d)

DocumentsFit ==
    /\ store.job = saved[active].job
    /\ Fits(jobs, active, store)
    /\ \A p \in Projects : Fits(jobs, p, saved[p])

Blocked == deploying <=> store.job # NoJob \/ ~Quiet(jobs)

\* The socket follows the recorded plan.
Follows ==
    /\ socket.job = store.job
    /\ socket.job = NoJob => socket.at = "none"
    /\ socket.job # NoJob => socket.at # "none"

DeployInv ==
    /\ PlansFit /\ AnswersFit /\ Tracked /\ DocumentsFit /\ Blocked /\ Follows
    /\ DoneNotResent

-----------------------------------------------------------------------------
\* Rows that were absent stay absent: a document that keeps its deployJobId fits on.
LEMMA FitsOn ==
    ASSUME NEW J \in [JobIds -> Jobs], NEW p \in Projects, NEW d \in Documents, NEW e \in Documents,
           Fits(J, p, d), e.job = d.job,
           \A o \in Ops : \/ e.rows[o] \in {"absent", d.rows[o]}
                          \/ d.job # NoJob /\ d.rows[o] # "absent"
    PROVE  Fits(J, p, e)
<1>1. \A o \in Ops : d.rows[o] = "absent" => e.rows[o] = "absent"
  OBVIOUS
<1>2. Owns(p, e)
  BY <1>1 DEF Fits, Owns
<1>3. Records(J, p, e)
  BY DEF Fits, Records
<1>4. ASSUME NEW i \in JobIds, Settled(J, i, p, d) PROVE Settled(J, i, p, e)
  BY <1>1, <1>4 DEF Settled
<1>5. Settles(J, p, e)
  BY <1>4 DEF Fits, Settles
<1>. QED
  BY <1>2, <1>3, <1>5 DEF Fits

\* The recorded plan is dropped from the document once its operations are settled.
LEMMA FitsAfter ==
    ASSUME NEW J \in [JobIds -> Jobs], NEW p \in Projects, NEW d \in Documents, NEW e \in Documents,
           Fits(J, p, d), d.job # NoJob, e.job = NoJob,
           \A j \in JobIds : J[j].reply => J[j].project # p,
           \A o \in Ops : d.rows[o] = "absent" => e.rows[o] = "absent",
           Concluded(J, d.job) =>
              \A o \in Ops : J[d.job].ops[o] = "done" => e.rows[o] \in {"absent", "done"}
    PROVE  Fits(J, p, e)
<1>1. Owns(p, e)
  BY DEF Fits, Owns
<1>2. Records(J, p, e)
  BY DEF Records
<1>3. ASSUME NEW i \in JobIds, Settled(J, i, p, d) PROVE Settled(J, i, p, e)
  BY <1>3 DEF Settled
<1>4. ASSUME NEW i \in JobIds, i = d.job, Concluded(J, i) PROVE Settled(J, i, p, e)
  BY <1>4 DEF Settled
<1>5. Settles(J, p, e)
  BY <1>3, <1>4 DEF Fits, Settles
<1>. QED
  BY <1>1, <1>2, <1>5 DEF Fits

\* One plan moves on: the documents fit on, if they record it while it is on its way.
LEMMA FitsMove ==
    ASSUME NEW J \in [JobIds -> Jobs], NEW K \in [JobIds -> Jobs], NEW j \in JobIds,
           NEW p \in Projects, NEW d \in Documents, Fits(J, p, d),
           \A i \in JobIds \ {j} : K[i] = J[i],
           K[j].project = J[j].project, K[j].reply = J[j].reply,
           J[j].phase # "unused", K[j].phase # "unused",
           d.job = j => K[j].phase \in Queued,
           Concluded(K, j) /\ K[j].project = p => K[j].reply \/ d.job = j \/ Settled(K, j, p, d)
    PROVE  /\ Fits(K, p, d)
           /\ \A i \in JobIds : Latest(J, i) => Latest(K, i)
<1>1. \A i \in JobIds : K[i].project = J[i].project /\ K[i].reply = J[i].reply
                       /\ (K[i].phase = "unused" <=> J[i].phase = "unused")
  OBVIOUS
<1>2. ASSUME NEW i \in JobIds, Latest(J, i) PROVE Latest(K, i)
  BY <1>1, <1>2 DEF Latest
<1>3. Records(K, p, d)
  <2>1. d.job # NoJob => d.job \in JobIds
    BY DEF Documents
  <2>. QED
    BY <1>1, <1>2, <2>1 DEF Fits, Records
<1>4. ASSUME NEW i \in JobIds, i # j, Settled(J, i, p, d) PROVE Settled(K, i, p, d)
  BY <1>1, <1>4 DEF Settled
<1>5. ASSUME NEW i \in JobIds, Concluded(K, i), K[i].project = p
      PROVE  K[i].reply \/ d.job = i \/ Settled(K, i, p, d)
  <2>1. CASE i = j
    BY <1>5, <2>1
  <2>2. CASE i # j
    <3>1. Concluded(J, i) /\ J[i].project = p
      BY <1>5, <2>2 DEF Concluded
    <3>. QED
      BY <1>1, <1>4, <2>2, <3>1 DEF Fits, Settles
  <2>. QED
    BY <2>1, <2>2
<1>6. Settles(K, p, d)
  BY <1>5 DEF Settles
<1>. QED
  BY <1>2, <1>3, <1>6 DEF Fits

-----------------------------------------------------------------------------
\* The steps, with the invariant.

\* A plan whose answer is awaited is not recorded.
LEMMA AwaitedUnrecorded ==
    ASSUME TypeInv, DeployInv, NEW j \in JobIds, jobs[j].reply \/ jobs[j].phase \notin Queued,
           NEW p \in Projects
    PROVE  saved[p].job # j /\ store.job # j /\ socket.job # j
<1>1. j # NoJob
  BY DEF NoJob, JobIds
<1>2. saved[p].job # j /\ store.job # j
  BY <1>1 DEF DeployInv, DocumentsFit, Fits, Records
<1>. QED
  BY <1>2 DEF DeployInv, Follows

\* A plan in flight is the latest of its project.
LEMMA InFlightLatest ==
    ASSUME TypeInv, DeployInv, NEW j \in JobIds, InFlight(jobs[j].phase)
    PROVE  Latest(jobs, j)
<1>1. CASE jobs[j].reply
  BY <1>1 DEF DeployInv, AnswersFit
<1>2. CASE saved[jobs[j].project].job = j
  <2>1. j # NoJob /\ jobs[j].project \in Projects
    BY DEF NoJob, JobIds, TypeInv, TypeOK, Jobs
  <2>. QED
    BY <1>2, <2>1 DEF DeployInv, DocumentsFit, Fits, Records
<1>. QED
  BY <1>1, <1>2 DEF DeployInv, Tracked

\* A worker's message, or the handler's verdict on the POST, about plan j.
LEMMA PlanMoves ==
    ASSUME TypeInv, TypeInv', DeployInv, NEW j \in JobIds,
           InFlight(jobs[j].phase),
           \A i \in JobIds \ {j} : jobs'[i] = jobs[i],
           jobs'[j].project = jobs[j].project, jobs'[j].reply = jobs[j].reply,
           jobs'[j].phase \in Queued \cup {"refused"},
           jobs[j].phase # "posted" => jobs'[j].phase # "refused",
           \A o \in Ops : jobs'[j].ops[o] # "absent" => jobs[j].ops[o] # "absent",
           UNCHANGED <<active, store, deploying, saved, strayed>>
    PROVE  (PlansFit /\ AnswersFit /\ Tracked /\ DocumentsFit /\ Blocked /\ DoneNotResent)'
<1>. /\ jobs \in [JobIds -> Jobs] /\ jobs' \in [JobIds -> Jobs] /\ active \in Projects
     /\ store \in Documents /\ saved \in [Projects -> Documents]
  BY DEF TypeInv, TypeOK
<1>1. jobs[j].phase # "unused" /\ jobs'[j].phase # "unused"
  BY DEF InFlight, Queued
<1>2. jobs[j].project \in Projects
  BY DEF Jobs
<1>3. PlansFit'
  BY <1>1 DEF DeployInv, PlansFit
<1>4. \A i \in JobIds : Latest(jobs, i) => Latest(jobs', i)
  <2>1. \A i \in JobIds : jobs'[i].project = jobs[i].project
                         /\ (jobs'[i].phase = "unused" <=> jobs[i].phase = "unused")
    BY <1>1
  <2>. QED
    BY <2>1 DEF Latest
<1>5. \A i \in JobIds : jobs'[i].reply = jobs[i].reply /\ jobs'[i].project = jobs[i].project
  OBVIOUS
<1>6. AnswersFit'
  BY <1>4, <1>5 DEF DeployInv, AnswersFit
<1>7. Tracked'
  <2>1. \A i \in JobIds : InFlight(jobs'[i].phase) => InFlight(jobs[i].phase)
    OBVIOUS
  <2>. QED
    BY <1>5, <2>1 DEF DeployInv, Tracked
<1>8. ASSUME NEW p \in Projects, NEW d \in Documents, Fits(jobs, p, d),
             jobs[j].project = p => jobs[j].reply \/ d.job = j
      PROVE  Fits(jobs', p, d)
  <2>1. d.job = j => jobs'[j].phase \in Queued
    BY <1>8 DEF Fits, Records, Queued, NoJob, JobIds
  <2>. QED
    BY <1>1, <1>8, <2>1, FitsMove
<1>9. DocumentsFit'
  <2>1. jobs[j].reply \/ saved[jobs[j].project].job = j
    BY DEF DeployInv, Tracked
  <2>2. Fits(jobs', active, store)
    BY <1>8, <2>1 DEF DeployInv, DocumentsFit
  <2>3. \A p \in Projects : Fits(jobs', p, saved[p])
    BY <1>8, <2>1 DEF DeployInv, DocumentsFit
  <2>. QED
    BY <2>2, <2>3 DEF DeployInv, DocumentsFit
<1>10. Blocked'
  BY <1>5 DEF DeployInv, Blocked, Quiet
<1>11. DoneNotResent'
  <2>. SUFFICES ASSUME ~strayed, NEW a \in JobIds, NEW b \in JobIds, NEW o \in Ops, a < b,
                       jobs'[a].phase = "done", Readable(a)', jobs'[a].ops[o] = "done",
                       jobs'[b].ops[o] # "absent"
                PROVE  FALSE
    BY DEF DoneNotResent
  <2>1. jobs[b].ops[o] # "absent"
    OBVIOUS
  <2>2. CASE a = j
    <3>1. jobs[a].ops[o] # "absent"
      BY <2>2
    <3>2. jobs[a].project = jobs[b].project
      <4>1. o \in Staged[jobs[a].project] /\ o \in Staged[jobs[b].project]
        BY <2>1, <3>1 DEF DeployInv, PlansFit
      <4>2. jobs[a].project \in Projects /\ jobs[b].project \in Projects
        BY DEF Jobs
      <4>. QED
        BY <4>1, <4>2, ClientAssumption DEF ClientAssumption
    <3>3. jobs[b].phase # "unused"
      BY <2>1 DEF DeployInv, PlansFit, Absent, Rows
    <3>4. Latest(jobs, j)
      BY InFlightLatest
    <3>. QED
      BY <2>2, <3>2, <3>3, <3>4 DEF Latest, JobIds
  <2>3. CASE a # j
    BY <2>1, <2>3 DEF DeployInv, DoneNotResent, Readable
  <2>. QED
    BY <2>2, <2>3
<1>. QED
  BY <1>3, <1>6, <1>7, <1>9, <1>10, <1>11

\* The handler of the POST: nobody follows the plan yet.
LEMMA HandlesStep ==
    ASSUME TypeInv, TypeInv', DeployInv, NEW j \in JobIds, Handles(j)
    PROVE  DeployInv'
<1>. jobs \in [JobIds -> Jobs]
  BY DEF TypeInv, TypeOK
<1>1. /\ jobs[j].phase = "posted"
      /\ \A i \in JobIds \ {j} : jobs'[i] = jobs[i]
      /\ jobs'[j].project = jobs[j].project /\ jobs'[j].reply = jobs[j].reply
      /\ jobs'[j].phase \in {"queued", "refused"}
      /\ jobs'[j].ops = jobs[j].ops
      /\ UNCHANGED <<active, store, deploying, saved, strayed, socket>>
  BY DEF Handles, Enqueue, Refuse, Jobs
<1>2. (PlansFit /\ AnswersFit /\ Tracked /\ DocumentsFit /\ Blocked /\ DoneNotResent)'
  BY <1>1, PlanMoves DEF InFlight, Queued
<1>3. Follows'
  BY <1>1 DEF DeployInv, Follows
<1>. QED
  BY <1>2, <1>3 DEF DeployInv

\* A message goes to the socket that follows the plan, if any.
LEMMA FollowsOn ==
    ASSUME TypeInv, Follows, NEW j, NEW message, Announce(j, message), UNCHANGED store
    PROVE  Follows'
<1>. socket \in Sockets
  BY DEF TypeInv, TypeOK
<1>1. socket'.job = socket.job /\ socket'.at = socket.at
  BY DEF Announce, Sockets
<1>. QED
  BY <1>1 DEF Follows

\* A message of a worker.
LEMMA WorksStep ==
    ASSUME TypeInv, TypeInv', DeployInv, NEW j \in JobIds, Works(j) \/ Collapse(j)
    PROVE  DeployInv'
<1>1. PICK phase \in {"running", "done", "error"}, ops \in States :
        Publish(j, phase, ops) /\ \A r \in Rows : ops[r] # "absent" => jobs[j].ops[r] # "absent"
  BY WorkPublishes, Zenon DEF TypeInv
<1>2. jobs[j].phase \in {"queued", "running"}
  BY WorkPublishes DEF TypeInv
<1>3. /\ \A i \in JobIds \ {j} : jobs'[i] = jobs[i]
      /\ jobs'[j].project = jobs[j].project /\ jobs'[j].reply = jobs[j].reply
      /\ jobs'[j].phase = phase /\ jobs'[j].ops = ops
  BY <1>1, PublishedPlan DEF TypeInv
<1>4. UNCHANGED <<active, store, deploying, saved, strayed>> /\ Announce(j, Message(phase, ops))
  BY <1>1 DEF Publish
<1>5. \A o \in Ops : jobs'[j].ops[o] # "absent" => jobs[j].ops[o] # "absent"
  BY <1>1, <1>3 DEF Rows
<1>6. (PlansFit /\ AnswersFit /\ Tracked /\ DocumentsFit /\ Blocked /\ DoneNotResent)'
  BY <1>2, <1>3, <1>4, <1>5, PlanMoves DEF InFlight, Queued
<1>7. Follows'
  BY <1>4, FollowsOn DEF DeployInv
<1>. QED
  BY <1>6, <1>7 DEF DeployInv

\* What the autosave makes of a document that fits.
LEMMA SaveFits ==
    ASSUME TypeInv, NEW e \in Documents, Save(e), active' = active, Fits(jobs', active, e),
           \A p \in Projects \ {active} : Fits(jobs', p, saved[p])
    PROVE  /\ DocumentsFit'
           /\ store' = e /\ saved'[active] = e
           /\ \A p \in Projects \ {active} : saved'[p] = saved[p]
<1>1. store' = e /\ saved' = [saved EXCEPT ![active] = e]
  BY DEF Save
<1>2. saved'[active] = e /\ \A p \in Projects \ {active} : saved'[p] = saved[p]
  BY <1>1 DEF TypeInv, TypeOK
<1>3. \A p \in Projects : Fits(jobs', p, saved'[p])
  BY <1>2
<1>. QED
  BY <1>1, <1>2, <1>3 DEF DocumentsFit

\* While no plan is recorded and no answer awaited, nothing follows a plan.
LEMMA Idle ==
    ASSUME TypeInv, DeployInv, ~deploying
    PROVE  /\ store.job = NoJob /\ saved[active].job = NoJob /\ Quiet(jobs)
           /\ socket.at = "none" /\ socket.job = NoJob
BY DEF DeployInv, Blocked, DocumentsFit, Follows

LEMMA PlannedRows ==
    ASSUME NEW sent \in SUBSET Ops, NEW o \in Ops
    PROVE  Planned(sent)[o] # "absent" <=> o \in sent
BY ClientAssumption DEF Planned, Rows, ClientAssumption

\* The click: what is done is not sent, and the answer is awaited.
LEMMA DeployStep ==
    ASSUME TypeInv, TypeInv', DeployInv, Deploy, ~strayed
    PROVE  DeployInv'
<1>. /\ jobs \in [JobIds -> Jobs] /\ jobs' \in [JobIds -> Jobs] /\ active \in Projects
     /\ store \in Documents /\ saved \in [Projects -> Documents]
  BY DEF TypeInv, TypeOK
<1>. DEFINE e == Prepared(store)
            sent == Listed(e) \cap Ops
<1>1. PICK j \in JobIds :
        /\ jobs[j].phase = "unused" /\ \A i \in 1..(j - 1) : jobs[i].phase # "unused"
        /\ jobs' = [jobs EXCEPT ![j].project = active, ![j].phase = "posted", ![j].reply = TRUE,
                                ![j].ops = Planned(sent)]
  BY DEF Deploy
<1>2. /\ \A i \in JobIds \ {j} : jobs'[i] = jobs[i]
      /\ jobs'[j].project = active /\ jobs'[j].phase = "posted" /\ jobs'[j].reply
      /\ jobs'[j].ops = Planned(sent)
  BY <1>1 DEF Jobs
<1>3. ~deploying /\ deploying' /\ Save(e) /\ UNCHANGED <<active, socket, strayed>>
  BY DEF Deploy, MayDeploy
<1>4. /\ store.job = NoJob /\ saved[active].job = NoJob /\ Quiet(jobs)
      /\ socket.at = "none" /\ socket.job = NoJob
  BY <1>3, Idle
<1>5. /\ e \in Documents /\ e.job = NoJob
      /\ \A o \in Ops : e.rows[o] = IF store.rows[o] \in {"absent", "done"} THEN "absent" ELSE "pending"
  BY <1>4, PreparedType, PreparedRows, PreparedJob DEF e
<1>6. \A o \in Ops : Planned(sent)[o] # "absent" <=> store.rows[o] \notin {"absent", "done"}
  <2>1. \A o \in Ops : o \in sent <=> store.rows[o] \notin {"absent", "done"}
    BY <1>5 DEF Listed, Rows
  <2>. HIDE DEF sent
  <2>2. sent \subseteq Ops
    BY DEF sent
  <2>. QED
    BY <2>1, <2>2, PlannedRows
<1>. HIDE DEF sent, e
<1>7. \A o \in Ops : store.rows[o] # "absent" => o \in Staged[active]
  BY DEF DeployInv, DocumentsFit, Fits, Owns
<1>8. \A i \in JobIds : i > j => jobs[i].phase = "unused"
  BY <1>1 DEF DeployInv, PlansFit, JobIds
<1>9. ASSUME NEW i \in JobIds, Concluded(jobs, i), jobs[i].project = active, NEW o \in Ops,
             jobs[i].ops[o] = "done"
      PROVE  store.rows[o] \in {"absent", "done"}
  <2>1. ~jobs[i].reply /\ store.job # i
    BY <1>4 DEF Quiet, NoJob, JobIds
  <2>2. Settled(jobs, i, active, store)
    BY <1>9, <2>1 DEF DeployInv, DocumentsFit, Fits, Settles
  <2>. QED
    BY <1>9, <2>2 DEF Settled
<1>10. PlansFit'
  <2>1. \A i, k \in JobIds : i < k /\ jobs'[i].phase = "unused" => jobs'[k].phase = "unused"
    BY <1>1, <1>2 DEF DeployInv, PlansFit, JobIds
  <2>2. \A o \in Ops : jobs'[j].ops[o] # "absent" => o \in Staged[active]
    BY <1>2, <1>6, <1>7
  <2>. QED
    BY <1>2, <2>1, <2>2 DEF DeployInv, PlansFit, Live
<1>11. \A p \in Projects \ {active} : Fits(jobs', p, saved[p])
  <2>. SUFFICES ASSUME NEW p \in Projects \ {active} PROVE Fits(jobs', p, saved[p])
    OBVIOUS
  <2>1. Fits(jobs, p, saved[p]) /\ saved[p] \in Documents
    BY DEF DeployInv, DocumentsFit
  <2>2. Records(jobs', p, saved[p])
    <3>1. saved[p].job # NoJob => saved[p].job \in JobIds \ {j}
      BY <1>1, <2>1 DEF Fits, Records, Queued, Documents
    <3>. QED
      BY <1>2, <2>1, <3>1 DEF Fits, Records, Latest
  <2>3. ASSUME NEW i \in JobIds, Settled(jobs, i, p, saved[p]), i # j PROVE Settled(jobs', i, p, saved[p])
    BY <1>2, <2>3 DEF Settled
  <2>4. Settles(jobs', p, saved[p])
    BY <1>2, <2>1, <2>3 DEF Fits, Settles, Concluded
  <2>. QED
    BY <2>1, <2>2, <2>4 DEF Fits
<1>12. Fits(jobs', active, e)
  <2>1. Owns(active, e) /\ Records(jobs', active, e)
    BY <1>5, <1>7 DEF Owns, Records
  <2>2. Settles(jobs', active, e)
    BY <1>2, <1>5, <1>9 DEF Settles, Settled, Concluded
  <2>. QED
    BY <2>1, <2>2 DEF Fits
<1>13. /\ DocumentsFit' /\ store' = e /\ saved'[active] = e
       /\ \A p \in Projects \ {active} : saved'[p] = saved[p]
  BY <1>3, <1>5, <1>11, <1>12, SaveFits
<1>14. AnswersFit'
  <2>1. Latest(jobs', j)
    BY <1>2, <1>8 DEF Latest, JobIds
  <2>. QED
    BY <1>2, <1>3, <1>4, <1>5, <1>13, <2>1 DEF AnswersFit, Quiet
<1>15. Tracked'
  <2>1. \A i \in JobIds \ {j} : InFlight(jobs[i].phase) => saved'[jobs[i].project].job = i
    BY <1>4, <1>13 DEF DeployInv, Tracked, Quiet, Jobs, NoJob, JobIds
  <2>. QED
    BY <1>2, <2>1 DEF Tracked
<1>16. Blocked' /\ Follows'
  <2>1. store'.job = NoJob /\ ~Quiet(jobs') /\ socket' = socket
    BY <1>2, <1>3, <1>5, <1>13 DEF Quiet
  <2>. QED
    BY <1>3, <1>4, <2>1 DEF Blocked, Follows
<1>17. DoneNotResent'
  <2>. SUFFICES ASSUME NEW a \in JobIds, NEW b \in JobIds, NEW o \in Ops, a < b,
                       jobs'[a].phase = "done", Readable(a)', jobs'[a].ops[o] = "done",
                       jobs'[b].ops[o] # "absent"
                PROVE  FALSE
    BY DEF DoneNotResent
  <2>1. a # j /\ jobs'[a] = jobs[a]
    BY <1>2
  <2>2. CASE b = j
    <3>1. store.rows[o] \notin {"absent", "done"} /\ o \in Staged[active]
      BY <1>2, <1>6, <1>7, <2>2
    <3>2. o \in Staged[jobs[a].project] /\ jobs[a].project \in Projects
      BY <2>1 DEF DeployInv, PlansFit, Jobs
    <3>3. jobs[a].project = active
      BY <3>1, <3>2, ClientAssumption DEF ClientAssumption
    <3>. QED
      BY <1>9, <2>1, <3>1, <3>3 DEF Concluded, Readable
  <2>3. CASE b # j
    BY <1>2, <2>1, <2>3 DEF DeployInv, DoneNotResent, Readable
  <2>. QED
    BY <2>2, <2>3
<1>. QED
  BY <1>10, <1>13, <1>14, <1>15, <1>16, <1>17 DEF DeployInv

\* An answer to plan j is delivered, and nothing else happens to the plans: it goes to the
\* project on the screen, and what the other projects keep is not disturbed.
LEMMA AnswerDelivered ==
    ASSUME TypeInv, TypeInv', DeployInv, NEW j \in JobIds, jobs[j].reply, Quiet(jobs'),
           \A i \in JobIds : /\ jobs'[i].project = jobs[i].project /\ jobs'[i].phase = jobs[i].phase
                             /\ jobs'[i].ops = jobs[i].ops /\ jobs'[i].kept = jobs[i].kept
                             /\ jobs'[i].snapshot = jobs[i].snapshot,
           UNCHANGED <<active, strayed>>
    PROVE  /\ jobs[j].project = active /\ store.job = NoJob /\ Latest(jobs', j) /\ deploying
           /\ \A p \in Projects \ {active} : Fits(jobs', p, saved[p])
           /\ \A i \in JobIds \ {j} : Concluded(jobs', i) /\ jobs[i].project = active =>
                  \A o \in Ops : jobs[i].ops[o] = "done" => store.rows[o] = "absent"
           /\ \A i \in JobIds \ {j} : InFlight(jobs[i].phase) =>
                  jobs[i].project \in Projects \ {active} /\ saved[jobs[i].project].job = i
           /\ PlansFit' /\ AnswersFit' /\ DoneNotResent'
<1>. /\ jobs \in [JobIds -> Jobs] /\ jobs' \in [JobIds -> Jobs] /\ active \in Projects
     /\ store \in Documents /\ saved \in [Projects -> Documents]
  BY DEF TypeInv, TypeOK
<1>1. /\ jobs[j].project = active /\ store.job = NoJob /\ Latest(jobs, j)
      /\ \A i \in JobIds : jobs[i].reply => i = j
  BY DEF DeployInv, AnswersFit
<1>2. deploying
  BY DEF DeployInv, Blocked, Quiet
<1>3. \A i \in JobIds : Latest(jobs, i) => Latest(jobs', i)
  BY DEF Latest
<1>4. \A i \in JobIds : Concluded(jobs', i) <=> Concluded(jobs, i)
  BY DEF Concluded
<1>5. ASSUME NEW p \in Projects \ {active} PROVE Fits(jobs', p, saved[p])
  <2>1. Fits(jobs, p, saved[p]) /\ saved[p] \in Documents
    BY DEF DeployInv, DocumentsFit
  <2>2. Records(jobs', p, saved[p])
    <3>1. saved[p].job # NoJob => saved[p].job \in JobIds
      BY <2>1 DEF Documents
    <3>. QED
      BY <1>3, <2>1, <3>1 DEF Fits, Records, Quiet
  <2>3. ASSUME NEW i \in JobIds, Settled(jobs, i, p, saved[p]) PROVE Settled(jobs', i, p, saved[p])
    BY <2>3 DEF Settled, Quiet
  <2>4. \A i \in JobIds : jobs[i].reply => jobs[i].project = active
    BY <1>1
  <2>5. Settles(jobs', p, saved[p])
    BY <1>4, <2>1, <2>3, <2>4 DEF Fits, Settles
  <2>. QED
    BY <2>1, <2>2, <2>5 DEF Fits
<1>6. ASSUME NEW i \in JobIds \ {j}, Concluded(jobs', i), jobs[i].project = active,
             NEW o \in Ops, jobs[i].ops[o] = "done"
      PROVE  store.rows[o] = "absent"
  <2>1. Concluded(jobs, i) /\ ~jobs[i].reply /\ store.job # i
    BY <1>1, <1>4, <1>6 DEF NoJob, JobIds
  <2>2. Settled(jobs, i, active, store)
    BY <1>6, <2>1 DEF DeployInv, DocumentsFit, Fits, Settles
  <2>. QED
    BY <1>1, <1>6, <2>2 DEF Settled
<1>7. ASSUME NEW i \in JobIds \ {j}, InFlight(jobs[i].phase)
      PROVE  jobs[i].project \in Projects \ {active} /\ saved[jobs[i].project].job = i
  <2>1. saved[jobs[i].project].job = i
    BY <1>1, <1>7 DEF DeployInv, Tracked
  <2>2. saved[active].job = NoJob /\ i # NoJob
    BY <1>1 DEF DeployInv, DocumentsFit, NoJob, JobIds
  <2>. QED
    BY <2>1, <2>2 DEF Jobs
<1>8. PlansFit' /\ AnswersFit'
  BY DEF DeployInv, PlansFit, AnswersFit, Quiet
<1>9. DoneNotResent'
  BY DEF DeployInv, DoneNotResent, Readable
<1>. QED
  BY <1>1, <1>2, <1>3, <1>5, <1>6, <1>7, <1>8, <1>9

\* It was accepted: the plan is recorded and followed.
LEMMA AcceptedStep ==
    ASSUME TypeInv, TypeInv', DeployInv, NEW j \in JobIds, Accepted(j)
    PROVE  DeployInv'
<1>. /\ jobs \in [JobIds -> Jobs] /\ jobs' \in [JobIds -> Jobs] /\ active \in Projects
     /\ store \in Documents /\ saved \in [Projects -> Documents]
  BY DEF TypeInv, TypeOK
<1>. DEFINE e == [store EXCEPT !.job = j]
<1>1. /\ jobs[j].reply /\ jobs[j].phase \notin {"posted", "refused"}
      /\ \A i \in JobIds \ {j} : jobs'[i] = jobs[i]
      /\ jobs'[j].project = jobs[j].project /\ jobs'[j].phase = jobs[j].phase
      /\ jobs'[j].ops = jobs[j].ops /\ jobs'[j].kept = jobs[j].kept
      /\ jobs'[j].snapshot = jobs[j].snapshot /\ ~jobs'[j].reply
  BY DEF Accepted, Jobs
<1>2. /\ Save(e) /\ socket' = [job |-> j, attempt |-> 0, at |-> "opening", frames |-> <<>>]
      /\ UNCHANGED <<active, deploying, strayed>>
  BY DEF Accepted, Attach
<1>3. jobs[j].phase \in Queued /\ j # NoJob
  BY <1>1 DEF DeployInv, PlansFit, Jobs, Phases, Queued, JobIds, NoJob
<1>4. e \in Documents /\ e.job = j /\ e.rows = store.rows
  BY DEF Documents
<1>. HIDE DEF e
<1>5. /\ \A i \in JobIds : /\ jobs'[i].project = jobs[i].project /\ jobs'[i].phase = jobs[i].phase
                           /\ jobs'[i].ops = jobs[i].ops /\ jobs'[i].kept = jobs[i].kept
                           /\ jobs'[i].snapshot = jobs[i].snapshot
      /\ Quiet(jobs')
  BY <1>1 DEF DeployInv, AnswersFit, Quiet
<1>6. /\ jobs[j].project = active /\ Latest(jobs', j) /\ deploying
      /\ \A p \in Projects \ {active} : Fits(jobs', p, saved[p])
      /\ \A i \in JobIds \ {j} : Concluded(jobs', i) /\ jobs[i].project = active =>
            \A o \in Ops : jobs[i].ops[o] = "done" => store.rows[o] = "absent"
      /\ \A i \in JobIds \ {j} : InFlight(jobs[i].phase) =>
            jobs[i].project \in Projects \ {active} /\ saved[jobs[i].project].job = i
      /\ PlansFit' /\ AnswersFit' /\ DoneNotResent'
  BY <1>1, <1>2, <1>5, AnswerDelivered
<1>7. Fits(jobs', active, e)
  <2>1. Owns(active, e)
    BY <1>4 DEF DeployInv, DocumentsFit, Fits, Owns
  <2>2. Records(jobs', active, e)
    BY <1>1, <1>3, <1>4, <1>6 DEF Records
  <2>3. Settles(jobs', active, e)
    BY <1>4, <1>5, <1>6 DEF Settles, Settled
  <2>. QED
    BY <2>1, <2>2, <2>3 DEF Fits
<1>8. /\ DocumentsFit' /\ store' = e /\ saved'[active] = e
      /\ \A p \in Projects \ {active} : saved'[p] = saved[p]
  BY <1>2, <1>4, <1>6, <1>7, SaveFits
<1>9. Tracked'
  BY <1>4, <1>5, <1>6, <1>8 DEF Tracked
<1>10. Blocked'
  BY <1>2, <1>3, <1>4, <1>6, <1>8 DEF Blocked
<1>11. Follows'
  BY <1>2, <1>3, <1>4, <1>8 DEF Follows
<1>. QED
  BY <1>6, <1>8, <1>9, <1>10, <1>11 DEF DeployInv

\* It was refused: the rows are staged again, and those that were done were dropped.
\* An answer that is lost is not.
LEMMA RefusedStep ==
    ASSUME TypeInv, TypeInv', DeployInv, NEW j \in JobIds, Refused(j) \/ AnswerLost(j), ~strayed'
    PROVE  DeployInv'
<1>. /\ jobs \in [JobIds -> Jobs] /\ jobs' \in [JobIds -> Jobs] /\ active \in Projects
     /\ store \in Documents /\ saved \in [Projects -> Documents]
  BY DEF TypeInv, TypeOK
<1>. DEFINE rows == [r \in Rows |-> IF store.rows[r] = "absent" THEN "absent" ELSE "staged"]
            e == [store EXCEPT !.rows = [r \in Rows |-> IF @[r] = "absent" THEN "absent" ELSE "staged"]]
<1>1. /\ jobs[j].reply /\ jobs[j].phase = "refused"
      /\ \A i \in JobIds \ {j} : jobs'[i] = jobs[i]
      /\ jobs'[j].project = jobs[j].project /\ jobs'[j].phase = jobs[j].phase
      /\ jobs'[j].ops = jobs[j].ops /\ jobs'[j].kept = jobs[j].kept
      /\ jobs'[j].snapshot = jobs[j].snapshot /\ ~jobs'[j].reply
  BY DEF Refused, AnswerLost, Unposted, Jobs
<1>2. /\ Save(e) /\ deploying' = FALSE /\ UNCHANGED <<active, socket, strayed>>
  BY DEF Refused, AnswerLost, Unposted
<1>3. store.job = NoJob
  BY <1>1 DEF DeployInv, AnswersFit
<1>4. e = [store EXCEPT !.rows = rows]
  BY Zenon
<1>5. rows \in States /\ \A o \in Ops : rows[o] = IF store.rows[o] = "absent" THEN "absent" ELSE "staged"
  BY DEF States, Statuses, Rows
<1>. HIDE DEF rows
<1>6. e \in Documents
  BY <1>4, <1>5, WriteRows, Zenon
<1>7. e.job = NoJob /\ e.rows = rows
  BY <1>3, <1>4 DEF Documents
<1>. HIDE DEF e
<1>8. /\ \A i \in JobIds : /\ jobs'[i].project = jobs[i].project /\ jobs'[i].phase = jobs[i].phase
                           /\ jobs'[i].ops = jobs[i].ops /\ jobs'[i].kept = jobs[i].kept
                           /\ jobs'[i].snapshot = jobs[i].snapshot
      /\ Quiet(jobs')
  BY <1>1 DEF DeployInv, AnswersFit, Quiet
<1>9. /\ \A p \in Projects \ {active} : Fits(jobs', p, saved[p])
      /\ \A i \in JobIds \ {j} : Concluded(jobs', i) /\ jobs[i].project = active =>
            \A o \in Ops : jobs[i].ops[o] = "done" => store.rows[o] = "absent"
      /\ \A i \in JobIds \ {j} : InFlight(jobs[i].phase) =>
            jobs[i].project \in Projects \ {active} /\ saved[jobs[i].project].job = i
      /\ PlansFit' /\ AnswersFit' /\ DoneNotResent'
  BY <1>1, <1>2, <1>8, AnswerDelivered
<1>10. Fits(jobs', active, e)
  <2>1. Owns(active, e) /\ Records(jobs', active, e)
    BY <1>5, <1>7 DEF DeployInv, DocumentsFit, Fits, Owns, Records
  <2>2. Settles(jobs', active, e)
    BY <1>1, <1>5, <1>7, <1>8, <1>9 DEF Settles, Settled, Concluded
  <2>. QED
    BY <2>1, <2>2 DEF Fits
<1>11. /\ DocumentsFit' /\ store' = e /\ saved'[active] = e
       /\ \A p \in Projects \ {active} : saved'[p] = saved[p]
  BY <1>2, <1>6, <1>9, <1>10, SaveFits
<1>12. Tracked'
  BY <1>1, <1>8, <1>9, <1>11 DEF Tracked, InFlight
<1>13. Blocked'
  BY <1>2, <1>7, <1>8, <1>11 DEF Blocked
<1>14. Follows'
  BY <1>2, <1>3, <1>7, <1>11 DEF DeployInv, Follows
<1>. QED
  BY <1>9, <1>11, <1>12, <1>13, <1>14 DEF DeployInv

\* The store changes under the same plans: only a plan that is through is forgotten.
LEMMA StoreMoves ==
    ASSUME TypeInv, DeployInv, NEW e \in Documents, Save(e), Fits(jobs, active, e),
           UNCHANGED <<jobs, active, strayed>>,
           e.job = store.job \/ e.job = NoJob,
           e.job # store.job => ~InFlight(jobs[store.job].phase)
    PROVE  (PlansFit /\ AnswersFit /\ Tracked /\ DocumentsFit /\ DoneNotResent)' /\ store' = e
<1>1. /\ DocumentsFit' /\ store' = e /\ saved'[active] = e
      /\ \A p \in Projects \ {active} : saved'[p] = saved[p]
  BY SaveFits DEF DeployInv, DocumentsFit
<1>2. PlansFit' /\ DoneNotResent'
  BY DEF DeployInv, PlansFit, DoneNotResent, Readable
<1>3. AnswersFit'
  BY <1>1 DEF DeployInv, AnswersFit
<1>4. Tracked'
  <2>. SUFFICES ASSUME NEW j \in JobIds, InFlight(jobs[j].phase), ~jobs[j].reply
                PROVE  saved'[jobs[j].project].job = j
    BY DEF Tracked
  <2>1. saved[jobs[j].project].job = j /\ jobs[j].project \in Projects
    BY DEF DeployInv, Tracked, TypeInv, TypeOK, Jobs
  <2>2. CASE jobs[j].project = active
    <3>1. store.job = j
      BY <2>1, <2>2 DEF DeployInv, DocumentsFit
    <3>. QED
      BY <1>1, <2>2, <3>1
  <2>3. CASE jobs[j].project # active
    BY <1>1, <2>1, <2>3
  <2>. QED
    BY <2>2, <2>3
<1>. QED
  BY <1>1, <1>2, <1>3, <1>4

\* Nothing but the socket changes.
LEMMA SameStore ==
    ASSUME DeployInv, UNCHANGED <<jobs, active, store, deploying, saved, strayed>>
    PROVE  (PlansFit /\ AnswersFit /\ Tracked /\ DocumentsFit /\ Blocked /\ DoneNotResent)'
BY DEF DeployInv, PlansFit, AnswersFit, Tracked, DocumentsFit, Blocked, DoneNotResent, Readable, Quiet

\* The operator edits the list while nothing is deploying.
LEMMA EditStep ==
    ASSUME TypeInv, DeployInv, Review \/ \E o \in Ops : Remove(o)
    PROVE  DeployInv'
<1>. store \in Documents /\ active \in Projects /\ jobs \in [JobIds -> Jobs]
  BY DEF TypeInv, TypeOK
<1>1. ~deploying /\ UNCHANGED <<jobs, active, deploying, strayed, socket>>
  BY DEF Review, Remove
<1>2. PICK e \in Documents : Save(e) /\ e.job = store.job /\ \A o \in Ops : e.rows[o] \in {"absent", store.rows[o]}
  <2>1. CASE Review
    <3>. DEFINE new == {r \in Provisions : Parent(r) \in Resettable(store) /\ store.rows[r] = "absent"}
                rows == [r \in Rows |-> IF r \in new THEN "pending" ELSE store.rows[r]]
                deps == [r \in Rows |-> IF r \in new THEN {Parent(r)} ELSE store.deps[r]]
                e == [store EXCEPT !.rows = [r \in Rows |-> IF r \in new THEN "pending" ELSE @[r]],
                                   !.deps = [r \in Rows |-> IF r \in new THEN {Parent(r)} ELSE @[r]]]
    <3>1. rows \in States
      BY DEF States, Statuses, Documents
    <3>2. deps \in [Rows -> SUBSET Rows]
      BY Parents DEF Documents
    <3>3. \A o \in Ops : rows[o] = store.rows[o]
      BY ClientAssumption DEF ClientAssumption, Rows
    <3>4. e = [store EXCEPT !.rows = rows, !.deps = deps]
      BY Zenon
    <3>5. Save(e)
      BY <2>1 DEF Review
    <3>. HIDE DEF rows, deps
    <3>6. e \in Documents
      BY <3>1, <3>2, <3>4, WriteDeps, Zenon
    <3>7. e.job = store.job /\ e.rows = rows
      BY <3>4 DEF Documents
    <3>. HIDE DEF e
    <3>. QED
      BY <3>3, <3>5, <3>6, <3>7
  <2>2. ASSUME NEW o \in Ops, Remove(o)
        PROVE  \E e \in Documents : Save(e) /\ e.job = store.job /\ \A q \in Ops : e.rows[q] \in {"absent", store.rows[q]}
    <3>. DEFINE kept == Listed(store) \ Cascade(store, o)
    <3>1. Save(Keeping(store, kept))
      BY <2>2 DEF Remove
    <3>. HIDE DEF kept
    <3>. QED
      BY <3>1, KeepingType, KeepingJob, KeepingRows
  <2>. QED
    BY <2>1, <2>2
<1>3. Fits(jobs, active, e)
  <2>1. Fits(jobs, active, store)
    BY DEF DeployInv, DocumentsFit
  <2>2. \A o \in Ops : \/ e.rows[o] \in {"absent", store.rows[o]}
                       \/ store.job # NoJob /\ store.rows[o] # "absent"
    BY <1>2
  <2>. QED
    BY <1>2, <2>1, <2>2, FitsOn
<1>4. (PlansFit /\ AnswersFit /\ Tracked /\ DocumentsFit /\ DoneNotResent)' /\ store' = e
  BY <1>1, <1>2, <1>3, StoreMoves
<1>5. Blocked' /\ Follows'
  BY <1>1, <1>2, <1>4 DEF DeployInv, Blocked, Quiet, Follows
<1>. QED
  BY <1>4, <1>5 DEF DeployInv

\* A snapshot expires, or is overwritten: nothing of its plan is promised any more.
LEMMA SnapshotStep ==
    ASSUME TypeInv, TypeInv', DeployInv, NEW j \in JobIds, Expire(j) \/ PublishLate(j)
    PROVE  DeployInv'
<1>. /\ jobs \in [JobIds -> Jobs] /\ jobs' \in [JobIds -> Jobs] /\ active \in Projects
     /\ store \in Documents /\ saved \in [Projects -> Documents]
  BY DEF TypeInv, TypeOK
<1>1. /\ \A i \in JobIds \ {j} : jobs'[i] = jobs[i]
      /\ jobs'[j].project = jobs[j].project /\ jobs'[j].phase = jobs[j].phase
      /\ jobs'[j].ops = jobs[j].ops /\ jobs'[j].reply = jobs[j].reply
      /\ ~jobs'[j].kept \/ jobs'[j].snapshot.type = "running"
      /\ UNCHANGED <<active, store, deploying, saved, strayed>>
      /\ Follows'
  <2>1. CASE Expire(j)
    BY <2>1 DEF Expire, Jobs, DeployInv, Follows
  <2>2. CASE PublishLate(j)
    <3>1. PICK message : Announce(j, message)
      BY <2>2, LatePlan DEF TypeInv
    <3>2. UNCHANGED <<active, store, deploying, saved, strayed>>
      BY <2>2 DEF PublishLate
    <3>3. Follows'
      BY <3>1, <3>2, FollowsOn DEF DeployInv
    <3>. QED
      BY <2>2, <3>2, <3>3, LatePlan DEF TypeInv
  <2>. QED
    BY <2>1, <2>2
<1>2. \A i \in JobIds : /\ jobs'[i].project = jobs[i].project /\ jobs'[i].phase = jobs[i].phase
                        /\ jobs'[i].ops = jobs[i].ops /\ jobs'[i].reply = jobs[i].reply
                        /\ jobs[i].phase = "done" /\ Readable(i)' => Readable(i)
  BY <1>1 DEF Readable
<1>3. PlansFit' /\ AnswersFit' /\ Tracked' /\ Blocked'
  BY <1>1, <1>2 DEF DeployInv, PlansFit, AnswersFit, Tracked, Blocked, Quiet, Latest
<1>4. ASSUME NEW p \in Projects, NEW d \in Documents, Fits(jobs, p, d) PROVE Fits(jobs', p, d)
  <2>1. CASE jobs[j].phase = "unused"
    <3>1. d.job # j
      BY <1>4, <2>1 DEF Fits, Records, Queued, NoJob, JobIds
    <3>2. d.job # NoJob => d.job \in JobIds
      BY DEF Documents
    <3>3. Records(jobs', p, d)
      BY <1>2, <1>4, <3>2 DEF Fits, Records, Latest
    <3>4. \A i \in JobIds : Settled(jobs, i, p, d) => Settled(jobs', i, p, d)
      BY <1>2 DEF Settled
    <3>5. \A i \in JobIds : Concluded(jobs', i) => Concluded(jobs, i)
      BY <1>1, <2>1 DEF Concluded
    <3>6. Settles(jobs', p, d)
      BY <1>2, <1>4, <3>4, <3>5 DEF Fits, Settles
    <3>. QED
      BY <1>4, <3>3, <3>6 DEF Fits
  <2>2. CASE jobs[j].phase # "unused"
    <3>1. d.job = j => jobs'[j].phase \in Queued
      BY <1>1, <1>4 DEF Fits, Records, NoJob, JobIds
    <3>2. ~Concluded(jobs', j)
      BY <1>1 DEF Concluded
    <3>. QED
      BY <1>1, <1>4, <2>2, <3>1, <3>2, FitsMove
  <2>. QED
    BY <2>1, <2>2
<1>5. DocumentsFit'
  BY <1>1, <1>4 DEF DeployInv, DocumentsFit
<1>6. DoneNotResent'
  BY <1>1, <1>2 DEF DeployInv, DoneNotResent
<1>. QED
  BY <1>1, <1>3, <1>5, <1>6 DEF DeployInv

\* The socket's own steps, short of giving up: it follows the same plan.
LEMMA SocketStep ==
    ASSUME TypeInv, DeployInv, Subscribe \/ Stream \/ Reconnect \/ ((Unknown \/ Drop) /\ Retry)
    PROVE  DeployInv'
<1>. socket \in Sockets
  BY DEF TypeInv, TypeOK
<1>1. /\ UNCHANGED <<jobs, active, store, deploying, saved, strayed>>
      /\ socket.at # "none" /\ socket'.job = socket.job /\ socket'.at # "none"
  <2>1. CASE Subscribe \/ Stream
    BY <2>1 DEF Subscribe, Stream, Sockets
  <2>2. CASE Reconnect
    BY <2>2 DEF Reconnect, Attach
  <2>3. CASE (Unknown \/ Drop) /\ Retry
    BY <2>3 DEF Unknown, Drop, Retry, Sockets
  <2>. QED
    BY <2>1, <2>2, <2>3
<1>2. (PlansFit /\ AnswersFit /\ Tracked /\ DocumentsFit /\ Blocked /\ DoneNotResent)'
  BY <1>1, SameStore
<1>3. Follows'
  BY <1>1 DEF DeployInv, Follows
<1>. QED
  BY <1>2, <1>3 DEF DeployInv

LEMMA Detached ==
    ASSUME socket' = NoSocket, store'.job = NoJob
    PROVE  Follows'
BY DEF NoSocket, Follows

\* A plan whose answer is not awaited lets go of the store once it is through.
LEMMA ForgetStep ==
    ASSUME TypeInv, DeployInv, NEW e \in Documents, Save(e), e.job = NoJob,
           store.job # NoJob, ~InFlight(jobs[store.job].phase),
           \A o \in Ops : store.rows[o] = "absent" => e.rows[o] = "absent",
           Concluded(jobs, store.job) =>
              \A o \in Ops : jobs[store.job].ops[o] = "done" => e.rows[o] \in {"absent", "done"},
           deploying' = FALSE, socket' = NoSocket, UNCHANGED <<jobs, active, strayed>>
    PROVE  DeployInv'
<1>. store \in Documents /\ active \in Projects /\ jobs \in [JobIds -> Jobs]
  BY DEF TypeInv, TypeOK
<1>1. Quiet(jobs)
  BY DEF DeployInv, AnswersFit, Quiet
<1>2. Fits(jobs, active, store)
  BY DEF DeployInv, DocumentsFit
<1>3. Fits(jobs, active, e)
  BY <1>1, <1>2, FitsAfter DEF Quiet
<1>4. (PlansFit /\ AnswersFit /\ Tracked /\ DocumentsFit /\ DoneNotResent)' /\ store' = e
  BY <1>3, StoreMoves
<1>5. Blocked'
  BY <1>1, <1>4 DEF Blocked, Quiet
<1>6. Follows'
  BY <1>4, Detached
<1>. QED
  BY <1>4, <1>5, <1>6 DEF DeployInv

\* After the last try the plan is given up: it is through, and cannot be read any more.
LEMMA GiveUpStep ==
    ASSUME TypeInv, DeployInv, Unknown \/ Drop, GiveUp, ~strayed, ~strayed'
    PROVE  DeployInv'
<1>. store \in Documents /\ jobs \in [JobIds -> Jobs]
  BY DEF TypeInv, TypeOK
<1>1. /\ socket.at \in {"opening", "subscribed", "open"}
      /\ UNCHANGED <<jobs, active, strayed>>
      /\ Save(Reverted(store)) /\ deploying' = FALSE /\ socket' = NoSocket
      /\ ~Live(socket.job) /\ ~jobs[socket.job].kept
  <2>1. /\ socket.at \in {"opening", "subscribed", "open"} /\ UNCHANGED <<jobs, active>>
        /\ Save(Reverted(store)) /\ deploying' = FALSE /\ socket' = NoSocket
        /\ strayed' = (strayed \/ Live(socket.job) \/ jobs[socket.job].kept)
    BY DEF Unknown, Drop, GiveUp
  <2>2. ~Live(socket.job) /\ ~jobs[socket.job].kept
    BY <2>1, Zenon
  <2>3. strayed \in BOOLEAN /\ strayed' \in BOOLEAN
    BY <2>1, Zenon DEF TypeInv, TypeOK
  <2>4. strayed = FALSE /\ strayed' = FALSE
    BY <2>3
  <2>. QED
    BY <2>1, <2>2, <2>4
<1>2. socket.job = store.job /\ socket.job \in JobIds /\ socket.job # NoJob
  BY <1>1 DEF TypeInv, Attached, DeployInv, Follows, JobIds, NoJob
<1>3. ~InFlight(jobs[store.job].phase)
  <2>1. jobs[store.job].phase \in Queued
    BY <1>2 DEF DeployInv, DocumentsFit, Fits, Records
  <2>. QED
    BY <1>1, <1>2, <2>1 DEF Live, InFlight, Queued
<1>4. /\ Reverted(store) \in Documents /\ Reverted(store).job = NoJob
      /\ \A o \in Ops : store.rows[o] = "absent" => Reverted(store).rows[o] = "absent"
  BY RevertedType, RevertedJob, RevertedRows
<1>. QED
  BY <1>1, <1>2, <1>3, <1>4, ForgetStep DEF Concluded

-----------------------------------------------------------------------------
\* A message is read.
LEMMA ProgressStep ==
    ASSUME TypeInv, DeployInv, socket.at = "open", socket.frames # <<>>,
           Progress(Head(socket.frames)), UNCHANGED <<active, jobs, strayed, counts>>
    PROVE  DeployInv'
<1>. /\ socket \in Sockets /\ store \in Documents /\ active \in Projects
     /\ jobs \in [JobIds -> Jobs]
  BY DEF TypeInv, TypeOK
<1>. DEFINE frame == Head(socket.frames)
<1>1. /\ frame.type \in {"queued", "running"}
      /\ UNCHANGED <<active, jobs, strayed, deploying>>
      /\ socket'.job = socket.job /\ socket'.at = "open"
      /\ IF frame.type = "running" THEN Save(Applied(store, frame.ops)) ELSE UNCHANGED <<store, saved>>
  BY DEF Progress, Sockets
<1>2. socket.frames \in Seq(Frames)
  BY DEF Sockets
<1>3. frame \in Frames /\ frame = socket.frames[1]
  BY <1>2
<1>4. frame.ops \in States
  BY <1>3 DEF Frames
<1>. HIDE DEF frame
<1>5. socket.job = store.job /\ socket.job \in JobIds /\ socket.job # NoJob
  BY DEF TypeInv, Attached, DeployInv, Follows, JobIds, NoJob
<1>6. (PlansFit /\ AnswersFit /\ Tracked /\ DocumentsFit /\ Blocked /\ DoneNotResent)' /\ store'.job = store.job
  <2>1. CASE frame.type = "running"
    <3>. DEFINE e == Applied(store, frame.ops)
    <3>1. e \in Documents /\ e.job = store.job
      BY <1>4, AppliedType, AppliedJob
    <3>2. \A o \in Ops : \/ e.rows[o] \in {"absent", store.rows[o]}
                         \/ store.job # NoJob /\ store.rows[o] # "absent"
      BY <1>4, <1>5, AppliedRows
    <3>3. Save(e)
      BY <1>1, <2>1
    <3>4. Fits(jobs, active, store)
      BY DEF DeployInv, DocumentsFit
    <3>. HIDE DEF e
    <3>5. Fits(jobs, active, e)
      BY <3>1, <3>2, <3>4, FitsOn
    <3>6. (PlansFit /\ AnswersFit /\ Tracked /\ DocumentsFit /\ DoneNotResent)' /\ store' = e
      BY <1>1, <3>1, <3>3, <3>5, StoreMoves
    <3>7. Blocked'
      BY <1>1, <3>1, <3>6 DEF DeployInv, Blocked, Quiet
    <3>. QED
      BY <3>1, <3>6, <3>7
  <2>2. CASE frame.type # "running"
    BY <1>1, <2>2, SameStore
  <2>. QED
    BY <2>1, <2>2
<1>7. Follows'
  BY <1>1, <1>5, <1>6 DEF Follows
<1>. QED
  BY <1>6, <1>7 DEF DeployInv

\* The last message: finishDeploy, or the rows are staged again.
LEMMA EndedStep ==
    ASSUME TypeInv, Wired, DeployInv, socket.at = "open", socket.frames # <<>>,
           Ended(Head(socket.frames)), UNCHANGED <<active, jobs, strayed, counts>>
    PROVE  DeployInv'
<1>. /\ socket \in Sockets /\ store \in Documents /\ active \in Projects
     /\ jobs \in [JobIds -> Jobs]
  BY DEF TypeInv, TypeOK
<1>. DEFINE frame == Head(socket.frames)
            e == IF frame.type = "done" THEN Finished(store, frame.ops) ELSE Reverted(store)
<1>1. /\ Terminal(frame.type) /\ Save(e) /\ deploying' = FALSE /\ socket' = NoSocket
      /\ UNCHANGED <<active, jobs, strayed>>
  BY DEF Ended, Terminal
<1>2. /\ frame \in Frames /\ frame = socket.frames[1] /\ 1 \in 1..Len(socket.frames)
  BY DEF Sockets
<1>3. frame.ops \in States
  BY <1>2 DEF Frames
<1>4. socket.job = store.job /\ socket.job \in JobIds /\ socket.job # NoJob
  BY DEF TypeInv, Attached, DeployInv, Follows, JobIds, NoJob
<1>. HIDE DEF frame
<1>5. jobs[store.job].phase = frame.type /\ jobs[store.job].ops = frame.ops
  BY <1>1, <1>2, <1>4 DEF Wired, FramesFit
<1>6. ~InFlight(jobs[store.job].phase)
  BY <1>1, <1>5 DEF InFlight, Terminal
<1>7. /\ e \in Documents /\ e.job = NoJob
      /\ \A o \in Ops : store.rows[o] = "absent" => e.rows[o] = "absent"
      /\ frame.type = "done" => \A o \in Ops : frame.ops[o] = "done" => e.rows[o] \in {"absent", "done"}
  <2>1. CASE frame.type = "done"
    <3>1. e = Finished(store, frame.ops)
      BY <2>1
    <3>. HIDE DEF e
    <3>. QED
      BY <1>3, <3>1, FinishedType, FinishedJob, FinishedRows
  <2>2. CASE frame.type # "done"
    <3>1. e = Reverted(store)
      BY <2>2
    <3>. HIDE DEF e
    <3>. QED
      BY <2>2, <3>1, RevertedType, RevertedJob, RevertedRows
  <2>. QED
    BY <2>1, <2>2
<1>. HIDE DEF e
<1>. QED
  BY <1>1, <1>4, <1>5, <1>6, <1>7, ForgetStep DEF Concluded

\* loadOps: a project that was put away fits again, and its plan is followed.
LEMMA LoadStep ==
    ASSUME TypeInv, DeployInv, Quiet(jobs), UNCHANGED <<jobs, strayed>>,
           active' \in Projects, Load(saved[active']),
           \A p \in Projects : Fits(jobs, p, saved'[p]) /\ saved'[p].job = saved[p].job
    PROVE  DeployInv'
<1>. jobs \in [JobIds -> Jobs] /\ saved \in [Projects -> Documents]
  BY DEF TypeInv, TypeOK
<1>. DEFINE d == saved[active']
            e == Sanitized(d)
<1>1. /\ store' = e /\ deploying' = (d.job # NoJob)
      /\ d.job = NoJob => socket' = NoSocket
      /\ d.job # NoJob =>
            socket' = [job |-> d.job, attempt |-> 0, at |-> "opening", frames |-> <<>>]
  BY DEF Load, Attach
<1>2. d \in Documents /\ Fits(jobs, active', d)
  BY DEF DeployInv, DocumentsFit
<1>3. e \in Documents /\ e.job = d.job /\ \A o \in Ops : e.rows[o] \in {"absent", d.rows[o]}
  BY <1>2, SanitizedType, SanitizedJob, SanitizedRows
<1>. HIDE DEF d, e
<1>4. \A o \in Ops : \/ e.rows[o] \in {"absent", d.rows[o]}
                     \/ d.job # NoJob /\ d.rows[o] # "absent"
  BY <1>3
<1>5. Fits(jobs, active', e)
  BY <1>2, <1>3, <1>4, FitsOn
<1>6. DocumentsFit'
  <2>1. store'.job = saved'[active'].job
    BY <1>1, <1>3 DEF d
  <2>2. Fits(jobs', active', store') /\ \A p \in Projects : Fits(jobs', p, saved'[p])
    BY <1>1, <1>5
  <2>. QED
    BY <2>1, <2>2 DEF DocumentsFit
<1>7. PlansFit' /\ DoneNotResent'
  BY DEF DeployInv, PlansFit, DoneNotResent, Readable
<1>8. AnswersFit'
  BY DEF AnswersFit, Quiet
<1>9. Tracked'
  <2>. SUFFICES ASSUME NEW j \in JobIds, InFlight(jobs[j].phase), ~jobs[j].reply
                PROVE  saved'[jobs[j].project].job = j
    BY DEF Tracked
  <2>1. saved[jobs[j].project].job = j /\ jobs[j].project \in Projects
    BY DEF DeployInv, Tracked, Jobs
  <2>. QED
    BY <2>1
<1>10. Blocked'
  BY <1>1, <1>3 DEF Blocked, Quiet
<1>11. Follows'
  <2>1. CASE d.job = NoJob
    BY <1>1, <1>3, <2>1, Detached
  <2>2. CASE d.job # NoJob
    <3>1. socket'.job = d.job /\ socket'.at = "opening" /\ store'.job = d.job
      BY <1>1, <1>3, <2>2
    <3>. QED
      BY <2>2, <3>1 DEF Follows
  <2>. QED
    BY <2>1, <2>2
<1>. QED
  BY <1>6, <1>7, <1>8, <1>9, <1>10, <1>11 DEF DeployInv

LEMMA ReloadStep ==
    ASSUME TypeInv, DeployInv, Reload, ~strayed'
    PROVE  DeployInv'
<1>. /\ jobs \in [JobIds -> Jobs] /\ active \in Projects
  BY DEF TypeInv, TypeOK
<1>1. Quiet(jobs) /\ strayed' = strayed
  BY DEF Reload, Leave, Quiet, TypeInv, TypeOK
<1>2. jobs' = [j \in JobIds |-> [jobs[j] EXCEPT !.reply = FALSE]]
  BY DEF Reload
<1>3. \A j \in JobIds : [jobs[j] EXCEPT !.reply = FALSE] = jobs[j]
  BY <1>1 DEF Quiet, Jobs
<1>4. jobs' = jobs
  BY <1>2, <1>3
<1>5. /\ active' = active /\ saved' = saved /\ Load(saved[active'])
      /\ \A p \in Projects : Fits(jobs, p, saved'[p]) /\ saved'[p].job = saved[p].job
  BY DEF Reload, DeployInv, DocumentsFit
<1>. QED
  BY <1>1, <1>4, <1>5, LoadStep

LEMMA SwitchStep ==
    ASSUME TypeInv, DeployInv, NEW p \in Projects, Switch(p), ~strayed'
    PROVE  DeployInv'
<1>. saved \in [Projects -> Documents] /\ active \in Projects
  BY DEF TypeInv, TypeOK
<1>1. Quiet(jobs) /\ strayed' = strayed
  BY DEF Switch, Leave, Quiet, TypeInv, TypeOK
<1>2. /\ jobs' = jobs /\ active' = p /\ Load(saved[active'])
      /\ saved' = [saved EXCEPT ![active] = store]
  BY DEF Switch
<1>3. \A q \in Projects : Fits(jobs, q, saved'[q]) /\ saved'[q].job = saved[q].job
  BY <1>2 DEF DeployInv, DocumentsFit
<1>. QED
  BY <1>1, <1>2, <1>3, LoadStep

-----------------------------------------------------------------------------
LEMMA InitFits ==
    ASSUME Init
    PROVE  DeployInv
<1>1. /\ \A j \in JobIds : /\ jobs[j].phase = "unused" /\ jobs[j].ops = Absent
                           /\ ~jobs[j].reply /\ ~jobs[j].kept
      /\ active \in Projects /\ store = saved[active] /\ ~deploying /\ socket = NoSocket
  BY DEF Init
<1>2. \A p \in Projects : /\ saved[p].job = NoJob
                          /\ \A o \in Ops : saved[p].rows[o] # "absent" => o \in Staged[p]
  BY DEF Init, Rows
<1>3. PlansFit
  <2>1. \A o \in Ops : Absent[o] = "absent"
    BY DEF Absent, Rows
  <2>. QED
    BY <1>1, <2>1 DEF PlansFit
<1>4. AnswersFit /\ Tracked
  BY <1>1 DEF AnswersFit, Tracked, InFlight
<1>5. DocumentsFit
  BY <1>1, <1>2 DEF DocumentsFit, Fits, Owns, Records, Settles, Concluded
<1>6. Blocked
  BY <1>1, <1>2 DEF Blocked, Quiet
<1>7. Follows
  BY <1>1, <1>2 DEF Follows, NoSocket
<1>8. DoneNotResent
  BY <1>1 DEF DoneNotResent
<1>. QED
  BY <1>3, <1>4, <1>5, <1>6, <1>7, <1>8 DEF DeployInv

\* That the tab once lost track of a plan is never taken back.
LEMMA StrayedStays ==
    ASSUME [Next]_vars, strayed
    PROVE  strayed'
<1>1. Leave \/ GiveUp => strayed'
  BY DEF Leave, GiveUp
<1>2. ASSUME Deploy \/ Review \/ \E o \in Ops : Remove(o) PROVE strayed'
  BY <1>2, Zenon DEF Deploy, Review, Remove
<1>3. ASSUME Reload \/ \E p \in Projects : Switch(p) PROVE strayed'
  BY <1>1, <1>3 DEF Reload, Switch
<1>4. ASSUME NEW j \in JobIds, Handles(j) \/ Answers(j) \/ Expire(j) \/ PublishLate(j) PROVE strayed'
  BY <1>4, Zenon DEF Handles, Enqueue, Refuse, Answers, Accepted, Refused, AnswerLost, Expire, PublishLate
<1>5. ASSUME NEW j \in JobIds, Works(j) \/ Collapse(j) PROVE strayed'
  BY <1>5, Zenon DEF Works, Pickup, StartRow, EndRow, SkipRows, Conclude, Collapse, Publish
<1>6. ASSUME Subscribe \/ Stream \/ Reconnect \/ Receive PROVE strayed'
  BY <1>6, Zenon DEF Subscribe, Stream, Reconnect, Receive
<1>7. ASSUME Unknown \/ Drop PROVE strayed'
  BY <1>1, <1>7 DEF Unknown, Drop, Closed, Retry
<1>8. ASSUME UNCHANGED vars PROVE strayed'
  BY <1>8 DEF vars
<1>. QED
  BY <1>2, <1>3, <1>4, <1>5, <1>6, <1>7, <1>8 DEF Next, Streams

LEMMA DeployInvStep ==
    ASSUME TypeInv, TypeInv', Wired, DeployInv, [Next]_vars, ~strayed'
    PROVE  DeployInv'
<1>. ~strayed
  BY StrayedStays
<1>1. CASE Deploy
  BY <1>1, DeployStep
<1>2. CASE Review \/ \E o \in Ops : Remove(o)
  BY <1>2, EditStep
<1>3. CASE Reload
  BY <1>3, ReloadStep
<1>4. ASSUME NEW p \in Projects, Switch(p) PROVE DeployInv'
  BY <1>4, SwitchStep
<1>5. ASSUME NEW j \in JobIds, \/ Handles(j) \/ Answers(j) \/ Works(j)
                                \/ Collapse(j) \/ PublishLate(j) \/ Expire(j)
      PROVE  DeployInv'
  BY <1>5, HandlesStep, AcceptedStep, RefusedStep, WorksStep, SnapshotStep DEF Answers
<1>6. CASE Subscribe \/ Stream \/ Reconnect
  BY <1>6, SocketStep
<1>7. CASE Unknown \/ Drop
  <2>1. Retry \/ GiveUp
    BY <1>7 DEF Unknown, Drop, Closed
  <2>. QED
    BY <1>7, <2>1, SocketStep, GiveUpStep
<1>8. CASE Receive
  BY <1>8, ProgressStep, EndedStep DEF Receive
<1>9. CASE UNCHANGED vars
  <2>1. (PlansFit /\ AnswersFit /\ Tracked /\ DocumentsFit /\ Blocked /\ DoneNotResent)'
    BY <1>9, SameStore DEF vars
  <2>2. Follows'
    BY <1>9 DEF vars, DeployInv, Follows
  <2>. QED
    BY <2>1, <2>2 DEF DeployInv
<1>. QED
  BY <1>1, <1>2, <1>3, <1>4, <1>5, <1>6, <1>7, <1>8, <1>9 DEF Next, Streams

\* As long as the tab keeps track of its plans, its state fits them.
LEMMA DeployInvariant == Spec => [](TypeInv /\ Wired /\ (~strayed => DeployInv))
<1>1. Init => DeployInv
  BY InitFits
<1>2. /\ TypeInv /\ TypeInv' /\ Wired /\ (~strayed => DeployInv) /\ [Next]_vars
      => (~strayed => DeployInv)'
  BY StrayedStays, DeployInvStep
<1>. QED
  BY <1>1, <1>2, WiredInvariant, PTL DEF Spec

\* A project has one plan in flight as long as no answer was lost, none was left behind
\* and no plan given up that may still be read: the button is blocked from the click until
\* the plan has been read to its end, by whoever has the page open then, for any number of
\* faults (staging.ts deploy, hasInFlightOps, loadOps).
THEOREM OnePlanAtATime == Spec => []OneLivePlan
<1>1. ASSUME TypeInv, ~strayed => DeployInv PROVE OneLivePlan
  <2>. SUFFICES ASSUME ~strayed, NEW i \in JobIds, NEW j \in JobIds, Live(i), Live(j),
                       jobs[i].project = jobs[j].project
                PROVE  i = j
    BY DEF OneLivePlan
  <2>1. InFlight(jobs[i].phase) /\ InFlight(jobs[j].phase)
    BY DEF Live, InFlight
  <2>2. Latest(jobs, i) /\ Latest(jobs, j)
    BY <1>1, <2>1, InFlightLatest
  <2>3. jobs[i].phase # "unused" /\ jobs[j].phase # "unused"
    BY <2>1 DEF InFlight
  <2>4. ~(i > j) /\ ~(j > i)
    BY <2>2, <2>3 DEF Latest
  <2>. QED
    BY <2>4, BoundsAssumption DEF JobIds, BoundsAssumption
<1>. QED
  BY <1>1, DeployInvariant, PTL

\* Under the same condition, what a concluded plan has done is dropped from the list or
\* marked done before another plan of the project is compiled from it, if its last message
\* can be read (staging.ts finishDeploy, prepareDeployPlan).
THEOREM DoneStaysDone == Spec => []DoneNotResent
<1>1. ASSUME ~strayed => DeployInv PROVE DoneNotResent
  BY <1>1 DEF DeployInv, DoneNotResent
<1>. QED
  BY <1>1, DeployInvariant, PTL
=============================================================================
