----------------------------- MODULE LabDeploys -----------------------------
(***************************************************************************)
(* A lab over several deploys: the canvas (frontend store/topology.ts) and   *)
(* the list of operations (store/staging.ts, lib/staging.ts), the topology    *)
(* they send (lib/deployTopology.ts), what the compiler accepts and in which  *)
(* order it lets operations run (PlanCompiler), and what a run leaves behind  *)
(* on the canvas and in the lab.  How workers share a plan, and how its       *)
(* frames reach the tab, are left to PlanScheduler and DeployClient: here an  *)
(* operation ends in one step, the cascade of a failure and the frame that    *)
(* tells both are part of it, and `running` and `deploying`, which only a     *)
(* frame in between shows, are left out, as are `drifted` and the health of   *)
(* edges.  The two sockets of a publication are one edge; a root's carry no   *)
(* operation and are left out, and so is the review of a plan, which lists    *)
(* provision rows before the plan runs.                                       *)
(***************************************************************************)
EXTENDS StagedOps, Sequences

CONSTANTS
    Labs,       \* labs to start from: nodes, role, and ops, the list of what is
                \* staged; maxDeploys and maxEdits bound what is done with one
    MaxErrors, MaxStops         \* bounds

ASSUME LabsAssumption ==
    \A l \in Labs :
        /\ l.role \in [l.nodes -> Roles] /\ NoNode \notin l.nodes
        /\ l.ops \in Seq({Create(n) : n \in l.nodes} \cup {OpOf(e) : e \in Edges(l.nodes)})
        /\ l.maxDeploys \in Nat /\ l.maxEdits \in Nat
ASSUME LabBoundsAssumption == MaxErrors \in Nat /\ MaxStops \in Nat

VARIABLES
    lab,            \* the nodes and their roles
    life, edges,    \* the canvas; a ghost edge (staged) is a planned one
    rows,           \* the list of operations; a later row has a larger id
    deploying,
    real,           \* what has been done in the lab
    ended,          \* history: the kinds of the plan that ended last, until the next edit
    strayed,        \* history: an owner stopped a plan, or a retargeting join was undone
    unleft,         \* history: a machine's leave was undone, and not the join above it
    deploys, edits, errors, stops

vars == <<lab, life, edges, rows, deploying, real, ended, strayed, unleft, deploys, edits, errors,
          stops>>

TypeOK ==
    /\ lab \in Labs
    /\ life \in [lab.nodes -> Lives]
    /\ edges \subseteq Edges(lab.nodes)
    /\ \A r \in rows :
        /\ r.id \in Nat \ {0} /\ r.status \in Statuses /\ \A d \in r.deps : d <= r.id
        /\ r.op.kind \in OpKinds /\ r.op.target \in lab.nodes
        /\ {r.op.secondary, r.prev} \subseteq lab.nodes \cup {NoNode}
    /\ \A r, s \in rows : r.id = s.id /\ Synthesized(r) = Synthesized(s) => r = s
    /\ ~deploying => \A r \in rows : r.status # "pending"
    /\ {deploying, strayed, unleft} \subseteq BOOLEAN
    /\ ended.kinds \subseteq OpKinds /\ ended.failed \subseteq OpKinds

-----------------------------------------------------------------------------
\* buildDeployTopology.
Topology ==
    [nodes |-> lab.nodes, role |-> lab.role, edges |-> edges, ocspOff |-> {},
     realized |-> {n \in lab.nodes : life[n] \in {"provisioning", "deployed"}}]

Accepted(rs) == Compiles(Topology, Sent(rs))

Link(kind, source, target, state) ==
    [kind |-> kind, source |-> source, target |-> target, state |-> state]
MemberEdge(n, dc, state) == Link("domainMembership", n, dc, state)

\* Mutant: an edge is committed whatever came of its operation.
CommitsEnded(rs, es) ==
    {IF \E r \in rs : r.op = OpOf(e) /\ r.status \in Finals
     THEN [e EXCEPT !.state = "realized"] ELSE e : e \in es}
\* applyPlanState, for edges.
Committed(rs, es) ==
    {IF \E r \in rs : r.op = OpOf(e) /\ r.status = "done"
     THEN [e EXCEPT !.state = "realized"] ELSE e : e \in es}

-----------------------------------------------------------------------------
\* revertOp of the rows in gone, on the edges.
Undone(gone, es) ==
    LET left == {e \in es : \A r \in gone : OpOf(e) # r.op}
        back == {MemberEdge(r.op.target, r.prev, "realized") : r \in {s \in gone : s.prev # NoNode}}
    IN  left \cup {e \in back : \A f \in left : ~SameRelationship(e, f)}

-----------------------------------------------------------------------------
NoEnd == [kinds |-> {}, failed |-> {}]

\* Each lab starts as its operator staged it; what is not to be cloned runs.
Running == {n \in lab.nodes : Create(n) \notin OpsOf(rows)}
StagedList(ops) ==
    LET before(i) == {Row(j, ops[j], "staged", {}, NoNode) : j \in 1..(i - 1)}
    IN  {Row(i, ops[i], "staged", Inferred(ops[i], before(i)), NoNode) : i \in DOMAIN ops}

Init ==
    /\ lab \in Labs
    /\ rows = StagedList(lab.ops)
    /\ life = [n \in lab.nodes |-> IF n \in Running THEN "deployed" ELSE "staged"]
    /\ edges = {e \in Edges(lab.nodes) : e.state = "planned" /\ OpOf(e) \in OpsOf(rows)}
    /\ deploying = FALSE /\ strayed = FALSE /\ unleft = FALSE
    /\ real = {Create(n) : n \in Running} \cup {Provision(n) : n \in Running} /\ ended = NoEnd
    /\ deploys = 0 /\ edits = 0 /\ errors = 0 /\ stops = 0

-----------------------------------------------------------------------------
\* The operator edits the canvas, which is locked while a plan is in flight.

MayEdit ==
    /\ ~deploying /\ edits < lab.maxEdits
    /\ edits' = edits + 1 /\ ended' = NoEnd
    /\ UNCHANGED <<lab, deploying, real, deploys, errors, stops>>

Connectable(n) == life[n] \in {"staged", "provisioning", "deployed"}

\* configureNode.
Configure(n) ==
    /\ life[n] \in {"draft", "failed"}
    /\ MayEdit
    /\ life' = [life EXCEPT ![n] = "staged"]
    /\ rows' = Staging(rows, Create(n), NoNode)
    /\ UNCHANGED <<edges, strayed, unleft>>

UndoesRetarget(gone) == \E r \in gone : r.op.kind = "domainJoin" /\ r.prev # NoNode

\* A leave that is undone below the join of its machine.
UndoesLeave(gone) ==
    \E r \in gone, s \in rows \ gone :
        r.op.kind = "domainLeave" /\ s.op.kind = "domainJoin" /\ s.op.target = r.op.target

\* The domain that the first membership edge of n leads to.
PreviousOf(n) ==
    IF DomainsOf(Topology, n) = {} THEN {NoNode} ELSE DomainsOf(Topology, n)

\* applyDomainChanges: n is moved to the domain of dc, or out of its domain.
Retarget(n, dc) ==
    LET joins == {r \in rows : r.op.kind = "domainJoin" /\ r.op.target = n}
        left == Undone(joins, edges \ {e \in Memberships(Topology) : e.source = n})
        kept(prev) == IF prev = NoNode \/ joins # {} THEN rows \ joins
                      ELSE Staging(rows \ joins, Leave(n), prev)
        carried(prev) == IF joins = {} THEN prev ELSE NoNode
    IN  /\ MayEdit
        /\ lab.role[n] \notin {"domainController", "rootCa"} /\ Connectable(n)
        /\ dc # NoNode => lab.role[dc] = "domainController" /\ Connectable(dc)
        /\ \E prev \in PreviousOf(n) :
              /\ prev # dc
              /\ IF dc = NoNode
                 THEN rows' = kept(prev) /\ edges' = left
                 ELSE /\ rows' = Staging(kept(prev), Op("domainJoin", n, dc), carried(prev))
                      /\ edges' = left \cup {MemberEdge(n, dc, "planned")}
        /\ strayed' = (strayed \/ UndoesRetarget(joins))
        /\ UNCHANGED <<life, unleft>>

\* connect, for a CA and its parent or a CA and the web server it publishes to.
Connect(e) ==
    /\ MayEdit
    /\ \/ e.kind = "caParent" /\ lab.role[e.source] = "rootCa" /\ lab.role[e.target] = "issuingCa"
          /\ \A f \in CaParents(Topology) : f.target # e.target
       \/ e.kind = "caPublication" /\ lab.role[e.source] = "issuingCa"
          /\ lab.role[e.target] = "webServer"
    /\ e.state = "planned" /\ Connectable(e.source) /\ Connectable(e.target)
    /\ \A f \in edges : ~SameRelationship(e, f)
    /\ edges' = edges \cup {e}
    /\ rows' = IF e.kind = "caPublication" /\ OpOf(e) \in OpsOf(rows) THEN rows
               ELSE Staging(rows, OpOf(e), NoNode)
    /\ UNCHANGED <<life, strayed, unleft>>

\* removeOpCascade, and undo, which removes the last row.
Remove(row) ==
    LET gone == {row} \cup Dependents(rows, row) IN
    /\ ~Synthesized(row)
    /\ MayEdit
    /\ rows' = rows \ gone
    /\ edges' = Undone(gone, edges)
    /\ life' = [n \in lab.nodes |-> IF Create(n) \in OpsOf(gone) THEN "draft" ELSE life[n]]
    /\ strayed' = (strayed \/ UndoesRetarget(gone)) /\ unleft' = (unleft \/ UndoesLeave(gone))

-----------------------------------------------------------------------------
\* deploy(), and what POST /deploy makes of it: refused, or a plan in flight.
Deploy ==
    /\ ~deploying /\ rows # {} /\ deploys < lab.maxDeploys
    /\ deploys' = deploys + 1
    /\ IF Accepted(Prepared(rows, "pending"))
       THEN /\ rows' = Prepared(rows, "pending") \cup Mirrors(Prepared(rows, "pending"))
            /\ deploying' = TRUE
       ELSE rows' = Prepared(rows, "staged") /\ UNCHANGED deploying
    /\ ended' = NoEnd
    /\ UNCHANGED <<lab, life, edges, real, strayed, unleft, edits, errors, stops>>

Pending == {r \in rows : r.status = "pending"}
NeedsOf(r) == NeededBy(Topology, rows, r)
Cascade(row) == Cascaded(Topology, rows, row)

\* applyPlanState.
Shows(rs) ==
    /\ rows' = rs
    /\ edges' = Committed(rs, edges)
    /\ life' = [n \in lab.nodes |-> LifeShown(rs, n, life[n])]

\* What an operation does to the lab: a machine is in one domain.
JoinsIn(n) == {op \in real : op.kind = "domainJoin" /\ op.target = n}
Realized(op) ==
    CASE op.kind = "domainLeave" -> real \ JoinsIn(op.target)
      [] op.kind = "domainJoin" -> (real \ JoinsIn(op.target)) \cup {op}
      [] OTHER -> real \cup {op}

MayRun(row) == row \in Pending /\ \A s \in NeedsOf(row) : s.status = "done"

\* A machine that exists is not cloned again.
VmExists(op) == op.kind = "createVm" /\ op \in real

Succeed(row) ==
    /\ MayRun(row) /\ ~VmExists(row.op)
    /\ Shows((rows \ {row}) \cup {[row EXCEPT !.status = "done"]})
    /\ real' = Realized(row.op)
    /\ UNCHANGED <<lab, deploying, ended, strayed, unleft, deploys, edits, errors, stops>>

Fail(row) ==
    /\ MayRun(row)
    /\ \/ VmExists(row.op) /\ UNCHANGED errors
       \/ ~VmExists(row.op) /\ errors < MaxErrors /\ errors' = errors + 1
    /\ Shows({IF r = row THEN [r EXCEPT !.status = "error"]
              ELSE IF r \in Cascade(row) THEN [r EXCEPT !.status = "cancelled"] ELSE r : r \in rows})
    /\ UNCHANGED <<lab, deploying, real, ended, strayed, unleft, deploys, edits, stops>>

Skipped == {[r EXCEPT !.status = IF r \in Pending THEN "cancelled" ELSE @] : r \in rows}

\* The owner stops the plan: what has not begun is cancelled.
StopByOwner ==
    /\ deploying /\ Pending # {} /\ stops < MaxStops
    /\ Shows(Skipped)
    /\ stops' = stops + 1 /\ strayed' = TRUE
    /\ UNCHANGED <<lab, deploying, real, ended, unleft, deploys, edits, errors>>

Ends(rs) ==
    /\ deploying' = FALSE
    /\ ended' = [kinds |-> {r.op.kind : r \in rs},
                 failed |-> {r.op.kind : r \in {s \in rs : s.status = "error"}}]

\* An administrator stops it: the job ends with an error, and the client goes back.
StopByAdmin ==
    LET open == OpsOf(Resettable(Skipped)) IN
    /\ deploying /\ Pending # {} /\ stops < MaxStops
    /\ rows' = Reverted(Skipped)
    /\ edges' = Committed(Skipped, edges)
    /\ life' = [n \in lab.nodes |-> IF {Create(n), Provision(n)} \cap open # {} THEN "staged"
                                    ELSE LifeShown(Skipped, n, life[n])]
    /\ Ends(rows)
    /\ stops' = stops + 1
    /\ UNCHANGED <<lab, real, strayed, unleft, deploys, edits, errors>>

Finish ==
    /\ deploying /\ Pending = {}
    /\ rows' = Finished(rows)
    /\ Ends(rows)
    /\ UNCHANGED <<lab, life, edges, real, strayed, unleft, deploys, edits, errors, stops>>

\* useAgentPromotion: the agent of a clone is online.
Promote(n) ==
    /\ life[n] = "provisioning" /\ Create(n) \in real /\ ~Awaiting(rows, n)
    /\ life' = [life EXCEPT ![n] = "deployed"]
    /\ UNCHANGED <<lab, edges, rows, deploying, real, ended, strayed, unleft, deploys, edits,
                   errors, stops>>

Next ==
    \/ \E n \in lab.nodes : Configure(n) \/ Promote(n)
    \/ \E n \in lab.nodes, dc \in lab.nodes \cup {NoNode} : Retarget(n, dc)
    \/ \E e \in Edges(lab.nodes) : Connect(e)
    \/ \E row \in rows : Remove(row) \/ Succeed(row) \/ Fail(row)
    \/ Deploy \/ StopByOwner \/ StopByAdmin \/ Finish

Spec == Init /\ [][Next]_vars

-----------------------------------------------------------------------------
\* What an operation stands on in the lab, whatever the compiler thinks of it.
StandsOn(op, done) ==
    LET up(n) == {Create(n), Provision(n)} \subseteq done
        joined(n) == \E j \in done : j.kind = "domainJoin" /\ j.target = n
    IN  CASE op.kind = "createVm" -> TRUE
          [] op.kind = "provision" -> Create(op.target) \in done
          [] op.kind = "domainJoin" ->
                /\ up(op.target) /\ up(op.secondary) /\ ~joined(op.target)
                /\ lab.role[op.target] = "client" =>
                      \A ca \in IssuingIn(Topology, op.secondary) :
                          \E c \in done : c.kind = "caConnect" /\ c.target = ca
          [] op.kind = "caConnect" ->
                /\ up(op.secondary) /\ joined(op.target)
                /\ \A web \in HostsOf(Topology, op.target) : joined(web)
          [] op.kind = "webServerCert" ->
                /\ joined(op.secondary)
                /\ \E c \in done : c.kind = "caConnect" /\ c.target = op.target

\* An operation succeeds on what it stands on, also when that was done by an
\* earlier deploy and is no longer in the plan (topology.py compile_plan: "retries
\* where completed creates are absent").
PrerequisitesFirst ==
    [][~strayed /\ ~unleft => \A op \in real' \ real : StandsOn(op, real)]_vars

\* What the canvas shows as realized has been done in the lab: the compiler
\* relies on it (deployTopology.ts).  The code keeps it unless an owner stops a plan
\* or a retargeting join is undone (README.md).
ShownIsReal ==
    /\ \A e \in edges : e.state = "realized" => OpOf(e) \in real
    /\ \A n \in lab.nodes :
          /\ life[n] \in {"provisioning", "deployed"} => Create(n) \in real
          /\ life[n] = "deployed" => Provision(n) \in real
CanvasIsReal == ~strayed => ShownIsReal

Retries == rows = {} \/ Accepted(Prepared(rows, "pending"))

\* A plan that clones nothing can be sent again as it ended, whatever of it failed
\* or was stopped (finishDeploy, revertNonTerminalToStaged).
EditsCanBeRetried == ended.kinds # {} /\ "createVm" \notin ended.kinds => Retries

\* A plan none of whose machines failed can be sent again as it ended
\* (finishDeploy: "so "Retry deploy" resends them").
RetryCompiles ==
    ended.kinds # {} /\ ended.failed \cap {"createVm", "provision"} = {} => Retries
=============================================================================
