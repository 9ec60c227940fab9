------------------------------ MODULE StagedOps ------------------------------
(***************************************************************************)
(* The list of operations that the canvas stages (frontend lib/staging.ts,   *)
(* store/staging.ts): its rows and their dependencies, what a deploy sends    *)
(* of it, what a run makes of it, and the life of a node that its rows show.  *)
(* The rows are a set; a later row has a larger id.  Operators only.          *)
(***************************************************************************)
EXTENDS PlanCompiler, FiniteSetsExt

Lives == {"draft", "staged", "provisioning", "deployed", "failed"}
Finals == {"done", "error", "cancelled"}
Statuses == {"staged", "pending"} \cup Finals

\* An operation that a provision row mirrors has the id of its clone.
Row(id, op, status, deps, prev) ==
    [id |-> id, op |-> op, status |-> status, deps |-> deps, prev |-> prev]
Synthesized(r) == r.op.kind = "provision"

\* The rows that are sent.
Sent(rs) == {r \in rs : ~Synthesized(r)}
OpsOf(rs) == {r.op : r \in rs}

\* nodeRealizationOps.
Realizing(rs, n) ==
    {r \in rs : \/ r.op.kind \in {"domainJoin", "domainLeave", "caConnect"} /\ r.op.target = n
                \/ r.op.kind = "webServerCert" /\ r.op.secondary = n}

\* nodeAwaitingRealization.
Awaiting(rs, n) ==
    \E r \in Realizing(rs, n) \cup {s \in rs : s.op = Provision(n)} :
        r.status \notin {"done", "staged"}

\* applyPlanState, for nodes.
StatusOf(rs, op) == {r.status : r \in {s \in rs : s.op = op}}
RealizedLife(rs, n) ==
    LET ends == {r.status : r \in Realizing(rs, n)} IN
    IF ends \cap {"error", "cancelled"} # {} THEN "failed"
    ELSE IF ends \subseteq {"done"} THEN "deployed" ELSE "provisioning"
LifeShown(rs, n, shown) ==
    LET clone == StatusOf(rs, Create(n))
        provision == StatusOf(rs, Provision(n))
    IN  IF "error" \in clone \cup provision THEN "failed"
        ELSE IF "done" \in provision THEN RealizedLife(rs, n)
        ELSE IF "done" \in clone THEN "provisioning" ELSE shown

-----------------------------------------------------------------------------
\* The list of operations.

\* inferDependsOn, on the first createVm row of a node.
CloneRows(rs, nodes) ==
    {r.id : r \in {s \in rs : /\ s.op.kind = "createVm" /\ s.op.target \in nodes
                              /\ \A q \in rs : q.op = s.op => s.id <= q.id}}
Inferred(op, rs) ==
    IF op.kind \in {"createVm", "provision", "domainLeave"} THEN {}
    ELSE CloneRows(rs, {op.target, op.secondary})
           \cup IF op.kind = "webServerCert"
                THEN {r.id : r \in {s \in rs : s.op.kind = "caConnect" /\ s.op.target = op.target}}
                ELSE {}

NextId(rs) == 1 + Max({0} \cup {r.id : r \in rs})

\* stageOp.
Staging(rs, op, prev) == rs \cup {Row(NextId(rs), op, "staged", Inferred(op, rs), prev)}

\* transitiveDependents: a certificate may wait for a connection, which waits for
\* clones, and nothing waits for a certificate.
Directly(rs, on) == {r \in rs : \E s \in on : s.id \in r.deps}
Dependents(rs, row) == Directly(rs, {row} \cup Directly(rs, {row})) \ {row}

\* prepareDeployPlan: a provision row stays only below its clone.
Resettable(rs) == {r \in rs : r.status # "done"}
Prepared(rs, status) ==
    LET kept == {r \in Resettable(rs) :
                    Synthesized(r) => \E s \in Sent(Resettable(rs)) : s.id = r.id}
    IN  {Row(r.id, r.op, status, r.deps \cap {s.id : s \in kept}, r.prev) : r \in kept}

\* ensureSyntheticRows.
Mirrors(rs) ==
    {Row(r.id, Provision(r.op.target), "pending", {r.id}, NoNode)
        : r \in {s \in rs : s.op.kind = "createVm"}}

\* The rows that a row waits for in a plan of topology t, and the rows that are
\* cancelled when it fails; the longest chain of a plan has six operations.
NeededBy(t, rs, r) ==
    LET needs == Dependencies(t, OpsOf(rs), r.op) IN {s \in rs : s.op \in needs}
Cascaded(t, rs, row) ==
    LET needed == [r \in {s \in rs : s.status = "pending"} |-> NeededBy(t, rs, r)]
        With(S) == S \cup {r \in DOMAIN needed : needed[r] \cap S # {}}
    IN  With(With(With(With(With({row}))))) \ {row}

\* Mutant: only the operations that failed stay in the list.
DropsSkipped(rs) == {r \in rs : r.status = "error"}
\* finishDeploy: a clone stays listed beside its failed provision row.
Finished(rs) ==
    LET failed == {r.id : r \in {s \in rs : Synthesized(s) /\ s.status = "error"}}
    IN  {IF r.status = "cancelled" THEN [r EXCEPT !.status = "staged"] ELSE r
            : r \in {s \in rs : s.status # "done" \/ s.id \in failed}}

\* revertNonTerminalToStaged.
Reverted(rs) == {[r EXCEPT !.status = "staged"] : r \in Sent(Resettable(rs))}
=============================================================================
