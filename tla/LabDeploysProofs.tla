-------------------------- MODULE LabDeploysProofs --------------------------
(***************************************************************************)
(* The compiler and the deploys of a lab: a compiled plan has no cycle,      *)
(* whatever the topology (core/topology.py compile_plan: "an authoritative   *)
(* DAG"), and what it leaves out is realized; and for every lab and any       *)
(* number of deploys, edits, errors and stops, what the canvas shows as      *)
(* realized has been done, an operation succeeds on what it stands on, and a *)
(* plan that clones nothing can be sent again as it ended.                    *)
(***************************************************************************)
EXTENDS LabDeploys, WellFoundedInduction, TLAPS

-----------------------------------------------------------------------------
\* The compiler.

\* A topology as the request's schema admits it.
IsTopology(t) ==
    /\ t.edges \subseteq Edges(t.nodes)
    /\ t.role \in [t.nodes -> Roles]

\* Every dependency has a smaller rank.  A join has two: what a CA connection waits
\* for are joins of servers, and what waits for a CA connection are joins of clients.
Rank(t, o) ==
    CASE o.kind = "createVm" -> 0
      [] o.kind = "provision" -> 1
      [] o.kind = "domainLeave" -> 2
      [] o.kind = "domainJoin" -> IF t.role[o.target] = "client" THEN 5 ELSE 3
      [] o.kind = "caConnect" -> 4
      [] o.kind = "webServerCert" -> 5

\* What the operation of a relationship says of it.
LEMMA EdgeOpShape ==
    ASSUME NEW t, IsTopology(t), NEW e \in t.edges
    PROVE  /\ e.kind = "domainMembership" => OpOf(e) = Op("domainJoin", e.source, e.target)
           /\ e.kind = "caParent" => OpOf(e) = Op("caConnect", e.target, e.source)
           /\ e.kind = "caPublication" => OpOf(e) = Op("webServerCert", e.source, e.target)
           /\ e.kind \in EdgeKinds
  BY DEF IsTopology, Edges, EdgeKinds, OpOf

\* The kinds that a plan has.
LEMMA KindKnown ==
    ASSUME NEW t, IsTopology(t), NEW ops, Matches(t, ops), NEW o \in PlanOf(ops)
    PROVE  o.kind \in OpKinds
  <1>1. CASE o \in EdgeOps(t)
    <2>1. PICK e \in t.edges : o = OpOf(e)
      BY <1>1 DEF EdgeOps
    <2>. QED BY <2>1, EdgeOpShape DEF Op, OpKinds, EdgeKinds
  <1>2. CASE \E n : o \in {Create(n), Leave(n), Provision(n)}
    BY <1>2 DEF Create, Leave, Provision, Op, OpKinds
  <1>. QED BY <1>1, <1>2 DEF PlanOf, Matches

\* An operation on a relationship has the roles that relationship demands.
LEMMA OperationFits ==
    ASSUME NEW t, IsTopology(t), RolesFit(t), NEW ops, Matches(t, ops), NEW o \in PlanOf(ops)
    PROVE  /\ o.kind \in {"caConnect", "webServerCert"} => t.role[o.target] = "issuingCa"
           /\ o.kind = "webServerCert" => t.role[o.secondary] = "webServer"
  <1>1. CASE o \in EdgeOps(t)
    <2>1. PICK e \in t.edges : o = OpOf(e)
      BY <1>1 DEF EdgeOps
    <2>2. CASE e.kind = "domainMembership"
      BY <2>1, <2>2, EdgeOpShape DEF Op
    <2>3. CASE e.kind = "caParent"
      <3>1. o = Op("caConnect", e.target, e.source) /\ t.role[e.target] = "issuingCa"
        BY <2>1, <2>3, EdgeOpShape DEF RolesFit, CaParents
      <3>. QED BY <3>1 DEF Op
    <2>4. CASE e.kind = "caPublication"
      <3>1. /\ o = Op("webServerCert", e.source, e.target)
            /\ t.role[e.source] = "issuingCa" /\ t.role[e.target] = "webServer"
        BY <2>1, <2>4, EdgeOpShape DEF RolesFit, Publications
      <3>. QED BY <3>1 DEF Op
    <2>. QED BY <2>2, <2>3, <2>4, EdgeOpShape DEF EdgeKinds
  <1>2. CASE \E n : o \in {Create(n), Leave(n), Provision(n)}
    BY <1>2 DEF Create, Leave, Provision, Op
  <1>. QED BY <1>1, <1>2 DEF PlanOf, Matches

\* Ranks of the operations that dependencies are made of.
LEMMA Ranks ==
    ASSUME NEW t, IsTopology(t), NEW n
    PROVE  /\ Rank(t, Create(n)) = 0 /\ Rank(t, Provision(n)) = 1 /\ Rank(t, Leave(n)) = 2
           /\ t.role[n] # "client" => \A d \in JoinsOf(t, n) : Rank(t, d) = 3
           /\ \A d \in ConnectsOf(t, n) : Rank(t, d) = 4
  <1>1. Rank(t, Create(n)) = 0 /\ Rank(t, Provision(n)) = 1 /\ Rank(t, Leave(n)) = 2
    BY DEF Rank, Create, Provision, Leave, Op
  <1>2. ASSUME t.role[n] # "client", NEW d \in JoinsOf(t, n) PROVE Rank(t, d) = 3
    <2>1. PICK e \in t.edges : e.kind = "domainMembership" /\ e.source = n /\ d = OpOf(e)
      BY <1>2 DEF JoinsOf, Memberships
    <2>2. d = Op("domainJoin", n, e.target)
      BY <2>1, EdgeOpShape
    <2>. QED BY <1>2, <2>2 DEF Rank, Op
  <1>3. ASSUME NEW d \in ConnectsOf(t, n) PROVE Rank(t, d) = 4
    <2>1. PICK e \in t.edges : e.kind = "caParent" /\ e.target = n /\ d = OpOf(e)
      BY DEF ConnectsOf, CaParents
    <2>2. d = Op("caConnect", n, e.source)
      BY <2>1, EdgeOpShape
    <2>. QED BY <2>2 DEF Rank, Op
  <1>. QED BY <1>1, <1>2, <1>3

\* A dependency has a smaller rank than the operation that waits for it.
LEMMA DependenciesFall ==
    ASSUME NEW t, IsTopology(t), RolesFit(t), NEW ops, Matches(t, ops),
           NEW o \in PlanOf(ops), NEW d \in Dependencies(t, PlanOf(ops), o)
    PROVE  Rank(t, d) < Rank(t, o)
  <1>0. d \in Needs(t, o)
    BY DEF Dependencies
  <1>1. CASE o.kind = "createVm"
    BY <1>0, <1>1 DEF Needs
  <1>2. CASE o.kind = "provision"
    <2>1. d = Create(o.target)
      BY <1>0, <1>2 DEF Needs
    <2>2. Rank(t, o) = 1
      BY <1>2 DEF Rank
    <2>. QED BY <2>1, <2>2, Ranks
  <1>3. CASE o.kind = "domainLeave"
    <2>1. d = Provision(o.target)
      BY <1>0, <1>3 DEF Needs, Ready
    <2>2. Rank(t, o) = 2
      BY <1>3 DEF Rank
    <2>. QED BY <2>1, <2>2, Ranks
  <1>4. CASE o.kind = "domainJoin"
    <2>1. d \in JoinNeeds(t, o)
      BY <1>0, <1>4 DEF Needs
    <2>2. Rank(t, o) = IF t.role[o.target] = "client" THEN 5 ELSE 3
      BY <1>4 DEF Rank
    <2>3. CASE d \in Ready({o.target, o.secondary}) \cup {Leave(o.target)}
      BY <2>2, <2>3, Ranks DEF Ready
    <2>4. CASE /\ t.role[o.target] = "client"
               /\ \E ca \in IssuingIn(t, o.secondary) : d \in ConnectsOf(t, ca)
      BY <2>2, <2>4, Ranks
    <2>. QED BY <2>1, <2>3, <2>4 DEF JoinNeeds
  <1>5. CASE o.kind = "caConnect"
    <2>1. d \in ConnectNeeds(t, o)
      BY <1>0, <1>5 DEF Needs
    <2>2. Rank(t, o) = 4 /\ t.role[o.target] = "issuingCa"
      BY <1>5, OperationFits DEF Rank
    <2>3. \A n \in {o.target} \cup HostsOf(t, o.target) : t.role[n] # "client"
      BY <2>2 DEF HostsOf, RolesFit
    <2>4. CASE \E n : d = Provision(n)
      BY <2>2, <2>4, Ranks
    <2>5. CASE \E n \in {o.target} \cup HostsOf(t, o.target) : d \in JoinsOf(t, n)
      BY <2>2, <2>3, <2>5, Ranks
    <2>. QED BY <2>1, <2>4, <2>5 DEF ConnectNeeds, Ready
  <1>6. CASE o.kind = "webServerCert"
    <2>1. d \in CertNeeds(t, o)
      BY <1>0, <1>6 DEF Needs
    <2>2. /\ Rank(t, o) = 5
          /\ t.role[o.target] = "issuingCa" /\ t.role[o.secondary] = "webServer"
      BY <1>6, OperationFits DEF Rank
    <2>3. CASE \E n : d = Provision(n)
      BY <2>2, <2>3, Ranks
    <2>4. CASE \E n \in {o.target, o.secondary} : d \in JoinsOf(t, n)
      BY <2>2, <2>4, Ranks
    <2>5. CASE d \in ConnectsOf(t, o.target)
      BY <2>2, <2>5, Ranks
    <2>. QED BY <2>1, <2>3, <2>4, <2>5 DEF CertNeeds, Ready
  <1>. QED BY <1>1, <1>2, <1>3, <1>4, <1>5, <1>6, KindKnown DEF OpKinds

\* Among the operations of a plan, whichever are left to do, one waits for none of
\* the others: the scheduler never finds all of them blocked (compile_plan).
THEOREM PlansAreAcyclic ==
    ASSUME NEW t, IsTopology(t), Valid(t), NEW ops, Matches(t, ops),
           NEW S \in SUBSET PlanOf(ops), S # {}
    PROVE  \E o \in S : Dependencies(t, PlanOf(ops), o) \cap S = {}
  <1>. DEFINE Has(k) == \E o \in S : Rank(t, o) = k
  <1>1. \A o \in S : Rank(t, o) \in 0..5
    BY KindKnown DEF OpKinds, Rank
  <1>2. PICK k \in 0..5 : Has(k) /\ \A j \in 0..5 : j < k => ~Has(j)
    <2>1. Has(0) \/ Has(1) \/ Has(2) \/ Has(3) \/ Has(4) \/ Has(5)
      BY <1>1
    <2>. HIDE DEF Has
    <2>. QED BY <2>1
  <1>3. PICK o \in S : Rank(t, o) = k
    BY <1>2
  <1>4. ASSUME NEW d \in Dependencies(t, PlanOf(ops), o) \cap S PROVE FALSE
    <2>1. Rank(t, d) < k
      BY <1>3, <1>4, DependenciesFall DEF Valid
    <2>. QED BY <1>1, <1>2, <1>4, <2>1
  <1>. QED BY <1>3, <1>4

-----------------------------------------------------------------------------
\* An operation of a plan names nodes of the topology, and a provision operation
\* has its clone beside it.
LEMMA OperationKnown ==
    ASSUME NEW t, IsTopology(t), NEW ops, Matches(t, ops), NEW o \in PlanOf(ops)
    PROVE  /\ o.target \in t.nodes
           /\ o.kind \in {"domainJoin", "caConnect", "webServerCert"} => o.secondary \in t.nodes
           /\ o.kind = "provision" => Create(o.target) \in ops
  <1>1. CASE o \in EdgeOps(t)
    <2>1. PICK e \in t.edges : o = OpOf(e)
      BY <1>1 DEF EdgeOps
    <2>2. e.source \in t.nodes /\ e.target \in t.nodes
      BY DEF IsTopology, Edges
    <2>3. \/ o = Op("domainJoin", e.source, e.target)
          \/ o = Op("caConnect", e.target, e.source)
          \/ o = Op("webServerCert", e.source, e.target)
      BY <2>1, EdgeOpShape DEF EdgeKinds
    <2>. QED BY <2>2, <2>3 DEF Op
  <1>2. CASE \E n \in t.nodes : o = Create(n) \/ o = Leave(n)
    BY <1>2 DEF Create, Leave, Op
  <1>3. CASE \E p \in ops : p.kind = "createVm" /\ o = Provision(p.target)
    <2>1. PICK p \in ops : p.kind = "createVm" /\ o = Provision(p.target)
      BY <1>3
    <2>2. p \notin EdgeOps(t)
      <3>1. SUFFICES ASSUME NEW e \in t.edges, p = OpOf(e) PROVE FALSE
        BY DEF EdgeOps
      <3>. QED BY <2>1, <3>1, EdgeOpShape DEF EdgeKinds, Op
    <2>3. PICK n \in t.nodes : p = Create(n)
      BY <2>1, <2>2 DEF Matches, Create, Leave, Op
    <2>. QED BY <2>1, <2>3 DEF Provision, Create, Op
  <1>. QED BY <1>1, <1>2, <1>3 DEF PlanOf, Matches

\* What must stand: it is in the plan, or it is realized.
Met(t, ops, d) ==
    \/ d \in PlanOf(ops) \cup RealizedOps(t)
    \/ \E n \in t.realized : d = Provision(n)

\* A node is provisioned by the plan, or it is realized.
LEMMA NodesAreMet ==
    ASSUME NEW t, NEW ops, Matches(t, ops), NEW n \in t.nodes
    PROVE  Met(t, ops, Provision(n))
  <1>1. CASE n \in t.realized
    BY <1>1 DEF Met
  <1>2. CASE n \notin t.realized
    <2>1. Create(n) \in ops
      BY <1>2 DEF Matches, PlannedOps
    <2>. QED BY <2>1 DEF Met, PlanOf, Create, Op
  <1>. QED BY <1>1, <1>2

\* A relationship is realized by the plan, or it is realized.
LEMMA RelationshipsAreMet ==
    ASSUME NEW t, IsTopology(t), NEW ops, Matches(t, ops), NEW e \in t.edges
    PROVE  Met(t, ops, OpOf(e))
  <1>1. e.state \in {"planned", "realized"}
    BY DEF IsTopology, Edges
  <1>. QED BY <1>1 DEF Met, Matches, PlannedOps, RealizedOps, PlanOf

\* A dependency that the compiler leaves out because the plan does not hold it is
\* realized already (`require`, which ignores what it does not find); a domainLeave
\* is the exception, since only some members have a domain to leave.
THEOREM NeedsAreMet ==
    ASSUME NEW t, IsTopology(t), NEW ops, Matches(t, ops), NEW o \in PlanOf(ops),
           NEW d \in Needs(t, o)
    PROVE  Met(t, ops, d) \/ d = Leave(o.target)
  <1>1. CASE \E n \in t.nodes : d = Provision(n)
    BY <1>1, NodesAreMet
  <1>2. CASE \E e \in t.edges : d = OpOf(e)
    BY <1>2, RelationshipsAreMet
  <1>3. CASE o.kind = "provision" /\ d = Create(o.target)
    BY <1>3, OperationKnown DEF Met, PlanOf
  <1>4. \A n : JoinsOf(t, n) \cup ConnectsOf(t, n) \subseteq {OpOf(e) : e \in t.edges}
    BY DEF JoinsOf, ConnectsOf, Memberships, CaParents
  <1>5. \A n : ParentsOf(t, n) \cup HostsOf(t, n) \cup DomainsOf(t, n) \subseteq t.nodes
    BY DEF ParentsOf, HostsOf, DomainsOf, CaParents, Publications, Memberships, IsTopology, Edges
  <1>6. o.kind \in OpKinds /\ o.target \in t.nodes
    BY OperationKnown, KindKnown
  <1>7. CASE o.kind \in {"createVm", "provision", "domainLeave"}
    BY <1>1, <1>3, <1>6, <1>7 DEF Needs, Ready
  <1>8. CASE o.kind = "domainJoin"
    <2>1. d \in JoinNeeds(t, o) /\ o.secondary \in t.nodes
      BY <1>8, OperationKnown DEF Needs
    <2>. QED BY <1>1, <1>2, <1>4, <1>6, <2>1 DEF JoinNeeds, Ready
  <1>9. CASE o.kind = "caConnect"
    <2>1. d \in ConnectNeeds(t, o) /\ o.secondary \in t.nodes
      BY <1>9, OperationKnown DEF Needs
    <2>. QED BY <1>1, <1>2, <1>4, <1>5, <1>6, <2>1 DEF ConnectNeeds, Ready
  <1>10. CASE o.kind = "webServerCert"
    <2>1. d \in CertNeeds(t, o) /\ o.secondary \in t.nodes
      BY <1>10, OperationKnown DEF Needs
    <2>. QED BY <1>1, <1>2, <1>4, <1>5, <1>6, <2>1 DEF CertNeeds, Ready
  <1>. QED BY <1>6, <1>7, <1>8, <1>9, <1>10 DEF OpKinds

-----------------------------------------------------------------------------
\* A row of the list, of an operation on nodes of the lab.
WellFormed(ns, r) ==
    /\ r = Row(r.id, r.op, r.status, r.deps, r.prev)
    /\ r.id \in Nat /\ r.status \in Statuses
    /\ r.op = Op(r.op.kind, r.op.target, r.op.secondary)
    /\ r.op.kind \in OpKinds /\ r.op.target \in ns
    /\ r.op.kind \in {"createVm", "provision", "domainLeave"} => r.op.secondary = NoNode
    /\ r.prev # NoNode => r.prev \in ns /\ r.op.kind \in {"domainJoin", "domainLeave"}

\* Rows as the store writes them.
AreRows(rs) ==
    \A r \in rs : r = Row(r.id, r.op, r.status, r.deps, r.prev) /\ r.status \in Statuses

\* The list, whether a plan runs or not.
Bounded(rs) == \E b \in Nat : \A r \in rs : r.id <= b
Identified(rs) ==
    \A r, s \in rs : r.id = s.id /\ ~Synthesized(s) =>
        IF Synthesized(r) THEN s.op = Create(r.op.target) ELSE r = s
LeavesOnce(rs) == \A r, s \in rs : r.op.kind = "domainLeave" /\ s.op = r.op => r = s
Listed(ns, rs) ==
    /\ \A r \in rs : WellFormed(ns, r)
    /\ Bounded(rs) /\ Identified(rs) /\ LeavesOnce(rs)

\* The plan in flight.
Paired(rs) == \A r \in rs : /\ r.op.kind = "createVm" => Provision(r.op.target) \in OpsOf(rs)
                            /\ Synthesized(r) => Create(r.op.target) \in OpsOf(rs)
ClonesOnce(rs) == \A r, s \in rs : r.op.kind = "createVm" /\ s.op = r.op => r = s
JoinsAreDrawn(rs, es) ==
    \A r \in rs : r.op.kind = "domainJoin" => \E e \in es : OpOf(e) = r.op
LeavesFirst(rs) ==
    \A r, s \in rs : /\ r.op.kind = "domainJoin" /\ r.status = "done"
                     /\ s.op = Leave(r.op.target)
                     => s.status = "done"
ClonesFirst(rs) ==
    \A r \in {s \in rs : Synthesized(s)}, c \in rs : c.op = Create(r.op.target) =>
        \/ r.status = "pending"
        \/ r.status \in {"done", "error"} /\ c.status = "done"
        \/ r.status = "cancelled" /\ c.status = "error"
DoneIsReal(rs, re) ==
    \A r \in rs : r.status = "done" /\ r.op.kind # "domainLeave" => r.op \in re
DoneIsShown(rs, es) ==
    \A r \in rs, e \in es : r.status = "done" /\ OpOf(e) = r.op => e.state = "realized"
Planned(rs, es, re) ==
    /\ Paired(rs) /\ ClonesOnce(rs) /\ JoinsAreDrawn(rs, es) /\ OneDomain([edges |-> es])
    /\ LeavesFirst(rs) /\ ClonesFirst(rs) /\ DoneIsReal(rs, re) /\ DoneIsShown(rs, es)

\* The list at rest.
AtRest(rs) ==
    \A r \in rs : /\ r.status # "pending"
                  /\ r.status = "done" => r.op.kind \in {"createVm", "provision"}

\* The canvas against the lab.
EdgesAreReal(es, re) == \A e \in es : e.state = "realized" => OpOf(e) \in re
LivesAreReal(ns, lf, re) ==
    \A n \in ns : /\ lf[n] \in {"provisioning", "deployed"} => Create(n) \in re
                  /\ lf[n] = "deployed" => Provision(n) \in re
ProvisionedExists(ns, re) == \A n \in ns : Provision(n) \in re => Create(n) \in re
IsProvisioning(rs, n) == \E r \in rs : r.op = Provision(n) /\ r.status = "pending"
Provisioning(ns, rs, lf, re, running) ==
    \A n \in ns : lf[n] = "provisioning" /\ Provision(n) \notin re =>
        running /\ IsProvisioning(rs, n)
PlannedIsListed(rs, es) ==
    \A e \in es : e.kind = "domainMembership" /\ e.state = "planned" => OpOf(e) \in OpsOf(rs)
LeftIsNotShown(rs, es) ==
    \A r \in rs, e \in es :
        /\ r.op.kind = "domainLeave" /\ r.status # "done"
        /\ e.kind = "domainMembership" /\ e.source = r.op.target
        => e.state = "planned"
LeftIsReal(rs, re) ==
    \A r \in rs : r.op.kind = "domainLeave" /\ r.status # "done" /\ r.prev # NoNode =>
        Op("domainJoin", r.op.target, r.prev) \in re
AreEdges(ns, es) == es \subseteq Edges(ns)
CanvasHolds(ns, rs, es, lf, re, running) ==
    /\ AreEdges(ns, es) /\ lf \in [ns -> Lives]
    /\ EdgesAreReal(es, re) /\ LivesAreReal(ns, lf, re) /\ ProvisionedExists(ns, re)
    /\ Provisioning(ns, rs, lf, re, running)
    /\ PlannedIsListed(rs, es) /\ LeftIsNotShown(rs, es) /\ LeftIsReal(rs, re)

DeploysInv ==
    ~strayed =>
        /\ lab \in Labs
        /\ Listed(lab.nodes, rows)
        /\ IF deploying THEN Planned(rows, edges, real) ELSE AtRest(rows)
        /\ CanvasHolds(lab.nodes, rows, edges, life, real, deploying)

-----------------------------------------------------------------------------
\* Operators of the model.

\* A bounded set of numbers has a maximum.
LEMMA MaxOf ==
    ASSUME NEW S \in SUBSET Nat, S # {}, NEW b \in Nat, \A x \in S : x <= b
    PROVE  Max(S) \in S /\ \A x \in S : x <= Max(S)
  <1>. DEFINE T == {y \in Nat : b - y \in S}
              R == OpToRel(<, Nat)
  <1>1. T \subseteq Nat /\ T # {}
    <2>1. PICK x \in S : TRUE
      OBVIOUS
    <2>2. b - x \in Nat /\ b - (b - x) = x
      OBVIOUS
    <2>. QED BY <2>1, <2>2
  <1>2. PICK y \in T : \A z \in T : <<z, y>> \notin R
    BY <1>1, NatLessThanWellFounded, WFMin
  <1>3. ASSUME NEW x \in S PROVE x <= b - y
    <2>1. b - x \in T
      <3>. b - x \in Nat /\ b - (b - x) = x
        OBVIOUS
      <3>. QED OBVIOUS
    <2>2. ~(b - x < y)
      BY <1>2, <2>1 DEF OpToRel
    <2>. QED BY <2>2
  <1>4. b - y \in S
    BY <1>2
  <1>. HIDE DEF T, R
  <1>5. \E m \in S : \A x \in S : m >= x
    BY <1>3, <1>4
  <1>. QED BY <1>5 DEF Max

\* A row that is staged gets an id that no other row has.
LEMMA NextIdIsNew ==
    ASSUME NEW rs, Bounded(rs), \A r \in rs : r.id \in Nat
    PROVE  NextId(rs) \in Nat \ {0} /\ \A r \in rs : r.id < NextId(rs)
  <1>. DEFINE S == {0} \cup {r.id : r \in rs}
  <1>1. PICK b \in Nat : \A r \in rs : r.id <= b
    BY DEF Bounded
  <1>2. S \in SUBSET Nat /\ S # {} /\ \A x \in S : x <= b
    BY <1>1
  <1>3. Max(S) \in S /\ \A x \in S : x <= Max(S)
    BY <1>2, MaxOf
  <1>4. NextId(rs) = 1 + Max(S)
    BY DEF NextId
  <1>5. \A r \in rs : r.id \in S
    OBVIOUS
  <1>. HIDE DEF S
  <1>6. PICK m \in Nat : NextId(rs) = 1 + m /\ \A x \in S : x <= m
    BY <1>2, <1>3, <1>4
  <1>. QED BY <1>2, <1>5, <1>6

\* What is written into a row.
LEMMA RowFields ==
    ASSUME NEW id, NEW op, NEW status, NEW deps, NEW prev
    PROVE  LET r == Row(id, op, status, deps, prev) IN
           /\ r = Row(r.id, r.op, r.status, r.deps, r.prev)
           /\ r.id = id /\ r.op = op /\ r.status = status /\ r.prev = prev
  BY DEF Row

LEMMA OpFields ==
    ASSUME NEW kind, NEW target, NEW secondary
    PROVE  LET o == Op(kind, target, secondary) IN
           /\ o = Op(o.kind, o.target, o.secondary)
           /\ o.kind = kind /\ o.target = target /\ o.secondary = secondary
  BY DEF Op

\* The operations on a node alone.
LEMMA NodeOps ==
    ASSUME NEW n
    PROVE  /\ Create(n).kind = "createVm" /\ Create(n).target = n
           /\ Provision(n).kind = "provision" /\ Provision(n).target = n
           /\ Leave(n).kind = "domainLeave" /\ Leave(n).target = n
  BY DEF Create, Provision, Leave, Op

\* A row whose status is rewritten stays the row of its operation.
LEMMA RewrittenRow ==
    ASSUME NEW r, r = Row(r.id, r.op, r.status, r.deps, r.prev), NEW status
    PROVE  /\ [r EXCEPT !.status = status] = Row(r.id, r.op, status, r.deps, r.prev)
           /\ [r EXCEPT !.status = r.status] = r
  <1>1. PICK id, op, old, on, prev :
            r = [id |-> id, op |-> op, status |-> old, deps |-> on, prev |-> prev]
    BY DEF Row
  <1>2. [r EXCEPT !.status = status] = Row(r.id, r.op, status, r.deps, r.prev)
    BY <1>1 DEF Row
  <1>3. [r EXCEPT !.status = r.status] = r
    BY <1>1
  <1>. QED BY <1>2, <1>3

\* The operation of a relationship.
LEMMA DrawnOp ==
    ASSUME NEW ns, NEW e \in Edges(ns)
    PROVE  /\ e.kind = "domainMembership" => OpOf(e) = Op("domainJoin", e.source, e.target)
           /\ OpOf(e).kind = "domainJoin" => e.kind = "domainMembership"
           /\ OpOf(e) = Op(OpOf(e).kind, OpOf(e).target, OpOf(e).secondary)
           /\ OpOf(e).kind \in {"domainJoin", "caConnect", "webServerCert"}
           /\ OpOf(e).target \in ns /\ OpOf(e).secondary \in ns
           /\ e.state \in {"planned", "realized"}
  <1>1. e.source \in ns /\ e.target \in ns /\ e.state \in {"planned", "realized"}
    BY DEF Edges
  <1>2. e.kind \in {"domainMembership", "caParent", "caPublication"}
    BY DEF Edges, EdgeKinds
  <1>3. /\ e.kind = "domainMembership" => OpOf(e) = Op("domainJoin", e.source, e.target)
        /\ e.kind = "caParent" => OpOf(e) = Op("caConnect", e.target, e.source)
        /\ e.kind = "caPublication" => OpOf(e) = Op("webServerCert", e.source, e.target)
    BY DEF OpOf
  <1>. QED BY <1>1, <1>2, <1>3, OpFields

\* The ends of a link, and what it realizes.
LEMMA MemberLink ==
    ASSUME NEW n, NEW p, NEW state
    PROVE  LET e == MemberEdge(n, p, state) IN
           /\ e.kind = "domainMembership" /\ e.source = n /\ e.target = p /\ e.state = state
           /\ OpOf(e) = Op("domainJoin", n, p)
  BY DEF MemberEdge, Link, OpOf

\* An edge that a frame has committed is an edge as before, or its operation is done.
LEMMA CommittedEdge ==
    ASSUME NEW ns, NEW es, AreEdges(ns, es), NEW rs, NEW e \in Committed(rs, es)
    PROVE  \E d \in es :
              /\ e \in Edges(ns) /\ d \in Edges(ns) /\ OpOf(e) = OpOf(d)
              /\ e.kind = d.kind /\ e.source = d.source /\ e.target = d.target
              /\ e = d \/ (e.state = "realized" /\ \E r \in rs : r.op = OpOf(d) /\ r.status = "done")
              /\ (\E r \in rs : r.op = OpOf(d) /\ r.status = "done") => e.state = "realized"
              /\ e = IF \E r \in rs : r.op = OpOf(d) /\ r.status = "done"
                     THEN [d EXCEPT !.state = "realized"] ELSE d
  <1>1. PICK d \in es : e = IF \E r \in rs : r.op = OpOf(d) /\ r.status = "done"
                            THEN [d EXCEPT !.state = "realized"] ELSE d
    BY DEF Committed
  <1>2. d \in Edges(ns)
    BY DEF AreEdges
  <1>3. /\ [d EXCEPT !.state = "realized"] \in Edges(ns)
        /\ [d EXCEPT !.state = "realized"].state = "realized"
        /\ [d EXCEPT !.state = "realized"].kind = d.kind
        /\ [d EXCEPT !.state = "realized"].source = d.source
        /\ [d EXCEPT !.state = "realized"].target = d.target
    BY <1>2 DEF Edges
  <1>4. OpOf([d EXCEPT !.state = "realized"]) = OpOf(d)
    BY <1>3 DEF OpOf
  <1>5. CASE \E r \in rs : r.op = OpOf(d) /\ r.status = "done"
    <2>1. e = [d EXCEPT !.state = "realized"]
      BY <1>1, <1>5
    <2>. QED BY <1>1, <1>2, <1>3, <1>4, <1>5, <2>1
  <1>6. CASE ~\E r \in rs : r.op = OpOf(d) /\ r.status = "done"
    <2>1. e = d
      BY <1>1, <1>6
    <2>. QED BY <1>1, <1>2, <1>6, <2>1
  <1>. QED BY <1>5, <1>6

-----------------------------------------------------------------------------
\* What keeps the list in order.

\* Rows are taken over, with another status or fewer dependencies.
Carries(f, rs, next) ==
    /\ DOMAIN f \subseteq rs
    /\ next = {f[r] : r \in DOMAIN f}
    /\ \A r \in DOMAIN f : /\ f[r].status \in Statuses
                           /\ f[r] = Row(r.id, r.op, f[r].status, f[r].deps, r.prev)

LEMMA CarriedRow ==
    ASSUME NEW f, NEW rs, NEW next, Carries(f, rs, next), NEW q \in next
    PROVE  \E r \in DOMAIN f : /\ r \in rs /\ q = f[r] /\ q.status \in Statuses
                               /\ q.id = r.id /\ q.op = r.op /\ q.prev = r.prev
                               /\ q = Row(q.id, q.op, q.status, q.deps, q.prev)
  <1>1. PICK r \in DOMAIN f : r \in rs /\ q = f[r]
    BY DEF Carries
  <1>2. q.status \in Statuses /\ q = Row(r.id, r.op, q.status, q.deps, r.prev)
    BY <1>1 DEF Carries
  <1>3. q.id = r.id /\ q.op = r.op /\ q.prev = r.prev
    BY <1>2 DEF Row
  <1>. QED BY <1>1, <1>2, <1>3

LEMMA CarriedListed ==
    ASSUME NEW ns, NEW f, NEW rs, NEW next, Listed(ns, rs), Carries(f, rs, next)
    PROVE  Listed(ns, next)
  <1>1. \A q \in next : WellFormed(ns, q)
    BY CarriedRow DEF Listed, WellFormed
  <1>2. Bounded(next)
    <2>1. PICK b \in Nat : \A r \in rs : r.id <= b
      BY DEF Listed, Bounded
    <2>2. \A q \in next : q.id <= b
      BY <2>1, CarriedRow
    <2>. QED BY <2>1, <2>2 DEF Bounded
  <1>3. Identified(next)
    <2>. SUFFICES ASSUME NEW q \in next, NEW p \in next, q.id = p.id, ~Synthesized(p)
                  PROVE  IF Synthesized(q) THEN p.op = Create(q.op.target) ELSE q = p
      BY DEF Identified
    <2>1. PICK r \in DOMAIN f : r \in rs /\ q = f[r] /\ q.id = r.id /\ q.op = r.op
      BY CarriedRow
    <2>2. PICK s \in DOMAIN f : s \in rs /\ p = f[s] /\ p.id = s.id /\ p.op = s.op
      BY CarriedRow
    <2>3. r.id = s.id /\ ~Synthesized(s) /\ (Synthesized(q) <=> Synthesized(r))
      BY <2>1, <2>2 DEF Synthesized
    <2>4. IF Synthesized(r) THEN s.op = Create(r.op.target) ELSE r = s
      BY <2>1, <2>2, <2>3 DEF Listed, Identified
    <2>. QED BY <2>1, <2>2, <2>3, <2>4
  <1>4. LeavesOnce(next)
    <2>. SUFFICES ASSUME NEW q \in next, NEW p \in next, q.op.kind = "domainLeave", p.op = q.op
                  PROVE  q = p
      BY DEF LeavesOnce
    <2>1. PICK r \in DOMAIN f : r \in rs /\ q = f[r] /\ q.op = r.op
      BY CarriedRow
    <2>2. PICK s \in DOMAIN f : s \in rs /\ p = f[s] /\ p.op = s.op
      BY CarriedRow
    <2>3. r = s
      BY <2>1, <2>2 DEF Listed, LeavesOnce
    <2>. QED BY <2>1, <2>2, <2>3
  <1>. QED BY <1>1, <1>2, <1>3, <1>4 DEF Listed

LEMMA ListedRows ==
    ASSUME NEW ns, NEW rs, Listed(ns, rs)
    PROVE  AreRows(rs)
  BY DEF Listed, WellFormed, AreRows

\* Some of the rows.
LEMMA FewerListed ==
    ASSUME NEW ns, NEW rs, NEW next, Listed(ns, rs), next \subseteq rs
    PROVE  Listed(ns, next)
  BY DEF Listed, Bounded, Identified, LeavesOnce

\* An operation that may be staged.
Stageable(ns, op, prev) ==
    /\ op = Op(op.kind, op.target, op.secondary)
    /\ op.kind \in OpKinds \ {"provision"} /\ op.target \in ns
    /\ op.kind \in {"createVm", "domainLeave"} => op.secondary = NoNode
    /\ prev # NoNode => prev \in ns /\ op.kind \in {"domainJoin", "domainLeave"}

LEMMA StagedListed ==
    ASSUME NEW ns, NEW rs, Listed(ns, rs), NEW op, NEW prev, Stageable(ns, op, prev),
           op.kind = "domainLeave" => op \notin OpsOf(rs)
    PROVE  Listed(ns, Staging(rs, op, prev))
  <1>. DEFINE new == Row(NextId(rs), op, "staged", Inferred(op, rs), prev)
  <1>1. NextId(rs) \in Nat /\ \A r \in rs : r.id \in Nat /\ r.id < NextId(rs)
    BY NextIdIsNew DEF Listed, WellFormed
  <1>2. /\ new = Row(new.id, new.op, new.status, new.deps, new.prev)
        /\ new.id = NextId(rs) /\ new.op = op /\ new.status = "staged" /\ new.prev = prev
    BY RowFields
  <1>3. Staging(rs, op, prev) = rs \cup {new}
    BY DEF Staging
  <1>. HIDE DEF new
  <1>4. WellFormed(ns, new) /\ ~Synthesized(new)
    BY <1>1, <1>2 DEF WellFormed, Stageable, Statuses, Synthesized
  <1>5. Bounded(rs \cup {new})
    <2>1. \A r \in rs \cup {new} : r.id <= NextId(rs)
      BY <1>1, <1>2
    <2>. QED BY <1>1, <2>1 DEF Bounded
  <1>6. Identified(rs \cup {new})
    <2>. SUFFICES ASSUME NEW r \in rs \cup {new}, NEW s \in rs \cup {new},
                         r.id = s.id, ~Synthesized(s)
                  PROVE  IF Synthesized(r) THEN s.op = Create(r.op.target) ELSE r = s
      BY DEF Identified
    <2>1. CASE r \in rs /\ s \in rs
      BY <2>1 DEF Listed, Identified
    <2>2. CASE r = new \/ s = new
      <3>1. \A q \in rs : q.id # new.id
        BY <1>1, <1>2
      <3>. QED BY <2>2, <3>1, <1>4
    <2>. QED BY <2>1, <2>2
  <1>7. LeavesOnce(rs \cup {new})
    <2>. SUFFICES ASSUME NEW r \in rs \cup {new}, NEW s \in rs \cup {new},
                         r.op.kind = "domainLeave", s.op = r.op
                  PROVE  r = s
      BY DEF LeavesOnce
    <2>1. CASE r \in rs /\ s \in rs
      BY <2>1 DEF Listed, LeavesOnce
    <2>2. CASE r = new \/ s = new
      BY <2>2, <1>2 DEF OpsOf
    <2>. QED BY <2>1, <2>2
  <1>8. \A r \in rs \cup {new} : WellFormed(ns, r)
    BY <1>4 DEF Listed
  <1>. QED BY <1>3, <1>5, <1>6, <1>7, <1>8 DEF Listed

\* The provision rows of a plan.
LEMMA MirrorRow ==
    ASSUME NEW ns, NEW rs, \A r \in rs : WellFormed(ns, r), NEW m \in Mirrors(rs)
    PROVE  \E c \in rs : /\ c.op = Create(m.op.target) /\ m.op = Provision(c.op.target)
                         /\ m.id = c.id /\ m.status = "pending" /\ m.prev = NoNode
                         /\ Synthesized(m) /\ WellFormed(ns, m)
  <1>1. PICK c \in rs : /\ c.op.kind = "createVm"
                        /\ m = Row(c.id, Provision(c.op.target), "pending", {c.id}, NoNode)
    BY DEF Mirrors
  <1>2. c.op = Create(c.op.target) /\ c.op.target \in ns /\ c.id \in Nat
    BY <1>1 DEF WellFormed, Create
  <1>3. /\ m = Row(m.id, m.op, m.status, m.deps, m.prev)
        /\ m.op = Provision(c.op.target) /\ m.id = c.id /\ m.status = "pending" /\ m.prev = NoNode
    BY <1>1, RowFields
  <1>4. /\ m.op.kind = "provision" /\ m.op.target = c.op.target
        /\ m.op = Op("provision", c.op.target, NoNode) /\ m.op.secondary = NoNode
    BY <1>3 DEF Provision, Op
  <1>5. WellFormed(ns, m)
    BY <1>2, <1>3, <1>4 DEF WellFormed, Statuses, OpKinds
  <1>. QED BY <1>2, <1>3, <1>4, <1>5 DEF Synthesized

LEMMA MirroredListed ==
    ASSUME NEW ns, NEW rs, Listed(ns, rs)
    PROVE  Listed(ns, rs \cup Mirrors(rs))
  <1>1. \A r \in rs : WellFormed(ns, r)
    BY DEF Listed
  <1>2. \A r \in rs \cup Mirrors(rs) : WellFormed(ns, r)
    BY <1>1, MirrorRow
  <1>3. Bounded(rs \cup Mirrors(rs))
    <2>1. PICK b \in Nat : \A r \in rs : r.id <= b
      BY DEF Listed, Bounded
    <2>2. \A r \in rs \cup Mirrors(rs) : r.id <= b
      BY <1>1, <2>1, MirrorRow
    <2>. QED BY <2>1, <2>2 DEF Bounded
  <1>4. Identified(rs \cup Mirrors(rs))
    <2>. SUFFICES ASSUME NEW r \in rs \cup Mirrors(rs), NEW s \in rs \cup Mirrors(rs),
                         r.id = s.id, ~Synthesized(s)
                  PROVE  IF Synthesized(r) THEN s.op = Create(r.op.target) ELSE r = s
      BY DEF Identified
    <2>1. s \in rs
      BY <1>1, MirrorRow
    <2>2. CASE r \in rs
      BY <2>1, <2>2 DEF Listed, Identified
    <2>3. CASE r \in Mirrors(rs)
      <3>1. PICK c \in rs : c.op = Create(r.op.target) /\ r.id = c.id /\ Synthesized(r)
        BY <1>1, <2>3, MirrorRow
      <3>2. c.op.kind # "provision"
        BY <3>1, NodeOps
      <3>3. c = s
        BY <2>1, <3>1, <3>2 DEF Listed, Identified, Synthesized
      <3>. QED BY <3>1, <3>3
    <2>. QED BY <2>2, <2>3
  <1>5. LeavesOnce(rs \cup Mirrors(rs))
    <2>1. \A m \in Mirrors(rs) : m.op.kind # "domainLeave"
      BY <1>1, MirrorRow DEF Synthesized
    <2>. QED BY <2>1 DEF Listed, LeavesOnce
  <1>. QED BY <1>2, <1>3, <1>4, <1>5 DEF Listed

-----------------------------------------------------------------------------
\* A step of a plan: pending rows end, the others stay as they are.

Advances(f, rs, next) ==
    /\ Carries(f, rs, next) /\ DOMAIN f = rs
    /\ \A r \in rs : r.status # "pending" => f[r] = r

LEMMA AdvancedRow ==
    ASSUME NEW f, NEW rs, NEW next, Advances(f, rs, next)
    PROVE  /\ \A q \in next : \E r \in rs : q = f[r]
           /\ \A r \in rs : f[r] \in next /\ f[r].op = r.op /\ f[r].prev = r.prev
           /\ \A r \in rs : r.status # "pending" => f[r] = r
  <1>1. \A r \in rs : f[r] = Row(r.id, r.op, f[r].status, f[r].deps, r.prev)
    BY DEF Advances, Carries
  <1>2. \A r \in rs : f[r].op = r.op /\ f[r].prev = r.prev
    BY <1>1, RowFields
  <1>3. next = {f[r] : r \in rs}
    BY DEF Advances, Carries
  <1>. QED BY <1>2, <1>3 DEF Advances

LEMMA OpsKept ==
    ASSUME NEW f, NEW rs, NEW next, Advances(f, rs, next)
    PROVE  OpsOf(next) = OpsOf(rs)
  BY AdvancedRow DEF OpsOf

LEMMA PairedKept ==
    ASSUME NEW f, NEW rs, NEW next, Advances(f, rs, next), Paired(rs)
    PROVE  Paired(next)
  <1>. SUFFICES ASSUME NEW q \in next
                PROVE  /\ q.op.kind = "createVm" => Provision(q.op.target) \in OpsOf(next)
                       /\ Synthesized(q) => Create(q.op.target) \in OpsOf(next)
    BY DEF Paired
  <1>1. PICK r \in rs : q.op = r.op
    BY AdvancedRow
  <1>. QED BY <1>1, OpsKept DEF Paired, Synthesized

LEMMA ClonesOnceKept ==
    ASSUME NEW f, NEW rs, NEW next, Advances(f, rs, next), ClonesOnce(rs)
    PROVE  ClonesOnce(next)
  <1>. SUFFICES ASSUME NEW q \in next, NEW p \in next, q.op.kind = "createVm", p.op = q.op
                PROVE  q = p
    BY DEF ClonesOnce
  <1>1. PICK r \in rs : q = f[r] /\ q.op = r.op
    BY AdvancedRow
  <1>2. PICK s \in rs : p = f[s] /\ p.op = s.op
    BY AdvancedRow
  <1>3. r = s
    BY <1>1, <1>2 DEF ClonesOnce
  <1>. QED BY <1>1, <1>2, <1>3

LEMMA JoinsStayDrawn ==
    ASSUME NEW ns, NEW f, NEW rs, NEW next, Advances(f, rs, next),
           NEW es, AreEdges(ns, es), JoinsAreDrawn(rs, es)
    PROVE  JoinsAreDrawn(next, Committed(next, es))
  <1>. SUFFICES ASSUME NEW q \in next, q.op.kind = "domainJoin"
                PROVE  \E e \in Committed(next, es) : OpOf(e) = q.op
    BY DEF JoinsAreDrawn
  <1>1. PICK r \in rs : q.op = r.op
    BY AdvancedRow
  <1>2. PICK e \in es : OpOf(e) = q.op
    BY <1>1 DEF JoinsAreDrawn
  <1>3. [e EXCEPT !.state = "realized"].kind = e.kind
        /\ [e EXCEPT !.state = "realized"].source = e.source
        /\ [e EXCEPT !.state = "realized"].target = e.target
    BY DEF Edges, AreEdges
  <1>4. OpOf([e EXCEPT !.state = "realized"]) = OpOf(e)
    BY <1>3 DEF OpOf
  <1>. QED BY <1>2, <1>4 DEF Committed

LEMMA OneDomainKept ==
    ASSUME NEW ns, NEW rs, NEW es, AreEdges(ns, es), OneDomain([edges |-> es])
    PROVE  OneDomain([edges |-> Committed(rs, es)])
  <1>1. \A d, g \in es : d.kind = "domainMembership" /\ g.kind = "domainMembership"
                         /\ d.source = g.source => d = g
    BY DEF OneDomain, Memberships
  <1>2. ASSUME NEW e \in Committed(rs, es), NEW h \in Committed(rs, es),
               e.kind = "domainMembership", h.kind = "domainMembership", e.source = h.source
        PROVE  e = h
    <2>1. PICK d \in es : /\ e.kind = d.kind /\ e.source = d.source
                          /\ e = IF \E r \in rs : r.op = OpOf(d) /\ r.status = "done"
                                 THEN [d EXCEPT !.state = "realized"] ELSE d
      BY CommittedEdge
    <2>2. PICK g \in es : /\ h.kind = g.kind /\ h.source = g.source
                          /\ h = IF \E r \in rs : r.op = OpOf(g) /\ r.status = "done"
                                 THEN [g EXCEPT !.state = "realized"] ELSE g
      BY CommittedEdge
    <2>3. d = g
      BY <1>1, <1>2, <2>1, <2>2
    <2>. QED BY <2>1, <2>2, <2>3
  <1>. QED BY <1>2 DEF OneDomain, Memberships

\* A frame commits the edges of what is done.
LEMMA DoneIsCommitted ==
    ASSUME NEW ns, NEW rs, NEW es, AreEdges(ns, es)
    PROVE  DoneIsShown(rs, Committed(rs, es))
  <1>. SUFFICES ASSUME NEW r \in rs, NEW e \in Committed(rs, es), r.status = "done", OpOf(e) = r.op
                PROVE  e.state = "realized"
    BY DEF DoneIsShown
  <1>1. PICK d \in es : /\ OpOf(e) = OpOf(d)
                        /\ (\E q \in rs : q.op = OpOf(d) /\ q.status = "done") => e.state = "realized"
    BY CommittedEdge
  <1>. QED BY <1>1

LEMMA PlannedStaysListed ==
    ASSUME NEW ns, NEW f, NEW rs, NEW next, Advances(f, rs, next),
           NEW es, AreEdges(ns, es), PlannedIsListed(rs, es)
    PROVE  PlannedIsListed(next, Committed(next, es))
  <1>. SUFFICES ASSUME NEW e \in Committed(next, es),
                       e.kind = "domainMembership", e.state = "planned"
                PROVE  OpOf(e) \in OpsOf(next)
    BY DEF PlannedIsListed
  <1>1. PICK d \in es : e = d
    BY CommittedEdge
  <1>. QED BY <1>1, OpsKept DEF PlannedIsListed

LEMMA LeftStaysHidden ==
    ASSUME NEW ns, NEW f, NEW rs, NEW next, Advances(f, rs, next), Listed(ns, rs),
           NEW es, AreEdges(ns, es), LeftIsNotShown(rs, es), LeavesFirst(next)
    PROVE  LeftIsNotShown(next, Committed(next, es))
  <1>. SUFFICES ASSUME NEW q \in next, q.op.kind = "domainLeave", q.status # "done",
                       NEW e \in Committed(next, es),
                       e.kind = "domainMembership", e.source = q.op.target
                PROVE  e.state = "planned"
    BY DEF LeftIsNotShown
  <1>1. PICK r \in rs : q = f[r] /\ q.op = r.op /\ (r.status # "pending" => q = r)
    BY AdvancedRow
  <1>2. r.status # "done"
    BY <1>1
  <1>3. PICK d \in es : /\ d \in Edges(ns) /\ d.kind = e.kind /\ d.source = e.source
                        /\ \/ \E p \in next : p.op = OpOf(d) /\ p.status = "done"
                           \/ e = d
    BY CommittedEdge
  <1>4. d.state = "planned"
    BY <1>1, <1>2, <1>3 DEF LeftIsNotShown
  <1>5. CASE \E p \in next : p.op = OpOf(d) /\ p.status = "done"
    <2>1. PICK p \in next : p.op = OpOf(d) /\ p.status = "done"
      BY <1>5
    <2>2. OpOf(d) = Op("domainJoin", d.source, d.target)
      BY <1>3, DrawnOp
    <2>3. p.op.kind = "domainJoin" /\ p.op.target = q.op.target
      BY <1>3, <2>1, <2>2, OpFields
    <2>4. q.op = Leave(q.op.target)
      BY <1>1 DEF Listed, WellFormed, Leave
    <2>. QED BY <2>1, <2>3, <2>4 DEF LeavesFirst
  <1>. QED BY <1>3, <1>4, <1>5

-----------------------------------------------------------------------------
\* An operation ends.

\* What a row waits for, as far as the list is concerned.
Runnable(rs, row) ==
    /\ row \in rs /\ row.status = "pending"
    /\ \A s \in rs :
          \/ row.op.kind = "provision" /\ s.op = Create(row.op.target)
          \/ row.op.kind = "domainJoin" /\ s.op = Leave(row.op.target)
          => s.status = "done"

LEMMA MayRunMeans ==
    ASSUME NEW row, MayRun(row)
    PROVE  Runnable(rows, row)
  <1>1. row \in rows /\ row.status = "pending"
    BY DEF MayRun, Pending
  <1>2. \A s \in rows : s.op \in Needs(Topology, row.op) => s.status = "done"
    BY DEF MayRun, NeedsOf, NeededBy, Dependencies, OpsOf
  <1>3. row.op.kind = "provision" => Create(row.op.target) \in Needs(Topology, row.op)
    BY DEF Needs
  <1>4. row.op.kind = "domainJoin" => Leave(row.op.target) \in Needs(Topology, row.op)
    BY DEF Needs, JoinNeeds
  <1>. QED BY <1>1, <1>2, <1>3, <1>4 DEF Runnable

\* What a failure takes along has not begun; a provision row goes with its clone.
LEMMA CascadeMeans ==
    ASSUME NEW t, NEW rs, NEW row \in rs, NEW r \in Cascaded(t, rs, row)
    PROVE  /\ r \in rs /\ r.status = "pending" /\ r # row
           /\ Synthesized(r) => row.op = Create(r.op.target)
  <1>. DEFINE needed == [q \in {s \in rs : s.status = "pending"} |-> NeededBy(t, rs, q)]
              With(S) == S \cup {q \in DOMAIN needed : needed[q] \cap S # {}}
              Ok(S) == \A q \in S : \/ q = row
                                    \/ /\ q \in rs /\ q.status = "pending"
                                       /\ q.op.kind # "createVm"
                                       /\ Synthesized(q) => row.op = Create(q.op.target)
  <1>1. ASSUME NEW S, Ok(S) PROVE Ok(With(S))
    <2>. SUFFICES ASSUME NEW q \in With(S), q \notin S, q # row
                  PROVE  /\ q \in rs /\ q.status = "pending"
                         /\ q.op.kind # "createVm"
                         /\ Synthesized(q) => row.op = Create(q.op.target)
      BY <1>1
    <2>1. q \in rs /\ q.status = "pending"
      OBVIOUS
    <2>2. PICK s \in S : s \in NeededBy(t, rs, q)
      BY <2>1
    <2>3. s.op \in Needs(t, q.op)
      BY <2>2 DEF NeededBy, Dependencies
    <2>4. q.op.kind # "createVm"
      BY <2>3 DEF Needs
    <2>5. ASSUME Synthesized(q) PROVE row.op = Create(q.op.target)
      <3>1. s.op = Create(q.op.target)
        BY <2>3, <2>5 DEF Needs, Synthesized
      <3>2. s.op.kind = "createVm"
        BY <3>1, NodeOps
      <3>. QED BY <1>1, <3>1, <3>2
    <2>. QED BY <2>1, <2>4, <2>5
  <1>2. Ok({row})
    OBVIOUS
  <1>3. Cascaded(t, rs, row) = With(With(With(With(With({row}))))) \ {row}
    BY DEF Cascaded
  <1>. HIDE DEF Ok, With
  <1>4. Ok(With(With(With(With(With({row}))))))
    BY <1>1, <1>2
  <1>. QED BY <1>3, <1>4 DEF Ok

\* How a list goes on when a row succeeds, and when one fails with the rows in gone.
Succeeds(f, rs, row) ==
    f = [r \in rs |-> IF r = row THEN [r EXCEPT !.status = "done"] ELSE r]
Fails(f, rs, row, gone, next) ==
    /\ f = [r \in rs |-> IF r = row THEN [r EXCEPT !.status = "error"]
                         ELSE IF r \in gone THEN [r EXCEPT !.status = "cancelled"] ELSE r]
    /\ next = {f[r] : r \in rs}

LEMMA SucceedAdvances ==
    ASSUME NEW rs, AreRows(rs), NEW row \in rs, row.status = "pending",
           NEW f, Succeeds(f, rs, row)
    PROVE  Advances(f, rs, (rs \ {row}) \cup {[row EXCEPT !.status = "done"]})
  <1>. DEFINE next == (rs \ {row}) \cup {[row EXCEPT !.status = "done"]}
  <1>1. DOMAIN f = rs /\ f[row] = [row EXCEPT !.status = "done"]
        /\ \A r \in rs : r # row => f[r] = r
    BY DEF Succeeds
  <1>2. next = {f[r] : r \in rs}
    BY <1>1
  <1>3. ASSUME NEW r \in rs
        PROVE  f[r].status \in Statuses /\ f[r] = Row(r.id, r.op, f[r].status, f[r].deps, r.prev)
    <2>1. r = Row(r.id, r.op, r.status, r.deps, r.prev) /\ r.status \in Statuses
      BY DEF AreRows
    <2>2. [r EXCEPT !.status = "done"] = Row(r.id, r.op, "done", r.deps, r.prev)
      BY <2>1, RewrittenRow
    <2>. QED BY <1>1, <2>1, <2>2 DEF Row, Statuses, Finals
  <1>. QED BY <1>1, <1>2, <1>3 DEF Advances, Carries

LEMMA FailAdvances ==
    ASSUME NEW rs, AreRows(rs), NEW row \in rs, row.status = "pending",
           NEW gone, \A r \in gone : r.status = "pending",
           NEW f, NEW next, Fails(f, rs, row, gone, next)
    PROVE  /\ Advances(f, rs, next)
           /\ f[row].status = "error"
           /\ \A r \in rs : r # row /\ r \in gone => f[r].status = "cancelled"
           /\ \A r \in rs : r # row /\ r \notin gone => f[r] = r
  <1>1. DOMAIN f = rs
        /\ \A r \in rs : f[r] = IF r = row THEN [r EXCEPT !.status = "error"]
                                ELSE IF r \in gone THEN [r EXCEPT !.status = "cancelled"] ELSE r
    BY DEF Fails
  <1>2. ASSUME NEW r \in rs
        PROVE  /\ f[r].status \in Statuses /\ f[r] = Row(r.id, r.op, f[r].status, f[r].deps, r.prev)
               /\ r = row => f[r].status = "error"
               /\ r # row /\ r \in gone => f[r].status = "cancelled"
    <2>1. r = Row(r.id, r.op, r.status, r.deps, r.prev) /\ r.status \in Statuses
      BY DEF AreRows
    <2>2. /\ [r EXCEPT !.status = "error"] = Row(r.id, r.op, "error", r.deps, r.prev)
          /\ [r EXCEPT !.status = "cancelled"] = Row(r.id, r.op, "cancelled", r.deps, r.prev)
      BY <2>1, RewrittenRow
    <2>. QED BY <1>1, <2>1, <2>2 DEF Row, Statuses, Finals
  <1>. QED BY <1>1, <1>2 DEF Advances, Carries, Fails

\* What an operation that succeeds does to the lab.
Realizes(re, next, op) ==
    /\ op.kind # "domainLeave" => op \in next
    /\ \A o \in re : o \in next \/ /\ o.kind = "domainJoin" /\ o.target = op.target
                                   /\ op.kind \in {"domainJoin", "domainLeave"}
    /\ \A o \in next : o \in re \/ (o = op /\ op.kind # "domainLeave")
    /\ op.kind \in {"domainJoin", "domainLeave"} =>
          \A o \in next : o.kind = "domainJoin" /\ o.target = op.target =>
              o = op /\ op.kind = "domainJoin"

LEMMA RealizedMeans ==
    ASSUME NEW op
    PROVE  Realizes(real, Realized(op), op)
  <1>1. CASE op.kind = "domainLeave"
    BY <1>1 DEF Realizes, Realized, JoinsIn
  <1>2. CASE op.kind = "domainJoin"
    BY <1>2 DEF Realizes, Realized, JoinsIn
  <1>3. CASE op.kind \notin {"domainLeave", "domainJoin"}
    <2>1. Realized(op) = real \cup {op}
      BY <1>3 DEF Realized
    <2>. QED BY <1>3, <2>1 DEF Realizes
  <1>. QED BY <1>1, <1>2, <1>3

\* The relationship that the join of a machine realizes is its only membership.
LEMMA OneJoin ==
    ASSUME NEW ns, NEW rs, NEW es, AreEdges(ns, es), JoinsAreDrawn(rs, es), OneDomain([edges |-> es]),
           NEW row \in rs, row.op.kind = "domainJoin",
           NEW e \in es, OpOf(e).kind = "domainJoin", OpOf(e).target = row.op.target
    PROVE  OpOf(e) = row.op
  <1>1. PICK d \in es : OpOf(d) = row.op
    BY DEF JoinsAreDrawn
  <1>2. d \in Edges(ns) /\ e \in Edges(ns)
    BY DEF AreEdges
  <1>3. d.kind = "domainMembership" /\ e.kind = "domainMembership"
    BY <1>1, <1>2, DrawnOp
  <1>4. d.source = row.op.target /\ e.source = row.op.target
    <2>1. OpOf(d) = Op("domainJoin", d.source, d.target) /\ OpOf(e) = Op("domainJoin", e.source, e.target)
      BY <1>2, <1>3, DrawnOp
    <2>. QED BY <1>1, <2>1, OpFields
  <1>5. d = e
    BY <1>3, <1>4 DEF OneDomain, Memberships
  <1>. QED BY <1>1, <1>5

LEMMA LeaveOp ==
    ASSUME NEW ns, NEW rs, Listed(ns, rs), NEW r \in rs, r.op.kind = "domainLeave"
    PROVE  r.op = Leave(r.op.target)
  BY DEF Listed, WellFormed, Leave

LEMMA SucceedLeaves ==
    ASSUME NEW ns, NEW rs, Listed(ns, rs), LeavesFirst(rs), NEW row, Runnable(rs, row),
           NEW f, Succeeds(f, rs, row), NEW next, Advances(f, rs, next)
    PROVE  LeavesFirst(next)
  <1>. SUFFICES ASSUME NEW q \in next, NEW p \in next, q.op.kind = "domainJoin", q.status = "done",
                       p.op = Leave(q.op.target)
                PROVE  p.status = "done"
    BY DEF LeavesFirst
  <1>1. PICK r \in rs : q = f[r] /\ q.op = r.op
    BY AdvancedRow
  <1>2. PICK s \in rs : p = f[s] /\ p.op = s.op /\ (s.status # "pending" => p = s)
    BY AdvancedRow
  <1>3. row \in rs /\ row.status = "pending"
    BY DEF Runnable
  <1>4. s.status = "done"
    <2>1. CASE r = row
      BY <1>1, <1>2, <2>1 DEF Runnable
    <2>2. CASE r # row
      <3>1. q = r
        BY <1>1, <2>2 DEF Succeeds
      <3>. QED BY <1>1, <1>2, <3>1 DEF LeavesFirst
    <2>. QED BY <2>1, <2>2
  <1>. QED BY <1>2, <1>4

LEMMA SucceedClones ==
    ASSUME NEW ns, NEW rs, Listed(ns, rs), ClonesFirst(rs), NEW row, Runnable(rs, row),
           NEW f, Succeeds(f, rs, row), NEW next, Advances(f, rs, next)
    PROVE  ClonesFirst(next)
  <1>. SUFFICES ASSUME NEW q \in next, Synthesized(q), NEW p \in next, p.op = Create(q.op.target)
                PROVE  \/ q.status = "pending"
                       \/ q.status \in {"done", "error"} /\ p.status = "done"
                       \/ q.status = "cancelled" /\ p.status = "error"
    BY DEF ClonesFirst
  <1>1. PICK r \in rs : q = f[r] /\ q.op = r.op
    BY AdvancedRow
  <1>2. PICK c \in rs : p = f[c] /\ p.op = c.op /\ (c.status # "pending" => p = c)
    BY AdvancedRow
  <1>3. row \in rs /\ row.status = "pending" /\ row = Row(row.id, row.op, row.status, row.deps, row.prev)
    BY DEF Runnable, Listed, WellFormed
  <1>4. CASE r = row
    <2>1. c.status = "done"
      BY <1>1, <1>2, <1>4 DEF Runnable, Synthesized
    <2>2. q = [row EXCEPT !.status = "done"]
      BY <1>1, <1>4 DEF Succeeds
    <2>3. q.status = "done"
      BY <1>3, <2>2, RewrittenRow, RowFields
    <2>. QED BY <1>2, <2>1, <2>3
  <1>5. CASE r # row
    <2>1. q = r
      BY <1>1, <1>5 DEF Succeeds
    <2>2. \/ r.status = "pending"
          \/ r.status \in {"done", "error"} /\ c.status = "done"
          \/ r.status = "cancelled" /\ c.status = "error"
      BY <1>1, <1>2, <2>1 DEF ClonesFirst, Synthesized
    <2>. QED BY <1>2, <2>1, <2>2
  <1>. QED BY <1>4, <1>5

LEMMA SucceedDone ==
    ASSUME NEW ns, NEW rs, Listed(ns, rs), NEW es, AreEdges(ns, es), NEW re, Planned(rs, es, re),
           NEW row, Runnable(rs, row), NEW f, Succeeds(f, rs, row), NEW next, Advances(f, rs, next),
           NEW now, Realizes(re, now, row.op)
    PROVE  DoneIsReal(next, now)
  <1>. SUFFICES ASSUME NEW q \in next, q.status = "done", q.op.kind # "domainLeave"
                PROVE  q.op \in now
    BY DEF DoneIsReal
  <1>1. PICK r \in rs : q = f[r] /\ q.op = r.op
    BY AdvancedRow
  <1>2. CASE r = row
    BY <1>1, <1>2 DEF Realizes
  <1>3. CASE r # row
    <2>1. q = r
      BY <1>1, <1>3 DEF Succeeds
    <2>2. r.op \in re
      BY <2>1 DEF Planned, DoneIsReal
    <2>. SUFFICES ASSUME r.op \notin now PROVE FALSE
      BY <1>1
    <2>3. /\ r.op.kind = "domainJoin" /\ r.op.target = row.op.target
          /\ row.op.kind \in {"domainJoin", "domainLeave"}
      BY <2>2 DEF Realizes
    <2>4. row \in rs /\ row.status = "pending"
      BY DEF Runnable
    <2>5. CASE row.op.kind = "domainLeave"
      <3>1. row.op = Leave(r.op.target)
        BY <2>3, <2>4, <2>5, LeaveOp
      <3>. QED BY <2>1, <2>3, <2>4, <3>1 DEF Planned, LeavesFirst
    <2>6. CASE row.op.kind = "domainJoin"
      <3>1. PICK e \in es : OpOf(e) = r.op
        BY <2>3 DEF Planned, JoinsAreDrawn
      <3>2. OpOf(e) = row.op
        BY <2>3, <2>4, <2>6, <3>1, OneJoin DEF Planned
      <3>. QED BY <2>6, <3>1, <3>2 DEF Realizes
    <2>. QED BY <2>3, <2>5, <2>6
  <1>. QED BY <1>2, <1>3

\* What a frame commits is real, and so is what was shown before.
LEMMA CommittedIsReal ==
    ASSUME NEW ns, NEW rs, NEW es, AreEdges(ns, es), NEW re, DoneIsReal(rs, re),
           \A e \in es : e.state = "realized" => OpOf(e) \in re
    PROVE  EdgesAreReal(Committed(rs, es), re)
  <1>. SUFFICES ASSUME NEW e \in Committed(rs, es), e.state = "realized"
                PROVE  OpOf(e) \in re
    BY DEF EdgesAreReal
  <1>1. PICK d \in es : /\ d \in Edges(ns) /\ OpOf(e) = OpOf(d)
                        /\ e = d \/ \E r \in rs : r.op = OpOf(d) /\ r.status = "done"
    BY CommittedEdge
  <1>2. CASE \E r \in rs : r.op = OpOf(d) /\ r.status = "done"
    <2>1. PICK r \in rs : r.op = OpOf(d) /\ r.status = "done"
      BY <1>2
    <2>2. r.op.kind # "domainLeave"
      BY <1>1, <2>1, DrawnOp
    <2>. QED BY <1>1, <2>1, <2>2 DEF DoneIsReal
  <1>. QED BY <1>1, <1>2

LEMMA SucceedEdges ==
    ASSUME NEW ns, NEW rs, Listed(ns, rs), NEW es, AreEdges(ns, es), NEW re, Planned(rs, es, re),
           EdgesAreReal(es, re), LeftIsNotShown(rs, es),
           NEW row, Runnable(rs, row), NEW next, NEW now, Realizes(re, now, row.op),
           DoneIsReal(next, now)
    PROVE  EdgesAreReal(Committed(next, es), now)
  <1>1. ASSUME NEW e \in es, e.state = "realized", OpOf(e) \notin now PROVE FALSE
    <2>1. OpOf(e) \in re
      BY <1>1 DEF EdgesAreReal
    <2>2. /\ OpOf(e).kind = "domainJoin" /\ OpOf(e).target = row.op.target
          /\ row.op.kind \in {"domainJoin", "domainLeave"}
      BY <1>1, <2>1 DEF Realizes
    <2>3. row \in rs /\ row.status = "pending" /\ e \in Edges(ns)
      BY DEF Runnable, AreEdges
    <2>4. CASE row.op.kind = "domainLeave"
      <3>1. e.kind = "domainMembership" /\ OpOf(e) = Op("domainJoin", e.source, e.target)
        BY <2>2, <2>3, DrawnOp
      <3>2. e.source = row.op.target
        BY <2>2, <3>1, OpFields
      <3>3. e.state = "planned"
        BY <2>3, <2>4, <3>1, <3>2 DEF LeftIsNotShown
      <3>. QED BY <1>1, <3>3
    <2>5. CASE row.op.kind = "domainJoin"
      <3>1. OpOf(e) = row.op
        BY <2>2, <2>3, <2>5, OneJoin DEF Planned
      <3>. QED BY <1>1, <2>5, <3>1 DEF Realizes
    <2>. QED BY <2>2, <2>4, <2>5
  <1>. QED BY <1>1, CommittedIsReal

LEMMA SucceedProvisions ==
    ASSUME NEW ns, NEW rs, Listed(ns, rs), NEW es, NEW re, Planned(rs, es, re),
           ProvisionedExists(ns, re),
           NEW row, Runnable(rs, row), NEW now, Realizes(re, now, row.op)
    PROVE  ProvisionedExists(ns, now)
  <1>. SUFFICES ASSUME NEW n \in ns, Provision(n) \in now PROVE Create(n) \in now
    BY DEF ProvisionedExists
  <1>1. Create(n) \in re
    <2>1. CASE Provision(n) \in re
      BY <2>1 DEF ProvisionedExists
    <2>2. CASE Provision(n) = row.op
      <3>1. row \in rs /\ row.op.kind = "provision" /\ row.op.target = n
        BY <2>2, NodeOps DEF Runnable
      <3>2. PICK c \in rs : c.op = Create(n)
        BY <3>1 DEF Planned, Paired, Synthesized, OpsOf
      <3>3. c.status = "done"
        BY <3>1, <3>2 DEF Runnable
      <3>4. c.op.kind # "domainLeave"
        BY <3>2, NodeOps
      <3>. QED BY <3>2, <3>3, <3>4 DEF Planned, DoneIsReal
    <2>. QED BY <2>1, <2>2 DEF Realizes
  <1>2. Create(n).kind # "domainJoin"
    BY NodeOps
  <1>. QED BY <1>1, <1>2 DEF Realizes

LEMMA SucceedLeft ==
    ASSUME NEW ns, NEW rs, Listed(ns, rs), NEW re, LeftIsReal(rs, re),
           NEW row, Runnable(rs, row), NEW f, Succeeds(f, rs, row), NEW next, Advances(f, rs, next),
           NEW now, Realizes(re, now, row.op)
    PROVE  LeftIsReal(next, now)
  <1>. SUFFICES ASSUME NEW q \in next, q.op.kind = "domainLeave", q.status # "done", q.prev # NoNode,
                       Op("domainJoin", q.op.target, q.prev) \notin now
                PROVE  FALSE
    BY DEF LeftIsReal
  <1>1. PICK r \in rs : q = f[r] /\ q.op = r.op /\ q.prev = r.prev
    BY AdvancedRow
  <1>2. row \in rs /\ row = Row(row.id, row.op, row.status, row.deps, row.prev)
    BY DEF Runnable, Listed, WellFormed
  <1>3. r # row
    <2>1. f[row] = [row EXCEPT !.status = "done"]
      BY <1>2 DEF Succeeds
    <2>2. f[row].status = "done"
      BY <1>2, <2>1, RewrittenRow, RowFields
    <2>. QED BY <1>1, <2>2
  <1>4. q = r
    BY <1>1, <1>3 DEF Succeeds
  <1>5. Op("domainJoin", r.op.target, r.prev) \in re
    BY <1>4 DEF LeftIsReal
  <1>6. /\ Op("domainJoin", r.op.target, r.prev).target = row.op.target
        /\ row.op.kind \in {"domainJoin", "domainLeave"}
    BY <1>4, <1>5 DEF Realizes
  <1>7. r.op.target = row.op.target /\ r.op = Leave(row.op.target)
    BY <1>1, <1>4, <1>6, LeaveOp, OpFields
  <1>8. CASE row.op.kind = "domainJoin"
    BY <1>4, <1>7, <1>8 DEF Runnable
  <1>9. CASE row.op.kind = "domainLeave"
    <2>1. row.op = r.op
      BY <1>2, <1>7, <1>9, LeaveOp
    <2>. QED BY <1>2, <1>3, <1>9, <2>1 DEF Listed, LeavesOnce
  <1>. QED BY <1>6, <1>8, <1>9

-----------------------------------------------------------------------------
\* Operations fail or are cancelled: nothing more is done.

\* Pending rows end, and not as done.
Ceases(f, rs) == \A r \in rs : f[r] = r \/ f[r].status \in {"error", "cancelled"}

LEMMA CeasedLeaves ==
    ASSUME NEW f, NEW rs, NEW next, LeavesFirst(rs), Advances(f, rs, next), Ceases(f, rs)
    PROVE  LeavesFirst(next)
  <1>. SUFFICES ASSUME NEW q \in next, NEW p \in next, q.op.kind = "domainJoin", q.status = "done",
                       p.op = Leave(q.op.target)
                PROVE  p.status = "done"
    BY DEF LeavesFirst
  <1>1. PICK r \in rs : q = f[r] /\ q.op = r.op
    BY AdvancedRow
  <1>2. PICK s \in rs : p = f[s] /\ p.op = s.op /\ (s.status # "pending" => p = s)
    BY AdvancedRow
  <1>3. q = r
    BY <1>1 DEF Ceases
  <1>. QED BY <1>1, <1>2, <1>3 DEF LeavesFirst

LEMMA CeasedDone ==
    ASSUME NEW f, NEW rs, NEW next, NEW re, DoneIsReal(rs, re), Advances(f, rs, next), Ceases(f, rs)
    PROVE  DoneIsReal(next, re)
  <1>. SUFFICES ASSUME NEW q \in next, q.status = "done", q.op.kind # "domainLeave"
                PROVE  q.op \in re
    BY DEF DoneIsReal
  <1>1. PICK r \in rs : q = f[r]
    BY AdvancedRow
  <1>2. q = r
    BY <1>1 DEF Ceases
  <1>. QED BY <1>2 DEF DoneIsReal

LEMMA CeasedLeft ==
    ASSUME NEW f, NEW rs, NEW next, NEW re, LeftIsReal(rs, re), Advances(f, rs, next)
    PROVE  LeftIsReal(next, re)
  <1>. SUFFICES ASSUME NEW q \in next, q.op.kind = "domainLeave", q.status # "done", q.prev # NoNode
                PROVE  Op("domainJoin", q.op.target, q.prev) \in re
    BY DEF LeftIsReal
  <1>1. PICK r \in rs : /\ q = f[r] /\ q.op = r.op /\ q.prev = r.prev
                        /\ r.status # "pending" => q = r
    BY AdvancedRow
  <1>2. r.status # "done"
    BY <1>1
  <1>. QED BY <1>1, <1>2 DEF LeftIsReal

LEMMA FailClones ==
    ASSUME NEW ns, NEW rs, Listed(ns, rs), ClonesFirst(rs), ClonesOnce(rs),
           NEW row, Runnable(rs, row), NEW gone,
           \A r \in gone : r.status = "pending" /\ (Synthesized(r) => row.op = Create(r.op.target)),
           NEW f, NEW next, Fails(f, rs, row, gone, next)
    PROVE  ClonesFirst(next)
  <1>1. row \in rs /\ row.status = "pending" /\ \A r \in gone : r.status = "pending"
    BY DEF Runnable
  <1>2. /\ Advances(f, rs, next)
        /\ f[row].status = "error"
        /\ \A r \in rs : r # row /\ r \in gone => f[r].status = "cancelled"
        /\ \A r \in rs : r # row /\ r \notin gone => f[r] = r
    BY <1>1, ListedRows, FailAdvances
  <1>. SUFFICES ASSUME NEW q \in next, Synthesized(q), NEW p \in next, p.op = Create(q.op.target)
                PROVE  \/ q.status = "pending"
                       \/ q.status \in {"done", "error"} /\ p.status = "done"
                       \/ q.status = "cancelled" /\ p.status = "error"
    BY DEF ClonesFirst
  <1>3. PICK r \in rs : q = f[r] /\ q.op = r.op
    BY <1>2, AdvancedRow
  <1>4. PICK c \in rs : p = f[c] /\ p.op = c.op /\ (c.status # "pending" => p = c)
    BY <1>2, AdvancedRow
  <1>5. CASE r = row
    <2>1. c.status = "done"
      BY <1>3, <1>4, <1>5 DEF Runnable, Synthesized
    <2>. QED BY <1>2, <1>3, <1>4, <1>5, <2>1
  <1>6. CASE r # row /\ r \in gone
    <2>1. row.op = c.op
      BY <1>3, <1>4, <1>6 DEF Synthesized
    <2>2. row.op.kind = "createVm"
      BY <1>4, <2>1, NodeOps
    <2>3. c = row
      BY <1>1, <2>1, <2>2 DEF ClonesOnce
    <2>. QED BY <1>2, <1>3, <1>4, <1>6, <2>3
  <1>7. CASE r # row /\ r \notin gone
    <2>1. q = r
      BY <1>2, <1>3, <1>7
    <2>2. \/ r.status = "pending"
          \/ r.status \in {"done", "error"} /\ c.status = "done"
          \/ r.status = "cancelled" /\ c.status = "error"
      BY <1>3, <1>4, <2>1 DEF ClonesFirst
    <2>. QED BY <1>4, <2>1, <2>2
  <1>. QED BY <1>5, <1>6, <1>7

-----------------------------------------------------------------------------
\* The lives that a frame shows.

LivesShown(ns, rs, lf) == [n \in ns |-> LifeShown(rs, n, lf[n])]

\* What exists in the lab goes on to exist.
KeepsMachines(ns, re, now) == \A n \in ns : {Create(n), Provision(n)} \cap re \subseteq now

LEMMA LifeFollows ==
    ASSUME NEW ns, NEW rs, NEW next, OpsOf(next) = OpsOf(rs),
           \A r \in next : WellFormed(ns, r),
           Paired(next), ClonesFirst(next),
           NEW re, NEW now, KeepsMachines(ns, re, now),
           DoneIsReal(next, now), ProvisionedExists(ns, now),
           NEW lf \in [ns -> Lives], LivesAreReal(ns, lf, re), Provisioning(ns, rs, lf, re, TRUE)
    PROVE  /\ LivesShown(ns, next, lf) \in [ns -> Lives]
           /\ LivesAreReal(ns, LivesShown(ns, next, lf), now)
           /\ Provisioning(ns, next, LivesShown(ns, next, lf), now, TRUE)
  <1>. DEFINE shown == LivesShown(ns, next, lf)
  <1>1. ASSUME NEW n \in ns
        PROVE  /\ shown[n] \in Lives
               /\ shown[n] \in {"provisioning", "deployed"} => Create(n) \in now
               /\ shown[n] = "deployed" => Provision(n) \in now
               /\ shown[n] = "provisioning" /\ Provision(n) \notin now => IsProvisioning(next, n)
    <2>. DEFINE clone == StatusOf(next, Create(n))
                provision == StatusOf(next, Provision(n))
    <2>1. shown[n] = IF "error" \in clone \cup provision THEN "failed"
                     ELSE IF "done" \in provision THEN RealizedLife(next, n)
                     ELSE IF "done" \in clone THEN "provisioning" ELSE lf[n]
      BY DEF LifeShown, LivesShown
    <2>2. /\ \A x : x \in clone <=> \E c \in next : c.op = Create(n) /\ c.status = x
          /\ \A x : x \in provision <=> \E r \in next : r.op = Provision(n) /\ r.status = x
      BY DEF StatusOf
    <2>3. Create(n).kind = "createVm" /\ Create(n).target = n
          /\ Provision(n).kind = "provision" /\ Provision(n).target = n
      BY NodeOps
    <2>4. "done" \in clone => Create(n) \in now
      BY <2>2, <2>3 DEF DoneIsReal
    <2>5. "done" \in provision => Provision(n) \in now /\ Create(n) \in now
      BY <2>2, <2>3 DEF DoneIsReal, ProvisionedExists
    <2>6. ASSUME Provision(n) \in OpsOf(next), "error" \notin clone \cup provision,
                 "done" \notin provision
          PROVE  IsProvisioning(next, n)
      <3>1. PICK r \in next : r.op = Provision(n)
        BY <2>6 DEF OpsOf
      <3>2. Synthesized(r) /\ r.op.target = n
        BY <2>3, <3>1 DEF Synthesized
      <3>3. PICK c \in next : c.op = Create(n)
        BY <3>2 DEF Paired, OpsOf
      <3>4. \/ r.status = "pending"
            \/ r.status \in {"done", "error"}
            \/ c.status = "error"
        BY <3>2, <3>3 DEF ClonesFirst
      <3>5. r.status \notin {"done", "error"} /\ c.status # "error"
        BY <2>2, <2>6, <3>1, <3>3
      <3>. QED BY <3>1, <3>4, <3>5 DEF IsProvisioning
    <2>. HIDE DEF clone, provision, shown
    <2>7. CASE "error" \in clone \cup provision
      <3>1. shown[n] = "failed"
        BY <2>1, <2>7
      <3>. QED BY <3>1 DEF Lives
    <2>8. CASE "error" \notin clone \cup provision /\ "done" \in provision
      <3>1. shown[n] = RealizedLife(next, n)
        BY <2>1, <2>8
      <3>2. shown[n] \in Lives
        BY <3>1 DEF RealizedLife, Lives
      <3>. QED BY <2>5, <2>8, <3>2
    <2>9. CASE "error" \notin clone \cup provision /\ "done" \notin provision /\ "done" \in clone
      <3>1. shown[n] = "provisioning"
        BY <2>1, <2>9
      <3>2. Provision(n) \in OpsOf(next)
        <4>1. PICK c \in next : c.op = Create(n)
          BY <2>2, <2>9
        <4>. QED BY <2>3, <4>1 DEF Paired
      <3>. QED BY <2>4, <2>6, <2>9, <3>1, <3>2 DEF Lives
    <2>10. CASE "error" \notin clone \cup provision /\ "done" \notin provision /\ "done" \notin clone
      <3>1. shown[n] = lf[n]
        BY <2>1, <2>10
      <3>2. ASSUME lf[n] = "provisioning", Provision(n) \notin now PROVE IsProvisioning(next, n)
        <4>1. Provision(n) \notin re
          BY <3>2 DEF KeepsMachines
        <4>2. Provision(n) \in OpsOf(rs)
          BY <3>2, <4>1 DEF Provisioning, IsProvisioning, OpsOf
        <4>. QED BY <2>6, <2>10, <4>2
      <3>. QED BY <3>1, <3>2 DEF LivesAreReal, KeepsMachines
    <2>. QED BY <2>7, <2>8, <2>9, <2>10
  <1>2. shown \in [ns -> Lives]
    BY <1>1 DEF LivesShown
  <1>. HIDE DEF shown
  <1>3. LivesAreReal(ns, shown, now) /\ Provisioning(ns, next, shown, now, TRUE)
    BY <1>1 DEF LivesAreReal, Provisioning
  <1>. QED BY <1>2, <1>3 DEF shown

-----------------------------------------------------------------------------
\* The actions.

\* What a step of the plan keeps by itself, whatever it does.
LEMMA PlannedKept ==
    ASSUME NEW ns, NEW f, NEW rs, NEW next, Advances(f, rs, next), Listed(ns, rs),
           NEW es, AreEdges(ns, es), NEW re, Planned(rs, es, re),
           NEW now, LeavesFirst(next), ClonesFirst(next), DoneIsReal(next, now)
    PROVE  Listed(ns, next) /\ Planned(next, Committed(next, es), now)
  <1>1. Listed(ns, next)
    BY CarriedListed DEF Advances
  <1>2. Paired(next) /\ ClonesOnce(next) /\ JoinsAreDrawn(next, Committed(next, es))
    BY PairedKept, ClonesOnceKept, JoinsStayDrawn DEF Planned
  <1>3. OneDomain([edges |-> Committed(next, es)]) /\ DoneIsShown(next, Committed(next, es))
    BY OneDomainKept, DoneIsCommitted DEF Planned
  <1>. QED BY <1>1, <1>2, <1>3 DEF Planned

LEMMA CommittedEdges ==
    ASSUME NEW ns, NEW rs, NEW es, AreEdges(ns, es)
    PROVE  AreEdges(ns, Committed(rs, es))
  <1>. SUFFICES ASSUME NEW e \in Committed(rs, es) PROVE e \in Edges(ns)
    BY DEF AreEdges
  <1>. QED BY CommittedEdge

\* ... and on the canvas, with a frame that shows it.
LEMMA CanvasFollows ==
    ASSUME NEW ns, NEW f, NEW rs, NEW next, Advances(f, rs, next), Listed(ns, rs),
           NEW es, NEW re, NEW lf, CanvasHolds(ns, rs, es, lf, re, TRUE),
           NEW now, Planned(next, Committed(next, es), now),
           KeepsMachines(ns, re, now),
           EdgesAreReal(Committed(next, es), now), ProvisionedExists(ns, now),
           LeftIsReal(next, now)
    PROVE  CanvasHolds(ns, next, Committed(next, es), LivesShown(ns, next, lf), now, TRUE)
  <1>. DEFINE shown == LivesShown(ns, next, lf)
  <1>1. OpsOf(next) = OpsOf(rs) /\ \A r \in next : WellFormed(ns, r)
    BY OpsKept, CarriedListed DEF Advances, Listed
  <1>2. /\ Paired(next) /\ ClonesFirst(next) /\ DoneIsReal(next, now) /\ LeavesFirst(next)
        /\ lf \in [ns -> Lives] /\ LivesAreReal(ns, lf, re) /\ Provisioning(ns, rs, lf, re, TRUE)
        /\ AreEdges(ns, es) /\ PlannedIsListed(rs, es) /\ LeftIsNotShown(rs, es)
    BY DEF Planned, CanvasHolds
  <1>3. /\ shown \in [ns -> Lives] /\ LivesAreReal(ns, shown, now)
        /\ Provisioning(ns, next, shown, now, TRUE)
    BY <1>1, <1>2, LifeFollows
  <1>4. AreEdges(ns, Committed(next, es))
    BY <1>2, CommittedEdges
  <1>5. PlannedIsListed(next, Committed(next, es)) /\ LeftIsNotShown(next, Committed(next, es))
    BY <1>2, PlannedStaysListed, LeftStaysHidden
  <1>. QED BY <1>3, <1>4, <1>5 DEF CanvasHolds

LEMMA SucceedStep ==
    ASSUME DeploysInv, ~strayed, NEW row \in rows, Succeed(row)
    PROVE  DeploysInv'
  <1>. DEFINE ns == lab.nodes
              next == (rows \ {row}) \cup {[row EXCEPT !.status = "done"]}
              f == [r \in rows |-> IF r = row THEN [r EXCEPT !.status = "done"] ELSE r]
              now == Realized(row.op)
  <1>1. Runnable(rows, row) /\ row.status = "pending"
    BY MayRunMeans DEF Succeed, Runnable
  <1>2. /\ lab \in Labs /\ Listed(ns, rows) /\ Planned(rows, edges, real) /\ deploying = TRUE
        /\ CanvasHolds(ns, rows, edges, life, real, TRUE)
    BY <1>1 DEF DeploysInv, AtRest
  <1>3. /\ rows' = next /\ edges' = Committed(next, edges) /\ real' = now
        /\ life' = LivesShown(ns, next, life)
        /\ lab' = lab /\ deploying' = deploying
    BY DEF Succeed, Shows, LivesShown
  <1>4. Succeeds(f, rows, row) /\ Realizes(real, now, row.op)
    BY RealizedMeans DEF Succeeds
  <1>5. Advances(f, rows, next)
    BY <1>1, <1>2, <1>4, ListedRows, SucceedAdvances
  <1>. HIDE DEF ns, next, f, now
  <1>6. /\ AreEdges(ns, edges) /\ EdgesAreReal(edges, real) /\ LeftIsNotShown(rows, edges)
        /\ ProvisionedExists(ns, real) /\ LeftIsReal(rows, real)
        /\ LeavesFirst(rows) /\ ClonesFirst(rows)
    BY <1>2 DEF CanvasHolds, Planned
  <1>7. LeavesFirst(next)
    BY <1>1, <1>2, <1>4, <1>5, <1>6, SucceedLeaves
  <1>8. ClonesFirst(next)
    BY <1>1, <1>2, <1>4, <1>5, <1>6, SucceedClones
  <1>9. DoneIsReal(next, now)
    BY <1>1, <1>2, <1>4, <1>5, <1>6, SucceedDone
  <1>10. EdgesAreReal(Committed(next, edges), now)
    BY <1>1, <1>2, <1>4, <1>6, <1>9, SucceedEdges
  <1>11. ProvisionedExists(ns, now)
    BY <1>1, <1>2, <1>4, <1>6, SucceedProvisions
  <1>12. LeftIsReal(next, now)
    BY <1>1, <1>2, <1>4, <1>5, <1>6, SucceedLeft
  <1>13. Listed(ns, next) /\ Planned(next, Committed(next, edges), now)
    BY <1>2, <1>5, <1>6, <1>7, <1>8, <1>9, PlannedKept
  <1>14. KeepsMachines(ns, real, now)
    BY <1>4, NodeOps DEF Realizes, KeepsMachines
  <1>15. CanvasHolds(ns, next, Committed(next, edges), LivesShown(ns, next, life), now, TRUE)
    BY <1>2, <1>5, <1>10, <1>11, <1>12, <1>13, <1>14, CanvasFollows
  <1>. QED BY <1>2, <1>3, <1>13, <1>15 DEF DeploysInv, ns

LEMMA FailStep ==
    ASSUME DeploysInv, ~strayed, NEW row \in rows, Fail(row)
    PROVE  DeploysInv'
  <1>. DEFINE ns == lab.nodes
              gone == Cascade(row)
              f == [r \in rows |-> IF r = row THEN [r EXCEPT !.status = "error"]
                                   ELSE IF r \in gone THEN [r EXCEPT !.status = "cancelled"] ELSE r]
              next == {f[r] : r \in rows}
  <1>1. Runnable(rows, row) /\ row.status = "pending"
    BY MayRunMeans DEF Fail, Runnable
  <1>2. /\ lab \in Labs /\ Listed(ns, rows) /\ Planned(rows, edges, real) /\ deploying = TRUE
        /\ CanvasHolds(ns, rows, edges, life, real, TRUE)
    BY <1>1 DEF DeploysInv, AtRest
  <1>3. /\ rows' = next /\ edges' = Committed(next, edges) /\ real' = real
        /\ life' = LivesShown(ns, next, life)
        /\ lab' = lab /\ deploying' = deploying
    <2>1. next = {IF r = row THEN [r EXCEPT !.status = "error"]
                  ELSE IF r \in gone THEN [r EXCEPT !.status = "cancelled"] ELSE r : r \in rows}
      OBVIOUS
    <2>. QED BY <2>1 DEF Fail, Shows, LivesShown
  <1>4. Fails(f, rows, row, gone, next)
    BY DEF Fails
  <1>5. \A r \in gone : r.status = "pending" /\ (Synthesized(r) => row.op = Create(r.op.target))
    BY CascadeMeans DEF Cascade
  <1>. HIDE DEF ns, next, f, gone
  <1>6. \A r \in gone : r.status = "pending"
    BY <1>5
  <1>7. /\ Advances(f, rows, next) /\ f[row].status = "error"
        /\ \A r \in rows : r # row /\ r \in gone => f[r].status = "cancelled"
        /\ \A r \in rows : r # row /\ r \notin gone => f[r] = r
    BY <1>1, <1>2, <1>4, <1>6, ListedRows, FailAdvances
  <1>8. Ceases(f, rows)
    BY <1>7 DEF Ceases
  <1>9. /\ AreEdges(ns, edges) /\ EdgesAreReal(edges, real) /\ LeftIsReal(rows, real)
        /\ LeavesFirst(rows) /\ ClonesFirst(rows) /\ ClonesOnce(rows) /\ DoneIsReal(rows, real)
        /\ ProvisionedExists(ns, real)
    BY <1>2 DEF CanvasHolds, Planned
  <1>10. LeavesFirst(next) /\ DoneIsReal(next, real) /\ LeftIsReal(next, real)
    BY <1>7, <1>8, <1>9, CeasedLeaves, CeasedDone, CeasedLeft
  <1>11. ClonesFirst(next)
    BY <1>1, <1>2, <1>4, <1>5, <1>9, FailClones
  <1>12. EdgesAreReal(Committed(next, edges), real)
    BY <1>9, <1>10, CommittedIsReal DEF EdgesAreReal
  <1>13. Listed(ns, next) /\ Planned(next, Committed(next, edges), real)
    BY <1>2, <1>7, <1>9, <1>10, <1>11, PlannedKept
  <1>14. CanvasHolds(ns, next, Committed(next, edges), LivesShown(ns, next, life), real, TRUE)
    BY <1>2, <1>7, <1>9, <1>10, <1>12, <1>13, CanvasFollows DEF KeepsMachines
  <1>. QED BY <1>2, <1>3, <1>13, <1>14 DEF DeploysInv, ns

-----------------------------------------------------------------------------
\* A plan ends, and what is left of its list goes on.

\* What is not done stays in the list; what is done may.
Settles(f, rs, next) ==
    /\ Carries(f, rs, next)
    /\ \A r \in rs : r.status # "done" /\ ~Synthesized(r) => r \in DOMAIN f
    /\ \A r \in DOMAIN f : r.status = "done" => f[r].status = "done"

LEMMA SettledRow ==
    ASSUME NEW f, NEW rs, NEW next, Settles(f, rs, next), NEW q \in next
    PROVE  \E r \in rs : /\ r \in DOMAIN f /\ q = f[r] /\ q.op = r.op /\ q.prev = r.prev
                         /\ r.status = "done" => q.status = "done"
  <1>1. PICK r \in DOMAIN f : r \in rs /\ q = f[r] /\ q.op = r.op /\ q.prev = r.prev
    BY CarriedRow DEF Settles
  <1>. QED BY <1>1 DEF Settles

LEMMA PlannedStaysSettled ==
    ASSUME NEW ns, NEW f, NEW rs, NEW next, Settles(f, rs, next),
           NEW es, AreEdges(ns, es), PlannedIsListed(rs, es), DoneIsShown(rs, es)
    PROVE  PlannedIsListed(next, es)
  <1>. SUFFICES ASSUME NEW e \in es, e.kind = "domainMembership", e.state = "planned"
                PROVE  OpOf(e) \in OpsOf(next)
    BY DEF PlannedIsListed
  <1>1. PICK r \in rs : r.op = OpOf(e)
    BY DEF PlannedIsListed, OpsOf
  <1>2. r.status # "done"
    BY <1>1 DEF DoneIsShown
  <1>3. ~Synthesized(r)
    BY <1>1, DrawnOp DEF AreEdges, Synthesized
  <1>4. r \in DOMAIN f
    BY <1>2, <1>3 DEF Settles
  <1>5. f[r] = Row(r.id, r.op, f[r].status, f[r].deps, r.prev) /\ f[r] \in next
    BY <1>4 DEF Settles, Carries
  <1>6. f[r].op = r.op
    BY <1>5, RowFields
  <1>. QED BY <1>1, <1>5, <1>6 DEF OpsOf

LEMMA LeftStaysSettled ==
    ASSUME NEW f, NEW rs, NEW next, Settles(f, rs, next), NEW es, NEW re,
           LeftIsNotShown(rs, es), LeftIsReal(rs, re)
    PROVE  LeftIsNotShown(next, es) /\ LeftIsReal(next, re)
  <1>1. LeftIsNotShown(next, es)
    <2>. SUFFICES ASSUME NEW q \in next, q.op.kind = "domainLeave", q.status # "done",
                         NEW e \in es, e.kind = "domainMembership", e.source = q.op.target
                  PROVE  e.state = "planned"
      BY DEF LeftIsNotShown
    <2>1. PICK r \in rs : q.op = r.op /\ r.status # "done"
      BY SettledRow
    <2>. QED BY <2>1 DEF LeftIsNotShown
  <1>2. LeftIsReal(next, re)
    <2>. SUFFICES ASSUME NEW q \in next, q.op.kind = "domainLeave", q.status # "done", q.prev # NoNode
                  PROVE  Op("domainJoin", q.op.target, q.prev) \in re
      BY DEF LeftIsReal
    <2>1. PICK r \in rs : q.op = r.op /\ q.prev = r.prev /\ r.status # "done"
      BY SettledRow
    <2>. QED BY <2>1 DEF LeftIsReal
  <1>. QED BY <1>1, <1>2

\* finishDeploy.
LEMMA FinishedSettles ==
    ASSUME NEW rs, AreRows(rs)
    PROVE  \E f : Settles(f, rs, Finished(rs))
  <1>. DEFINE failed == {r.id : r \in {s \in rs : Synthesized(s) /\ s.status = "error"}}
              kept == {s \in rs : s.status # "done" \/ s.id \in failed}
              f == [r \in kept |-> IF r.status = "cancelled" THEN [r EXCEPT !.status = "staged"] ELSE r]
  <1>1. Finished(rs) = {f[r] : r \in kept}
    BY DEF Finished
  <1>2. ASSUME NEW r \in kept
        PROVE  /\ f[r].status \in Statuses /\ f[r] = Row(r.id, r.op, f[r].status, f[r].deps, r.prev)
               /\ r.status = "done" => f[r].status = "done"
    <2>1. r = Row(r.id, r.op, r.status, r.deps, r.prev) /\ r.status \in Statuses
      BY DEF AreRows
    <2>2. [r EXCEPT !.status = "staged"] = Row(r.id, r.op, "staged", r.deps, r.prev)
      BY <2>1, RewrittenRow
    <2>. QED BY <2>1, <2>2 DEF Row, Statuses
  <1>3. DOMAIN f = kept /\ kept \subseteq rs
    OBVIOUS
  <1>4. \A r \in rs : r.status # "done" => r \in kept
    OBVIOUS
  <1>. HIDE DEF f, kept
  <1>. QED BY <1>1, <1>2, <1>3, <1>4 DEF Settles, Carries

LEMMA FinishedRests ==
    ASSUME NEW ns, NEW rs, Listed(ns, rs), \A r \in rs : r.status # "pending"
    PROVE  AtRest(Finished(rs))
  <1>. SUFFICES ASSUME NEW q \in Finished(rs)
                PROVE  /\ q.status # "pending"
                       /\ q.status = "done" => q.op.kind \in {"createVm", "provision"}
    BY DEF AtRest
  <1>1. PICK r \in rs : /\ q = IF r.status = "cancelled" THEN [r EXCEPT !.status = "staged"] ELSE r
                        /\ \/ r.status # "done"
                           \/ \E s \in rs : Synthesized(s) /\ r.id = s.id
    BY DEF Finished
  <1>2. [r EXCEPT !.status = "staged"].status = "staged"
    <2>1. [r EXCEPT !.status = "staged"] = Row(r.id, r.op, "staged", r.deps, r.prev)
      BY RewrittenRow DEF Listed, WellFormed
    <2>. QED BY <2>1, RowFields
  <1>3. CASE r.status = "cancelled"
    BY <1>1, <1>2, <1>3
  <1>4. CASE r.status # "cancelled" /\ r.status = "done"
    <2>1. PICK s \in rs : Synthesized(s) /\ s.id = r.id
      BY <1>1, <1>4
    <2>2. Synthesized(r) \/ r.op = Create(s.op.target)
      BY <2>1 DEF Listed, Identified
    <2>3. r.op.kind \in {"createVm", "provision"}
      BY <2>2, NodeOps DEF Synthesized
    <2>. QED BY <1>1, <1>4, <2>3
  <1>5. CASE r.status # "cancelled" /\ r.status # "done"
    BY <1>1, <1>5
  <1>. QED BY <1>3, <1>4, <1>5

LEMMA FinishStep ==
    ASSUME DeploysInv, ~strayed, Finish
    PROVE  DeploysInv'
  <1>. DEFINE ns == lab.nodes
  <1>1. /\ lab \in Labs /\ Listed(ns, rows) /\ Planned(rows, edges, real) /\ deploying = TRUE
        /\ CanvasHolds(ns, rows, edges, life, real, TRUE)
    BY DEF DeploysInv, Finish
  <1>2. /\ rows' = Finished(rows) /\ edges' = edges /\ real' = real /\ life' = life /\ lab' = lab
        /\ deploying' = FALSE /\ \A r \in rows : r.status # "pending"
    BY DEF Finish, Ends, Pending
  <1>3. PICK f : Settles(f, rows, Finished(rows))
    BY <1>1, ListedRows, FinishedSettles
  <1>4. Listed(ns, Finished(rows)) /\ AtRest(Finished(rows))
    BY <1>1, <1>2, <1>3, CarriedListed, FinishedRests DEF Settles
  <1>5. /\ AreEdges(ns, edges) /\ PlannedIsListed(rows, edges) /\ DoneIsShown(rows, edges)
        /\ LeftIsNotShown(rows, edges) /\ LeftIsReal(rows, real)
    BY <1>1 DEF CanvasHolds, Planned
  <1>6. /\ PlannedIsListed(Finished(rows), edges) /\ LeftIsNotShown(Finished(rows), edges)
        /\ LeftIsReal(Finished(rows), real)
    BY <1>3, <1>5, PlannedStaysSettled, LeftStaysSettled
  <1>7. Provisioning(ns, Finished(rows), life, real, FALSE)
    BY <1>1, <1>2 DEF CanvasHolds, Provisioning, IsProvisioning
  <1>8. CanvasHolds(ns, Finished(rows), edges, life, real, FALSE)
    BY <1>1, <1>6, <1>7 DEF CanvasHolds
  <1>. QED BY <1>1, <1>2, <1>4, <1>8 DEF DeploysInv, ns

\* An administrator stops a plan: the nodes that were being built are staged again.
LivesStopped(ns, rs, lf) ==
    [n \in ns |-> IF {Create(n), Provision(n)} \cap OpsOf(Resettable(rs)) # {} THEN "staged"
                  ELSE LifeShown(rs, n, lf[n])]

LEMMA LifeStops ==
    ASSUME NEW ns, NEW rs, NEW next, NEW re, Paired(next),
           DoneIsReal(next, re), ProvisionedExists(ns, re),
           \A n \in ns : IsProvisioning(rs, n) => Provision(n) \in OpsOf(Resettable(next)),
           NEW lf \in [ns -> Lives], LivesAreReal(ns, lf, re), Provisioning(ns, rs, lf, re, TRUE)
    PROVE  /\ LivesStopped(ns, next, lf) \in [ns -> Lives]
           /\ LivesAreReal(ns, LivesStopped(ns, next, lf), re)
           /\ Provisioning(ns, Reverted(next), LivesStopped(ns, next, lf), re, FALSE)
  <1>. DEFINE shown == LivesStopped(ns, next, lf)
  <1>1. ASSUME NEW n \in ns
        PROVE  /\ shown[n] \in Lives
               /\ shown[n] \in {"provisioning", "deployed"} => Create(n) \in re
               /\ shown[n] = "deployed" => Provision(n) \in re
               /\ shown[n] = "provisioning" => Provision(n) \in re
    <2>. DEFINE clone == StatusOf(next, Create(n))
                provision == StatusOf(next, Provision(n))
                open == {Create(n), Provision(n)} \cap OpsOf(Resettable(next))
    <2>1. shown[n] = IF open # {} THEN "staged"
                     ELSE IF "error" \in clone \cup provision THEN "failed"
                     ELSE IF "done" \in provision THEN RealizedLife(next, n)
                     ELSE IF "done" \in clone THEN "provisioning" ELSE lf[n]
      BY DEF LifeShown, LivesStopped
    <2>2. /\ \A x : x \in clone <=> \E c \in next : c.op = Create(n) /\ c.status = x
          /\ \A x : x \in provision <=> \E r \in next : r.op = Provision(n) /\ r.status = x
      BY DEF StatusOf
    <2>3. Create(n).kind = "createVm" /\ Create(n).target = n
          /\ Provision(n).kind = "provision" /\ Provision(n).target = n
      BY NodeOps
    <2>4. "done" \in provision => Provision(n) \in re /\ Create(n) \in re
      BY <2>2, <2>3 DEF DoneIsReal, ProvisionedExists
    <2>5. open = {} /\ "done" \in clone => "done" \in provision
      <3>. SUFFICES ASSUME open = {}, "done" \in clone PROVE "done" \in provision
        OBVIOUS
      <3>1. PICK r \in next : r.op = Provision(n)
        <4>1. PICK c \in next : c.op = Create(n)
          BY <2>2
        <4>. QED BY <2>3, <4>1 DEF Paired, OpsOf
      <3>2. r.status = "done"
        BY <3>1 DEF Resettable, OpsOf
      <3>. QED BY <2>2, <3>1, <3>2
    <2>6. open = {} /\ lf[n] = "provisioning" => Provision(n) \in re
      BY DEF Provisioning
    <2>. HIDE DEF clone, provision, shown, open
    <2>7. CASE open # {} \/ "error" \in clone \cup provision
      <3>1. shown[n] \in {"staged", "failed"}
        BY <2>1, <2>7
      <3>. QED BY <3>1 DEF Lives
    <2>8. CASE open = {} /\ "error" \notin clone \cup provision /\ "done" \in provision
      <3>1. shown[n] = RealizedLife(next, n)
        BY <2>1, <2>8
      <3>2. shown[n] \in Lives
        BY <3>1 DEF RealizedLife, Lives
      <3>. QED BY <2>4, <2>8, <3>2
    <2>9. CASE open = {} /\ "error" \notin clone \cup provision /\ "done" \notin provision
      <3>1. shown[n] = lf[n]
        BY <2>1, <2>5, <2>9
      <3>. QED BY <2>6, <2>9, <3>1 DEF LivesAreReal
    <2>. QED BY <2>7, <2>8, <2>9
  <1>2. shown \in [ns -> Lives]
    BY <1>1 DEF LivesStopped
  <1>. HIDE DEF shown
  <1>3. LivesAreReal(ns, shown, re) /\ Provisioning(ns, Reverted(next), shown, re, FALSE)
    BY <1>1 DEF LivesAreReal, Provisioning
  <1>. QED BY <1>2, <1>3 DEF shown

\* revertNonTerminalToStaged.
LEMMA RevertedSettles ==
    ASSUME NEW rs, AreRows(rs)
    PROVE  AtRest(Reverted(rs)) /\ \E f : Settles(f, rs, Reverted(rs))
  <1>. DEFINE kept == Sent(Resettable(rs))
              f == [r \in kept |-> [r EXCEPT !.status = "staged"]]
  <1>1. Reverted(rs) = {f[r] : r \in kept}
    BY DEF Reverted
  <1>2. ASSUME NEW r \in kept
        PROVE  f[r].status = "staged" /\ f[r] = Row(r.id, r.op, f[r].status, f[r].deps, r.prev)
    <2>1. r = Row(r.id, r.op, r.status, r.deps, r.prev)
      BY DEF AreRows, Sent, Resettable
    <2>2. [r EXCEPT !.status = "staged"] = Row(r.id, r.op, "staged", r.deps, r.prev)
      BY <2>1, RewrittenRow
    <2>. QED BY <2>2 DEF Row
  <1>3. DOMAIN f = kept /\ kept \subseteq rs
    BY DEF Sent, Resettable
  <1>4. \A r \in rs : r.status # "done" /\ ~Synthesized(r) => r \in kept
    BY DEF Sent, Resettable
  <1>5. \A r \in kept : r.status # "done"
    BY DEF Sent, Resettable
  <1>. HIDE DEF f, kept
  <1>6. AtRest(Reverted(rs))
    BY <1>1, <1>2 DEF AtRest
  <1>7. Settles(f, rs, Reverted(rs))
    BY <1>1, <1>2, <1>3, <1>4, <1>5 DEF Settles, Carries, Statuses
  <1>. QED BY <1>6, <1>7

LEMMA SkippedAdvances ==
    ASSUME AreRows(rows)
    PROVE  \E f : /\ Advances(f, rows, Skipped) /\ Ceases(f, rows)
                  /\ \A r \in rows : r.status = "pending" => f[r].status = "cancelled"
  <1>. DEFINE f == [r \in rows |-> [r EXCEPT !.status = IF r \in Pending THEN "cancelled" ELSE @]]
  <1>1. Skipped = {f[r] : r \in rows}
    BY DEF Skipped
  <1>2. ASSUME NEW r \in rows
        PROVE  /\ f[r].status \in Statuses /\ f[r] = Row(r.id, r.op, f[r].status, f[r].deps, r.prev)
               /\ r.status = "pending" => f[r].status = "cancelled"
               /\ r.status # "pending" => f[r] = r
    <2>1. r = Row(r.id, r.op, r.status, r.deps, r.prev) /\ r.status \in Statuses
      BY DEF AreRows
    <2>2. r \in Pending <=> r.status = "pending"
      BY DEF Pending
    <2>3. CASE r.status = "pending"
      <3>1. f[r] = [r EXCEPT !.status = "cancelled"]
        BY <2>2, <2>3
      <3>2. f[r] = Row(r.id, r.op, "cancelled", r.deps, r.prev)
        BY <2>1, <3>1, RewrittenRow
      <3>. HIDE DEF f
      <3>. QED BY <2>3, <3>2 DEF Row, Statuses, Finals
    <2>4. CASE r.status # "pending"
      <3>1. f[r] = [r EXCEPT !.status = r.status]
        BY <2>2, <2>4
      <3>2. f[r] = r
        BY <2>1, <3>1, RewrittenRow
      <3>. HIDE DEF f
      <3>. QED BY <2>1, <2>4, <3>2
    <2>. QED BY <2>3, <2>4
  <1>3. DOMAIN f = rows
    OBVIOUS
  <1>. HIDE DEF f
  <1>. QED BY <1>1, <1>2, <1>3 DEF Advances, Carries, Ceases

LEMMA AdminStep ==
    ASSUME DeploysInv, ~strayed, StopByAdmin
    PROVE  DeploysInv'
  <1>. DEFINE ns == lab.nodes
              shown == LivesStopped(ns, Skipped, life)
  <1>1. /\ lab \in Labs /\ Listed(ns, rows) /\ Planned(rows, edges, real) /\ deploying = TRUE
        /\ CanvasHolds(ns, rows, edges, life, real, TRUE)
    BY DEF DeploysInv, StopByAdmin
  <1>2. /\ rows' = Reverted(Skipped) /\ edges' = Committed(Skipped, edges) /\ real' = real
        /\ life' = shown /\ lab' = lab /\ deploying' = FALSE
    BY DEF StopByAdmin, Ends, LivesStopped
  <1>3. PICK f : /\ Advances(f, rows, Skipped) /\ Ceases(f, rows)
                 /\ \A r \in rows : r.status = "pending" => f[r].status = "cancelled"
    BY <1>1, ListedRows, SkippedAdvances
  <1>4. Listed(ns, Skipped)
    BY <1>1, <1>3, CarriedListed DEF Advances
  <1>5. PICK g : Settles(g, Skipped, Reverted(Skipped))
    BY <1>4, ListedRows, RevertedSettles
  <1>6. Listed(ns, Reverted(Skipped)) /\ AtRest(Reverted(Skipped))
    BY <1>4, <1>5, CarriedListed, ListedRows, RevertedSettles DEF Settles
  <1>7. /\ AreEdges(ns, edges) /\ EdgesAreReal(edges, real) /\ PlannedIsListed(rows, edges)
        /\ LeftIsNotShown(rows, edges) /\ LeftIsReal(rows, real)
        /\ Paired(rows) /\ LeavesFirst(rows) /\ DoneIsReal(rows, real) /\ ProvisionedExists(ns, real)
        /\ life \in [ns -> Lives] /\ LivesAreReal(ns, life, real)
        /\ Provisioning(ns, rows, life, real, TRUE)
    BY <1>1 DEF CanvasHolds, Planned
  <1>8. /\ LeavesFirst(Skipped) /\ DoneIsReal(Skipped, real) /\ LeftIsReal(Skipped, real)
        /\ Paired(Skipped)
    BY <1>3, <1>7, CeasedLeaves, CeasedDone, CeasedLeft, PairedKept
  <1>. DEFINE es == Committed(Skipped, edges)
  <1>9. AreEdges(ns, es) /\ DoneIsShown(Skipped, es) /\ EdgesAreReal(es, real)
    BY <1>7, <1>8, CommittedEdges, DoneIsCommitted, CommittedIsReal DEF EdgesAreReal
  <1>10. PlannedIsListed(Skipped, es) /\ LeftIsNotShown(Skipped, es)
    BY <1>1, <1>3, <1>7, <1>8, PlannedStaysListed, LeftStaysHidden
  <1>11. \A n \in ns : IsProvisioning(rows, n) => Provision(n) \in OpsOf(Resettable(Skipped))
    <2>. SUFFICES ASSUME NEW n \in ns, NEW r \in rows, r.op = Provision(n), r.status = "pending"
                  PROVE  Provision(n) \in OpsOf(Resettable(Skipped))
      BY DEF IsProvisioning
    <2>1. f[r] \in Skipped /\ f[r].op = r.op /\ f[r].status = "cancelled"
      BY <1>3, AdvancedRow
    <2>. QED BY <2>1 DEF Resettable, OpsOf
  <1>. HIDE DEF ns, shown, es
  <1>12. /\ shown \in [ns -> Lives] /\ LivesAreReal(ns, shown, real)
         /\ Provisioning(ns, Reverted(Skipped), shown, real, FALSE)
    BY <1>7, <1>8, <1>11, LifeStops DEF shown
  <1>13. /\ PlannedIsListed(Reverted(Skipped), es) /\ LeftIsNotShown(Reverted(Skipped), es)
         /\ LeftIsReal(Reverted(Skipped), real)
    BY <1>5, <1>8, <1>9, <1>10, PlannedStaysSettled, LeftStaysSettled
  <1>14. CanvasHolds(ns, Reverted(Skipped), es, shown, real, FALSE)
    BY <1>7, <1>9, <1>12, <1>13 DEF CanvasHolds
  <1>. QED BY <1>1, <1>2, <1>6, <1>14 DEF DeploysInv, ns, es

-----------------------------------------------------------------------------
\* prepareDeployPlan, and the plan that is made of what it sends.

LEMMA PreparedSettles ==
    ASSUME NEW rs, AreRows(rs), NEW status \in Statuses
    PROVE  \E f : Settles(f, rs, Prepared(rs, status)) /\ \A r \in DOMAIN f : r.status # "done"
  <1>. DEFINE kept == {r \in Resettable(rs) :
                          Synthesized(r) => \E s \in Sent(Resettable(rs)) : s.id = r.id}
              f == [r \in kept |-> Row(r.id, r.op, status, r.deps \cap {s.id : s \in kept}, r.prev)]
  <1>1. Prepared(rs, status) = {f[r] : r \in kept}
    BY DEF Prepared
  <1>2. ASSUME NEW r \in kept
        PROVE  f[r].status \in Statuses /\ f[r] = Row(r.id, r.op, f[r].status, f[r].deps, r.prev)
    BY DEF Row
  <1>3. DOMAIN f = kept /\ kept \subseteq rs /\ \A r \in kept : r.status # "done"
    BY DEF Resettable
  <1>4. \A r \in rs : r.status # "done" /\ ~Synthesized(r) => r \in kept
    BY DEF Resettable
  <1>. HIDE DEF f, kept
  <1>. QED BY <1>1, <1>2, <1>3, <1>4 DEF Settles, Carries

LEMMA PreparedRows ==
    ASSUME NEW ns, NEW rs, Listed(ns, rs), NEW status
    PROVE  /\ \A q \in Prepared(rs, status) : q.status = status
           /\ \A q \in Prepared(rs, status) : Synthesized(q) =>
                  Create(q.op.target) \in OpsOf(Prepared(rs, status))
  <1>. DEFINE kept == {r \in Resettable(rs) :
                          Synthesized(r) => \E s \in Sent(Resettable(rs)) : s.id = r.id}
              P(r) == Row(r.id, r.op, status, r.deps \cap {s.id : s \in kept}, r.prev)
  <1>1. Prepared(rs, status) = {P(r) : r \in kept}
    BY DEF Prepared
  <1>2. \A r \in kept : P(r).status = status /\ P(r).op = r.op
    BY DEF Row
  <1>. HIDE DEF P
  <1>3. ASSUME NEW q \in Prepared(rs, status), Synthesized(q)
        PROVE  Create(q.op.target) \in OpsOf(Prepared(rs, status))
    <2>1. PICK r \in kept : q = P(r)
      BY <1>1
    <2>2. r \in rs /\ Synthesized(r) /\ q.op = r.op
      BY <1>2, <1>3, <2>1 DEF Synthesized, Resettable
    <2>3. PICK s \in Sent(Resettable(rs)) : s.id = r.id
      BY <2>2
    <2>4. s \in rs /\ ~Synthesized(s) /\ s \in kept
      BY DEF Sent, Resettable
    <2>5. s.op = Create(r.op.target)
      BY <2>2, <2>3, <2>4 DEF Listed, Identified
    <2>. HIDE DEF kept
    <2>6. P(s) \in Prepared(rs, status) /\ P(s).op = s.op
      BY <1>1, <1>2, <2>4
    <2>. QED BY <2>2, <2>5, <2>6 DEF OpsOf
  <1>4. \A q \in Prepared(rs, status) : q.status = status
    BY <1>1, <1>2
  <1>. QED BY <1>3, <1>4

\* What the compiler says of a plan that it accepts.
LEMMA AcceptedMeans ==
    ASSUME NEW rs, Accepted(rs), AreEdges(lab.nodes, edges)
    PROVE  /\ OneDomain([edges |-> edges])
           /\ ClonesOnce(rs)
           /\ JoinsAreDrawn(rs, edges)
  <1>1. /\ Valid(Topology) /\ Matches(Topology, {r.op : r \in Sent(rs)})
        /\ \A r, s \in Sent(rs) : r.op = s.op => r = s
    BY DEF Accepted, Compiles
  <1>2. OneDomain([edges |-> edges])
    <2>1. OneDomain(Topology)
      BY <1>1 DEF Valid
    <2>2. Memberships(Topology) = Memberships([edges |-> edges])
      BY DEF Memberships, Topology
    <2>. QED BY <2>1, <2>2 DEF OneDomain
  <1>3. ClonesOnce(rs)
    BY <1>1 DEF ClonesOnce, Sent, Synthesized
  <1>4. JoinsAreDrawn(rs, edges)
    <2>. SUFFICES ASSUME NEW r \in rs, r.op.kind = "domainJoin"
                  PROVE  \E e \in edges : OpOf(e) = r.op
      BY DEF JoinsAreDrawn
    <2>1. r.op \in {Create(n) : n \in Topology.nodes} \cup {Leave(n) : n \in Topology.nodes}
                     \cup EdgeOps(Topology)
      BY <1>1 DEF Matches, Sent, Synthesized
    <2>2. r.op \in EdgeOps(Topology)
      BY <2>1, NodeOps
    <2>. QED BY <2>2 DEF EdgeOps, Topology
  <1>. QED BY <1>2, <1>3, <1>4

\* What holds of a list holds with the provision rows beside it.
LEMMA CanvasMirrored ==
    ASSUME NEW ns, NEW rs, Listed(ns, rs), NEW es, NEW lf, NEW re,
           CanvasHolds(ns, rs, es, lf, re, FALSE)
    PROVE  CanvasHolds(ns, rs \cup Mirrors(rs), es, lf, re, TRUE)
  <1>1. \A m \in Mirrors(rs) : Synthesized(m)
    BY MirrorRow DEF Listed
  <1>2. Provisioning(ns, rs \cup Mirrors(rs), lf, re, TRUE)
    BY DEF CanvasHolds, Provisioning
  <1>3. PlannedIsListed(rs \cup Mirrors(rs), es)
    BY DEF CanvasHolds, PlannedIsListed, OpsOf
  <1>4. LeftIsNotShown(rs \cup Mirrors(rs), es) /\ LeftIsReal(rs \cup Mirrors(rs), re)
    BY <1>1 DEF CanvasHolds, LeftIsNotShown, LeftIsReal, Synthesized
  <1>. QED BY <1>2, <1>3, <1>4 DEF CanvasHolds

LEMMA MirroredPlan ==
    ASSUME NEW ns, NEW rs, Listed(ns, rs), NEW es, AreEdges(ns, es), NEW re,
           \A r \in rs : r.status = "pending",
           \A r \in rs : Synthesized(r) => Create(r.op.target) \in OpsOf(rs),
           OneDomain([edges |-> es]), ClonesOnce(rs), JoinsAreDrawn(rs, es)
    PROVE  Planned(rs \cup Mirrors(rs), es, re)
  <1>. DEFINE next == rs \cup Mirrors(rs)
  <1>0. \A r \in rs : WellFormed(ns, r)
    BY DEF Listed
  <1>1. \A m \in Mirrors(rs) : /\ Synthesized(m) /\ m.status = "pending"
                               /\ \E c \in rs : c.op = Create(m.op.target)
    BY <1>0, MirrorRow
  <1>2. \A r \in next : r.status = "pending"
    BY <1>1
  <1>3. Paired(next)
    <2>. SUFFICES ASSUME NEW r \in next
                  PROVE  /\ r.op.kind = "createVm" => Provision(r.op.target) \in OpsOf(next)
                         /\ Synthesized(r) => Create(r.op.target) \in OpsOf(next)
      BY DEF Paired
    <2>1. ASSUME r.op.kind = "createVm" PROVE Provision(r.op.target) \in OpsOf(next)
      <3>1. r \in rs
        BY <1>1, <2>1 DEF Synthesized
      <3>2. Row(r.id, Provision(r.op.target), "pending", {r.id}, NoNode) \in Mirrors(rs)
        BY <2>1, <3>1 DEF Mirrors
      <3>3. Row(r.id, Provision(r.op.target), "pending", {r.id}, NoNode).op = Provision(r.op.target)
        BY RowFields
      <3>. QED BY <3>2, <3>3 DEF OpsOf
    <2>2. ASSUME Synthesized(r) PROVE Create(r.op.target) \in OpsOf(next)
      BY <1>1, <2>2 DEF OpsOf
    <2>. QED BY <2>1, <2>2
  <1>4. ClonesOnce(next) /\ JoinsAreDrawn(next, es)
    BY <1>1 DEF ClonesOnce, JoinsAreDrawn, Synthesized
  <1>. HIDE DEF next
  <1>5. LeavesFirst(next) /\ ClonesFirst(next) /\ DoneIsReal(next, re) /\ DoneIsShown(next, es)
    BY <1>2 DEF LeavesFirst, ClonesFirst, DoneIsReal, DoneIsShown
  <1>. QED BY <1>3, <1>4, <1>5 DEF Planned, next

\* No plan, no provision row that is awaited.
LEMMA CanvasRests ==
    ASSUME NEW running, ~running, NEW ns, NEW rs, NEW es, NEW lf, NEW re
    PROVE  CanvasHolds(ns, rs, es, lf, re, running) <=> CanvasHolds(ns, rs, es, lf, re, FALSE)
  BY DEF CanvasHolds, Provisioning

\* A list that is made ready for a deploy, or refused.
LEMMA PreparedCanvas ==
    ASSUME DeploysInv, ~strayed, ~deploying, NEW status \in {"pending", "staged"}
    PROVE  /\ Listed(lab.nodes, Prepared(rows, status))
           /\ CanvasHolds(lab.nodes, Prepared(rows, status), edges, life, real, FALSE)
           /\ \A r \in Prepared(rows, status) : r.status = status
  <1>. DEFINE ns == lab.nodes
  <1>1. /\ Listed(ns, rows) /\ AtRest(rows)
        /\ CanvasHolds(ns, rows, edges, life, real, FALSE)
    BY CanvasRests DEF DeploysInv
  <1>2. PICK f : Settles(f, rows, Prepared(rows, status)) /\ \A r \in DOMAIN f : r.status # "done"
    BY <1>1, ListedRows, PreparedSettles DEF Statuses
  <1>3. Listed(ns, Prepared(rows, status))
    BY <1>1, <1>2, CarriedListed DEF Settles
  <1>4. DoneIsShown(rows, edges)
    <2>. SUFFICES ASSUME NEW r \in rows, NEW e \in edges, r.status = "done", OpOf(e) = r.op
                  PROVE  FALSE
      BY DEF DoneIsShown
    <2>1. r.op.kind \in {"createVm", "provision"}
      BY <1>1 DEF AtRest
    <2>2. e \in Edges(ns)
      BY <1>1 DEF CanvasHolds, AreEdges
    <2>. QED BY <2>1, <2>2, DrawnOp
  <1>5. PlannedIsListed(Prepared(rows, status), edges)
    BY <1>1, <1>2, <1>4, PlannedStaysSettled DEF CanvasHolds
  <1>6. LeftIsNotShown(Prepared(rows, status), edges) /\ LeftIsReal(Prepared(rows, status), real)
    BY <1>1, <1>2, LeftStaysSettled DEF CanvasHolds
  <1>7. Provisioning(ns, Prepared(rows, status), life, real, FALSE)
    BY <1>1 DEF CanvasHolds, Provisioning
  <1>8. \A r \in Prepared(rows, status) : r.status = status
    BY <1>1, PreparedRows
  <1>. QED BY <1>1, <1>3, <1>5, <1>6, <1>7, <1>8 DEF CanvasHolds

LEMMA DeployStep ==
    ASSUME DeploysInv, ~strayed, Deploy
    PROVE  DeploysInv'
  <1>. DEFINE ns == lab.nodes
  <1>1. /\ lab \in Labs /\ Listed(ns, rows) /\ AtRest(rows) /\ ~deploying
        /\ CanvasHolds(ns, rows, edges, life, real, FALSE)
    BY CanvasRests DEF DeploysInv, Deploy
  <1>2. edges' = edges /\ real' = real /\ life' = life /\ lab' = lab
    BY DEF Deploy
  <1>3. ASSUME NEW status \in {"pending", "staged"}
        PROVE  /\ Listed(ns, Prepared(rows, status))
               /\ CanvasHolds(ns, Prepared(rows, status), edges, life, real, FALSE)
               /\ \A r \in Prepared(rows, status) : r.status = status
    BY <1>1, PreparedCanvas
  <1>4. CASE Accepted(Prepared(rows, "pending"))
    <2>. DEFINE sent == Prepared(rows, "pending")
    <2>1. rows' = sent \cup Mirrors(sent) /\ deploying' = TRUE
      BY <1>4 DEF Deploy
    <2>2. \A r \in sent : Synthesized(r) => Create(r.op.target) \in OpsOf(sent)
      BY <1>1, PreparedRows
    <2>3. AreEdges(ns, edges)
      BY <1>1 DEF CanvasHolds
    <2>4. OneDomain([edges |-> edges]) /\ ClonesOnce(sent) /\ JoinsAreDrawn(sent, edges)
      BY <1>4, <2>3, AcceptedMeans
    <2>5. /\ Listed(ns, sent) /\ \A r \in sent : r.status = "pending"
          /\ CanvasHolds(ns, sent, edges, life, real, FALSE)
      BY <1>3
    <2>. HIDE DEF sent, ns
    <2>6. Planned(sent \cup Mirrors(sent), edges, real)
      BY <2>2, <2>3, <2>4, <2>5, MirroredPlan
    <2>7. Listed(ns, sent \cup Mirrors(sent))
      BY <2>5, MirroredListed
    <2>8. CanvasHolds(ns, sent \cup Mirrors(sent), edges, life, real, TRUE)
      BY <2>5, CanvasMirrored
    <2>. QED BY <1>1, <1>2, <2>1, <2>6, <2>7, <2>8 DEF DeploysInv, ns
  <1>5. CASE ~Accepted(Prepared(rows, "pending"))
    <2>1. rows' = Prepared(rows, "staged") /\ ~deploying'
      BY <1>1, <1>5 DEF Deploy
    <2>2. AtRest(Prepared(rows, "staged"))
      BY <1>3 DEF AtRest
    <2>3. /\ Listed(ns, Prepared(rows, "staged"))
          /\ CanvasHolds(ns, Prepared(rows, "staged"), edges, life, real, FALSE)
      BY <1>3
    <2>4. CanvasHolds(ns, Prepared(rows, "staged"), edges, life, real, deploying')
      BY <2>1, <2>3, CanvasRests
    <2>. QED BY <1>1, <1>2, <2>1, <2>2, <2>3, <2>4 DEF DeploysInv
  <1>. QED BY <1>4, <1>5


-----------------------------------------------------------------------------
\* The operator edits a list at rest.

LEMMA StagedRow ==
    ASSUME NEW rs, NEW op, NEW prev
    PROVE  \E new : /\ Staging(rs, op, prev) = rs \cup {new}
                    /\ new.op = op /\ new.status = "staged" /\ new.prev = prev
  <1>1. Staging(rs, op, prev) = rs \cup {Row(NextId(rs), op, "staged", Inferred(op, rs), prev)}
    BY DEF Staging
  <1>. QED BY <1>1, RowFields

\* What a node shows is what it showed, or that it is still to be built.
LEMMA LivesEdited ==
    ASSUME NEW ns, NEW rs, NEW next, NEW es, NEW re, NEW lf,
           CanvasHolds(ns, rs, es, lf, re, FALSE), NEW shown \in [ns -> Lives],
           \A n \in ns : shown[n] = lf[n] \/ shown[n] \in {"draft", "staged"}
    PROVE  LivesAreReal(ns, shown, re) /\ Provisioning(ns, next, shown, re, FALSE)
  BY DEF CanvasHolds, LivesAreReal, Provisioning

\* The rest of the canvas, at rest.
EditedHolds(ns, rs, es, re) ==
    /\ Listed(ns, rs) /\ AtRest(rs)
    /\ AreEdges(ns, es) /\ EdgesAreReal(es, re)
    /\ PlannedIsListed(rs, es) /\ LeftIsNotShown(rs, es) /\ LeftIsReal(rs, re)

\* An operation is staged that moves no machine out of its domain.
LEMMA StagedEdit ==
    ASSUME NEW ns, NEW rs, NEW es, NEW re, EditedHolds(ns, rs, es, re),
           NEW op, NEW prev, Stageable(ns, op, prev), op.kind # "domainLeave"
    PROVE  EditedHolds(ns, Staging(rs, op, prev), es, re)
  <1>1. PICK new : /\ Staging(rs, op, prev) = rs \cup {new}
                   /\ new.op = op /\ new.status = "staged" /\ new.prev = prev
    BY StagedRow
  <1>2. Listed(ns, Staging(rs, op, prev))
    BY StagedListed DEF EditedHolds
  <1>3. AtRest(rs \cup {new})
    BY <1>1 DEF EditedHolds, AtRest
  <1>4. PlannedIsListed(rs \cup {new}, es)
    BY DEF EditedHolds, PlannedIsListed, OpsOf
  <1>5. LeftIsNotShown(rs \cup {new}, es) /\ LeftIsReal(rs \cup {new}, re)
    BY <1>1 DEF EditedHolds, LeftIsNotShown, LeftIsReal
  <1>. QED BY <1>1, <1>2, <1>3, <1>4, <1>5 DEF EditedHolds

\* A relationship is drawn that is not yet realized, and is listed if it is a membership.
LEMMA DrawnEdit ==
    ASSUME NEW ns, NEW rs, NEW es, NEW re, EditedHolds(ns, rs, es, re),
           NEW e \in Edges(ns), e.state = "planned",
           e.kind = "domainMembership" => OpOf(e) \in OpsOf(rs)
    PROVE  EditedHolds(ns, rs, es \cup {e}, re)
  BY DEF EditedHolds, AreEdges, EdgesAreReal, PlannedIsListed, LeftIsNotShown

\* An edit that keeps all this keeps the invariant.
LEMMA EditStep ==
    ASSUME DeploysInv, ~strayed, MayEdit, lab \in Labs =>
           /\ EditedHolds(lab.nodes, rows', edges', real)
           /\ life' \in [lab.nodes -> Lives]
           /\ \A n \in lab.nodes : life'[n] = life[n] \/ life'[n] \in {"draft", "staged"}
    PROVE  DeploysInv'
  <1>. DEFINE ns == lab.nodes
  <1>1. /\ lab \in Labs /\ ~deploying /\ CanvasHolds(ns, rows, edges, life, real, FALSE)
    BY CanvasRests DEF DeploysInv, MayEdit
  <1>2. lab' = lab /\ real' = real /\ deploying' = deploying
    BY DEF MayEdit
  <1>3. EditedHolds(ns, rows', edges', real)
    BY <1>1
  <1>4. LivesAreReal(ns, life', real) /\ Provisioning(ns, rows', life', real, FALSE)
    BY <1>1, LivesEdited
  <1>5. CanvasHolds(ns, rows', edges', life', real, FALSE)
    BY <1>1, <1>3, <1>4 DEF CanvasHolds, EditedHolds
  <1>6. CanvasHolds(ns, rows', edges', life', real, deploying)
    BY <1>1, <1>5, CanvasRests
  <1>. QED BY <1>1, <1>2, <1>3, <1>6 DEF DeploysInv, EditedHolds

\* The canvas and the list that an edit finds.
LEMMA Editable ==
    ASSUME DeploysInv, ~strayed, MayEdit
    PROVE  /\ lab \in Labs /\ EditedHolds(lab.nodes, rows, edges, real)
           /\ life \in [lab.nodes -> Lives]
  BY DEF DeploysInv, MayEdit, CanvasHolds, EditedHolds

LEMMA ConfigureStep ==
    ASSUME DeploysInv, ~strayed', NEW n \in lab.nodes, Configure(n)
    PROVE  DeploysInv'
  <1>1. MayEdit /\ ~strayed
    BY DEF Configure
  <1>2. /\ rows' = Staging(rows, Create(n), NoNode) /\ edges' = edges
        /\ life' = [life EXCEPT ![n] = "staged"]
    BY DEF Configure
  <1>3. EditedHolds(lab.nodes, rows, edges, real) /\ life \in [lab.nodes -> Lives]
    BY <1>1, Editable
  <1>4. Stageable(lab.nodes, Create(n), NoNode) /\ Create(n).kind # "domainLeave"
    BY NodeOps DEF Stageable, Create, Op, OpKinds
  <1>5. EditedHolds(lab.nodes, Staging(rows, Create(n), NoNode), edges, real)
    BY <1>3, <1>4, StagedEdit
  <1>6. /\ life' \in [lab.nodes -> Lives]
        /\ \A m \in lab.nodes : life'[m] = life[m] \/ life'[m] \in {"draft", "staged"}
    BY <1>2, <1>3 DEF Lives
  <1>. QED BY <1>1, <1>2, <1>5, <1>6, EditStep

LEMMA ConnectStep ==
    ASSUME DeploysInv, ~strayed', NEW e \in Edges(lab.nodes), Connect(e)
    PROVE  DeploysInv'
  <1>1. MayEdit /\ ~strayed
    BY DEF Connect
  <1>2. /\ edges' = edges \cup {e} /\ life' = life
        /\ rows' = rows \/ rows' = Staging(rows, OpOf(e), NoNode)
        /\ e.kind # "domainMembership" /\ e.state = "planned"
    BY DEF Connect
  <1>3. EditedHolds(lab.nodes, rows, edges, real) /\ life \in [lab.nodes -> Lives]
    BY <1>1, Editable
  <1>4. Stageable(lab.nodes, OpOf(e), NoNode) /\ OpOf(e).kind # "domainLeave"
    BY DrawnOp DEF Stageable, OpKinds
  <1>5. EditedHolds(lab.nodes, rows', edges, real)
    BY <1>2, <1>3, <1>4, StagedEdit
  <1>6. EditedHolds(lab.nodes, rows', edges', real)
    BY <1>2, <1>5, DrawnEdit
  <1>. QED BY <1>1, <1>2, <1>3, <1>6, EditStep


\* An edge is left by what is undone, or shows again the domain that a machine was moved from.
LEMMA UndoneEdge ==
    ASSUME NEW gone, NEW es, NEW e \in Undone(gone, es)
    PROVE  \/ e \in es /\ \A r \in gone : OpOf(e) # r.op
           \/ \E r \in gone : r.prev # NoNode /\ e = MemberEdge(r.op.target, r.prev, "realized")
  BY DEF Undone

\* Rows are undone, none of them a join that moved its machine.
LEMMA UndoneEdit ==
    ASSUME NEW ns, NEW rs, NEW es, NEW re, EditedHolds(ns, rs, es, re),
           NEW gone, gone \subseteq rs, ~UndoesRetarget(gone)
    PROVE  EditedHolds(ns, rs \ gone, Undone(gone, es), re)
  <1>1. ASSUME NEW e \in Undone(gone, es)
        PROVE  \/ e \in es /\ \A r \in gone : OpOf(e) # r.op
               \/ \E r \in gone : /\ r.op.kind = "domainLeave" /\ r.prev \in ns /\ r.prev # NoNode
                                  /\ e = MemberEdge(r.op.target, r.prev, "realized")
    <2>1. CASE \E r \in gone : r.prev # NoNode /\ e = MemberEdge(r.op.target, r.prev, "realized")
      <3>1. PICK r \in gone : r.prev # NoNode /\ e = MemberEdge(r.op.target, r.prev, "realized")
        BY <2>1
      <3>2. r.prev \in ns /\ r.op.kind \in {"domainJoin", "domainLeave"}
        BY <3>1 DEF EditedHolds, Listed, WellFormed
      <3>3. r.op.kind # "domainJoin"
        BY <3>1 DEF UndoesRetarget
      <3>. QED BY <3>1, <3>2, <3>3
    <2>. QED BY <1>1, <2>1, UndoneEdge
  <1>2. Listed(ns, rs \ gone) /\ AtRest(rs \ gone) /\ LeftIsReal(rs \ gone, re)
    BY FewerListed DEF EditedHolds, AtRest, LeftIsReal
  <1>3. ASSUME NEW e \in Undone(gone, es) PROVE e \in Edges(ns)
    <2>1. CASE e \in es
      BY <2>1 DEF EditedHolds, AreEdges
    <2>2. CASE \E r \in gone : r.prev \in ns /\ e = MemberEdge(r.op.target, r.prev, "realized")
      <3>1. PICK r \in gone : r.prev \in ns /\ e = MemberEdge(r.op.target, r.prev, "realized")
        BY <2>2
      <3>2. r.op.target \in ns
        BY DEF EditedHolds, Listed, WellFormed
      <3>. QED BY <3>1, <3>2 DEF MemberEdge, Link, Edges, EdgeKinds
    <2>. QED BY <1>1, <2>1, <2>2
  <1>4. ASSUME NEW e \in Undone(gone, es), e.state = "realized" PROVE OpOf(e) \in re
    <2>1. CASE e \in es
      BY <1>4, <2>1 DEF EditedHolds, EdgesAreReal
    <2>2. CASE \E r \in gone : /\ r.op.kind = "domainLeave" /\ r.prev # NoNode
                               /\ e = MemberEdge(r.op.target, r.prev, "realized")
      <3>1. PICK r \in gone : /\ r.op.kind = "domainLeave" /\ r.prev # NoNode
                              /\ e = MemberEdge(r.op.target, r.prev, "realized")
        BY <2>2
      <3>2. OpOf(e) = Op("domainJoin", r.op.target, r.prev)
        BY <3>1, MemberLink
      <3>3. r.status # "done"
        BY <3>1 DEF EditedHolds, AtRest
      <3>. QED BY <3>1, <3>2, <3>3 DEF EditedHolds, LeftIsReal
    <2>. QED BY <1>1, <2>1, <2>2
  <1>5. ASSUME NEW e \in Undone(gone, es), e.kind = "domainMembership", e.state = "planned"
        PROVE  OpOf(e) \in OpsOf(rs \ gone)
    <2>1. e \in es /\ \A r \in gone : OpOf(e) # r.op
      BY <1>1, <1>5, MemberLink
    <2>2. PICK r \in rs : r.op = OpOf(e)
      BY <1>5, <2>1 DEF EditedHolds, PlannedIsListed, OpsOf
    <2>. QED BY <2>1, <2>2 DEF OpsOf
  <1>6. ASSUME NEW q \in rs \ gone, NEW e \in Undone(gone, es),
               q.op.kind = "domainLeave", q.status # "done",
               e.kind = "domainMembership", e.source = q.op.target
        PROVE  e.state = "planned"
    <2>1. CASE e \in es
      BY <1>6, <2>1 DEF EditedHolds, LeftIsNotShown
    <2>2. CASE \E r \in gone : /\ r.op.kind = "domainLeave"
                               /\ e = MemberEdge(r.op.target, r.prev, "realized")
      <3>1. PICK r \in gone : /\ r.op.kind = "domainLeave"
                              /\ e = MemberEdge(r.op.target, r.prev, "realized")
        BY <2>2
      <3>2. r.op.target = q.op.target
        BY <1>6, <3>1, MemberLink
      <3>3. Listed(ns, rs)
        BY DEF EditedHolds
      <3>4. r.op = Leave(r.op.target) /\ q.op = Leave(q.op.target)
        BY <1>6, <3>1, <3>3, LeaveOp
      <3>. QED BY <1>6, <3>1, <3>2, <3>3, <3>4 DEF Listed, LeavesOnce
    <2>. QED BY <1>1, <2>1, <2>2
  <1>. QED BY <1>2, <1>3, <1>4, <1>5, <1>6
       DEF EditedHolds, AreEdges, EdgesAreReal, PlannedIsListed, LeftIsNotShown

LEMMA RemoveStep ==
    ASSUME DeploysInv, ~strayed', NEW row \in rows, Remove(row)
    PROVE  DeploysInv'
  <1>. DEFINE gone == {row} \cup Dependents(rows, row)
  <1>1. MayEdit /\ ~strayed /\ ~UndoesRetarget(gone)
    BY DEF Remove
  <1>2. /\ rows' = rows \ gone /\ edges' = Undone(gone, edges)
        /\ life' = [n \in lab.nodes |-> IF Create(n) \in OpsOf(gone) THEN "draft" ELSE life[n]]
    BY DEF Remove
  <1>3. gone \subseteq rows
    BY DEF Dependents, Directly
  <1>. HIDE DEF gone
  <1>4. EditedHolds(lab.nodes, rows, edges, real) /\ life \in [lab.nodes -> Lives]
    BY <1>1, Editable
  <1>5. EditedHolds(lab.nodes, rows \ gone, Undone(gone, edges), real)
    BY <1>1, <1>3, <1>4, UndoneEdit
  <1>6. /\ life' \in [lab.nodes -> Lives]
        /\ \A n \in lab.nodes : life'[n] = life[n] \/ life'[n] \in {"draft", "staged"}
    BY <1>2, <1>4 DEF Lives
  <1>. QED BY <1>1, <1>2, <1>5, <1>6, EditStep

\* The agent of a clone is seen when nothing of it is awaited.
LEMMA PromoteStep ==
    ASSUME DeploysInv, ~strayed, NEW n \in lab.nodes, Promote(n)
    PROVE  DeploysInv'
  <1>. DEFINE ns == lab.nodes
  <1>1. /\ life[n] = "provisioning" /\ Create(n) \in real /\ ~Awaiting(rows, n)
        /\ life' = [life EXCEPT ![n] = "deployed"]
        /\ UNCHANGED <<lab, edges, rows, deploying, real, strayed>>
    BY DEF Promote
  <1>2. CanvasHolds(ns, rows, edges, life, real, deploying)
    BY DEF DeploysInv
  <1>3. ~IsProvisioning(rows, n)
    BY <1>1 DEF IsProvisioning, Awaiting
  <1>4. Provision(n) \in real
    BY <1>1, <1>2, <1>3 DEF CanvasHolds, Provisioning
  <1>5. life' \in [ns -> Lives] /\ \A m \in ns : life'[m] = IF m = n THEN "deployed" ELSE life[m]
    BY <1>1, <1>2 DEF CanvasHolds, Lives
  <1>6. LivesAreReal(ns, life', real) /\ Provisioning(ns, rows, life', real, deploying)
    BY <1>1, <1>2, <1>4, <1>5 DEF CanvasHolds, LivesAreReal, Provisioning
  <1>7. CanvasHolds(ns, rows, edges, life', real, deploying)
    BY <1>2, <1>5, <1>6 DEF CanvasHolds
  <1>. QED BY <1>1, <1>7 DEF DeploysInv


\* A machine is moved: what it was to join is undone, and nothing of it is drawn.
LEMMA RetargetEdges ==
    ASSUME NEW ns, NEW rs, NEW es, NEW re, EditedHolds(ns, rs, es, re), NEW n,
           NEW joins, joins = {r \in rs : r.op.kind = "domainJoin" /\ r.op.target = n},
           ~UndoesRetarget(joins),
           NEW left, left = Undone(joins, {e \in es : ~(e.kind = "domainMembership" /\ e.source = n)})
    PROVE  /\ EditedHolds(ns, rs \ joins, left, re)
           /\ \A e \in left : ~(e.kind = "domainMembership" /\ e.source = n)
  <1>1. ASSUME NEW e \in left
        PROVE  e \in es /\ ~(e.kind = "domainMembership" /\ e.source = n)
    <2>1. ~\E r \in joins : r.prev # NoNode
      BY DEF UndoesRetarget
    <2>. QED BY <2>1, UndoneEdge
  <1>2. joins \subseteq rs
    OBVIOUS
  <1>3. Listed(ns, rs \ joins) /\ AtRest(rs \ joins) /\ LeftIsReal(rs \ joins, re)
    BY <1>2, FewerListed DEF EditedHolds, AtRest, LeftIsReal
  <1>4. PlannedIsListed(rs \ joins, left)
    <2>. SUFFICES ASSUME NEW e \in left, e.kind = "domainMembership", e.state = "planned"
                  PROVE  OpOf(e) \in OpsOf(rs \ joins)
      BY DEF PlannedIsListed
    <2>1. e \in es /\ e.source # n
      BY <1>1
    <2>2. PICK r \in rs : r.op = OpOf(e)
      BY <2>1 DEF EditedHolds, PlannedIsListed, OpsOf
    <2>3. e \in Edges(ns)
      BY <2>1 DEF EditedHolds, AreEdges
    <2>4. OpOf(e) = Op("domainJoin", e.source, e.target)
      BY <2>3, DrawnOp
    <2>5. r.op.target # n
      BY <2>1, <2>2, <2>4, OpFields
    <2>. QED BY <2>2, <2>5 DEF OpsOf
  <1>5. /\ AreEdges(ns, left) /\ EdgesAreReal(left, re) /\ LeftIsNotShown(rs \ joins, left)
    BY <1>1, <1>2 DEF EditedHolds, AreEdges, EdgesAreReal, LeftIsNotShown
  <1>. QED BY <1>1, <1>3, <1>4, <1>5 DEF EditedHolds

\* The domain that a machine is moved from, when nothing in the list would join it
\* to one: it is in that domain, and does not leave it yet.
LEMMA MovedFrom ==
    ASSUME NEW ns, NEW rs, NEW es, NEW re, EditedHolds(ns, rs, es, re), NEW n,
           {r \in rs : r.op.kind = "domainJoin" /\ r.op.target = n} = {},
           NEW e \in es, e.kind = "domainMembership", e.source = n
    PROVE  /\ Leave(n) \notin OpsOf(rs)
           /\ Op("domainJoin", n, e.target) \in re
  <1>1. e \in Edges(ns)
    BY DEF EditedHolds, AreEdges
  <1>2. OpOf(e) = Op("domainJoin", n, e.target)
    BY <1>1, DrawnOp
  <1>3. e.state = "realized"
    <2>. SUFFICES ASSUME e.state = "planned" PROVE FALSE
      BY <1>1, DrawnOp
    <2>1. PICK r \in rs : r.op = OpOf(e)
      BY DEF EditedHolds, PlannedIsListed, OpsOf
    <2>. QED BY <1>2, <2>1, OpFields
  <1>4. Leave(n) \notin OpsOf(rs)
    <2>. SUFFICES ASSUME NEW q \in rs, q.op = Leave(n) PROVE FALSE
      BY DEF OpsOf
    <2>1. q.op.kind = "domainLeave" /\ q.op.target = n
      BY NodeOps
    <2>2. q.status # "done"
      BY <2>1 DEF EditedHolds, AtRest
    <2>. QED BY <1>3, <2>1, <2>2 DEF EditedHolds, LeftIsNotShown
  <1>. QED BY <1>2, <1>3, <1>4 DEF EditedHolds, EdgesAreReal

\* It is to leave that domain.
LEMMA LeaveEdit ==
    ASSUME NEW ns, NEW rs, NEW es, NEW re, EditedHolds(ns, rs, es, re),
           NEW n \in ns, NEW prev \in ns, Leave(n) \notin OpsOf(rs),
           Op("domainJoin", n, prev) \in re,
           \A e \in es : ~(e.kind = "domainMembership" /\ e.source = n)
    PROVE  EditedHolds(ns, Staging(rs, Leave(n), prev), es, re)
  <1>. DEFINE op == Leave(n)
  <1>. HIDE DEF op
  <1>1. PICK new : /\ Staging(rs, op, prev) = rs \cup {new}
                   /\ new.op = op /\ new.status = "staged" /\ new.prev = prev
    BY StagedRow
  <1>2. Stageable(ns, Leave(n), prev)
    BY NodeOps DEF Stageable, Leave, Op, OpKinds
  <1>3. Listed(ns, Staging(rs, Leave(n), prev))
    BY <1>2, StagedListed DEF EditedHolds
  <1>4. new.op.kind = "domainLeave" /\ new.op.target = n
    BY <1>1, NodeOps DEF op
  <1>5. AtRest(rs \cup {new})
    BY <1>1 DEF EditedHolds, AtRest
  <1>6. LeftIsNotShown(rs \cup {new}, es) /\ LeftIsReal(rs \cup {new}, re)
    BY <1>1, <1>4 DEF EditedHolds, LeftIsNotShown, LeftIsReal
  <1>7. PlannedIsListed(rs \cup {new}, es)
    BY DEF EditedHolds, PlannedIsListed, OpsOf
  <1>. QED BY <1>1, <1>3, <1>5, <1>6, <1>7 DEF EditedHolds, op

LEMMA RetargetStep ==
    ASSUME DeploysInv, ~strayed', NEW n \in lab.nodes, NEW dc \in lab.nodes \cup {NoNode},
           Retarget(n, dc)
    PROVE  DeploysInv'
  <1>. DEFINE ns == lab.nodes
              joins == {r \in rows : r.op.kind = "domainJoin" /\ r.op.target = n}
              left == Undone(joins, {e \in edges : ~(e.kind = "domainMembership" /\ e.source = n)})
              carried(prev) == IF joins = {} THEN prev ELSE NoNode
              kept(prev) == IF prev = NoNode \/ joins # {} THEN rows \ joins
                            ELSE Staging(rows \ joins, Leave(n), prev)
  <1>1. MayEdit /\ ~strayed /\ ~UndoesRetarget(joins) /\ life' = life
    BY DEF Retarget
  <1>2. edges \ {e \in Memberships(Topology) : e.source = n}
            = {e \in edges : ~(e.kind = "domainMembership" /\ e.source = n)}
    BY DEF Memberships, Topology
  <1>3. PICK prev \in PreviousOf(n) :
            /\ dc = NoNode => rows' = kept(prev) /\ edges' = left
            /\ dc # NoNode =>
                  /\ rows' = Staging(kept(prev), Op("domainJoin", n, dc), carried(prev))
                  /\ edges' = left \cup {MemberEdge(n, dc, "planned")}
    BY <1>2 DEF Retarget
  <1>4. /\ lab \in Labs /\ EditedHolds(ns, rows, edges, real) /\ life \in [ns -> Lives]
    BY <1>1, Editable
  <1>5. /\ EditedHolds(ns, rows \ joins, left, real)
        /\ \A e \in left : ~(e.kind = "domainMembership" /\ e.source = n)
    <2>. HIDE DEF ns
    <2>. QED BY <1>1, <1>4, RetargetEdges
  <1>6. prev # NoNode => \E e \in edges : e.kind = "domainMembership" /\ e.source = n /\ e.target = prev
    BY DEF PreviousOf, DomainsOf, Memberships, Topology
  <1>7. prev \in ns \cup {NoNode}
    BY <1>4, <1>6 DEF EditedHolds, AreEdges, Edges
  <1>8. EditedHolds(ns, kept(prev), left, real)
    <2>1. CASE prev = NoNode \/ joins # {}
      BY <1>5, <2>1
    <2>2. CASE prev # NoNode /\ joins = {}
      <3>1. Leave(n) \notin OpsOf(rows) /\ Op("domainJoin", n, prev) \in real
        <4>. HIDE DEF ns
        <4>. QED BY <1>4, <1>6, <2>2, MovedFrom
      <3>2. rows \ joins = rows /\ prev \in ns
        BY <1>7, <2>2
      <3>3. kept(prev) = Staging(rows, Leave(n), prev)
        BY <2>2, <3>2
      <3>4. EditedHolds(ns, rows, left, real)
        BY <1>5, <3>2
      <3>. HIDE DEF left, kept
      <3>5. EditedHolds(ns, Staging(rows, Leave(n), prev), left, real)
        BY <1>5, <3>1, <3>2, <3>4, LeaveEdit
      <3>. QED BY <3>3, <3>5
    <2>. QED BY <2>1, <2>2
  <1>9. carried(prev) \in ns \cup {NoNode}
    BY <1>7
  <1>. HIDE DEF kept, left, carried, joins
  <1>10. EditedHolds(ns, rows', edges', real)
    <2>1. CASE dc = NoNode
      BY <1>3, <1>8, <2>1
    <2>2. CASE dc # NoNode
      <3>. DEFINE join == Op("domainJoin", n, dc)
                  drawn == MemberEdge(n, dc, "planned")
                  staged == Staging(kept(prev), join, carried(prev))
      <3>1. /\ join.kind = "domainJoin" /\ join.target = n /\ join.secondary = dc
            /\ join = Op(join.kind, join.target, join.secondary)
        BY OpFields
      <3>2. dc \in ns
        BY <2>2
      <3>. HIDE DEF join
      <3>3. Stageable(ns, join, carried(prev)) /\ join.kind # "domainLeave"
        BY <1>9, <3>1, <3>2 DEF Stageable, OpKinds
      <3>4. EditedHolds(ns, staged, left, real)
        BY <1>8, <3>3, StagedEdit
      <3>5. drawn \in Edges(ns) /\ drawn.state = "planned"
        BY <3>2 DEF MemberEdge, Link, Edges, EdgeKinds
      <3>6. OpOf(drawn) = join
        BY MemberLink DEF join
      <3>7. join \in OpsOf(staged)
        BY StagedRow DEF OpsOf
      <3>8. rows' = staged /\ edges' = left \cup {drawn}
        BY <1>3, <2>2 DEF join
      <3>. HIDE DEF staged, drawn
      <3>. QED BY <3>4, <3>5, <3>6, <3>7, <3>8, DrawnEdit
    <2>. QED BY <2>1, <2>2
  <1>. QED BY <1>1, <1>4, <1>10, EditStep


-----------------------------------------------------------------------------
\* A lab starts as its operator staged it.

LEMMA InitialRow ==
    ASSUME NEW l \in Labs, NEW r \in StagedList(l.ops)
    PROVE  \E i \in DOMAIN l.ops :
              /\ r = Row(r.id, r.op, r.status, r.deps, r.prev) /\ i \in Nat
              /\ i <= Len(l.ops) /\ Len(l.ops) \in Nat
              /\ r.id = i /\ r.op = l.ops[i] /\ r.status = "staged" /\ r.prev = NoNode
              /\ r = Row(i, l.ops[i], "staged", Inferred(l.ops[i],
                        {Row(j, l.ops[j], "staged", {}, NoNode) : j \in 1..(i - 1)}), NoNode)
              /\ r.op = Op(r.op.kind, r.op.target, r.op.secondary)
              /\ r.op.kind \in {"createVm", "domainJoin", "caConnect", "webServerCert"}
              /\ r.op.target \in l.nodes
              /\ r.op.kind = "createVm" => r.op.secondary = NoNode
  <1>1. PICK i \in DOMAIN l.ops :
            r = Row(i, l.ops[i], "staged", Inferred(l.ops[i],
                    {Row(j, l.ops[j], "staged", {}, NoNode) : j \in 1..(i - 1)}), NoNode)
    BY DEF StagedList
  <1>2. l.ops \in Seq({Create(n) : n \in l.nodes} \cup {OpOf(e) : e \in Edges(l.nodes)})
    BY LabsAssumption
  <1>3. /\ i \in Nat /\ i <= Len(l.ops) /\ Len(l.ops) \in Nat
        /\ l.ops[i] \in {Create(n) : n \in l.nodes} \cup {OpOf(e) : e \in Edges(l.nodes)}
    BY <1>2
  <1>4. LET o == l.ops[i] IN
        /\ o = Op(o.kind, o.target, o.secondary)
        /\ o.kind \in {"createVm", "domainJoin", "caConnect", "webServerCert"}
        /\ o.target \in l.nodes /\ (o.kind = "createVm" => o.secondary = NoNode)
    <2>1. CASE \E n \in l.nodes : l.ops[i] = Create(n)
      BY <2>1, OpFields DEF Create
    <2>2. CASE \E e \in Edges(l.nodes) : l.ops[i] = OpOf(e)
      <3>1. PICK e \in Edges(l.nodes) : l.ops[i] = OpOf(e)
        BY <2>2
      <3>. QED BY <3>1, DrawnOp
    <2>. QED BY <1>3, <2>1, <2>2
  <1>5. /\ r = Row(r.id, r.op, r.status, r.deps, r.prev)
        /\ r.id = i /\ r.op = l.ops[i] /\ r.status = "staged" /\ r.prev = NoNode
    BY <1>1, RowFields
  <1>. QED BY <1>1, <1>3, <1>4, <1>5

LEMMA InitialList ==
    ASSUME NEW l \in Labs
    PROVE  /\ Listed(l.nodes, StagedList(l.ops)) /\ AtRest(StagedList(l.ops))
           /\ \A r \in StagedList(l.ops) : r.op.kind \notin {"provision", "domainLeave"}
  <1>. DEFINE rs == StagedList(l.ops)
  <1>1. \A r \in rs : WellFormed(l.nodes, r) /\ r.op.kind \notin {"provision", "domainLeave"}
    <2>. SUFFICES ASSUME NEW r \in rs
                  PROVE  WellFormed(l.nodes, r) /\ r.op.kind \notin {"provision", "domainLeave"}
      OBVIOUS
    <2>1. /\ r = Row(r.id, r.op, r.status, r.deps, r.prev)
          /\ r.id \in Nat /\ r.status = "staged" /\ r.prev = NoNode
          /\ r.op = Op(r.op.kind, r.op.target, r.op.secondary)
          /\ r.op.kind \in {"createVm", "domainJoin", "caConnect", "webServerCert"}
          /\ r.op.target \in l.nodes /\ (r.op.kind = "createVm" => r.op.secondary = NoNode)
      BY InitialRow
    <2>. QED BY <2>1 DEF WellFormed, Statuses, OpKinds
  <1>2. Bounded(rs)
    <2>1. \A r \in rs : r.id <= Len(l.ops)
      BY InitialRow
    <2>2. l.ops \in Seq({Create(n) : n \in l.nodes} \cup {OpOf(e) : e \in Edges(l.nodes)})
      BY LabsAssumption
    <2>. QED BY <2>1, <2>2 DEF Bounded
  <1>3. \A r, s \in rs : r.id = s.id => r = s
    <2>. DEFINE T(i) == Row(i, l.ops[i], "staged", Inferred(l.ops[i],
                            {Row(j, l.ops[j], "staged", {}, NoNode) : j \in 1..(i - 1)}), NoNode)
    <2>1. \A r \in rs : r = T(r.id)
      BY InitialRow
    <2>. HIDE DEF T, rs
    <2>. QED BY <2>1
  <1>4. \A r \in rs : r.status = "staged"
    BY InitialRow
  <1>. HIDE DEF rs
  <1>5. Identified(rs) /\ LeavesOnce(rs)
    BY <1>1, <1>3 DEF Identified, LeavesOnce, Synthesized
  <1>. QED BY <1>1, <1>2, <1>4, <1>5 DEF Listed, AtRest, rs

LEMMA InitHolds == Init => DeploysInv
  <1>. SUFFICES ASSUME Init PROVE DeploysInv
    OBVIOUS
  <1>. DEFINE ns == lab.nodes
  <1>1. /\ lab \in Labs /\ rows = StagedList(lab.ops) /\ ~deploying
        /\ life = [n \in ns |-> IF n \in Running THEN "deployed" ELSE "staged"]
        /\ edges = {e \in Edges(ns) : e.state = "planned" /\ OpOf(e) \in OpsOf(rows)}
        /\ real = {Create(n) : n \in Running} \cup {Provision(n) : n \in Running}
    BY DEF Init
  <1>2. /\ Listed(ns, rows) /\ AtRest(rows)
        /\ \A r \in rows : r.op.kind \notin {"provision", "domainLeave"}
    BY <1>1, InitialList
  <1>3. /\ life \in [ns -> Lives]
        /\ \A n \in ns : life[n] = IF n \in Running THEN "deployed" ELSE "staged"
    BY <1>1 DEF Lives
  <1>4. \A n \in ns : n \in Running => Create(n) \in real /\ Provision(n) \in real
    BY <1>1
  <1>5. LivesAreReal(ns, life, real) /\ Provisioning(ns, rows, life, real, deploying)
    BY <1>3, <1>4 DEF LivesAreReal, Provisioning
  <1>6. ProvisionedExists(ns, real)
    <2>. SUFFICES ASSUME NEW n \in ns, Provision(n) \in real PROVE Create(n) \in real
      BY DEF ProvisionedExists
    <2>1. PICK m \in Running : Provision(n) = Provision(m)
      BY <1>1, NodeOps
    <2>2. n = m
      BY <2>1, NodeOps
    <2>. QED BY <1>1, <2>1, <2>2
  <1>7. /\ AreEdges(ns, edges) /\ EdgesAreReal(edges, real) /\ PlannedIsListed(rows, edges)
        /\ LeftIsNotShown(rows, edges) /\ LeftIsReal(rows, real)
    <2>1. \A e \in edges : e \in Edges(ns) /\ e.state = "planned" /\ OpOf(e) \in OpsOf(rows)
      BY <1>1
    <2>2. AreEdges(ns, edges) /\ EdgesAreReal(edges, real) /\ PlannedIsListed(rows, edges)
      BY <2>1 DEF AreEdges, EdgesAreReal, PlannedIsListed
    <2>3. LeftIsNotShown(rows, edges) /\ LeftIsReal(rows, real)
      BY <1>2 DEF LeftIsNotShown, LeftIsReal
    <2>. QED BY <2>2, <2>3
  <1>8. CanvasHolds(ns, rows, edges, life, real, deploying)
    BY <1>3, <1>5, <1>6, <1>7 DEF CanvasHolds
  <1>. QED BY <1>1, <1>2, <1>8 DEF DeploysInv

\* Every step keeps the invariant.
LEMMA DeploysHold == DeploysInv /\ [Next]_vars => DeploysInv'
  <1>. SUFFICES ASSUME DeploysInv, [Next]_vars PROVE DeploysInv'
    OBVIOUS
  <1>1. CASE strayed'
    BY <1>1 DEF DeploysInv
  <1>2. CASE UNCHANGED vars
    BY <1>2 DEF DeploysInv, vars
  <1>3. CASE ~strayed' /\ Next
    <2>1. ~strayed
      BY <1>3 DEF Next, Configure, Promote, Retarget, Connect, Remove, Succeed, Fail,
                  Deploy, StopByOwner, StopByAdmin, Finish
    <2>2. ASSUME NEW n \in lab.nodes, Configure(n) \/ Promote(n) PROVE DeploysInv'
      BY <1>3, <2>1, <2>2, ConfigureStep, PromoteStep
    <2>3. ASSUME NEW n \in lab.nodes, NEW dc \in lab.nodes \cup {NoNode}, Retarget(n, dc)
          PROVE  DeploysInv'
      BY <1>3, <2>3, RetargetStep
    <2>4. ASSUME NEW e \in Edges(lab.nodes), Connect(e) PROVE DeploysInv'
      BY <1>3, <2>4, ConnectStep
    <2>5. ASSUME NEW row \in rows, Remove(row) \/ Succeed(row) \/ Fail(row) PROVE DeploysInv'
      BY <1>3, <2>1, <2>5, RemoveStep, SucceedStep, FailStep
    <2>6. CASE Deploy
      BY <2>1, <2>6, DeployStep
    <2>7. CASE StopByOwner
      BY <1>3, <2>7 DEF StopByOwner
    <2>8. CASE StopByAdmin
      BY <2>1, <2>8, AdminStep
    <2>9. CASE Finish
      BY <2>1, <2>9, FinishStep
    <2>. QED BY <1>3, <2>2, <2>3, <2>4, <2>5, <2>6, <2>7, <2>8, <2>9 DEF Next
  <1>. QED BY <1>1, <1>2, <1>3

LEMMA RealIsShown == DeploysInv => CanvasIsReal
  BY DEF DeploysInv, CanvasHolds, EdgesAreReal, LivesAreReal, CanvasIsReal, ShownIsReal

\* What the canvas shows as realized, which is what the next deploy tells the
\* compiler not to do again (buildDeployTopology), has been done in the lab:
\* whatever is staged, retargeted and undone between the deploys, and whichever
\* operations fail or are stopped by an administrator.
THEOREM CanvasStaysReal == Spec => []CanvasIsReal
  <1>1. DeploysInv /\ [Next]_vars => DeploysInv'
    BY DeploysHold
  <1>. QED BY <1>1, InitHolds, RealIsShown, PTL DEF Spec

-----------------------------------------------------------------------------
\* Operations succeed on what they stand on.

\* The list and the canvas, against the domains that machines are in.
LeavesMove(rs) == \A r \in rs : r.op.kind = "domainLeave" => r.prev # NoNode
JoinsAreNotShown(rs, es) ==
    \A r \in rs, e \in es :
        /\ r.op.kind = "domainJoin" /\ r.status # "done"
        /\ e.kind = "domainMembership" /\ e.source = r.op.target
        => e.state = "planned"
JoinedIsShown(rs, es, re) ==
    \A j \in re : j.kind = "domainJoin" =>
        \/ \E e \in es : e.kind = "domainMembership" /\ e.source = j.target /\ e.state = "realized"
        \/ \E r \in rs : r.op = Leave(j.target) /\ r.status # "done"
OrderHolds(rs, es, re) ==
    LeavesMove(rs) /\ JoinsAreNotShown(rs, es) /\ JoinedIsShown(rs, es, re)

\* What the compiler saw to when it accepted the plan in flight.
JoinsOnce(rs) == \A r, s \in rs : r.op.kind = "domainJoin" /\ s.op = r.op => r = s
RelationsAreDrawn(rs, es) ==
    \A r \in rs : r.op.kind \in {"caConnect", "webServerCert"} => \E e \in es : OpOf(e) = r.op
RelationsAreListed(rs, es) == \A e \in es : e.state = "planned" => OpOf(e) \in OpsOf(rs)
UpUnlessListed(ns, rs, re) ==
    \A n \in ns : Provision(n) \in OpsOf(rs) \/ {Create(n), Provision(n)} \subseteq re
PlanFits(ns, rs, es, re) ==
    /\ JoinsOnce(rs) /\ RelationsAreDrawn(rs, es) /\ RelationsAreListed(rs, es)
    /\ UpUnlessListed(ns, rs, re)
CasFit(t) == RolesFit(t) /\ \A ca \in RoleIs(t, "issuingCa") : CaIsComplete(t, ca)

OrderInv ==
    ~strayed /\ ~unleft =>
        /\ OrderHolds(rows, edges, real)
        /\ deploying => PlanFits(lab.nodes, rows, edges, real) /\ CasFit(Topology)

\* What an operation waits for is done, as far as the plan holds it.
WaitedFor(t, rs, re, op) ==
    \A d \in Needs(t, op) : d \in OpsOf(rs) /\ d.kind # "domainLeave" => d \in re
Stands(ns, t, rs, re, op) ==
    /\ WaitedFor(t, rs, re, op) /\ UpUnlessListed(ns, rs, re) /\ ProvisionedExists(ns, re)
    /\ AreEdges(ns, t.edges) /\ RelationsAreListed(rs, t.edges) /\ EdgesAreReal(t.edges, re)
    /\ CasFit(t)

LEMMA MachineIsUp ==
    ASSUME NEW ns, NEW t, NEW rs, NEW re, NEW op, Stands(ns, t, rs, re, op),
           NEW n \in ns, Provision(n) \in Needs(t, op)
    PROVE  {Create(n), Provision(n)} \subseteq re
  <1>1. Provision(n).kind # "domainLeave"
    BY NodeOps
  <1>2. Provision(n) \in re
    BY <1>1 DEF Stands, WaitedFor, UpUnlessListed
  <1>. QED BY <1>2 DEF Stands, ProvisionedExists

LEMMA RelationIsReal ==
    ASSUME NEW ns, NEW t, NEW rs, NEW re, NEW op, Stands(ns, t, rs, re, op),
           NEW e \in t.edges, OpOf(e) \in Needs(t, op)
    PROVE  OpOf(e) \in re
  <1>1. OpOf(e).kind # "domainLeave" /\ e.state \in {"planned", "realized"}
    BY DrawnOp DEF Stands, AreEdges
  <1>. QED BY <1>1 DEF Stands, WaitedFor, RelationsAreListed, EdgesAreReal

\* A certification authority of the topology is connected to its parent.
LEMMA CaIsConnected ==
    ASSUME NEW ns, NEW t, NEW rs, NEW re, NEW op, Stands(ns, t, rs, re, op),
           NEW ca \in RoleIs(t, "issuingCa"), ConnectsOf(t, ca) \subseteq Needs(t, op)
    PROVE  \E c \in re : c.kind = "caConnect" /\ c.target = ca
  <1>1. PICK e \in t.edges : e.kind = "caParent" /\ e.target = ca
    BY DEF Stands, CasFit, CaIsComplete, CaParents
  <1>2. OpOf(e) = Op("caConnect", ca, e.source)
    BY <1>1 DEF OpOf
  <1>3. OpOf(e) \in Needs(t, op)
    BY <1>1 DEF ConnectsOf, CaParents
  <1>. QED BY <1>2, <1>3, RelationIsReal, OpFields

\* A machine that has a domain in the topology is in one.
LEMMA MemberIsJoined ==
    ASSUME NEW ns, NEW t, NEW rs, NEW re, NEW op, Stands(ns, t, rs, re, op),
           NEW n, DomainsOf(t, n) # {}, JoinsOf(t, n) \subseteq Needs(t, op)
    PROVE  \E j \in re : j.kind = "domainJoin" /\ j.target = n
  <1>1. PICK e \in t.edges : e.kind = "domainMembership" /\ e.source = n
    BY DEF DomainsOf, Memberships
  <1>2. OpOf(e) = Op("domainJoin", n, e.target)
    BY <1>1 DEF OpOf
  <1>3. OpOf(e) \in Needs(t, op)
    BY <1>1 DEF JoinsOf, Memberships
  <1>. QED BY <1>2, <1>3, RelationIsReal, OpFields

\* The relationship that a connection or a certificate realizes.
LEMMA DrawnRelation ==
    ASSUME NEW ns, NEW e \in Edges(ns)
    PROVE  /\ e.source \in ns /\ e.target \in ns
           /\ OpOf(e).kind = "domainJoin" =>
                 e.kind = "domainMembership" /\ e.source = OpOf(e).target /\ e.target = OpOf(e).secondary
           /\ OpOf(e).kind = "caConnect" =>
                 e.kind = "caParent" /\ e.target = OpOf(e).target /\ e.source = OpOf(e).secondary
           /\ OpOf(e).kind = "webServerCert" =>
                 e.kind = "caPublication" /\ e.source = OpOf(e).target /\ e.target = OpOf(e).secondary
  <1>1. e.source \in ns /\ e.target \in ns /\ e.kind \in {"domainMembership", "caParent", "caPublication"}
    BY DEF Edges, EdgeKinds
  <1>2. /\ e.kind = "domainMembership" => OpOf(e) = Op("domainJoin", e.source, e.target)
        /\ e.kind = "caParent" => OpOf(e) = Op("caConnect", e.target, e.source)
        /\ e.kind = "caPublication" => OpOf(e) = Op("webServerCert", e.source, e.target)
    BY DEF OpOf
  <1>. QED BY <1>1, <1>2, OpFields


\* What a row that may run stands on.
LEMMA PlanStands ==
    ASSUME DeploysInv, OrderInv, ~strayed, ~unleft, NEW row \in rows, MayRun(row)
    PROVE  /\ Stands(lab.nodes, Topology, rows, real, row.op)
           /\ Listed(lab.nodes, rows) /\ Planned(rows, edges, real) /\ OrderHolds(rows, edges, real)
           /\ RelationsAreDrawn(rows, edges) /\ AreEdges(lab.nodes, edges) /\ EdgesAreReal(edges, real)
           /\ row.op.kind \in OpKinds /\ row.op.target \in lab.nodes
  <1>1. Runnable(rows, row) /\ row.status = "pending"
    BY MayRunMeans DEF Runnable
  <1>2. /\ Listed(lab.nodes, rows) /\ Planned(rows, edges, real) /\ deploying
        /\ CanvasHolds(lab.nodes, rows, edges, life, real, deploying)
    BY <1>1 DEF DeploysInv, AtRest
  <1>3. /\ OrderHolds(rows, edges, real) /\ PlanFits(lab.nodes, rows, edges, real)
        /\ CasFit(Topology)
    BY <1>2 DEF OrderInv
  <1>4. WaitedFor(Topology, rows, real, row.op)
    <2>. SUFFICES ASSUME NEW d \in Needs(Topology, row.op), NEW s \in rows, s.op = d,
                         d.kind # "domainLeave"
                  PROVE  d \in real
      BY DEF WaitedFor, OpsOf
    <2>1. s.status = "done"
      BY DEF MayRun, NeedsOf, NeededBy, Dependencies, OpsOf
    <2>. QED BY <1>2, <2>1 DEF Planned, DoneIsReal
  <1>5. Topology.edges = edges
    BY DEF Topology
  <1>6. Stands(lab.nodes, Topology, rows, real, row.op)
    BY <1>2, <1>3, <1>4, <1>5 DEF Stands, CanvasHolds, PlanFits
  <1>7. row.op.kind \in OpKinds /\ row.op.target \in lab.nodes
    BY <1>2 DEF Listed, WellFormed
  <1>. QED BY <1>2, <1>3, <1>6, <1>7 DEF CanvasHolds, PlanFits

LEMMA JoinStands ==
    ASSUME DeploysInv, OrderInv, ~strayed, ~unleft, NEW row \in rows, MayRun(row),
           row.op.kind = "domainJoin", row.op \notin real
    PROVE  StandsOn(row.op, real)
  <1>. DEFINE n == row.op.target
              dc == row.op.secondary
  <1>1. /\ Stands(lab.nodes, Topology, rows, real, row.op)
        /\ Planned(rows, edges, real) /\ OrderHolds(rows, edges, real)
        /\ AreEdges(lab.nodes, edges) /\ EdgesAreReal(edges, real) /\ n \in lab.nodes
    BY PlanStands
  <1>2. dc \in lab.nodes
    BY <1>1, DrawnOp DEF Planned, JoinsAreDrawn, AreEdges
  <1>3. /\ Provision(n) \in Needs(Topology, row.op) /\ Provision(dc) \in Needs(Topology, row.op)
        /\ lab.role[n] = "client" => \A ca \in IssuingIn(Topology, dc) :
                                        ConnectsOf(Topology, ca) \subseteq Needs(Topology, row.op)
    BY DEF Needs, JoinNeeds, Ready, Topology
  <1>4. {Create(n), Provision(n)} \subseteq real /\ {Create(dc), Provision(dc)} \subseteq real
    BY <1>1, <1>2, <1>3, MachineIsUp
  <1>5. ASSUME NEW j \in real, j.kind = "domainJoin", j.target = n PROVE FALSE
    <2>1. CASE \E e \in edges : /\ e.kind = "domainMembership" /\ e.source = n
                                /\ e.state = "realized"
      <3>1. PICK e \in edges : /\ e.kind = "domainMembership" /\ e.source = n
                               /\ e.state = "realized"
        BY <2>1
      <3>2. OpOf(e) = Op("domainJoin", n, e.target)
        BY <3>1 DEF OpOf
      <3>3. OpOf(e) = row.op
        BY <1>1, <3>2, OneJoin, OpFields DEF Planned
      <3>. QED BY <1>1, <3>1, <3>3 DEF EdgesAreReal
    <2>2. CASE \E r \in rows : r.op = Leave(n) /\ r.status # "done"
      BY <2>2, MayRunMeans DEF Runnable
    <2>. QED BY <1>1, <1>5, <2>1, <2>2 DEF OrderHolds, JoinedIsShown
  <1>6. ASSUME lab.role[n] = "client", NEW ca \in IssuingIn(Topology, dc)
        PROVE  \E c \in real : c.kind = "caConnect" /\ c.target = ca
    <2>1. ca \in RoleIs(Topology, "issuingCa")
      BY <1>6 DEF IssuingIn
    <2>. QED BY <1>1, <1>3, <1>6, <2>1, CaIsConnected
  <1>. QED BY <1>4, <1>5, <1>6 DEF StandsOn

LEMMA ConnectStands ==
    ASSUME DeploysInv, OrderInv, ~strayed, ~unleft, NEW row \in rows, MayRun(row),
           row.op.kind = "caConnect"
    PROVE  StandsOn(row.op, real)
  <1>. DEFINE ca == row.op.target
              parent == row.op.secondary
  <1>1. /\ Stands(lab.nodes, Topology, rows, real, row.op)
        /\ RelationsAreDrawn(rows, edges) /\ AreEdges(lab.nodes, edges)
    BY PlanStands
  <1>2. PICK e \in edges : OpOf(e) = row.op
    BY <1>1 DEF RelationsAreDrawn
  <1>3. e.kind = "caParent" /\ e.target = ca /\ ca \in lab.nodes /\ parent \in lab.nodes
    BY <1>1, <1>2, DrawnRelation DEF AreEdges
  <1>4. CaIsComplete(Topology, ca)
    <2>1. e \in CaParents(Topology) /\ CasFit(Topology)
      BY <1>1, <1>3 DEF CaParents, Topology, Stands
    <2>2. ca \in RoleIs(Topology, "issuingCa")
      BY <1>3, <2>1 DEF CasFit, RolesFit, RoleIs, Topology
    <2>. QED BY <2>1, <2>2 DEF CasFit
  <1>5. /\ Provision(parent) \in Needs(Topology, row.op)
        /\ \A n \in {ca} \cup HostsOf(Topology, ca) :
              JoinsOf(Topology, n) \subseteq Needs(Topology, row.op)
    BY DEF Needs, ConnectNeeds, Ready
  <1>6. \A n \in {ca} \cup HostsOf(Topology, ca) : DomainsOf(Topology, n) # {}
    BY <1>4 DEF CaIsComplete, HostsOf, Publications
  <1>7. \A n \in {ca} \cup HostsOf(Topology, ca) :
            \E j \in real : j.kind = "domainJoin" /\ j.target = n
    BY <1>1, <1>5, <1>6, MemberIsJoined
  <1>8. {Create(parent), Provision(parent)} \subseteq real
    BY <1>1, <1>3, <1>5, MachineIsUp
  <1>. QED BY <1>7, <1>8 DEF StandsOn

LEMMA CertStands ==
    ASSUME DeploysInv, OrderInv, ~strayed, ~unleft, NEW row \in rows, MayRun(row),
           row.op.kind = "webServerCert"
    PROVE  StandsOn(row.op, real)
  <1>. DEFINE ca == row.op.target
              web == row.op.secondary
  <1>1. /\ Stands(lab.nodes, Topology, rows, real, row.op)
        /\ RelationsAreDrawn(rows, edges) /\ AreEdges(lab.nodes, edges)
    BY PlanStands
  <1>2. PICK e \in edges : OpOf(e) = row.op
    BY <1>1 DEF RelationsAreDrawn
  <1>3. e.kind = "caPublication" /\ e.source = ca /\ e.target = web /\ ca \in lab.nodes
    BY <1>1, <1>2, DrawnRelation DEF AreEdges
  <1>4. ca \in RoleIs(Topology, "issuingCa") /\ CaIsComplete(Topology, ca)
    <2>1. e \in Publications(Topology) /\ CasFit(Topology)
      BY <1>1, <1>3 DEF Publications, Topology, Stands
    <2>2. ca \in RoleIs(Topology, "issuingCa")
      BY <1>3, <2>1 DEF CasFit, RolesFit, RoleIs, Topology
    <2>. QED BY <2>1, <2>2 DEF CasFit
  <1>5. /\ ConnectsOf(Topology, ca) \subseteq Needs(Topology, row.op)
        /\ JoinsOf(Topology, web) \subseteq Needs(Topology, row.op)
    BY DEF Needs, CertNeeds
  <1>6. DomainsOf(Topology, web) # {}
    <2>1. e \in Publications(Topology)
      BY <1>3 DEF Publications, Topology
    <2>. QED BY <1>3, <1>4, <2>1 DEF CaIsComplete
  <1>. QED BY <1>1, <1>4, <1>5, <1>6, MemberIsJoined, CaIsConnected DEF StandsOn

LEMMA ProvisionStands ==
    ASSUME DeploysInv, OrderInv, ~strayed, ~unleft, NEW row \in rows, MayRun(row),
           row.op.kind = "provision"
    PROVE  StandsOn(row.op, real)
  <1>. DEFINE n == row.op.target
  <1>1. Stands(lab.nodes, Topology, rows, real, row.op) /\ Planned(rows, edges, real)
    BY PlanStands
  <1>2. Create(n) \in OpsOf(rows)
    BY <1>1 DEF Planned, Paired, Synthesized
  <1>3. Create(n) \in Needs(Topology, row.op) /\ Create(n).kind # "domainLeave"
    BY NodeOps DEF Needs
  <1>. QED BY <1>1, <1>2, <1>3 DEF Stands, WaitedFor, StandsOn

LEMMA SucceedStands ==
    ASSUME DeploysInv, OrderInv, ~strayed, ~unleft, NEW row \in rows, Succeed(row),
           NEW op \in real' \ real
    PROVE  StandsOn(op, real)
  <1>1. MayRun(row) /\ real' = Realized(row.op)
    BY DEF Succeed
  <1>2. op = row.op /\ row.op.kind # "domainLeave"
    BY <1>1, RealizedMeans DEF Realizes
  <1>3. row.op.kind \in OpKinds
    BY <1>1, PlanStands
  <1>4. CASE row.op.kind = "createVm"
    BY <1>2, <1>4 DEF StandsOn
  <1>. QED BY <1>1, <1>2, <1>3, <1>4, ProvisionStands, JoinStands, ConnectStands, CertStands
       DEF OpKinds


\* A frame shows every relationship again, and none as planned that was realized.
LEMMA ShownAgain ==
    ASSUME NEW ns, NEW rs, NEW es, AreEdges(ns, es), NEW d \in es
    PROVE  \E e \in Committed(rs, es) :
              /\ e.kind = d.kind /\ e.source = d.source /\ e.target = d.target
              /\ OpOf(e) = OpOf(d)
              /\ d.state = "realized" => e.state = "realized"
              /\ (\E r \in rs : r.op = OpOf(d) /\ r.status = "done") => e.state = "realized"
  <1>. DEFINE shown == [d EXCEPT !.state = "realized"]
  <1>1. /\ shown.kind = d.kind /\ shown.source = d.source /\ shown.target = d.target
        /\ shown.state = "realized"
    BY DEF AreEdges, Edges
  <1>2. OpOf(shown) = OpOf(d)
    BY <1>1 DEF OpOf
  <1>. HIDE DEF shown
  <1>3. CASE \E r \in rs : r.op = OpOf(d) /\ r.status = "done"
    <2>1. shown \in Committed(rs, es)
      BY <1>3 DEF Committed, shown
    <2>. QED BY <1>1, <1>2, <2>1
  <1>4. CASE ~\E r \in rs : r.op = OpOf(d) /\ r.status = "done"
    <2>1. d \in Committed(rs, es)
      BY <1>4 DEF Committed
    <2>. QED BY <1>4, <2>1
  <1>. QED BY <1>3, <1>4

LEMMA CasStayFit ==
    ASSUME NEW ns, NEW rs, NEW t, AreEdges(ns, t.edges), CasFit(t),
           NEW u, u.edges = Committed(rs, t.edges),
           u.nodes = t.nodes, u.role = t.role, u.ocspOff = t.ocspOff
    PROVE  CasFit(u)
  <1>1. \A e \in u.edges : \E d \in t.edges :
            e.kind = d.kind /\ e.source = d.source /\ e.target = d.target
    BY CommittedEdge
  <1>2. \A d \in t.edges : \E e \in u.edges :
            e.kind = d.kind /\ e.source = d.source /\ e.target = d.target
    BY ShownAgain
  <1>3. RolesFit(u)
    BY <1>1 DEF CasFit, RolesFit, Memberships, CaParents, Publications
  <1>4. \A n : DomainsOf(u, n) = DomainsOf(t, n)
    BY <1>1, <1>2 DEF DomainsOf, Memberships
  <1>5. RoleIs(u, "issuingCa") = RoleIs(t, "issuingCa")
    BY DEF RoleIs
  <1>6. ASSUME NEW ca, CaIsComplete(t, ca) PROVE CaIsComplete(u, ca)
    <2>1. \E e \in CaParents(u) : e.target = ca /\ u.role[e.source] = "rootCa"
      BY <1>2, <1>6 DEF CaIsComplete, CaParents
    <2>2. \E e \in Publications(u) : e.source = ca
      BY <1>2, <1>6 DEF CaIsComplete, Publications
    <2>3. ASSUME NEW e \in Publications(u), e.source = ca
          PROVE  DomainsOf(u, e.target) = DomainsOf(u, ca) /\ e.target \notin u.ocspOff
      <3>1. PICK d \in t.edges : e.kind = d.kind /\ e.source = d.source /\ e.target = d.target
        BY <1>1, <2>3 DEF Publications
      <3>2. d \in Publications(t) /\ d.source = ca
        BY <2>3, <3>1 DEF Publications
      <3>. QED BY <1>4, <1>6, <3>1, <3>2 DEF CaIsComplete
    <2>. QED BY <1>4, <1>6, <2>1, <2>2, <2>3 DEF CaIsComplete
  <1>. QED BY <1>3, <1>5, <1>6 DEF CasFit

\* A plan that goes on still fits.
LEMMA FitsStill ==
    ASSUME NEW ns, NEW f, NEW rs, NEW next, Advances(f, rs, next), NEW es, AreEdges(ns, es),
           NEW re, PlanFits(ns, rs, es, re), NEW now, KeepsMachines(ns, re, now)
    PROVE  PlanFits(ns, next, Committed(next, es), now)
  <1>1. JoinsOnce(next)
    <2>. SUFFICES ASSUME NEW q \in next, NEW p \in next, q.op.kind = "domainJoin", p.op = q.op
                  PROVE  q = p
      BY DEF JoinsOnce
    <2>1. PICK r \in rs : q = f[r] /\ q.op = r.op
      BY AdvancedRow
    <2>2. PICK s \in rs : p = f[s] /\ p.op = s.op
      BY AdvancedRow
    <2>3. r = s
      BY <2>1, <2>2 DEF PlanFits, JoinsOnce
    <2>. QED BY <2>1, <2>2, <2>3
  <1>2. RelationsAreDrawn(next, Committed(next, es))
    <2>. SUFFICES ASSUME NEW q \in next, q.op.kind \in {"caConnect", "webServerCert"}
                  PROVE  \E e \in Committed(next, es) : OpOf(e) = q.op
      BY DEF RelationsAreDrawn
    <2>1. PICK r \in rs : q.op = r.op
      BY AdvancedRow
    <2>2. PICK e \in es : OpOf(e) = q.op
      BY <2>1 DEF PlanFits, RelationsAreDrawn
    <2>. QED BY <2>2, ShownAgain
  <1>3. RelationsAreListed(next, Committed(next, es))
    <2>. SUFFICES ASSUME NEW e \in Committed(next, es), e.state = "planned"
                  PROVE  OpOf(e) \in OpsOf(next)
      BY DEF RelationsAreListed
    <2>1. PICK d \in es : e = d
      BY CommittedEdge
    <2>. QED BY <2>1, OpsKept DEF PlanFits, RelationsAreListed
  <1>4. UpUnlessListed(ns, next, now)
    BY OpsKept DEF PlanFits, UpUnlessListed, KeepsMachines
  <1>. QED BY <1>1, <1>2, <1>3, <1>4 DEF PlanFits

\* Only a departure that succeeds, and of a machine that is in no domain then, is done.
Departs(f, rs, now) ==
    \A r \in rs : r.op.kind = "domainLeave" /\ r.status # "done" /\ f[r].status = "done" =>
        \A j \in now : j.kind = "domainJoin" => j.target # r.op.target
\* What more is done in the lab is listed as done.
Lists(re, next, now) ==
    \A j \in now \ re : j.kind = "domainJoin" => \E q \in next : q.op = j /\ q.status = "done"

LEMMA OrderAdvances ==
    ASSUME NEW ns, NEW f, NEW rs, NEW next, Advances(f, rs, next),
           NEW es, AreEdges(ns, es), JoinsAreDrawn(rs, es), OneDomain([edges |-> es]), JoinsOnce(rs),
           NEW re, OrderHolds(rs, es, re), NEW now, Departs(f, rs, now), Lists(re, next, now)
    PROVE  OrderHolds(next, Committed(next, es), now)
  <1>1. LeavesMove(next)
    <2>. SUFFICES ASSUME NEW q \in next, q.op.kind = "domainLeave" PROVE q.prev # NoNode
      BY DEF LeavesMove
    <2>1. PICK r \in rs : q.op = r.op /\ q.prev = r.prev
      BY AdvancedRow
    <2>. QED BY <2>1 DEF OrderHolds, LeavesMove
  <1>2. ASSUME NEW q \in next, q.op.kind = "domainJoin", q.status # "done",
               NEW e \in Committed(next, es), e.kind = "domainMembership", e.source = q.op.target
        PROVE  e.state = "planned"
    <2>1. PICK r \in rs : q = f[r] /\ q.op = r.op /\ (r.status # "pending" => q = r)
      BY AdvancedRow
    <2>2. r.status # "done"
      BY <1>2, <2>1
    <2>3. PICK d \in es : /\ d \in Edges(ns) /\ d.kind = e.kind /\ d.source = e.source
                          /\ \/ \E p \in next : p.op = OpOf(d) /\ p.status = "done"
                             \/ e = d
      BY CommittedEdge
    <2>4. ASSUME NEW p \in next, p.op = OpOf(d), p.status = "done" PROVE FALSE
      <3>1. OpOf(d) = Op("domainJoin", r.op.target, d.target)
        BY <1>2, <2>1, <2>3, DrawnOp
      <3>2. OpOf(d) = r.op
        BY <1>2, <2>1, <3>1, OneJoin, OpFields
      <3>3. PICK s \in rs : p = f[s] /\ p.op = s.op
        BY AdvancedRow
      <3>4. s = r
        BY <1>2, <2>1, <2>4, <3>2, <3>3 DEF JoinsOnce
      <3>. QED BY <1>2, <2>1, <2>4, <3>3, <3>4
    <2>. QED BY <1>2, <2>1, <2>2, <2>3, <2>4 DEF OrderHolds, JoinsAreNotShown
  <1>3. ASSUME NEW j \in now, j.kind = "domainJoin"
        PROVE  \/ \E e \in Committed(next, es) : /\ e.kind = "domainMembership" /\ e.source = j.target
                                                 /\ e.state = "realized"
               \/ \E q \in next : q.op = Leave(j.target) /\ q.status # "done"
    <2>1. CASE j \notin re
      <3>1. PICK q \in next : q.op = j /\ q.status = "done"
        BY <1>3, <2>1 DEF Lists
      <3>2. PICK r \in rs : r.op = j
        BY <3>1, AdvancedRow
      <3>3. PICK d \in es : OpOf(d) = j
        BY <1>3, <3>2 DEF JoinsAreDrawn
      <3>4. d.kind = "domainMembership" /\ d.source = j.target
        BY <1>3, <3>3, DrawnRelation DEF AreEdges
      <3>. QED BY <3>1, <3>3, <3>4, ShownAgain
    <2>2. CASE \E e \in es : /\ e.kind = "domainMembership" /\ e.source = j.target
                             /\ e.state = "realized"
      BY <2>2, ShownAgain
    <2>3. CASE \E r \in rs : r.op = Leave(j.target) /\ r.status # "done"
      <3>1. PICK r \in rs : r.op = Leave(j.target) /\ r.status # "done"
        BY <2>3
      <3>2. r.op.kind = "domainLeave" /\ r.op.target = j.target
        BY <3>1, NodeOps
      <3>3. f[r] \in next /\ f[r].op = r.op
        BY AdvancedRow
      <3>. QED BY <1>3, <3>1, <3>2, <3>3 DEF Departs
    <2>. QED BY <1>3, <2>1, <2>2, <2>3 DEF OrderHolds, JoinedIsShown
  <1>4. JoinsAreNotShown(next, Committed(next, es))
    BY <1>2 DEF JoinsAreNotShown
  <1>5. JoinedIsShown(next, Committed(next, es), now)
    BY <1>3 DEF JoinedIsShown
  <1>. QED BY <1>1, <1>4, <1>5 DEF OrderHolds

\* What is left of a list, no departure of it done.
LEMMA OrderSettles ==
    ASSUME NEW f, NEW rs, NEW next, Settles(f, rs, next), NEW es, NEW re, OrderHolds(rs, es, re),
           \A q \in next : q.op.kind = "domainLeave" => q.status # "done"
    PROVE  OrderHolds(next, es, re)
  <1>1. LeavesMove(next)
    <2>. SUFFICES ASSUME NEW q \in next, q.op.kind = "domainLeave" PROVE q.prev # NoNode
      BY DEF LeavesMove
    <2>1. PICK r \in rs : q.op = r.op /\ q.prev = r.prev
      BY SettledRow
    <2>. QED BY <2>1 DEF OrderHolds, LeavesMove
  <1>2. JoinsAreNotShown(next, es)
    <2>. SUFFICES ASSUME NEW q \in next, q.op.kind = "domainJoin", q.status # "done",
                         NEW e \in es, e.kind = "domainMembership", e.source = q.op.target
                  PROVE  e.state = "planned"
      BY DEF JoinsAreNotShown
    <2>1. PICK r \in rs : q.op = r.op /\ r.status # "done"
      BY SettledRow
    <2>. QED BY <2>1 DEF OrderHolds, JoinsAreNotShown
  <1>3. ASSUME NEW r \in rs, r.op.kind = "domainLeave", r.status # "done"
        PROVE  \E q \in next : q.op = r.op /\ q.status # "done"
    <2>1. r \in DOMAIN f
      BY <1>3 DEF Settles, Synthesized
    <2>2. f[r] = Row(r.id, r.op, f[r].status, f[r].deps, r.prev) /\ f[r] \in next
      BY <2>1 DEF Settles, Carries
    <2>3. f[r].op = r.op
      BY <2>2, RowFields
    <2>. QED BY <1>3, <2>2, <2>3
  <1>4. JoinedIsShown(next, es, re)
    <2>. SUFFICES ASSUME NEW j \in re, j.kind = "domainJoin",
                         NEW r \in rs, r.op = Leave(j.target), r.status # "done"
                  PROVE  \E q \in next : q.op = Leave(j.target) /\ q.status # "done"
      BY DEF OrderHolds, JoinedIsShown
    <2>. QED BY <1>3, NodeOps
  <1>. QED BY <1>1, <1>2, <1>4 DEF OrderHolds


-----------------------------------------------------------------------------
\* The steps of a plan.

LEMMA PlanGoesOn ==
    ASSUME DeploysInv, OrderInv, ~strayed, ~unleft, deploying,
           NEW f, NEW next, Advances(f, rows, next), NEW now, KeepsMachines(lab.nodes, real, now),
           Departs(f, rows, now), Lists(real, next, now)
    PROVE  /\ OrderHolds(next, Committed(next, edges), now)
           /\ PlanFits(lab.nodes, next, Committed(next, edges), now)
           /\ edges' = Committed(next, edges) /\ lab' = lab => CasFit(Topology')
  <1>1. /\ AreEdges(lab.nodes, edges) /\ JoinsAreDrawn(rows, edges) /\ OneDomain([edges |-> edges])
        /\ OrderHolds(rows, edges, real) /\ PlanFits(lab.nodes, rows, edges, real)
        /\ CasFit(Topology) /\ JoinsOnce(rows)
    BY DEF DeploysInv, OrderInv, CanvasHolds, Planned, PlanFits
  <1>2. OrderHolds(next, Committed(next, edges), now)
    BY <1>1, OrderAdvances
  <1>3. PlanFits(lab.nodes, next, Committed(next, edges), now)
    BY <1>1, FitsStill
  <1>4. ASSUME edges' = Committed(next, edges), lab' = lab PROVE CasFit(Topology')
    <2>1. /\ Topology'.edges = Committed(next, Topology.edges) /\ Topology.edges = edges
          /\ Topology'.nodes = Topology.nodes /\ Topology'.role = Topology.role
          /\ Topology'.ocspOff = Topology.ocspOff
      BY <1>4 DEF Topology
    <2>. DEFINE u == Topology'
                t == Topology
    <2>2. CasFit(t) /\ AreEdges(lab.nodes, t.edges)
      BY <1>1, <2>1
    <2>3. /\ u.edges = Committed(next, t.edges) /\ u.nodes = t.nodes
          /\ u.role = t.role /\ u.ocspOff = t.ocspOff
      BY <2>1
    <2>. HIDE DEF u, t
    <2>4. CasFit(u)
      BY <2>2, <2>3, CasStayFit
    <2>. QED BY <2>4 DEF u
  <1>. QED BY <1>2, <1>3, <1>4

LEMMA SucceedOrder ==
    ASSUME DeploysInv, OrderInv, ~strayed, ~unleft, NEW row \in rows, Succeed(row)
    PROVE  OrderInv'
  <1>. DEFINE next == (rows \ {row}) \cup {[row EXCEPT !.status = "done"]}
              f == [r \in rows |-> IF r = row THEN [r EXCEPT !.status = "done"] ELSE r]
              now == Realized(row.op)
  <1>1. Runnable(rows, row) /\ row.status = "pending"
    BY MayRunMeans DEF Succeed, Runnable
  <1>2. Listed(lab.nodes, rows) /\ deploying
    BY <1>1 DEF DeploysInv, AtRest
  <1>3. /\ rows' = next /\ edges' = Committed(next, edges) /\ real' = now
        /\ lab' = lab
    BY DEF Succeed, Shows
  <1>4. Succeeds(f, rows, row) /\ Realizes(real, now, row.op)
    BY RealizedMeans DEF Succeeds
  <1>5. Advances(f, rows, next)
    BY <1>1, <1>2, <1>4, ListedRows, SucceedAdvances
  <1>6. \A r \in rows : r # row => f[r] = r
    OBVIOUS
  <1>7. f[row] \in next /\ f[row].op = row.op /\ f[row].status = "done"
    <2>1. row = Row(row.id, row.op, row.status, row.deps, row.prev)
      BY <1>2 DEF Listed, WellFormed
    <2>2. [row EXCEPT !.status = "done"] = Row(row.id, row.op, "done", row.deps, row.prev)
      BY <2>1, RewrittenRow
    <2>. QED BY <2>2, RowFields
  <1>. HIDE DEF next, f, now
  <1>8. Departs(f, rows, now)
    BY <1>4, <1>6 DEF Departs, Realizes
  <1>9. Lists(real, next, now)
    BY <1>4, <1>7 DEF Lists, Realizes
  <1>10. KeepsMachines(lab.nodes, real, now)
    BY <1>4, NodeOps DEF Realizes, KeepsMachines
  <1>. QED BY <1>2, <1>3, <1>5, <1>8, <1>9, <1>10, PlanGoesOn DEF OrderInv

LEMMA CeasedOrder ==
    ASSUME NEW f, NEW rs, NEW next, NEW re, Ceases(f, rs)
    PROVE  Departs(f, rs, re) /\ Lists(re, next, re)
  BY DEF Ceases, Departs, Lists

LEMMA FailOrder ==
    ASSUME DeploysInv, OrderInv, ~strayed, ~unleft, NEW row \in rows, Fail(row)
    PROVE  OrderInv'
  <1>. DEFINE gone == Cascade(row)
              f == [r \in rows |-> IF r = row THEN [r EXCEPT !.status = "error"]
                                   ELSE IF r \in gone THEN [r EXCEPT !.status = "cancelled"] ELSE r]
              next == {f[r] : r \in rows}
  <1>1. Runnable(rows, row) /\ row.status = "pending"
    BY MayRunMeans DEF Fail, Runnable
  <1>2. Listed(lab.nodes, rows) /\ deploying
    BY <1>1 DEF DeploysInv, AtRest
  <1>3. /\ rows' = next /\ edges' = Committed(next, edges) /\ real' = real
        /\ lab' = lab
    <2>1. next = {IF r = row THEN [r EXCEPT !.status = "error"]
                  ELSE IF r \in gone THEN [r EXCEPT !.status = "cancelled"] ELSE r : r \in rows}
      OBVIOUS
    <2>. QED BY <2>1 DEF Fail, Shows
  <1>4. Fails(f, rows, row, gone, next)
    BY DEF Fails
  <1>5. \A r \in gone : r.status = "pending"
    BY CascadeMeans DEF Cascade
  <1>. HIDE DEF next, f, gone
  <1>6. Advances(f, rows, next) /\ Ceases(f, rows)
    <2>1. /\ Advances(f, rows, next) /\ f[row].status = "error"
          /\ \A r \in rows : r # row /\ r \in gone => f[r].status = "cancelled"
          /\ \A r \in rows : r # row /\ r \notin gone => f[r] = r
      BY <1>1, <1>2, <1>4, <1>5, ListedRows, FailAdvances
    <2>. QED BY <2>1 DEF Ceases
  <1>. QED BY <1>2, <1>3, <1>6, CeasedOrder, PlanGoesOn DEF OrderInv, KeepsMachines

\* The list at rest names no departure as done.
LEMMA LeftAtRest ==
    ASSUME NEW rs, AtRest(rs)
    PROVE  \A q \in rs : q.op.kind \in {"domainLeave", "domainJoin"} => q.status # "done"
  BY DEF AtRest

LEMMA FinishOrder ==
    ASSUME DeploysInv, OrderInv, ~strayed, ~unleft, Finish
    PROVE  OrderInv'
  <1>1. Listed(lab.nodes, rows) /\ OrderHolds(rows, edges, real)
    BY DEF DeploysInv, OrderInv, Finish
  <1>2. /\ rows' = Finished(rows) /\ edges' = edges /\ real' = real
        /\ deploying' = FALSE /\ \A r \in rows : r.status # "pending"
    BY DEF Finish, Ends, Pending
  <1>3. PICK f : Settles(f, rows, Finished(rows))
    BY <1>1, ListedRows, FinishedSettles
  <1>4. AtRest(Finished(rows))
    BY <1>1, <1>2, FinishedRests
  <1>5. OrderHolds(Finished(rows), edges, real)
    BY <1>1, <1>3, <1>4, LeftAtRest, OrderSettles
  <1>. QED BY <1>2, <1>5 DEF OrderInv

LEMMA AdminOrder ==
    ASSUME DeploysInv, OrderInv, ~strayed, ~unleft, StopByAdmin
    PROVE  OrderInv'
  <1>1. Listed(lab.nodes, rows) /\ deploying
    BY DEF DeploysInv, StopByAdmin
  <1>2. /\ rows' = Reverted(Skipped) /\ edges' = Committed(Skipped, edges) /\ real' = real
        /\ deploying' = FALSE
    BY DEF StopByAdmin, Ends
  <1>3. PICK f : Advances(f, rows, Skipped) /\ Ceases(f, rows)
    BY <1>1, ListedRows, SkippedAdvances
  <1>4. Listed(lab.nodes, Skipped)
    BY <1>1, <1>3, CarriedListed DEF Advances
  <1>5. OrderHolds(Skipped, Committed(Skipped, edges), real)
    BY <1>1, <1>3, CeasedOrder, PlanGoesOn DEF KeepsMachines
  <1>6. PICK g : Settles(g, Skipped, Reverted(Skipped))
    BY <1>4, ListedRows, RevertedSettles
  <1>7. AtRest(Reverted(Skipped))
    BY <1>4, ListedRows, RevertedSettles
  <1>8. OrderHolds(Reverted(Skipped), Committed(Skipped, edges), real)
    BY <1>5, <1>6, <1>7, LeftAtRest, OrderSettles
  <1>. QED BY <1>2, <1>8 DEF OrderInv

\* A plan that the compiler accepts, with the provision rows beside it.
LEMMA AcceptedFits ==
    ASSUME NEW rs, Listed(lab.nodes, rs), Accepted(rs),
           CanvasHolds(lab.nodes, rs, edges, life, real, FALSE)
    PROVE  PlanFits(lab.nodes, rs \cup Mirrors(rs), edges, real) /\ CasFit(Topology)
  <1>. DEFINE next == rs \cup Mirrors(rs)
              ops == {r.op : r \in Sent(rs)}
  <1>1. /\ Valid(Topology) /\ Matches(Topology, ops)
        /\ \A r, s \in Sent(rs) : r.op = s.op => r = s
    BY DEF Accepted, Compiles
  <1>2. \A m \in Mirrors(rs) : Synthesized(m)
    BY MirrorRow DEF Listed
  <1>3. \A r \in next : ~Synthesized(r) => r \in Sent(rs)
    BY <1>2 DEF Sent
  <1>4. ops \subseteq OpsOf(next)
    BY DEF Sent, OpsOf
  <1>5. JoinsOnce(next)
    BY <1>1, <1>3 DEF JoinsOnce, Synthesized
  <1>6. RelationsAreDrawn(next, edges)
    <2>. SUFFICES ASSUME NEW r \in next, r.op.kind \in {"caConnect", "webServerCert"}
                  PROVE  \E e \in edges : OpOf(e) = r.op
      BY DEF RelationsAreDrawn
    <2>1. r.op \in {Create(n) : n \in Topology.nodes} \cup {Leave(n) : n \in Topology.nodes}
                     \cup EdgeOps(Topology)
      BY <1>1, <1>3 DEF Matches, Synthesized
    <2>2. r.op \in EdgeOps(Topology)
      BY <2>1, NodeOps
    <2>. QED BY <2>2 DEF EdgeOps, Topology
  <1>7. RelationsAreListed(next, edges)
    <2>1. \A e \in edges : e.state = "planned" => OpOf(e) \in PlannedOps(Topology)
      BY DEF PlannedOps, Topology
    <2>. QED BY <1>1, <1>4, <2>1 DEF RelationsAreListed, Matches
  <1>8. ASSUME NEW n \in lab.nodes, Provision(n) \notin OpsOf(next)
        PROVE  {Create(n), Provision(n)} \subseteq real
    <2>1. Create(n) \notin ops
      <3>. SUFFICES ASSUME NEW c \in rs, c.op = Create(n) PROVE FALSE
        BY DEF Sent
      <3>1. c.op.kind = "createVm" /\ c.op.target = n
        BY NodeOps
      <3>2. Row(c.id, Provision(n), "pending", {c.id}, NoNode) \in Mirrors(rs)
        BY <3>1 DEF Mirrors
      <3>3. Row(c.id, Provision(n), "pending", {c.id}, NoNode).op = Provision(n)
        BY RowFields
      <3>. QED BY <1>8, <3>2, <3>3 DEF OpsOf
    <2>2. n \in Topology.realized
      BY <1>1, <2>1 DEF Matches, PlannedOps, Topology
    <2>3. life[n] \in {"provisioning", "deployed"}
      BY <2>2 DEF Topology
    <2>. QED BY <2>3 DEF CanvasHolds, LivesAreReal, Provisioning
  <1>9. CasFit(Topology)
    BY <1>1 DEF Valid, CasFit
  <1>. QED BY <1>5, <1>6, <1>7, <1>8, <1>9 DEF PlanFits, UpUnlessListed

LEMMA OrderMirrored ==
    ASSUME NEW ns, NEW rs, Listed(ns, rs), NEW es, NEW re, OrderHolds(rs, es, re)
    PROVE  OrderHolds(rs \cup Mirrors(rs), es, re)
  <1>1. \A m \in Mirrors(rs) : m.op.kind = "provision"
    BY MirrorRow DEF Listed, Synthesized
  <1>. QED BY <1>1 DEF OrderHolds, LeavesMove, JoinsAreNotShown, JoinedIsShown

LEMMA DeployOrder ==
    ASSUME DeploysInv, OrderInv, ~strayed, ~unleft, Deploy
    PROVE  OrderInv'
  <1>1. /\ Listed(lab.nodes, rows) /\ OrderHolds(rows, edges, real)
        /\ edges' = edges /\ real' = real /\ life' = life /\ lab' = lab
    BY DEF DeploysInv, OrderInv, Deploy
  <1>2. ASSUME NEW status \in {"pending", "staged"}
        PROVE  /\ Listed(lab.nodes, Prepared(rows, status))
               /\ OrderHolds(Prepared(rows, status), edges, real)
    <2>1. PICK f : Settles(f, rows, Prepared(rows, status))
      BY <1>1, ListedRows, PreparedSettles DEF Statuses
    <2>2. \A q \in Prepared(rows, status) : q.status # "done"
      BY <1>1, PreparedRows
    <2>. QED BY <1>1, <2>1, <2>2, CarriedListed, OrderSettles DEF Settles
  <1>3. CASE Accepted(Prepared(rows, "pending"))
    <2>. DEFINE sent == Prepared(rows, "pending")
    <2>1. rows' = sent \cup Mirrors(sent) /\ Listed(lab.nodes, sent) /\ OrderHolds(sent, edges, real)
      BY <1>2, <1>3 DEF Deploy
    <2>2. CanvasHolds(lab.nodes, sent, edges, life, real, FALSE)
      BY PreparedCanvas DEF Deploy
    <2>3. Topology' = Topology
      BY <1>1 DEF Topology
    <2>. HIDE DEF sent
    <2>4. PlanFits(lab.nodes, sent \cup Mirrors(sent), edges, real) /\ CasFit(Topology)
      BY <1>3, <2>1, <2>2, AcceptedFits DEF sent
    <2>5. OrderHolds(sent \cup Mirrors(sent), edges, real)
      BY <2>1, OrderMirrored
    <2>. QED BY <1>1, <2>1, <2>3, <2>4, <2>5 DEF OrderInv
  <1>4. CASE ~Accepted(Prepared(rows, "pending"))
    <2>1. rows' = Prepared(rows, "staged") /\ ~deploying'
      BY <1>4 DEF Deploy
    <2>. QED BY <1>1, <1>2, <2>1 DEF OrderInv
  <1>. QED BY <1>3, <1>4


-----------------------------------------------------------------------------
\* The edits of a list at rest.

LEMMA OrderStaged ==
    ASSUME NEW rs, NEW es, NEW re, OrderHolds(rs, es, re),
           NEW op, NEW prev, op.kind \notin {"domainJoin", "domainLeave"}
    PROVE  OrderHolds(Staging(rs, op, prev), es, re)
  <1>1. PICK new : Staging(rs, op, prev) = rs \cup {new} /\ new.op = op
    BY StagedRow
  <1>. QED BY <1>1 DEF OrderHolds, LeavesMove, JoinsAreNotShown, JoinedIsShown

LEMMA OrderDrawn ==
    ASSUME NEW rs, NEW es, NEW re, OrderHolds(rs, es, re), NEW e, e.kind # "domainMembership"
    PROVE  OrderHolds(rs, es \cup {e}, re)
  BY DEF OrderHolds, JoinsAreNotShown, JoinedIsShown

LEMMA ConfigureOrder ==
    ASSUME OrderInv, ~strayed, ~unleft, NEW n \in lab.nodes, Configure(n)
    PROVE  OrderInv'
  <1>1. /\ rows' = Staging(rows, Create(n), NoNode) /\ edges' = edges /\ real' = real
        /\ ~deploying /\ deploying' = deploying
    BY DEF Configure, MayEdit
  <1>2. OrderHolds(rows', edges', real')
    BY <1>1, NodeOps, OrderStaged DEF OrderInv
  <1>. QED BY <1>1, <1>2 DEF OrderInv

LEMMA ConnectOrder ==
    ASSUME OrderInv, ~strayed, ~unleft, NEW e \in Edges(lab.nodes), Connect(e)
    PROVE  OrderInv'
  <1>1. /\ edges' = edges \cup {e} /\ real' = real /\ ~deploying /\ deploying' = deploying
        /\ rows' = rows \/ rows' = Staging(rows, OpOf(e), NoNode)
        /\ e.kind # "domainMembership"
    BY DEF Connect, MayEdit
  <1>2. OpOf(e).kind \notin {"domainJoin", "domainLeave"}
    BY <1>1, DrawnOp
  <1>3. OrderHolds(rows', edges, real)
    BY <1>1, <1>2, OrderStaged DEF OrderInv
  <1>4. OrderHolds(rows', edges', real')
    BY <1>1, <1>3, OrderDrawn
  <1>. QED BY <1>1, <1>4 DEF OrderInv

\* What is undone draws the domain of a machine again that does not leave it any more.
LEMMA OrderUndone ==
    ASSUME NEW ns, NEW rs, NEW es, NEW re, EditedHolds(ns, rs, es, re), OrderHolds(rs, es, re),
           NEW gone, gone \subseteq rs, ~UndoesRetarget(gone),
           \A r \in gone, s \in rs \ gone :
               r.op.kind = "domainLeave" /\ s.op.kind = "domainJoin" => s.op.target # r.op.target
    PROVE  OrderHolds(rs \ gone, Undone(gone, es), re)
  <1>1. LeavesMove(rs \ gone)
    BY DEF OrderHolds, LeavesMove
  <1>2. ASSUME NEW r \in gone, r.prev # NoNode PROVE r.op.kind = "domainLeave"
    BY <1>2 DEF UndoesRetarget, EditedHolds, Listed, WellFormed
  <1>3. JoinsAreNotShown(rs \ gone, Undone(gone, es))
    <2>. SUFFICES ASSUME NEW q \in rs \ gone, NEW e \in Undone(gone, es),
                         q.op.kind = "domainJoin", q.status # "done",
                         e.kind = "domainMembership", e.source = q.op.target
                  PROVE  e.state = "planned"
      BY DEF JoinsAreNotShown
    <2>1. CASE e \in es
      BY <2>1 DEF OrderHolds, JoinsAreNotShown
    <2>2. CASE \E r \in gone : r.prev # NoNode /\ e = MemberEdge(r.op.target, r.prev, "realized")
      <3>1. PICK r \in gone : r.prev # NoNode /\ e = MemberEdge(r.op.target, r.prev, "realized")
        BY <2>2
      <3>. QED BY <1>2, <3>1, MemberLink
    <2>. QED BY <2>1, <2>2, UndoneEdge
  <1>4. ASSUME NEW j \in re, j.kind = "domainJoin",
               NEW e \in es, e.kind = "domainMembership", e.source = j.target, e.state = "realized"
        PROVE  e \in Undone(gone, es)
    <2>. SUFFICES ASSUME NEW r \in gone, r.op = OpOf(e) PROVE FALSE
      BY DEF Undone
    <2>1. r.op.kind = "domainJoin" /\ r.op.target = j.target
      BY <1>4, DrawnRelation, DrawnOp, OpFields DEF EditedHolds, AreEdges
    <2>2. r.status # "done"
      BY <2>1 DEF EditedHolds, AtRest
    <2>. QED BY <1>4, <2>1, <2>2 DEF OrderHolds, JoinsAreNotShown
  <1>5. ASSUME NEW j \in re, j.kind = "domainJoin", NEW r \in rs, r.op = Leave(j.target)
        PROVE  \/ r \notin gone
               \/ \E e \in Undone(gone, es) : /\ e.kind = "domainMembership" /\ e.source = j.target
                                              /\ e.state = "realized"
    <2>. SUFFICES ASSUME r \in gone
                  PROVE  \E e \in Undone(gone, es) : /\ e.kind = "domainMembership"
                                                     /\ e.source = j.target /\ e.state = "realized"
      OBVIOUS
    <2>. DEFINE back == MemberEdge(j.target, r.prev, "realized")
                left == {e \in es : \A q \in gone : OpOf(e) # q.op}
    <2>1. r.op.kind = "domainLeave" /\ r.op.target = j.target /\ r.prev # NoNode
      BY <1>5, NodeOps DEF OrderHolds, LeavesMove
    <2>2. /\ back.kind = "domainMembership" /\ back.source = j.target /\ back.state = "realized"
          /\ OpOf(back) = Op("domainJoin", j.target, r.prev)
      BY MemberLink
    <2>. HIDE DEF back
    <2>3. CASE \A e \in left : ~SameRelationship(back, e)
      <3>1. back \in Undone(gone, es)
        BY <2>1, <2>3 DEF Undone, back
      <3>. QED BY <2>2, <3>1
    <2>4. CASE \E e \in left : SameRelationship(back, e)
      <3>1. PICK e \in left : SameRelationship(back, e)
        BY <2>4
      <3>2. e \in Edges(ns) /\ e.kind = "domainMembership" /\ e.source = j.target
        BY <2>2, <3>1 DEF SameRelationship, EditedHolds, AreEdges
      <3>3. e.state # "planned"
        <4>. SUFFICES ASSUME e.state = "planned" PROVE FALSE
          OBVIOUS
        <4>1. PICK s \in rs : s.op = OpOf(e)
          BY <3>2 DEF EditedHolds, PlannedIsListed, OpsOf
        <4>2. s \notin gone
          BY <3>1, <4>1
        <4>3. s.op.kind = "domainJoin" /\ s.op.target = j.target
          BY <3>2, <4>1, DrawnOp, OpFields
        <4>. QED BY <2>1, <4>2, <4>3
      <3>4. e \in Undone(gone, es) /\ e.state = "realized"
        BY <3>1, <3>2, <3>3, DrawnOp DEF Undone
      <3>. QED BY <3>2, <3>4
    <2>. QED BY <2>3, <2>4
  <1>6. JoinedIsShown(rs \ gone, Undone(gone, es), re)
    <2>. SUFFICES ASSUME NEW j \in re, j.kind = "domainJoin"
                  PROVE  \/ \E e \in Undone(gone, es) :
                               /\ e.kind = "domainMembership" /\ e.source = j.target
                               /\ e.state = "realized"
                         \/ \E r \in rs \ gone : r.op = Leave(j.target) /\ r.status # "done"
      BY DEF JoinedIsShown
    <2>1. CASE \E e \in es : /\ e.kind = "domainMembership" /\ e.source = j.target
                             /\ e.state = "realized"
      BY <1>4, <2>1
    <2>2. CASE \E r \in rs : r.op = Leave(j.target) /\ r.status # "done"
      BY <1>5, <2>2
    <2>. QED BY <2>1, <2>2 DEF OrderHolds, JoinedIsShown
  <1>. QED BY <1>1, <1>3, <1>6 DEF OrderHolds

LEMMA RemoveOrder ==
    ASSUME DeploysInv, OrderInv, ~strayed', ~unleft', NEW row \in rows, Remove(row)
    PROVE  OrderInv'
  <1>. DEFINE gone == {row} \cup Dependents(rows, row)
  <1>1. MayEdit /\ ~strayed /\ ~unleft /\ ~UndoesRetarget(gone) /\ ~UndoesLeave(gone)
    BY DEF Remove
  <1>2. rows' = rows \ gone /\ edges' = Undone(gone, edges)
    BY DEF Remove
  <1>3. gone \subseteq rows
    BY DEF Dependents, Directly
  <1>. HIDE DEF gone
  <1>4. EditedHolds(lab.nodes, rows, edges, real) /\ OrderHolds(rows, edges, real)
    BY <1>1, Editable DEF OrderInv
  <1>5. \A r \in gone, s \in rows \ gone :
            r.op.kind = "domainLeave" /\ s.op.kind = "domainJoin" => s.op.target # r.op.target
    BY <1>1 DEF UndoesLeave
  <1>6. OrderHolds(rows \ gone, Undone(gone, edges), real)
    BY <1>1, <1>3, <1>4, <1>5, OrderUndone
  <1>7. real' = real /\ ~deploying'
    BY <1>1 DEF MayEdit
  <1>. QED BY <1>2, <1>6, <1>7 DEF OrderInv

\* What is left of rs and es when the join or the membership of n is taken away.
Moves(rs, es, n, joins, left, prev, kept) ==
    /\ joins = {r \in rs : r.op.kind = "domainJoin" /\ r.op.target = n}
    /\ ~UndoesRetarget(joins)
    /\ left = Undone(joins, {e \in es : ~(e.kind = "domainMembership" /\ e.source = n)})
    /\ \/ /\ kept = rs \ joins
          /\ joins # {} \/ \A e \in es : ~(e.kind = "domainMembership" /\ e.source = n)
       \/ kept = Staging(rs, Leave(n), prev) /\ joins = {} /\ prev # NoNode

\* A machine is moved: it is in no domain, or leaves the one it is in.
LEMMA OrderMoved ==
    ASSUME NEW ns, NEW rs, NEW es, NEW re, EditedHolds(ns, rs, es, re), OrderHolds(rs, es, re),
           NEW n, NEW joins, NEW left, NEW prev, NEW kept, Moves(rs, es, n, joins, left, prev, kept)
    PROVE  OrderHolds(kept, left, re)
  <1>. DEFINE others == {e \in es : ~(e.kind = "domainMembership" /\ e.source = n)}
  <1>0. /\ joins = {r \in rs : r.op.kind = "domainJoin" /\ r.op.target = n}
        /\ ~UndoesRetarget(joins) /\ left = Undone(joins, others)
        /\ \/ /\ kept = rs \ joins
              /\ joins # {} \/ \A e \in es : ~(e.kind = "domainMembership" /\ e.source = n)
           \/ kept = Staging(rs, Leave(n), prev) /\ joins = {} /\ prev # NoNode
    BY DEF Moves
  <1>1. left \subseteq es
    <2>1. ~\E r \in joins : r.prev # NoNode
      BY <1>0 DEF UndoesRetarget
    <2>. QED BY <1>0, <2>1, UndoneEdge
  <1>2. \/ /\ kept = rs \ joins
           /\ joins # {} \/ \A e \in es : ~(e.kind = "domainMembership" /\ e.source = n)
        \/ \E new : /\ kept = rs \cup {new} /\ joins = {} /\ prev # NoNode
                    /\ new.op = Leave(n) /\ new.status = "staged" /\ new.prev = prev
    BY <1>0, StagedRow
  <1>3. \A q \in kept : \/ q \in rs
                        \/ q.op = Leave(n) /\ q.prev # NoNode
    BY <1>2
  <1>4. LeavesMove(kept)
    BY <1>3 DEF OrderHolds, LeavesMove
  <1>5. JoinsAreNotShown(kept, left)
    BY <1>1, <1>3, NodeOps DEF OrderHolds, JoinsAreNotShown
  <1>6. ASSUME NEW r \in rs, r.op.kind = "domainLeave" PROVE r \in kept
    BY <1>0, <1>2, <1>6
  <1>7. ASSUME NEW e \in es, e.kind = "domainMembership", e.source # n PROVE e \in left
    <2>1. OpOf(e) = Op("domainJoin", e.source, e.target)
      BY <1>7 DEF OpOf
    <2>2. \A r \in joins : OpOf(e) # r.op
      BY <1>0, <1>7, <2>1, OpFields
    <2>. QED BY <1>0, <1>7, <2>2 DEF Undone
  <1>8. ASSUME NEW e \in es, e.kind = "domainMembership", e.source = n, e.state = "realized"
        PROVE  \E r \in kept : r.op = Leave(n) /\ r.status # "done"
    <2>1. joins = {}
      <3>. SUFFICES ASSUME NEW r \in joins PROVE FALSE
        OBVIOUS
      <3>1. r \in rs /\ r.op.kind = "domainJoin" /\ r.op.target = n
        BY <1>0
      <3>2. r.status # "done"
        BY <3>1 DEF EditedHolds, AtRest
      <3>. QED BY <1>8, <3>1, <3>2 DEF OrderHolds, JoinsAreNotShown
    <2>. QED BY <1>2, <1>8, <2>1
  <1>9. JoinedIsShown(kept, left, re)
    <2>. SUFFICES ASSUME NEW j \in re, j.kind = "domainJoin"
                  PROVE  \/ \E e \in left : /\ e.kind = "domainMembership" /\ e.source = j.target
                                            /\ e.state = "realized"
                         \/ \E r \in kept : r.op = Leave(j.target) /\ r.status # "done"
      BY DEF JoinedIsShown
    <2>1. CASE \E e \in es : /\ e.kind = "domainMembership" /\ e.source = j.target
                             /\ e.state = "realized"
      BY <1>7, <1>8, <2>1
    <2>2. CASE \E r \in rs : r.op = Leave(j.target) /\ r.status # "done"
      BY <1>6, <2>2, NodeOps
    <2>. QED BY <2>1, <2>2 DEF OrderHolds, JoinedIsShown
  <1>. QED BY <1>4, <1>5, <1>9 DEF OrderHolds

\* It is to join another.
LEMMA OrderJoined ==
    ASSUME NEW rs, NEW es, NEW re, OrderHolds(rs, es, re), NEW n, NEW dc, NEW prev,
           \A e \in es : ~(e.kind = "domainMembership" /\ e.source = n)
    PROVE  OrderHolds(Staging(rs, Op("domainJoin", n, dc), prev),
                      es \cup {MemberEdge(n, dc, "planned")}, re)
  <1>. DEFINE drawn == MemberEdge(n, dc, "planned")
  <1>1. PICK new : /\ Staging(rs, Op("domainJoin", n, dc), prev) = rs \cup {new}
                   /\ new.op = Op("domainJoin", n, dc)
    BY StagedRow
  <1>2. new.op.kind = "domainJoin" /\ new.op.target = n
    BY <1>1, OpFields
  <1>3. drawn.state = "planned"
    BY MemberLink
  <1>. HIDE DEF drawn
  <1>4. OrderHolds(rs \cup {new}, es \cup {drawn}, re)
    BY <1>2, <1>3 DEF OrderHolds, LeavesMove, JoinsAreNotShown, JoinedIsShown
  <1>. QED BY <1>1, <1>4 DEF drawn

LEMMA RetargetOrder ==
    ASSUME DeploysInv, OrderInv, ~strayed', ~unleft', NEW n \in lab.nodes,
           NEW dc \in lab.nodes \cup {NoNode}, Retarget(n, dc)
    PROVE  OrderInv'
  <1>. DEFINE joins == {r \in rows : r.op.kind = "domainJoin" /\ r.op.target = n}
              left == Undone(joins, {e \in edges : ~(e.kind = "domainMembership" /\ e.source = n)})
              carried(prev) == IF joins = {} THEN prev ELSE NoNode
              kept(prev) == IF prev = NoNode \/ joins # {} THEN rows \ joins
                            ELSE Staging(rows \ joins, Leave(n), prev)
  <1>1. MayEdit /\ ~strayed /\ ~unleft /\ ~UndoesRetarget(joins)
    BY DEF Retarget
  <1>2. edges \ {e \in Memberships(Topology) : e.source = n}
            = {e \in edges : ~(e.kind = "domainMembership" /\ e.source = n)}
    BY DEF Memberships, Topology
  <1>3. PICK prev \in PreviousOf(n) :
            /\ dc = NoNode => rows' = kept(prev) /\ edges' = left
            /\ dc # NoNode =>
                  /\ rows' = Staging(kept(prev), Op("domainJoin", n, dc), carried(prev))
                  /\ edges' = left \cup {MemberEdge(n, dc, "planned")}
    BY <1>2 DEF Retarget
  <1>4. /\ lab \in Labs /\ EditedHolds(lab.nodes, rows, edges, real)
        /\ OrderHolds(rows, edges, real)
    BY <1>1, Editable DEF OrderInv
  <1>5. \A e \in left : ~(e.kind = "domainMembership" /\ e.source = n)
    BY <1>1, <1>4, RetargetEdges
  <1>6. prev = NoNode => \A e \in edges : ~(e.kind = "domainMembership" /\ e.source = n)
    <2>. SUFFICES ASSUME prev = NoNode, NEW e \in edges, e.kind = "domainMembership", e.source = n
                  PROVE  FALSE
      OBVIOUS
    <2>1. \A d \in DomainsOf(Topology, n) : d \in lab.nodes
      BY <1>4 DEF DomainsOf, Memberships, Topology, EditedHolds, AreEdges, Edges
    <2>2. e.target \in DomainsOf(Topology, n)
      BY DEF DomainsOf, Memberships, Topology
    <2>3. NoNode \notin lab.nodes
      BY <1>4, LabsAssumption
    <2>. QED BY <2>1, <2>2, <2>3 DEF PreviousOf
  <1>7. \/ /\ kept(prev) = rows \ joins
           /\ joins # {} \/ \A e \in edges : ~(e.kind = "domainMembership" /\ e.source = n)
        \/ kept(prev) = Staging(rows, Leave(n), prev) /\ joins = {} /\ prev # NoNode
    <2>1. CASE prev = NoNode \/ joins # {}
      BY <1>6, <2>1
    <2>2. CASE prev # NoNode /\ joins = {}
      <3>1. rows \ joins = rows
        BY <2>2
      <3>. QED BY <2>2, <3>1
    <2>. QED BY <2>1, <2>2
  <1>8. OrderHolds(kept(prev), left, real)
    <2>. DEFINE k == kept(prev)
    <2>1. \/ /\ k = rows \ joins
             /\ joins # {} \/ \A e \in edges : ~(e.kind = "domainMembership" /\ e.source = n)
          \/ k = Staging(rows, Leave(n), prev) /\ joins = {} /\ prev # NoNode
      BY <1>7
    <2>. HIDE DEF k
    <2>2. Moves(rows, edges, n, joins, left, prev, k)
      BY <1>1, <2>1 DEF Moves
    <2>. HIDE DEF left, joins
    <2>3. OrderHolds(k, left, real)
      BY <1>4, <2>2, OrderMoved
    <2>. QED BY <2>3 DEF k
  <1>. HIDE DEF kept, left, carried, joins
  <1>9. OrderHolds(rows', edges', real)
    <2>1. CASE dc = NoNode
      BY <1>3, <1>8, <2>1
    <2>2. CASE dc # NoNode
      BY <1>3, <1>5, <1>8, <2>2, OrderJoined
    <2>. QED BY <2>1, <2>2
  <1>10. real' = real /\ ~deploying'
    BY <1>1 DEF MayEdit
  <1>. QED BY <1>9, <1>10 DEF OrderInv


\* An agent comes online: neither the list nor the edges change.
LEMMA PromoteOrder ==
    ASSUME DeploysInv, OrderInv, ~strayed, ~unleft, NEW n \in lab.nodes, Promote(n)
    PROVE  OrderInv'
  <1>1. /\ lab' = lab /\ rows' = rows /\ edges' = edges /\ real' = real /\ deploying' = deploying
    BY DEF Promote
  <1>2. ASSUME CasFit(Topology) PROVE CasFit(Topology')
    <2>. DEFINE t == Topology  u == Topology'
    <2>1. /\ u.nodes = t.nodes /\ u.role = t.role /\ u.ocspOff = t.ocspOff
          /\ u.edges = edges /\ t.edges = edges
      BY <1>1 DEF Topology
    <2>2. Committed({}, edges) = edges
      BY DEF Committed
    <2>3. AreEdges(lab.nodes, t.edges) /\ CasFit(t)
      BY <1>2, <2>1 DEF DeploysInv, CanvasHolds
    <2>4. u.edges = Committed({}, t.edges)
      BY <2>1, <2>2
    <2>. HIDE DEF t, u
    <2>5. CasFit(u)
      BY <2>1, <2>3, <2>4, CasStayFit
    <2>. QED BY <2>5 DEF u
  <1>. QED BY <1>1, <1>2 DEF OrderInv

\* A lab as it was staged: nothing is joined, and no relation is shown.
LEMMA InitOrder == Init => OrderInv
  <1>. SUFFICES ASSUME Init PROVE OrderHolds(rows, edges, real) /\ ~deploying
    BY DEF OrderInv
  <1>1. /\ lab \in Labs /\ rows = StagedList(lab.ops) /\ ~deploying
        /\ edges = {e \in Edges(lab.nodes) : e.state = "planned" /\ OpOf(e) \in OpsOf(rows)}
        /\ real = {Create(n) : n \in Running} \cup {Provision(n) : n \in Running}
    BY DEF Init
  <1>2. \A r \in rows : r.op.kind # "domainLeave"
    BY <1>1, InitialList
  <1>3. \A e \in edges : e.state = "planned"
    BY <1>1
  <1>4. \A op \in real : op.kind # "domainJoin"
    BY <1>1, NodeOps
  <1>. QED BY <1>1, <1>2, <1>3, <1>4 DEF OrderHolds, LeavesMove, JoinsAreNotShown, JoinedIsShown

\* Every step keeps the order.
LEMMA OrderHold == DeploysInv /\ OrderInv /\ [Next]_vars => OrderInv'
  <1>. SUFFICES ASSUME DeploysInv, OrderInv, [Next]_vars PROVE OrderInv'
    OBVIOUS
  <1>1. CASE strayed' \/ unleft'
    BY <1>1 DEF OrderInv
  <1>2. CASE UNCHANGED vars
    BY <1>2 DEF OrderInv, Topology, vars
  <1>3. CASE ~strayed' /\ ~unleft' /\ Next
    <2>1. ~strayed /\ ~unleft
      <3>1. ~strayed
        BY <1>3 DEF Next, Configure, Promote, Retarget, Connect, Remove, Succeed, Fail,
                    Deploy, StopByOwner, StopByAdmin, Finish
      <3>2. ~unleft
        BY <1>3 DEF Next, Configure, Promote, Retarget, Connect, Remove, Succeed, Fail,
                    Deploy, StopByOwner, StopByAdmin, Finish
      <3>. QED BY <3>1, <3>2
    <2>2. ASSUME NEW n \in lab.nodes, Configure(n) \/ Promote(n) PROVE OrderInv'
      BY <2>1, <2>2, ConfigureOrder, PromoteOrder
    <2>3. ASSUME NEW n \in lab.nodes, NEW dc \in lab.nodes \cup {NoNode}, Retarget(n, dc)
          PROVE  OrderInv'
      BY <1>3, <2>3, RetargetOrder
    <2>4. ASSUME NEW e \in Edges(lab.nodes), Connect(e) PROVE OrderInv'
      BY <2>1, <2>4, ConnectOrder
    <2>5. ASSUME NEW row \in rows, Remove(row) \/ Succeed(row) \/ Fail(row) PROVE OrderInv'
      BY <1>3, <2>1, <2>5, RemoveOrder, SucceedOrder, FailOrder
    <2>6. CASE Deploy
      BY <2>1, <2>6, DeployOrder
    <2>7. CASE StopByOwner
      BY <1>3, <2>7 DEF StopByOwner
    <2>8. CASE StopByAdmin
      BY <2>1, <2>8, AdminOrder
    <2>9. CASE Finish
      BY <2>1, <2>9, FinishOrder
    <2>. QED BY <1>3, <2>2, <2>3, <2>4, <2>5, <2>6, <2>7, <2>8, <2>9 DEF Next
  <1>. QED BY <1>1, <1>2, <1>3

\* Only an operation that succeeds is added to what is done, and it stood on it.
LEMMA StepStands ==
    DeploysInv /\ OrderInv /\ [Next]_vars
        => [~strayed /\ ~unleft => \A op \in real' \ real : StandsOn(op, real)]_vars
  <1>. SUFFICES ASSUME DeploysInv, OrderInv, Next, ~strayed, ~unleft, NEW op \in real' \ real
                PROVE  StandsOn(op, real)
    OBVIOUS
  <1>1. \A row \in rows : Succeed(row) => StandsOn(op, real)
    BY SucceedStands
  <1>2. ASSUME ~\E row \in rows : Succeed(row) PROVE real' = real
    BY <1>2 DEF Next, Configure, Promote, Retarget, Connect, Remove, MayEdit, Fail,
                Deploy, StopByOwner, StopByAdmin, Finish
  <1>. QED BY <1>1, <1>2

\* An operation that succeeds stands on what has been done, in this plan or in an
\* earlier one (compile_plan): a machine is provisioned once it exists, it joins a
\* domain when it and its controller are up and it is in no domain, a client after
\* the CAs of the domain, and a CA or a certificate waits for what is connected to it.
THEOREM PrerequisitesStandFirst == Spec => PrerequisitesFirst
  <1>1. DeploysInv /\ [Next]_vars => DeploysInv'
    BY DeploysHold
  <1>2. DeploysInv /\ OrderInv /\ [Next]_vars => OrderInv'
    BY OrderHold
  <1>3. DeploysInv /\ OrderInv /\ [Next]_vars
            => [~strayed /\ ~unleft => \A op \in real' \ real : StandsOn(op, real)]_vars
    BY StepStands
  <1>. QED BY <1>1, <1>2, <1>3, InitHolds, InitOrder, PTL DEF Spec, PrerequisitesFirst

-----------------------------------------------------------------------------
\* A plan that clones nothing can be sent again as it ended.  This also holds when an
\* owner stopped a plan, so that the invariant of the canvas is of no use here.

\* An id is that of one row, or of a clone and the provision row that mirrors it.
Mirrored(rs) ==
    \A r, s \in rs : r.id = s.id /\ ~Synthesized(s) =>
        IF Synthesized(r) THEN s.op.kind = "createVm" ELSE r = s
ListKept(rs) == AreRows(rs) /\ Bounded(rs) /\ (\A r \in rs : r.id \in Nat) /\ Mirrored(rs)
AreLinks(es) ==
    \A e \in es : /\ e = Link(e.kind, e.source, e.target, e.state)
                  /\ e.kind \in EdgeKinds /\ e.state \in {"planned", "realized"}

\* A plan without machines, of which what is not done is what the canvas still plans.
NoMachines(rs) == \A r \in rs : r.op.kind \notin {"createVm", "provision"}
CanGoOn(t, rs) ==
    /\ NoMachines(rs)
    /\ \A r, s \in rs : r.op = s.op => r = s
    /\ Valid(t) /\ Matches(t, OpsOf(Resettable(rs)))

RetryInv ==
    /\ ListKept(rows) /\ AreLinks(edges)
    /\ IF deploying
       THEN ended = NoEnd /\ ("createVm" \notin {r.op.kind : r \in rows} => CanGoOn(Topology, rows))
       ELSE ended.kinds # {} /\ "createVm" \notin ended.kinds =>
                CanGoOn(Topology, rows) /\ \A r \in rows : r.status \notin {"done", "pending"}

\* Rows are taken over, with another status or fewer dependencies.
LEMMA CarriedKept ==
    ASSUME NEW f, NEW rs, NEW next, Carries(f, rs, next), ListKept(rs)
    PROVE  ListKept(next)
  <1>1. AreRows(next) /\ \A q \in next : q.id \in Nat
    BY CarriedRow DEF ListKept, AreRows
  <1>2. Bounded(next)
    <2>1. PICK b \in Nat : \A r \in rs : r.id <= b
      BY DEF ListKept, Bounded
    <2>2. \A q \in next : q.id <= b
      BY <2>1, CarriedRow
    <2>. QED BY <2>1, <2>2 DEF Bounded
  <1>3. Mirrored(next)
    <2>. SUFFICES ASSUME NEW q \in next, NEW p \in next, q.id = p.id, ~Synthesized(p)
                  PROVE  IF Synthesized(q) THEN p.op.kind = "createVm" ELSE q = p
      BY DEF Mirrored
    <2>1. PICK r \in DOMAIN f : r \in rs /\ q = f[r] /\ q.id = r.id /\ q.op = r.op
      BY CarriedRow
    <2>2. PICK s \in DOMAIN f : s \in rs /\ p = f[s] /\ p.id = s.id /\ p.op = s.op
      BY CarriedRow
    <2>3. r.id = s.id /\ ~Synthesized(s) /\ (Synthesized(q) <=> Synthesized(r))
      BY <2>1, <2>2 DEF Synthesized
    <2>4. IF Synthesized(r) THEN s.op.kind = "createVm" ELSE r = s
      BY <2>1, <2>2, <2>3 DEF ListKept, Mirrored
    <2>. QED BY <2>1, <2>2, <2>3, <2>4
  <1>. QED BY <1>1, <1>2, <1>3 DEF ListKept

LEMMA FewerKept ==
    ASSUME NEW rs, ListKept(rs), NEW next, next \subseteq rs
    PROVE  ListKept(next)
  BY DEF ListKept, AreRows, Bounded, Mirrored

LEMMA StagedKept ==
    ASSUME NEW rs, ListKept(rs), NEW op, op.kind # "provision", NEW prev
    PROVE  ListKept(Staging(rs, op, prev))
  <1>. DEFINE new == Row(NextId(rs), op, "staged", Inferred(op, rs), prev)
  <1>1. NextId(rs) \in Nat /\ \A r \in rs : r.id \in Nat /\ r.id < NextId(rs)
    BY NextIdIsNew DEF ListKept
  <1>2. /\ new = Row(new.id, new.op, new.status, new.deps, new.prev)
        /\ new.id = NextId(rs) /\ new.op = op /\ new.status = "staged"
    BY RowFields
  <1>3. Staging(rs, op, prev) = rs \cup {new}
    BY DEF Staging
  <1>. HIDE DEF new
  <1>4. AreRows(rs \cup {new}) /\ (\A r \in rs \cup {new} : r.id \in Nat) /\ ~Synthesized(new)
    BY <1>1, <1>2 DEF ListKept, AreRows, Statuses, Synthesized
  <1>5. Bounded(rs \cup {new})
    <2>1. \A r \in rs \cup {new} : r.id <= NextId(rs)
      BY <1>1, <1>2
    <2>. QED BY <1>1, <2>1 DEF Bounded
  <1>6. Mirrored(rs \cup {new})
    <2>1. \A q \in rs : q.id # new.id
      BY <1>1, <1>2
    <2>. QED BY <2>1, <1>4 DEF ListKept, Mirrored
  <1>. QED BY <1>3, <1>4, <1>5, <1>6 DEF ListKept

\* The provision rows of a plan are listed beside it.
LEMMA MirrorsKept ==
    ASSUME NEW rs, ListKept(rs)
    PROVE  ListKept(rs \cup Mirrors(rs))
  <1>1. ASSUME NEW m \in Mirrors(rs)
        PROVE  /\ \E c \in rs : c.op.kind = "createVm" /\ m.id = c.id
               /\ m = Row(m.id, m.op, m.status, m.deps, m.prev) /\ m.status \in Statuses
               /\ Synthesized(m)
    <2>1. PICK c \in rs : /\ c.op.kind = "createVm"
                          /\ m = Row(c.id, Provision(c.op.target), "pending", {c.id}, NoNode)
      BY DEF Mirrors
    <2>2. /\ m = Row(m.id, m.op, m.status, m.deps, m.prev)
          /\ m.id = c.id /\ m.op = Provision(c.op.target) /\ m.status = "pending"
      BY <2>1, RowFields
    <2>. QED BY <2>1, <2>2, NodeOps DEF Statuses, Synthesized
  <1>2. AreRows(rs \cup Mirrors(rs)) /\ \A r \in rs \cup Mirrors(rs) : r.id \in Nat
    BY <1>1 DEF ListKept, AreRows
  <1>3. Bounded(rs \cup Mirrors(rs))
    <2>1. PICK b \in Nat : \A r \in rs : r.id <= b
      BY DEF ListKept, Bounded
    <2>2. \A r \in rs \cup Mirrors(rs) : r.id <= b
      BY <1>1, <2>1
    <2>. QED BY <2>1, <2>2 DEF Bounded
  <1>4. Mirrored(rs \cup Mirrors(rs))
    <2>. SUFFICES ASSUME NEW r \in rs \cup Mirrors(rs), NEW s \in rs \cup Mirrors(rs),
                         r.id = s.id, ~Synthesized(s)
                  PROVE  IF Synthesized(r) THEN s.op.kind = "createVm" ELSE r = s
      BY DEF Mirrored
    <2>1. s \in rs
      BY <1>1
    <2>2. CASE r \in rs
      BY <2>1, <2>2 DEF ListKept, Mirrored
    <2>3. CASE r \in Mirrors(rs)
      <3>1. PICK c \in rs : c.op.kind = "createVm" /\ r.id = c.id /\ Synthesized(r)
        BY <1>1, <2>3
      <3>2. c = s
        BY <2>1, <3>1 DEF ListKept, Mirrored, Synthesized
      <3>. QED BY <3>1, <3>2
    <2>. QED BY <2>2, <2>3
  <1>. QED BY <1>2, <1>3, <1>4 DEF ListKept

\* The edges of the canvas.
LEMMA LinkFields ==
    ASSUME NEW kind, NEW source, NEW target, NEW state
    PROVE  LET e == Link(kind, source, target, state) IN
           /\ e = Link(e.kind, e.source, e.target, e.state)
           /\ e.kind = kind /\ e.source = source /\ e.target = target /\ e.state = state
  BY DEF Link

LEMMA EdgesAreLinks ==
    ASSUME NEW ns, NEW es, AreEdges(ns, es)
    PROVE  AreLinks(es)
  <1>. SUFFICES ASSUME NEW e \in es
                PROVE  /\ e = Link(e.kind, e.source, e.target, e.state)
                       /\ e.kind \in EdgeKinds /\ e.state \in {"planned", "realized"}
    BY DEF AreLinks
  <1>1. e \in Edges(ns)
    BY DEF AreEdges
  <1>. QED BY <1>1 DEF Edges, Link

LEMMA LinksAreEdges ==
    ASSUME NEW t, AreLinks(t.edges), EdgesAreSound(t)
    PROVE  AreEdges(t.nodes, t.edges)
  <1>. SUFFICES ASSUME NEW e \in t.edges PROVE e \in Edges(t.nodes)
    BY DEF AreEdges
  <1>1. /\ e = Link(e.kind, e.source, e.target, e.state)
        /\ e.kind \in EdgeKinds /\ e.state \in {"planned", "realized"}
        /\ e.source \in t.nodes /\ e.target \in t.nodes
    BY DEF AreLinks, EdgesAreSound
  <1>. QED BY <1>1 DEF Edges, Link

LEMMA UndoneLinks ==
    ASSUME NEW gone, NEW es, AreLinks(es)
    PROVE  AreLinks(Undone(gone, es))
  <1>. SUFFICES ASSUME NEW e \in Undone(gone, es)
                PROVE  /\ e = Link(e.kind, e.source, e.target, e.state)
                       /\ e.kind \in EdgeKinds /\ e.state \in {"planned", "realized"}
    BY DEF AreLinks
  <1>1. CASE e \in es
    BY <1>1 DEF AreLinks
  <1>2. CASE \E r \in gone : e = MemberEdge(r.op.target, r.prev, "realized")
    BY <1>2, LinkFields DEF MemberEdge, EdgeKinds
  <1>. QED BY <1>1, <1>2, UndoneEdge

LEMMA CommittedLinks ==
    ASSUME NEW rs, NEW es, AreLinks(es)
    PROVE  AreLinks(Committed(rs, es))
  <1>. SUFFICES ASSUME NEW e \in Committed(rs, es)
                PROVE  /\ e = Link(e.kind, e.source, e.target, e.state)
                       /\ e.kind \in EdgeKinds /\ e.state \in {"planned", "realized"}
    BY DEF AreLinks
  <1>1. PICK d \in es : e = d \/ e = [d EXCEPT !.state = "realized"]
    BY DEF Committed
  <1>2. d = Link(d.kind, d.source, d.target, d.state) /\ d.kind \in EdgeKinds
        /\ d.state \in {"planned", "realized"}
    BY DEF AreLinks
  <1>3. [d EXCEPT !.state = "realized"] = Link(d.kind, d.source, d.target, "realized")
    BY <1>2 DEF Link
  <1>. QED BY <1>1, <1>2, <1>3, LinkFields

\* No machine shows another life for a plan without machines.
LEMMA LifeStays ==
    ASSUME NEW rs, NoMachines(rs), NEW n, NEW shown
    PROVE  LifeShown(rs, n, shown) = shown
  <1>1. StatusOf(rs, Create(n)) = {} /\ StatusOf(rs, Provision(n)) = {}
    BY NodeOps DEF NoMachines, StatusOf
  <1>. QED BY <1>1 DEF LifeShown

\* The topology of a canvas on which only edges have been committed.
Recommitted(t, rs, u) ==
    /\ u.nodes = t.nodes /\ u.role = t.role /\ u.ocspOff = t.ocspOff /\ u.realized = t.realized
    /\ u.edges = Committed(rs, t.edges)

\* What is committed keeps a topology valid.
LEMMA StaysValid ==
    ASSUME NEW t, AreLinks(t.edges), Valid(t), NEW rs, NEW u, Recommitted(t, rs, u)
    PROVE  Valid(u)
  <1>1. AreEdges(t.nodes, t.edges)
    BY LinksAreEdges DEF Valid
  <1>2. CasFit(u)
    BY <1>1, CasStayFit DEF Valid, CasFit, Recommitted
  <1>3. ASSUME NEW e \in u.edges
        PROVE  \E d \in t.edges :
                  /\ e.kind = d.kind /\ e.source = d.source /\ e.target = d.target
                  /\ e = IF \E r \in rs : r.op = OpOf(d) /\ r.status = "done"
                         THEN [d EXCEPT !.state = "realized"] ELSE d
    BY <1>1, <1>3, CommittedEdge DEF Recommitted
  <1>4. \A d \in t.edges : \E e \in u.edges :
            e.kind = d.kind /\ e.source = d.source /\ e.target = d.target
    BY <1>1, ShownAgain DEF Recommitted
  <1>5. EdgesAreSound(u)
    <2>1. \A e \in u.edges : e.source \in u.nodes /\ e.target \in u.nodes /\ e.source # e.target
      BY <1>3 DEF Valid, EdgesAreSound, Recommitted
    <2>2. ASSUME NEW e \in u.edges, NEW f \in u.edges, SameRelationship(e, f) PROVE e = f
      <3>1. PICK d \in t.edges :
                /\ e.kind = d.kind /\ e.source = d.source /\ e.target = d.target
                /\ e = IF \E r \in rs : r.op = OpOf(d) /\ r.status = "done"
                       THEN [d EXCEPT !.state = "realized"] ELSE d
        BY <1>3
      <3>2. PICK g \in t.edges :
                /\ f.kind = g.kind /\ f.source = g.source /\ f.target = g.target
                /\ f = IF \E r \in rs : r.op = OpOf(g) /\ r.status = "done"
                       THEN [g EXCEPT !.state = "realized"] ELSE g
        BY <1>3
      <3>3. d = g
        BY <2>2, <3>1, <3>2 DEF SameRelationship, Valid, EdgesAreSound
      <3>. QED BY <3>1, <3>2, <3>3
    <2>. QED BY <2>1, <2>2 DEF EdgesAreSound
  <1>6. ASSUME NEW e \in u.edges, NEW f \in u.edges,
               e.kind = f.kind,
               \/ e.kind = "domainMembership" /\ e.source = f.source
               \/ e.kind = "caParent" /\ e.target = f.target
        PROVE  e = f
    <2>1. PICK d \in t.edges : e.kind = d.kind /\ e.source = d.source /\ e.target = d.target
      BY <1>3
    <2>2. PICK g \in t.edges : f.kind = g.kind /\ f.source = g.source /\ f.target = g.target
      BY <1>3
    <2>3. d = g
      <3>1. CASE e.kind = "domainMembership" /\ e.source = f.source
        <4>1. d \in Memberships(t) /\ g \in Memberships(t) /\ d.source = g.source
          BY <1>6, <2>1, <2>2, <3>1 DEF Memberships
        <4>. QED BY <4>1 DEF Valid, OneDomain
      <3>2. CASE e.kind = "caParent" /\ e.target = f.target
        <4>1. d \in CaParents(t) /\ g \in CaParents(t) /\ d.target = g.target
          BY <1>6, <2>1, <2>2, <3>2 DEF CaParents
        <4>. QED BY <4>1 DEF Valid, OneParent
      <3>. QED BY <1>6, <3>1, <3>2
    <2>. QED BY <1>5, <2>1, <2>2, <2>3 DEF EdgesAreSound, SameRelationship
  <1>7. OneDomain(u) /\ OneParent(u)
    BY <1>6 DEF OneDomain, OneParent, Memberships, CaParents
  <1>8. \A n : DomainsOf(u, n) = DomainsOf(t, n)
    BY <1>3, <1>4 DEF DomainsOf, Memberships
  <1>9. \A n \in RoleIs(u, "client") : DomainsOf(u, n) # {}
    BY <1>8 DEF Valid, RoleIs, Recommitted
  <1>10. \A n \in RoleIs(u, "webServer") \ u.ocspOff : \E e \in Publications(u) : e.target = n
    <2>. SUFFICES ASSUME NEW n \in RoleIs(u, "webServer") \ u.ocspOff
                  PROVE  \E e \in Publications(u) : e.target = n
      OBVIOUS
    <2>1. PICK d \in Publications(t) : d.target = n
      BY DEF Valid, RoleIs, Recommitted
    <2>. QED BY <1>4, <2>1 DEF Publications
  <1>. QED BY <1>2, <1>5, <1>7, <1>9, <1>10 DEF Valid, CasFit

\* A plan without machines goes on: what it has done is no longer planned.
LEMMA PlanStillMatches ==
    ASSUME NEW t, AreLinks(t.edges), NEW f, NEW rs, NEW next, Advances(f, rs, next),
           CanGoOn(t, rs), NEW u, Recommitted(t, next, u)
    PROVE  CanGoOn(u, next)
  <1>1. AreEdges(t.nodes, t.edges)
    BY LinksAreEdges DEF CanGoOn, Valid
  <1>2. ASSUME NEW q \in next
        PROVE  \E r \in rs : q = f[r] /\ q.op = r.op /\ (r.status = "done" => q.status = "done")
    BY AdvancedRow
  <1>3. NoMachines(next)
    BY <1>2 DEF CanGoOn, NoMachines
  <1>4. ASSUME NEW q \in next, NEW p \in next, q.op = p.op PROVE q = p
    <2>1. PICK r \in rs : q = f[r] /\ q.op = r.op
      BY <1>2
    <2>2. PICK s \in rs : p = f[s] /\ p.op = s.op
      BY <1>2
    <2>. QED BY <1>4, <2>1, <2>2 DEF CanGoOn
  <1>5. Valid(u)
    BY StaysValid DEF CanGoOn
  <1>6. OpsOf(Resettable(next)) \subseteq OpsOf(Resettable(rs))
    BY <1>2 DEF OpsOf, Resettable
  <1>7. ASSUME NEW e \in u.edges
        PROVE  \E d \in t.edges :
                  /\ OpOf(e) = OpOf(d)
                  /\ e = d \/ (e.state = "realized" /\ \E r \in next : r.op = OpOf(d) /\ r.status = "done")
                  /\ (\E r \in next : r.op = OpOf(d) /\ r.status = "done") => e.state = "realized"
    BY <1>1, <1>7, CommittedEdge DEF Recommitted
  <1>8. \A d \in t.edges : \E e \in u.edges : OpOf(e) = OpOf(d)
    BY <1>1, ShownAgain DEF Recommitted
  <1>9. EdgeOps(u) = EdgeOps(t)
    BY <1>7, <1>8 DEF EdgeOps
  <1>10. OpsOf(Resettable(next)) \cap RealizedOps(u) = {}
    <2>. SUFFICES ASSUME NEW q \in Resettable(next), q.op \in RealizedOps(u) PROVE FALSE
      BY DEF OpsOf
    <2>1. q \in next /\ q.status # "done" /\ q.op \in OpsOf(Resettable(rs))
      BY <1>6 DEF Resettable, OpsOf
    <2>2. q.op \notin RealizedOps(t)
      BY <2>1 DEF CanGoOn, Matches
    <2>3. PICK e \in u.edges : e.state = "realized" /\ q.op = OpOf(e)
      BY <2>2 DEF RealizedOps, Recommitted
    <2>4. PICK d \in t.edges :
              /\ OpOf(e) = OpOf(d)
              /\ e = d \/ \E r \in next : r.op = OpOf(d) /\ r.status = "done"
      BY <1>7
    <2>5. CASE e = d
      BY <2>2, <2>3, <2>5 DEF RealizedOps
    <2>6. CASE \E r \in next : r.op = OpOf(d) /\ r.status = "done"
      BY <1>4, <2>1, <2>3, <2>4, <2>6
    <2>. QED BY <2>4, <2>5, <2>6
  <1>11. PlannedOps(u) \subseteq OpsOf(Resettable(next))
    <2>. SUFFICES ASSUME NEW o \in PlannedOps(u) PROVE o \in OpsOf(Resettable(next))
      OBVIOUS
    <2>1. o \in PlannedOps(t) /\ ~\E r \in next : r.op = o /\ r.status = "done"
      <3>1. CASE \E n \in u.nodes \ u.realized : o = Create(n)
        <4>1. o.kind = "createVm"
          BY <3>1, NodeOps
        <4>. QED BY <1>3, <3>1, <4>1 DEF PlannedOps, Recommitted, NoMachines
      <3>2. CASE \E e \in u.edges : e.state = "planned" /\ o = OpOf(e)
        <4>1. PICK e \in u.edges : e.state = "planned" /\ o = OpOf(e)
          BY <3>2
        <4>2. PICK d \in t.edges :
                  /\ OpOf(e) = OpOf(d)
                  /\ e = d \/ e.state = "realized"
                  /\ (\E r \in next : r.op = OpOf(d) /\ r.status = "done") => e.state = "realized"
          BY <1>7
        <4>. QED BY <1>7, <4>1, <4>2 DEF PlannedOps
      <3>. QED BY <3>1, <3>2 DEF PlannedOps
    <2>2. PICK r \in rs : r.op = o
      BY <2>1 DEF CanGoOn, Matches, OpsOf, Resettable
    <2>3. f[r] \in next /\ f[r].op = o
      BY <2>2, AdvancedRow
    <2>4. f[r] \in Resettable(next)
      BY <2>1, <2>3 DEF Resettable
    <2>. QED BY <2>3, <2>4 DEF OpsOf
  <1>12. Matches(u, OpsOf(Resettable(next)))
    <2>1. Matches(t, OpsOf(Resettable(rs)))
      BY DEF CanGoOn
    <2>2. u.nodes = t.nodes
      BY DEF Recommitted
    <2>. QED BY <1>6, <1>9, <1>10, <1>11, <2>1, <2>2 DEF Matches
  <1>. QED BY <1>3, <1>4, <1>5, <1>12 DEF CanGoOn

\* What is left of a plan without machines, under whatever status.
Remains(g, rs, next) ==
    /\ next = {g[r] : r \in Resettable(rs)}
    /\ \A r \in Resettable(rs) : g[r].op = r.op /\ g[r].status # "done"

LEMMA RemainderGoesOn ==
    ASSUME NEW t, NEW rs, CanGoOn(t, rs), NEW g, NEW next, Remains(g, rs, next)
    PROVE  CanGoOn(t, next)
  <1>1. Resettable(rs) \subseteq rs
    BY DEF Resettable
  <1>2. \A q \in next : \E r \in Resettable(rs) : q = g[r] /\ q.op = r.op /\ q.status # "done"
    BY DEF Remains
  <1>3. NoMachines(next)
    BY <1>1, <1>2 DEF CanGoOn, NoMachines
  <1>4. ASSUME NEW q \in next, NEW p \in next, q.op = p.op PROVE q = p
    <2>1. PICK r \in Resettable(rs) : q = g[r] /\ q.op = r.op
      BY <1>2
    <2>2. PICK s \in Resettable(rs) : p = g[s] /\ p.op = s.op
      BY <1>2
    <2>. QED BY <1>1, <1>4, <2>1, <2>2 DEF CanGoOn
  <1>5. Resettable(next) = next
    BY <1>2 DEF Resettable
  <1>6. OpsOf(next) = OpsOf(Resettable(rs))
    <2>1. \A r \in Resettable(rs) : g[r] \in next /\ g[r].op = r.op
      BY DEF Remains
    <2>. QED BY <1>2, <2>1 DEF OpsOf
  <1>. QED BY <1>3, <1>4, <1>5, <1>6 DEF CanGoOn

LEMMA FinishedGoesOn ==
    ASSUME NEW t, NEW rs, AreRows(rs), CanGoOn(t, rs), \A r \in rs : r.status # "pending"
    PROVE  /\ CanGoOn(t, Finished(rs))
           /\ \A q \in Finished(rs) : q.status \notin {"done", "pending"}
  <1>. DEFINE failed == {r.id : r \in {s \in rs : Synthesized(s) /\ s.status = "error"}}
              g == [r \in Resettable(rs) |->
                      IF r.status = "cancelled" THEN [r EXCEPT !.status = "staged"] ELSE r]
  <1>1. \A r \in rs : ~Synthesized(r)
    BY DEF CanGoOn, NoMachines, Synthesized
  <1>2. {s \in rs : s.status # "done" \/ s.id \in failed} = Resettable(rs)
    BY <1>1 DEF Resettable
  <1>3. Finished(rs) = {g[r] : r \in Resettable(rs)}
    BY <1>2 DEF Finished
  <1>4. ASSUME NEW r \in Resettable(rs)
        PROVE  g[r].op = r.op /\ g[r].status \notin {"done", "pending"}
    <2>1. r \in rs /\ r.status \notin {"done", "pending"}
      BY DEF Resettable
    <2>2. [r EXCEPT !.status = "staged"] = Row(r.id, r.op, "staged", r.deps, r.prev)
      BY <2>1, RewrittenRow DEF AreRows
    <2>. QED BY <2>1, <2>2 DEF Row
  <1>. HIDE DEF g
  <1>5. Remains(g, rs, Finished(rs))
    BY <1>3, <1>4 DEF Remains
  <1>. QED BY <1>3, <1>4, <1>5, RemainderGoesOn

LEMMA RevertedGoesOn ==
    ASSUME NEW t, NEW rs, AreRows(rs), CanGoOn(t, rs)
    PROVE  /\ CanGoOn(t, Reverted(rs))
           /\ \A q \in Reverted(rs) : q.status \notin {"done", "pending"}
  <1>. DEFINE g == [r \in Resettable(rs) |-> [r EXCEPT !.status = "staged"]]
  <1>1. Sent(Resettable(rs)) = Resettable(rs)
    BY DEF CanGoOn, NoMachines, Sent, Synthesized, Resettable
  <1>2. Reverted(rs) = {g[r] : r \in Resettable(rs)}
    BY <1>1 DEF Reverted
  <1>3. ASSUME NEW r \in Resettable(rs)
        PROVE  g[r].op = r.op /\ g[r].status = "staged"
    <2>1. r \in rs
      BY DEF Resettable
    <2>2. [r EXCEPT !.status = "staged"] = Row(r.id, r.op, "staged", r.deps, r.prev)
      BY <2>1, RewrittenRow DEF AreRows
    <2>. QED BY <2>2 DEF Row
  <1>. HIDE DEF g
  <1>4. Remains(g, rs, Reverted(rs))
    BY <1>2, <1>3 DEF Remains
  <1>. QED BY <1>2, <1>3, <1>4, RemainderGoesOn

\* It is accepted, unless nothing is left of it.
LEMMA RemainderCompiles ==
    ASSUME NEW t, NEW rs, CanGoOn(t, rs), rs # {}, \A r \in rs : r.status # "done"
    PROVE  Compiles(t, Sent(Prepared(rs, "pending")))
  <1>. DEFINE next == Prepared(rs, "pending")
              g == [r \in rs |-> Row(r.id, r.op, "pending", r.deps \cap {s.id : s \in rs}, r.prev)]
  <1>1. Resettable(rs) = rs
    BY DEF Resettable
  <1>2. {r \in Resettable(rs) : Synthesized(r) => \E s \in Sent(Resettable(rs)) : s.id = r.id} = rs
    BY <1>1 DEF CanGoOn, NoMachines, Synthesized
  <1>3. next = {g[r] : r \in rs}
    BY <1>2 DEF Prepared
  <1>4. \A r \in rs : g[r].op = r.op /\ g[r].status = "pending"
    BY DEF Row
  <1>. HIDE DEF g, next
  <1>5. Remains(g, rs, next)
    BY <1>1, <1>3, <1>4 DEF Remains
  <1>6. CanGoOn(t, next)
    BY <1>5, RemainderGoesOn
  <1>7. Sent(next) = next /\ Resettable(next) = next /\ next # {}
    BY <1>3, <1>4, <1>6 DEF CanGoOn, NoMachines, Sent, Synthesized, Resettable
  <1>8. Compiles(t, Sent(next))
    BY <1>6, <1>7 DEF CanGoOn, Compiles, OpsOf
  <1>. QED BY <1>8 DEF next

LEMMA RetriesAreAccepted == RetryInv => EditsCanBeRetried
  <1>. SUFFICES ASSUME RetryInv, ended.kinds # {}, "createVm" \notin ended.kinds, rows # {}
                PROVE  Accepted(Prepared(rows, "pending"))
    BY DEF EditsCanBeRetried, Retries
  <1>1. CanGoOn(Topology, rows) /\ \A r \in rows : r.status # "done"
    BY DEF RetryInv, NoEnd
  <1>. QED BY <1>1, RemainderCompiles DEF Accepted

-----------------------------------------------------------------------------
\* A frame of a plan in flight is shown.
LEMMA ShownRetry ==
    ASSUME RetryInv, NEW f, NEW next, Advances(f, rows, next),
           rows' = next, edges' = Committed(next, edges), life' = LivesShown(lab.nodes, next, life),
           lab' = lab, deploying' = deploying, ended' = ended,
           deploying \/ \E r \in rows : r.status = "pending"
    PROVE  RetryInv'
  <1>. DEFINE t == Topology  u == Topology'
  <1>1. ListKept(next)
    BY CarriedKept DEF RetryInv, Advances
  <1>2. AreLinks(edges) /\ AreLinks(Committed(next, edges))
    BY CommittedLinks DEF RetryInv
  <1>3. CASE deploying
    <2>1. {r.op.kind : r \in next} = {r.op.kind : r \in rows}
      BY AdvancedRow
    <2>2. ASSUME "createVm" \notin {r.op.kind : r \in rows} PROVE CanGoOn(u, next)
      <3>1. CanGoOn(t, rows)
        BY <1>3, <2>2 DEF RetryInv
      <3>2. NoMachines(next)
        BY <3>1, AdvancedRow DEF CanGoOn, NoMachines
      <3>3. \A n \in lab.nodes : life'[n] = life[n]
        BY <3>2, LifeStays DEF LivesShown
      <3>4. /\ u.nodes = t.nodes /\ u.role = t.role /\ u.ocspOff = t.ocspOff
            /\ u.realized = t.realized /\ t.edges = edges /\ u.edges = Committed(next, edges)
        BY <3>3 DEF Topology
      <3>. HIDE DEF t, u
      <3>5. Recommitted(t, next, u) /\ AreLinks(t.edges)
        BY <1>2, <3>4 DEF Recommitted
      <3>. QED BY <3>1, <3>5, PlanStillMatches
    <2>. QED BY <1>1, <1>2, <1>3, <2>1, <2>2 DEF RetryInv
  <1>4. CASE ~deploying
    <2>1. ~(ended.kinds # {} /\ "createVm" \notin ended.kinds)
      BY <1>4 DEF RetryInv
    <2>. QED BY <1>1, <1>2, <1>4, <2>1 DEF RetryInv
  <1>. QED BY <1>3, <1>4

LEMMA SucceedRetry ==
    ASSUME RetryInv, NEW row \in rows, Succeed(row)
    PROVE  RetryInv'
  <1>. DEFINE next == (rows \ {row}) \cup {[row EXCEPT !.status = "done"]}
              f == [r \in rows |-> IF r = row THEN [r EXCEPT !.status = "done"] ELSE r]
  <1>1. row.status = "pending"
    BY DEF Succeed, MayRun, Pending
  <1>2. /\ rows' = next /\ edges' = Committed(next, edges)
        /\ life' = LivesShown(lab.nodes, next, life)
        /\ lab' = lab /\ deploying' = deploying /\ ended' = ended
    BY DEF Succeed, Shows, LivesShown
  <1>3. Succeeds(f, rows, row)
    BY DEF Succeeds
  <1>4. AreRows(rows)
    BY DEF RetryInv, ListKept
  <1>. HIDE DEF f
  <1>5. Advances(f, rows, next)
    BY <1>1, <1>3, <1>4, SucceedAdvances
  <1>. HIDE DEF next
  <1>. QED BY <1>1, <1>2, <1>5, ShownRetry

LEMMA FailRetry ==
    ASSUME RetryInv, NEW row \in rows, Fail(row)
    PROVE  RetryInv'
  <1>. DEFINE gone == Cascade(row)
              f == [r \in rows |-> IF r = row THEN [r EXCEPT !.status = "error"]
                                   ELSE IF r \in gone THEN [r EXCEPT !.status = "cancelled"] ELSE r]
              next == {f[r] : r \in rows}
  <1>1. Runnable(rows, row) /\ row.status = "pending"
    BY MayRunMeans DEF Fail, Runnable
  <1>2. /\ rows' = next /\ edges' = Committed(next, edges)
        /\ life' = LivesShown(lab.nodes, next, life)
        /\ lab' = lab /\ deploying' = deploying /\ ended' = ended
    <2>1. next = {IF r = row THEN [r EXCEPT !.status = "error"]
                  ELSE IF r \in gone THEN [r EXCEPT !.status = "cancelled"] ELSE r : r \in rows}
      OBVIOUS
    <2>. QED BY <2>1 DEF Fail, Shows, LivesShown
  <1>3. Fails(f, rows, row, gone, next)
    BY DEF Fails
  <1>4. \A r \in gone : r.status = "pending"
    BY <1>1, CascadeMeans DEF Cascade
  <1>5. AreRows(rows)
    BY DEF RetryInv, ListKept
  <1>. HIDE DEF f, gone, next
  <1>6. Advances(f, rows, next)
    BY <1>1, <1>3, <1>4, <1>5, FailAdvances
  <1>. QED BY <1>1, <1>2, <1>6, ShownRetry

LEMMA OwnerRetry ==
    ASSUME RetryInv, StopByOwner
    PROVE  RetryInv'
  <1>1. /\ rows' = Skipped /\ edges' = Committed(Skipped, edges)
        /\ life' = LivesShown(lab.nodes, Skipped, life)
        /\ lab' = lab /\ deploying' = deploying /\ ended' = ended /\ deploying
    BY DEF StopByOwner, Shows, LivesShown
  <1>2. PICK f : Advances(f, rows, Skipped)
    BY SkippedAdvances DEF RetryInv, ListKept
  <1>. QED BY <1>1, <1>2, ShownRetry

\* An administrator stops it: what was not done is staged again.
LEMMA AdminRetry ==
    ASSUME RetryInv, StopByAdmin
    PROVE  RetryInv'
  <1>. DEFINE t == Topology  u == Topology'
  <1>1. /\ rows' = Reverted(Skipped) /\ edges' = Committed(Skipped, edges)
        /\ lab' = lab /\ deploying /\ ~deploying' /\ ended'.kinds = {r.op.kind : r \in rows}
        /\ \A n \in lab.nodes :
              life'[n] = IF {Create(n), Provision(n)} \cap OpsOf(Resettable(Skipped)) # {}
                         THEN "staged" ELSE LifeShown(Skipped, n, life[n])
    BY DEF StopByAdmin, Ends
  <1>2. PICK f : Advances(f, rows, Skipped)
    BY SkippedAdvances DEF RetryInv, ListKept
  <1>3. ListKept(Skipped) /\ AreRows(Skipped)
    BY <1>2, CarriedKept DEF RetryInv, Advances, ListKept
  <1>4. ListKept(Reverted(Skipped))
    BY <1>3, RevertedSettles, CarriedKept DEF Settles
  <1>5. AreLinks(edges) /\ AreLinks(Committed(Skipped, edges))
    BY CommittedLinks DEF RetryInv
  <1>6. ASSUME "createVm" \notin {r.op.kind : r \in rows}
        PROVE  /\ CanGoOn(u, Reverted(Skipped))
               /\ \A r \in Reverted(Skipped) : r.status \notin {"done", "pending"}
    <2>1. CanGoOn(t, rows)
      BY <1>1, <1>6 DEF RetryInv
    <2>2. NoMachines(Skipped)
      BY <1>2, <2>1, AdvancedRow DEF CanGoOn, NoMachines
    <2>3. \A n : {Create(n), Provision(n)} \cap OpsOf(Resettable(Skipped)) = {}
      BY <2>2, NodeOps DEF NoMachines, OpsOf, Resettable
    <2>4. \A n \in lab.nodes : life'[n] = life[n]
      BY <1>1, <2>2, <2>3, LifeStays
    <2>5. /\ u.nodes = t.nodes /\ u.role = t.role /\ u.ocspOff = t.ocspOff
          /\ u.realized = t.realized /\ t.edges = edges /\ u.edges = Committed(Skipped, edges)
      BY <1>1, <2>4 DEF Topology
    <2>. HIDE DEF t, u
    <2>6. Recommitted(t, Skipped, u) /\ AreLinks(t.edges)
      BY <1>5, <2>5 DEF Recommitted
    <2>7. CanGoOn(u, Skipped)
      BY <1>2, <2>1, <2>6, PlanStillMatches
    <2>. QED BY <1>3, <2>7, RevertedGoesOn
  <1>. QED BY <1>1, <1>4, <1>5, <1>6 DEF RetryInv

\* It ends: what is done leaves the list.
LEMMA FinishRetry ==
    ASSUME RetryInv, Finish
    PROVE  RetryInv'
  <1>1. /\ rows' = Finished(rows) /\ edges' = edges /\ life' = life /\ lab' = lab
        /\ deploying /\ ~deploying' /\ ended'.kinds = {r.op.kind : r \in rows}
        /\ \A r \in rows : r.status # "pending"
    BY DEF Finish, Ends, Pending
  <1>2. AreRows(rows) /\ ListKept(rows) /\ AreLinks(edges)
    BY DEF RetryInv, ListKept
  <1>3. ListKept(Finished(rows))
    BY <1>2, FinishedSettles, CarriedKept DEF Settles
  <1>4. Topology' = Topology
    BY <1>1 DEF Topology
  <1>5. ASSUME "createVm" \notin {r.op.kind : r \in rows}
        PROVE  /\ CanGoOn(Topology, Finished(rows))
               /\ \A r \in Finished(rows) : r.status \notin {"done", "pending"}
    BY <1>1, <1>2, <1>5, FinishedGoesOn DEF RetryInv
  <1>. QED BY <1>1, <1>2, <1>3, <1>4, <1>5 DEF RetryInv

\* A provision row is sent beside its clone only, so that an accepted plan without
\* clones is one without machines.
LEMMA PreparedMachines ==
    ASSUME NEW rs, ListKept(rs), NEW status,
           "createVm" \notin {r.op.kind : r \in Prepared(rs, status)}
    PROVE  NoMachines(Prepared(rs, status))
  <1>. DEFINE kept == {r \in Resettable(rs) :
                          Synthesized(r) => \E s \in Sent(Resettable(rs)) : s.id = r.id}
              P(r) == Row(r.id, r.op, status, r.deps \cap {s.id : s \in kept}, r.prev)
  <1>1. Prepared(rs, status) = {P(r) : r \in kept}
    BY DEF Prepared
  <1>2. \A r \in kept : P(r).op = r.op
    BY DEF Row
  <1>. HIDE DEF P
  <1>3. \A r \in kept : r.op.kind # "createVm"
    BY <1>1, <1>2
  <1>4. ASSUME NEW r \in kept PROVE ~Synthesized(r)
    <2>. SUFFICES ASSUME Synthesized(r) PROVE FALSE
      OBVIOUS
    <2>1. PICK s \in Sent(Resettable(rs)) : s.id = r.id
      OBVIOUS
    <2>2. s \in rs /\ r \in rs /\ ~Synthesized(s) /\ s \in kept
      BY DEF Sent, Resettable
    <2>3. s.op.kind = "createVm"
      BY <2>1, <2>2 DEF ListKept, Mirrored
    <2>. QED BY <1>3, <2>2, <2>3
  <1>. QED BY <1>1, <1>2, <1>3, <1>4 DEF NoMachines, Synthesized

LEMMA DeployRetry ==
    ASSUME RetryInv, Deploy
    PROVE  RetryInv'
  <1>. DEFINE sent == Prepared(rows, "pending")
  <1>1. /\ edges' = edges /\ life' = life /\ lab' = lab /\ ended' = NoEnd /\ ~deploying
        /\ ListKept(rows) /\ AreRows(rows) /\ AreLinks(edges)
    BY DEF Deploy, RetryInv, ListKept
  <1>2. \A status \in Statuses : ListKept(Prepared(rows, status))
    BY <1>1, PreparedSettles, CarriedKept DEF Settles
  <1>3. ListKept(sent) /\ ListKept(Prepared(rows, "staged"))
    BY <1>2 DEF Statuses
  <1>4. CASE Accepted(sent)
    <2>1. rows' = sent \cup Mirrors(sent) /\ deploying'
      BY <1>4 DEF Deploy
    <2>2. \A r \in sent : r.status = "pending"
      BY DEF Prepared, Row
    <2>. HIDE DEF sent
    <2>3. ListKept(rows')
      BY <1>3, <2>1, MirrorsKept
    <2>4. Topology' = Topology
      BY <1>1 DEF Topology
    <2>5. ASSUME "createVm" \notin {r.op.kind : r \in rows'} PROVE CanGoOn(Topology, rows')
      <3>1. "createVm" \notin {r.op.kind : r \in sent}
        BY <2>1, <2>5
      <3>2. Mirrors(sent) = {} /\ rows' = sent
        BY <2>1, <3>1 DEF Mirrors
      <3>3. NoMachines(sent)
        BY <1>1, <3>1, PreparedMachines DEF sent
      <3>4. Sent(sent) = sent /\ Resettable(sent) = sent
        BY <2>2, <3>3 DEF NoMachines, Sent, Synthesized, Resettable
      <3>5. /\ Valid(Topology) /\ Matches(Topology, {r.op : r \in Sent(sent)})
            /\ \A r, s \in Sent(sent) : r.op = s.op => r = s
        BY <1>4 DEF Accepted, Compiles
      <3>. QED BY <3>2, <3>3, <3>4, <3>5 DEF CanGoOn, OpsOf
    <2>. QED BY <1>1, <2>1, <2>3, <2>4, <2>5 DEF RetryInv
  <1>5. CASE ~Accepted(sent)
    <2>1. rows' = Prepared(rows, "staged") /\ deploying' = deploying
      BY <1>5 DEF Deploy
    <2>. HIDE DEF sent
    <2>. QED BY <1>1, <1>3, <2>1 DEF RetryInv, NoEnd
  <1>. QED BY <1>4, <1>5

\* An edit forgets the plan that ended.
LEMMA EditRetry ==
    ASSUME MayEdit, ListKept(rows'), AreLinks(edges')
    PROVE  RetryInv'
  BY DEF MayEdit, RetryInv, NoEnd

LEMMA ConfigureRetry ==
    ASSUME RetryInv, NEW n \in lab.nodes, Configure(n)
    PROVE  RetryInv'
  <1>1. MayEdit /\ rows' = Staging(rows, Create(n), NoNode) /\ edges' = edges
    BY DEF Configure
  <1>2. ListKept(rows) /\ AreLinks(edges)
    BY DEF RetryInv
  <1>3. ListKept(rows')
    BY <1>1, <1>2, NodeOps, StagedKept
  <1>. QED BY <1>1, <1>2, <1>3, EditRetry

LEMMA ConnectRetry ==
    ASSUME RetryInv, NEW e \in Edges(lab.nodes), Connect(e)
    PROVE  RetryInv'
  <1>1. /\ MayEdit /\ edges' = edges \cup {e}
        /\ rows' = rows \/ rows' = Staging(rows, OpOf(e), NoNode)
    BY DEF Connect
  <1>2. ListKept(rows) /\ AreLinks(edges)
    BY DEF RetryInv
  <1>3. OpOf(e).kind # "provision"
    BY DrawnOp
  <1>4. ListKept(rows')
    BY <1>1, <1>2, <1>3, StagedKept
  <1>5. AreLinks({e})
    BY EdgesAreLinks DEF AreEdges
  <1>6. AreLinks(edges')
    BY <1>1, <1>2, <1>5 DEF AreLinks
  <1>. QED BY <1>1, <1>4, <1>6, EditRetry

LEMMA RemoveRetry ==
    ASSUME RetryInv, NEW row \in rows, Remove(row)
    PROVE  RetryInv'
  <1>1. PICK gone : MayEdit /\ rows' = rows \ gone /\ edges' = Undone(gone, edges)
    BY DEF Remove
  <1>2. ListKept(rows) /\ AreLinks(edges)
    BY DEF RetryInv
  <1>3. ListKept(rows') /\ AreLinks(edges')
    BY <1>1, <1>2, FewerKept, UndoneLinks
  <1>. QED BY <1>1, <1>3, EditRetry

LEMMA RetargetRetry ==
    ASSUME RetryInv, NEW n \in lab.nodes, NEW dc \in lab.nodes \cup {NoNode}, Retarget(n, dc)
    PROVE  RetryInv'
  <1>. DEFINE joins == {r \in rows : r.op.kind = "domainJoin" /\ r.op.target = n}
              left == Undone(joins, edges \ {e \in Memberships(Topology) : e.source = n})
              kept(prev) == IF prev = NoNode \/ joins # {} THEN rows \ joins
                            ELSE Staging(rows \ joins, Leave(n), prev)
              carried(prev) == IF joins = {} THEN prev ELSE NoNode
  <1>1. PICK prev :
            /\ MayEdit
            /\ \/ rows' = kept(prev) /\ edges' = left
               \/ /\ rows' = Staging(kept(prev), Op("domainJoin", n, dc), carried(prev))
                  /\ edges' = left \cup {MemberEdge(n, dc, "planned")}
    BY DEF Retarget
  <1>2. ListKept(rows) /\ AreLinks(edges)
    BY DEF RetryInv
  <1>3. ListKept(kept(prev))
    <2>1. ListKept(rows \ joins)
      BY <1>2, FewerKept
    <2>2. ListKept(Staging(rows \ joins, Leave(n), prev))
      BY <2>1, NodeOps, StagedKept
    <2>. QED BY <2>1, <2>2
  <1>4. AreLinks(left)
    <2>1. AreLinks(edges \ {e \in Memberships(Topology) : e.source = n})
      BY <1>2 DEF AreLinks
    <2>. QED BY <2>1, UndoneLinks
  <1>. HIDE DEF kept, left
  <1>5. ListKept(Staging(kept(prev), Op("domainJoin", n, dc), carried(prev)))
    BY <1>3, OpFields, StagedKept
  <1>6. AreLinks({MemberEdge(n, dc, "planned")})
    BY LinkFields DEF AreLinks, MemberEdge, EdgeKinds
  <1>7. AreLinks(left \cup {MemberEdge(n, dc, "planned")})
    BY <1>4, <1>6 DEF AreLinks
  <1>. QED BY <1>1, <1>3, <1>4, <1>5, <1>7, EditRetry

\* An agent comes online: the machine stays realized.
LEMMA PromoteRetry ==
    ASSUME RetryInv, NEW n \in lab.nodes, Promote(n)
    PROVE  RetryInv'
  <1>1. /\ lab' = lab /\ rows' = rows /\ edges' = edges /\ deploying' = deploying /\ ended' = ended
        /\ life[n] = "provisioning" /\ life' = [life EXCEPT ![n] = "deployed"]
    BY DEF Promote
  <1>2. \A m \in lab.nodes : life'[m] \in {"provisioning", "deployed"}
                                <=> life[m] \in {"provisioning", "deployed"}
    BY <1>1
  <1>3. Topology' = Topology
    BY <1>1, <1>2 DEF Topology
  <1>. QED BY <1>1, <1>3 DEF RetryInv

LEMMA InitRetry == Init => RetryInv
  <1>. SUFFICES ASSUME Init PROVE RetryInv
    OBVIOUS
  <1>1. ~strayed /\ ~deploying /\ ended = NoEnd
    BY DEF Init
  <1>2. Listed(lab.nodes, rows) /\ AreEdges(lab.nodes, edges)
    BY <1>1, InitHolds DEF DeploysInv, CanvasHolds
  <1>3. Mirrored(rows)
    BY <1>2, NodeOps DEF Listed, Identified, Mirrored
  <1>4. ListKept(rows)
    BY <1>2, <1>3, ListedRows DEF ListKept, Listed, WellFormed
  <1>. QED BY <1>1, <1>2, <1>4, EdgesAreLinks DEF RetryInv, NoEnd

\* Every step keeps it.
LEMMA RetryHolds == RetryInv /\ [Next]_vars => RetryInv'
  <1>. SUFFICES ASSUME RetryInv, [Next]_vars PROVE RetryInv'
    OBVIOUS
  <1>1. CASE UNCHANGED vars
    BY <1>1 DEF RetryInv, Topology, vars
  <1>2. ASSUME NEW n \in lab.nodes, Configure(n) \/ Promote(n) PROVE RetryInv'
    BY <1>2, ConfigureRetry, PromoteRetry
  <1>3. ASSUME NEW n \in lab.nodes, NEW dc \in lab.nodes \cup {NoNode}, Retarget(n, dc)
        PROVE  RetryInv'
    BY <1>3, RetargetRetry
  <1>4. ASSUME NEW e \in Edges(lab.nodes), Connect(e) PROVE RetryInv'
    BY <1>4, ConnectRetry
  <1>5. ASSUME NEW row \in rows, Remove(row) \/ Succeed(row) \/ Fail(row) PROVE RetryInv'
    BY <1>5, RemoveRetry, SucceedRetry, FailRetry
  <1>6. CASE Deploy \/ StopByOwner \/ StopByAdmin \/ Finish
    BY <1>6, DeployRetry, OwnerRetry, AdminRetry, FinishRetry
  <1>. QED BY <1>1, <1>2, <1>3, <1>4, <1>5, <1>6 DEF Next

\* A plan that clones nothing can be sent again as it ended, whatever of it failed, and
\* whoever stopped it (finishDeploy, revertNonTerminalToStaged): the rows that it leaves
\* are what the canvas still plans, since a frame that tells of an operation commits its
\* edge as well (applyPlanState).
THEOREM EndedEditsCanBeRetried == Spec => []EditsCanBeRetried
  BY InitRetry, RetryHolds, RetriesAreAccepted, PTL DEF Spec

-----------------------------------------------------------------------------
\* Type correctness.

\* A row of the list: it waits for earlier rows, and a provision row is what mirrors
\* its clone.
TypedRow(ns, r) ==
    /\ WellFormed(ns, r) /\ r.id # 0 /\ \A d \in r.deps : d <= r.id
    /\ r.op.secondary \in ns \cup {NoNode}
    /\ Synthesized(r) => r.deps = {r.id} /\ r.prev = NoNode
MirroredOnce(rs) == \A r, s \in rs : r.id = s.id /\ Synthesized(r) /\ Synthesized(s) => r = s
TypedRows(ns, rs) ==
    /\ \A r \in rs : TypedRow(ns, r)
    /\ Bounded(rs) /\ Identified(rs) /\ MirroredOnce(rs)

TypeInv ==
    /\ lab \in Labs /\ life \in [lab.nodes -> Lives] /\ AreEdges(lab.nodes, edges)
    /\ TypedRows(lab.nodes, rows)
    /\ ~deploying => \A r \in rows : r.status # "pending"
    /\ {deploying, strayed, unleft} \subseteq BOOLEAN
    /\ ended.kinds \subseteq OpKinds /\ ended.failed \subseteq OpKinds

LEMMA TypeInvTypes == TypeInv => TypeOK
  <1>. SUFFICES ASSUME TypeInv PROVE TypeOK
    OBVIOUS
  <1>1. \A r \in rows :
            /\ r.id \in Nat \ {0} /\ r.status \in Statuses /\ \A d \in r.deps : d <= r.id
            /\ r.op.kind \in OpKinds /\ r.op.target \in lab.nodes
            /\ r.prev \in lab.nodes \cup {NoNode}
    BY DEF TypeInv, TypedRows, TypedRow, WellFormed
  <1>2. \A r \in rows : r.op.secondary \in lab.nodes \cup {NoNode}
    BY DEF TypeInv, TypedRows, TypedRow
  <1>3. \A r, s \in rows : r.id = s.id /\ Synthesized(r) = Synthesized(s) => r = s
    BY DEF TypeInv, TypedRows, Identified, MirroredOnce
  <1>. QED BY <1>1, <1>2, <1>3 DEF TypeInv, TypeOK, AreEdges

\* The statuses of some rows are rewritten.
Rewrites(f, rs, next) ==
    /\ DOMAIN f \subseteq rs /\ next = {f[r] : r \in DOMAIN f}
    /\ \A r \in DOMAIN f : f[r] = r \/ \E status \in Statuses : f[r] = [r EXCEPT !.status = status]

LEMMA RewrittenTyped ==
    ASSUME NEW ns, NEW rs, TypedRows(ns, rs), NEW f, NEW next, Rewrites(f, rs, next)
    PROVE  TypedRows(ns, next)
  <1>1. ASSUME NEW q \in next
        PROVE  \E r \in DOMAIN f :
                  /\ r \in rs /\ q = f[r] /\ TypedRow(ns, r)
                  /\ q = Row(q.id, q.op, q.status, q.deps, q.prev) /\ q.status \in Statuses
                  /\ q.id = r.id /\ q.op = r.op /\ q.deps = r.deps /\ q.prev = r.prev
    <2>1. PICK r \in DOMAIN f : r \in rs /\ q = f[r]
      BY <1>1 DEF Rewrites
    <2>2. TypedRow(ns, r) /\ r = Row(r.id, r.op, r.status, r.deps, r.prev) /\ r.status \in Statuses
      BY <2>1 DEF TypedRows, TypedRow, WellFormed
    <2>3. \/ q = r
          \/ \E status \in Statuses : q = Row(r.id, r.op, status, r.deps, r.prev)
      BY <2>1, <2>2, RewrittenRow DEF Rewrites
    <2>. QED BY <2>1, <2>2, <2>3 DEF Row
  <1>2. \A q \in next : TypedRow(ns, q)
    BY <1>1 DEF TypedRow, WellFormed, Synthesized
  <1>3. Bounded(next)
    <2>1. PICK b \in Nat : \A r \in rs : r.id <= b
      BY DEF TypedRows, Bounded
    <2>2. \A q \in next : q.id <= b
      BY <1>1, <2>1
    <2>. QED BY <2>1, <2>2 DEF Bounded
  <1>4. ASSUME NEW q \in next, NEW p \in next, q.id = p.id
        PROVE  /\ ~Synthesized(p) =>
                      IF Synthesized(q) THEN p.op = Create(q.op.target) ELSE q = p
               /\ Synthesized(q) /\ Synthesized(p) => q = p
    <2>1. PICK r \in DOMAIN f : r \in rs /\ q = f[r] /\ q.id = r.id /\ q.op = r.op
      BY <1>1
    <2>2. PICK s \in DOMAIN f : s \in rs /\ p = f[s] /\ p.id = s.id /\ p.op = s.op
      BY <1>1
    <2>3. /\ ~Synthesized(s) => IF Synthesized(r) THEN s.op = Create(r.op.target) ELSE r = s
          /\ Synthesized(r) /\ Synthesized(s) => r = s
      BY <1>4, <2>1, <2>2 DEF TypedRows, Identified, MirroredOnce
    <2>. QED BY <2>1, <2>2, <2>3 DEF Synthesized
  <1>5. Identified(next) /\ MirroredOnce(next)
    BY <1>4 DEF Identified, MirroredOnce
  <1>. QED BY <1>2, <1>3, <1>5 DEF TypedRows

LEMMA FewerTyped ==
    ASSUME NEW ns, NEW rs, TypedRows(ns, rs), NEW next, next \subseteq rs
    PROVE  TypedRows(ns, next)
  BY DEF TypedRows, Bounded, Identified, MirroredOnce

\* What a row waits for is listed.
LEMMA InferredIds ==
    ASSUME NEW op, NEW rs, NEW d \in Inferred(op, rs)
    PROVE  \E r \in rs : d = r.id
  BY DEF Inferred, CloneRows

LEMMA StagedTyped ==
    ASSUME NEW ns, NEW rs, TypedRows(ns, rs), NEW op, NEW prev, Stageable(ns, op, prev),
           op.secondary \in ns \cup {NoNode}
    PROVE  TypedRows(ns, Staging(rs, op, prev))
  <1>. DEFINE new == Row(NextId(rs), op, "staged", Inferred(op, rs), prev)
  <1>1. NextId(rs) \in Nat \ {0} /\ \A r \in rs : r.id \in Nat /\ r.id < NextId(rs)
    BY NextIdIsNew DEF TypedRows, TypedRow, WellFormed
  <1>2. /\ new = Row(new.id, new.op, new.status, new.deps, new.prev)
        /\ new.id = NextId(rs) /\ new.op = op /\ new.status = "staged" /\ new.prev = prev
        /\ new.deps = Inferred(op, rs)
    BY DEF Row
  <1>3. Staging(rs, op, prev) = rs \cup {new}
    BY DEF Staging
  <1>. HIDE DEF new
  <1>4. \A d \in new.deps : d <= new.id
    BY <1>1, <1>2, InferredIds
  <1>5. TypedRow(ns, new) /\ ~Synthesized(new)
    BY <1>1, <1>2, <1>4 DEF TypedRow, WellFormed, Stageable, Statuses, Synthesized
  <1>6. Bounded(rs \cup {new})
    <2>1. \A r \in rs \cup {new} : r.id <= NextId(rs)
      BY <1>1, <1>2
    <2>. QED BY <1>1, <2>1 DEF Bounded
  <1>7. Identified(rs \cup {new}) /\ MirroredOnce(rs \cup {new})
    <2>1. \A q \in rs : q.id # new.id
      BY <1>1, <1>2
    <2>2. Identified(rs) /\ MirroredOnce(rs)
      BY DEF TypedRows
    <2>. QED BY <1>5, <2>1, <2>2 DEF Identified, MirroredOnce
  <1>8. \A r \in rs \cup {new} : TypedRow(ns, r)
    BY <1>5 DEF TypedRows
  <1>. QED BY <1>3, <1>6, <1>7, <1>8 DEF TypedRows

\* What is sent, with what mirrors it.
LEMMA PreparedTyped ==
    ASSUME NEW ns, NEW rs, TypedRows(ns, rs), NEW status \in Statuses
    PROVE  TypedRows(ns, Prepared(rs, status)) /\ \A q \in Prepared(rs, status) : q.status = status
  <1>. DEFINE kept == {r \in Resettable(rs) :
                          Synthesized(r) => \E s \in Sent(Resettable(rs)) : s.id = r.id}
              ids == {s.id : s \in kept}
              P(r) == Row(r.id, r.op, status, r.deps \cap ids, r.prev)
              next == {P(r) : r \in kept}
  <1>1. Prepared(rs, status) = next
    BY DEF Prepared
  <1>2. \A r \in kept : r \in rs /\ TypedRow(ns, r) /\ r.id \in ids
    BY DEF Resettable, TypedRows
  <1>. HIDE DEF kept, ids
  <1>3. ASSUME NEW q \in next
        PROVE  \E r \in kept :
                  /\ q = P(r) /\ q = Row(q.id, q.op, q.status, q.deps, q.prev) /\ q.status = status
                  /\ q.id = r.id /\ q.op = r.op /\ q.deps = r.deps \cap ids /\ q.prev = r.prev
    BY <1>3 DEF Row
  <1>. HIDE DEF P, next
  <1>4. ASSUME NEW q \in next PROVE TypedRow(ns, q)
    <2>1. PICK r \in kept :
              /\ q = Row(q.id, q.op, q.status, q.deps, q.prev) /\ q.status = status
              /\ q.id = r.id /\ q.op = r.op /\ q.deps = r.deps \cap ids /\ q.prev = r.prev
      BY <1>3
    <2>2. TypedRow(ns, r) /\ r.id \in ids
      BY <1>2
    <2>. QED BY <2>1, <2>2 DEF TypedRow, WellFormed, Synthesized
  <1>5. Bounded(next)
    <2>1. PICK b \in Nat : \A r \in rs : r.id <= b
      BY DEF TypedRows, Bounded
    <2>2. \A q \in next : q.id <= b
      BY <1>2, <1>3, <2>1
    <2>. QED BY <2>1, <2>2 DEF Bounded
  <1>6. ASSUME NEW q \in next, NEW p \in next, q.id = p.id
        PROVE  /\ ~Synthesized(p) =>
                      IF Synthesized(q) THEN p.op = Create(q.op.target) ELSE q = p
               /\ Synthesized(q) /\ Synthesized(p) => q = p
    <2>1. PICK r \in kept : r \in rs /\ q = P(r) /\ q.id = r.id /\ q.op = r.op
      BY <1>2, <1>3
    <2>2. PICK s \in kept : s \in rs /\ p = P(s) /\ p.id = s.id /\ p.op = s.op
      BY <1>2, <1>3
    <2>3. /\ ~Synthesized(s) => IF Synthesized(r) THEN s.op = Create(r.op.target) ELSE r = s
          /\ Synthesized(r) /\ Synthesized(s) => r = s
      BY <1>6, <2>1, <2>2 DEF TypedRows, Identified, MirroredOnce
    <2>. QED BY <2>1, <2>2, <2>3 DEF Synthesized
  <1>7. Identified(next) /\ MirroredOnce(next)
    BY <1>6 DEF Identified, MirroredOnce
  <1>8. \A q \in next : q.status = status
    BY <1>3
  <1>. QED BY <1>1, <1>4, <1>5, <1>7, <1>8 DEF TypedRows

LEMMA MirrorsTyped ==
    ASSUME NEW ns, NEW rs, TypedRows(ns, rs), \A r \in rs : r.status = "pending"
    PROVE  TypedRows(ns, rs \cup Mirrors(rs))
  <1>1. \A r \in rs : TypedRow(ns, r) /\ WellFormed(ns, r)
    BY DEF TypedRows, TypedRow
  <1>2. ASSUME NEW m \in Mirrors(rs)
        PROVE  \E c \in rs : /\ c.op = Create(m.op.target) /\ m.id = c.id /\ ~Synthesized(c)
                             /\ m = Row(c.id, Provision(m.op.target), "pending", {c.id}, NoNode)
                             /\ Synthesized(m) /\ TypedRow(ns, m)
    <2>1. PICK c \in rs : /\ c.op.kind = "createVm"
                          /\ m = Row(c.id, Provision(c.op.target), "pending", {c.id}, NoNode)
      BY DEF Mirrors
    <2>2. /\ m.id = c.id /\ m.op = Provision(c.op.target) /\ m.op.target = c.op.target
          /\ m.deps = {m.id} /\ m.prev = NoNode /\ ~Synthesized(c)
      BY <2>1, NodeOps DEF Row, Synthesized
    <2>3. c.op = Create(c.op.target) /\ c.id \in Nat \ {0}
      BY <1>1, <2>1 DEF TypedRow, WellFormed, Create
    <2>4. WellFormed(ns, m) /\ Synthesized(m)
      BY <1>1, MirrorRow
    <2>5. TypedRow(ns, m)
      BY <2>2, <2>3, <2>4 DEF TypedRow, WellFormed, Synthesized
    <2>. QED BY <2>1, <2>2, <2>3, <2>4, <2>5
  <1>3. Bounded(rs \cup Mirrors(rs))
    <2>1. PICK b \in Nat : \A r \in rs : r.id <= b
      BY DEF TypedRows, Bounded
    <2>2. \A r \in rs \cup Mirrors(rs) : r.id <= b
      BY <1>2, <2>1
    <2>. QED BY <2>1, <2>2 DEF Bounded
  <1>4. Identified(rs) /\ MirroredOnce(rs)
    BY DEF TypedRows
  <1>5. ASSUME NEW r \in rs \cup Mirrors(rs), NEW s \in rs, r.id = s.id, ~Synthesized(s)
        PROVE  IF Synthesized(r) THEN s.op = Create(r.op.target) ELSE r = s
    <2>1. CASE r \in rs
      BY <1>4, <1>5, <2>1 DEF Identified
    <2>2. CASE r \in Mirrors(rs)
      <3>1. PICK c \in rs : /\ c.op = Create(r.op.target) /\ r.id = c.id /\ ~Synthesized(c)
                            /\ Synthesized(r)
        BY <1>2, <2>2
      <3>2. c = s
        BY <1>4, <1>5, <3>1 DEF Identified
      <3>. QED BY <3>1, <3>2
    <2>. QED BY <2>1, <2>2
  <1>6. ASSUME NEW m \in Mirrors(rs), NEW r \in rs \cup Mirrors(rs), r.id = m.id, Synthesized(r)
        PROVE  r = m
    <2>1. PICK c \in rs : /\ c.op = Create(m.op.target) /\ m.id = c.id /\ ~Synthesized(c)
                          /\ m = Row(c.id, Provision(m.op.target), "pending", {c.id}, NoNode)
      BY <1>2
    <2>2. c.op = Create(r.op.target)
      BY <1>5, <1>6, <2>1
    <2>3. r.op.target = m.op.target
      <3>1. Create(r.op.target).target = r.op.target /\ Create(m.op.target).target = m.op.target
        BY NodeOps
      <3>. QED BY <2>1, <2>2, <3>1
    <2>4. r = Row(r.id, Provision(r.op.target), "pending", {r.id}, NoNode)
      <3>1. CASE r \in rs
        <4>1. /\ r = Row(r.id, r.op, r.status, r.deps, r.prev)
              /\ r.op = Provision(r.op.target) /\ r.deps = {r.id} /\ r.prev = NoNode
          BY <1>1, <1>6, <3>1 DEF TypedRow, WellFormed, Synthesized, Provision
        <4>. QED BY <3>1, <4>1
      <3>2. CASE r \in Mirrors(rs)
        <4>1. PICK d \in rs : r.id = d.id
                    /\ r = Row(d.id, Provision(r.op.target), "pending", {d.id}, NoNode)
          BY <1>2, <3>2
        <4>. QED BY <4>1
      <3>. QED BY <3>1, <3>2
    <2>. QED BY <1>6, <2>1, <2>3, <2>4
  <1>7. Identified(rs \cup Mirrors(rs))
    BY <1>2, <1>5 DEF Identified
  <1>8. MirroredOnce(rs \cup Mirrors(rs))
    BY <1>4, <1>6 DEF MirroredOnce
  <1>9. \A r \in rs \cup Mirrors(rs) : TypedRow(ns, r)
    BY <1>1, <1>2
  <1>. QED BY <1>3, <1>7, <1>8, <1>9 DEF TypedRows

\* The life that a frame shows, and the edges that it commits or an undo brings back.
LEMMA LifeTyped ==
    ASSUME NEW rs, NEW n, NEW shown \in Lives
    PROVE  LifeShown(rs, n, shown) \in Lives
  BY DEF LifeShown, RealizedLife, Lives

LEMMA CommittedTyped ==
    ASSUME NEW ns, NEW es, AreEdges(ns, es), NEW rs
    PROVE  AreEdges(ns, Committed(rs, es))
  BY CommittedEdge DEF AreEdges

LEMMA UndoneTyped ==
    ASSUME NEW ns, NEW rs, TypedRows(ns, rs), NEW gone, gone \subseteq rs,
           NEW es, AreEdges(ns, es)
    PROVE  AreEdges(ns, Undone(gone, es))
  <1>. SUFFICES ASSUME NEW e \in Undone(gone, es) PROVE e \in Edges(ns)
    BY DEF AreEdges
  <1>1. CASE e \in es
    BY <1>1 DEF AreEdges
  <1>2. CASE \E r \in gone : r.prev # NoNode /\ e = MemberEdge(r.op.target, r.prev, "realized")
    <2>1. PICK r \in gone : r.prev # NoNode /\ e = MemberEdge(r.op.target, r.prev, "realized")
      BY <1>2
    <2>2. r.op.target \in ns /\ r.prev \in ns
      BY <2>1 DEF TypedRows, TypedRow, WellFormed
    <2>. QED BY <2>1, <2>2 DEF MemberEdge, Link, Edges, EdgeKinds
  <1>. QED BY <1>1, <1>2, UndoneEdge

\* Every action leaves its histories of the right type.
LEMMA HistoryTyped ==
    TypeInv /\ Next => {strayed', unleft'} \subseteq BOOLEAN /\ lab' = lab
  <1>. SUFFICES ASSUME TypeInv, Next PROVE strayed' \in BOOLEAN /\ unleft' \in BOOLEAN /\ lab' = lab
    OBVIOUS
  <1>1. strayed \in BOOLEAN /\ unleft \in BOOLEAN
    BY DEF TypeInv
  <1>2. \A gone : UndoesRetarget(gone) \in BOOLEAN /\ UndoesLeave(gone) \in BOOLEAN
    BY DEF UndoesRetarget, UndoesLeave
  <1>. HIDE DEF UndoesRetarget, UndoesLeave
  <1>3. ASSUME NEW n \in lab.nodes, Configure(n) \/ Promote(n)
        PROVE  strayed' = strayed /\ unleft' = unleft /\ lab' = lab
    BY <1>3 DEF Configure, Promote, MayEdit
  <1>4. ASSUME NEW n \in lab.nodes, NEW dc \in lab.nodes \cup {NoNode}, Retarget(n, dc)
        PROVE  strayed' \in BOOLEAN /\ unleft' = unleft /\ lab' = lab
    BY <1>1, <1>2, <1>4 DEF Retarget, MayEdit
  <1>5. ASSUME NEW e \in Edges(lab.nodes), Connect(e)
        PROVE  strayed' = strayed /\ unleft' = unleft /\ lab' = lab
    BY <1>5 DEF Connect, MayEdit
  <1>6. ASSUME NEW row \in rows, Remove(row)
        PROVE  strayed' \in BOOLEAN /\ unleft' \in BOOLEAN /\ lab' = lab
    BY <1>1, <1>2, <1>6 DEF Remove, MayEdit
  <1>7. ASSUME NEW row \in rows, Succeed(row) \/ Fail(row)
        PROVE  strayed' = strayed /\ unleft' = unleft /\ lab' = lab
    BY <1>7 DEF Succeed, Fail
  <1>8. CASE Deploy \/ StopByOwner \/ StopByAdmin \/ Finish
    BY <1>1, <1>8 DEF Deploy, StopByOwner, StopByAdmin, Finish
  <1>. QED BY <1>1, <1>3, <1>4, <1>5, <1>6, <1>7, <1>8 DEF Next

\* The rest of the types.
RestTyped == /\ life' \in [lab.nodes -> Lives] /\ AreEdges(lab.nodes, edges')
             /\ TypedRows(lab.nodes, rows') /\ deploying' \in BOOLEAN
             /\ ~deploying' => \A r \in rows' : r.status # "pending"
             /\ ended'.kinds \subseteq OpKinds /\ ended'.failed \subseteq OpKinds

\* A frame of a plan is shown.
LEMMA ShownTyped ==
    ASSUME TypeInv, NEW f, NEW next, Rewrites(f, rows, next),
           rows' = next, edges' = Committed(next, edges), life' = LivesShown(lab.nodes, next, life),
           deploying' = deploying, ended' = ended,
           deploying \/ \E r \in rows : r.status = "pending"
    PROVE  RestTyped
  <1>1. TypedRows(lab.nodes, next)
    BY RewrittenTyped DEF TypeInv
  <1>2. life' \in [lab.nodes -> Lives]
    BY LifeTyped DEF LivesShown, TypeInv
  <1>3. deploying
    BY DEF TypeInv
  <1>. QED BY <1>1, <1>2, <1>3, CommittedTyped DEF TypeInv, RestTyped

LEMMA SucceedTyped ==
    ASSUME TypeInv, NEW row \in rows, Succeed(row)
    PROVE  RestTyped
  <1>. DEFINE next == (rows \ {row}) \cup {[row EXCEPT !.status = "done"]}
              f == [r \in rows |-> IF r = row THEN [r EXCEPT !.status = "done"] ELSE r]
  <1>1. row.status = "pending"
    BY DEF Succeed, MayRun, Pending
  <1>2. /\ rows' = next /\ edges' = Committed(next, edges)
        /\ life' = LivesShown(lab.nodes, next, life)
        /\ deploying' = deploying /\ ended' = ended
    BY DEF Succeed, Shows, LivesShown
  <1>3. Rewrites(f, rows, next)
    BY DEF Rewrites, Statuses, Finals
  <1>. HIDE DEF f, next
  <1>. QED BY <1>1, <1>2, <1>3, ShownTyped

LEMMA FailTyped ==
    ASSUME TypeInv, NEW row \in rows, Fail(row)
    PROVE  RestTyped
  <1>. DEFINE f == [r \in rows |-> IF r = row THEN [r EXCEPT !.status = "error"]
                                   ELSE IF r \in Cascade(row) THEN [r EXCEPT !.status = "cancelled"]
                                   ELSE r]
              next == {f[r] : r \in rows}
  <1>1. row.status = "pending"
    BY DEF Fail, MayRun, Pending
  <1>2. /\ rows' = next /\ edges' = Committed(next, edges)
        /\ life' = LivesShown(lab.nodes, next, life)
        /\ deploying' = deploying /\ ended' = ended
    <2>1. next = {IF r = row THEN [r EXCEPT !.status = "error"]
                  ELSE IF r \in Cascade(row) THEN [r EXCEPT !.status = "cancelled"] ELSE r : r \in rows}
      OBVIOUS
    <2>. QED BY <2>1 DEF Fail, Shows, LivesShown
  <1>3. Rewrites(f, rows, next)
    BY DEF Rewrites, Statuses, Finals
  <1>. HIDE DEF f, next
  <1>. QED BY <1>1, <1>2, <1>3, ShownTyped

LEMMA TypedAreRows == TypeInv => AreRows(rows)
  BY DEF TypeInv, TypedRows, TypedRow, WellFormed, AreRows

LEMMA SkippedTyped ==
    ASSUME AreRows(rows)
    PROVE  \E f : Rewrites(f, rows, Skipped)
  <1>. DEFINE f == [r \in rows |-> [r EXCEPT !.status = IF r \in Pending THEN "cancelled" ELSE @]]
  <1>1. Skipped = {f[r] : r \in rows} /\ DOMAIN f = rows
    BY DEF Skipped
  <1>2. ASSUME NEW r \in rows
        PROVE  f[r] = r \/ \E status \in Statuses : f[r] = [r EXCEPT !.status = status]
    <2>1. CASE r \in Pending
      BY <2>1 DEF Statuses, Finals
    <2>2. CASE r \notin Pending
      <3>1. f[r] = [r EXCEPT !.status = r.status]
        BY <2>2
      <3>2. r = Row(r.id, r.op, r.status, r.deps, r.prev)
        BY DEF AreRows
      <3>. HIDE DEF f
      <3>. QED BY <3>1, <3>2, RewrittenRow
    <2>. QED BY <2>1, <2>2
  <1>. HIDE DEF f
  <1>. QED BY <1>1, <1>2 DEF Rewrites

LEMMA OwnerTyped ==
    ASSUME TypeInv, StopByOwner
    PROVE  RestTyped
  <1>1. /\ rows' = Skipped /\ edges' = Committed(Skipped, edges)
        /\ life' = LivesShown(lab.nodes, Skipped, life)
        /\ deploying' = deploying /\ ended' = ended /\ deploying
    BY DEF StopByOwner, Shows, LivesShown
  <1>. QED BY <1>1, SkippedTyped, TypedAreRows, ShownTyped

\* A plan ends: the kinds of its operations are known.
LEMMA EndsTyped ==
    ASSUME TypeInv, Ends(rows)
    PROVE  ~deploying' /\ ended'.kinds \subseteq OpKinds /\ ended'.failed \subseteq OpKinds
  <1>1. \A r \in rows : r.op.kind \in OpKinds
    BY DEF TypeInv, TypedRows, TypedRow, WellFormed
  <1>. QED BY <1>1 DEF Ends

LEMMA AdminTyped ==
    ASSUME TypeInv, StopByAdmin
    PROVE  RestTyped
  <1>. DEFINE g == [r \in Sent(Resettable(Skipped)) |-> [r EXCEPT !.status = "staged"]]
  <1>1. /\ rows' = Reverted(Skipped) /\ edges' = Committed(Skipped, edges) /\ Ends(rows)
        /\ life' = [n \in lab.nodes |->
              IF {Create(n), Provision(n)} \cap OpsOf(Resettable(Skipped)) # {} THEN "staged"
              ELSE LifeShown(Skipped, n, life[n])]
    BY DEF StopByAdmin
  <1>2. TypedRows(lab.nodes, Skipped)
    BY SkippedTyped, TypedAreRows, RewrittenTyped DEF TypeInv
  <1>3. Rewrites(g, Skipped, Reverted(Skipped))
    BY DEF Rewrites, Reverted, Sent, Resettable, Statuses
  <1>. HIDE DEF g
  <1>4. TypedRows(lab.nodes, Reverted(Skipped))
    BY <1>2, <1>3, RewrittenTyped
  <1>5. \A n \in lab.nodes : LifeShown(Skipped, n, life[n]) \in Lives
    BY LifeTyped DEF TypeInv
  <1>6. life' \in [lab.nodes -> Lives]
    BY <1>1, <1>5 DEF Lives
  <1>7. ASSUME NEW q \in Reverted(Skipped) PROVE q.status # "pending"
    <2>1. PICK r \in Skipped : q = [r EXCEPT !.status = "staged"]
      BY <1>7 DEF Reverted, Sent, Resettable
    <2>2. r = Row(r.id, r.op, r.status, r.deps, r.prev)
      BY <1>2 DEF TypedRows, TypedRow, WellFormed
    <2>. QED BY <2>1, <2>2, RewrittenRow, RowFields
  <1>8. AreEdges(lab.nodes, edges')
    BY <1>1, CommittedTyped DEF TypeInv
  <1>9. ~deploying' /\ ended'.kinds \subseteq OpKinds /\ ended'.failed \subseteq OpKinds
        /\ deploying' \in BOOLEAN
    BY <1>1, EndsTyped DEF Ends
  <1>. QED BY <1>1, <1>4, <1>6, <1>7, <1>8, <1>9 DEF RestTyped

LEMMA FinishTyped ==
    ASSUME TypeInv, Finish
    PROVE  RestTyped
  <1>. DEFINE failed == {r.id : r \in {s \in rows : Synthesized(s) /\ s.status = "error"}}
              kept == {s \in rows : s.status # "done" \/ s.id \in failed}
              g == [r \in kept |-> IF r.status = "cancelled" THEN [r EXCEPT !.status = "staged"] ELSE r]
  <1>1. /\ rows' = Finished(rows) /\ edges' = edges /\ life' = life /\ Ends(rows)
        /\ \A r \in rows : r.status # "pending"
    BY DEF Finish, Pending
  <1>2. Finished(rows) = {g[r] : r \in kept} /\ DOMAIN g = kept /\ kept \subseteq rows
    BY DEF Finished
  <1>3. \A r \in kept : g[r] = r \/ g[r] = [r EXCEPT !.status = "staged"]
    OBVIOUS
  <1>. HIDE DEF g, kept
  <1>4. Rewrites(g, rows, Finished(rows))
    BY <1>2, <1>3 DEF Rewrites, Statuses
  <1>5. TypedRows(lab.nodes, Finished(rows))
    BY <1>4, RewrittenTyped DEF TypeInv
  <1>6. ASSUME NEW q \in Finished(rows) PROVE q.status # "pending"
    <2>1. PICK r \in rows : q = r \/ q = [r EXCEPT !.status = "staged"]
      BY <1>2, <1>3
    <2>2. r = Row(r.id, r.op, r.status, r.deps, r.prev)
      BY DEF TypeInv, TypedRows, TypedRow, WellFormed
    <2>3. [r EXCEPT !.status = "staged"].status = "staged"
      BY <2>2, RewrittenRow, RowFields
    <2>. QED BY <1>1, <2>1, <2>3
  <1>7. ~deploying' /\ ended'.kinds \subseteq OpKinds /\ ended'.failed \subseteq OpKinds
        /\ deploying' \in BOOLEAN
    BY <1>1, EndsTyped DEF Ends
  <1>. QED BY <1>1, <1>5, <1>6, <1>7 DEF RestTyped, TypeInv

LEMMA DeployTyped ==
    ASSUME TypeInv, Deploy
    PROVE  RestTyped
  <1>. DEFINE sent == Prepared(rows, "pending")
              again == Prepared(rows, "staged")
  <1>1. edges' = edges /\ life' = life /\ ended' = NoEnd /\ ~deploying
    BY DEF Deploy
  <1>2. /\ TypedRows(lab.nodes, sent) /\ \A q \in sent : q.status = "pending"
        /\ TypedRows(lab.nodes, again) /\ \A q \in again : q.status = "staged"
    BY PreparedTyped DEF TypeInv, Statuses
  <1>3. TypedRows(lab.nodes, sent \cup Mirrors(sent))
    <2>. HIDE DEF sent
    <2>. QED BY <1>2, MirrorsTyped
  <1>4. \/ rows' = sent \cup Mirrors(sent) /\ deploying' = TRUE
        \/ rows' = again /\ deploying' = deploying
    BY DEF Deploy
  <1>. HIDE DEF sent, again
  <1>5. TypedRows(lab.nodes, rows')
    BY <1>2, <1>3, <1>4
  <1>6. deploying' \in BOOLEAN /\ (~deploying' => \A r \in rows' : r.status # "pending")
    BY <1>1, <1>2, <1>4 DEF TypeInv
  <1>. QED BY <1>1, <1>5, <1>6 DEF RestTyped, TypeInv, NoEnd

\* An edit.
LEMMA EditTyped ==
    ASSUME TypeInv, MayEdit, life' \in [lab.nodes -> Lives], AreEdges(lab.nodes, edges'),
           TypedRows(lab.nodes, rows'), \A r \in rows' : r \in rows \/ r.status = "staged"
    PROVE  RestTyped
  <1>1. deploying' = deploying /\ ~deploying /\ ended' = NoEnd
    BY DEF MayEdit
  <1>. QED BY <1>1 DEF TypeInv, RestTyped, NoEnd

LEMMA ConfigureTyped ==
    ASSUME TypeInv, NEW n \in lab.nodes, Configure(n)
    PROVE  RestTyped
  <1>1. /\ MayEdit /\ rows' = Staging(rows, Create(n), NoNode) /\ edges' = edges
        /\ life' = [life EXCEPT ![n] = "staged"]
    BY DEF Configure
  <1>2. Stageable(lab.nodes, Create(n), NoNode) /\ Create(n).secondary = NoNode
    BY OpFields DEF Stageable, Create, OpKinds
  <1>3. TypedRows(lab.nodes, rows')
    BY <1>1, <1>2, StagedTyped DEF TypeInv
  <1>4. life' \in [lab.nodes -> Lives]
    BY <1>1 DEF TypeInv, Lives
  <1>5. \A r \in rows' : r \in rows \/ r.status = "staged"
    BY <1>1, StagedRow
  <1>. QED BY <1>1, <1>3, <1>4, <1>5, EditTyped DEF TypeInv

LEMMA ConnectTyped ==
    ASSUME TypeInv, NEW e \in Edges(lab.nodes), Connect(e)
    PROVE  RestTyped
  <1>1. /\ MayEdit /\ edges' = edges \cup {e} /\ life' = life
        /\ rows' = rows \/ rows' = Staging(rows, OpOf(e), NoNode)
    BY DEF Connect
  <1>2. Stageable(lab.nodes, OpOf(e), NoNode) /\ OpOf(e).secondary \in lab.nodes
    BY DrawnOp DEF Stageable, OpKinds
  <1>3. TypedRows(lab.nodes, rows')
    BY <1>1, <1>2, StagedTyped DEF TypeInv
  <1>4. AreEdges(lab.nodes, edges')
    BY <1>1 DEF TypeInv, AreEdges
  <1>5. \A r \in rows' : r \in rows \/ r.status = "staged"
    BY <1>1, StagedRow
  <1>. QED BY <1>1, <1>3, <1>4, <1>5, EditTyped DEF TypeInv

LEMMA RemoveTyped ==
    ASSUME TypeInv, NEW row \in rows, Remove(row)
    PROVE  RestTyped
  <1>. DEFINE gone == {row} \cup Dependents(rows, row)
  <1>1. /\ MayEdit /\ rows' = rows \ gone /\ edges' = Undone(gone, edges)
        /\ life' = [n \in lab.nodes |-> IF Create(n) \in OpsOf(gone) THEN "draft" ELSE life[n]]
    BY DEF Remove
  <1>2. gone \subseteq rows
    BY DEF Dependents, Directly
  <1>. HIDE DEF gone
  <1>3. TypedRows(lab.nodes, rows')
    BY <1>1, FewerTyped DEF TypeInv
  <1>4. AreEdges(lab.nodes, edges')
    BY <1>1, <1>2, UndoneTyped DEF TypeInv
  <1>5. life' \in [lab.nodes -> Lives]
    BY <1>1 DEF TypeInv, Lives
  <1>. QED BY <1>1, <1>3, <1>4, <1>5, EditTyped

LEMMA RetargetTyped ==
    ASSUME TypeInv, NEW n \in lab.nodes, NEW dc \in lab.nodes \cup {NoNode}, Retarget(n, dc)
    PROVE  RestTyped
  <1>. DEFINE ns == lab.nodes
              joins == {r \in rows : r.op.kind = "domainJoin" /\ r.op.target = n}
              left == Undone(joins, edges \ {e \in Memberships(Topology) : e.source = n})
              kept(prev) == IF prev = NoNode \/ joins # {} THEN rows \ joins
                            ELSE Staging(rows \ joins, Leave(n), prev)
              carried(prev) == IF joins = {} THEN prev ELSE NoNode
              join == Op("domainJoin", n, dc)
  <1>1. MayEdit /\ life' = life
    BY DEF Retarget
  <1>2. PICK prev \in PreviousOf(n) :
            /\ dc = NoNode => rows' = kept(prev) /\ edges' = left
            /\ dc # NoNode => /\ rows' = Staging(kept(prev), join, carried(prev))
                              /\ edges' = left \cup {MemberEdge(n, dc, "planned")}
    BY DEF Retarget
  <1>3. TypedRows(ns, rows) /\ AreEdges(ns, edges)
    BY DEF TypeInv
  <1>4. prev \in ns \cup {NoNode}
    <2>1. DomainsOf(Topology, n) \subseteq ns
      BY <1>3 DEF DomainsOf, Memberships, Topology, AreEdges, Edges
    <2>. QED BY <2>1 DEF PreviousOf
  <1>5. TypedRows(ns, rows \ joins)
    BY <1>3, FewerTyped
  <1>6. prev # NoNode => Stageable(ns, Leave(n), prev) /\ Leave(n).secondary = NoNode
    BY <1>4, OpFields DEF Stageable, Leave, OpKinds
  <1>7. /\ TypedRows(ns, kept(prev))
        /\ \A r \in kept(prev) : r \in rows \/ r.status = "staged"
    <2>1. CASE prev = NoNode \/ joins # {}
      BY <1>5, <2>1
    <2>2. CASE prev # NoNode /\ joins = {}
      <3>1. kept(prev) = Staging(rows \ joins, Leave(n), prev)
        BY <2>2
      <3>2. TypedRows(ns, Staging(rows \ joins, Leave(n), prev))
        BY <1>5, <1>6, <2>2, StagedTyped
      <3>. HIDE DEF kept
      <3>3. \A r \in Staging(rows \ joins, Leave(n), prev) : r \in rows \ joins \/ r.status = "staged"
        BY StagedRow
      <3>. QED BY <3>1, <3>2, <3>3
    <2>. QED BY <2>1, <2>2
  <1>8. AreEdges(ns, left)
    <2>1. AreEdges(ns, edges \ {e \in Memberships(Topology) : e.source = n})
      BY <1>3 DEF AreEdges
    <2>2. joins \subseteq rows
      OBVIOUS
    <2>. HIDE DEF joins
    <2>. QED BY <1>3, <2>1, <2>2, UndoneTyped
  <1>9. carried(prev) \in ns \cup {NoNode}
    BY <1>4
  <1>. HIDE DEF kept, left, carried, joins
  <1>10. CASE dc = NoNode
    BY <1>1, <1>2, <1>7, <1>8, <1>10, EditTyped DEF TypeInv
  <1>11. CASE dc # NoNode
    <2>1. dc \in ns
      BY <1>11
    <2>2. Stageable(ns, join, carried(prev)) /\ join.secondary = dc
      BY <1>9, <2>1, OpFields DEF Stageable, OpKinds
    <2>. HIDE DEF join
    <2>3. TypedRows(ns, rows')
      BY <1>2, <1>7, <1>11, <2>1, <2>2, StagedTyped
    <2>4. \A r \in rows' : r \in kept(prev) \/ r.status = "staged"
      BY <1>2, <1>11, StagedRow
    <2>5. MemberEdge(n, dc, "planned") \in Edges(ns)
      BY <2>1 DEF MemberEdge, Link, Edges, EdgeKinds
    <2>6. AreEdges(ns, edges')
      BY <1>2, <1>8, <1>11, <2>5 DEF AreEdges
    <2>. QED BY <1>1, <1>7, <2>3, <2>4, <2>6, EditTyped DEF TypeInv
  <1>. QED BY <1>10, <1>11

LEMMA PromoteTyped ==
    ASSUME TypeInv, NEW n \in lab.nodes, Promote(n)
    PROVE  RestTyped
  <1>1. /\ rows' = rows /\ edges' = edges /\ deploying' = deploying /\ ended' = ended
        /\ life' = [life EXCEPT ![n] = "deployed"]
    BY DEF Promote
  <1>2. life' \in [lab.nodes -> Lives]
    BY <1>1 DEF TypeInv, Lives
  <1>. QED BY <1>1, <1>2 DEF TypeInv, RestTyped

LEMMA InitTyped == Init => TypeInv
  <1>. SUFFICES ASSUME Init PROVE TypeInv
    OBVIOUS
  <1>1. /\ lab \in Labs /\ rows = StagedList(lab.ops) /\ ~deploying /\ ~strayed
        /\ deploying = FALSE /\ strayed = FALSE /\ unleft = FALSE /\ ended = NoEnd
    BY DEF Init
  <1>2. CanvasHolds(lab.nodes, rows, edges, life, real, deploying)
    BY <1>1, InitHolds DEF DeploysInv
  <1>3. /\ Listed(lab.nodes, rows) /\ AtRest(rows)
        /\ \A r \in rows : r.op.kind # "provision"
    BY <1>1, InitialList
  <1>4. ASSUME NEW r \in rows PROVE TypedRow(lab.nodes, r)
    <2>1. PICK i \in DOMAIN lab.ops :
              /\ i \in Nat /\ r.id = i /\ r.op = lab.ops[i]
              /\ r = Row(i, lab.ops[i], "staged", Inferred(lab.ops[i],
                        {Row(j, lab.ops[j], "staged", {}, NoNode) : j \in 1..(i - 1)}), NoNode)
      BY <1>1, InitialRow
    <2>2. lab.ops \in Seq({Create(n) : n \in lab.nodes} \cup {OpOf(e) : e \in Edges(lab.nodes)})
      BY <1>1, LabsAssumption
    <2>3. i # 0 /\ r.op \in {Create(n) : n \in lab.nodes} \cup {OpOf(e) : e \in Edges(lab.nodes)}
      BY <2>1, <2>2
    <2>4. r.op.secondary \in lab.nodes \cup {NoNode}
      <3>1. CASE \E n \in lab.nodes : r.op = Create(n)
        BY <3>1, OpFields DEF Create
      <3>2. CASE \E e \in Edges(lab.nodes) : r.op = OpOf(e)
        BY <3>2, DrawnOp
      <3>. QED BY <2>3, <3>1, <3>2
    <2>5. ASSUME NEW d \in r.deps PROVE d <= r.id
      <3>1. r.deps = Inferred(lab.ops[i], {Row(j, lab.ops[j], "staged", {}, NoNode) : j \in 1..(i - 1)})
        BY <2>1 DEF Row
      <3>2. PICK q \in {Row(j, lab.ops[j], "staged", {}, NoNode) : j \in 1..(i - 1)} : d = q.id
        BY <3>1, InferredIds
      <3>3. q.id \in 1..(i - 1)
        BY RowFields
      <3>. QED BY <2>1, <3>2, <3>3
    <2>. QED BY <1>3, <2>1, <2>3, <2>4, <2>5 DEF TypedRow, Listed, Synthesized
  <1>5. TypedRows(lab.nodes, rows)
    BY <1>3, <1>4 DEF TypedRows, Listed, MirroredOnce, Synthesized
  <1>. QED BY <1>1, <1>2, <1>3, <1>5 DEF TypeInv, CanvasHolds, NoEnd, AtRest

LEMMA TypesHold == TypeInv /\ [Next]_vars => TypeInv'
  <1>. SUFFICES ASSUME TypeInv, [Next]_vars PROVE TypeInv'
    OBVIOUS
  <1>1. CASE UNCHANGED vars
    BY <1>1 DEF TypeInv, vars
  <1>2. CASE Next
    <2>1. ASSUME NEW n \in lab.nodes, Configure(n) \/ Promote(n) PROVE RestTyped
      BY <2>1, ConfigureTyped, PromoteTyped
    <2>2. ASSUME NEW n \in lab.nodes, NEW dc \in lab.nodes \cup {NoNode}, Retarget(n, dc)
          PROVE  RestTyped
      BY <2>2, RetargetTyped
    <2>3. ASSUME NEW e \in Edges(lab.nodes), Connect(e) PROVE RestTyped
      BY <2>3, ConnectTyped
    <2>4. ASSUME NEW row \in rows, Remove(row) \/ Succeed(row) \/ Fail(row) PROVE RestTyped
      BY <2>4, RemoveTyped, SucceedTyped, FailTyped
    <2>5. ASSUME Deploy \/ StopByOwner \/ StopByAdmin \/ Finish PROVE RestTyped
      BY <2>5, DeployTyped, OwnerTyped, AdminTyped, FinishTyped
    <2>6. RestTyped
      BY <1>2, <2>1, <2>2, <2>3, <2>4, <2>5 DEF Next
    <2>. QED BY <1>2, <2>6, HistoryTyped DEF TypeInv, RestTyped
  <1>. QED BY <1>1, <1>2

\* Whatever is edited, deployed, stopped and undone, the list stays one of operations on
\* nodes of the lab, in which a row waits for earlier rows, an id is that of one row or of
\* a clone and its mirror, and nothing is pending unless a plan is in flight.
THEOREM TypeCorrect == Spec => []TypeOK
  BY InitTyped, TypesHold, TypeInvTypes, PTL DEF Spec
=============================================================================
