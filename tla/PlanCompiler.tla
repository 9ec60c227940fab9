---------------------------- MODULE PlanCompiler ----------------------------
(***************************************************************************)
(* core/topology.py: which topologies validate_topology accepts, which      *)
(* operations compile_plan accepts for one, and the dependencies it gives   *)
(* them.  The compiler is pure, so this module has operators only.          *)
(*                                                                         *)
(* A topology is a record: its nodes with their roles, the nodes that are   *)
(* realized, the web servers with OCSP disabled, and its edges; an edge     *)
(* carries its own state.  Names, ports, DNS records, templates, durations  *)
(* and the texts of diagnostics are left out: a topology that fails one of  *)
(* those checks is refused as well.                                         *)
(***************************************************************************)
EXTENDS Integers, FiniteSets

CONSTANT NoNode         \* a missing `secondary`

Roles == {"domainController", "rootCa", "issuingCa", "webServer", "client", "standalone"}
EdgeKinds == {"domainMembership", "caParent", "caPublication"}
OpKinds == {"createVm", "provision", "domainLeave", "domainJoin", "caConnect", "webServerCert"}

Edges(nodes) ==
    [kind : EdgeKinds, source : nodes, target : nodes, state : {"planned", "realized"}]

-----------------------------------------------------------------------------
\* validate_topology.

Memberships(t) == {e \in t.edges : e.kind = "domainMembership"}
CaParents(t) == {e \in t.edges : e.kind = "caParent"}
Publications(t) == {e \in t.edges : e.kind = "caPublication"}

RoleIs(t, role) == {n \in t.nodes : t.role[n] = role}

SameRelationship(e, f) == e.kind = f.kind /\ e.source = f.source /\ e.target = f.target

\* Known ends, no self-relationship, no relationship twice.
EdgesAreSound(t) ==
    /\ \A e \in t.edges : e.source \in t.nodes /\ e.target \in t.nodes /\ e.source # e.target
    /\ \A e, f \in t.edges : SameRelationship(e, f) => e = f

RolesFit(t) ==
    /\ \A e \in Memberships(t) :
          /\ t.role[e.target] = "domainController"
          /\ t.role[e.source] \notin {"domainController", "rootCa"}
    /\ \A e \in CaParents(t) :
          /\ t.role[e.target] = "issuingCa"
          /\ t.role[e.source] \in {"rootCa", "issuingCa"}
    /\ \A e \in Publications(t) :
          t.role[e.source] = "issuingCa" /\ t.role[e.target] = "webServer"

OneDomain(t) == \A e, f \in Memberships(t) : e.source = f.source => e = f
OneParent(t) == \A e, f \in CaParents(t) : e.target = f.target => e = f

DomainsOf(t, n) == {e.target : e \in {f \in Memberships(t) : f.source = n}}

\* Two tiers: an issuing CA has a root CA as its parent, so that CA cycles are
\* refused too; it is in a domain, and publishes to web servers of that domain.
CaIsComplete(t, ca) ==
    /\ \E e \in CaParents(t) : e.target = ca /\ t.role[e.source] = "rootCa"
    /\ DomainsOf(t, ca) # {}
    /\ \E e \in Publications(t) : e.source = ca
    /\ \A e \in Publications(t) : e.source = ca =>
          DomainsOf(t, e.target) = DomainsOf(t, ca) /\ e.target \notin t.ocspOff

Valid(t) ==
    /\ EdgesAreSound(t) /\ RolesFit(t) /\ OneDomain(t) /\ OneParent(t)
    /\ \A ca \in RoleIs(t, "issuingCa") : CaIsComplete(t, ca)
    /\ \A n \in RoleIs(t, "client") : DomainsOf(t, n) # {}
    /\ \A n \in RoleIs(t, "webServer") \ t.ocspOff : \E e \in Publications(t) : e.target = n

-----------------------------------------------------------------------------
\* Operations, by the key (kind, target, secondary) of compile_plan.

Op(kind, target, secondary) == [kind |-> kind, target |-> target, secondary |-> secondary]
Create(n) == Op("createVm", n, NoNode)
Provision(n) == Op("provision", n, NoNode)
Leave(n) == Op("domainLeave", n, NoNode)

\* The operation that realizes a relationship.
OpOf(e) ==
    CASE e.kind = "domainMembership" -> Op("domainJoin", e.source, e.target)
      [] e.kind = "caParent" -> Op("caConnect", e.target, e.source)
      [] e.kind = "caPublication" -> Op("webServerCert", e.source, e.target)

EdgeOps(t) == {OpOf(e) : e \in t.edges}

\* resource_states.
PlannedOps(t) ==
    {Create(n) : n \in t.nodes \ t.realized} \cup {OpOf(e) : e \in {f \in t.edges : f.state = "planned"}}
RealizedOps(t) ==
    {Create(n) : n \in t.realized} \cup {OpOf(e) : e \in {f \in t.edges : f.state = "realized"}}

\* The operations are those of nodes and relationships still to realize, and all
\* of them; a domainLeave has no counterpart in the topology.
Matches(t, ops) ==
    /\ ops \subseteq {Create(n) : n \in t.nodes} \cup {Leave(n) : n \in t.nodes} \cup EdgeOps(t)
    /\ ops \cap RealizedOps(t) = {}
    /\ PlannedOps(t) \subseteq ops

\* A request is a set of records with an `op`; it names no operation twice.
Compiles(t, request) ==
    /\ request # {}
    /\ Valid(t)
    /\ \A r, s \in request : r.op = s.op => r = s
    /\ Matches(t, {r.op : r \in request})

\* The plan, with a provision operation for each clone.
PlanOf(ops) == ops \cup {Provision(o.target) : o \in {p \in ops : p.kind = "createVm"}}

-----------------------------------------------------------------------------
\* The dependencies.

\* provisioned(n), once restricted to the plan: a clone is never without its
\* provision operation there.
Ready(nodes) == {Provision(n) : n \in nodes}
JoinsOf(t, n) == {OpOf(e) : e \in {f \in Memberships(t) : f.source = n}}
ConnectsOf(t, ca) == {OpOf(e) : e \in {f \in CaParents(t) : f.target = ca}}
ParentsOf(t, ca) == {e.source : e \in {f \in CaParents(t) : f.target = ca}}
HostsOf(t, ca) == {e.target : e \in {f \in Publications(t) : f.source = ca}}

IssuingIn(t, dc) == {n \in RoleIs(t, "issuingCa") : dc \in DomainsOf(t, n)}

\* Mutant: a client joins as soon as its domain stands.
JoinsEarly(t, o) == Ready({o.target, o.secondary}) \cup {Leave(o.target)}
\* A client enrolls while it joins, so the issuing CAs of the domain come first.
JoinNeeds(t, o) ==
    Ready({o.target, o.secondary}) \cup {Leave(o.target)}
        \cup (IF t.role[o.target] # "client" THEN {}
              ELSE UNION {ConnectsOf(t, ca) : ca \in IssuingIn(t, o.secondary)})

ConnectNeeds(t, o) ==
    LET members == {o.target} \cup HostsOf(t, o.target) IN
    Ready({o.target, o.secondary} \cup members \cup UNION {DomainsOf(t, n) : n \in members})
        \cup UNION {JoinsOf(t, n) : n \in members}

CertNeeds(t, o) ==
    LET members == {o.target, o.secondary} IN
    Ready(members \cup ParentsOf(t, o.target) \cup UNION {DomainsOf(t, n) : n \in members})
        \cup ConnectsOf(t, o.target) \cup UNION {JoinsOf(t, n) : n \in members}

Needs(t, o) ==
    CASE o.kind = "createVm" -> {}
      [] o.kind = "provision" -> {Create(o.target)}
      [] o.kind = "domainLeave" -> Ready({o.target})
      [] o.kind = "domainJoin" -> JoinNeeds(t, o)
      [] o.kind = "caConnect" -> ConnectNeeds(t, o)
      [] o.kind = "webServerCert" -> CertNeeds(t, o)

\* `require` ignores what the plan does not hold: it is realized already.
Dependencies(t, plan, o) == Needs(t, o) \cap plan
=============================================================================
