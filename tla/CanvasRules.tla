----------------------------- MODULE CanvasRules -----------------------------
(***************************************************************************)
(* The rules of the canvas (frontend lib/topology.ts): which relationships a *)
(* canvas may take, where a domain's circle reaches, what the guidance panel  *)
(* warns of, what a node and a region show, what a saved canvas is made into  *)
(* when it is opened, and the topology it deploys as (lib/deployTopology.ts).  *)
(* Operators only, on a canvas c: its nodes with a type, a life, the one       *)
(* setting the rules read (a CA's type, a web host's OCSP) and a place, and    *)
(* its edges.                                                                  *)
(*                                                                             *)
(* A place is the centre of a card on a line: the circle of a domain is an     *)
(* interval.  What first() takes of several is fixed by CHOOSE; names, texts,  *)
(* colours and ports are left out.                                             *)
(***************************************************************************)
EXTENDS PlanCompiler, FiniteSetsExt

CONSTANTS
    Radius,             \* DOMAIN_RADIUS
    HalfWidth,          \* of a card
    Gap, CircleMargin, MemberPadding, ExitMargin, NeighborClearance,
    SearchSteps         \* how far nearestFreePosition looks

ASSUME GeometryAssumption ==
    {Radius, HalfWidth, Gap, CircleMargin, MemberPadding, ExitMargin, NeighborClearance,
     SearchSteps} \subseteq Nat

Types == {"domainController", "certificateAuthority", "webServer", "client", "product"}
Settings == {"unset", "set", "Root", "Issuing", "OcspOff"}
EdgeTypes == {"domainJoin", "caHierarchy", "webServerCert"}
Sockets == {"none", "issuance", "publication", "ocsp"}
Healths == {"planned", "applying", "verified", "degraded", "broken"}

CanvasEdges(nodes) ==
    [type : EdgeTypes, source : nodes, target : nodes, socket : Sockets,
     staged : BOOLEAN, health : Healths]

CA == "certificateAuthority"
DC == "domainController"

-----------------------------------------------------------------------------
\* The life of a node.

IsDeployed(c, n) == c.life[n] \in {"deployed", "drifted"}
IsConnectable(c, n) == c.life[n] \in {"staged", "provisioning"} \/ IsDeployed(c, n)
IsRealized(c, n) == c.life[n] = "deploying" \/ IsConnectable(c, n)

EdgesOf(c, type) == {e \in c.edges : e.type = type}

-----------------------------------------------------------------------------
\* Certificate authorities: two tiers.

IssuedBy(c, n) == {e.source : e \in {f \in EdgesOf(c, "caHierarchy") : f.target = n}}
Issues(c, n) == \E e \in EdgesOf(c, "caHierarchy") : e.source = n

CaTier(c, n) ==
    CASE Issues(c, n) /\ IssuedBy(c, n) = {} -> "root"
      [] Issues(c, n) /\ IssuedBy(c, n) # {} -> "intermediate"
      [] ~Issues(c, n) /\ IssuedBy(c, n) # {} -> "issuing"
      [] OTHER -> "standalone"

IsRootCa(c, n) == c.type[n] = CA /\ (c.config[n] = "Root" \/ CaTier(c, n) = "root")

Ancestors(c, n) ==
    LET up[i \in 0..Cardinality(c.nodes)] ==
          IF i = 0 THEN IssuedBy(c, n)
          ELSE up[i - 1] \cup UNION {IssuedBy(c, m) : m \in up[i - 1]}
    IN  up[Cardinality(c.nodes)]
CaDepth(c, n) == Cardinality(Ancestors(c, n))

-----------------------------------------------------------------------------
\* Sockets, where a connection begins and ends.

WebEdges(c, ca, web) ==
    {e \in EdgesOf(c, "webServerCert") : e.source = ca /\ e.target = web}
IsComplete(c, ca, web) ==
    {"publication", "ocsp"} \subseteq {e.socket : e \in WebEdges(c, ca, web)}

Handle(socket, side) == [socket |-> socket, side |-> side]

\* What a node offers to a new connection.
Offered(c, n) ==
    CASE ~IsConnectable(c, n) -> {}
      [] c.type[n] = CA ->
            {Handle("issuance", "source"), Handle("publication", "source")}
              \cup (IF IsRootCa(c, n) THEN {}
                    ELSE {Handle("issuance", "target"), Handle("ocsp", "source")})
      [] c.type[n] = "webServer" -> {Handle("publication", "target"), Handle("ocsp", "target")}
      [] OTHER -> {}

\* The edges of a node keep their handles.
HandlesInUse(c, n) ==
    {Handle(e.socket, "source") : e \in {f \in c.edges : f.source = n /\ f.socket # "none"}}
      \cup {Handle(e.socket, "target") : e \in {f \in c.edges : f.target = n /\ f.socket # "none"}}

\* serviceSocketsForNode.
Handles(c, n) == IF c.type[n] = DC THEN {} ELSE Offered(c, n) \cup HandlesInUse(c, n)

\* serviceSocketEdgeType: "none" for a pair that makes no relationship.
SocketEdgeType(c, s, socket, t) ==
    CASE c.type[s] = CA /\ c.type[t] = CA /\ socket = "issuance" -> "caHierarchy"
      [] c.type[s] = CA /\ c.type[t] = "webServer" /\ socket \in {"publication", "ocsp"} ->
            "webServerCert"
      [] OTHER -> "none"

\* The CA hierarchy stays a tree of two tiers.
MayIssue(c, s, t) ==
    /\ c.config[s] # "Issuing" /\ CaTier(c, s) # "issuing"
    /\ \A e \in c.edges : {e.source, e.target} # {s, t}
    /\ IssuedBy(c, t) = {} /\ t \notin Ancestors(c, s)

CanConnect(c, s, t) ==
    /\ s # t /\ IsConnectable(c, s) /\ IsConnectable(c, t)
    /\ c.type[s] = CA
    /\ \/ c.type[t] = CA /\ MayIssue(c, s, t)
       \/ c.type[t] = "webServer"

CanConnectSockets(c, s, socket, t) ==
    /\ SocketEdgeType(c, s, socket, t) # "none"
    /\ \A e \in WebEdges(c, s, t) : e.socket # socket
    /\ CanConnect(c, s, t)

-----------------------------------------------------------------------------
\* Domains.

Joins(c, n) == {e \in EdgesOf(c, "domainJoin") : e.source = n}
DomainOf(c, n) == IF Joins(c, n) = {} THEN NoNode ELSE (CHOOSE e \in Joins(c, n) : TRUE).target
Members(c, dc) == {e.source : e \in {f \in EdgesOf(c, "domainJoin") : f.target = dc}} \cap c.nodes

\* isDomainEligible.
MayJoinDomains(c, n) ==
    c.type[n] \notin {DC, "product"} /\ IsConnectable(c, n) /\ ~IsRootCa(c, n)

\* domainJoinBlockReason.
JoinBlocked(c, n, dc) ==
    ~IsConnectable(c, dc) \/ ~MayJoinDomains(c, n) \/ \E e \in Joins(c, n) : e.target = dc

Dist(x, y) == IF x < y THEN y - x ELSE x - y
Apart(c, n, m) == Dist(c.at[n], c.at[m])

\* A circle grows with its members, but does not chase one that is carried out.
DomainRadius(c, dc) ==
    LET members == Members(c, dc)
        without(m) == Max({Radius} \cup {Apart(c, o, dc) + MemberPadding : o \in members \ {m}})
        huddled(m) == \E o \in c.nodes \ {m, dc} : Apart(c, o, m) < NeighborClearance
        leaving(m) == Apart(c, m, dc) > without(m) + ExitMargin /\ ~huddled(m)
    IN  Max({Radius} \cup {Apart(c, m, dc) + HalfWidth + CircleMargin
                             : m \in {o \in members : ~leaving(o)}})

Circles(c, n) == {dc \in c.nodes \ {n} : c.type[dc] = DC /\ IsConnectable(c, dc)}
Nearest(c, n, dcs) ==
    IF dcs = {} THEN NoNode
    ELSE CHOOSE dc \in dcs : \A o \in dcs : Apart(c, n, dc) <= Apart(c, n, o)

\* A card is in a domain by its centre; any part of it may touch a circle.
IsWithin(c, n, dc) == Apart(c, n, dc) <= DomainRadius(c, dc)
Touches(c, n, dc) == Apart(c, n, dc) <= DomainRadius(c, dc) + HalfWidth

FindDomain(c, n) == Nearest(c, n, {dc \in Circles(c, n) : IsWithin(c, n, dc)})
FindOverlapping(c, n) == Nearest(c, n, {dc \in Circles(c, n) : Touches(c, n, dc)})

\* domainRegionBlocker: who keeps the circle of dc from where it is.
RegionBlockers(c, dc) ==
    {n \in c.nodes \ ({dc} \cup Members(c, dc)) : Touches(c, n, dc) /\ JoinBlocked(c, n, dc)}

-----------------------------------------------------------------------------
\* Cards do not overlap.

Clear(x, places) == \A y \in places : Dist(x, y) >= 2 * HalfWidth + Gap

\* nearestFreePosition: outward from where the card was dropped.
NearestFree(x, places) ==
    LET fits == {k \in 0..SearchSteps : Clear(x + k, places) \/ Clear(x - k, places)} IN
    IF fits = {} THEN x
    ELSE IF Clear(x + Min(fits), places) THEN x + Min(fits) ELSE x - Min(fits)

PlacesOf(c, nodes) == {c.at[n] : n \in nodes}

-----------------------------------------------------------------------------
\* The guidance panel: lintTopologyRelationships.

IsOcspOn(c, web) == c.config[web] # "OcspOff"
Hosts(c) == {n \in c.nodes : c.type[n] = "webServer" /\ IsConnectable(c, n)}
IssuingCas(c) == {n \in c.nodes : c.type[n] = CA /\ c.config[n] = "Issuing" /\ IsConnectable(c, n)}

\* Mutant: a service that is only staged is none.
DeployedServices(c, socket) == {e \in EdgesOf(c, "webServerCert") : e.socket = socket /\ ~e.staged}
SocketEdges(c, socket) == {e \in EdgesOf(c, "webServerCert") : e.socket = socket}
PublishersOf(c, web) == {e.source : e \in {f \in SocketEdges(c, "publication") : f.target = web}}

IssuingWarnings(c, ca) ==
    (IF IssuedBy(c, ca) = {} THEN {"missing-ca-parent"} ELSE {})
      \cup (IF Joins(c, ca) = {} THEN {"issuing-ca-outside-domain"} ELSE {})
      \cup (IF \A e \in SocketEdges(c, "publication") : e.source # ca
            THEN {"missing-publication-host"} ELSE {})

HostWarnings(c, web) ==
    LET ocsp == {e \in SocketEdges(c, "ocsp") : e.target = web}
        publishers == PublishersOf(c, web)
    IN  (IF IsOcspOn(c, web) /\ ocsp = {} THEN {"ocsp-template-grant-missing"} ELSE {})
          \cup (IF publishers # {} /\ \E e \in ocsp : e.health \in {"degraded", "broken"}
                THEN {"probe-ocsp-path-unverified"} ELSE {})
          \cup (IF Joins(c, web) = {} /\ \E ca \in publishers : Joins(c, ca) # {}
                THEN {"pki-cname-target-missing-a"} ELSE {})

Lint(c) ==
    {[code |-> "deployment-failed", node |-> n] : n \in {m \in c.nodes : c.life[m] = "failed"}}
      \cup (UNION {{[code |-> w, node |-> n] : w \in IssuingWarnings(c, n)} : n \in IssuingCas(c)})
      \cup (UNION {{[code |-> w, node |-> n] : w \in HostWarnings(c, n)} : n \in Hosts(c)})

\* Mutant: it is not asked whether both are of one domain.
NeedsParent(c, s, socket, t) ==
    IF c.type[t] = "webServer" /\ ~IsRootCa(c, s) /\ IssuedBy(c, s) = {} THEN {"parent"} ELSE {}
\* connectionMissingRequirements: what the preview of a connection still asks for.
MissingRequirements(c, s, socket, t) ==
    IF c.type[t] # "webServer" \/ IsRootCa(c, s) THEN {}
    ELSE (IF IssuedBy(c, s) = {} THEN {"parent"} ELSE {})
           \cup (IF Joins(c, s) = {} \/ DomainOf(c, s) # DomainOf(c, t) THEN {"domain"} ELSE {})
           \cup (IF socket = "ocsp" /\ ~IsOcspOn(c, t) THEN {"ocsp"} ELSE {})

\* ConnectionPreview: where a connection from a socket may end, and whether the
\* one that is drawn is "Ready to stage".
CompatibleTargets(c, s, socket) ==
    {t \in c.nodes : Handle(socket, "target") \in Handles(c, t) /\ CanConnectSockets(c, s, socket, t)}
ReadyToStage(c, s, socket, t) ==
    t \in CompatibleTargets(c, s, socket) /\ MissingRequirements(c, s, socket, t) = {}

-----------------------------------------------------------------------------
\* What nodes, edges and regions show.

LifeHealth(life) ==
    CASE life = "deployed" -> "verified"
      [] life = "staged" -> "planned"
      [] life \in {"deploying", "provisioning"} -> "applying"
      [] life \in {"drifted", "destroying"} -> "degraded"
      [] life \in {"draft", "failed"} -> "broken"

OperationHealth(status) ==
    CASE status = "running" -> "applying"
      [] status = "done" -> "verified"
      [] status = "cancelled" -> "degraded"
      [] status = "error" -> "broken"
      [] OTHER -> "planned"

\* leastHealthy, by DOMAIN_HEALTH_PRIORITY.
Worst == <<"broken", "degraded", "applying", "planned", "verified">>
LeastHealthy(healths) == Worst[Min({i \in DOMAIN Worst : Worst[i] \in healths \cup {"verified"}})]

\* domainRegionSummary: the health of a region, and of the forest in it.
RegionHealth(c, dc) ==
    LeastHealthy({LifeHealth(c.life[dc])}
                   \cup {e.health : e \in {f \in EdgesOf(c, "domainJoin") : f.target = dc}})

-----------------------------------------------------------------------------
\* domainJoinEdge, and the edge that connect() adds.

Ghost(type, s, socket, t) ==
    [type |-> type, source |-> s, target |-> t, socket |-> socket, staged |-> TRUE,
     health |-> "planned"]
JoinEdge(n, dc, staged) ==
    [Ghost("domainJoin", n, "none", dc) EXCEPT
        !.staged = staged, !.health = IF staged THEN "planned" ELSE "verified"]

\* operationEdgeIds: the edges of a row of the list, one or several.
OperationEdges(r, es) ==
    CASE r.op.kind = "domainJoin" ->
            {e \in es : e.type = "domainJoin" /\ e.source = r.op.target /\ e.target = r.op.secondary}
      [] r.op.kind = "caConnect" ->
            {e \in es : \/ /\ e.type = "caHierarchy"
                           /\ e.source = r.op.secondary /\ e.target = r.op.target
                        \/ e.socket = "publication" /\ e.source = r.op.secondary}
      [] r.op.kind = "webServerCert" ->
            {e \in es : /\ e.type = "webServerCert"
                        /\ e.source = r.op.target /\ e.target = r.op.secondary}
      [] OTHER -> {}

\* An edge is known by its id, which is made of these.
IdOf(e) == [type |-> e.type, source |-> e.source, target |-> e.target, socket |-> e.socket]

\* loadSnapshot: a publication saved before sockets becomes one edge per socket; a
\* node that a closed tab left on its way is what the list says it is (resumeJobs).
Hydrated(saved, cloning) ==
    LET split(e) ==
          IF e.socket # "legacy" THEN {e}
          ELSE {[e EXCEPT !.socket = s] : s \in
                  IF saved.config[e.source] = "Root" THEN {"publication"} ELSE {"publication", "ocsp"}}
        resumed(n) ==
          CASE saved.life[n] = "destroying" -> "deployed"
            [] saved.life[n] = "deploying" -> IF n \in cloning THEN "staged" ELSE "draft"
            [] OTHER -> saved.life[n]
    IN  [saved EXCEPT !.edges = UNION {split(e) : e \in saved.edges},
                      !.life = [n \in DOMAIN saved.life |-> resumed(n)]]

-----------------------------------------------------------------------------
\* buildDeployTopology.

RoleOf(c, n) ==
    CASE c.type[n] = CA -> IF c.config[n] = "Issuing" THEN "issuingCa" ELSE "rootCa"
      [] c.type[n] = "product" -> "standalone"
      [] OTHER -> c.type[n]

StateOf(edges) == IF \E e \in edges : e.staged THEN "planned" ELSE "realized"
TopologyEdge(kind, s, t, edges) ==
    [kind |-> kind, source |-> s, target |-> t, state |-> StateOf(edges)]

\* A publication of an issuing CA needs both of its sockets; a root's is relayed.
Publishes(c, ca, web) == IsComplete(c, ca, web) /\ c.config[ca] = "Issuing"

\* Half a publication of an issuing CA is no relationship for the backend.
HalfPublished(c) ==
    \E e \in EdgesOf(c, "webServerCert") :
        c.config[e.source] = "Issuing" /\ ~IsComplete(c, e.source, e.target)

DeployTopology(c) ==
    [nodes |-> c.nodes, role |-> [n \in c.nodes |-> RoleOf(c, n)],
     edges |-> {TopologyEdge("domainMembership", e.source, e.target, {e}) : e \in EdgesOf(c, "domainJoin")}
                 \cup {TopologyEdge("caParent", e.source, e.target, {e}) : e \in EdgesOf(c, "caHierarchy")}
                 \cup {TopologyEdge("caPublication", e.source, e.target, WebEdges(c, e.source, e.target)) : e \in
                         {f \in EdgesOf(c, "webServerCert") : Publishes(c, f.source, f.target)}},
     ocspOff |-> {n \in c.nodes : c.config[n] = "OcspOff"},
     realized |-> {n \in c.nodes : IsDeployed(c, n) \/ c.life[n] = "provisioning"}]

\* What the backend may ask of a canvas, the guidance panel and the preview of a connection
\* asked already; the state of a path is all that they may add.
IsQuiet(c) ==
    /\ {w.code : w \in Lint(c)} \subseteq {"probe-ocsp-path-unverified"}
    /\ \A e \in EdgesOf(c, "webServerCert") :
          Publishes(c, e.source, e.target) =>
              MissingRequirements(c, e.source, e.socket, e.target) = {}
=============================================================================
