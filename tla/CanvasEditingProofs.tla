------------------------- MODULE CanvasEditingProofs -------------------------
(***************************************************************************)
(* The rules of the canvas against those of the compiler, for every canvas:  *)
(* any number of cards and edges, however they were drawn; and hence for     *)
(* every canvas that editing it leads to.  What the mouse shows of a drop and *)
(* of a connection, and what becomes of it.  The list of operations beside    *)
(* the canvas: that both tell the same, whatever is done to them, and that    *)
(* the compiler takes the list of a canvas that is configured.                *)
(***************************************************************************)
EXTENDS CanvasEditing, FiniteSetTheorems, WellFoundedInduction, TLAPS

\* The shape of a canvas that the rules read: a service is published by a CA.
IsCanvas(c) ==
    \A e \in EdgesOf(c, "webServerCert") :
        {e.source, e.target} \subseteq c.nodes /\ c.type[e.source] = CA

-----------------------------------------------------------------------------
\* What an edge of the topology was made of, and what becomes of an edge of the canvas.
JoinMade(e) == TopologyEdge("domainMembership", e.source, e.target, {e})
ParentMade(e) == TopologyEdge("caParent", e.source, e.target, {e})
PublicationMade(c, e) ==
    TopologyEdge("caPublication", e.source, e.target, WebEdges(c, e.source, e.target))
JoinsMade(c) == {JoinMade(e) : e \in EdgesOf(c, "domainJoin")}
ParentsMade(c) == {ParentMade(e) : e \in EdgesOf(c, "caHierarchy")}
PublicationsMade(c) ==
    {PublicationMade(c, e) : e \in
        {f \in EdgesOf(c, "webServerCert") : Publishes(c, f.source, f.target)}}

\* An edge of the topology has the kind and the ends of what it was made of.
LEMMA EdgeFields ==
    ASSUME NEW c, NEW e
    PROVE  /\ JoinMade(e).kind = "domainMembership" /\ ParentMade(e).kind = "caParent"
           /\ PublicationMade(c, e).kind = "caPublication"
           /\ e.source \in {JoinMade(e).source} \cap {ParentMade(e).source}
                                 \cap {PublicationMade(c, e).source}
           /\ e.target \in {JoinMade(e).target} \cap {ParentMade(e).target}
                                 \cap {PublicationMade(c, e).target}
BY DEF JoinMade, ParentMade, PublicationMade, TopologyEdge

\* The nodes of the topology are those of the canvas.
LEMMA RolesMade ==
    ASSUME NEW c
    PROVE  /\ DeployTopology(c).nodes = c.nodes
           /\ \A n \in c.nodes : DeployTopology(c).role[n] = RoleOf(c, n)
BY DEF DeployTopology

\* The relationships of the topology, by their kinds, are those of the canvas.
LEMMA EdgesMade ==
    ASSUME NEW c
    PROVE  /\ Memberships(DeployTopology(c)) = JoinsMade(c)
           /\ CaParents(DeployTopology(c)) = ParentsMade(c)
           /\ Publications(DeployTopology(c)) = PublicationsMade(c)
<1>1. DeployTopology(c).edges = JoinsMade(c) \cup ParentsMade(c) \cup PublicationsMade(c)
  BY DEF DeployTopology, JoinsMade, ParentsMade, PublicationsMade, JoinMade, ParentMade,
         PublicationMade
<1>2. \A e \in JoinsMade(c) : e.kind = "domainMembership"
  BY EdgeFields DEF JoinsMade
<1>3. \A e \in ParentsMade(c) : e.kind = "caParent"
  BY EdgeFields DEF ParentsMade
<1>4. \A e \in PublicationsMade(c) : e.kind = "caPublication"
  BY EdgeFields DEF PublicationsMade
<1>. QED
  BY <1>1, <1>2, <1>3, <1>4 DEF Memberships, CaParents, Publications

\* A node has in the topology the domains that its joins lead to.
LEMMA DomainsMade ==
    ASSUME NEW c, NEW n
    PROVE  DomainsOf(DeployTopology(c), n) = {e.target : e \in Joins(c, n)}
<1>1. \A e \in JoinsMade(c) : \E f \in EdgesOf(c, "domainJoin") :
          e.source = f.source /\ e.target = f.target
  BY EdgeFields DEF JoinsMade
<1>2. \A f \in EdgesOf(c, "domainJoin") : \E e \in JoinsMade(c) :
          e.source = f.source /\ e.target = f.target
  BY EdgeFields DEF JoinsMade
<1>. QED
  BY <1>1, <1>2, EdgesMade DEF DomainsOf, Joins

\* A parent of the topology was drawn.
LEMMA ParentIsDrawn ==
    ASSUME NEW c, NEW e \in CaParents(DeployTopology(c))
    PROVE  e.source \in IssuedBy(c, e.target)
<1>1. PICK f \in EdgesOf(c, "caHierarchy") : e.source = f.source /\ e.target = f.target
  BY EdgesMade, EdgeFields DEF ParentsMade
<1>. QED
  BY <1>1 DEF IssuedBy

\* A publication of the topology was drawn whole.
LEMMA PublicationIsDrawn ==
    ASSUME NEW c, NEW e \in Publications(DeployTopology(c))
    PROVE  Publishes(c, e.source, e.target)
BY EdgesMade, EdgeFields DEF PublicationsMade

\* What was drawn whole is a publication of the topology.
LEMMA PublicationIsMade ==
    ASSUME NEW c, NEW f \in EdgesOf(c, "webServerCert"), Publishes(c, f.source, f.target)
    PROVE  \E e \in Publications(DeployTopology(c)) : e.source = f.source /\ e.target = f.target
<1>1. PublicationMade(c, f) \in Publications(DeployTopology(c))
  BY EdgesMade DEF PublicationsMade
<1>. QED
  BY <1>1, EdgeFields

\* A complete publication has an edge at each of its sockets.
LEMMA CompleteEdges ==
    ASSUME NEW c, NEW ca, NEW web, IsComplete(c, ca, web), NEW socket \in {"publication", "ocsp"}
    PROVE  \E e \in SocketEdges(c, socket) : e.source = ca /\ e.target = web
BY DEF IsComplete, WebEdges, SocketEdges, EdgesOf

-----------------------------------------------------------------------------
\* What an accepted topology says of the canvas it was made of.
LEMMA IssuingIsDrawn ==
    ASSUME NEW c, IsCanvas(c), Valid(DeployTopology(c)), NEW ca \in c.nodes,
           c.type[ca] = CA, c.config[ca] = "Issuing"
    PROVE  /\ IssuedBy(c, ca) # {} /\ Joins(c, ca) # {}
           /\ \E e \in SocketEdges(c, "publication") : e.source = ca
           /\ \A web : Publishes(c, ca, web) /\ WebEdges(c, ca, web) # {} =>
                 /\ {e.target : e \in Joins(c, web)} = {e.target : e \in Joins(c, ca)}
                 /\ web \in c.nodes /\ IsOcspOn(c, web)
<1> DEFINE t == DeployTopology(c)
<1>1. ca \in RoleIs(t, "issuingCa")
  BY RolesMade DEF RoleIs, RoleOf, CA
<1>2. CaIsComplete(t, ca)
  BY <1>1 DEF Valid
<1>3. IssuedBy(c, ca) # {}
  BY <1>2, ParentIsDrawn DEF CaIsComplete
<1>4. Joins(c, ca) # {}
  BY <1>2, DomainsMade DEF CaIsComplete
<1>5. \E e \in SocketEdges(c, "publication") : e.source = ca
  <2>1. PICK e \in Publications(t) : e.source = ca
    BY <1>2 DEF CaIsComplete
  <2>2. IsComplete(c, ca, e.target)
    BY <2>1, PublicationIsDrawn DEF Publishes
  <2>. QED
    BY <2>2, CompleteEdges
<1>6. ASSUME NEW web, Publishes(c, ca, web), WebEdges(c, ca, web) # {}
      PROVE  /\ {e.target : e \in Joins(c, web)} = {e.target : e \in Joins(c, ca)}
             /\ web \in c.nodes /\ IsOcspOn(c, web)
  <2>1. PICK f \in EdgesOf(c, "webServerCert") : f.source = ca /\ f.target = web
    BY <1>6 DEF WebEdges
  <2>2. web \in c.nodes
    BY <2>1 DEF IsCanvas, EdgesOf
  <2>3. PICK e \in Publications(t) : e.source = ca /\ e.target = web
    BY <1>6, <2>1, PublicationIsMade
  <2>4. DomainsOf(t, web) = DomainsOf(t, ca) /\ web \notin t.ocspOff
    BY <1>2, <2>3 DEF CaIsComplete
  <2>5. IsOcspOn(c, web)
    BY <2>2, <2>4 DEF DeployTopology, IsOcspOn
  <2>. QED
    BY <2>2, <2>4, <2>5, DomainsMade
<1>. QED
  BY <1>3, <1>4, <1>5, <1>6

\* A host of OCSP in an accepted topology has an edge at its OCSP socket.
LEMMA HostIsDrawn ==
    ASSUME NEW c, IsCanvas(c), Valid(DeployTopology(c)), NEW web \in Hosts(c), IsOcspOn(c, web)
    PROVE  \E e \in SocketEdges(c, "ocsp") : e.target = web
<1> DEFINE t == DeployTopology(c)
<1>1. web \in RoleIs(t, "webServer") \ t.ocspOff
  BY DEF RoleIs, DeployTopology, RoleOf, Hosts, IsOcspOn, CA
<1>2. PICK e \in Publications(t) : e.target = web
  BY <1>1 DEF Valid
<1>3. IsComplete(c, e.source, web)
  BY <1>2, PublicationIsDrawn DEF Publishes
<1>. QED
  BY <1>3, CompleteEdges

\* Only one domain: the controller that a card is shown to be of is the one.
LEMMA OneDomainIsDrawn ==
    ASSUME NEW c, Valid(DeployTopology(c)), NEW n, NEW m, Joins(c, n) # {},
           {e.target : e \in Joins(c, m)} = {e.target : e \in Joins(c, n)}
    PROVE  DomainOf(c, m) = DomainOf(c, n)
<1>1. \A e, f \in Joins(c, n) : e.target = f.target
  <2>. SUFFICES ASSUME NEW e \in Joins(c, n), NEW f \in Joins(c, n) PROVE e.target = f.target
    OBVIOUS
  <2>1. JoinMade(e) \in Memberships(DeployTopology(c)) /\ JoinMade(f) \in Memberships(DeployTopology(c))
    BY EdgesMade DEF JoinsMade, Joins
  <2>2. e.source = n /\ f.source = n
    BY DEF Joins
  <2>3. JoinMade(e) = JoinMade(f)
    BY <2>1, <2>2, EdgeFields DEF Valid, OneDomain
  <2>. QED
    BY <2>3, EdgeFields
<1>2. (CHOOSE e \in Joins(c, n) : TRUE) \in Joins(c, n)
  OBVIOUS
<1>3. Joins(c, m) # {}
  OBVIOUS
<1>4. (CHOOSE e \in Joins(c, m) : TRUE) \in Joins(c, m)
  BY <1>3
<1>. QED
  BY <1>1, <1>2, <1>3, <1>4 DEF DomainOf

\* For every canvas of configured cards without half a publication, whatever is drawn on it:
\* if the backend accepts its topology, the guidance panel and the previews ask for nothing
\* (lintTopologyRelationships, connectionMissingRequirements; validate_topology).
THEOREM AcceptedCanvasIsQuiet ==
    ASSUME NEW c, IsCanvas(c), \A n \in c.nodes : IsConnectable(c, n),
           ~HalfPublished(c), Valid(DeployTopology(c))
    PROVE  IsQuiet(c)
<1>1. \A n \in c.nodes : c.life[n] # "failed"
  BY DEF IsConnectable, IsDeployed
<1>2. ASSUME NEW ca \in IssuingCas(c) PROVE IssuingWarnings(c, ca) = {}
  <2>1. ca \in c.nodes /\ c.type[ca] = CA /\ c.config[ca] = "Issuing"
    BY DEF IssuingCas
  <2>. QED
    BY <2>1, IssuingIsDrawn DEF IssuingWarnings
<1>3. ASSUME NEW web \in Hosts(c) PROVE HostWarnings(c, web) \subseteq {"probe-ocsp-path-unverified"}
  <2>1. IsOcspOn(c, web) => {e \in SocketEdges(c, "ocsp") : e.target = web} # {}
    BY HostIsDrawn
  <2>2. ASSUME NEW ca \in PublishersOf(c, web), Joins(c, ca) # {} PROVE Joins(c, web) # {}
    <3>1. PICK f \in EdgesOf(c, "webServerCert") : f.source = ca /\ f.target = web
      BY DEF PublishersOf, SocketEdges
    <3>2. ca \in c.nodes /\ c.type[ca] = CA
      BY <3>1 DEF IsCanvas, EdgesOf
    <3>3. c.config[ca] = "Issuing"
      <4>1. PICK j \in EdgesOf(c, "domainJoin") : j.source = ca
        BY <2>2 DEF Joins
      <4>2. JoinMade(j) \in Memberships(DeployTopology(c)) /\ JoinMade(j).source = ca
        BY <4>1, EdgesMade, EdgeFields DEF JoinsMade
      <4>3. DeployTopology(c).role[ca] # "rootCa"
        BY <4>2 DEF Valid, RolesFit
      <4>. QED
        BY <3>2, <4>3, RolesMade DEF RoleOf, CA
    <3>4. Publishes(c, ca, web) /\ WebEdges(c, ca, web) # {}
      BY <3>1, <3>3 DEF HalfPublished, Publishes, WebEdges
    <3>5. {e.target : e \in Joins(c, web)} = {e.target : e \in Joins(c, ca)}
      BY <3>2, <3>3, <3>4, IssuingIsDrawn
    <3>. QED
      BY <2>2, <3>5
  <2>. QED
    BY <2>1, <2>2 DEF HostWarnings
<1>4. {w.code : w \in Lint(c)} \subseteq {"probe-ocsp-path-unverified"}
  <2>. SUFFICES ASSUME NEW w \in Lint(c) PROVE w.code = "probe-ocsp-path-unverified"
    OBVIOUS
  <2>1. w \notin {[code |-> "deployment-failed", node |-> n] : n \in {m \in c.nodes : c.life[m] = "failed"}}
    BY <1>1
  <2>2. w \notin UNION {{[code |-> x, node |-> n] : x \in IssuingWarnings(c, n)} : n \in IssuingCas(c)}
    BY <1>2
  <2>3. w \in UNION {{[code |-> x, node |-> n] : x \in HostWarnings(c, n)} : n \in Hosts(c)}
    BY <2>1, <2>2 DEF Lint
  <2>4. PICK n \in Hosts(c) : w \in {[code |-> x, node |-> n] : x \in HostWarnings(c, n)}
    BY <2>3
  <2>. QED
    BY <1>3, <2>4
<1>5. ASSUME NEW e \in EdgesOf(c, "webServerCert"), Publishes(c, e.source, e.target)
      PROVE  MissingRequirements(c, e.source, e.socket, e.target) = {}
  <2>1. /\ e.source \in c.nodes /\ c.type[e.source] = CA /\ c.config[e.source] = "Issuing"
        /\ WebEdges(c, e.source, e.target) # {}
    BY <1>5 DEF IsCanvas, EdgesOf, Publishes, WebEdges
  <2>2. /\ IssuedBy(c, e.source) # {} /\ Joins(c, e.source) # {} /\ IsOcspOn(c, e.target)
        /\ {f.target : f \in Joins(c, e.target)} = {f.target : f \in Joins(c, e.source)}
    BY <1>5, <2>1, IssuingIsDrawn
  <2>3. DomainOf(c, e.target) = DomainOf(c, e.source)
    BY <2>2, OneDomainIsDrawn
  <2>. QED
    BY <2>2, <2>3 DEF MissingRequirements
<1>. QED
  BY <1>4, <1>5 DEF IsQuiet

-----------------------------------------------------------------------------
\* The canvas stays one whose services are published by CAs, whatever is done to it.

\* An edge is whole, and a join leads to a card.
Drawn(e) ==
    /\ {"type", "source", "target", "staged", "health"} \subseteq DOMAIN e
    /\ e.type = "domainJoin" => e.target # NoNode
Shaped(c) ==
    /\ {"nodes", "type", "config", "life", "at", "edges"} \subseteq DOMAIN c
    /\ \A e \in c.edges : Drawn(e)
DrawnInv == Shaped(canvas) /\ IsCanvas(canvas)

\* What is done to a canvas that keeps its cards: another place, setting or life, and
\* edges with the ends of those it had.
Keeps(c, d) ==
    /\ DOMAIN d = DOMAIN c /\ d.type = c.type /\ c.nodes \subseteq d.nodes
    /\ \A f \in d.edges :
          /\ Drawn(f)
          /\ f.type = "webServerCert" =>
                \E e \in c.edges : e.type = f.type /\ e.source = f.source /\ e.target = f.target

LEMMA KeptIsDrawn ==
    ASSUME NEW c, NEW d, Shaped(c), IsCanvas(c), Keeps(c, d)
    PROVE  Shaped(d) /\ IsCanvas(d)
<1>1. Shaped(d)
  BY DEF Shaped, Keeps
<1>2. IsCanvas(d)
  BY DEF IsCanvas, Keeps, EdgesOf
<1>. QED
  BY <1>1, <1>2

\* A join that is drawn or brought back.
LEMMA JoinFields ==
    ASSUME NEW n, NEW dc, NEW staged, dc # NoNode
    PROVE  /\ Drawn(JoinEdge(n, dc, staged))
           /\ JoinEdge(n, dc, staged).type = "domainJoin"
BY DEF JoinEdge, Ghost, Drawn

\* Undoing operations removes edges, and brings back joins only.
LEMMA EdgeOfUndo ==
    ASSUME NEW gone, NEW es, NEW e \in EdgesWithout(gone, es)
    PROVE  \/ e \in es
           \/ /\ Drawn(e)
              /\ e.type = "domainJoin"
<1>1. CASE e \in Without(es, gone)
  BY <1>1 DEF Without
<1>2. CASE e \in Restored(gone)
  <2>1. PICK r \in gone : r.prev # NoNode /\ e = JoinEdge(r.op.target, r.prev, FALSE)
    BY <1>2 DEF Restored
  <2>. DEFINE back == JoinEdge(r.op.target, r.prev, FALSE)
  <2>2. Drawn(back) /\ back.type = "domainJoin"
    BY <2>1, JoinFields
  <2>. HIDE DEF back
  <2>3. e = back
    BY <2>1 DEF back
  <2>. QED
    BY <2>2, <2>3
<1>. QED
  BY <1>1, <1>2 DEF EdgesWithout

\* The canvas after operations were undone.
LEMMA UndoneIsDrawn ==
    ASSUME NEW c, Shaped(c), NEW gone, NEW d, DOMAIN d = DOMAIN c, d.type = c.type, d.nodes = c.nodes,
           d.edges = EdgesWithout(gone, c.edges)
    PROVE  Keeps(c, d)
<1>1. ASSUME NEW f \in d.edges
      PROVE  /\ Drawn(f)
             /\ f.type = "webServerCert" => f \in c.edges
  BY EdgeOfUndo DEF Shaped
<1>. QED
  BY <1>1 DEF Keeps

\* EXCEPT, on the fields of a canvas.
LEMMA RemovesKeeps ==
    ASSUME Shaped(canvas), NEW gone, NEW past, Removes(gone, past)
    PROVE  Keeps(canvas, canvas')
<1>1. canvas' = [canvas EXCEPT !.edges = EdgesWithout(gone, @), !.life = Unconfigured(gone, @)]
  BY DEF Removes
<1>2. /\ DOMAIN canvas' = DOMAIN canvas /\ canvas'.type = canvas.type /\ canvas'.nodes = canvas.nodes
      /\ canvas'.edges = EdgesWithout(gone, canvas.edges)
  BY <1>1 DEF Shaped
<1>. QED
  BY <1>2, UndoneIsDrawn

\* A deleted card takes its edges along.
LEMMA RemoveNodeDraws ==
    ASSUME DrawnInv, NEW n, NEW past, RemoveNode(n, past)
    PROVE  DrawnInv'
<1>. DEFINE gone == NodeCascade(n)
            left == {e \in EdgesWithout(gone, canvas.edges) : n \notin {e.source, e.target}}
<1>1. canvas' = [canvas EXCEPT
                    !.nodes = @ \ {n},
                    !.edges = {e \in EdgesWithout(gone, @) : n \notin {e.source, e.target}},
                    !.life = Unconfigured(gone, @)]
  BY DEF RemoveNode
<1>2. /\ DOMAIN canvas' = DOMAIN canvas /\ canvas'.type = canvas.type
      /\ canvas'.nodes = canvas.nodes \ {n} /\ canvas'.edges = left
  BY <1>1 DEF DrawnInv, Shaped
<1>3. ASSUME NEW f \in left
      PROVE  /\ Drawn(f)
             /\ f.type = "webServerCert" => f \in canvas.edges /\ n \notin {f.source, f.target}
  BY EdgeOfUndo DEF DrawnInv, Shaped
<1>. HIDE DEF left
<1>4. Shaped(canvas')
  BY <1>2, <1>3 DEF DrawnInv, Shaped
<1>5. IsCanvas(canvas')
  BY <1>2, <1>3 DEF DrawnInv, IsCanvas, EdgesOf
<1>. QED
  BY <1>4, <1>5 DEF DrawnInv

LEMMA DrawnIfKept ==
    ASSUME DrawnInv, Keeps(canvas, canvas')
    PROVE  DrawnInv'
BY KeptIsDrawn DEF DrawnInv

\* A gesture that leaves the edges alone.
LEMMA PlacesDraw ==
    ASSUME DrawnInv, DOMAIN canvas' = DOMAIN canvas, canvas'.type = canvas.type,
           canvas.nodes \subseteq canvas'.nodes, canvas'.edges = canvas.edges
    PROVE  DrawnInv'
BY DrawnIfKept DEF DrawnInv, Shaped, Keeps

\* A connection is a publication if it starts at a CA.
LEMMA ConnectDraws ==
    ASSUME DrawnInv, NEW s \in Nodes, NEW socket, NEW t \in Nodes, Connect(s, socket, t)
    PROVE  DrawnInv'
<1>. DEFINE type == SocketEdgeType(canvas, s, socket, t)
            new == Ghost(type, s, socket, t)
<1>1. canvas' = [canvas EXCEPT !.edges = canvas.edges \cup {new}]
  BY DEF Connect
<1>2. /\ DOMAIN canvas' = DOMAIN canvas /\ canvas'.type = canvas.type
      /\ canvas'.nodes = canvas.nodes /\ canvas'.edges = canvas.edges \cup {new}
  BY <1>1 DEF DrawnInv, Shaped
<1>3. type # "domainJoin" /\ (type = "webServerCert" => canvas.type[s] = CA)
  BY DEF SocketEdgeType
<1>. HIDE DEF type
<1>4. /\ Drawn(new)
      /\ new.type = type /\ new.source = s /\ new.target = t
  BY <1>3 DEF Ghost, Drawn
<1>. HIDE DEF new
<1>5. Shaped(canvas')
  BY <1>2, <1>4 DEF DrawnInv, Shaped
<1>6. IsCanvas(canvas')
  BY <1>2, <1>3, <1>4 DEF DrawnInv, IsCanvas, EdgesOf, Nodes
<1>. QED
  BY <1>5, <1>6 DEF DrawnInv

\* The frames of a plan colour the edges.
LEMMA ShownEdge ==
    ASSUME DrawnInv, NEW rs, NEW f \in EdgesShown(rs)
    PROVE  /\ Drawn(f)
           /\ \E e \in canvas.edges : e.type = f.type /\ e.source = f.source /\ e.target = f.target
<1>1. PICK e \in canvas.edges :
        \/ f = e
        \/ \E h, st : f = [e EXCEPT !.health = h, !.staged = st]
  BY DEF EdgesShown
<1>2. Drawn(e)
  BY DEF DrawnInv, Shaped
<1>. QED
  BY <1>1, <1>2 DEF Drawn

LEMMA ShownDraws ==
    ASSUME DrawnInv, NEW rs, DOMAIN canvas' = DOMAIN canvas, canvas'.type = canvas.type,
           canvas'.nodes = canvas.nodes, canvas'.edges = EdgesShown(rs)
    PROVE  DrawnInv'
<1>1. Keeps(canvas, canvas')
  BY ShownEdge DEF Keeps
<1>. QED
  BY <1>1, DrawnIfKept

\* The answer to the question of a domain draws joins.
LEMMA ChangesDraw ==
    ASSUME DrawnInv, NEW changes, AppliesChanges(changes)
    PROVE  DrawnInv'
<1>1. canvas' = [canvas EXCEPT !.edges = ChangedEdges(changes)]
  BY DEF AppliesChanges
<1>2. /\ DOMAIN canvas' = DOMAIN canvas /\ canvas'.type = canvas.type
      /\ canvas'.nodes = canvas.nodes /\ canvas'.edges = ChangedEdges(changes)
  BY <1>1 DEF DrawnInv, Shaped
<1>3. ASSUME NEW f \in ChangedEdges(changes)
      PROVE  /\ Drawn(f)
             /\ f.type = "webServerCert" => f \in canvas.edges
  <2>1. \/ f \in canvas.edges
        \/ \E n, dc, staged : dc # NoNode /\ f = JoinEdge(n, dc, staged)
    BY DEF ChangedEdges, Restored
  <2>. QED
    BY <2>1, JoinFields DEF DrawnInv, Shaped
<1>4. Keeps(canvas, canvas')
  BY <1>2, <1>3 DEF Keeps
<1>. QED
  BY <1>4, DrawnIfKept

\* A saved canvas as it is opened: an old publication becomes one per socket.
LEMMA HydratedIsDrawn ==
    ASSUME NEW scene \in Scenes, NEW cloning
    PROVE  Shaped(Hydrated(scene.canvas, cloning)) /\ IsCanvas(Hydrated(scene.canvas, cloning))
<1>. DEFINE c == scene.canvas
            d == Hydrated(c, cloning)
            cards == DOMAIN c.type
<1>0. NoNode \notin cards
  BY ScenesAssumption
<1>1. /\ c \in [nodes : SUBSET cards, type : [cards -> Types], config : [cards -> Settings],
                life : [cards -> Lives \cup {"deploying", "drifted", "destroying"}],
                at : [cards -> Int], edges : {c.edges}]
      /\ c.edges \subseteq [type : EdgeTypes, source : cards, target : cards,
                             socket : Sockets \cup {"legacy"}, staged : BOOLEAN, health : Healths]
      /\ \A e \in EdgesOf(c, "webServerCert") :
            {e.source, e.target} \subseteq c.nodes /\ c.type[e.source] = CA
  BY ScenesAssumption
<1>2. \A e \in c.edges : Drawn(e)
  BY <1>0, <1>1 DEF Drawn
<1>3. {"nodes", "type", "config", "life", "at", "edges"} \subseteq DOMAIN c
  BY <1>1
<1>. HIDE DEF c
<1>4. \A f \in d.edges : \E e \in c.edges : f = e \/ \E s : f = [e EXCEPT !.socket = s]
  BY <1>3 DEF Hydrated
<1>5. DOMAIN d = DOMAIN c /\ d.nodes = c.nodes /\ d.type = c.type
  BY <1>3 DEF Hydrated
<1>. HIDE DEF d
<1>6. ASSUME NEW f \in d.edges
      PROVE  /\ Drawn(f)
             /\ \E e \in c.edges : e.type = f.type /\ e.source = f.source /\ e.target = f.target
  <2>1. PICK e \in c.edges : f = e \/ \E s : f = [e EXCEPT !.socket = s]
    BY <1>4
  <2>. QED
    BY <1>2, <2>1 DEF Drawn
<1>7. Shaped(d)
  BY <1>3, <1>5, <1>6 DEF Shaped
<1>8. IsCanvas(d)
  BY <1>1, <1>2, <1>5, <1>6 DEF IsCanvas, EdgesOf
<1>. QED
  BY <1>7, <1>8 DEF c, d

LEMMA InitDraws == Init => DrawnInv
<1>. SUFFICES ASSUME Init PROVE DrawnInv
  OBVIOUS
<1>1. PICK scene \in Scenes : \E cloning : canvas = Hydrated(scene.canvas, cloning)
  BY DEF Init, Opened
<1>. QED
  BY <1>1, HydratedIsDrawn DEF DrawnInv

\* A gesture on the canvas.
LEMMA GestureDraws ==
    ASSUME DrawnInv,
           \/ \E n \in fresh, x \in Places : Drop(n, x)
           \/ \E n \in Nodes :
                 \/ \E setting \in Settings : EditForm(n, setting) \/ Configure(n, setting)
                 \/ \E x \in Places : Drag(n, x)
                 \/ \E m \in Nodes, socket \in Sockets : Connect(n, socket, m)
                 \/ \E dc \in Nodes : JoinAction(n, dc)
    PROVE  DrawnInv'
<1>1. ASSUME NEW n, NEW x, Drop(n, x) PROVE DrawnInv'
  <2>1. canvas' = [canvas EXCEPT !.nodes = @ \cup {n}, !.at[n] = x, !.life[n] = "draft"]
    BY <1>1 DEF Drop
  <2>2. /\ DOMAIN canvas' = DOMAIN canvas /\ canvas'.type = canvas.type
        /\ canvas'.nodes = canvas.nodes \cup {n} /\ canvas'.edges = canvas.edges
    BY <2>1 DEF DrawnInv, Shaped
  <2>. QED
    BY <2>2, PlacesDraw
<1>2. ASSUME NEW n, NEW setting, EditForm(n, setting) \/ Configure(n, setting) PROVE DrawnInv'
  <2>1. \/ canvas' = [canvas EXCEPT !.config[n] = setting]
        \/ canvas' = [canvas EXCEPT !.config[n] = setting, !.life[n] = "staged"]
    BY <1>2 DEF EditForm, Configure
  <2>2. /\ DOMAIN canvas' = DOMAIN canvas /\ canvas'.type = canvas.type
        /\ canvas'.nodes = canvas.nodes /\ canvas'.edges = canvas.edges
    BY <2>1 DEF DrawnInv, Shaped
  <2>. QED
    BY <2>2, PlacesDraw
<1>3. ASSUME NEW n, NEW x, Drag(n, x) PROVE DrawnInv'
  <2>1. \E at : canvas' = [canvas EXCEPT !.at = at]
    BY <1>3 DEF Drag, MovedBy, CarriedTo
  <2>2. /\ DOMAIN canvas' = DOMAIN canvas /\ canvas'.type = canvas.type
        /\ canvas'.nodes = canvas.nodes /\ canvas'.edges = canvas.edges
    BY <2>1 DEF DrawnInv, Shaped
  <2>. QED
    BY <2>2, PlacesDraw
<1>4. ASSUME NEW n, NEW dc, JoinAction(n, dc) PROVE DrawnInv'
  <2>1. \E place : canvas' = [canvas EXCEPT !.at[n] = place]
    BY <1>4 DEF JoinAction
  <2>2. /\ DOMAIN canvas' = DOMAIN canvas /\ canvas'.type = canvas.type
        /\ canvas'.nodes = canvas.nodes /\ canvas'.edges = canvas.edges
    BY <2>1 DEF DrawnInv, Shaped
  <2>. QED
    BY <2>2, PlacesDraw
<1>. QED
  BY <1>1, <1>2, <1>3, <1>4, ConnectDraws

\* The answer to a dialog.
LEMMA AnswerDraws ==
    ASSUME DrawnInv, ConfirmDomain \/ CancelDomain \/ ConfirmDelete \/ ConfirmCut \/ Dismiss
    PROVE  DrawnInv'
<1>1. CASE UNCHANGED canvas
  BY <1>1 DEF DrawnInv
<1>2. CASE ConfirmDomain
  BY <1>1, <1>2, ChangesDraw DEF ConfirmDomain
<1>3. CASE CancelDomain
  <2>1. \E at : canvas' = [canvas EXCEPT !.at = at]
    BY <1>3 DEF CancelDomain, SnapsBack
  <2>2. /\ DOMAIN canvas' = DOMAIN canvas /\ canvas'.type = canvas.type
        /\ canvas'.nodes = canvas.nodes /\ canvas'.edges = canvas.edges
    BY <2>1 DEF DrawnInv, Shaped
  <2>. QED
    BY <2>2, PlacesDraw
<1>4. CASE ConfirmDelete
  BY <1>1, <1>4, RemoveNodeDraws DEF ConfirmDelete
<1>5. CASE ConfirmCut
  BY <1>5, RemovesKeeps, DrawnIfKept DEF ConfirmCut, DrawnInv
<1>6. CASE Dismiss
  BY <1>1, <1>6 DEF Dismiss
<1>. QED
  BY <1>2, <1>3, <1>4, <1>5, <1>6

\* A shortcut, or a row of the list.
LEMMA RowDraws ==
    ASSUME DrawnInv,
           Undo \/ (\E n \in Nodes : DeleteKey(n)) \/ (\E row \in rows : RequestRemove(row))
    PROVE  DrawnInv'
<1>1. CASE UNCHANGED canvas
  BY <1>1 DEF DrawnInv
<1>2. CASE Undo
  BY <1>2, RemovesKeeps, DrawnIfKept DEF Undo, DrawnInv
<1>3. ASSUME NEW n \in Nodes, DeleteKey(n) PROVE DrawnInv'
  BY <1>1, <1>3, RemoveNodeDraws DEF DeleteKey
<1>4. ASSUME NEW row \in rows, RequestRemove(row) PROVE DrawnInv'
  BY <1>1, <1>4, RemovesKeeps, DrawnIfKept DEF RequestRemove, DrawnInv
<1>. QED
  BY <1>2, <1>3, <1>4

\* A review, a plan and an agent.
LEMMA PlanDraws ==
    ASSUME DrawnInv,
           Compile \/ Compiled \/ ConfirmReview \/ DeployEnds \/ (\E n \in Nodes : Promote(n))
    PROVE  DrawnInv'
<1>1. CASE UNCHANGED canvas
  BY <1>1 DEF DrawnInv
<1>2. CASE Compile \/ Compiled
  BY <1>1, <1>2 DEF Compile, Compiled
<1>3. ASSUME ConfirmReview, ~UNCHANGED canvas PROVE DrawnInv'
  <2>1. canvas' = [canvas EXCEPT !.edges = EdgesShown(Prepared(rows, "pending"))]
    BY <1>3 DEF ConfirmReview
  <2>2. /\ DOMAIN canvas' = DOMAIN canvas /\ canvas'.type = canvas.type
        /\ canvas'.nodes = canvas.nodes /\ canvas'.edges = EdgesShown(Prepared(rows, "pending"))
    BY <2>1 DEF DrawnInv, Shaped
  <2>. QED
    BY <2>2, ShownDraws
<1>4. ASSUME DeployEnds, ~UNCHANGED canvas PROVE DrawnInv'
  <2>. DEFINE ended == Ended(rows \cup Mirrors(rows))
  <2>1. \E life : canvas' = [canvas EXCEPT !.edges = EdgesShown(ended), !.life = life]
    BY <1>4 DEF DeployEnds
  <2>2. /\ DOMAIN canvas' = DOMAIN canvas /\ canvas'.type = canvas.type
        /\ canvas'.nodes = canvas.nodes /\ canvas'.edges = EdgesShown(ended)
    BY <2>1 DEF DrawnInv, Shaped
  <2>. QED
    BY <2>2, ShownDraws
<1>5. ASSUME NEW n, Promote(n) PROVE DrawnInv'
  <2>1. canvas' = [canvas EXCEPT !.life[n] = "deployed"]
    BY <1>5 DEF Promote
  <2>2. /\ DOMAIN canvas' = DOMAIN canvas /\ canvas'.type = canvas.type
        /\ canvas'.nodes = canvas.nodes /\ canvas'.edges = canvas.edges
    BY <2>1 DEF DrawnInv, Shaped
  <2>. QED
    BY <2>2, PlacesDraw
<1>. QED
  BY <1>1, <1>2, <1>3, <1>4, <1>5

LEMMA StepDraws == DrawnInv /\ [Next]_vars => DrawnInv'
<1>. SUFFICES ASSUME DrawnInv, [Next]_vars PROVE DrawnInv'
  OBVIOUS
<1>1. CASE UNCHANGED vars
  BY <1>1 DEF vars, DrawnInv
<1>2. CASE Next
  BY <1>2, GestureDraws, AnswerDraws, RowDraws, PlanDraws DEF Next
<1>. QED
  BY <1>1, <1>2

\* On every canvas that can be reached, from any saved one and by any gestures, answers,
\* shortcuts and deploys, also past an open dialog: what the backend accepts of configured
\* cards has nothing left that the guidance panel or a preview asks for.
THEOREM AcceptedStaysGuided == Spec => []AcceptedIsGuided
<1>1. DrawnInv => AcceptedIsGuided
  <2>. SUFFICES ASSUME IsCanvas(canvas), \A n \in canvas.nodes : IsConnectable(canvas, n),
                       ~HalfPublished(canvas), Valid(DeployTopology(canvas))
                PROVE  IsQuiet(canvas)
    BY DEF DrawnInv, AcceptedIsGuided, Nodes
  <2>. QED
    BY AcceptedCanvasIsQuiet
<1>. QED
  BY <1>1, InitDraws, StepDraws, PTL DEF Spec

-----------------------------------------------------------------------------
\* What a drag shows and what its drop asks.

\* Where a card does not lie on others it stays where it was dropped.
LEMMA ClearStays ==
    ASSUME NEW x \in Int, NEW places, Clear(x, places)
    PROVE  NearestFree(x, places) = x
<1>. DEFINE fits == {k \in 0..SearchSteps : Clear(x + k, places) \/ Clear(x - k, places)}
<1>1. x + 0 = x /\ 0 \in 0..SearchSteps
  BY GeometryAssumption
<1>2. 0 \in fits
  BY <1>1
<1>3. \A k \in fits : 0 <= k
  OBVIOUS
<1>4. Min(fits) = 0
  <2>1. \A k \in fits : k \in Int
    OBVIOUS
  <2>. HIDE DEF fits
  <2>. QED
    BY <1>2, <1>3, <2>1 DEF Min
<1>. QED
  BY <1>1, <1>2, <1>4 DEF NearestFree

\* The question of a dropped card, against the region that was about to accept it.
LEMMA PreviewDecides ==
    ASSUME NEW c, NEW n, c.type[n] # DC, ~IsRefused(c, n)
    PROVE  {ch.dc : ch \in DomainChanges(c, n)} \ {NoNode} =
               IF Preview(c, n).allowed THEN {Preview(c, n).dc} ELSE {}
<1>. DEFINE centered == FindDomain(c, n)
            touched == FindOverlapping(c, n)
            target == DropDomain(c, n)
            asked == {ch.dc : ch \in DomainChanges(c, n)} \ {NoNode}
<1>1. asked = IF MayJoinDomains(c, n) /\ centered # DomainOf(c, n) THEN {centered} \ {NoNode} ELSE {}
  <2>1. DomainChanges(c, n) = IF MayJoinDomains(c, n) /\ centered # DomainOf(c, n)
                              THEN {Change(n, centered)} ELSE {}
    BY DEF DomainChanges
  <2>2. Change(n, centered).dc = centered
    BY DEF Change
  <2>. QED
    BY <2>1, <2>2
<1>2. target = IF centered # NoNode THEN centered
               ELSE IF touched # NoNode /\ JoinBlocked(c, n, touched) THEN touched ELSE NoNode
  BY DEF DropDomain
<1>3. CASE target \in {NoNode, DomainOf(c, n)}
  <2>1. Preview(c, n) = NoPreview
    BY <1>3 DEF Preview
  <2>2. asked = {}
    BY <1>1, <1>2, <1>3
  <2>. QED
    BY <2>1, <2>2 DEF NoPreview
<1>4. CASE target \notin {NoNode, DomainOf(c, n)}
  <2>1. ~JoinBlocked(c, n, target)
    BY <1>4 DEF IsRefused
  <2>2. target = centered
    BY <1>2, <1>4, <2>1
  <2>3. MayJoinDomains(c, n)
    BY <2>1 DEF JoinBlocked
  <2>4. asked = {target}
    BY <1>1, <1>4, <2>2, <2>3
  <2>5. Preview(c, n) = [dc |-> target, allowed |-> TRUE]
    BY <1>4, <2>1 DEF Preview
  <2>. QED
    BY <2>4, <2>5
<1>. QED
  BY <1>3, <1>4

\* A dialog that is opened where none is.
LEMMA OpensAlone ==
    ASSUME dialogs = <<>>, NEW d, Open(d)
    PROVE  dialogs' = <<d>>
<1>1. DOMAIN dialogs = {}
  OBVIOUS
<1>2. {i \in DOMAIN dialogs : dialogs[i].kind = d.kind} = {}
  BY <1>1
<1>. QED
  BY <1>2 DEF Open

\* The drop of a card that is not a domain controller and that does not give way.
LEMMA DropAsks ==
    ASSUME NEW n, NEW x \in Places, Drag(n, x), IsClear(n, x), canvas.type[n] # DC
    PROVE  (IF dialogs' = <<>> THEN {} ELSE {ch.dc : ch \in dialogs'[1].changes} \ {NoNode}) =
               IF Preview(CarriedTo(n, x), n).allowed THEN {Preview(CarriedTo(n, x), n).dc} ELSE {}
<1>. DEFINE moved == CarriedTo(n, x)
            changes == DomainChanges(moved, n)
            back == PlacesBack({n} \cup Carried(n))
<1>1. MovedBy(n, x) = moved
  BY ClearStays, PlacesAssumption DEF MovedBy, IsClear
<1>2. /\ ~IsRefused(moved, n) /\ dialogs = <<>>
      /\ IF changes = {} THEN UNCHANGED dialogs
         ELSE Open(Dialog("domain", n, changes, NoNode, back))
  BY <1>1 DEF Drag, Mouse
<1>3. moved.type[n] # DC
  BY DEF CarriedTo
<1>. HIDE DEF moved, back
<1>4. IF changes = {} THEN dialogs' = <<>> ELSE dialogs' # <<>> /\ dialogs'[1].changes = changes
  <2>1. CASE changes = {}
    BY <1>2, <2>1
  <2>2. CASE changes # {}
    <3>1. dialogs' = <<Dialog("domain", n, changes, NoNode, back)>>
      BY <1>2, <2>2, OpensAlone
    <3>. QED
      BY <2>2, <3>1 DEF Dialog
  <2>. QED
    BY <2>1, <2>2
<1>5. (IF dialogs' = <<>> THEN {} ELSE {ch.dc : ch \in dialogs'[1].changes} \ {NoNode})
          = {ch.dc : ch \in changes} \ {NoNode}
  BY <1>4
<1>6. {ch.dc : ch \in changes} \ {NoNode}
          = IF Preview(moved, n).allowed THEN {Preview(moved, n).dc} ELSE {}
  BY <1>2, <1>3, PreviewDecides
<1>. QED
  BY <1>5, <1>6 DEF moved

\* On every canvas, for any geometry of cards and circles: where a card does not give way,
\* the question of its drop is of a join exactly if a region was about to accept it, and of
\* that region (onNodeDrag against onNodeDragStop and computeDomainChanges).
THEOREM DropsAreAskedAsPreviewed == Spec => AskedAsPreviewed
<1>1. ASSUME NEW n \in Nodes, NEW x \in Places, Drag(n, x), IsClear(n, x), canvas.type[n] # DC
      PROVE  LET shown == Preview(CarriedTo(n, x), n)
                 asked == IF dialogs' = <<>> THEN {} ELSE {ch.dc : ch \in dialogs'[1].changes} \ {NoNode}
             IN  asked = IF shown.allowed THEN {shown.dc} ELSE {}
  BY <1>1, DropAsks
<1>2. [canvas'.at # canvas.at => \A n \in Nodes, x \in Places :
          Drag(n, x) /\ IsClear(n, x) /\ canvas.type[n] # DC =>
            LET shown == Preview(CarriedTo(n, x), n)
                asked == IF dialogs' = <<>> THEN {} ELSE {ch.dc : ch \in dialogs'[1].changes} \ {NoNode}
            IN  asked = IF shown.allowed THEN {shown.dc} ELSE {}]_vars
  BY <1>1
<1>. QED
  BY <1>2, PTL DEF Spec, AskedAsPreviewed

-----------------------------------------------------------------------------
\* A connection that is ready to stage.

\* The topology has at most one domain per card: the one that the card shows.
LEMMA OneDomainIsShown ==
    ASSUME NEW c, Shaped(c), OneDomain(DeployTopology(c)), NEW n, NEW m,
           Joins(c, n) # {}, DomainOf(c, m) = DomainOf(c, n)
    PROVE  DomainsOf(DeployTopology(c), m) = DomainsOf(DeployTopology(c), n)
<1>1. ASSUME NEW o, NEW e \in Joins(c, o), NEW f \in Joins(c, o)
      PROVE  e.target = f.target
  <2>1. JoinMade(e) \in Memberships(DeployTopology(c)) /\ JoinMade(f) \in Memberships(DeployTopology(c))
    BY EdgesMade DEF JoinsMade, Joins
  <2>2. e.source = o /\ f.source = o
    BY DEF Joins
  <2>3. JoinMade(e) = JoinMade(f)
    BY <2>1, <2>2, EdgeFields DEF OneDomain
  <2>. QED
    BY <2>3, EdgeFields
<1>2. ASSUME NEW o, Joins(c, o) # {}
      PROVE  DomainOf(c, o) # NoNode /\ DomainsOf(DeployTopology(c), o) = {DomainOf(c, o)}
  <2>1. (CHOOSE e \in Joins(c, o) : TRUE) \in Joins(c, o)
    BY <1>2
  <2>2. PICK e \in Joins(c, o) : DomainOf(c, o) = e.target
    BY <1>2, <2>1 DEF DomainOf
  <2>3. e.target # NoNode
    BY <2>2 DEF Joins, EdgesOf, Shaped, Drawn
  <2>4. {f.target : f \in Joins(c, o)} = {e.target}
    BY <1>1, <2>2
  <2>. QED
    BY <2>2, <2>3, <2>4, DomainsMade
<1>3. DomainOf(c, n) # NoNode
  BY <1>2
<1>4. Joins(c, m) # {}
  BY <1>3 DEF DomainOf
<1>. QED
  BY <1>2, <1>4

\* A connection that is drawn adds one edge, which is no join.
LEMMA ConnectedCanvas ==
    ASSUME NEW c, NEW d, NEW g, g.type # "domainJoin", d.nodes = c.nodes, d.type = c.type,
           d.config = c.config, d.edges = c.edges \cup {g}, NEW n
    PROVE  /\ \A dc : DomainsOf(DeployTopology(d), dc) = DomainsOf(DeployTopology(c), dc)
           /\ DeployTopology(d).ocspOff = DeployTopology(c).ocspOff
           /\ \A e \in CaParents(DeployTopology(c)) : e \in CaParents(DeployTopology(d))
           /\ DeployTopology(d).role = DeployTopology(c).role
<1>1. \A dc : Joins(d, dc) = Joins(c, dc)
  BY DEF Joins, EdgesOf
<1>2. DeployTopology(d).ocspOff = DeployTopology(c).ocspOff
  BY DEF DeployTopology
<1>3. EdgesOf(c, "caHierarchy") \subseteq EdgesOf(d, "caHierarchy")
  BY DEF EdgesOf
<1>4. DeployTopology(d).role = DeployTopology(c).role
  <2>1. \A m : RoleOf(d, m) = RoleOf(c, m)
    BY DEF RoleOf
  <2>. QED
    BY <2>1 DEF DeployTopology
<1>5. \A dc : DomainsOf(DeployTopology(d), dc) = DomainsOf(DeployTopology(c), dc)
  BY <1>1, DomainsMade
<1>6. CaParents(DeployTopology(c)) \subseteq CaParents(DeployTopology(d))
  BY <1>3, EdgesMade DEF ParentsMade
<1>. QED
  BY <1>2, <1>4, <1>5, <1>6

\* A publication of the topology that a connection leads to was there, or is of the host
\* that was connected.
LEMMA ConnectedPublications ==
    ASSUME NEW c, NEW d, NEW g, d.config = c.config, d.edges = c.edges \cup {g},
           NEW e \in Publications(DeployTopology(d))
    PROVE  \/ \E f \in Publications(DeployTopology(c)) : f.source = e.source /\ f.target = e.target
           \/ g.type = "webServerCert" /\ g.source = e.source /\ g.target = e.target
<1>. SUFFICES ASSUME ~(g.type = "webServerCert" /\ g.source = e.source /\ g.target = e.target)
              PROVE  \E f \in Publications(DeployTopology(c)) : f.source = e.source /\ f.target = e.target
  OBVIOUS
<1>1. PICK f \in EdgesOf(d, "webServerCert") :
          Publishes(d, f.source, f.target) /\ e.source = f.source /\ e.target = f.target
  BY EdgesMade, EdgeFields DEF PublicationsMade
<1>2. f \in EdgesOf(c, "webServerCert")
  BY <1>1 DEF EdgesOf
<1>3. WebEdges(d, f.source, f.target) = WebEdges(c, f.source, f.target)
  BY <1>1 DEF WebEdges, EdgesOf
<1>4. Publishes(c, f.source, f.target)
  BY <1>1, <1>3 DEF Publishes, IsComplete
<1>. QED
  BY <1>1, <1>2, <1>4, PublicationIsMade

\* And one that was there stays.
LEMMA PublicationsStay ==
    ASSUME NEW c, NEW d, d.config = c.config, c.edges \subseteq d.edges
    PROVE  \A e \in Publications(DeployTopology(c)) :
               \E f \in Publications(DeployTopology(d)) : f.source = e.source /\ f.target = e.target
<1>. TAKE e \in Publications(DeployTopology(c))
<1>1. PICK f \in EdgesOf(c, "webServerCert") :
          Publishes(c, f.source, f.target) /\ e.source = f.source /\ e.target = f.target
  BY EdgesMade, EdgeFields DEF PublicationsMade
<1>2. f \in EdgesOf(d, "webServerCert")
  BY <1>1 DEF EdgesOf
<1>3. WebEdges(c, f.source, f.target) \subseteq WebEdges(d, f.source, f.target)
  BY <1>1 DEF WebEdges, EdgesOf
<1>4. Publishes(d, f.source, f.target)
  BY <1>1, <1>3 DEF Publishes, IsComplete
<1>. QED
  BY <1>1, <1>2, <1>4, PublicationIsMade

\* A CA that is complete keeps what it has, and the host that it gains is of its domain.
LEMMA ReadyStaysComplete ==
    ASSUME NEW c, NEW d, Shaped(c), IsCanvas(c), NEW s \in c.nodes, NEW socket \in Sockets,
           NEW t \in c.nodes, ReadyToStage(c, s, socket, t), OneDomain(DeployTopology(c)),
           RespondersAreOn(c), CaIsComplete(DeployTopology(c), s), d.nodes = c.nodes, d.type = c.type,
           d.config = c.config,
           d.edges = c.edges \cup {Ghost(SocketEdgeType(c, s, socket, t), s, socket, t)}
    PROVE  CaIsComplete(DeployTopology(d), s)
<1>. DEFINE before == DeployTopology(c)
            after == DeployTopology(d)
            g == Ghost(SocketEdgeType(c, s, socket, t), s, socket, t)
<1>1. /\ g.source = s /\ g.target = t /\ g.socket = socket /\ g.type # "domainJoin"
      /\ g.type = "webServerCert" => c.type[t] = "webServer" /\ socket \in {"publication", "ocsp"}
  BY DEF Ghost, SocketEdgeType
<1>. HIDE DEF g
<1>2. d.config = c.config /\ d.edges = c.edges \cup {g}
  BY DEF g
<1>3. /\ \A dc : DomainsOf(after, dc) = DomainsOf(before, dc)
      /\ after.ocspOff = before.ocspOff
      /\ \A e \in CaParents(before) : e \in CaParents(after)
      /\ after.role = before.role
  BY <1>1, <1>2, ConnectedCanvas
<1>4. \E e \in CaParents(after) : e.target = s /\ after.role[e.source] = "rootCa"
  <2>1. PICK e \in CaParents(before) : e.target = s /\ before.role[e.source] = "rootCa"
    BY DEF CaIsComplete
  <2>. QED
    BY <1>3, <2>1
<1>5. DomainsOf(after, s) # {}
  BY <1>3 DEF CaIsComplete
<1>6. \E e \in Publications(after) : e.source = s
  <2>1. PICK e \in Publications(before) : e.source = s
    BY DEF CaIsComplete
  <2>2. \E f \in Publications(after) : f.source = e.source /\ f.target = e.target
    <3>1. c.edges \subseteq d.edges
      BY <1>2
    <3>. QED
      BY <1>2, <3>1, PublicationsStay
  <2>. QED
    BY <2>1, <2>2
<1>7. c.config[s] = "Issuing"
  <2>1. PICK e \in Publications(before) : e.source = s
    BY DEF CaIsComplete
  <2>. QED
    BY <2>1, PublicationIsDrawn DEF Publishes
<1>8. IssuedBy(c, s) # {} /\ ~IsRootCa(c, s)
  <2>1. IssuedBy(c, s) # {}
    BY ParentIsDrawn DEF CaIsComplete
  <2>. QED
    BY <1>7, <2>1 DEF IsRootCa, CaTier
<1>9. ASSUME g.type = "webServerCert", IsComplete(d, s, t)
      PROVE  DomainsOf(before, t) = DomainsOf(before, s) /\ t \notin before.ocspOff
  <2>1. /\ Joins(c, s) # {} /\ DomainOf(c, s) = DomainOf(c, t)
        /\ socket = "ocsp" => IsOcspOn(c, t)
    BY <1>1, <1>8, <1>9 DEF ReadyToStage, MissingRequirements
  <2>2. DomainsOf(before, t) = DomainsOf(before, s)
    BY <2>1, OneDomainIsShown
  <2>3. IsOcspOn(c, t)
    <3>1. PICK e \in SocketEdges(d, "ocsp") : e.source = s /\ e.target = t
      BY <1>9, CompleteEdges
    <3>2. CASE e \in c.edges
      BY <3>1, <3>2 DEF RespondersAreOn, SocketEdges, EdgesOf
    <3>3. CASE e = g
      BY <1>1, <2>1, <3>1, <3>3 DEF SocketEdges
    <3>. QED
      BY <1>2, <3>1, <3>2, <3>3 DEF SocketEdges, EdgesOf
  <2>4. t \notin before.ocspOff
    BY <2>3 DEF DeployTopology, IsOcspOn
  <2>. QED
    BY <2>2, <2>4
<1>10. ASSUME NEW e \in Publications(after), e.source = s
       PROVE  DomainsOf(after, e.target) = DomainsOf(after, s) /\ e.target \notin after.ocspOff
  <2>1. CASE \E f \in Publications(before) : f.source = e.source /\ f.target = e.target
    BY <1>3, <1>10, <2>1 DEF CaIsComplete
  <2>2. CASE g.type = "webServerCert" /\ g.source = e.source /\ g.target = e.target
    BY <1>1, <1>3, <1>9, <1>10, <2>2, PublicationIsDrawn DEF Publishes
  <2>. QED
    BY <1>2, <2>1, <2>2, ConnectedPublications
<1>. QED
  BY <1>4, <1>5, <1>6, <1>10 DEF CaIsComplete

\* On every canvas that can be reached, for any geometry and any number of cards: a connection
\* that its preview calls ready leaves a CA complete that was, for the compiler that asks for a
\* root, a domain, and hosts of that domain (connectionMissingRequirements against
\* validate_topology).
THEOREM ReadyConnectionsKeepComplete == Spec => ReadyKeepsComplete
<1>1. ASSUME DrawnInv, NEW s \in Nodes, NEW t \in Nodes, NEW socket \in Sockets,
             Connect(s, socket, t), ReadyToStage(canvas, s, socket, t),
             OneDomain(DeployTopology(canvas)), RespondersAreOn(canvas),
             CaIsComplete(DeployTopology(canvas), s)
      PROVE  CaIsComplete(DeployTopology(canvas)', s)
  <2>. DEFINE g == Ghost(SocketEdgeType(canvas, s, socket, t), s, socket, t)
  <2>1. canvas' = [canvas EXCEPT !.edges = canvas.edges \cup {g}]
    BY <1>1 DEF Connect
  <2>. HIDE DEF g
  <2>2. /\ canvas'.nodes = canvas.nodes /\ canvas'.type = canvas.type
        /\ canvas'.config = canvas.config /\ canvas'.edges = canvas.edges \cup {g}
    BY <1>1, <2>1 DEF DrawnInv, Shaped
  <2>3. s \in canvas.nodes /\ t \in canvas.nodes
    BY DEF Nodes
  <2>4. CaIsComplete(DeployTopology(canvas'), s)
    BY <1>1, <2>2, <2>3, ReadyStaysComplete DEF DrawnInv, g
  <2>. QED
    BY <2>4
<1>2. DrawnInv => [canvas'.edges # canvas.edges => \A s, t \in Nodes, socket \in Sockets :
          Connect(s, socket, t) /\ ReadyToStage(canvas, s, socket, t)
            /\ OneDomain(DeployTopology(canvas)) /\ RespondersAreOn(canvas)
            /\ CaIsComplete(DeployTopology(canvas), s) => CaIsComplete(DeployTopology(canvas)', s)]_vars
  BY <1>1
<1>. QED
  BY <1>2, InitDraws, StepDraws, PTL DEF Spec, ReadyKeepsComplete

-----------------------------------------------------------------------------
\* The list of operations and the canvas tell the same: the inductive invariant.

Relating == {"domainJoin", "caConnect", "webServerCert"}

IsEdge(e) ==
    /\ {"type", "source", "target", "socket", "staged", "health"} \subseteq DOMAIN e
    /\ e.type \in EdgeTypes
    /\ e.type = "webServerCert" <=> e.socket \in {"publication", "ocsp"}
IsOp(o) ==
    /\ o = Op(o.kind, o.target, o.secondary)
    /\ o.kind \notin Relating => o.secondary = NoNode
IsRow(r) == r = Row(r.id, r.op, r.status, r.deps, r.prev) /\ r.id \in Nat /\ IsOp(r.op)

\* A publication with an edge at each socket, among the edges es; and the edges that are
\* of an operation, when the cards have the settings cf.
IsWhole(es, ca, web) ==
    \A socket \in {"publication", "ocsp"} : \E e \in es :
        e.type = "webServerCert" /\ e.source = ca /\ e.target = web /\ e.socket = socket
Carries(cf, es, e) ==
    /\ e.staged
    /\ e.type = "webServerCert" => cf[e.source] # "Root" /\ IsWhole(es, e.source, e.target)

\* A certificate is drawn by its OCSP socket: undoing the connection of its CA takes
\* publications along.
HasEdge(es, o) == \E e \in es : OpOfEdge(e) = o /\ (o.kind = "webServerCert" => e.socket = "ocsp")
HasRow(rs, o) == \E r \in rs : r.op = o /\ r.status # "done"

RowsAreOfCards(ns, rs) == \A r \in rs : {r.op.target, r.op.secondary} \subseteq ns \cup {NoNode}
RowsAreDrawn(es, rs) == \A r \in rs : r.op.kind \in Relating => HasEdge(es, r.op)
GhostsAreListed(cf, es, rs) == \A e \in es : Carries(cf, es, e) => HasRow(rs, OpOfEdge(e))
LeaversAreOut(es, rs) ==
    \A r \in rs : r.op.kind = "domainLeave" =>
        \A e \in es : e.type = "domainJoin" /\ e.source = r.op.target => e.staged
Tells(ns, cf, es, rs) ==
    /\ \A e \in es : IsEdge(e)
    /\ RowsAreOfCards(ns, rs) /\ RowsAreDrawn(es, rs) /\ GhostsAreListed(cf, es, rs)
    /\ LeaversAreOut(es, rs)

\* Rows are known by their ids and by their operations.
OneRowEach(rs) ==
    /\ \A r \in rs : IsRow(r)
    /\ \E b \in Nat : \A r \in rs : r.id <= b
    /\ \A r, s \in Sent(rs) : r.id = s.id \/ r.op = s.op => r = s
    /\ \A r, s \in rs : ~Synthesized(r) /\ Synthesized(s) /\ r.id = s.id => r.op.kind = "createVm"
    /\ \A r \in rs : r.status = "done" => r.op.kind \notin Relating \cup {"domainLeave"}
    /\ \A r \in rs : r.prev # NoNode => r.op.kind \in {"domainJoin", "domainLeave"}
    /\ \A r, s \in rs :
          (/\ r.op.kind = "domainJoin" /\ r.prev # NoNode
           /\ s.op.kind = "domainLeave" /\ s.op.target = r.op.target) => s.prev # NoNode

-----------------------------------------------------------------------------
\* Edges and their operations.

LEMMA OpFields ==
    ASSUME NEW kind, NEW target, NEW secondary
    PROVE  LET o == Op(kind, target, secondary) IN
           /\ o = Op(o.kind, o.target, o.secondary)
           /\ o.kind = kind /\ o.target = target /\ o.secondary = secondary
BY DEF Op

LEMMA SameOp ==
    ASSUME NEW o, NEW p, IsOp(o), IsOp(p), o.kind = p.kind, o.target = p.target,
           o.secondary = p.secondary
    PROVE  o = p
BY DEF IsOp

LEMMA OpIsOfEdge ==
    ASSUME NEW e, IsEdge(e)
    PROVE  LET o == OpOfEdge(e) IN
           /\ IsOp(o) /\ o.kind \in Relating
           /\ o.kind = "domainJoin" <=> e.type = "domainJoin"
           /\ o.kind = "webServerCert" <=> e.type = "webServerCert"
           /\ e.type = "caHierarchy" => o.target = e.target /\ o.secondary = e.source
           /\ e.type # "caHierarchy" => o.target = e.source /\ o.secondary = e.target
<1>. DEFINE o == OpOfEdge(e)
<1>1. \/ e.type = "domainJoin" /\ o = Op("domainJoin", e.source, e.target)
      \/ e.type = "caHierarchy" /\ o = Op("caConnect", e.target, e.source)
      \/ e.type = "webServerCert" /\ o = Op("webServerCert", e.source, e.target)
  BY DEF IsEdge, EdgeTypes, OpOfEdge
<1>. HIDE DEF o
<1>2. /\ o.kind \in Relating /\ o = Op(o.kind, o.target, o.secondary)
      /\ o.kind = "domainJoin" <=> e.type = "domainJoin"
      /\ o.kind = "webServerCert" <=> e.type = "webServerCert"
      /\ e.type = "caHierarchy" => o.target = e.target /\ o.secondary = e.source
      /\ e.type # "caHierarchy" => o.target = e.source /\ o.secondary = e.target
  BY <1>1, OpFields DEF Relating
<1>. QED BY <1>2 DEF IsOp, o

\* The edges of a row are those of its operation, and the publications of a parent.
LEMMA EdgeOfRow ==
    ASSUME NEW r, IsRow(r), NEW es, NEW e \in es, IsEdge(e)
    PROVE  /\ OpOfEdge(e) = r.op => e \in OperationEdges(r, es)
           /\ e \in OperationEdges(r, es) =>
                 OpOfEdge(e) = r.op \/ (r.op.kind = "caConnect" /\ e.socket = "publication")
<1>. DEFINE o == OpOfEdge(e)
<1>1. /\ IsOp(o) /\ o.kind \in Relating
      /\ o.kind = "domainJoin" <=> e.type = "domainJoin"
      /\ o.kind = "webServerCert" <=> e.type = "webServerCert"
      /\ e.type = "caHierarchy" => o.target = e.target /\ o.secondary = e.source
      /\ e.type # "caHierarchy" => o.target = e.source /\ o.secondary = e.target
  BY OpIsOfEdge
<1>2. e.type \in {"domainJoin", "caHierarchy", "webServerCert"}
  BY DEF IsEdge, EdgeTypes
<1>. HIDE DEF o
<1>3. ASSUME o = r.op PROVE e \in OperationEdges(r, es)
  BY <1>1, <1>2, <1>3 DEF OperationEdges, Relating
<1>4. ASSUME e \in OperationEdges(r, es), ~(r.op.kind = "caConnect" /\ e.socket = "publication")
      PROVE  o = r.op
  <2>1. /\ r.op.kind \in Relating
        /\ r.op.kind = "domainJoin" => e.type = "domainJoin" /\ e.source = r.op.target
                                        /\ e.target = r.op.secondary
        /\ r.op.kind = "caConnect" => e.type = "caHierarchy" /\ e.target = r.op.target
                                        /\ e.source = r.op.secondary
        /\ r.op.kind = "webServerCert" => e.type = "webServerCert" /\ e.source = r.op.target
                                        /\ e.target = r.op.secondary
    BY <1>4 DEF OperationEdges, Relating
  <2>2. o.kind = r.op.kind /\ o.target = r.op.target /\ o.secondary = r.op.secondary
    BY <1>1, <2>1 DEF Relating
  <2>. QED BY <1>1, <2>2, SameOp DEF IsRow
<1>. QED BY <1>3, <1>4 DEF o

\* A join of a domain that is drawn or brought back.
LEMMA JoinIsEdge ==
    ASSUME NEW n, NEW p, NEW staged
    PROVE  IsEdge(JoinEdge(n, p, staged))
BY DEF JoinEdge, Ghost, IsEdge, EdgeTypes

-----------------------------------------------------------------------------
\* Operations are undone.

LEMMA EdgesOfUndo ==
    ASSUME NEW gone, NEW es, NEW e \in EdgesWithout(gone, es)
    PROVE  \/ e \in es /\ \A r \in gone : e \notin OperationEdges(r, es)
           \/ \E r \in gone : /\ r.prev # NoNode /\ IsEdge(e) /\ ~e.staged
                              /\ e.type = "domainJoin" /\ e.source = r.op.target
<1>1. CASE e \in Without(es, gone)
  BY <1>1 DEF Without
<1>2. CASE e \in Restored(gone)
  <2>1. PICK r \in gone : r.prev # NoNode /\ e = JoinEdge(r.op.target, r.prev, FALSE)
    BY <1>2 DEF Restored
  <2>2. IsEdge(e)
    BY <2>1, JoinIsEdge
  <2>3. e.type = "domainJoin" /\ e.source = r.op.target /\ e.staged = FALSE
    BY <2>1 DEF JoinEdge, Ghost
  <2>. QED BY <2>1, <2>2, <2>3
<1>. QED BY <1>1, <1>2 DEF EdgesWithout

LEMMA UndoTells ==
    ASSUME NEW ns, NEW cf, NEW es, NEW rs, Tells(ns, cf, es, rs), OneRowEach(rs),
           NEW gone \in SUBSET rs,
           \A r \in gone, s \in rs \ gone :
               ~(r.prev # NoNode /\ s.prev # NoNode /\ r.op.target = s.op.target)
    PROVE  Tells(ns, cf, EdgesWithout(gone, es), rs \ gone)
<1>. DEFINE ds == EdgesWithout(gone, es)
            left == rs \ gone
<1>1. ASSUME NEW e \in ds
      PROVE  \/ e \in es /\ \A r \in gone : e \notin OperationEdges(r, es)
             \/ \E r \in gone : /\ r.prev # NoNode /\ IsEdge(e) /\ ~e.staged
                                /\ e.type = "domainJoin" /\ e.source = r.op.target
  BY EdgesOfUndo
<1>2. ASSUME NEW e \in es, \A r \in gone : e \notin OperationEdges(r, es) PROVE e \in ds
  BY <1>2 DEF EdgesWithout, Without
<1>. HIDE DEF ds
<1>3. \A e \in ds : IsEdge(e)
  BY <1>1 DEF Tells
<1>4. RowsAreOfCards(ns, left)
  BY DEF Tells, RowsAreOfCards
<1>5. RowsAreDrawn(ds, left)
  <2>. SUFFICES ASSUME NEW s \in left, s.op.kind \in Relating PROVE HasEdge(ds, s.op)
    BY DEF RowsAreDrawn
  <2>1. PICK e \in es : OpOfEdge(e) = s.op /\ (s.op.kind = "webServerCert" => e.socket = "ocsp")
    BY DEF Tells, RowsAreDrawn, HasEdge
  <2>2. ASSUME NEW r \in gone PROVE e \notin OperationEdges(r, es)
    <3>. SUFFICES ASSUME e \in OperationEdges(r, es) PROVE FALSE
      OBVIOUS
    <3>1. IsEdge(e) /\ IsRow(r)
      BY DEF Tells, OneRowEach
    <3>2. CASE OpOfEdge(e) = r.op
      <4>1. r \in Sent(rs) /\ s \in Sent(rs)
        BY <2>1, <3>2 DEF Sent, Synthesized, Relating
      <4>. QED BY <2>1, <3>2, <4>1 DEF OneRowEach
    <3>3. CASE e.socket = "publication"
      <4>1. e.type = "webServerCert"
        BY <3>1, <3>3 DEF IsEdge
      <4>2. s.op.kind = "webServerCert"
        BY <2>1, <3>1, <4>1, OpIsOfEdge
      <4>. QED BY <2>1, <3>3, <4>2
    <3>. QED BY <3>1, <3>2, <3>3, EdgeOfRow
  <2>3. e \in ds
    BY <1>2, <2>2
  <2>. QED BY <2>1, <2>3 DEF HasEdge
<1>6. GhostsAreListed(cf, ds, left)
  <2>. SUFFICES ASSUME NEW e \in ds, Carries(cf, ds, e) PROVE HasRow(left, OpOfEdge(e))
    BY DEF GhostsAreListed
  <2>1. e \in es /\ \A r \in gone : e \notin OperationEdges(r, es)
    BY <1>1 DEF Carries
  <2>2. \A f \in ds : f.type = "webServerCert" => f \in es
    BY <1>1
  <2>3. Carries(cf, es, e)
    BY <2>2 DEF Carries, IsWhole
  <2>4. PICK r \in rs : r.op = OpOfEdge(e) /\ r.status # "done"
    BY <2>1, <2>3 DEF Tells, GhostsAreListed, HasRow
  <2>5. e \in OperationEdges(r, es)
    BY <2>1, <2>4, EdgeOfRow DEF Tells, OneRowEach
  <2>. QED BY <2>1, <2>4, <2>5 DEF HasRow
<1>7. LeaversAreOut(ds, left)
  <2>. SUFFICES ASSUME NEW s \in left, s.op.kind = "domainLeave", NEW e \in ds,
                       e.type = "domainJoin", e.source = s.op.target
                PROVE  e.staged
    BY DEF LeaversAreOut
  <2>1. CASE e \in es
    BY <2>1 DEF Tells, LeaversAreOut
  <2>2. ASSUME NEW r \in gone, r.prev # NoNode, e.source = r.op.target PROVE FALSE
    <3>1. IsOp(r.op) /\ IsOp(s.op)
      BY DEF OneRowEach, IsRow
    <3>2. CASE r.op.kind = "domainLeave"
      <4>1. r.op = s.op
        BY <2>2, <3>1, <3>2, SameOp DEF IsOp, Relating
      <4>2. r \in Sent(rs) /\ s \in Sent(rs)
        BY <3>2 DEF Sent, Synthesized
      <4>. QED BY <4>1, <4>2 DEF OneRowEach
    <3>3. CASE r.op.kind = "domainJoin"
      <4>1. s.prev # NoNode
        BY <2>2, <3>3 DEF OneRowEach
      <4>. QED BY <2>2, <4>1
    <3>. QED BY <2>2, <3>2, <3>3 DEF OneRowEach
  <2>. QED BY <1>1, <2>1, <2>2
<1>. QED BY <1>3, <1>4, <1>5, <1>6, <1>7 DEF Tells, ds

LEMMA FewerRows ==
    ASSUME NEW rs, OneRowEach(rs), NEW qs \in SUBSET rs
    PROVE  OneRowEach(qs)
BY DEF OneRowEach, Sent

\* A card is deleted that no operation refers to.
LEMMA DeletedTells ==
    ASSUME NEW ns, NEW cf, NEW es, NEW rs, Tells(ns, cf, es, rs), NEW n, OneRowEach(rs),
           \A r \in rs : n \notin {r.op.target, r.op.secondary},
           NEW ds, ds = {e \in es : n \notin {e.source, e.target}}
    PROVE  Tells(ns \ {n}, cf, ds, rs)
<1>1. ds \subseteq es /\ \A e \in ds : IsEdge(e)
  BY DEF Tells
<1>2. RowsAreOfCards(ns \ {n}, rs)
  BY DEF Tells, RowsAreOfCards
<1>3. RowsAreDrawn(ds, rs)
  <2>. SUFFICES ASSUME NEW s \in rs, s.op.kind \in Relating PROVE HasEdge(ds, s.op)
    BY DEF RowsAreDrawn
  <2>1. PICK e \in es : OpOfEdge(e) = s.op /\ (s.op.kind = "webServerCert" => e.socket = "ocsp")
    BY DEF Tells, RowsAreDrawn, HasEdge
  <2>2. {s.op.target, s.op.secondary} = {e.source, e.target}
    <3>1. IsEdge(e)
      BY DEF Tells
    <3>. QED BY <2>1, <3>1, OpIsOfEdge
  <2>. QED BY <2>1, <2>2 DEF HasEdge
<1>4. GhostsAreListed(cf, ds, rs)
  BY <1>1 DEF Tells, GhostsAreListed, Carries, IsWhole
<1>5. LeaversAreOut(ds, rs)
  BY <1>1 DEF Tells, LeaversAreOut
<1>. QED BY <1>1, <1>2, <1>3, <1>4, <1>5 DEF Tells

-----------------------------------------------------------------------------
\* Operations are staged.

\* A bounded set of numbers has a maximum.
LEMMA MaxOf ==
    ASSUME NEW S \in SUBSET Nat, S # {}, NEW b \in Nat, \A x \in S : x <= b
    PROVE  Max(S) \in S /\ \A x \in S : x <= Max(S)
<1>. DEFINE T == {y \in Nat : b - y \in S}
            R == OpToRel(<, Nat)
<1>1. T \subseteq Nat /\ T # {}
  <2>1. PICK x \in S : TRUE
    OBVIOUS
  <2>2. b - x \in Nat /\ b - (b - x) = x
    OBVIOUS
  <2>. QED BY <2>1, <2>2
<1>2. PICK y \in T : \A z \in T : <<z, y>> \notin R
  BY <1>1, NatLessThanWellFounded, WFMin
<1>3. ASSUME NEW x \in S PROVE x <= b - y
  <2>1. b - x \in T
    <3>. b - x \in Nat /\ b - (b - x) = x
      OBVIOUS
    <3>. QED OBVIOUS
  <2>2. ~(b - x < y)
    BY <1>2, <2>1 DEF OpToRel
  <2>. QED BY <2>2
<1>4. b - y \in S
  BY <1>2
<1>. HIDE DEF T, R
<1>5. \E m \in S : \A x \in S : m >= x
  BY <1>3, <1>4
<1>. QED BY <1>5 DEF Max

\* A row that is staged gets an id that no other row has.
LEMMA NextIdIsNew ==
    ASSUME NEW rs, OneRowEach(rs)
    PROVE  NextId(rs) \in Nat /\ \A r \in rs : r.id < NextId(rs)
<1>. DEFINE S == {0} \cup {r.id : r \in rs}
<1>1. PICK b \in Nat : \A r \in rs : r.id <= b
  BY DEF OneRowEach
<1>2. S \in SUBSET Nat /\ S # {} /\ \A x \in S : x <= b
  BY <1>1 DEF OneRowEach, IsRow
<1>3. Max(S) \in S /\ \A x \in S : x <= Max(S)
  BY <1>2, MaxOf
<1>4. NextId(rs) = 1 + Max(S) /\ \A r \in rs : r.id \in S
  BY DEF NextId
<1>. HIDE DEF S
<1>5. Max(S) \in Nat
  BY <1>2, <1>3
<1>6. ASSUME NEW r \in rs PROVE r.id < NextId(rs)
  <2>1. r.id \in Nat /\ r.id <= Max(S)
    BY <1>2, <1>3, <1>4
  <2>. QED BY <1>4, <1>5, <2>1
<1>. QED BY <1>4, <1>5, <1>6

\* What is written into a row.
LEMMA RowFields ==
    ASSUME NEW id, NEW o, NEW status, NEW deps, NEW prev, NEW r, r = Row(id, o, status, deps, prev)
    PROVE  /\ r = Row(r.id, r.op, r.status, r.deps, r.prev)
           /\ r.id = id /\ r.op = o /\ r.status = status /\ r.deps = deps /\ r.prev = prev
BY DEF Row

\* New rows of other operations.
LEMMA MoreRows ==
    ASSUME NEW rs, OneRowEach(rs), NEW new, NEW b \in Nat,
           \A r \in new :
               /\ IsRow(r) /\ r.status = "staged" /\ ~Synthesized(r) /\ r.id <= b
               /\ r.prev # NoNode => r.op.kind \in {"domainJoin", "domainLeave"}
               /\ \A s \in rs : s.id < r.id /\ s.op # r.op,
           \A r, s \in new : r.id = s.id \/ r.op = s.op => r = s,
           \A r, s \in rs \cup new :
               (/\ r.op.kind = "domainJoin" /\ r.prev # NoNode
                /\ s.op.kind = "domainLeave" /\ s.op.target = r.op.target) => s.prev # NoNode
    PROVE  OneRowEach(rs \cup new)
<1>. DEFINE qs == rs \cup new
<1>1. \A r \in qs : IsRow(r)
  BY DEF OneRowEach
<1>2. \E d \in Nat : \A r \in qs : r.id <= d
  <2>1. PICK a \in Nat : \A r \in rs : r.id <= a
    BY DEF OneRowEach
  <2>2. \A r \in qs : r.id \in Nat
    BY <1>1 DEF IsRow
  <2>3. \A r \in qs : r.id <= a + b
    BY <2>1, <2>2
  <2>. QED BY <2>3
<1>3. ASSUME NEW r \in Sent(qs), NEW s \in Sent(qs), r.id = s.id \/ r.op = s.op PROVE r = s
  <2>1. r.id \in Nat /\ s.id \in Nat
    BY <1>1 DEF IsRow, Sent
  <2>2. CASE r \in rs /\ s \in rs
    BY <1>3, <2>2 DEF OneRowEach, Sent
  <2>3. CASE r \in new /\ s \in new
    BY <1>3, <2>3
  <2>4. CASE r \in rs /\ s \in new
    BY <1>3, <2>1, <2>4
  <2>5. CASE s \in rs /\ r \in new
    BY <1>3, <2>1, <2>5
  <2>. QED BY <2>2, <2>3, <2>4, <2>5 DEF Sent
<1>4. ASSUME NEW r \in qs, NEW s \in qs, ~Synthesized(r), Synthesized(s), r.id = s.id
      PROVE  r.op.kind = "createVm"
  <2>1. r.id \in Nat /\ s.id \in Nat
    BY <1>1 DEF IsRow
  <2>2. s \in rs
    BY <1>4
  <2>3. r \in rs
    BY <1>4, <2>1, <2>2
  <2>. QED BY <1>4, <2>2, <2>3 DEF OneRowEach
<1>5. \A r \in qs : r.status = "done" => r.op.kind \notin Relating \cup {"domainLeave"}
  BY DEF OneRowEach
<1>6. \A r \in qs : r.prev # NoNode => r.op.kind \in {"domainJoin", "domainLeave"}
  BY DEF OneRowEach
<1>. QED BY <1>1, <1>2, <1>3, <1>4, <1>5, <1>6 DEF OneRowEach

\* stageOp, of an operation that is not listed and leaves no domain.
LEMMA StagedRow ==
    ASSUME NEW rs, OneRowEach(rs), NEW o, IsOp(o),
           o.kind \in {"createVm", "caConnect", "webServerCert"}, o \notin OpsOf(rs)
    PROVE  /\ OneRowEach(Staging(rs, o, NoNode))
           /\ \E r : /\ Staging(rs, o, NoNode) = rs \cup {r}
                     /\ r.op = o /\ r.status # "done" /\ r.deps = Inferred(o, rs)
<1>. DEFINE r == Row(NextId(rs), o, "staged", Inferred(o, rs), NoNode)
<1>1. Staging(rs, o, NoNode) = rs \cup {r}
  BY DEF Staging
<1>2. /\ r = Row(r.id, r.op, r.status, r.deps, r.prev)
      /\ r.id = NextId(rs) /\ r.op = o /\ r.status = "staged" /\ r.prev = NoNode
      /\ r.deps = Inferred(o, rs)
  BY RowFields
<1>. HIDE DEF r
<1>3. NextId(rs) \in Nat /\ \A s \in rs : s.id < NextId(rs) /\ s.op # o
  BY NextIdIsNew DEF OpsOf
<1>4. \A q \in {r} :
          /\ IsRow(q) /\ q.status = "staged" /\ ~Synthesized(q) /\ q.id <= NextId(rs)
          /\ q.prev # NoNode => q.op.kind \in {"domainJoin", "domainLeave"}
          /\ \A s \in rs : s.id < q.id /\ s.op # q.op
  BY <1>2, <1>3 DEF IsRow, Synthesized
<1>5. \A q, s \in rs \cup {r} :
          (/\ q.op.kind = "domainJoin" /\ q.prev # NoNode
           /\ s.op.kind = "domainLeave" /\ s.op.target = q.op.target) => s.prev # NoNode
  BY <1>2 DEF OneRowEach
<1>6. OneRowEach(rs \cup {r})
  <2>. DEFINE new == {r}
  <2>1. \A q, s \in new : q.id = s.id \/ q.op = s.op => q = s
    OBVIOUS
  <2>2. /\ \A q \in new :
            /\ IsRow(q) /\ q.status = "staged" /\ ~Synthesized(q) /\ q.id <= NextId(rs)
            /\ q.prev # NoNode => q.op.kind \in {"domainJoin", "domainLeave"}
            /\ \A s \in rs : s.id < q.id /\ s.op # q.op
        /\ \A q, s \in rs \cup new :
            (/\ q.op.kind = "domainJoin" /\ q.prev # NoNode
             /\ s.op.kind = "domainLeave" /\ s.op.target = q.op.target) => s.prev # NoNode
    BY <1>4, <1>5
  <2>. HIDE DEF new
  <2>3. OneRowEach(rs \cup new)
    BY <1>3, <2>1, <2>2, MoreRows
  <2>. QED BY <2>3 DEF new
<1>. QED BY <1>1, <1>2, <1>6

-----------------------------------------------------------------------------
\* Cards are dropped, configured and connected.

LEMMA WholeIsComplete ==
    ASSUME NEW c, NEW ca, NEW web
    PROVE  IsComplete(c, ca, web) <=> IsWhole(c.edges, ca, web)
BY DEF IsComplete, IsWhole, WebEdges, EdgesOf

LEMMA MoreCardsTell ==
    ASSUME NEW ns, NEW cf, NEW es, NEW rs, Tells(ns, cf, es, rs), NEW ms, ns \subseteq ms
    PROVE  Tells(ms, cf, es, rs)
BY DEF Tells, RowsAreOfCards

LEMMA SettingTells ==
    ASSUME NEW ns, NEW cf, NEW es, NEW rs, Tells(ns, cf, es, rs), NEW kf,
           \A e \in es : e.type = "webServerCert" => kf[e.source] = cf[e.source]
    PROVE  Tells(ns, kf, es, rs)
BY DEF Tells, GhostsAreListed, Carries

\* Edges and rows are added that tell of one another.
LEMMA MoreTells ==
    ASSUME NEW ns, NEW cf, NEW es, NEW rs, Tells(ns, cf, es, rs),
           NEW ds, es \subseteq ds, NEW qs, rs \subseteq qs,
           \A e \in ds \ es : IsEdge(e) /\ e.type # "domainJoin",
           \A r \in qs \ rs :
               /\ {r.op.target, r.op.secondary} \subseteq ns \cup {NoNode}
               /\ r.op.kind \in Relating => HasEdge(ds, r.op)
               /\ r.op.kind # "domainLeave",
           \A e \in ds : Carries(cf, ds, e) =>
               (e \in es /\ Carries(cf, es, e)) \/ HasRow(qs, OpOfEdge(e))
    PROVE  Tells(ns, cf, ds, qs)
<1>1. \A e \in ds : IsEdge(e)
  BY DEF Tells
<1>2. RowsAreOfCards(ns, qs)
  BY DEF Tells, RowsAreOfCards
<1>3. RowsAreDrawn(ds, qs)
  BY DEF Tells, RowsAreDrawn, HasEdge
<1>4. GhostsAreListed(cf, ds, qs)
  BY DEF Tells, GhostsAreListed, HasRow
<1>5. LeaversAreOut(ds, qs)
  BY DEF Tells, LeaversAreOut
<1>. QED BY <1>1, <1>2, <1>3, <1>4, <1>5 DEF Tells

\* onConnect: a socket of a CA, and its operation.
LEMMA ConnectTells ==
    ASSUME Shaped(canvas), Tells(Nodes, canvas.config, canvas.edges, rows), OneRowEach(rows),
           NEW s \in Nodes, NEW socket, NEW t \in Nodes, Connect(s, socket, t)
    PROVE  Tells(Nodes', canvas'.config, canvas'.edges, rows') /\ OneRowEach(rows')
<1>. DEFINE es == canvas.edges
            cf == canvas.config
            type == SocketEdgeType(canvas, s, socket, t)
            g == Ghost(type, s, socket, t)
            ds == es \cup {g}
<1>1. canvas' = [canvas EXCEPT !.edges = ds] /\ t \in CompatibleTargets(canvas, s, socket)
  BY DEF Connect
<1>2. Nodes' = Nodes /\ canvas'.config = cf /\ canvas'.edges = ds
  BY <1>1 DEF Shaped, Nodes
<1>3. \/ type = "caHierarchy" /\ socket = "issuance"
      \/ type = "webServerCert" /\ socket \in {"publication", "ocsp"}
  BY <1>1 DEF CompatibleTargets, CanConnectSockets, SocketEdgeType
<1>4. /\ IsEdge(g) /\ g.type = type /\ g.source = s /\ g.target = t /\ g.socket = socket
      /\ g.staged
  BY <1>3 DEF Ghost, IsEdge, EdgeTypes
<1>5. /\ type = "caHierarchy" => OpOfEdge(g) = Op("caConnect", t, s)
      /\ type = "webServerCert" => OpOfEdge(g) = Op("webServerCert", s, t)
  BY <1>4 DEF OpOfEdge
<1>6. /\ type = "caHierarchy" => rows' = Staging(rows, Op("caConnect", t, s), NoNode)
      /\ type = "webServerCert" => rows' = StagesPublication(s, t, ds)
  BY <1>3 DEF Connect
<1>. HIDE DEF type, g
<1>7. CASE type = "caHierarchy"
  <2>. DEFINE o == Op("caConnect", t, s)
  <2>1. o.kind = "caConnect" /\ o.target = t /\ o.secondary = s /\ IsOp(o)
    BY OpFields DEF IsOp, Relating
  <2>2. o \notin OpsOf(rows)
    <3>. SUFFICES ASSUME NEW r \in rows, r.op = o PROVE FALSE
      BY DEF OpsOf
    <3>1. PICK e \in es : OpOfEdge(e) = o
      BY <2>1 DEF Tells, RowsAreDrawn, HasEdge, Relating
    <3>2. {e.source, e.target} = {s, t}
      BY <2>1, <3>1, OpIsOfEdge DEF Tells
    <3>3. MayIssue(canvas, s, t)
      BY <1>1, <1>7 DEF CompatibleTargets, CanConnectSockets, CanConnect, type, SocketEdgeType, CA
    <3>. QED BY <3>2, <3>3 DEF MayIssue
  <2>. HIDE DEF o
  <2>3. OneRowEach(rows')
    BY <1>6, <1>7, <2>1, <2>2, StagedRow DEF o
  <2>4. PICK r : rows' = rows \cup {r} /\ r.op = o /\ r.status # "done"
    BY <1>6, <1>7, <2>1, <2>2, StagedRow DEF o
  <2>5. \A e \in ds : Carries(cf, ds, e) =>
            (e \in es /\ Carries(cf, es, e)) \/ HasRow(rows', OpOfEdge(e))
    BY <1>4, <1>5, <1>7, <2>4 DEF Carries, IsWhole, HasRow, o
  <2>6. /\ {r.op.target, r.op.secondary} \subseteq Nodes \cup {NoNode}
        /\ r.op.kind \in Relating => HasEdge(ds, r.op)
        /\ r.op.kind # "domainLeave"
    BY <1>5, <1>7, <2>1, <2>4 DEF HasEdge, o
  <2>7. \A e \in ds \ es : IsEdge(e) /\ e.type # "domainJoin"
    BY <1>4, <1>7
  <2>8. Tells(Nodes, cf, ds, rows')
    <3>. HIDE DEF ds, es, cf
    <3>1. es \subseteq ds /\ rows \subseteq rows'
      BY <2>4 DEF ds
    <3>2. \A q \in rows' \ rows :
             /\ {q.op.target, q.op.secondary} \subseteq Nodes \cup {NoNode}
             /\ q.op.kind \in Relating => HasEdge(ds, q.op)
             /\ q.op.kind # "domainLeave"
      BY <2>4, <2>6
    <3>3. Tells(Nodes, cf, es, rows)
      BY DEF es, cf
    <3>. QED BY <2>5, <2>7, <3>1, <3>2, <3>3, MoreTells
  <2>. QED BY <1>2, <2>3, <2>8
<1>8. CASE type = "webServerCert"
  <2>. DEFINE o == Op("webServerCert", s, t)
              stages == cf[s] # "Root" /\ IsWhole(ds, s, t) /\ o \notin OpsOf(rows)
  <2>1. o.kind = "webServerCert" /\ o.target = s /\ o.secondary = t /\ IsOp(o)
    BY OpFields DEF IsOp, Relating
  <2>2. rows' = IF stages THEN Staging(rows, o, NoNode) ELSE rows
    <3>1. [canvas EXCEPT !.edges = ds].edges = ds
      BY DEF Shaped
    <3>2. IsComplete([canvas EXCEPT !.edges = ds], s, t) <=> IsWhole(ds, s, t)
      BY <3>1, WholeIsComplete
    <3>. QED BY <1>6, <1>8, <3>2 DEF StagesPublication
  <2>. HIDE DEF o
  <2>3. OneRowEach(rows')
    BY <2>1, <2>2, StagedRow
  <2>4. stages => \E r : rows' = rows \cup {r} /\ r.op = o /\ r.status # "done"
    BY <2>1, <2>2, StagedRow
  <2>5. cf[s] # "Root" /\ IsWhole(ds, s, t) => HasRow(rows', o)
    <3>1. CASE stages
      BY <2>4, <3>1 DEF HasRow
    <3>2. CASE o \in OpsOf(rows)
      BY <2>1, <2>2, <3>2 DEF HasRow, OpsOf, OneRowEach, Relating
    <3>. QED BY <3>1, <3>2
  <2>6. ASSUME NEW e \in ds, Carries(cf, ds, e)
        PROVE  (e \in es /\ Carries(cf, es, e)) \/ HasRow(rows', OpOfEdge(e))
    <3>1. CASE e.type = "webServerCert" /\ e.source = s /\ e.target = t
      <4>1. OpOfEdge(e) = o
        BY <3>1 DEF OpOfEdge, o
      <4>. QED BY <2>5, <2>6, <3>1, <4>1 DEF Carries
    <3>2. CASE ~(e.type = "webServerCert" /\ e.source = s /\ e.target = t)
      BY <1>4, <1>8, <2>6, <3>2 DEF Carries, IsWhole
    <3>. QED BY <3>1, <3>2
  <2>7. \A e \in ds \ es : IsEdge(e) /\ e.type # "domainJoin"
    BY <1>4, <1>8
  <2>8. stages => HasEdge(ds, o)
    BY <2>1 DEF IsWhole, HasEdge, OpOfEdge, o
  <2>9. Tells(Nodes, cf, ds, rows')
    <3>0. Tells(Nodes, cf, es, rows) /\ es \subseteq ds
      OBVIOUS
    <3>1. rows \subseteq rows'
      BY <2>2, <2>4
    <3>2. \A q \in rows' \ rows : q.op = o /\ stages
      BY <2>2, <2>4
    <3>. HIDE DEF ds, es, cf, stages
    <3>3. \A q \in rows' \ rows :
             /\ {q.op.target, q.op.secondary} \subseteq Nodes \cup {NoNode}
             /\ q.op.kind \in Relating => HasEdge(ds, q.op)
             /\ q.op.kind # "domainLeave"
      BY <2>1, <2>8, <3>2
    <3>. QED BY <2>6, <2>7, <3>0, <3>1, <3>3, MoreTells
  <2>. QED BY <1>2, <2>3, <2>9
<1>. QED BY <1>3, <1>7, <1>8

\* configureNode: the card was not listed, and what is below it reads the same setting.
LEMMA ConfigureTells ==
    ASSUME Shaped(canvas), IsCanvas(canvas), Nodes \subseteq DOMAIN canvas.config,
           Tells(Nodes, canvas.config, canvas.edges, rows), OneRowEach(rows),
           NEW n \in Nodes, NEW setting, ~strayed',
           EditForm(n, setting) \/ Configure(n, setting)
    PROVE  Tells(Nodes', canvas'.config, canvas'.edges, rows') /\ OneRowEach(rows')
<1>1. \/ canvas' = [canvas EXCEPT !.config[n] = setting]
      \/ canvas' = [canvas EXCEPT !.config[n] = setting, !.life[n] = "staged"]
  BY DEF EditForm, Configure
<1>2. /\ Nodes' = Nodes /\ canvas'.edges = canvas.edges
      /\ canvas'.config = [canvas.config EXCEPT ![n] = setting]
  BY <1>1 DEF Shaped, Nodes
<1>3. ~Retyped(n, setting) /\ (Configure(n, setting) => Create(n) \notin OpsOf(rows))
  BY DEF EditForm, Configure, Strays
<1>4. ASSUME NEW e \in canvas.edges, e.type = "webServerCert"
      PROVE  canvas'.config[e.source] = canvas.config[e.source]
  <2>1. e.source \in Nodes /\ canvas.type[e.source] = CA
    BY <1>4 DEF IsCanvas, EdgesOf, Nodes
  <2>2. e.source = n => setting = canvas.config[n]
    BY <1>3, <1>4, <2>1 DEF Retyped
  <2>. QED BY <1>2, <2>1, <2>2
<1>5. Tells(Nodes, canvas'.config, canvas.edges, rows)
  BY <1>4, SettingTells
<1>6. CASE EditForm(n, setting)
  BY <1>2, <1>5, <1>6 DEF EditForm
<1>7. CASE Configure(n, setting)
  <2>. DEFINE o == Create(n)
  <2>1. o.kind = "createVm" /\ o.target = n /\ o.secondary = NoNode /\ IsOp(o)
    BY OpFields DEF IsOp, Create
  <2>2. o \notin OpsOf(rows) /\ rows' = Staging(rows, o, NoNode)
    BY <1>3, <1>7 DEF Configure
  <2>. HIDE DEF o
  <2>3. OneRowEach(rows')
    BY <2>1, <2>2, StagedRow
  <2>4. PICK r : rows' = rows \cup {r} /\ r.op = o
    BY <2>1, <2>2, StagedRow
  <2>5. \A q \in rows' \ rows :
            /\ {q.op.target, q.op.secondary} \subseteq Nodes \cup {NoNode}
            /\ q.op.kind \in Relating => HasEdge(canvas.edges, q.op)
            /\ q.op.kind # "domainLeave"
    BY <2>1, <2>4 DEF Relating
  <2>6. rows \subseteq rows'
    BY <2>4
  <2>7. Tells(Nodes, canvas'.config, canvas.edges, rows')
    BY <1>5, <2>5, <2>6, MoreTells
  <2>. QED BY <1>2, <2>3, <2>7
<1>. QED BY <1>6, <1>7

-----------------------------------------------------------------------------
\* Rows are removed, and cards are deleted.

LEMMA CascadeIsListed ==
    ASSUME NEW first \in SUBSET rows
    PROVE  Cascade(first) \in SUBSET rows
BY DEF Cascade, Dependents, Directly

LEMMA RemovesTells ==
    ASSUME Shaped(canvas), Tells(Nodes, canvas.config, canvas.edges, rows), OneRowEach(rows),
           NEW gone \in SUBSET rows, NEW past, Removes(gone, past), ~strayed'
    PROVE  Tells(Nodes', canvas'.config, canvas'.edges, rows') /\ OneRowEach(rows')
<1>1. canvas' = [canvas EXCEPT !.edges = EdgesWithout(gone, @), !.life = Unconfigured(gone, @)]
  BY DEF Removes
<1>2. /\ Nodes' = Nodes /\ canvas'.config = canvas.config
      /\ canvas'.edges = EdgesWithout(gone, canvas.edges) /\ rows' = rows \ gone
  BY <1>1 DEF Shaped, Nodes, Removes
<1>3. \A r \in gone, s \in rows \ gone :
          ~(r.prev # NoNode /\ s.prev # NoNode /\ r.op.target = s.op.target)
  BY DEF Removes, Strays, Halves
<1>4. Tells(Nodes, canvas.config, EdgesWithout(gone, canvas.edges), rows \ gone)
  BY <1>3, UndoTells
<1>5. OneRowEach(rows \ gone)
  BY FewerRows
<1>. QED BY <1>2, <1>4, <1>5

LEMMA RemoveNodeTells ==
    ASSUME Shaped(canvas), Tells(Nodes, canvas.config, canvas.edges, rows), OneRowEach(rows),
           NEW n, NEW past, RemoveNode(n, past), ~strayed'
    PROVE  Tells(Nodes', canvas'.config, canvas'.edges, rows') /\ OneRowEach(rows')
<1>. DEFINE gone == NodeCascade(n)
            ds == EdgesWithout(gone, canvas.edges)
            left == {e \in ds : n \notin {e.source, e.target}}
<1>1. canvas' = [canvas EXCEPT
                  !.nodes = @ \ {n},
                  !.edges = {e \in EdgesWithout(gone, @) : n \notin {e.source, e.target}},
                  !.life = Unconfigured(gone, @)]
  BY DEF RemoveNode
<1>2. /\ Nodes' = Nodes \ {n} /\ canvas'.config = canvas.config
      /\ canvas'.edges = left /\ rows' = rows \ gone
  BY <1>1 DEF Shaped, Nodes, RemoveNode
<1>3. \A r \in gone, s \in rows \ gone :
          ~(r.prev # NoNode /\ s.prev # NoNode /\ r.op.target = s.op.target)
  BY DEF RemoveNode, Strays, Halves
<1>4. gone \in SUBSET rows
  BY CascadeIsListed DEF NodeCascade, Referencing
<1>5. \A r \in rows \ gone : n \notin {r.op.target, r.op.secondary}
  BY DEF NodeCascade, Cascade, Referencing
<1>. HIDE DEF gone
<1>6. Tells(Nodes, canvas.config, ds, rows \ gone) /\ OneRowEach(rows \ gone)
  BY <1>3, <1>4, UndoTells, FewerRows
<1>7. left = {e \in ds : n \notin {e.source, e.target}}
  OBVIOUS
<1>. HIDE DEF ds, left
<1>8. Tells(Nodes \ {n}, canvas.config, left, rows \ gone)
  BY <1>5, <1>6, <1>7, DeletedTells
<1>. QED BY <1>2, <1>6, <1>8 DEF left, ds

-----------------------------------------------------------------------------
\* The question of a domain is answered.

ChangesFit(ns, changes) ==
    /\ IsFiniteSet(changes)
    /\ \A ch \in changes : ch.node \in ns /\ ch.dc \in ns \cup {NoNode}
    /\ \A ch, other \in changes : ch.node = other.node => ch = other

\* A card that leaves a domain of the lab is not listed as leaving one.
LEMMA LeavesOnce ==
    ASSUME Tells(Nodes, canvas.config, canvas.edges, rows), OneRowEach(rows),
           NEW ch, Left(ch) # NoNode, NEW s \in rows, s.op.kind = "domainLeave"
    PROVE  s.op.target # ch.node
<1>. SUFFICES ASSUME s.op.target = ch.node PROVE FALSE
  OBVIOUS
<1>1. StagedJoins(ch.node) = {} /\ Joins(canvas, ch.node) # {}
  BY DEF Left, DomainOf
<1>2. PICK e \in canvas.edges : e.type = "domainJoin" /\ e.source = ch.node
  BY <1>1 DEF Joins, EdgesOf
<1>3. e.staged
  BY <1>2 DEF Tells, LeaversAreOut
<1>4. Carries(canvas.config, canvas.edges, e)
  BY <1>2, <1>3 DEF Carries
<1>5. PICK r \in rows : r.op = OpOfEdge(e)
  BY <1>4 DEF Tells, GhostsAreListed, HasRow
<1>6. r.op.kind = "domainJoin" /\ r.op.target = ch.node
  <2>1. IsEdge(e) /\ e.type # "caHierarchy"
    BY <1>2 DEF Tells
  <2>. QED BY <1>2, <1>5, <2>1, OpIsOfEdge
<1>. QED BY <1>1, <1>6 DEF StagedJoins

\* The rows of a change.
Leaving(ch, id, r) ==
    /\ Left(ch) # NoNode /\ r.id = id /\ r.op = Leave(ch.node)
    /\ r = Row(id, Leave(ch.node), "staged", {}, Left(ch))
Joining(ch, id, r) ==
    /\ ch.dc # NoNode /\ r.id = id + 1 /\ r.op = Op("domainJoin", ch.node, ch.dc)
    /\ r = Row(id + 1, Op("domainJoin", ch.node, ch.dc), "staged",
               Inferred(Op("domainJoin", ch.node, ch.dc), rows), Left(ch))

LEMMA RowsOfChange ==
    ASSUME NEW ch, NEW id \in Nat, NEW r \in RowsOf(ch, id)
    PROVE  /\ Leaving(ch, id, r) \/ Joining(ch, id, r)
           /\ IsRow(r) /\ r.status = "staged" /\ ~Synthesized(r) /\ r.prev = Left(ch)
           /\ r.id \in {id, id + 1} /\ r.op.target = ch.node
           /\ Leaving(ch, id, r) => r.op.kind = "domainLeave" /\ r.op.secondary = NoNode
           /\ Joining(ch, id, r) => r.op.kind = "domainJoin" /\ r.op.secondary = ch.dc
<1>1. CASE Left(ch) # NoNode /\ r = Row(id, Leave(ch.node), "staged", {}, Left(ch))
  <2>1. /\ r = Row(r.id, r.op, r.status, r.deps, r.prev)
        /\ r.id = id /\ r.op = Leave(ch.node) /\ r.status = "staged" /\ r.prev = Left(ch)
    BY <1>1, RowFields
  <2>2. /\ r.op.kind = "domainLeave" /\ r.op.target = ch.node /\ r.op.secondary = NoNode
        /\ IsOp(r.op)
    BY <2>1, OpFields DEF Leave, IsOp
  <2>. QED BY <1>1, <2>1, <2>2 DEF Leaving, Joining, IsRow, Synthesized
<1>2. CASE /\ ch.dc # NoNode
           /\ r = Row(id + 1, Op("domainJoin", ch.node, ch.dc), "staged",
                      Inferred(Op("domainJoin", ch.node, ch.dc), rows), Left(ch))
  <2>. DEFINE o == Op("domainJoin", ch.node, ch.dc)
  <2>1. o.kind = "domainJoin" /\ o.target = ch.node /\ o.secondary = ch.dc /\ IsOp(o)
    BY OpFields DEF IsOp, Relating
  <2>2. o # Leave(ch.node)
    BY <2>1, OpFields DEF Leave
  <2>. HIDE DEF o
  <2>3. /\ r = Row(r.id, r.op, r.status, r.deps, r.prev)
        /\ r.id = id + 1 /\ r.op = o /\ r.status = "staged" /\ r.prev = Left(ch)
    BY <1>2, RowFields DEF o
  <2>4. Joining(ch, id, r) /\ ~Leaving(ch, id, r)
    BY <1>2, <2>2, <2>3 DEF Joining, Leaving, o
  <2>. QED BY <2>1, <2>3, <2>4 DEF IsRow, Synthesized
<1>. QED BY <1>1, <1>2 DEF RowsOf

LEMMA ChangeIsListed ==
    ASSUME NEW ch, NEW id, ch.dc # NoNode
    PROVE  \E r \in RowsOf(ch, id) : r.op = Op("domainJoin", ch.node, ch.dc) /\ r.status = "staged"
<1>. DEFINE o == Op("domainJoin", ch.node, ch.dc)
            r == Row(id + 1, o, "staged", Inferred(o, rows), Left(ch))
<1>1. r \in RowsOf(ch, id)
  BY DEF RowsOf
<1>2. r.op = o /\ r.status = "staged"
  BY RowFields
<1>. QED BY <1>1, <1>2

\* The rows of all changes, each at its place.
RowsAdded(changes, place) == UNION {RowsOf(ch, NextId(rows) + 2 * place[ch]) : ch \in changes}
RowsKept(changes) == rows \ UNION {StagedJoins(ch.node) : ch \in changes}
PlaceOf(place, ch) == NextId(rows) + 2 * place[ch]

LEMMA PlacesAreApart ==
    ASSUME OneRowEach(rows), NEW changes, IsFiniteSet(changes),
           NEW place \in Injection(changes, 1..Cardinality(changes))
    PROVE  /\ \A ch \in changes : /\ PlaceOf(place, ch) \in Nat
                                  /\ NextId(rows) < PlaceOf(place, ch)
                                  /\ PlaceOf(place, ch) <= NextId(rows) + 2 * Cardinality(changes)
           /\ \A ch, other \in changes :
                 (\E k \in {PlaceOf(place, ch), PlaceOf(place, ch) + 1} :
                     k \in {PlaceOf(place, other), PlaceOf(place, other) + 1}) => ch = other
<1>1. Cardinality(changes) \in Nat
  BY FS_CardinalityType
<1>2. NextId(rows) \in Nat
  BY NextIdIsNew
<1>3. \A ch \in changes : place[ch] \in 1..Cardinality(changes)
  BY DEF Injection
<1>4. \A ch, other \in changes : place[ch] = place[other] => ch = other
  BY DEF Injection, IsInjective
<1>5. \A ch \in changes : place[ch] \in Nat /\ 1 <= place[ch] /\ place[ch] <= Cardinality(changes)
  BY <1>1, <1>3
<1>6. ASSUME NEW ch \in changes
      PROVE  /\ PlaceOf(place, ch) \in Nat /\ NextId(rows) < PlaceOf(place, ch)
             /\ PlaceOf(place, ch) <= NextId(rows) + 2 * Cardinality(changes)
  BY <1>1, <1>2, <1>5 DEF PlaceOf
<1>7. ASSUME NEW ch \in changes, NEW other \in changes,
             NEW k \in {PlaceOf(place, ch), PlaceOf(place, ch) + 1},
             k \in {PlaceOf(place, other), PlaceOf(place, other) + 1}
      PROVE  ch = other
  <2>1. place[ch] \in Nat /\ place[other] \in Nat
    BY <1>5
  <2>2. place[ch] = place[other]
    BY <1>2, <1>7, <2>1 DEF PlaceOf
  <2>. QED BY <1>4, <2>2
<1>. QED BY <1>6, <1>7

LEMMA AddedFits ==
    ASSUME Tells(Nodes, canvas.config, canvas.edges, rows), OneRowEach(rows),
           NEW changes, ChangesFit(Nodes, changes),
           NEW place \in Injection(changes, 1..Cardinality(changes)),
           NEW r \in RowsAdded(changes, place)
    PROVE  /\ \E ch \in changes : r \in RowsOf(ch, PlaceOf(place, ch))
           /\ IsRow(r) /\ r.status = "staged" /\ ~Synthesized(r)
           /\ r.id <= NextId(rows) + 2 * Cardinality(changes) + 1
           /\ r.op.kind \in {"domainJoin", "domainLeave"}
           /\ \A s \in RowsKept(changes) : s.id < r.id /\ s.op # r.op
<1>1. PICK ch \in changes : r \in RowsOf(ch, PlaceOf(place, ch))
  BY DEF RowsAdded, PlaceOf
<1>. DEFINE id == PlaceOf(place, ch)
<1>2. /\ id \in Nat /\ NextId(rows) < id /\ id <= NextId(rows) + 2 * Cardinality(changes)
      /\ NextId(rows) \in Nat /\ \A s \in rows : s.id < NextId(rows) /\ s.id \in Nat
      /\ Cardinality(changes) \in Nat
  BY PlacesAreApart, NextIdIsNew, FS_CardinalityType DEF ChangesFit, OneRowEach, IsRow
<1>. HIDE DEF id
<1>3. /\ Leaving(ch, id, r) \/ Joining(ch, id, r)
      /\ IsRow(r) /\ r.status = "staged" /\ ~Synthesized(r) /\ r.prev = Left(ch)
      /\ r.id \in {id, id + 1} /\ r.op.target = ch.node
      /\ Leaving(ch, id, r) => r.op.kind = "domainLeave" /\ r.op.secondary = NoNode
      /\ Joining(ch, id, r) => r.op.kind = "domainJoin" /\ r.op.secondary = ch.dc
  BY <1>1, <1>2, RowsOfChange DEF id
<1>4. r.id <= NextId(rows) + 2 * Cardinality(changes) + 1
  BY <1>2, <1>3
<1>5. ASSUME NEW s \in RowsKept(changes) PROVE s.id < r.id /\ s.op # r.op
  <2>1. s \in rows /\ s \notin StagedJoins(ch.node)
    BY DEF RowsKept
  <2>2. s.id < r.id
    BY <1>2, <1>3, <2>1
  <2>3. CASE r.op.kind = "domainJoin"
    BY <1>3, <2>1, <2>2, <2>3 DEF StagedJoins
  <2>4. CASE Leaving(ch, id, r)
    <3>1. Left(ch) # NoNode
      BY <2>4 DEF Leaving
    <3>2. s.op.kind = "domainLeave" => s.op.target # ch.node
      BY <2>1, <3>1, LeavesOnce
    <3>. QED BY <1>3, <2>2, <2>4, <3>2
  <2>. QED BY <1>3, <2>3, <2>4
<1>6. r.op.kind \in {"domainJoin", "domainLeave"}
  BY <1>3
<1>. QED BY <1>1, <1>3, <1>4, <1>5, <1>6 DEF id

LEMMA ChangedRowsEach ==
    ASSUME Tells(Nodes, canvas.config, canvas.edges, rows), OneRowEach(rows),
           NEW changes, ChangesFit(Nodes, changes),
           NEW place \in Injection(changes, 1..Cardinality(changes))
    PROVE  OneRowEach(RowsKept(changes) \cup RowsAdded(changes, place))
<1>. DEFINE left == RowsKept(changes)
            new == RowsAdded(changes, place)
            b == NextId(rows) + 2 * Cardinality(changes) + 1
<1>1. OneRowEach(left)
  BY FewerRows DEF RowsKept
<1>2. b \in Nat
  <2>1. NextId(rows) \in Nat /\ Cardinality(changes) \in Nat
    BY NextIdIsNew, FS_CardinalityType DEF ChangesFit
  <2>. QED BY <2>1
<1>3. \A r \in new :
          /\ IsRow(r) /\ r.status = "staged" /\ ~Synthesized(r) /\ r.id <= b
          /\ r.op.kind \in {"domainJoin", "domainLeave"}
          /\ \A s \in left : s.id < r.id /\ s.op # r.op
  BY AddedFits
<1>4. ASSUME NEW r \in new
      PROVE  \E ch \in changes :
                /\ Leaving(ch, PlaceOf(place, ch), r) \/ Joining(ch, PlaceOf(place, ch), r)
                /\ r.prev = Left(ch) /\ r.op.target = ch.node
                /\ r.id \in {PlaceOf(place, ch), PlaceOf(place, ch) + 1}
                /\ Leaving(ch, PlaceOf(place, ch), r) => r.op.kind = "domainLeave"
                /\ Joining(ch, PlaceOf(place, ch), r) => r.op.kind = "domainJoin"
  <2>1. PICK ch \in changes : r \in RowsOf(ch, PlaceOf(place, ch))
    BY AddedFits
  <2>2. PlaceOf(place, ch) \in Nat
    BY PlacesAreApart DEF ChangesFit
  <2>. QED BY <2>1, <2>2, RowsOfChange
<1>5. ASSUME NEW r \in new, NEW s \in new, r.id = s.id \/ r.op = s.op PROVE r = s
  <2>1. PICK ch \in changes :
                /\ Leaving(ch, PlaceOf(place, ch), r) \/ Joining(ch, PlaceOf(place, ch), r)
                /\ r.prev = Left(ch) /\ r.op.target = ch.node
                /\ r.id \in {PlaceOf(place, ch), PlaceOf(place, ch) + 1}
                /\ Leaving(ch, PlaceOf(place, ch), r) => r.op.kind = "domainLeave"
                /\ Joining(ch, PlaceOf(place, ch), r) => r.op.kind = "domainJoin"
    BY <1>4
  <2>2. PICK other \in changes :
                /\ Leaving(other, PlaceOf(place, other), s) \/ Joining(other, PlaceOf(place, other), s)
                /\ s.prev = Left(other) /\ s.op.target = other.node
                /\ s.id \in {PlaceOf(place, other), PlaceOf(place, other) + 1}
                /\ Leaving(other, PlaceOf(place, other), s) => s.op.kind = "domainLeave"
                /\ Joining(other, PlaceOf(place, other), s) => s.op.kind = "domainJoin"
    BY <1>4
  <2>3. ch = other
    <3>1. CASE r.id = s.id
      BY <2>1, <2>2, <3>1, PlacesAreApart DEF ChangesFit
    <3>2. CASE r.op = s.op
      BY <2>1, <2>2, <3>2 DEF ChangesFit
    <3>. QED BY <1>5, <3>1, <3>2
  <2>. DEFINE id == PlaceOf(place, ch)
  <2>4. id \in Nat /\ id # id + 1
    BY PlacesAreApart DEF ChangesFit
  <2>. HIDE DEF id
  <2>5. \/ Leaving(ch, id, r) /\ Leaving(ch, id, s)
        \/ Joining(ch, id, r) /\ Joining(ch, id, s)
    <3>1. CASE r.id = s.id
      BY <2>1, <2>2, <2>3, <2>4, <3>1 DEF Leaving, Joining, id
    <3>2. CASE r.op = s.op
      BY <2>1, <2>2, <2>3, <3>2 DEF id
    <3>. QED BY <1>5, <3>1, <3>2
  <2>. QED BY <2>5 DEF Leaving, Joining
<1>6. ASSUME NEW r \in left \cup new, NEW s \in left \cup new,
             r.op.kind = "domainJoin", r.prev # NoNode,
             s.op.kind = "domainLeave", s.op.target = r.op.target
      PROVE  s.prev # NoNode
  <2>1. CASE s \in new
    BY <1>4, <1>6, <2>1 DEF Leaving
  <2>2. CASE s \in left /\ r \in left
    BY <1>1, <1>6, <2>2 DEF OneRowEach
  <2>3. CASE s \in left /\ r \in new
    <3>1. PICK ch \in changes : r.prev = Left(ch) /\ r.op.target = ch.node
      BY <1>4, <2>3
    <3>2. s \in rows
      BY <2>3 DEF RowsKept
    <3>. QED BY <1>6, <3>1, <3>2, LeavesOnce
  <2>. QED BY <2>1, <2>2, <2>3
<1>. HIDE DEF left, new, b
<1>7. \A r, s \in new : r.id = s.id \/ r.op = s.op => r = s
  BY <1>5
<1>8. \A r, s \in left \cup new :
          (/\ r.op.kind = "domainJoin" /\ r.prev # NoNode
           /\ s.op.kind = "domainLeave" /\ s.op.target = r.op.target) => s.prev # NoNode
  BY <1>6
<1>9. OneRowEach(left \cup new)
  BY <1>1, <1>2, <1>3, <1>7, <1>8, MoreRows
<1>. QED BY <1>9 DEF left, new

\* applyDomainChanges, where no change of a realized membership is changed again.
LEMMA ChangesTell ==
    ASSUME Shaped(canvas), Tells(Nodes, canvas.config, canvas.edges, rows), OneRowEach(rows),
           NEW changes, ChangesFit(Nodes, changes), AppliesChanges(changes), ~strayed'
    PROVE  Tells(Nodes', canvas'.config, canvas'.edges, rows') /\ OneRowEach(rows')
<1>. DEFINE es == canvas.edges
            cf == canvas.config
            ds == ChangedEdges(changes)
            left == RowsKept(changes)
<1>1. canvas' = [canvas EXCEPT !.edges = ds]
  BY DEF AppliesChanges
<1>2. Nodes' = Nodes /\ canvas'.config = cf /\ canvas'.edges = ds
  BY <1>1 DEF Shaped, Nodes
<1>3. PICK place \in Injection(changes, 1..Cardinality(changes)) :
          rows' = left \cup RowsAdded(changes, place)
  BY DEF AppliesChanges, ChangedRows, RowsAdded, RowsKept
<1>. DEFINE new == RowsAdded(changes, place)
<1>4. OneRowEach(rows')
  BY <1>3, ChangedRowsEach
<1>5. Restored(UNION {StagedJoins(n) : n \in {ch.node : ch \in changes}}) = {}
  <2>1. \A ch \in changes : ~Retargeted(ch.node)
    BY DEF AppliesChanges, Strays
  <2>. QED BY <2>1 DEF Restored, Retargeted
<1>6. \A e \in ds : \/ e \in es /\ ~(e.type = "domainJoin" /\ \E ch \in changes : e.source = ch.node)
                   \/ \E ch \in changes : ch.dc # NoNode /\ e = JoinEdge(ch.node, ch.dc, TRUE)
  BY <1>5 DEF ChangedEdges
<1>7. \A e \in es : ~(e.type = "domainJoin" /\ \E ch \in changes : e.source = ch.node) => e \in ds
  BY DEF ChangedEdges
<1>8. \A ch \in changes : ch.dc # NoNode => JoinEdge(ch.node, ch.dc, TRUE) \in ds
  BY DEF ChangedEdges
<1>9. \A r \in new : \E ch \in changes :
          /\ r.op.target = ch.node /\ r.op.kind \in {"domainJoin", "domainLeave"}
          /\ r.op.kind = "domainLeave" => r.op.secondary = NoNode
          /\ r.op.kind = "domainJoin" =>
                ch.dc # NoNode /\ r.op.secondary = ch.dc /\ r.op = Op("domainJoin", ch.node, ch.dc)
  <2>. SUFFICES ASSUME NEW r \in new
                PROVE  \E ch \in changes :
          /\ r.op.target = ch.node /\ r.op.kind \in {"domainJoin", "domainLeave"}
          /\ r.op.kind = "domainLeave" => r.op.secondary = NoNode
          /\ r.op.kind = "domainJoin" =>
                ch.dc # NoNode /\ r.op.secondary = ch.dc /\ r.op = Op("domainJoin", ch.node, ch.dc)
    OBVIOUS
  <2>1. PICK ch \in changes : r \in RowsOf(ch, PlaceOf(place, ch))
    BY AddedFits
  <2>2. PlaceOf(place, ch) \in Nat
    BY PlacesAreApart DEF ChangesFit
  <2>. QED BY <2>1, <2>2, RowsOfChange DEF Joining
<1>10. \A ch \in changes : ch.dc # NoNode => HasRow(rows', Op("domainJoin", ch.node, ch.dc))
  <2>1. \A ch \in changes : RowsOf(ch, PlaceOf(place, ch)) \subseteq rows'
    BY <1>3 DEF RowsAdded, PlaceOf
  <2>. QED BY <2>1, ChangeIsListed DEF HasRow
<1>11. /\ \A r \in left : r \in rows /\ \A ch \in changes : ~(r.op.kind = "domainJoin" /\ r.op.target = ch.node)
       /\ \A r \in rows : (\A ch \in changes : ~(r.op.kind = "domainJoin" /\ r.op.target = ch.node)) => r \in left
  BY DEF RowsKept, StagedJoins
<1>12. \A ch \in changes : LET e == JoinEdge(ch.node, ch.dc, TRUE) IN
          IsEdge(e) /\ e.type = "domainJoin" /\ e.source = ch.node /\ e.staged
  BY DEF JoinEdge, Ghost, IsEdge, EdgeTypes
<1>13. \A ch \in changes : OpOfEdge(JoinEdge(ch.node, ch.dc, TRUE)) = Op("domainJoin", ch.node, ch.dc)
  BY DEF JoinEdge, Ghost, OpOfEdge
<1>. HIDE DEF ds, new, left, es, cf
<1>14. Tells(Nodes, cf, es, rows)
  BY DEF es, cf
<1>15. rows' = left \cup new
  BY <1>3 DEF new, left
<1>16. \A e \in ds : IsEdge(e)
  BY <1>6, <1>12, <1>14 DEF Tells
<1>17. RowsAreOfCards(Nodes, rows')
  BY <1>9, <1>11, <1>14, <1>15 DEF Tells, RowsAreOfCards, ChangesFit
<1>18. RowsAreDrawn(ds, rows')
  <2>. SUFFICES ASSUME NEW r \in rows', r.op.kind \in Relating PROVE HasEdge(ds, r.op)
    BY DEF RowsAreDrawn
  <2>1. CASE r \in left
    <3>1. PICK e \in es : OpOfEdge(e) = r.op /\ (r.op.kind = "webServerCert" => e.socket = "ocsp")
      BY <1>11, <1>14, <2>1 DEF Tells, RowsAreDrawn, HasEdge
    <3>2. IsEdge(e)
      BY <1>14 DEF Tells
    <3>3. e \in ds
      BY <1>7, <1>11, <2>1, <3>1, <3>2, OpIsOfEdge
    <3>. QED BY <3>1, <3>3 DEF HasEdge
  <2>2. CASE r \in new
    <3>1. PICK ch \in changes : ch.dc # NoNode /\ r.op = Op("domainJoin", ch.node, ch.dc)
                                 /\ r.op.kind = "domainJoin"
      BY <1>9, <2>2 DEF Relating
    <3>. QED BY <1>8, <1>13, <3>1 DEF HasEdge
  <2>. QED BY <1>15, <2>1, <2>2
<1>19. GhostsAreListed(cf, ds, rows')
  <2>. SUFFICES ASSUME NEW e \in ds, Carries(cf, ds, e) PROVE HasRow(rows', OpOfEdge(e))
    BY DEF GhostsAreListed
  <2>1. CASE e \in es /\ ~(e.type = "domainJoin" /\ \E ch \in changes : e.source = ch.node)
    <3>1. \A f \in ds : f.type = "webServerCert" => f \in es
      BY <1>6, <1>12
    <3>2. Carries(cf, es, e)
      BY <3>1 DEF Carries, IsWhole
    <3>3. PICK r \in rows : r.op = OpOfEdge(e) /\ r.status # "done"
      BY <1>14, <2>1, <3>2 DEF Tells, GhostsAreListed, HasRow
    <3>4. IsEdge(e)
      BY <1>14, <2>1 DEF Tells
    <3>5. \A ch \in changes : ~(r.op.kind = "domainJoin" /\ r.op.target = ch.node)
      BY <2>1, <3>3, <3>4, OpIsOfEdge
    <3>. QED BY <1>11, <1>15, <3>3, <3>5 DEF HasRow
  <2>2. ASSUME NEW ch \in changes, ch.dc # NoNode, e = JoinEdge(ch.node, ch.dc, TRUE)
        PROVE  HasRow(rows', OpOfEdge(e))
    BY <1>10, <1>13, <2>2
  <2>. QED BY <1>6, <2>1, <2>2
<1>20. LeaversAreOut(ds, rows')
  <2>. SUFFICES ASSUME NEW r \in rows', r.op.kind = "domainLeave", NEW e \in ds,
                       e.type = "domainJoin", e.source = r.op.target, ~e.staged
                PROVE  FALSE
    BY DEF LeaversAreOut
  <2>1. e \in es /\ \A ch \in changes : e.source # ch.node
    BY <1>6, <1>12
  <2>2. r \in left
    BY <1>9, <1>15, <2>1
  <2>. QED BY <1>11, <1>14, <2>1, <2>2 DEF Tells, LeaversAreOut
<1>21. Tells(Nodes, cf, ds, rows')
  BY <1>16, <1>17, <1>18, <1>19, <1>20 DEF Tells
<1>. QED BY <1>2, <1>4, <1>21 DEF cf, ds

-----------------------------------------------------------------------------
\* What is listed is sent, and a plan ends.

\* A row whose status is rewritten stays the row of its operation.
LEMMA RewrittenRow ==
    ASSUME NEW r, IsRow(r), NEW status, NEW q, q = [r EXCEPT !.status = status]
    PROVE  /\ IsRow(q) /\ q.id = r.id /\ q.op = r.op /\ q.deps = r.deps /\ q.prev = r.prev
           /\ q.status = status
<1>1. PICK id, op, old, deps, prev :
          r = [id |-> id, op |-> op, status |-> old, deps |-> deps, prev |-> prev]
  BY DEF Row, IsRow
<1>2. q = Row(r.id, r.op, status, r.deps, r.prev)
  BY <1>1 DEF Row
<1>3. /\ q = Row(q.id, q.op, q.status, q.deps, q.prev)
      /\ q.id = r.id /\ q.op = r.op /\ q.deps = r.deps /\ q.prev = r.prev /\ q.status = status
  BY <1>2, RowFields
<1>. QED BY <1>3 DEF IsRow

\* Rows that keep their ids and operations.
LEMMA RewrittenRows ==
    ASSUME NEW rs, OneRowEach(rs), NEW f, NEW qs,
           \A q \in qs : \E r \in rs : q = f[r],
           \A r \in rs : IsRow(f[r]) /\ f[r].id = r.id /\ f[r].op = r.op /\ f[r].prev = r.prev,
           \A q \in qs : q.status = "done" => q.op.kind \notin Relating \cup {"domainLeave"}
    PROVE  OneRowEach(qs)
<1>1. \A q \in qs : \E r \in rs :
          q = f[r] /\ IsRow(q) /\ q.id = r.id /\ q.op = r.op /\ q.prev = r.prev
  OBVIOUS
<1>2. \A q \in qs : IsRow(q)
  BY <1>1
<1>3. \E b \in Nat : \A q \in qs : q.id <= b
  <2>1. PICK b \in Nat : \A r \in rs : r.id <= b
    BY DEF OneRowEach
  <2>2. \A q \in qs : q.id <= b
    BY <1>1, <2>1
  <2>. QED BY <2>2
<1>4. ASSUME NEW q \in Sent(qs), NEW s \in Sent(qs), q.id = s.id \/ q.op = s.op PROVE q = s
  <2>1. PICK r \in rs : q = f[r] /\ q.id = r.id /\ q.op = r.op
    BY <1>1 DEF Sent
  <2>2. PICK o \in rs : s = f[o] /\ s.id = o.id /\ s.op = o.op
    BY <1>1 DEF Sent
  <2>3. r \in Sent(rs) /\ o \in Sent(rs)
    BY <2>1, <2>2 DEF Sent, Synthesized
  <2>4. r = o
    BY <1>4, <2>1, <2>2, <2>3 DEF OneRowEach
  <2>. QED BY <2>1, <2>2, <2>4
<1>5. \A q, s \in qs : ~Synthesized(q) /\ Synthesized(s) /\ q.id = s.id => q.op.kind = "createVm"
  BY <1>1 DEF OneRowEach, Synthesized
<1>6. \A q \in qs : q.prev # NoNode => q.op.kind \in {"domainJoin", "domainLeave"}
  BY <1>1 DEF OneRowEach
<1>7. \A q, s \in qs :
          (/\ q.op.kind = "domainJoin" /\ q.prev # NoNode
           /\ s.op.kind = "domainLeave" /\ s.op.target = q.op.target) => s.prev # NoNode
  BY <1>1 DEF OneRowEach
<1>. QED BY <1>2, <1>3, <1>4, <1>5, <1>6, <1>7 DEF OneRowEach

\* The rows of a plan: each clone has its provision row.
LEMMA MirrorRows ==
    ASSUME NEW rs, NEW m \in Mirrors(rs)
    PROVE  \E r \in rs : /\ r.op.kind = "createVm" /\ m.id = r.id /\ m.op = Provision(r.op.target)
                         /\ m = Row(m.id, m.op, m.status, m.deps, m.prev)
                         /\ m.status = "pending" /\ m.deps = {m.id} /\ m.prev = NoNode
                         /\ m.op.kind = "provision" /\ m.op.target = r.op.target
                         /\ m.op.secondary = NoNode /\ IsOp(m.op)
<1>1. PICK r \in rs : /\ r.op.kind = "createVm"
                     /\ m = Row(r.id, Provision(r.op.target), "pending", {r.id}, NoNode)
  BY DEF Mirrors
<1>2. /\ m = Row(m.id, m.op, m.status, m.deps, m.prev) /\ m.id = r.id
      /\ m.op = Provision(r.op.target) /\ m.status = "pending" /\ m.deps = {m.id} /\ m.prev = NoNode
  BY <1>1, RowFields
<1>3. /\ m.op.kind = "provision" /\ m.op.target = r.op.target
      /\ m.op.secondary = NoNode /\ IsOp(m.op)
  BY <1>2, OpFields DEF Provision, IsOp
<1>. QED BY <1>1, <1>2, <1>3

LEMMA MirroredRows ==
    ASSUME NEW rs, OneRowEach(rs)
    PROVE  OneRowEach(rs \cup Mirrors(rs))
<1>. DEFINE all == rs \cup Mirrors(rs)
<1>1. \A m \in Mirrors(rs) :
          /\ \E r \in rs : r.op.kind = "createVm" /\ m.id = r.id
          /\ m = Row(m.id, m.op, m.status, m.deps, m.prev)
          /\ m.status = "pending" /\ m.prev = NoNode
          /\ m.op.kind = "provision" /\ IsOp(m.op)
  BY MirrorRows
<1>2. \A r \in all : IsRow(r)
  BY <1>1 DEF OneRowEach, IsRow
<1>3. \E b \in Nat : \A r \in all : r.id <= b
  BY <1>1 DEF OneRowEach
<1>4. Sent(all) = Sent(rs)
  BY <1>1 DEF Sent, Synthesized
<1>5. ASSUME NEW r \in all, NEW s \in all, ~Synthesized(r), Synthesized(s), r.id = s.id
      PROVE  r.op.kind = "createVm"
  <2>1. r \in rs
    BY <1>1, <1>5 DEF Synthesized
  <2>2. CASE s \in rs
    BY <1>5, <2>1, <2>2 DEF OneRowEach
  <2>3. CASE s \in Mirrors(rs)
    <3>1. PICK o \in rs : o.op.kind = "createVm" /\ s.id = o.id
      BY <1>1, <2>3
    <3>2. o \in Sent(rs) /\ r \in Sent(rs)
      BY <1>5, <2>1, <3>1 DEF Sent, Synthesized
    <3>3. o = r
      BY <1>5, <3>1, <3>2 DEF OneRowEach
    <3>. QED BY <3>1, <3>3
  <2>. QED BY <2>2, <2>3
<1>6. /\ \A r \in all : r.status = "done" => r.op.kind \notin Relating \cup {"domainLeave"}
      /\ \A r \in all : r.prev # NoNode => r.op.kind \in {"domainJoin", "domainLeave"}
      /\ \A r, s \in all :
            (/\ r.op.kind = "domainJoin" /\ r.prev # NoNode
             /\ s.op.kind = "domainLeave" /\ s.op.target = r.op.target) => s.prev # NoNode
  BY <1>1 DEF OneRowEach
<1>7. \A r, s \in Sent(all) : r.id = s.id \/ r.op = s.op => r = s
  BY <1>4 DEF OneRowEach
<1>. QED BY <1>2, <1>3, <1>5, <1>6, <1>7 DEF OneRowEach

\* An edge that the rows rs colour: a ghost is one as long as no row of its is done.
ShownAs(rs, e) ==
    LET of == {r \in rs : e \in OperationEdges(r, canvas.edges)} IN
    IF of = {} THEN e
    ELSE LET last == CHOOSE r \in of : \A s \in of : s.id <= r.id
         IN  [e EXCEPT !.health = OperationHealth(last.status),
                       !.staged = @ /\ \A r \in of : r.status # "done"]
Colours(rs, e, f) ==
    /\ IsEdge(f) /\ f.type = e.type /\ f.source = e.source /\ f.target = e.target
    /\ f.socket = e.socket /\ OpOfEdge(f) = OpOfEdge(e)
    /\ f.staged => e.staged
    /\ f.staged => \A r \in rs : e \in OperationEdges(r, canvas.edges) => r.status # "done"
    /\ e.staged /\ (\A r \in rs : e \in OperationEdges(r, canvas.edges) => r.status # "done")
          => f.staged

LEMMA ShownColours ==
    ASSUME NEW rs, NEW e, IsEdge(e)
    PROVE  Colours(rs, e, ShownAs(rs, e))
<1>. DEFINE of == {r \in rs : e \in OperationEdges(r, canvas.edges)}
            f == ShownAs(rs, e)
<1>1. CASE of = {}
  BY <1>1 DEF ShownAs, Colours
<1>2. CASE of # {}
  <2>1. \E h : f = [e EXCEPT !.health = h, !.staged = @ /\ \A r \in of : r.status # "done"]
    BY <1>2 DEF ShownAs
  <2>. HIDE DEF f
  <2>2. /\ f.type = e.type /\ f.source = e.source /\ f.target = e.target
        /\ f.socket = e.socket
    BY <2>1 DEF IsEdge
  <2>3. DOMAIN f = DOMAIN e
    BY <2>1
  <2>4. f.staged <=> (e.staged /\ \A r \in of : r.status # "done")
    BY <2>1 DEF IsEdge
  <2>5. IsEdge(f) /\ OpOfEdge(f) = OpOfEdge(e)
    BY <2>2, <2>3 DEF IsEdge, OpOfEdge
  <2>. QED BY <2>2, <2>4, <2>5 DEF Colours, f
<1>. QED BY <1>1, <1>2

LEMMA ShownEdges ==
    ASSUME NEW rs, \A e \in canvas.edges : IsEdge(e)
    PROVE  /\ \A f \in EdgesShown(rs) : \E e \in canvas.edges : Colours(rs, e, f)
           /\ \A e \in canvas.edges : \E f \in EdgesShown(rs) : Colours(rs, e, f)
<1>1. EdgesShown(rs) = {ShownAs(rs, e) : e \in canvas.edges}
  BY DEF EdgesShown, ShownAs
<1>. QED BY <1>1, ShownColours

\* What the rows ss make of the edges, and of the rows rs: the rows qs, all of operations
\* that were listed, in which no operation is missing that is not done.
Coloured(ss, ds) ==
    /\ \A f \in ds : \E e \in canvas.edges : Colours(ss, e, f)
    /\ \A e \in canvas.edges : \E f \in ds : Colours(ss, e, f)
ComeFrom(rs, qs) ==
    \A q \in qs : \E r \in rs :
        \/ q.op = r.op
        \/ q.op.kind = "provision" /\ q.op.target = r.op.target /\ q.op.secondary = NoNode
StayListed(rs, ss, qs) ==
    \A r \in rs : (/\ r.op.kind \in Relating /\ r.status # "done"
                   /\ \A s \in ss : s.op = r.op => s.status # "done") => HasRow(qs, r.op)
LeavesLast(qs, ss) ==
    \A q \in qs, s \in ss : (/\ q.op.kind = "domainLeave" /\ s.op.kind = "domainJoin"
                             /\ s.op.target = q.op.target) => s.status # "done"

LEMMA ShownTells ==
    ASSUME NEW ns, NEW cf, NEW rs, Tells(ns, cf, canvas.edges, rs),
           NEW ss, \A s \in ss : IsRow(s), NEW ds, Coloured(ss, ds),
           NEW qs, ComeFrom(rs, qs), StayListed(rs, ss, qs), LeavesLast(qs, ss)
    PROVE  Tells(ns, cf, ds, qs)
<1>. DEFINE es == canvas.edges
<1>1. \A f \in ds : IsEdge(f)
  BY DEF Coloured, Colours
<1>2. RowsAreOfCards(ns, qs)
  BY DEF Tells, RowsAreOfCards, ComeFrom
<1>3. RowsAreDrawn(ds, qs)
  <2>. SUFFICES ASSUME NEW q \in qs, q.op.kind \in Relating PROVE HasEdge(ds, q.op)
    BY DEF RowsAreDrawn
  <2>1. PICK r \in rs : q.op = r.op
    BY DEF ComeFrom, Relating
  <2>2. PICK e \in es : OpOfEdge(e) = r.op /\ (r.op.kind = "webServerCert" => e.socket = "ocsp")
    BY <2>1 DEF Tells, RowsAreDrawn, HasEdge
  <2>3. PICK f \in ds : Colours(ss, e, f)
    BY DEF Coloured
  <2>. QED BY <2>1, <2>2, <2>3 DEF Colours, HasEdge
<1>4. GhostsAreListed(cf, ds, qs)
  <2>. SUFFICES ASSUME NEW f \in ds, Carries(cf, ds, f) PROVE HasRow(qs, OpOfEdge(f))
    BY DEF GhostsAreListed
  <2>1. PICK e \in es : Colours(ss, e, f)
    BY DEF Coloured
  <2>2. \A ca, web : IsWhole(ds, ca, web) => IsWhole(es, ca, web)
    BY DEF IsWhole, Coloured, Colours
  <2>3. Carries(cf, es, e)
    BY <2>1, <2>2 DEF Carries, Colours
  <2>4. PICK r \in rs : r.op = OpOfEdge(e) /\ r.status # "done"
    BY <2>3 DEF Tells, GhostsAreListed, HasRow
  <2>5. IsEdge(e)
    BY DEF Tells
  <2>6. r.op.kind \in Relating
    BY <2>4, <2>5, OpIsOfEdge
  <2>7. ASSUME NEW s \in ss, s.op = r.op PROVE s.status # "done"
    <3>1. e \in OperationEdges(s, es)
      BY <2>4, <2>5, <2>7, EdgeOfRow
    <3>. QED BY <2>1, <3>1 DEF Carries, Colours
  <2>8. HasRow(qs, r.op)
    BY <2>4, <2>6, <2>7 DEF StayListed
  <2>. QED BY <2>1, <2>4, <2>8 DEF Colours
<1>5. LeaversAreOut(ds, qs)
  <2>. SUFFICES ASSUME NEW q \in qs, q.op.kind = "domainLeave", NEW f \in ds,
                       f.type = "domainJoin", f.source = q.op.target
                PROVE  f.staged
    BY DEF LeaversAreOut
  <2>1. PICK e \in es : Colours(ss, e, f)
    BY DEF Coloured
  <2>2. PICK r \in rs : q.op = r.op
    BY DEF ComeFrom
  <2>3. IsEdge(e) /\ e.type = "domainJoin" /\ e.source = q.op.target
    BY <2>1 DEF Tells, Colours
  <2>4. e.staged
    BY <2>2, <2>3 DEF Tells, LeaversAreOut
  <2>5. ASSUME NEW s \in ss, e \in OperationEdges(s, es) PROVE s.status # "done"
    <3>1. e.socket # "publication"
      BY <2>3 DEF IsEdge
    <3>2. OpOfEdge(e) = s.op
      BY <2>3, <2>5, <3>1, EdgeOfRow
    <3>3. s.op.kind = "domainJoin" /\ s.op.target = e.source
      BY <2>3, <3>2, OpIsOfEdge
    <3>. QED BY <2>3, <3>3 DEF LeavesLast
  <2>. QED BY <2>1, <2>4, <2>5 DEF Colours
<1>. QED BY <1>1, <1>2, <1>3, <1>4, <1>5 DEF Tells

\* What fails or is cancelled takes the joins along that wait for a departure.
LEMMA JoinsWaitForLeaves ==
    ASSUME NEW t, NEW rs, \A r \in rs : IsRow(r) /\ r.status = "pending", NEW row \in rs,
           NEW p \in rs, p.op.kind = "domainLeave", p \in {row} \cup Cascaded(t, rs, row),
           NEW q \in rs, q.op.kind = "domainJoin", q.op.target = p.op.target
    PROVE  q \in {row} \cup Cascaded(t, rs, row)
<1>. DEFINE needed == [r \in {s \in rs : s.status = "pending"} |-> NeededBy(t, rs, r)]
            With(S) == S \cup {r \in DOMAIN needed : needed[r] \cap S # {}}
            Early(S) == \A x \in S :
                /\ x \in rs
                /\ x.op.kind = "createVm" => x = row
                /\ x.op.kind = "provision" => x \in With({row})
                /\ x.op.kind = "domainLeave" => x \in With(With({row}))
<1>1. \A S, x : x \in With(S) <=>
          x \in S \/ (x \in rs /\ \E s \in S \cap rs : s.op \in Needs(t, x.op))
  BY DEF NeededBy, Dependencies, OpsOf
<1>2. Cascaded(t, rs, row) = With(With(With(With(With({row}))))) \ {row}
  BY DEF Cascaded
<1>. HIDE DEF With
<1>3. Early({row})
  BY <1>1
<1>4. ASSUME NEW S, Early(S) PROVE Early(With(S))
  <2>. SUFFICES ASSUME NEW x \in With(S), x \notin S
                PROVE  /\ x \in rs
                       /\ x.op.kind = "createVm" => x = row
                       /\ x.op.kind = "provision" => x \in With({row})
                       /\ x.op.kind = "domainLeave" => x \in With(With({row}))
    BY <1>4
  <2>1. x \in rs
    BY <1>1
  <2>2. PICK s \in S \cap rs : s.op \in Needs(t, x.op)
    BY <1>1
  <2>3. x.op.kind # "createVm"
    BY <2>2 DEF Needs
  <2>4. CASE x.op.kind = "provision"
    <3>1. s.op = Create(x.op.target)
      BY <2>2, <2>4 DEF Needs
    <3>2. s = row
      BY <1>4, <3>1, OpFields DEF Create
    <3>. QED BY <1>1, <2>1, <2>2, <2>4, <3>2
  <2>5. CASE x.op.kind = "domainLeave"
    <3>1. s.op = Provision(x.op.target)
      BY <2>2, <2>5 DEF Needs, Ready
    <3>2. s.op.kind = "provision"
      BY <3>1, OpFields DEF Provision
    <3>3. s \in With({row})
      BY <1>4, <3>2
    <3>4. x \in With(With({row}))
      BY <1>1, <2>1, <2>2, <3>3
    <3>. QED BY <2>1, <2>5, <3>4
  <2>. QED BY <2>1, <2>3, <2>4, <2>5
<1>5. p \in With(With({row}))
  <2>1. Early(With(With(With(With(With({row}))))))
    BY <1>3, <1>4
  <2>2. p \in With(With(With(With(With({row})))))
    BY <1>1, <1>2
  <2>. QED BY <2>1, <2>2
<1>6. p.op \in Needs(t, q.op)
  <2>1. p.op = Leave(q.op.target)
    BY DEF IsRow, IsOp, Leave, Relating
  <2>. QED BY <2>1 DEF Needs, JoinNeeds
<1>7. q \in With(With(With({row})))
  BY <1>1, <1>5, <1>6
<1>8. q \in With(With(With(With(With({row})))))
  BY <1>1, <1>7
<1>. QED BY <1>2, <1>8

\* The rows that were sent, as they will end: a join that is done was preceded by the
\* departure that is listed beside it.
PlanFits(rs, ps) ==
    /\ \A r \in rs : r.status = "pending"
    /\ ps # {} => \A r \in rs : \E p \in ps : p.id = r.id /\ p.op = r.op
    /\ \A p, q \in ps :
          (/\ p.op.kind = "domainLeave" /\ q.op.kind = "domainJoin"
           /\ p.op.target = q.op.target /\ q.status = "done") => p.status = "done"

LEMMA OutcomeFits ==
    ASSUME NEW rs, OneRowEach(rs), \A r \in rs : r.status = "pending", NEW ps \in Outcomes(rs)
    PROVE  PlanFits(rs, ps)
<1>. DEFINE all == rs \cup Mirrors(rs)
            t == DeployTopology(canvas)
<1>1. \A r \in all : IsRow(r) /\ r.status = "pending"
  <2>1. OneRowEach(all)
    BY MirroredRows
  <2>2. \A m \in Mirrors(rs) : m.status = "pending"
    BY MirrorRows
  <2>. QED BY <2>1, <2>2 DEF OneRowEach
<1>2. \/ ps = {[r EXCEPT !.status = "done"] : r \in all}
      \/ \E row \in all :
            ps = {[r EXCEPT !.status =
                      IF r = row THEN "error"
                      ELSE IF r \in Cascaded(t, all, row) THEN "cancelled" ELSE "done"] : r \in all}
  BY DEF Outcomes
<1>. HIDE DEF all, t
<1>3. CASE ps = {[r EXCEPT !.status = "done"] : r \in all}
  <2>1. ASSUME NEW p \in ps PROVE p.status = "done"
    <3>1. PICK r \in all : p = [r EXCEPT !.status = "done"]
      BY <1>3
    <3>2. IsRow(r)
      BY <1>1
    <3>. QED BY <3>1, <3>2, RewrittenRow
  <2>2. ASSUME NEW r \in all PROVE \E p \in ps : p.id = r.id /\ p.op = r.op
    <3>1. PICK p \in ps : p = [r EXCEPT !.status = "done"]
      BY <1>3
    <3>2. IsRow(r)
      BY <1>1
    <3>3. p.id = r.id /\ p.op = r.op
      BY <3>1, <3>2, RewrittenRow
    <3>. QED BY <3>3
  <2>. QED BY <2>1, <2>2 DEF PlanFits, all
<1>4. ASSUME NEW row \in all,
             ps = {[r EXCEPT !.status =
                      IF r = row THEN "error"
                      ELSE IF r \in Cascaded(t, all, row) THEN "cancelled" ELSE "done"] : r \in all}
      PROVE  PlanFits(rs, ps)
  <2>. DEFINE end(r) == IF r = row THEN "error"
                        ELSE IF r \in Cascaded(t, all, row) THEN "cancelled" ELSE "done"
  <2>1. ps = {[r EXCEPT !.status = end(r)] : r \in all}
    BY <1>4
  <2>2. \A r \in all : end(r) = "done" <=> r \notin {row} \cup Cascaded(t, all, row)
    OBVIOUS
  <2>. HIDE DEF end
  <2>3. \A p \in ps : \E r \in all : p.op = r.op /\ p.status = end(r)
    BY <1>1, <2>1, RewrittenRow
  <2>4. ASSUME NEW r \in all PROVE \E p \in ps : p.id = r.id /\ p.op = r.op
    <3>1. PICK p \in ps : p = [r EXCEPT !.status = end(r)]
      BY <2>1
    <3>. QED BY <1>1, <3>1, RewrittenRow
  <2>5. ASSUME NEW p \in ps, NEW q \in ps, p.op.kind = "domainLeave", q.op.kind = "domainJoin",
               p.op.target = q.op.target, q.status = "done"
        PROVE  p.status = "done"
    <3>1. PICK r \in all : p.op = r.op /\ p.status = end(r)
      BY <2>3
    <3>2. PICK s \in all : q.op = s.op /\ q.status = end(s)
      BY <2>3
    <3>3. s \notin {row} \cup Cascaded(t, all, row)
      BY <2>2, <2>5, <3>2
    <3>4. r \notin {row} \cup Cascaded(t, all, row)
      BY <1>1, <2>5, <3>1, <3>2, <3>3, JoinsWaitForLeaves
    <3>. QED BY <2>2, <3>1, <3>4
  <2>. QED BY <2>4, <2>5 DEF PlanFits, all
<1>. QED BY <1>2, <1>3, <1>4

\* prepareDeployPlan: what is sent is what is listed and not done.
LEMMA PreparedRows ==
    ASSUME NEW rs, OneRowEach(rs), NEW qs, qs = Prepared(rs, "pending")
    PROVE  /\ OneRowEach(qs) /\ \A q \in qs : q.status = "pending"
           /\ \A q \in qs : \E r \in rs : q.op = r.op
           /\ \A r \in rs : ~Synthesized(r) /\ r.status # "done" => HasRow(qs, r.op)
<1>. DEFINE kept == {r \in Resettable(rs) :
                       Synthesized(r) => \E s \in Sent(Resettable(rs)) : s.id = r.id}
            f == [r \in rs |-> Row(r.id, r.op, "pending", r.deps \cap {s.id : s \in kept}, r.prev)]
<1>1. kept \subseteq rs /\ \A r \in rs : ~Synthesized(r) /\ r.status # "done" => r \in kept
  BY DEF Resettable
<1>2. qs = {f[r] : r \in kept}
  BY <1>1 DEF Prepared
<1>3. ASSUME NEW r \in rs
      PROVE  /\ IsRow(f[r]) /\ f[r].id = r.id /\ f[r].op = r.op /\ f[r].prev = r.prev
             /\ f[r].status = "pending"
  <2>. DEFINE q == f[r]
  <2>1. q = Row(r.id, r.op, "pending", r.deps \cap {s.id : s \in kept}, r.prev)
    OBVIOUS
  <2>. HIDE DEF q, kept
  <2>2. /\ q = Row(q.id, q.op, q.status, q.deps, q.prev)
        /\ q.id = r.id /\ q.op = r.op /\ q.status = "pending" /\ q.prev = r.prev
    BY <2>1, RowFields
  <2>3. IsRow(r)
    BY DEF OneRowEach
  <2>4. IsRow(q)
    BY <2>2, <2>3 DEF IsRow
  <2>. QED BY <2>2, <2>4 DEF q
<1>. HIDE DEF f, kept
<1>4. \A q \in qs : \E r \in rs : q = f[r]
  BY <1>1, <1>2
<1>5. \A q \in qs : q.status = "pending"
  BY <1>3, <1>4
<1>6. OneRowEach(qs)
  BY <1>3, <1>4, <1>5, RewrittenRows
<1>7. \A q \in qs : \E r \in rs : q.op = r.op
  BY <1>3, <1>4
<1>8. \A r \in rs : ~Synthesized(r) /\ r.status # "done" => HasRow(qs, r.op)
  BY <1>1, <1>2, <1>3 DEF HasRow
<1>. QED BY <1>5, <1>6, <1>7, <1>8

\* confirmDeploy, deploy.
LEMMA ReviewTells ==
    ASSUME Shaped(canvas), Tells(Nodes, canvas.config, canvas.edges, rows), OneRowEach(rows),
           ConfirmReview, ~deploying, rows # {}
    PROVE  /\ Tells(Nodes', canvas'.config, canvas'.edges, rows') /\ OneRowEach(rows')
           /\ PlanFits(rows', plan')
<1>. DEFINE sent == Prepared(rows, "pending")
            ds == EdgesShown(sent)
<1>1. /\ canvas' = [canvas EXCEPT !.edges = ds] /\ rows' = sent
      /\ plan' = {} \/ plan' \in Outcomes(sent)
  BY DEF ConfirmReview
<1>2. Nodes' = Nodes /\ canvas'.config = canvas.config /\ canvas'.edges = ds
  BY <1>1 DEF Shaped, Nodes
<1>3. /\ OneRowEach(sent) /\ \A q \in sent : q.status = "pending"
      /\ \A q \in sent : \E r \in rows : q.op = r.op
      /\ \A r \in rows : ~Synthesized(r) /\ r.status # "done" => HasRow(sent, r.op)
  BY PreparedRows
<1>. HIDE DEF sent
<1>4. Coloured(sent, ds)
  BY ShownEdges DEF Tells, Coloured
<1>5. PlanFits(sent, plan')
  <2>1. CASE plan' = {}
    BY <1>3, <2>1 DEF PlanFits
  <2>2. CASE plan' \in Outcomes(sent)
    BY <1>3, <2>2, OutcomeFits
  <2>. QED BY <1>1, <2>1, <2>2
<1>. HIDE DEF ds
<1>6. \A s \in sent : IsRow(s)
  BY <1>3 DEF OneRowEach
<1>7. ComeFrom(rows, sent) /\ LeavesLast(sent, sent)
  BY <1>3 DEF ComeFrom, LeavesLast
<1>8. StayListed(rows, sent, sent)
  BY <1>3 DEF StayListed, Synthesized, Relating
<1>9. Tells(Nodes, canvas.config, ds, sent)
  BY <1>4, <1>6, <1>7, <1>8, ShownTells
<1>. QED BY <1>1, <1>2, <1>3, <1>5, <1>9 DEF sent

\* Rows of the same operations, none of them done by now.
LEMMA SameRowsTell ==
    ASSUME NEW ns, NEW cf, NEW es, NEW rs, Tells(ns, cf, es, rs),
           NEW qs, \A q \in qs : \E r \in rs : q.op = r.op,
           \A r \in rs : HasRow(qs, r.op)
    PROVE  Tells(ns, cf, es, qs)
<1>1. RowsAreOfCards(ns, qs)
  BY DEF Tells, RowsAreOfCards
<1>2. RowsAreDrawn(es, qs)
  BY DEF Tells, RowsAreDrawn
<1>3. GhostsAreListed(cf, es, qs)
  <2>. SUFFICES ASSUME NEW e \in es, Carries(cf, es, e) PROVE HasRow(qs, OpOfEdge(e))
    BY DEF GhostsAreListed
  <2>1. PICK r \in rs : r.op = OpOfEdge(e)
    BY DEF Tells, GhostsAreListed, HasRow
  <2>. QED BY <2>1
<1>4. LeaversAreOut(es, qs)
  BY DEF Tells, LeaversAreOut
<1>. QED BY <1>1, <1>2, <1>3, <1>4 DEF Tells

\* applyPlanState: the row that a row becomes, and what finishDeploy makes of it.
EndOf(r) ==
    LET of == {p \in plan : p.id = r.id /\ p.op = r.op} IN
    IF of = {} THEN r ELSE [r EXCEPT !.status = (CHOOSE p \in of : TRUE).status]
Kept(q) == IF q.status = "cancelled" THEN [q EXCEPT !.status = "staged"] ELSE q

LEMMA EndedRow ==
    ASSUME NEW r, IsRow(r)
    PROVE  LET q == EndOf(r) IN
           /\ IsRow(q) /\ q.id = r.id /\ q.op = r.op /\ q.deps = r.deps /\ q.prev = r.prev
           /\ (\E p \in plan : p.id = r.id /\ p.op = r.op) =>
                 \E p \in plan : p.id = r.id /\ p.op = r.op /\ q.status = p.status
<1>. DEFINE of == {p \in plan : p.id = r.id /\ p.op = r.op}
            q == EndOf(r)
<1>1. CASE of = {}
  <2>1. q = r
    BY <1>1 DEF EndOf
  <2>. QED BY <1>1, <2>1
<1>2. CASE of # {}
  <2>1. PICK p \in of : q = [r EXCEPT !.status = p.status]
    BY <1>2 DEF EndOf
  <2>. HIDE DEF q
  <2>2. /\ IsRow(q) /\ q.id = r.id /\ q.op = r.op /\ q.deps = r.deps /\ q.prev = r.prev
        /\ q.status = p.status
    BY <2>1, RewrittenRow
  <2>. QED BY <2>1, <2>2 DEF q
<1>. QED BY <1>1, <1>2

LEMMA KeptRow ==
    ASSUME NEW r, IsRow(r)
    PROVE  LET q == Kept(r) IN
           /\ IsRow(q) /\ q.id = r.id /\ q.op = r.op /\ q.deps = r.deps /\ q.prev = r.prev
           /\ q.status = "done" <=> r.status = "done"
<1>. DEFINE q == Kept(r)
<1>1. CASE r.status = "cancelled"
  <2>1. q = [r EXCEPT !.status = "staged"]
    BY <1>1 DEF Kept
  <2>. HIDE DEF q
  <2>2. /\ IsRow(q) /\ q.id = r.id /\ q.op = r.op /\ q.deps = r.deps /\ q.prev = r.prev
        /\ q.status = "staged"
    BY <2>1, RewrittenRow
  <2>. QED BY <1>1, <2>2 DEF q
<1>2. CASE r.status # "cancelled"
  BY <1>2 DEF Kept
<1>. QED BY <1>1, <1>2

\* The rows that a plan leaves in the list: the ones that are not done, and clones.
LEMMA FinishedRows ==
    ASSUME NEW rs, OneRowEach(rs), \A r \in rs : r.status = "pending",
           NEW qs, qs = Finished({EndOf(r) : r \in rs})
    PROVE  /\ OneRowEach(qs)
           /\ \A q \in qs : \E r \in rs :
                 /\ q.op = r.op
                 /\ r.op.kind \in Relating \cup {"domainLeave"} => EndOf(r).status # "done"
           /\ \A r \in rs : EndOf(r).status # "done" => HasRow(qs, r.op)
<1>. DEFINE ended == {EndOf(r) : r \in rs}
            failed == {s.id : s \in {e \in ended : Synthesized(e) /\ e.status = "error"}}
            f == [r \in rs |-> Kept(EndOf(r))]
<1>1. ASSUME NEW r \in rs
      PROVE  LET s == EndOf(r) IN IsRow(s) /\ s.id = r.id /\ s.op = r.op /\ s.prev = r.prev
  BY EndedRow DEF OneRowEach
<1>2. ASSUME NEW r \in rs
      PROVE  /\ IsRow(f[r]) /\ f[r].id = r.id /\ f[r].op = r.op /\ f[r].prev = r.prev
             /\ f[r].status = "done" <=> EndOf(r).status = "done"
  <2>1. f[r] = Kept(EndOf(r))
    OBVIOUS
  <2>. HIDE DEF f
  <2>. QED BY <1>1, <2>1, KeptRow
<1>3. qs = {Kept(s) : s \in {e \in ended : e.status # "done" \/ e.id \in failed}}
  BY DEF Finished, Kept
<1>4. ASSUME NEW q \in qs
      PROVE  \E r \in rs : /\ q = f[r]
                           /\ EndOf(r).status # "done" \/ EndOf(r).id \in failed
  BY <1>3
<1>5. ASSUME NEW r \in rs, EndOf(r).id \in failed, r.op.kind \in Relating \cup {"domainLeave"}
      PROVE  FALSE
  <2>1. PICK s \in ended : s.id = EndOf(r).id /\ Synthesized(s)
    BY <1>5
  <2>2. PICK p \in rs : s = EndOf(p)
    OBVIOUS
  <2>3. p.id = r.id /\ Synthesized(p) /\ ~Synthesized(r)
    BY <1>1, <1>5, <2>1, <2>2 DEF Synthesized, Relating
  <2>. QED BY <1>5, <2>3 DEF OneRowEach, Relating
<1>6. \A r \in rs : EndOf(r).status # "done" => f[r] \in qs
  BY <1>3
<1>. HIDE DEF f, failed, ended
<1>7. \A q \in qs : \E r \in rs :
          /\ q = f[r] /\ q.op = r.op
          /\ r.op.kind \in Relating \cup {"domainLeave"} => EndOf(r).status # "done"
  BY <1>2, <1>4, <1>5
<1>8. \A q \in qs : q.status = "done" => q.op.kind \notin Relating \cup {"domainLeave"}
  BY <1>2, <1>7
<1>9. OneRowEach(qs)
  BY <1>2, <1>7, <1>8, RewrittenRows
<1>10. \A r \in rs : EndOf(r).status # "done" => HasRow(qs, r.op)
  BY <1>2, <1>6 DEF HasRow
<1>. QED BY <1>7, <1>9, <1>10

\* applyPlanState and finishDeploy.
LEMMA DeployEndsTells ==
    ASSUME Shaped(canvas), Tells(Nodes, canvas.config, canvas.edges, rows), OneRowEach(rows),
           PlanFits(rows, plan), DeployEnds
    PROVE  Tells(Nodes', canvas'.config, canvas'.edges, rows') /\ OneRowEach(rows')
<1>1. CASE plan = {}
  <2>. DEFINE f == [r \in rows |-> [r EXCEPT !.status = "staged"]]
  <2>1. rows' = {[r EXCEPT !.status = "staged"] : r \in rows} /\ canvas' = canvas
    BY <1>1 DEF DeployEnds
  <2>2. \A r \in rows : f[r] \in rows' /\ f[r] = [r EXCEPT !.status = "staged"]
    BY <2>1
  <2>3. \A q \in rows' : \E r \in rows : q = f[r]
    BY <2>1
  <2>. HIDE DEF f
  <2>4. \A r \in rows : /\ IsRow(f[r]) /\ f[r].id = r.id /\ f[r].op = r.op /\ f[r].prev = r.prev
                        /\ f[r].status = "staged"
    <3>. TAKE r \in rows
    <3>1. IsRow(r)
      BY DEF OneRowEach
    <3>. DEFINE q == f[r]
    <3>2. q = [r EXCEPT !.status = "staged"]
      BY <2>2
    <3>. HIDE DEF q
    <3>3. IsRow(q) /\ q.id = r.id /\ q.op = r.op /\ q.prev = r.prev /\ q.status = "staged"
      BY <3>1, <3>2, RewrittenRow
    <3>. QED BY <3>3 DEF q
  <2>5. \A q \in rows' : q.status = "done" => q.op.kind \notin Relating \cup {"domainLeave"}
    BY <2>3, <2>4
  <2>6. OneRowEach(rows')
    BY <2>3, <2>4, <2>5, RewrittenRows
  <2>7. \A q \in rows' : \E r \in rows : q.op = r.op
    BY <2>3, <2>4
  <2>8. \A r \in rows : HasRow(rows', r.op)
    BY <2>2, <2>4 DEF HasRow
  <2>9. Tells(Nodes, canvas.config, canvas.edges, rows')
    BY <2>7, <2>8, SameRowsTell
  <2>10. Nodes' = Nodes /\ canvas'.config = canvas.config /\ canvas'.edges = canvas.edges
    BY <2>1 DEF Nodes
  <2>. QED BY <2>6, <2>9, <2>10
<1>2. CASE plan # {}
  <2>. DEFINE all == rows \cup Mirrors(rows)
              ended == {EndOf(r) : r \in all}
              ds == EdgesShown(ended)
              qs == Finished(ended)
  <2>1. Ended(all) = ended
    BY DEF Ended, EndOf
  <2>2. /\ rows' = qs
        /\ canvas' = [canvas EXCEPT
              !.edges = ds,
              !.life = [n \in DOMAIN @ |-> IF n \in Nodes THEN LifeShown(ended, n, @[n]) ELSE @[n]]]
    BY <1>2, <2>1 DEF DeployEnds
  <2>3. Nodes' = Nodes /\ canvas'.config = canvas.config /\ canvas'.edges = ds
    BY <2>2 DEF Shaped, Nodes
  <2>4. /\ OneRowEach(all)
        /\ \A m \in Mirrors(rows) :
              /\ m.status = "pending" /\ m.op.kind = "provision" /\ m.op.secondary = NoNode
              /\ \E r \in rows : m.op.target = r.op.target
    BY MirroredRows, MirrorRows
  <2>5. \A r \in all : r.status = "pending"
    BY <2>4 DEF PlanFits
  <2>6. \A r \in rows : r \in all
    OBVIOUS
  <2>7. \A r \in all : r \in rows \/ r \in Mirrors(rows)
    OBVIOUS
  <2>. HIDE DEF all
  <2>8. /\ OneRowEach(qs)
        /\ \A q \in qs : \E r \in all :
              /\ q.op = r.op
              /\ r.op.kind \in Relating \cup {"domainLeave"} => EndOf(r).status # "done"
        /\ \A r \in all : EndOf(r).status # "done" => HasRow(qs, r.op)
    BY <2>4, <2>5, FinishedRows
  <2>9. \A r \in all : LET s == EndOf(r) IN IsRow(s) /\ s.op = r.op
    BY <2>4, EndedRow DEF OneRowEach
  <2>10. \A r \in rows : \E p \in plan : p.op = r.op /\ EndOf(r).status = p.status
    <3>. SUFFICES ASSUME NEW r \in rows PROVE \E p \in plan : p.op = r.op /\ EndOf(r).status = p.status
      OBVIOUS
    <3>1. \E p \in plan : p.id = r.id /\ p.op = r.op
      BY <1>2 DEF PlanFits
    <3>2. IsRow(r)
      BY DEF OneRowEach
    <3>. QED BY <3>1, <3>2, EndedRow
  <2>11. Coloured(ended, ds)
    BY ShownEdges DEF Tells, Coloured
  <2>12. /\ \A s \in ended : IsRow(s) /\ \E r \in all : s = EndOf(r) /\ s.op = r.op
         /\ \A r \in all : EndOf(r) \in ended
    BY <2>9
  <2>. HIDE DEF ds, qs, ended
  <2>13. ComeFrom(rows, qs)
    <3>. SUFFICES ASSUME NEW q \in qs
                  PROVE  \E r \in rows : \/ q.op = r.op
                                         \/ /\ q.op.kind = "provision" /\ q.op.secondary = NoNode
                                            /\ q.op.target = r.op.target
      BY DEF ComeFrom
    <3>1. PICK r \in all : q.op = r.op
      BY <2>8
    <3>. QED BY <2>4, <2>7, <3>1
  <2>14. StayListed(rows, ended, qs)
    BY <2>6, <2>8, <2>9, <2>12 DEF StayListed
  <2>15. LeavesLast(qs, ended)
    <3>. SUFFICES ASSUME NEW q \in qs, NEW s \in ended, q.op.kind = "domainLeave",
                         s.op.kind = "domainJoin", s.op.target = q.op.target, s.status = "done"
                  PROVE  FALSE
      BY DEF LeavesLast
    <3>1. PICK r \in all : q.op = r.op /\ EndOf(r).status # "done"
      BY <2>8
    <3>2. PICK j \in all : s = EndOf(j) /\ s.op = j.op
      BY <2>12
    <3>3. r \in rows /\ j \in rows
      BY <2>4, <2>7, <3>1, <3>2
    <3>4. PICK p \in plan : p.op = r.op /\ EndOf(r).status = p.status
      BY <2>10, <3>3
    <3>5. PICK o \in plan : o.op = j.op /\ EndOf(j).status = o.status
      BY <2>10, <3>3
    <3>. QED BY <3>1, <3>2, <3>4, <3>5 DEF PlanFits
  <2>16. Tells(Nodes, canvas.config, ds, qs)
    <3>1. \A s \in ended : IsRow(s)
      BY <2>12
    <3>. QED BY <2>11, <2>13, <2>14, <2>15, <3>1, ShownTells
  <2>17. OneRowEach(qs) /\ rows' = qs
    BY <2>2, <2>8
  <2>. QED BY <2>3, <2>16, <2>17
<1>. QED BY <1>1, <1>2

-----------------------------------------------------------------------------
\* What a drop asks is of cards, each asked once.

CardsFit(c, new) ==
    /\ IsFiniteSet(c.nodes) /\ c.at \in [DOMAIN c.at -> Int]
    /\ c.nodes \cup new \subseteq DOMAIN c.at \cap DOMAIN c.config

\* A set of natural numbers has a minimum.
LEMMA MinOf ==
    ASSUME NEW S \in SUBSET Nat, S # {}
    PROVE  Min(S) \in S /\ \A x \in S : Min(S) <= x
<1>. DEFINE R == OpToRel(<, Nat)
<1>0. S \subseteq Nat
  OBVIOUS
<1>1. PICK y \in S : \A z \in S : <<z, y>> \notin R
  BY <1>0, NatLessThanWellFounded, WFMin
<1>2. ASSUME NEW z \in S PROVE y <= z
  <2>1. z \in Nat /\ y \in Nat
    OBVIOUS
  <2>2. ~(z < y)
    BY <1>1, <2>1 DEF OpToRel
  <2>. QED BY <2>1, <2>2
<1>. HIDE DEF R
<1>3. \E m \in S : \A x \in S : m =< x
  BY <1>2
<1>. QED BY <1>3 DEF Min

LEMMA FreePlace ==
    ASSUME NEW x \in Int, NEW places
    PROVE  NearestFree(x, places) \in Int
<1>. DEFINE fits == {k \in 0..SearchSteps : Clear(x + k, places) \/ Clear(x - k, places)}
<1>1. CASE fits = {}
  BY <1>1 DEF NearestFree
<1>2. CASE fits # {}
  <2>1. fits \in SUBSET Nat
    OBVIOUS
  <2>2. Min(fits) \in fits
    BY <1>2, <2>1, MinOf
  <2>3. NearestFree(x, places) \in {x + Min(fits), x - Min(fits)}
    BY <1>2 DEF NearestFree
  <2>4. Min(fits) \in Int
    BY <2>2
  <2>. HIDE DEF fits
  <2>. QED BY <2>3, <2>4
<1>. QED BY <1>1, <1>2

\* findDomain finds a card, if it finds one.
LEMMA FoundIsCard ==
    ASSUME NEW c, CardsFit(c, {}), NEW n \in c.nodes
    PROVE  FindDomain(c, n) \in c.nodes \cup {NoNode}
<1>. DEFINE dcs == {dc \in Circles(c, n) : IsWithin(c, n, dc)}
            S == {Apart(c, n, dc) : dc \in dcs}
<1>1. dcs \subseteq c.nodes
  BY DEF Circles
<1>2. \A m \in c.nodes : c.at[m] \in Int
  BY DEF CardsFit
<1>3. \A m \in c.nodes : Apart(c, n, m) \in Nat
  BY <1>2 DEF Apart, Dist
<1>. HIDE DEF dcs
<1>4. CASE dcs = {}
  BY <1>4 DEF FindDomain, Nearest, dcs
<1>5. CASE dcs # {}
  <2>1. S \in SUBSET Nat /\ S # {}
    BY <1>1, <1>3, <1>5
  <2>2. Min(S) \in S /\ \A x \in S : Min(S) <= x
    BY <2>1, MinOf
  <2>3. PICK dc \in dcs : Apart(c, n, dc) = Min(S)
    BY <2>2
  <2>4. \A o \in dcs : Apart(c, n, dc) <= Apart(c, n, o)
    BY <2>2, <2>3
  <2>5. Nearest(c, n, dcs) \in dcs
    BY <1>5, <2>4 DEF Nearest
  <2>. QED BY <1>1, <2>5 DEF FindDomain, dcs
<1>. QED BY <1>4, <1>5

\* computeDomainChanges.
LEMMA DomainChangesFit ==
    ASSUME NEW c, CardsFit(c, {}), NEW n \in c.nodes
    PROVE  ChangesFit(c.nodes, DomainChanges(c, n))
<1>. DEFINE T == {o \in IF c.type[n] = DC THEN c.nodes \ {n} ELSE {n} :
                    MayJoinDomains(c, o) /\ FindDomain(c, o) # DomainOf(c, o)}
            f == [m \in T |-> Change(m, FindDomain(c, m))]
            changes == DomainChanges(c, n)
<1>1. changes = {Change(m, FindDomain(c, m)) : m \in T}
  BY DEF DomainChanges
<1>2. T \subseteq c.nodes
  OBVIOUS
<1>. HIDE DEF T, changes
<1>3. \A m \in T : /\ f[m] \in changes /\ f[m].node = m
                   /\ f[m].dc \in c.nodes \cup {NoNode}
  BY <1>1, <1>2, FoundIsCard DEF Change
<1>4. \A ch \in changes : \E m \in T : ch = f[m]
  BY <1>1
<1>5. f \in Surjection(T, changes)
  <2>1. f \in [T -> changes]
    BY <1>3
  <2>. HIDE DEF f
  <2>. QED BY <1>4, <2>1 DEF Surjection
<1>. HIDE DEF f
<1>6. IsFiniteSet(T)
  BY <1>2, FS_Subset DEF CardsFit
<1>7. IsFiniteSet(changes)
  BY <1>5, <1>6, FS_Surjection
<1>8. \A ch \in changes : ch.node \in c.nodes /\ ch.dc \in c.nodes \cup {NoNode}
  BY <1>2, <1>3, <1>4
<1>9. \A ch, other \in changes : ch.node = other.node => ch = other
  BY <1>3, <1>4
<1>. QED BY <1>7, <1>8, <1>9 DEF ChangesFit, changes

-----------------------------------------------------------------------------
\* The invariant, and the steps.

DialogFits(ns, ds) ==
    \/ ds = <<>>
    \/ \E d : /\ ds = <<d>>
              /\ d.kind = "domain" => /\ ChangesFit(ns, d.changes)
                                      /\ \A m \in DOMAIN d.back : d.back[m] \in Int
ListTells == Tells(Nodes, canvas.config, canvas.edges, rows) /\ OneRowEach(rows)
Fitting ==
    /\ DrawnInv /\ ListTells
    /\ CardsFit(canvas, fresh) /\ DialogFits(Nodes, dialogs)
    /\ deploying => PlanFits(rows, plan)
ListInv == DrawnInv /\ (~strayed => Fitting)

LEMMA AloneFits ==
    ASSUME NEW d, d.kind # "domain", NEW ns, dialogs' = <<d>>
    PROVE  DialogFits(ns, dialogs')
BY DEF DialogFits

LEMMA DialogFields ==
    ASSUME NEW kind, NEW n, NEW changes, NEW row, NEW back
    PROVE  LET d == Dialog(kind, n, changes, row, back) IN
           d.kind = kind /\ d.changes = changes /\ d.back = back
BY DEF Dialog

LEMMA ClosesOne ==
    ASSUME DialogFits(Nodes, dialogs), dialogs # <<>>, Closes
    PROVE  /\ dialogs' = <<>>
           /\ Upper.kind = "domain" => /\ ChangesFit(Nodes, Upper.changes)
                                       /\ \A m \in DOMAIN Upper.back : Upper.back[m] \in Int
<1>1. PICK d : /\ dialogs = <<d>>
               /\ d.kind = "domain" => /\ ChangesFit(Nodes, d.changes)
                                       /\ \A m \in DOMAIN d.back : d.back[m] \in Int
  BY DEF DialogFits
<1>2. Len(dialogs) = 1 /\ dialogs[1] = d
  BY <1>1
<1>3. Upper = d
  BY <1>2 DEF Upper
<1>4. SubSeq(dialogs, 1, 0) = <<>>
  BY <1>1
<1>5. dialogs' = <<>>
  BY <1>2, <1>4 DEF Closes
<1>. QED BY <1>1, <1>3, <1>5

\* The cards stay, or some are deleted, and they keep their places.
LEMMA CardsKept ==
    ASSUME CardsFit(canvas, fresh), canvas'.nodes \subseteq canvas.nodes,
           canvas'.at = canvas.at, DOMAIN canvas'.config = DOMAIN canvas.config, fresh' = fresh
    PROVE  CardsFit(canvas', fresh')
<1>1. IsFiniteSet(canvas'.nodes)
  BY FS_Subset DEF CardsFit
<1>. QED BY <1>1 DEF CardsFit

\* A step that leaves the cards, their settings, the edges and the list alone.
LEMMA ListKept ==
    ASSUME Fitting, canvas'.nodes = canvas.nodes, canvas'.config = canvas.config,
           canvas'.edges = canvas.edges, rows' = rows, plan' = plan, deploying' = deploying
    PROVE  ListTells' /\ (deploying' => PlanFits(rows', plan'))
<1>1. Nodes' = Nodes
  BY DEF Nodes
<1>2. ListTells'
  BY <1>1 DEF Fitting, ListTells
<1>. QED BY <1>2 DEF Fitting

LEMMA DialogsKept ==
    ASSUME Fitting, dialogs' = <<>> \/ (dialogs' = dialogs /\ Nodes' = Nodes)
    PROVE  DialogFits(Nodes', dialogs')
BY DEF Fitting, DialogFits

\* Gestures.
LEMMA DropFits ==
    ASSUME Fitting, DrawnInv', NEW n \in fresh, NEW x \in Places, Drop(n, x)
    PROVE  Fitting'
<1>1. canvas' = [canvas EXCEPT !.nodes = @ \cup {n}, !.at[n] = x, !.life[n] = "draft"]
  BY DEF Drop
<1>2. /\ canvas'.nodes = canvas.nodes \cup {n} /\ canvas'.at = [canvas.at EXCEPT ![n] = x]
      /\ canvas'.config = canvas.config /\ canvas'.edges = canvas.edges
  BY <1>1 DEF Fitting, DrawnInv, Shaped
<1>3. /\ fresh' = fresh \ {n} /\ rows' = rows /\ dialogs' = <<>> /\ ~deploying'
  BY DEF Drop, Mouse
<1>4. Nodes' = Nodes \cup {n} /\ Nodes \subseteq Nodes'
  BY <1>2 DEF Nodes
<1>5. ListTells'
  BY <1>2, <1>3, <1>4, MoreCardsTell DEF Fitting, ListTells
<1>6. CardsFit(canvas', fresh')
  <2>1. IsFiniteSet(canvas'.nodes)
    BY <1>2, FS_AddElement DEF Fitting, CardsFit
  <2>2. x \in Int
    BY PlacesAssumption
  <2>3. /\ canvas.at \in [DOMAIN canvas.at -> Int]
        /\ canvas.nodes \cup fresh \subseteq DOMAIN canvas.at \cap DOMAIN canvas.config
    BY DEF Fitting, CardsFit
  <2>4. canvas'.at \in [DOMAIN canvas'.at -> Int] /\ DOMAIN canvas'.at = DOMAIN canvas.at
    BY <1>2, <2>2, <2>3
  <2>5. canvas'.nodes \cup fresh' \subseteq DOMAIN canvas'.at \cap DOMAIN canvas'.config
    BY <1>2, <1>3, <2>3, <2>4
  <2>. QED BY <2>1, <2>4, <2>5 DEF CardsFit
<1>7. DialogFits(Nodes', dialogs')
  BY <1>3 DEF DialogFits
<1>. QED BY <1>3, <1>5, <1>6, <1>7 DEF Fitting

LEMMA FormFits ==
    ASSUME Fitting, DrawnInv', NEW n \in Nodes, NEW setting, ~strayed',
           EditForm(n, setting) \/ Configure(n, setting)
    PROVE  Fitting'
<1>1. \/ canvas' = [canvas EXCEPT !.config[n] = setting]
      \/ canvas' = [canvas EXCEPT !.config[n] = setting, !.life[n] = "staged"]
  BY DEF EditForm, Configure
<1>2. /\ canvas'.nodes = canvas.nodes /\ canvas'.at = canvas.at
      /\ canvas'.config = [canvas.config EXCEPT ![n] = setting]
  BY <1>1 DEF Fitting, DrawnInv, Shaped
<1>3. fresh' = fresh /\ dialogs' = <<>> /\ ~deploying'
  BY DEF EditForm, Configure, Mouse
<1>4. ListTells'
  BY ConfigureTells DEF Fitting, ListTells, DrawnInv, CardsFit, Nodes
<1>5. CardsFit(canvas', fresh')
  BY <1>2, <1>3, CardsKept DEF Fitting
<1>. QED BY <1>3, <1>4, <1>5, DialogsKept DEF Fitting

LEMMA ConnectFits ==
    ASSUME Fitting, DrawnInv', NEW s \in Nodes, NEW socket, NEW t \in Nodes, Connect(s, socket, t)
    PROVE  Fitting'
<1>1. \E es : canvas' = [canvas EXCEPT !.edges = es]
  BY DEF Connect
<1>2. canvas'.nodes = canvas.nodes /\ canvas'.at = canvas.at /\ canvas'.config = canvas.config
  BY <1>1 DEF Fitting, DrawnInv, Shaped
<1>3. fresh' = fresh /\ dialogs' = <<>> /\ ~deploying'
  BY DEF Connect, Mouse
<1>4. ListTells'
  BY ConnectTells DEF Fitting, ListTells, DrawnInv
<1>5. CardsFit(canvas', fresh')
  BY <1>2, <1>3, CardsKept DEF Fitting
<1>. QED BY <1>3, <1>4, <1>5, DialogsKept DEF Fitting

\* Cards are moved to other places.
LEMMA MovedFits ==
    ASSUME Fitting, NEW at, canvas' = [canvas EXCEPT !.at = at],
           DOMAIN at = DOMAIN canvas.at, \A m \in DOMAIN at : at[m] \in Int,
           at = [m \in DOMAIN at |-> at[m]],
           fresh' = fresh, rows' = rows, plan' = plan, deploying' = deploying
    PROVE  /\ Nodes' = Nodes /\ ListTells' /\ (deploying' => PlanFits(rows', plan'))
           /\ CardsFit(canvas', fresh')
<1>1. /\ canvas'.nodes = canvas.nodes /\ canvas'.at = at
      /\ canvas'.config = canvas.config /\ canvas'.edges = canvas.edges
  BY DEF Fitting, DrawnInv, Shaped
<1>2. CardsFit(canvas', fresh')
  <2>1. at \in [DOMAIN at -> Int]
    OBVIOUS
  <2>2. CardsFit(canvas, fresh)
    BY DEF Fitting
  <2>. QED BY <1>1, <2>1, <2>2 DEF CardsFit
<1>3. Nodes' = Nodes
  BY <1>1 DEF Nodes
<1>4. ListTells' /\ (deploying' => PlanFits(rows', plan'))
  BY <1>1, ListKept
<1>. QED BY <1>2, <1>3, <1>4

LEMMA DragFits ==
    ASSUME Fitting, DrawnInv', NEW n \in Nodes, NEW x \in Places, Drag(n, x)
    PROVE  Fitting'
<1>. DEFINE moved == MovedBy(n, x)
            changes == DomainChanges(moved, n)
            d == Dialog("domain", n, changes, NoNode, PlacesBack({n} \cup Carried(n)))
            free == NearestFree(x, PlacesOf(canvas, Nodes \ ({n} \cup Carried(n))))
            at == [m \in DOMAIN canvas.at |->
                      IF m \in {n} \cup Carried(n) THEN canvas.at[m] + free - canvas.at[n]
                      ELSE canvas.at[m]]
<1>1. /\ canvas' = moved /\ dialogs = <<>> /\ ~deploying /\ fresh' = fresh /\ rows' = rows
      /\ plan' = plan /\ deploying' = deploying
      /\ IF changes = {} THEN UNCHANGED dialogs ELSE Open(d)
  BY DEF Drag, Mouse
<1>2. moved = [canvas EXCEPT !.at = at]
  BY DEF MovedBy, CarriedTo, Fitting, DrawnInv, Shaped
<1>3. free \in Int
  <2>1. x \in Int
    BY PlacesAssumption
  <2>. QED BY <2>1, FreePlace
<1>4. \A m \in DOMAIN canvas.at : canvas.at[m] \in Int
  BY DEF Fitting, CardsFit
<1>5. n \in DOMAIN canvas.at
  BY DEF Fitting, CardsFit, Nodes
<1>. HIDE DEF free
<1>6. /\ DOMAIN at = DOMAIN canvas.at /\ \A m \in DOMAIN at : at[m] \in Int
      /\ at = [m \in DOMAIN at |-> at[m]]
  BY <1>3, <1>4, <1>5
<1>. HIDE DEF at, moved
<1>7. Nodes' = Nodes /\ ListTells' /\ CardsFit(canvas', fresh')
  BY <1>1, <1>2, <1>6, MovedFits
<1>8. DialogFits(Nodes', dialogs')
  <2>1. CASE changes = {}
    BY <1>1, <2>1 DEF DialogFits
  <2>2. CASE changes # {}
    <3>1. dialogs' = <<d>>
      BY <1>1, <2>2, OpensAlone
    <3>2. d.kind = "domain" /\ d.changes = changes /\ d.back = PlacesBack({n} \cup Carried(n))
      BY DialogFields
    <3>3. CardsFit(moved, {}) /\ moved.nodes = Nodes
      BY <1>1, <1>7 DEF CardsFit, Nodes
    <3>4. ChangesFit(Nodes, changes)
      BY <3>3, DomainChangesFit
    <3>5. \A m \in DOMAIN d.back : d.back[m] \in Int
      <4>1. \A m \in {n} \cup Carried(n) : m \in Nodes
        BY DEF Carried, Members, Nodes
      <4>2. \A m \in Nodes : canvas.at[m] \in Int
        BY <1>4 DEF Fitting, CardsFit, Nodes
      <4>. QED BY <3>2, <4>1, <4>2 DEF PlacesBack
    <3>. HIDE DEF d, changes
    <3>. QED BY <1>7, <3>1, <3>2, <3>4, <3>5 DEF DialogFits
  <2>. QED BY <2>1, <2>2
<1>. QED BY <1>1, <1>7, <1>8 DEF Fitting

LEMMA JoinActionFits ==
    ASSUME Fitting, DrawnInv', NEW n \in Nodes, NEW dc \in Nodes, JoinAction(n, dc)
    PROVE  Fitting'
<1>. DEFINE place == NearestFree(canvas.at[dc] + Beside, PlacesOf(canvas, Nodes \ {n}))
            at == [canvas.at EXCEPT ![n] = place]
            d == Dialog("domain", n, {Change(n, dc)}, NoNode, PlacesBack({n}))
<1>1. /\ canvas' = [canvas EXCEPT !.at[n] = place] /\ dialogs = <<>> /\ ~deploying
      /\ fresh' = fresh /\ rows' = rows /\ plan' = plan /\ deploying' = deploying
      /\ Open(d)
  BY DEF JoinAction, Mouse
<1>2. /\ canvas.at \in [DOMAIN canvas.at -> Int] /\ \A m \in Nodes : canvas.at[m] \in Int
  BY DEF Fitting, CardsFit, Nodes
<1>3. place \in Int
  <2>1. canvas.at[dc] + Beside \in Int
    BY <1>2, PlacesAssumption
  <2>. QED BY <2>1, FreePlace
<1>. HIDE DEF place
<1>4. canvas' = [canvas EXCEPT !.at = at]
  BY <1>1 DEF Fitting, DrawnInv, Shaped
<1>5. at \in [DOMAIN canvas.at -> Int]
  BY <1>2, <1>3
<1>. HIDE DEF at
<1>6. /\ DOMAIN at = DOMAIN canvas.at /\ \A m \in DOMAIN at : at[m] \in Int
      /\ at = [m \in DOMAIN at |-> at[m]]
  BY <1>5
<1>7. Nodes' = Nodes /\ ListTells' /\ CardsFit(canvas', fresh')
  BY <1>1, <1>4, <1>6, MovedFits
<1>8. DialogFits(Nodes', dialogs')
  <2>1. dialogs' = <<d>>
    BY <1>1, OpensAlone
  <2>2. d.kind = "domain" /\ d.changes = {Change(n, dc)} /\ d.back = PlacesBack({n})
    BY DialogFields
  <2>3. ChangesFit(Nodes, {Change(n, dc)})
    <3>1. IsFiniteSet({Change(n, dc)})
      BY FS_Singleton
    <3>2. Change(n, dc).node = n /\ Change(n, dc).dc = dc
      BY DEF Change
    <3>. QED BY <3>1, <3>2 DEF ChangesFit
  <2>4. \A m \in DOMAIN d.back : d.back[m] \in Int
    BY <1>2, <2>2 DEF PlacesBack
  <2>. HIDE DEF d
  <2>. QED BY <1>7, <2>1, <2>2, <2>3, <2>4 DEF DialogFits
<1>. QED BY <1>1, <1>7, <1>8 DEF Fitting

\* What keeps the cards and their places, and a part of the list.
LEMMA FewerRowsFit ==
    ASSUME NEW rs, NEW ps, PlanFits(rs, ps), NEW qs \in SUBSET rs
    PROVE  PlanFits(qs, ps)
BY DEF PlanFits

\* The answers to the dialogs.
LEMMA ConfirmDomainFits ==
    ASSUME Fitting, DrawnInv', ConfirmDomain, ~strayed'
    PROVE  Fitting'
<1>1. /\ dialogs # <<>> /\ Upper.kind = "domain" /\ Closes /\ fresh' = fresh
      /\ deploying' = deploying /\ plan' = plan
  BY DEF ConfirmDomain, Asks, Answered
<1>2. dialogs' = <<>> /\ ChangesFit(Nodes, Upper.changes)
  BY <1>1, ClosesOne DEF Fitting
<1>3. CASE deploying
  <2>1. canvas' = canvas /\ rows' = rows
    BY <1>3 DEF ConfirmDomain
  <2>2. CardsFit(canvas', fresh')
    BY <1>1, <2>1 DEF Fitting
  <2>3. ListTells' /\ (deploying' => PlanFits(rows', plan'))
    BY <1>1, <2>1, ListKept
  <2>. QED BY <1>2, <2>2, <2>3, DialogsKept DEF Fitting
<1>4. CASE ~deploying
  <2>1. AppliesChanges(Upper.changes)
    BY <1>4 DEF ConfirmDomain
  <2>2. canvas' = [canvas EXCEPT !.edges = ChangedEdges(Upper.changes)]
    BY <2>1 DEF AppliesChanges
  <2>3. canvas'.nodes = canvas.nodes /\ canvas'.at = canvas.at /\ canvas'.config = canvas.config
    BY <2>2 DEF Fitting, DrawnInv, Shaped
  <2>4. CardsFit(canvas', fresh')
    BY <1>1, <2>3, CardsKept DEF Fitting
  <2>5. ListTells'
    BY <1>2, <2>1, ChangesTell DEF Fitting, DrawnInv, ListTells
  <2>. QED BY <1>1, <1>2, <1>4, <2>4, <2>5, DialogsKept DEF Fitting
<1>. QED BY <1>3, <1>4

LEMMA CancelDomainFits ==
    ASSUME Fitting, DrawnInv', CancelDomain
    PROVE  Fitting'
<1>. DEFINE back == Upper.back
            at == [m \in DOMAIN canvas.at |-> IF m \in DOMAIN back THEN back[m] ELSE canvas.at[m]]
<1>1. /\ dialogs # <<>> /\ Upper.kind = "domain" /\ Closes /\ fresh' = fresh
      /\ deploying' = deploying /\ plan' = plan /\ rows' = rows
  BY DEF CancelDomain, Asks, Answered
<1>2. dialogs' = <<>> /\ \A m \in DOMAIN back : back[m] \in Int
  BY <1>1, ClosesOne DEF Fitting
<1>3. canvas' = [canvas EXCEPT !.at = at]
  BY DEF CancelDomain, SnapsBack, Fitting, DrawnInv, Shaped
<1>4. \A m \in DOMAIN canvas.at : canvas.at[m] \in Int
  BY DEF Fitting, CardsFit
<1>. HIDE DEF back
<1>5. /\ DOMAIN at = DOMAIN canvas.at /\ \A m \in DOMAIN at : at[m] \in Int
      /\ at = [m \in DOMAIN at |-> at[m]]
  BY <1>2, <1>4
<1>. HIDE DEF at
<1>6. /\ Nodes' = Nodes /\ ListTells' /\ (deploying' => PlanFits(rows', plan'))
      /\ CardsFit(canvas', fresh')
  BY <1>1, <1>3, <1>5, MovedFits
<1>. QED BY <1>2, <1>6, DialogsKept DEF Fitting

\* Rows are removed, and a card with its rows.
LEMMA RemovedFits ==
    ASSUME Fitting, NEW gone \in SUBSET rows, NEW past, Removes(gone, past), ~strayed',
           fresh' = fresh, deploying' = deploying, plan' = plan
    PROVE  /\ ListTells' /\ CardsFit(canvas', fresh') /\ Nodes' = Nodes
           /\ deploying' => PlanFits(rows', plan')
<1>1. canvas' = [canvas EXCEPT !.edges = EdgesWithout(gone, @), !.life = Unconfigured(gone, @)]
  BY DEF Removes
<1>2. canvas'.nodes = canvas.nodes /\ canvas'.at = canvas.at /\ canvas'.config = canvas.config
  BY <1>1 DEF Fitting, DrawnInv, Shaped
<1>3. CardsFit(canvas', fresh')
  BY <1>2, CardsKept DEF Fitting
<1>4. ListTells'
  BY RemovesTells DEF Fitting, DrawnInv, ListTells
<1>5. rows' \in SUBSET rows
  BY DEF Removes
<1>6. deploying' => PlanFits(rows', plan')
  BY <1>5, FewerRowsFit DEF Fitting
<1>7. Nodes' = Nodes
  BY <1>2 DEF Nodes
<1>. QED BY <1>3, <1>4, <1>6, <1>7

LEMMA DeletedFits ==
    ASSUME Fitting, NEW n, NEW past, RemoveNode(n, past), ~strayed', fresh' = fresh
    PROVE  ListTells' /\ CardsFit(canvas', fresh')
<1>1. canvas' = [canvas EXCEPT
                  !.nodes = @ \ {n},
                  !.edges = {e \in EdgesWithout(NodeCascade(n), @) : n \notin {e.source, e.target}},
                  !.life = Unconfigured(NodeCascade(n), @)]
  BY DEF RemoveNode
<1>2. /\ canvas'.nodes = canvas.nodes \ {n} /\ canvas'.at = canvas.at
      /\ canvas'.config = canvas.config
  BY <1>1 DEF Fitting, DrawnInv, Shaped
<1>3. canvas'.nodes \subseteq canvas.nodes
  BY <1>2
<1>4. CardsFit(canvas', fresh')
  BY <1>2, <1>3, CardsKept DEF Fitting
<1>5. ListTells'
  BY RemoveNodeTells DEF Fitting, DrawnInv, ListTells
<1>. QED BY <1>4, <1>5

\* A step that leaves the canvas and the list alone.
LEMMA StillFits ==
    ASSUME Fitting, DrawnInv', canvas' = canvas, fresh' = fresh, rows' = rows, plan' = plan,
           deploying' = deploying, DialogFits(Nodes, dialogs')
    PROVE  Fitting'
<1>1. CardsFit(canvas', fresh') /\ Nodes' = Nodes
  BY DEF Fitting, Nodes
<1>2. ListTells' /\ (deploying' => PlanFits(rows', plan'))
  BY ListKept
<1>. QED BY <1>1, <1>2 DEF Fitting

LEMMA ConfirmDeleteFits ==
    ASSUME Fitting, DrawnInv', ConfirmDelete, ~strayed'
    PROVE  Fitting'
<1>1. /\ dialogs # <<>> /\ Closes /\ fresh' = fresh /\ deploying' = deploying /\ plan' = plan
  BY DEF ConfirmDelete, Asks, Answered
<1>2. dialogs' = <<>>
  BY <1>1, ClosesOne DEF Fitting
<1>3. CASE deploying \/ Upper.node \notin Nodes
  <2>1. canvas' = canvas /\ rows' = rows
    BY <1>3 DEF ConfirmDelete
  <2>. QED BY <1>1, <1>2, <2>1, StillFits DEF DialogFits
<1>4. CASE ~(deploying \/ Upper.node \notin Nodes)
  <2>1. RemoveNode(Upper.node, FALSE)
    BY <1>4 DEF ConfirmDelete
  <2>2. ListTells' /\ CardsFit(canvas', fresh')
    BY <1>1, <2>1, DeletedFits
  <2>. QED BY <1>1, <1>2, <1>4, <2>2, DialogsKept DEF Fitting
<1>. QED BY <1>3, <1>4

LEMMA ConfirmCutFits ==
    ASSUME Fitting, DrawnInv', ConfirmCut, ~strayed'
    PROVE  Fitting'
<1>. DEFINE row == {r \in rows : r.id = Upper.row /\ ~Synthesized(r)}
<1>1. /\ dialogs # <<>> /\ Closes /\ fresh' = fresh /\ deploying' = deploying /\ plan' = plan
      /\ Removes(Cascade(row), FALSE)
  BY DEF ConfirmCut, Asks, Answered
<1>2. dialogs' = <<>>
  BY <1>1, ClosesOne DEF Fitting
<1>3. row \in SUBSET rows
  OBVIOUS
<1>. HIDE DEF row
<1>4. Cascade(row) \in SUBSET rows
  BY <1>3, CascadeIsListed
<1>5. ListTells' /\ CardsFit(canvas', fresh') /\ (deploying' => PlanFits(rows', plan'))
  BY <1>1, <1>4, RemovedFits
<1>. QED BY <1>2, <1>5, DialogsKept DEF Fitting

LEMMA DismissFits ==
    ASSUME Fitting, DrawnInv', Dismiss
    PROVE  Fitting'
<1>1. /\ dialogs # <<>> /\ Closes /\ fresh' = fresh /\ deploying' = deploying /\ plan' = plan
      /\ canvas' = canvas /\ rows' = rows
  BY DEF Dismiss, Answered
<1>2. dialogs' = <<>>
  BY <1>1, ClosesOne DEF Fitting
<1>. QED BY <1>1, <1>2, StillFits DEF DialogFits

\* Shortcuts and the list.
LEMMA UndoFits ==
    ASSUME Fitting, DrawnInv', Undo, ~strayed'
    PROVE  Fitting'
<1>. DEFINE gone == {r \in rows : r.id = Max({s.id : s \in Sent(rows)})}
<1>1. /\ Removes(gone, dialogs # <<>>) /\ dialogs' = dialogs
      /\ fresh' = fresh /\ deploying' = deploying /\ plan' = plan
  BY DEF Undo, Shortcut
<1>2. gone \in SUBSET rows
  OBVIOUS
<1>. HIDE DEF gone
<1>3. /\ ListTells' /\ CardsFit(canvas', fresh') /\ (deploying' => PlanFits(rows', plan'))
      /\ Nodes' = Nodes
  BY <1>1, <1>2, RemovedFits
<1>. QED BY <1>1, <1>3, DialogsKept DEF Fitting

LEMMA DeleteKeyFits ==
    ASSUME Fitting, DrawnInv', NEW n \in Nodes, DeleteKey(n), ~strayed'
    PROVE  Fitting'
<1>. DEFINE d == Dialog("delete", n, {}, NoNode, NoBack)
<1>1. /\ fresh' = fresh /\ ~deploying /\ deploying' = deploying /\ plan' = plan
      /\ \/ RemoveNode(n, dialogs # <<>>) /\ dialogs' = dialogs
         \/ Open(d) /\ Strays(dialogs # <<>>, {}) /\ canvas' = canvas /\ rows' = rows
  BY DEF DeleteKey, Shortcut
<1>2. dialogs = <<>>
  BY <1>1 DEF RemoveNode, Strays
<1>3. CASE RemoveNode(n, dialogs # <<>>) /\ dialogs' = dialogs
  <2>1. ListTells' /\ CardsFit(canvas', fresh')
    BY <1>1, <1>3, DeletedFits
  <2>. QED BY <1>1, <1>2, <1>3, <2>1, DialogsKept DEF Fitting
<1>4. CASE Open(d) /\ canvas' = canvas /\ rows' = rows
  <2>1. dialogs' = <<d>>
    BY <1>2, <1>4, OpensAlone
  <2>2. d.kind # "domain"
    BY DialogFields
  <2>. HIDE DEF d
  <2>3. DialogFits(Nodes, dialogs')
    BY <2>1, <2>2, AloneFits
  <2>. QED BY <1>1, <1>4, <2>3, StillFits
<1>. QED BY <1>1, <1>3, <1>4

LEMMA RequestRemoveFits ==
    ASSUME Fitting, DrawnInv', NEW row \in rows, RequestRemove(row), ~strayed'
    PROVE  Fitting'
<1>. DEFINE d == Dialog("cut", NoNode, {}, row.id, NoBack)
<1>1. /\ dialogs = <<>> /\ fresh' = fresh /\ deploying' = deploying /\ plan' = plan
      /\ \/ Removes({row}, FALSE) /\ dialogs' = dialogs
         \/ Open(d) /\ canvas' = canvas /\ rows' = rows
  BY DEF RequestRemove, Mouse
<1>2. CASE Removes({row}, FALSE) /\ dialogs' = dialogs
  <2>1. {row} \in SUBSET rows
    OBVIOUS
  <2>2. /\ ListTells' /\ CardsFit(canvas', fresh') /\ (deploying' => PlanFits(rows', plan'))
    BY <1>1, <1>2, <2>1, RemovedFits
  <2>. QED BY <1>1, <1>2, <2>2, DialogsKept DEF Fitting
<1>3. CASE Open(d) /\ canvas' = canvas /\ rows' = rows
  <2>1. dialogs' = <<d>>
    BY <1>1, <1>3, OpensAlone
  <2>2. d.kind # "domain"
    BY DialogFields
  <2>. HIDE DEF d
  <2>3. DialogFits(Nodes, dialogs')
    BY <2>1, <2>2, AloneFits
  <2>. QED BY <1>1, <1>3, <2>3, StillFits
<1>. QED BY <1>1, <1>2, <1>3

\* A review and a plan.
LEMMA CompileFits ==
    ASSUME Fitting, DrawnInv', Compile
    PROVE  Fitting'
<1>1. /\ dialogs' = dialogs /\ canvas' = canvas /\ fresh' = fresh /\ rows' = rows
      /\ plan' = plan /\ deploying' = deploying
  BY DEF Compile
<1>2. DialogFits(Nodes, dialogs')
  BY <1>1 DEF Fitting
<1>. QED BY <1>1, <1>2, StillFits

LEMMA CompiledFits ==
    ASSUME Fitting, DrawnInv', Compiled, ~strayed'
    PROVE  Fitting'
<1>. DEFINE d == Dialog("review", NoNode, {}, NoNode, NoBack)
<1>1. /\ canvas' = canvas /\ fresh' = fresh /\ rows' = rows
      /\ plan' = plan /\ deploying' = deploying
      /\ dialogs' = dialogs \/ (Open(d) /\ Strays(dialogs # <<>>, {}))
  BY DEF Compiled
<1>2. DialogFits(Nodes, dialogs')
  <2>1. CASE dialogs' = dialogs
    BY <2>1 DEF Fitting
  <2>2. CASE Open(d) /\ Strays(dialogs # <<>>, {})
    <3>1. dialogs = <<>>
      BY <2>2 DEF Strays
    <3>2. dialogs' = <<d>>
      BY <2>2, <3>1, OpensAlone
    <3>3. d.kind # "domain"
      BY DialogFields
    <3>. HIDE DEF d
    <3>. QED BY <3>2, <3>3, AloneFits
  <2>. QED BY <1>1, <2>1, <2>2
<1>. QED BY <1>1, <1>2, StillFits

LEMMA ConfirmReviewFits ==
    ASSUME Fitting, DrawnInv', ConfirmReview
    PROVE  Fitting'
<1>1. dialogs # <<>> /\ Closes /\ fresh' = fresh
  BY DEF ConfirmReview, Asks, Answered
<1>2. dialogs' = <<>>
  BY <1>1, ClosesOne DEF Fitting
<1>3. CASE deploying \/ rows = {}
  <2>1. canvas' = canvas /\ rows' = rows /\ plan' = plan /\ deploying' = deploying
    BY <1>3 DEF ConfirmReview
  <2>. QED BY <1>1, <1>2, <2>1, StillFits DEF DialogFits
<1>4. CASE ~deploying /\ rows # {}
  <2>1. \E es : canvas' = [canvas EXCEPT !.edges = es]
    BY <1>4 DEF ConfirmReview
  <2>2. canvas'.nodes = canvas.nodes /\ canvas'.at = canvas.at /\ canvas'.config = canvas.config
    BY <2>1 DEF Fitting, DrawnInv, Shaped
  <2>3. CardsFit(canvas', fresh')
    BY <1>1, <2>2, CardsKept DEF Fitting
  <2>4. ListTells' /\ PlanFits(rows', plan')
    BY <1>4, ReviewTells DEF Fitting, DrawnInv, ListTells
  <2>. QED BY <1>2, <2>3, <2>4, DialogsKept DEF Fitting
<1>. QED BY <1>3, <1>4

LEMMA DeployEndsFits ==
    ASSUME Fitting, DrawnInv', DeployEnds
    PROVE  Fitting'
<1>1. dialogs' = dialogs /\ fresh' = fresh /\ deploying /\ ~deploying'
  BY DEF DeployEnds
<1>2. canvas' = canvas \/ \E es, life : canvas' = [canvas EXCEPT !.edges = es, !.life = life]
  BY DEF DeployEnds
<1>3. canvas'.nodes = canvas.nodes /\ canvas'.at = canvas.at /\ canvas'.config = canvas.config
  BY <1>2 DEF Fitting, DrawnInv, Shaped
<1>4. CardsFit(canvas', fresh') /\ Nodes' = Nodes
  BY <1>1, <1>3, CardsKept DEF Fitting, Nodes
<1>5. ListTells'
  BY <1>1, DeployEndsTells DEF Fitting, DrawnInv, ListTells
<1>. QED BY <1>1, <1>4, <1>5, DialogsKept DEF Fitting

LEMMA PromoteFits ==
    ASSUME Fitting, DrawnInv', NEW n \in Nodes, Promote(n)
    PROVE  Fitting'
<1>1. /\ canvas' = [canvas EXCEPT !.life[n] = "deployed"]
      /\ dialogs' = dialogs /\ fresh' = fresh /\ rows' = rows
      /\ plan' = plan /\ deploying' = deploying
  BY DEF Promote
<1>2. /\ canvas'.nodes = canvas.nodes /\ canvas'.at = canvas.at
      /\ canvas'.config = canvas.config /\ canvas'.edges = canvas.edges
  BY <1>1 DEF Fitting, DrawnInv, Shaped
<1>3. CardsFit(canvas', fresh') /\ Nodes' = Nodes
  BY <1>1, <1>2, CardsKept DEF Fitting, Nodes
<1>4. ListTells' /\ (deploying' => PlanFits(rows', plan'))
  BY <1>1, <1>2, ListKept
<1>. QED BY <1>1, <1>3, <1>4, DialogsKept DEF Fitting

\* What went past a dialog stays known.
LEMMA StrayedStays == [Next]_vars /\ strayed => strayed'
<1>. SUFFICES ASSUME [Next]_vars, strayed PROVE strayed'
  OBVIOUS
<1>1. CASE UNCHANGED vars
  BY <1>1 DEF vars
<1>2. ASSUME NEW past, NEW gone, Strays(past, gone) PROVE strayed'
  BY <1>2 DEF Strays
<1>3. ASSUME strayed' = strayed PROVE strayed'
  BY <1>3
<1>4. ASSUME NEW gone, NEW past, Removes(gone, past) PROVE strayed'
  BY <1>2, <1>4 DEF Removes
<1>5. ASSUME NEW n, NEW past, RemoveNode(n, past) PROVE strayed'
  BY <1>2, <1>5 DEF RemoveNode
<1>6. ASSUME NEW n, NEW x, Drop(n, x) \/ Drag(n, x) PROVE strayed'
  BY <1>3, <1>6 DEF Drop, Drag
<1>7. ASSUME NEW n, NEW setting, EditForm(n, setting) \/ Configure(n, setting) PROVE strayed'
  BY <1>2, <1>7 DEF EditForm, Configure
<1>8. ASSUME NEW n, NEW socket, NEW m, Connect(n, socket, m) \/ JoinAction(n, m) PROVE strayed'
  BY <1>3, <1>8 DEF Connect, JoinAction
<1>9. ASSUME NEW n, DeleteKey(n) PROVE strayed'
  BY <1>2, <1>5, <1>9 DEF DeleteKey
<1>10. ASSUME NEW n, Promote(n) PROVE strayed'
  BY <1>3, <1>10 DEF Promote
<1>11. ASSUME NEW row, RequestRemove(row) PROVE strayed'
  BY <1>3, <1>4, <1>11 DEF RequestRemove
<1>12. CASE ConfirmDomain
  BY <1>2, <1>3, <1>12 DEF ConfirmDomain, AppliesChanges
<1>13. CASE ConfirmDelete
  BY <1>3, <1>5, <1>13 DEF ConfirmDelete
<1>14. CASE ConfirmCut \/ Undo
  BY <1>4, <1>14 DEF ConfirmCut, Undo
<1>15. CASE CancelDomain \/ Dismiss \/ Compile \/ ConfirmReview \/ DeployEnds
  BY <1>3, <1>15 DEF CancelDomain, Dismiss, Compile, ConfirmReview, DeployEnds
<1>16. CASE Compiled
  BY <1>2, <1>3, <1>16 DEF Compiled
<1>. QED BY <1>1, <1>6, <1>7, <1>8, <1>9, <1>10, <1>11, <1>12, <1>13, <1>14, <1>15, <1>16
         DEF Next

LEMMA StepFits == ListInv /\ [Next]_vars => ListInv'
<1>. SUFFICES ASSUME ListInv, [Next]_vars PROVE ListInv'
  OBVIOUS
<1>1. DrawnInv'
  BY StepDraws DEF ListInv
<1>2. SUFFICES ASSUME ~strayed' PROVE Fitting'
  BY <1>1 DEF ListInv
<1>3. Fitting
  BY <1>2, StrayedStays DEF ListInv
<1>4. CASE UNCHANGED vars
  <2>1. /\ canvas' = canvas /\ fresh' = fresh /\ rows' = rows /\ plan' = plan
        /\ deploying' = deploying /\ dialogs' = dialogs
    BY <1>4 DEF vars
  <2>2. DialogFits(Nodes, dialogs')
    BY <1>3, <2>1 DEF Fitting
  <2>. QED BY <1>1, <1>3, <2>1, <2>2, StillFits
<1>5. ASSUME NEW n \in fresh, NEW x \in Places, Drop(n, x) PROVE Fitting'
  BY <1>1, <1>3, <1>5, DropFits
<1>6. ASSUME NEW n \in Nodes, NEW setting \in Settings, EditForm(n, setting) \/ Configure(n, setting)
      PROVE  Fitting'
  BY <1>1, <1>2, <1>3, <1>6, FormFits
<1>7. ASSUME NEW n \in Nodes, NEW x \in Places, Drag(n, x) PROVE Fitting'
  BY <1>1, <1>3, <1>7, DragFits
<1>8. ASSUME NEW n \in Nodes, NEW m \in Nodes, NEW socket \in Sockets, Connect(n, socket, m)
      PROVE  Fitting'
  BY <1>1, <1>3, <1>8, ConnectFits
<1>9. ASSUME NEW n \in Nodes, NEW dc \in Nodes, JoinAction(n, dc) PROVE Fitting'
  BY <1>1, <1>3, <1>9, JoinActionFits
<1>10. ASSUME NEW n \in Nodes, DeleteKey(n) \/ Promote(n) PROVE Fitting'
  BY <1>1, <1>2, <1>3, <1>10, DeleteKeyFits, PromoteFits
<1>11. ASSUME NEW row \in rows, RequestRemove(row) PROVE Fitting'
  BY <1>1, <1>2, <1>3, <1>11, RequestRemoveFits
<1>12. CASE ConfirmDomain \/ CancelDomain \/ ConfirmDelete \/ ConfirmCut \/ Dismiss
  BY <1>1, <1>2, <1>3, <1>12, ConfirmDomainFits, CancelDomainFits, ConfirmDeleteFits,
     ConfirmCutFits, DismissFits
<1>13. CASE Undo \/ Compile \/ Compiled \/ ConfirmReview \/ DeployEnds
  BY <1>1, <1>2, <1>3, <1>13, UndoFits, CompileFits, CompiledFits, ConfirmReviewFits,
     DeployEndsFits
<1>. QED BY <1>4, <1>5, <1>6, <1>7, <1>8, <1>9, <1>10, <1>11, <1>12, <1>13 DEF Next

-----------------------------------------------------------------------------
\* A saved project as it is opened.

LEMMA OpenedEdges ==
    ASSUME NEW scene \in Scenes
    PROVE  /\ \A e \in Opened(scene).edges : IsEdge(e)
           /\ Opened(scene).nodes \subseteq DOMAIN Opened(scene).type
           /\ Opened(scene).at \in [DOMAIN Opened(scene).type -> Int]
           /\ DOMAIN Opened(scene).config = DOMAIN Opened(scene).type
<1>. DEFINE c == scene.canvas
            d == Opened(scene)
            cards == DOMAIN c.type
<1>1. /\ c \in [nodes : SUBSET cards, type : [cards -> Types], config : [cards -> Settings],
                life : [cards -> Lives \cup {"deploying", "drifted", "destroying"}],
                at : [cards -> Int], edges : {c.edges}]
      /\ c.edges \subseteq [type : EdgeTypes, source : cards, target : cards,
                             socket : Sockets \cup {"legacy"}, staged : BOOLEAN, health : Healths]
  BY ScenesAssumption
<1>2. {"nodes", "type", "config", "life", "at", "edges"} \subseteq DOMAIN c
  BY <1>1
<1>3. PICK cloning : d = Hydrated(c, cloning)
  BY DEF Opened
<1>4. \A e \in d.edges : e.type = "webServerCert" <=> e.socket \in {"publication", "ocsp"}
  BY SavedAssumption
<1>5. \A e \in c.edges :
          /\ {"type", "source", "target", "socket", "staged", "health"} \subseteq DOMAIN e
          /\ e.type \in EdgeTypes
  BY <1>1
<1>6. c.nodes \subseteq cards /\ c.at \in [cards -> Int] /\ DOMAIN c.config = cards
  BY <1>1
<1>. HIDE DEF c, d
<1>7. /\ \A f \in d.edges : \E e \in c.edges : f = e \/ \E s : f = [e EXCEPT !.socket = s]
      /\ d.type = c.type /\ d.nodes = c.nodes /\ d.at = c.at /\ d.config = c.config
  BY <1>2, <1>3 DEF Hydrated
<1>8. ASSUME NEW f \in d.edges PROVE IsEdge(f)
  <2>1. PICK e \in c.edges : f = e \/ \E s : f = [e EXCEPT !.socket = s]
    BY <1>7
  <2>2. /\ {"type", "source", "target", "socket", "staged", "health"} \subseteq DOMAIN f
        /\ f.type \in EdgeTypes
    BY <1>5, <2>1
  <2>. QED BY <1>4, <2>2 DEF IsEdge
<1>. QED BY <1>6, <1>7, <1>8 DEF d

\* Every row of the list is of an operation that was saved.
LEMMA ListedRows ==
    ASSUME NEW scene \in Scenes
    PROVE  /\ OneRowEach(Listed(scene))
           /\ \A r \in Listed(scene) :
                 /\ r.status = "staged" /\ IsOp(r.op)
                 /\ r.op.kind = "webServerCert" =>
                       IsComplete(Opened(scene), r.op.target, r.op.secondary)
<1>. DEFINE c == Opened(scene)
            cards == DOMAIN c.type
            ops == scene.ops
            rs == Listed(scene)
            OpSet == [kind : OpKinds \ {"provision"}, target : cards,
                      secondary : cards \cup {NoNode}]
            D == [i \in DOMAIN ops |->
                    Inferred(ops[i], {Row(j, ops[j], "staged", {}, NoNode) : j \in 1..(i - 1)})]
<1>1. /\ ops \in Seq(OpSet)
      /\ \A i, j \in DOMAIN ops : ops[i] = ops[j] => i = j
      /\ \A i \in DOMAIN ops :
            /\ ops[i].kind \in {"createVm", "domainLeave"} => ops[i].secondary = NoNode
            /\ ops[i].kind = "webServerCert" => IsComplete(c, ops[i].target, ops[i].secondary)
  BY SavedAssumption
<1>2. DOMAIN ops = 1..Len(ops) /\ Len(ops) \in Nat /\ \A i \in DOMAIN ops : ops[i] \in OpSet
  <2>1. ops \in Seq(OpSet)
    BY <1>1
  <2>. HIDE DEF ops, OpSet
  <2>. QED BY <2>1
<1>3. \A i \in DOMAIN ops : /\ ops[i] = Op(ops[i].kind, ops[i].target, ops[i].secondary)
                            /\ ops[i].kind \in OpKinds \ {"provision"}
  BY <1>2 DEF Op
<1>4. \A i \in DOMAIN ops : IsOp(ops[i]) /\ ops[i].kind # "provision"
  BY <1>1, <1>3 DEF IsOp, OpKinds, Relating
<1>5. \A r \in rs : \E i \in DOMAIN ops : r = Row(i, ops[i], "staged", D[i], NoNode)
  BY DEF Listed
<1>. HIDE DEF rs, ops, c, D
<1>6. \A r \in rs : /\ r = Row(r.id, ops[r.id], "staged", D[r.id], NoNode)
                    /\ r = Row(r.id, r.op, r.status, r.deps, r.prev) /\ r.id \in DOMAIN ops
                    /\ r.op = ops[r.id] /\ r.status = "staged" /\ r.prev = NoNode
  BY <1>5, RowFields
<1>7. \A r \in rs : IsRow(r) /\ ~Synthesized(r) /\ r.id <= Len(ops)
  BY <1>2, <1>4, <1>6 DEF IsRow, Synthesized
<1>8. \A r, s \in rs : r.id = s.id \/ r.op = s.op => r = s
  <2>1. \A r, s \in rs : r.id = s.id => r = s
    BY <1>6
  <2>. QED BY <1>1, <1>6, <2>1
<1>9. OneRowEach(rs)
  BY <1>2, <1>6, <1>7, <1>8 DEF OneRowEach, Sent
<1>. QED BY <1>1, <1>4, <1>6, <1>9 DEF rs, c

LEMMA OpenedTells ==
    ASSUME NEW scene \in Scenes
    PROVE  LET c == Opened(scene) IN Tells(c.nodes, c.config, c.edges, Listed(scene))
<1>. DEFINE c == Opened(scene)
            rs == Listed(scene)
            cf == c.config
<1>1. ListFits(c, rs)
  BY SavedAssumption
<1>2. \A e \in c.edges : IsEdge(e)
  BY OpenedEdges
<1>3. \A r \in rs : /\ r.status = "staged" /\ IsOp(r.op)
                    /\ r.op.kind = "webServerCert" => IsComplete(c, r.op.target, r.op.secondary)
  BY ListedRows
<1>. HIDE DEF c, rs
<1>4. RowsAreOfCards(c.nodes, rs)
  BY <1>1 DEF ListFits, RowsAreOfCards
<1>5. RowsAreDrawn(c.edges, rs)
  <2>. SUFFICES ASSUME NEW r \in rs, r.op.kind \in Relating PROVE HasEdge(c.edges, r.op)
    BY DEF RowsAreDrawn
  <2>1. PICK e \in c.edges : OpOfEdge(e) = r.op
    BY <1>1 DEF ListFits, Relating
  <2>2. CASE r.op.kind # "webServerCert"
    BY <2>1, <2>2 DEF HasEdge
  <2>3. CASE r.op.kind = "webServerCert"
    <3>1. IsWhole(c.edges, r.op.target, r.op.secondary)
      BY <1>3, <2>3, WholeIsComplete
    <3>2. PICK f \in c.edges : /\ f.type = "webServerCert" /\ f.source = r.op.target
                               /\ f.target = r.op.secondary /\ f.socket = "ocsp"
      BY <3>1 DEF IsWhole
    <3>3. LET o == OpOfEdge(f) IN
          /\ IsOp(o) /\ o.kind = "webServerCert"
          /\ o.target = r.op.target /\ o.secondary = r.op.secondary
      BY <1>2, <3>2, OpIsOfEdge
    <3>4. IsOp(r.op)
      BY <1>3
    <3>5. OpOfEdge(f) = r.op
      BY <2>3, <3>3, <3>4, SameOp
    <3>. QED BY <3>2, <3>5 DEF HasEdge
  <2>. QED BY <2>2, <2>3
<1>6. GhostsAreListed(cf, c.edges, rs)
  <2>. SUFFICES ASSUME NEW e \in c.edges, Carries(cf, c.edges, e) PROVE HasRow(rs, OpOfEdge(e))
    BY DEF GhostsAreListed
  <2>1. CarriesOp(c, e)
    BY WholeIsComplete DEF Carries, CarriesOp
  <2>2. PICK r \in rs : r.op = OpOfEdge(e)
    BY <1>1, <2>1 DEF ListFits, OpsOf
  <2>. QED BY <1>3, <2>2 DEF HasRow
<1>7. LeaversAreOut(c.edges, rs)
  BY <1>1 DEF ListFits, LeaversAreOut, Joins, EdgesOf
<1>. QED BY <1>2, <1>4, <1>5, <1>6, <1>7 DEF Tells, c, rs

LEMMA InitFits == Init => ListInv
<1>. SUFFICES ASSUME Init PROVE ListInv
  OBVIOUS
<1>1. PICK scene \in Scenes :
          /\ rows = Listed(scene) /\ canvas = Opened(scene) /\ fresh = scene.fresh
          /\ dialogs = <<>> /\ deploying = FALSE
  BY DEF Init
<1>2. DrawnInv
  BY InitDraws
<1>3. ListTells
  BY <1>1, OpenedTells, ListedRows DEF ListTells, Nodes
<1>4. CardsFit(canvas, fresh)
  <2>. DEFINE cards == DOMAIN canvas.type
  <2>1. IsFiniteSet(cards) /\ fresh \subseteq cards
    BY <1>1, SavedAssumption
  <2>2. /\ canvas.nodes \subseteq cards /\ canvas.at \in [cards -> Int]
        /\ DOMAIN canvas.config = cards
    BY <1>1, OpenedEdges
  <2>3. IsFiniteSet(canvas.nodes)
    BY <2>1, <2>2, FS_Subset
  <2>. QED BY <2>1, <2>2, <2>3 DEF CardsFit
<1>5. DialogFits(Nodes, dialogs)
  BY <1>1 DEF DialogFits
<1>. QED BY <1>1, <1>2, <1>3, <1>4, <1>5 DEF ListInv, Fitting

LEMMA FittingMatches == ListInv => ListMatchesCanvas
<1>. SUFFICES ASSUME ListInv, ~strayed PROVE ListFits(canvas, rows)
  BY DEF ListMatchesCanvas
<1>1. Tells(Nodes, canvas.config, canvas.edges, rows)
  BY DEF ListInv, Fitting, ListTells
<1>2. \A r \in rows : {r.op.target, r.op.secondary} \subseteq canvas.nodes \cup {NoNode}
  BY <1>1 DEF Tells, RowsAreOfCards, Nodes
<1>3. \A r \in rows : r.op.kind \in {"domainJoin", "caConnect", "webServerCert"} =>
          \E e \in canvas.edges : OpOfEdge(e) = r.op
  BY <1>1 DEF Tells, RowsAreDrawn, HasEdge, Relating
<1>4. \A e \in canvas.edges : CarriesOp(canvas, e) => OpOfEdge(e) \in OpsOf(rows)
  <2>. SUFFICES ASSUME NEW e \in canvas.edges, CarriesOp(canvas, e)
                PROVE  OpOfEdge(e) \in OpsOf(rows)
    OBVIOUS
  <2>1. Carries(canvas.config, canvas.edges, e)
    BY WholeIsComplete DEF Carries, CarriesOp
  <2>2. HasRow(rows, OpOfEdge(e))
    BY <1>1, <2>1 DEF Tells, GhostsAreListed
  <2>. QED BY <2>2 DEF HasRow, OpsOf
<1>5. \A r \in rows : r.op.kind = "domainLeave" => \A e \in Joins(canvas, r.op.target) : e.staged
  BY <1>1 DEF Tells, LeaversAreOut, Joins, EdgesOf
<1>. QED BY <1>2, <1>3, <1>4, <1>5 DEF ListFits

\* From any saved project whose list fits its canvas, and however it is edited, undone,
\* deleted, reviewed and deployed: the list of operations and the canvas tell the same, as
\* removeNodeCore says ("so the Staged panel never lists a dangling op").
THEOREM ListStaysWithCanvas == Spec => []ListMatchesCanvas
BY InitFits, StepFits, FittingMatches, PTL DEF Spec


-----------------------------------------------------------------------------
\* What is listed is still to be done: the inductive invariant, over cards ns of types ty,
\* with settings cf and lives lf, edges es and rows rs.

StagedAreListed(ns, lf, rs) == \A n \in ns : lf[n] = "staged" => \E r \in rs : r.op = Create(n)
ClonesAwait(lf, rs) ==
    \A r \in rs : r.op.kind = "createVm" => lf[r.op.target] \in {"staged", "failed"}
\* What is done or mirrored and listed nevertheless failed at its card.
LeftHaveFailed(lf, rs) ==
    \A r \in rs : Synthesized(r) \/ r.status = "done" => lf[r.op.target] = "failed"
GhostsAreDrawn(es, rs) ==
    \A r \in rs : r.op.kind \in Relating => \E e \in es : e.staged /\ OpOfEdge(e) = r.op
CertsAreWhole(cf, es, rs) ==
    \A r \in rs : r.op.kind = "webServerCert" =>
        cf[r.op.target] = "Issuing" /\ IsWhole(es, r.op.target, r.op.secondary)
RootsIssue(ty, cf, es) ==
    \A e \in es : e.type = "caHierarchy" => ty[e.source] = CA /\ cf[e.source] = "Root"
CasAreSet(ns, ty, cf, lf) ==
    \A n \in ns : ty[n] = CA /\ lf[n] # "draft" => cf[n] \in {"Root", "Issuing"}

\* A mirrored row waits for its clone, which is listed, and a clone for nothing.
IsMirror(rs, s) == s.id \in s.deps /\ \E r \in rs : r.id = s.id /\ r.op = Create(s.op.target)
RowsFit(rs) ==
    /\ \A r \in rs :
          /\ r.op.kind \in OpKinds
          /\ r.op.kind = "createVm" => r.deps = {}
          /\ r.op.kind \in {"createVm", "provision", "domainLeave"} => r.op.target # NoNode
    /\ \A s \in rs : Synthesized(s) => IsMirror(rs, s)

Awaits(ns, ty, cf, lf, es, rs) ==
    /\ RowsFit(rs) /\ StagedAreListed(ns, lf, rs) /\ ClonesAwait(lf, rs) /\ LeftHaveFailed(lf, rs)
    /\ GhostsAreDrawn(es, rs) /\ CertsAreWhole(cf, es, rs)
    /\ RootsIssue(ty, cf, es) /\ CasAreSet(ns, ty, cf, lf)

-----------------------------------------------------------------------------
\* A row is of its card.

LEMMA CloneOp ==
    ASSUME NEW r, IsRow(r), r.op.kind \in {"createVm", "provision", "domainLeave"}
    PROVE  /\ r.op.kind = "createVm" => r.op = Create(r.op.target)
           /\ r.op.kind = "provision" => r.op = Provision(r.op.target)
           /\ r.op.kind = "domainLeave" => r.op = Leave(r.op.target)
BY DEF IsRow, IsOp, Create, Provision, Leave, Relating

LEMMA CloneFields ==
    ASSUME NEW n
    PROVE  /\ Create(n).kind = "createVm" /\ Create(n).target = n
           /\ Create(n).secondary = NoNode
           /\ Provision(n).kind = "provision" /\ Provision(n).target = n
           /\ Create(n) # Provision(n)
BY OpFields DEF Create, Provision

\* The rows of an edge that a listed operation is of: those of the operation.
LEMMA OwnRows ==
    ASSUME NEW ns, NEW ty, NEW cf, NEW es, NEW rs, Tells(ns, cf, es, rs),
           CertsAreWhole(cf, es, rs), RootsIssue(ty, cf, es),
           NEW e \in es, NEW s, IsRow(s), e \in OperationEdges(s, es),
           s.op.kind = "caConnect" => s.op \in OpsOf(rs),
           e.type = "webServerCert" => cf[e.source] = "Issuing"
    PROVE  OpOfEdge(e) = s.op
<1>. SUFFICES ASSUME OpOfEdge(e) # s.op PROVE FALSE
  OBVIOUS
<1>1. IsEdge(e)
  BY DEF Tells
<1>2. s.op.kind = "caConnect" /\ e.socket = "publication"
  BY <1>1, EdgeOfRow
<1>3. e.type = "webServerCert"
  BY <1>1, <1>2 DEF IsEdge
<1>4. e.source = s.op.secondary
  BY <1>2, <1>3 DEF OperationEdges
<1>5. PICK g \in es : OpOfEdge(g) = s.op
  BY <1>2 DEF OpsOf, Tells, RowsAreDrawn, HasEdge, Relating
<1>6. IsEdge(g)
  BY DEF Tells
<1>7. g.type = "caHierarchy" /\ g.source = s.op.secondary
  BY <1>2, <1>5, <1>6, OpIsOfEdge DEF IsEdge, EdgeTypes
<1>8. cf[g.source] = "Root"
  BY <1>7 DEF RootsIssue
<1>. QED BY <1>3, <1>4, <1>7, <1>8

\* Rows are undone with what they mirror.
Closed(gone, rs) ==
    \A q \in gone, s \in rs : ~Synthesized(q) /\ Synthesized(s) /\ s.id = q.id => s \in gone

LEMMA UndoAwaits ==
    ASSUME NEW ns, NEW ty, NEW cf, NEW lf, NEW es, NEW rs, Tells(ns, cf, es, rs), OneRowEach(rs),
           Awaits(ns, ty, cf, lf, es, rs), ns \subseteq DOMAIN lf,
           NEW gone \in SUBSET rs, Closed(gone, rs)
    PROVE  Awaits(ns, ty, cf, Unconfigured(gone, lf), EdgesWithout(gone, es), rs \ gone)
<1>. DEFINE ds == EdgesWithout(gone, es)
            left == rs \ gone
            kf == Unconfigured(gone, lf)
<1>1. \A e \in ds : e.type # "domainJoin" => e \in es
  BY EdgesOfUndo
<1>2. ASSUME NEW e \in es, \A r \in gone : e \notin OperationEdges(r, es) PROVE e \in ds
  BY <1>2 DEF EdgesWithout, Without
<1>3. \A n \in DOMAIN lf : kf[n] = IF Create(n) \in OpsOf(gone) THEN "draft" ELSE lf[n]
  BY DEF Unconfigured
<1>4. \A r \in rs : IsRow(r)
  BY DEF OneRowEach
<1>5. ASSUME NEW r \in left, r.op.kind \in {"createVm", "provision"} PROVE r.op.target \in DOMAIN lf
  BY <1>5 DEF Awaits, RowsFit, Tells, RowsAreOfCards
<1>6. ASSUME NEW s \in left, Synthesized(s)
      PROVE  \E r \in left : r.id = s.id /\ r.op = Create(s.op.target)
  <2>1. PICK r \in rs : r.id = s.id /\ r.op = Create(s.op.target)
    BY <1>6 DEF Awaits, RowsFit, IsMirror
  <2>2. ~Synthesized(r)
    BY <2>1, CloneFields DEF Synthesized
  <2>3. r \notin gone
    BY <1>6, <2>1, <2>2 DEF Closed
  <2>. QED BY <2>1, <2>3
<1>7. ASSUME NEW r \in left, r.op.kind = "createVm" PROVE r.op \notin OpsOf(gone)
  <2>. SUFFICES ASSUME NEW g \in gone, g.op = r.op PROVE FALSE
    BY DEF OpsOf
  <2>1. g \in Sent(rs) /\ r \in Sent(rs)
    BY <1>7 DEF Sent, Synthesized
  <2>. QED BY <2>1 DEF OneRowEach
<1>. HIDE DEF ds, kf
<1>8. RowsFit(left)
  BY <1>6 DEF Awaits, RowsFit, IsMirror
<1>9. StagedAreListed(ns, kf, left)
  <2>. SUFFICES ASSUME NEW n \in ns, kf[n] = "staged" PROVE \E r \in left : r.op = Create(n)
    BY DEF StagedAreListed
  <2>1. lf[n] = "staged" /\ Create(n) \notin OpsOf(gone)
    BY <1>3
  <2>2. PICK r \in rs : r.op = Create(n)
    BY <2>1 DEF Awaits, StagedAreListed
  <2>. QED BY <2>1, <2>2 DEF OpsOf
<1>10. ASSUME NEW r \in left, r.op.kind = "createVm" PROVE kf[r.op.target] = lf[r.op.target]
  BY <1>3, <1>4, <1>5, <1>7, <1>10, CloneOp
<1>11. ClonesAwait(kf, left)
  BY <1>10 DEF Awaits, ClonesAwait
<1>12. LeftHaveFailed(kf, left)
  <2>. SUFFICES ASSUME NEW r \in left, Synthesized(r) \/ r.status = "done"
                PROVE  kf[r.op.target] = "failed"
    BY DEF LeftHaveFailed
  <2>1. lf[r.op.target] = "failed"
    BY DEF Awaits, LeftHaveFailed
  <2>2. CASE Synthesized(r)
    <3>1. PICK q \in left : q.op = Create(r.op.target)
      BY <1>6, <2>2
    <3>2. q.op.kind = "createVm" /\ q.op.target = r.op.target
      BY <3>1, CloneFields
    <3>. QED BY <1>10, <2>1, <3>2
  <2>3. CASE r.status = "done" /\ ~Synthesized(r)
    <3>1. r.op.kind = "createVm"
      BY <2>3 DEF OneRowEach, Awaits, RowsFit, OpKinds, Relating, Synthesized
    <3>. QED BY <1>10, <2>1, <3>1
  <2>. QED BY <2>2, <2>3
<1>13. ASSUME NEW e \in es, NEW r \in left, r.op.kind \in Relating, OpOfEdge(e) = r.op
       PROVE  e \in ds
  <2>1. ASSUME NEW g \in gone, e \in OperationEdges(g, es) PROVE FALSE
    <3>1. e.type = "webServerCert" => cf[e.source] = "Issuing"
      BY <1>13, OpIsOfEdge DEF Tells, Awaits, CertsAreWhole
    <3>2. OpOfEdge(e) = g.op
      BY <1>4, <2>1, <3>1, OwnRows DEF OpsOf, Awaits
    <3>3. g \in Sent(rs) /\ r \in Sent(rs)
      BY <1>13, <3>2 DEF Sent, Synthesized, Relating
    <3>. QED BY <1>13, <3>2, <3>3 DEF OneRowEach
  <2>. QED BY <1>2, <2>1
<1>14. GhostsAreDrawn(ds, left)
  <2>. SUFFICES ASSUME NEW r \in left, r.op.kind \in Relating
                PROVE  \E e \in ds : e.staged /\ OpOfEdge(e) = r.op
    BY DEF GhostsAreDrawn
  <2>1. PICK e \in es : e.staged /\ OpOfEdge(e) = r.op
    BY DEF Awaits, GhostsAreDrawn
  <2>. QED BY <1>13, <2>1
<1>15. CertsAreWhole(cf, ds, left)
  <2>. SUFFICES ASSUME NEW r \in left, r.op.kind = "webServerCert"
                PROVE  cf[r.op.target] = "Issuing" /\ IsWhole(ds, r.op.target, r.op.secondary)
    BY DEF CertsAreWhole
  <2>1. cf[r.op.target] = "Issuing" /\ IsWhole(es, r.op.target, r.op.secondary)
    BY DEF Awaits, CertsAreWhole
  <2>2. ASSUME NEW e \in es, e.type = "webServerCert", e.source = r.op.target,
               e.target = r.op.secondary
        PROVE  e \in ds
    <3>1. OpOfEdge(e) = r.op
      BY <1>4, <2>2, OpIsOfEdge, SameOp DEF Tells, IsRow
    <3>. QED BY <1>13, <3>1 DEF Relating
  <2>. QED BY <2>1, <2>2 DEF IsWhole
<1>16. RootsIssue(ty, cf, ds)
  BY <1>1 DEF Awaits, RootsIssue
<1>17. CasAreSet(ns, ty, cf, kf)
  BY <1>3 DEF Awaits, CasAreSet
<1>. QED BY <1>8, <1>9, <1>11, <1>12, <1>14, <1>15, <1>16, <1>17 DEF Awaits, ds, kf

\* A card is deleted that no row refers to.
LEMMA DeletedAwaits ==
    ASSUME NEW ns, NEW ty, NEW cf, NEW lf, NEW es, NEW rs, Tells(ns, cf, es, rs), OneRowEach(rs),
           Awaits(ns, ty, cf, lf, es, rs), NEW n,
           \A r \in rs : n \notin {r.op.target, r.op.secondary},
           NEW ds, ds = {e \in es : n \notin {e.source, e.target}}
    PROVE  Awaits(ns \ {n}, ty, cf, lf, ds, rs)
<1>1. \A r \in rs, e \in es : OpOfEdge(e) = r.op => e \in ds
  BY OpIsOfEdge DEF Tells
<1>2. GhostsAreDrawn(ds, rs)
  BY <1>1 DEF Awaits, GhostsAreDrawn
<1>3. CertsAreWhole(cf, ds, rs)
  BY DEF Awaits, CertsAreWhole, IsWhole
<1>4. RootsIssue(ty, cf, ds)
  BY DEF Awaits, RootsIssue
<1>5. StagedAreListed(ns \ {n}, lf, rs) /\ CasAreSet(ns \ {n}, ty, cf, lf)
  BY DEF Awaits, StagedAreListed, CasAreSet
<1>. QED BY <1>2, <1>3, <1>4, <1>5 DEF Awaits

\* The rows that are undone, removed or deleted together.
LEMMA CascadeIsClosed ==
    ASSUME OneRowEach(rows), RowsFit(rows), NEW first \in SUBSET rows
    PROVE  Closed(Cascade(first), rows)
<1>. SUFFICES ASSUME NEW q \in Cascade(first), NEW s \in rows, ~Synthesized(q), Synthesized(s),
                     s.id = q.id
              PROVE  s \in Cascade(first)
  BY DEF Closed
<1>1. q \in rows
  BY CascadeIsListed
<1>2. q.op.kind = "createVm"
  BY <1>1 DEF OneRowEach
<1>3. q.deps = {} /\ s.id \in s.deps
  BY <1>1, <1>2 DEF RowsFit, IsMirror
<1>4. PICK r \in first : q = r \/ q \in Dependents(rows, r)
  BY DEF Cascade
<1>5. q = r
  BY <1>3, <1>4 DEF Dependents, Directly
<1>6. s \in Dependents(rows, r)
  BY <1>3, <1>5 DEF Dependents, Directly
<1>. QED BY <1>6 DEF Cascade

LEMMA LastIsClosed ==
    ASSUME NEW id
    PROVE  Closed({r \in rows : r.id = id}, rows)
BY DEF Closed

LEMMA AloneIsClosed ==
    ASSUME OneRowEach(rows), RowsFit(rows), NEW row \in rows, Dependents(rows, row) = {}
    PROVE  Closed({row}, rows)
<1>1. {row} \in SUBSET rows /\ Cascade({row}) = {row}
  BY DEF Cascade
<1>. QED BY <1>1, CascadeIsClosed

-----------------------------------------------------------------------------
\* The invariant, on the steps that change little.

\* The rows that were sent, as they will end: a clone is never cancelled, and its mirror
\* is cancelled exactly if the clone fails.
PlanClones(ps) ==
    /\ \A q \in ps : q.op.kind = "createVm" =>
          /\ q.status \in {"done", "error"}
          /\ \E p \in ps : p.id = q.id /\ p.op = Provision(q.op.target)
    /\ \A p, q \in ps : p.op.kind = "provision" /\ q.op.kind = "createVm" /\ p.id = q.id =>
          IF q.status = "done" THEN p.status \in {"done", "error"} ELSE p.status = "cancelled"

LivesFit(c, new) ==
    /\ NoNode \notin DOMAIN c.life /\ c.nodes \cup new \subseteq DOMAIN c.life
    /\ new \cap c.nodes = {}
ListAwaits == Awaits(Nodes, canvas.type, canvas.config, canvas.life, canvas.edges, rows)
StillOpen ==
    ListAwaits /\ LivesFit(canvas, fresh) /\ (deploying => PlanClones(plan))
OpenInv == ~strayed => StillOpen

LEMMA AwaitsKept ==
    ASSUME StillOpen, canvas'.nodes = canvas.nodes, canvas'.type = canvas.type,
           canvas'.config = canvas.config, canvas'.life = canvas.life,
           canvas'.edges = canvas.edges, fresh' = fresh, rows' = rows, plan' = plan,
           deploying' => deploying
    PROVE  StillOpen'
BY DEF StillOpen, ListAwaits, LivesFit, Nodes

LEMMA DropAwaits ==
    ASSUME Fitting, StillOpen, NEW n \in fresh, NEW x \in Places, Drop(n, x)
    PROVE  StillOpen'
<1>1. canvas' = [canvas EXCEPT !.nodes = @ \cup {n}, !.at[n] = x, !.life[n] = "draft"]
  BY DEF Drop
<1>2. /\ canvas'.nodes = canvas.nodes \cup {n} /\ canvas'.type = canvas.type
      /\ canvas'.config = canvas.config /\ canvas'.edges = canvas.edges
      /\ canvas'.life = [canvas.life EXCEPT ![n] = "draft"]
  BY <1>1 DEF Fitting, DrawnInv, Shaped
<1>3. fresh' = fresh \ {n} /\ rows' = rows /\ ~deploying'
  BY DEF Drop, Mouse
<1>. DEFINE lf == canvas.life
            kf == [lf EXCEPT ![n] = "draft"]
<1>4. n \in DOMAIN lf /\ n \notin Nodes
  BY DEF StillOpen, LivesFit, Nodes
<1>5. /\ kf[n] = "draft" /\ \A m : m # n /\ m \in DOMAIN lf => kf[m] = lf[m]
      /\ DOMAIN kf = DOMAIN lf
  BY <1>4
<1>6. \A r \in rows : r.op.kind \in {"createVm", "provision", "domainLeave"} =>
          r.op.target # n /\ r.op.target \in DOMAIN lf
  BY <1>4 DEF StillOpen, ListAwaits, Awaits, RowsFit, LivesFit, Fitting, ListTells, Tells,
              RowsAreOfCards, Nodes
<1>7. \A r \in rows : Synthesized(r) \/ r.status = "done" => r.op.kind \in {"createVm", "provision"}
  BY DEF StillOpen, ListAwaits, Awaits, RowsFit, Fitting, ListTells, OneRowEach, Relating, OpKinds,
         Synthesized
<1>. HIDE DEF kf
<1>8. Awaits(Nodes \cup {n}, canvas.type, canvas.config, kf, canvas.edges, rows)
  <2>0. Awaits(Nodes, canvas.type, canvas.config, lf, canvas.edges, rows)
    BY DEF StillOpen, ListAwaits
  <2>1. StagedAreListed(Nodes \cup {n}, kf, rows)
    BY <1>5, <2>0 DEF Awaits, StagedAreListed, StillOpen, LivesFit, Nodes
  <2>2. ClonesAwait(kf, rows)
    BY <1>5, <1>6, <2>0 DEF Awaits, ClonesAwait
  <2>3. LeftHaveFailed(kf, rows)
    BY <1>5, <1>6, <1>7, <2>0 DEF Awaits, LeftHaveFailed
  <2>4. CasAreSet(Nodes \cup {n}, canvas.type, canvas.config, kf)
    BY <1>5, <2>0 DEF Awaits, CasAreSet, StillOpen, LivesFit, Nodes
  <2>. QED BY <2>0, <2>1, <2>2, <2>3, <2>4 DEF Awaits
<1>9. ListAwaits'
  BY <1>2, <1>3, <1>8 DEF ListAwaits, Nodes, kf
<1>10. LivesFit(canvas', fresh')
  BY <1>2, <1>3, <1>5 DEF StillOpen, LivesFit, kf
<1>. QED BY <1>3, <1>9, <1>10 DEF StillOpen

\* A setting changes that no listed connection rests on.
LEMMA SettingAwaits ==
    ASSUME DrawnInv, ListTells, ListAwaits, NEW n \in Nodes, NEW setting,
           setting \in SettingsOf(canvas.type[n]), ~Retyped(n, setting),
           NEW kf, kf = [canvas.config EXCEPT ![n] = setting], Nodes \subseteq DOMAIN canvas.config
    PROVE  /\ \A r \in rows : r.op.kind = "webServerCert" => kf[r.op.target] = "Issuing"
           /\ RootsIssue(canvas.type, kf, canvas.edges)
           /\ CertsAreWhole(kf, canvas.edges, rows)
           /\ CasAreSet(Nodes, canvas.type, kf, canvas.life)
           /\ canvas.type[n] = CA => kf[n] \in {"Root", "Issuing"}
           /\ \A m \in Nodes \ {n} : kf[m] = canvas.config[m]
<1>1. kf[n] = setting /\ \A m \in Nodes : m # n => kf[m] = canvas.config[m]
  OBVIOUS
<1>2. canvas.type[n] = CA => setting \in {"Root", "Issuing"}
  BY DEF SettingsOf, CA
<1>3. ASSUME NEW e \in canvas.edges, e.type # "domainJoin", canvas.type[e.source] = CA
      PROVE  e.source = n => setting = canvas.config[n]
  BY <1>3 DEF Retyped
<1>4. RootsIssue(canvas.type, kf, canvas.edges)
  <2>. SUFFICES ASSUME NEW e \in canvas.edges, e.type = "caHierarchy"
                PROVE  canvas.type[e.source] = CA /\ kf[e.source] = "Root"
    BY DEF RootsIssue
  <2>1. canvas.type[e.source] = CA /\ canvas.config[e.source] = "Root"
    BY DEF ListAwaits, Awaits, RootsIssue
  <2>2. e.source = n => kf[e.source] = "Root"
    BY <1>1, <1>3, <2>1
  <2>3. e.source # n => kf[e.source] = "Root"
    BY <1>1, <2>1
  <2>. QED BY <2>1, <2>2, <2>3
<1>5. ASSUME NEW r \in rows, r.op.kind = "webServerCert" PROVE kf[r.op.target] = "Issuing"
  <2>1. PICK e \in canvas.edges : OpOfEdge(e) = r.op
    BY <1>5 DEF ListTells, Tells, RowsAreDrawn, HasEdge, Relating
  <2>2. e.type = "webServerCert" /\ e.source = r.op.target
    BY <1>5, <2>1, OpIsOfEdge DEF ListTells, Tells
  <2>3. e.source \in Nodes /\ canvas.type[e.source] = CA
    BY <2>2 DEF DrawnInv, IsCanvas, EdgesOf, Nodes
  <2>4. canvas.config[r.op.target] = "Issuing"
    BY <1>5 DEF ListAwaits, Awaits, CertsAreWhole
  <2>. QED BY <1>1, <1>3, <2>2, <2>3, <2>4
<1>6. CertsAreWhole(kf, canvas.edges, rows)
  BY <1>5 DEF ListAwaits, Awaits, CertsAreWhole
<1>7. CasAreSet(Nodes, canvas.type, kf, canvas.life)
  BY <1>1, <1>2 DEF ListAwaits, Awaits, CasAreSet
<1>. QED BY <1>1, <1>2, <1>4, <1>5, <1>6, <1>7

LEMMA EditAwaits ==
    ASSUME Fitting, StillOpen, NEW n \in Nodes, NEW setting, EditForm(n, setting), ~strayed'
    PROVE  StillOpen'
<1>1. canvas' = [canvas EXCEPT !.config[n] = setting]
  BY DEF EditForm
<1>2. /\ canvas'.nodes = canvas.nodes /\ canvas'.type = canvas.type
      /\ canvas'.edges = canvas.edges /\ canvas'.life = canvas.life
      /\ canvas'.config = [canvas.config EXCEPT ![n] = setting]
  BY <1>1 DEF Fitting, DrawnInv, Shaped
<1>3. fresh' = fresh /\ rows' = rows /\ ~deploying'
  BY DEF EditForm, Mouse
<1>4. setting \in SettingsOf(canvas.type[n]) /\ ~Retyped(n, setting)
  BY DEF EditForm, Strays
<1>. DEFINE kf == [canvas.config EXCEPT ![n] = setting]
<1>5. /\ RootsIssue(canvas.type, kf, canvas.edges) /\ CertsAreWhole(kf, canvas.edges, rows)
      /\ CasAreSet(Nodes, canvas.type, kf, canvas.life)
  <2>1. DrawnInv /\ ListTells /\ ListAwaits /\ Nodes \subseteq DOMAIN canvas.config
    BY DEF Fitting, StillOpen, CardsFit, Nodes
  <2>. QED BY <1>4, <2>1, SettingAwaits
<1>. HIDE DEF kf
<1>6. ListAwaits'
  BY <1>2, <1>3, <1>5 DEF StillOpen, ListAwaits, Awaits, Nodes, kf
<1>. QED BY <1>2, <1>3, <1>6 DEF StillOpen, LivesFit

\* configureNode, of a card that is not listed.
LEMMA ConfigureAwaits ==
    ASSUME Fitting, StillOpen, NEW n \in Nodes, NEW setting, Configure(n, setting), ~strayed'
    PROVE  StillOpen'
<1>. DEFINE lf == canvas.life
            kf == [lf EXCEPT ![n] = "staged"]
            cf == [canvas.config EXCEPT ![n] = setting]
            o == Create(n)
<1>1. canvas' = [canvas EXCEPT !.config[n] = setting, !.life[n] = "staged"]
  BY DEF Configure
<1>2. /\ canvas'.nodes = canvas.nodes /\ canvas'.type = canvas.type
      /\ canvas'.edges = canvas.edges /\ canvas'.life = kf /\ canvas'.config = cf
  BY <1>1 DEF Fitting, DrawnInv, Shaped
<1>3. fresh' = fresh /\ rows' = Staging(rows, o, NoNode) /\ ~deploying'
  BY DEF Configure, Mouse
<1>4. setting \in SettingsOf(canvas.type[n]) /\ ~Retyped(n, setting) /\ o \notin OpsOf(rows)
  BY DEF Configure, Strays
<1>5. /\ RootsIssue(canvas.type, cf, canvas.edges) /\ CertsAreWhole(cf, canvas.edges, rows)
      /\ CasAreSet(Nodes, canvas.type, cf, lf)
      /\ canvas.type[n] = CA => cf[n] \in {"Root", "Issuing"}
  <2>1. DrawnInv /\ ListTells /\ ListAwaits /\ Nodes \subseteq DOMAIN canvas.config
    BY DEF Fitting, StillOpen, CardsFit, Nodes
  <2>. QED BY <1>4, <2>1, SettingAwaits
<1>6. o.kind = "createVm" /\ o.target = n /\ IsOp(o) /\ n # NoNode /\ n \in DOMAIN lf
  BY CloneFields, OpFields DEF IsOp, Create, StillOpen, LivesFit, Nodes
<1>7. PICK r : rows' = rows \cup {r} /\ r.op = o /\ r.status # "done" /\ r.deps = Inferred(o, rows)
  BY <1>3, <1>4, <1>6, StagedRow DEF Fitting, ListTells
<1>8. /\ kf[n] = "staged" /\ \A m : m # n /\ m \in DOMAIN lf => kf[m] = lf[m]
      /\ DOMAIN kf = DOMAIN lf
  BY <1>6
<1>. HIDE DEF kf, cf, o
<1>9. Awaits(Nodes, canvas.type, canvas.config, lf, canvas.edges, rows)
  BY DEF StillOpen, ListAwaits
<1>10. \A q \in rows : IsRow(q)
  BY DEF Fitting, ListTells, OneRowEach
<1>11. ASSUME NEW q \in rows, q.op.kind = "createVm" PROVE q.op.target # n
  BY <1>4, <1>10, <1>11, CloneOp DEF o, OpsOf
<1>12. ASSUME NEW q \in rows, Synthesized(q) \/ q.status = "done" PROVE q.op.target # n
  <2>1. CASE Synthesized(q)
    <3>1. PICK s \in rows : s.op = Create(q.op.target)
      BY <1>9, <2>1 DEF Awaits, RowsFit, IsMirror
    <3>. QED BY <1>11, <3>1, CloneFields
  <2>2. CASE q.status = "done" /\ ~Synthesized(q)
    <3>1. q.op.kind = "createVm"
      BY <1>9, <2>2 DEF Fitting, ListTells, OneRowEach, Awaits, RowsFit, OpKinds, Relating, Synthesized
    <3>. QED BY <1>11, <3>1
  <2>. QED BY <1>12, <2>1, <2>2
<1>13. \A q \in rows : q.op.kind \in {"createVm", "provision"} => q.op.target \in DOMAIN lf
  BY <1>9 DEF StillOpen, Awaits, RowsFit, LivesFit, Fitting, ListTells, Tells, RowsAreOfCards, Nodes
<1>14. RowsFit(rows')
  BY <1>6, <1>7, <1>9 DEF Awaits, RowsFit, IsMirror, Inferred, Synthesized, OpKinds
<1>15. StagedAreListed(Nodes, kf, rows')
  <2>. SUFFICES ASSUME NEW m \in Nodes, kf[m] = "staged" PROVE \E q \in rows' : q.op = Create(m)
    BY DEF StagedAreListed
  <2>1. CASE m = n
    BY <1>7, <2>1 DEF o
  <2>2. CASE m # n
    BY <1>7, <1>8, <1>9, <2>2 DEF Awaits, StagedAreListed, StillOpen, LivesFit, Nodes
  <2>. QED BY <2>1, <2>2
<1>16. ClonesAwait(kf, rows')
  BY <1>6, <1>7, <1>8, <1>9, <1>11, <1>13 DEF Awaits, ClonesAwait
<1>17. LeftHaveFailed(kf, rows')
  <2>. SUFFICES ASSUME NEW q \in rows', Synthesized(q) \/ q.status = "done"
                PROVE  kf[q.op.target] = "failed"
    BY DEF LeftHaveFailed
  <2>1. q \in rows
    BY <1>6, <1>7 DEF Synthesized
  <2>2. q.op.kind \in {"createVm", "provision"}
    BY <1>9, <2>1 DEF Fitting, ListTells, OneRowEach, Awaits, RowsFit, OpKinds, Relating, Synthesized
  <2>. QED BY <1>8, <1>9, <1>12, <1>13, <2>1, <2>2 DEF Awaits, LeftHaveFailed
<1>18. GhostsAreDrawn(canvas.edges, rows') /\ CertsAreWhole(cf, canvas.edges, rows')
  BY <1>5, <1>6, <1>7, <1>9 DEF Awaits, GhostsAreDrawn, CertsAreWhole, Relating
<1>19. CasAreSet(Nodes, canvas.type, cf, kf)
  BY <1>5, <1>8 DEF CasAreSet, StillOpen, LivesFit, Nodes
<1>20. ListAwaits'
  BY <1>2, <1>5, <1>14, <1>15, <1>16, <1>17, <1>18, <1>19 DEF ListAwaits, Awaits, Nodes
<1>. QED BY <1>2, <1>3, <1>8, <1>20 DEF StillOpen, LivesFit

\* onConnect: roots issue, and a publication is listed of a CA that issues.
LEMMA ConnectAwaits ==
    ASSUME Fitting, StillOpen, NEW s \in Nodes, NEW socket, NEW t \in Nodes, Connect(s, socket, t)
    PROVE  StillOpen'
<1>. DEFINE es == canvas.edges
            cf == canvas.config
            type == SocketEdgeType(canvas, s, socket, t)
            g == Ghost(type, s, socket, t)
            ds == es \cup {g}
            o == IF type = "caHierarchy" THEN Op("caConnect", t, s) ELSE Op("webServerCert", s, t)
<1>1. canvas' = [canvas EXCEPT !.edges = ds] /\ t \in CompatibleTargets(canvas, s, socket)
  BY DEF Connect
<1>2. /\ canvas'.nodes = canvas.nodes /\ canvas'.type = canvas.type /\ canvas'.life = canvas.life
      /\ canvas'.config = cf /\ canvas'.edges = ds
  BY <1>1 DEF Fitting, DrawnInv, Shaped
<1>3. fresh' = fresh /\ ~deploying'
  BY DEF Connect, Mouse
<1>4. type \in {"caHierarchy", "webServerCert"} /\ canvas.type[s] = CA
  BY <1>1 DEF CompatibleTargets, CanConnectSockets, SocketEdgeType
<1>5. /\ g.type = type /\ g.source = s /\ g.target = t /\ g.staged
      /\ OpOfEdge(g) = o
  BY <1>4 DEF Ghost, OpOfEdge
<1>6. cf[s] \in {"Root", "Issuing"} /\ (type = "caHierarchy" => cf[s] = "Root")
  <2>1. CanConnect(canvas, s, t)
    BY <1>1 DEF CompatibleTargets, CanConnectSockets
  <2>2. canvas.life[s] # "draft"
    BY <2>1 DEF CanConnect, IsConnectable, IsDeployed
  <2>3. cf[s] \in {"Root", "Issuing"}
    BY <1>4, <2>2 DEF StillOpen, ListAwaits, Awaits, CasAreSet
  <2>4. type = "caHierarchy" => MayIssue(canvas, s, t)
    BY <2>1 DEF CanConnect, SocketEdgeType, CA
  <2>. QED BY <2>3, <2>4 DEF MayIssue
<1>7. o.kind \in {"caConnect", "webServerCert"} /\ (o.kind = "webServerCert" <=> type = "webServerCert")
  BY <1>4, OpFields
<1>8. o.kind = "webServerCert" => o.target = s /\ o.secondary = t
  BY <1>4, OpFields
<1>9. \/ rows' = rows
      \/ /\ rows' = Staging(rows, o, NoNode)
         /\ type = "webServerCert" => cf[s] = "Issuing" /\ IsWhole(ds, s, t)
  <2>1. CASE type = "caHierarchy"
    BY <2>1 DEF Connect
  <2>2. CASE type = "webServerCert"
    <3>1. rows' = StagesPublication(s, t, ds)
      BY <2>2 DEF Connect
    <3>2. IsComplete([canvas EXCEPT !.edges = ds], s, t) <=> IsWhole(ds, s, t)
      <4>1. [canvas EXCEPT !.edges = ds].edges = ds
        BY DEF Fitting, DrawnInv, Shaped
      <4>. QED BY <4>1, WholeIsComplete
    <3>. QED BY <1>6, <2>2, <3>1, <3>2 DEF StagesPublication
  <2>. QED BY <1>4, <2>1, <2>2
<1>10. \/ rows' = rows
       \/ /\ type = "webServerCert" => cf[s] = "Issuing" /\ IsWhole(ds, s, t)
          /\ \E r : rows' = rows \cup {r} /\ r.op = o /\ r.status = "staged"
  BY <1>9, RowFields DEF Staging
<1>. HIDE DEF type, g, o
<1>11. \A r \in rows' \ rows :
          /\ r.op = o /\ r.status = "staged" /\ r.op.kind \in {"caConnect", "webServerCert"}
          /\ \E e \in ds : e.staged /\ OpOfEdge(e) = r.op
          /\ r.op.kind = "webServerCert" =>
                cf[r.op.target] = "Issuing" /\ IsWhole(ds, r.op.target, r.op.secondary)
  BY <1>5, <1>7, <1>8, <1>10
<1>12. rows \subseteq rows' /\ es \subseteq ds
  BY <1>10
<1>13. \A e \in ds : e.type = "caHierarchy" => e \in es \/ (canvas.type[e.source] = CA /\ cf[e.source] = "Root")
  BY <1>4, <1>5, <1>6
<1>. HIDE DEF ds
<1>14. Awaits(Nodes, canvas.type, cf, canvas.life, es, rows)
  BY DEF StillOpen, ListAwaits
<1>15. RowsFit(rows')
  BY <1>11, <1>12, <1>14 DEF Awaits, RowsFit, IsMirror, Synthesized, OpKinds
<1>16. StagedAreListed(Nodes, canvas.life, rows') /\ ClonesAwait(canvas.life, rows')
  BY <1>11, <1>12, <1>14 DEF Awaits, StagedAreListed, ClonesAwait
<1>17. LeftHaveFailed(canvas.life, rows')
  BY <1>11, <1>12, <1>14 DEF Awaits, LeftHaveFailed, Synthesized
<1>18. GhostsAreDrawn(ds, rows')
  BY <1>11, <1>12, <1>14 DEF Awaits, GhostsAreDrawn
<1>19. CertsAreWhole(cf, ds, rows')
  BY <1>11, <1>12, <1>14 DEF Awaits, CertsAreWhole, IsWhole
<1>20. RootsIssue(canvas.type, cf, ds)
  BY <1>13, <1>14 DEF Awaits, RootsIssue
<1>21. ListAwaits'
  BY <1>2, <1>14, <1>15, <1>16, <1>17, <1>18, <1>19, <1>20 DEF ListAwaits, Awaits, Nodes
<1>. QED BY <1>2, <1>3, <1>21 DEF StillOpen, LivesFit

\* Cards are moved to other places.
LEMMA MovedAwaits ==
    ASSUME Fitting, StillOpen, NEW at, canvas' = [canvas EXCEPT !.at = at],
           fresh' = fresh, rows' = rows, plan' = plan, deploying' = deploying
    PROVE  StillOpen'
<1>1. /\ canvas'.nodes = canvas.nodes /\ canvas'.type = canvas.type
      /\ canvas'.config = canvas.config /\ canvas'.life = canvas.life
      /\ canvas'.edges = canvas.edges
  BY DEF Fitting, DrawnInv, Shaped
<1>. QED BY <1>1, AwaitsKept

LEMMA SameAwaits ==
    ASSUME StillOpen, canvas' = canvas, fresh' = fresh, rows' = rows, plan' = plan,
           deploying' = deploying
    PROVE  StillOpen'
BY AwaitsKept

\* applyDomainChanges.
LEMMA ChangesAwait ==
    ASSUME Fitting, StillOpen, NEW changes, ChangesFit(Nodes, changes), AppliesChanges(changes),
           ~deploying, deploying' = deploying, fresh' = fresh
    PROVE  StillOpen'
<1>. DEFINE es == canvas.edges
            ds == ChangedEdges(changes)
            left == RowsKept(changes)
<1>1. canvas' = [canvas EXCEPT !.edges = ds]
  BY DEF AppliesChanges
<1>2. /\ canvas'.nodes = canvas.nodes /\ canvas'.type = canvas.type /\ canvas'.life = canvas.life
      /\ canvas'.config = canvas.config /\ canvas'.edges = ds
  BY <1>1 DEF Fitting, DrawnInv, Shaped
<1>3. PICK place \in Injection(changes, 1..Cardinality(changes)) :
          rows' = left \cup RowsAdded(changes, place)
  BY DEF AppliesChanges, ChangedRows, RowsAdded, RowsKept
<1>. DEFINE new == RowsAdded(changes, place)
<1>4. ASSUME NEW r \in new
      PROVE  /\ r.op.kind \in {"domainJoin", "domainLeave"} /\ r.status = "staged"
             /\ r.op.kind = "domainLeave" => r.op.target # NoNode
             /\ r.op.kind = "domainJoin" => \E e \in ds : e.staged /\ OpOfEdge(e) = r.op
  <2>1. PICK ch \in changes : r \in RowsOf(ch, PlaceOf(place, ch))
    BY AddedFits DEF Fitting, ListTells
  <2>2. PlaceOf(place, ch) \in Nat
    BY PlacesAreApart DEF ChangesFit, Fitting, ListTells
  <2>3. /\ r.op.kind \in {"domainJoin", "domainLeave"} /\ r.status = "staged"
        /\ r.op.target = ch.node
        /\ r.op.kind = "domainJoin" =>
              ch.dc # NoNode /\ r.op = Op("domainJoin", ch.node, ch.dc)
    BY <2>1, <2>2, RowsOfChange DEF Joining
  <2>4. ch.node # NoNode
    BY DEF ChangesFit, StillOpen, LivesFit, Nodes
  <2>5. ASSUME r.op.kind = "domainJoin" PROVE \E e \in ds : e.staged /\ OpOfEdge(e) = r.op
    <3>. DEFINE e == JoinEdge(ch.node, ch.dc, TRUE)
    <3>1. e \in ds
      BY <2>3, <2>5 DEF ChangedEdges
    <3>2. e.staged /\ OpOfEdge(e) = Op("domainJoin", ch.node, ch.dc)
      BY DEF JoinEdge, Ghost, OpOfEdge
    <3>. QED BY <2>3, <2>5, <3>1, <3>2
  <2>. QED BY <2>3, <2>4, <2>5
<1>5. \A e \in ds : e \in es \/ e.type = "domainJoin"
  BY DEF ChangedEdges, Restored, JoinEdge, Ghost
<1>6. \A e \in es : ~(e.type = "domainJoin" /\ \E ch \in changes : e.source = ch.node) => e \in ds
  BY DEF ChangedEdges
<1>7. /\ \A r \in left : r \in rows /\ \A ch \in changes : ~(r.op.kind = "domainJoin" /\ r.op.target = ch.node)
      /\ \A r \in rows : r.op.kind # "domainJoin" => r \in left
  BY DEF RowsKept, StagedJoins
<1>. HIDE DEF ds, left, new
<1>8. rows' = left \cup new
  BY <1>3 DEF new, left
<1>9. Awaits(Nodes, canvas.type, canvas.config, canvas.life, es, rows)
  BY DEF StillOpen, ListAwaits
<1>10. \A e \in es : IsEdge(e)
  BY DEF Fitting, ListTells, Tells
<1>11. RowsFit(rows')
  <2>1. \A s \in rows' : Synthesized(s) => s \in left
    BY <1>4, <1>8 DEF Synthesized
  <2>2. \A s \in left : Synthesized(s) => IsMirror(rows', s)
    BY <1>7, <1>8, <1>9, CloneFields DEF Awaits, RowsFit, IsMirror
  <2>3. \A r \in rows' :
           /\ r.op.kind \in OpKinds
           /\ r.op.kind = "createVm" => r.deps = {}
           /\ r.op.kind \in {"createVm", "provision", "domainLeave"} => r.op.target # NoNode
    BY <1>4, <1>7, <1>8, <1>9 DEF Awaits, RowsFit, OpKinds
  <2>. QED BY <2>1, <2>2, <2>3 DEF RowsFit
<1>12. StagedAreListed(Nodes, canvas.life, rows')
  BY <1>7, <1>8, <1>9, CloneFields DEF Awaits, StagedAreListed
<1>13. ClonesAwait(canvas.life, rows') /\ LeftHaveFailed(canvas.life, rows')
  BY <1>4, <1>7, <1>8, <1>9 DEF Awaits, ClonesAwait, LeftHaveFailed, Synthesized
<1>14. GhostsAreDrawn(ds, rows')
  <2>. SUFFICES ASSUME NEW r \in rows', r.op.kind \in Relating
                PROVE  \E e \in ds : e.staged /\ OpOfEdge(e) = r.op
    BY DEF GhostsAreDrawn
  <2>1. CASE r \in new
    BY <1>4, <2>1 DEF Relating
  <2>2. CASE r \in left
    <3>1. PICK e \in es : e.staged /\ OpOfEdge(e) = r.op
      BY <1>7, <1>9, <2>2 DEF Awaits, GhostsAreDrawn
    <3>2. e \in ds
      BY <1>6, <1>7, <1>10, <2>2, <3>1, OpIsOfEdge
    <3>. QED BY <3>1, <3>2
  <2>. QED BY <1>8, <2>1, <2>2
<1>15. CertsAreWhole(canvas.config, ds, rows')
  BY <1>4, <1>6, <1>7, <1>8, <1>9 DEF Awaits, CertsAreWhole, IsWhole
<1>16. RootsIssue(canvas.type, canvas.config, ds)
  BY <1>5, <1>9 DEF Awaits, RootsIssue
<1>17. ListAwaits'
  BY <1>2, <1>9, <1>11, <1>12, <1>13, <1>14, <1>15, <1>16 DEF ListAwaits, Awaits, Nodes
<1>. QED BY <1>2, <1>17 DEF StillOpen, LivesFit

\* Rows are removed, and a card with its rows.
LEMMA RemovedAwaits ==
    ASSUME Fitting, StillOpen, NEW gone \in SUBSET rows, Closed(gone, rows), NEW past,
           Removes(gone, past), fresh' = fresh, deploying' = deploying, plan' = plan
    PROVE  StillOpen'
<1>1. canvas' = [canvas EXCEPT !.edges = EdgesWithout(gone, @), !.life = Unconfigured(gone, @)]
  BY DEF Removes
<1>2. /\ canvas'.nodes = canvas.nodes /\ canvas'.type = canvas.type
      /\ canvas'.config = canvas.config /\ canvas'.life = Unconfigured(gone, canvas.life)
      /\ canvas'.edges = EdgesWithout(gone, canvas.edges) /\ rows' = rows \ gone
  BY <1>1 DEF Fitting, DrawnInv, Shaped, Removes
<1>3. DOMAIN canvas'.life = DOMAIN canvas.life
  BY <1>2 DEF Unconfigured
<1>4. Nodes \subseteq DOMAIN canvas.life
  BY DEF StillOpen, LivesFit, Nodes
<1>5. Awaits(Nodes, canvas.type, canvas.config, Unconfigured(gone, canvas.life),
             EdgesWithout(gone, canvas.edges), rows \ gone)
  BY <1>4, UndoAwaits DEF Fitting, ListTells, StillOpen, ListAwaits
<1>6. ListAwaits'
  BY <1>2, <1>5 DEF ListAwaits, Nodes
<1>. QED BY <1>2, <1>3, <1>6 DEF StillOpen, LivesFit

LEMMA CardAwaits ==
    ASSUME Fitting, StillOpen, NEW n, NEW past, RemoveNode(n, past), ~strayed', fresh' = fresh,
           deploying' = deploying, plan' = plan
    PROVE  StillOpen'
<1>. DEFINE gone == NodeCascade(n)
            ds == EdgesWithout(gone, canvas.edges)
            kf == Unconfigured(gone, canvas.life)
            left == {e \in ds : n \notin {e.source, e.target}}
<1>1. canvas' = [canvas EXCEPT
                  !.nodes = @ \ {n},
                  !.edges = {e \in EdgesWithout(gone, @) : n \notin {e.source, e.target}},
                  !.life = Unconfigured(gone, @)]
  BY DEF RemoveNode
<1>2. /\ canvas'.nodes = canvas.nodes \ {n} /\ canvas'.type = canvas.type
      /\ canvas'.config = canvas.config /\ canvas'.life = kf
      /\ canvas'.edges = left /\ rows' = rows \ gone
  BY <1>1 DEF Fitting, DrawnInv, Shaped, RemoveNode
<1>3. DOMAIN kf = DOMAIN canvas.life
  BY DEF Unconfigured
<1>4. gone \in SUBSET rows /\ \A r \in rows \ gone : n \notin {r.op.target, r.op.secondary}
  BY CascadeIsListed DEF NodeCascade, Cascade, Referencing
<1>5. Closed(gone, rows)
  <2>1. Referencing(n) \in SUBSET rows
    BY DEF Referencing
  <2>. QED BY <2>1, CascadeIsClosed DEF NodeCascade, Fitting, ListTells, StillOpen, ListAwaits, Awaits
<1>6. \A r \in gone, s \in rows \ gone :
          ~(r.prev # NoNode /\ s.prev # NoNode /\ r.op.target = s.op.target)
  BY DEF RemoveNode, Strays, Halves
<1>7. Nodes \subseteq DOMAIN canvas.life
  BY DEF StillOpen, LivesFit, Nodes
<1>8. left = {e \in ds : n \notin {e.source, e.target}}
  OBVIOUS
<1>. HIDE DEF gone, left
<1>9. Tells(Nodes, canvas.config, ds, rows \ gone) /\ OneRowEach(rows \ gone)
  BY <1>4, <1>6, UndoTells, FewerRows DEF Fitting, ListTells
<1>10. Awaits(Nodes, canvas.type, canvas.config, kf, ds, rows \ gone)
  BY <1>4, <1>5, <1>7, UndoAwaits DEF Fitting, ListTells, StillOpen, ListAwaits
<1>. HIDE DEF ds, kf
<1>11. Awaits(Nodes \ {n}, canvas.type, canvas.config, kf, left, rows \ gone)
  BY <1>4, <1>8, <1>9, <1>10, DeletedAwaits
<1>12. ListAwaits'
  BY <1>2, <1>11 DEF ListAwaits, Nodes
<1>. QED BY <1>2, <1>3, <1>12 DEF StillOpen, LivesFit

-----------------------------------------------------------------------------
\* What is listed is sent, and what was sent ends.

\* prepareDeployPlan: the rows that are sent, one by one.
LEMMA PreparedFrom ==
    ASSUME NEW rs, NEW qs, qs = Prepared(rs, "pending")
    PROVE  /\ \A q \in qs : \E r \in rs :
                 /\ q.id = r.id /\ q.op = r.op /\ q.status = "pending" /\ r.status # "done"
                 /\ r.deps = {} => q.deps = {}
                 /\ q.id \in r.deps => q.id \in q.deps
                 /\ Synthesized(r) => \E s \in rs : ~Synthesized(s) /\ s.id = r.id /\ s.status # "done"
           /\ \A r \in rs : ~Synthesized(r) /\ r.status # "done" =>
                 \E q \in qs : q.id = r.id /\ q.op = r.op
<1>. DEFINE kept == {r \in Resettable(rs) :
                       Synthesized(r) => \E s \in Sent(Resettable(rs)) : s.id = r.id}
            ids == {s.id : s \in kept}
            f(r) == Row(r.id, r.op, "pending", r.deps \cap ids, r.prev)
<1>1. qs = {f(r) : r \in kept}
  BY DEF Prepared
<1>2. \A r : f(r).id = r.id /\ f(r).op = r.op /\ f(r).status = "pending" /\ f(r).deps = r.deps \cap ids
  BY RowFields
<1>3. ASSUME NEW r \in kept
      PROVE  /\ r \in rs /\ r.status # "done" /\ r.id \in ids
             /\ Synthesized(r) => \E s \in rs : ~Synthesized(s) /\ s.id = r.id /\ s.status # "done"
  BY DEF Resettable, Sent
<1>4. \A r \in rs : ~Synthesized(r) /\ r.status # "done" => r \in kept
  BY DEF Resettable
<1>. HIDE DEF f, kept, ids
<1>5. ASSUME NEW q \in qs
      PROVE  \E r \in rs :
                 /\ q.id = r.id /\ q.op = r.op /\ q.status = "pending" /\ r.status # "done"
                 /\ r.deps = {} => q.deps = {}
                 /\ q.id \in r.deps => q.id \in q.deps
                 /\ Synthesized(r) => \E s \in rs : ~Synthesized(s) /\ s.id = r.id /\ s.status # "done"
  <2>1. PICK r \in kept : q = f(r)
    BY <1>1
  <2>. QED BY <1>2, <1>3, <2>1
<1>6. \A r \in rs : ~Synthesized(r) /\ r.status # "done" => \E q \in qs : q.id = r.id /\ q.op = r.op
  BY <1>1, <1>2, <1>4
<1>. QED BY <1>5, <1>6

\* Rows qs relate cards as rows rs did, and no row of theirs has its edge coloured by one of
\* ss that is done.
RelateAs(rs, qs) == \A q \in qs : q.op.kind \in Relating => \E r \in rs : q.op = r.op
GhostsLast(qs, ss) ==
    \A q \in qs, e \in canvas.edges, s \in ss :
        (/\ q.op.kind \in Relating /\ OpOfEdge(e) = q.op
         /\ e \in OperationEdges(s, canvas.edges)) => s.status # "done"

\* The edges that rows colour: none of those that a row is of that is not done loses its ghost.
LEMMA ShownAwaits ==
    ASSUME NEW ty, NEW cf, NEW rs, NEW ss, NEW ds, Coloured(ss, ds),
           GhostsAreDrawn(canvas.edges, rs), CertsAreWhole(cf, canvas.edges, rs),
           RootsIssue(ty, cf, canvas.edges),
           NEW qs, RelateAs(rs, qs), GhostsLast(qs, ss)
    PROVE  GhostsAreDrawn(ds, qs) /\ CertsAreWhole(cf, ds, qs) /\ RootsIssue(ty, cf, ds)
<1>1. ASSUME NEW q \in qs, q.op.kind \in Relating
      PROVE  \E f \in ds : f.staged /\ OpOfEdge(f) = q.op
  <2>1. PICK e \in canvas.edges : e.staged /\ OpOfEdge(e) = q.op
    BY <1>1 DEF GhostsAreDrawn, RelateAs
  <2>2. PICK f \in ds : Colours(ss, e, f)
    BY DEF Coloured
  <2>3. \A s \in ss : e \in OperationEdges(s, canvas.edges) => s.status # "done"
    BY <1>1, <2>1 DEF GhostsLast
  <2>. QED BY <2>1, <2>2, <2>3 DEF Colours
<1>2. \A ca, web : IsWhole(canvas.edges, ca, web) => IsWhole(ds, ca, web)
  <2>. SUFFICES ASSUME NEW ca, NEW web, IsWhole(canvas.edges, ca, web) PROVE IsWhole(ds, ca, web)
    OBVIOUS
  <2>1. ASSUME NEW socket \in {"publication", "ocsp"}
        PROVE  \E f \in ds : /\ f.type = "webServerCert" /\ f.source = ca
                             /\ f.target = web /\ f.socket = socket
    <3>1. PICK e \in canvas.edges : /\ e.type = "webServerCert" /\ e.source = ca
                                    /\ e.target = web /\ e.socket = socket
      BY DEF IsWhole
    <3>2. PICK f \in ds : Colours(ss, e, f)
      BY DEF Coloured
    <3>. QED BY <3>1, <3>2 DEF Colours
  <2>. QED BY <2>1 DEF IsWhole
<1>3. CertsAreWhole(cf, ds, qs)
  BY <1>2 DEF CertsAreWhole, Relating, RelateAs
<1>4. RootsIssue(ty, cf, ds)
  BY DEF RootsIssue, Coloured, Colours
<1>. QED BY <1>1, <1>3, <1>4 DEF GhostsAreDrawn

\* confirmDeploy, deploy: the rows.
LEMMA SentAwaits ==
    ASSUME Fitting, StillOpen, NEW qs, qs = Prepared(rows, "pending")
    PROVE  Awaits(Nodes, canvas.type, canvas.config, canvas.life, EdgesShown(qs), qs)
<1>. DEFINE ds == EdgesShown(qs)
            es == canvas.edges
<1>1. Awaits(Nodes, canvas.type, canvas.config, canvas.life, es, rows)
  BY DEF StillOpen, ListAwaits
<1>2. Coloured(qs, ds)
  BY ShownEdges DEF Fitting, ListTells, Tells, Coloured
<1>3. ASSUME NEW q \in qs
      PROVE  \E r \in rows :
                 /\ q.id = r.id /\ q.op = r.op /\ q.status = "pending" /\ r.status # "done"
                 /\ r.deps = {} => q.deps = {}
                 /\ q.id \in r.deps => q.id \in q.deps
                 /\ Synthesized(r) => \E s \in rows : ~Synthesized(s) /\ s.id = r.id /\ s.status # "done"
  BY PreparedFrom
<1>4. \A r \in rows : ~Synthesized(r) /\ r.status # "done" => \E q \in qs : q.id = r.id /\ q.op = r.op
  BY PreparedFrom
<1>. HIDE DEF ds
<1>5. RowsFit(qs)
  <2>1. ASSUME NEW q \in qs
        PROVE  /\ q.op.kind \in OpKinds
               /\ q.op.kind = "createVm" => q.deps = {}
               /\ q.op.kind \in {"createVm", "provision", "domainLeave"} => q.op.target # NoNode
    <3>1. PICK r \in rows : q.op = r.op /\ (r.deps = {} => q.deps = {})
      BY <1>3
    <3>2. /\ r.op.kind \in OpKinds
          /\ r.op.kind = "createVm" => r.deps = {}
          /\ r.op.kind \in {"createVm", "provision", "domainLeave"} => r.op.target # NoNode
      BY <1>1 DEF Awaits, RowsFit
    <3>3. IsRow(q)
      BY PreparedRows DEF OneRowEach, Fitting, ListTells
    <3>. QED BY <3>1, <3>2
  <2>2. ASSUME NEW q \in qs, Synthesized(q) PROVE IsMirror(qs, q)
    <3>1. PICK r \in rows :
              /\ q.id = r.id /\ q.op = r.op
              /\ q.id \in r.deps => q.id \in q.deps
              /\ Synthesized(r) => \E s \in rows : ~Synthesized(s) /\ s.id = r.id /\ s.status # "done"
      BY <1>3
    <3>2. Synthesized(r)
      BY <2>2, <3>1 DEF Synthesized
    <3>3. r.id \in r.deps /\ \E c \in rows : c.id = r.id /\ c.op = Create(r.op.target)
      BY <1>1, <3>2 DEF Awaits, RowsFit, IsMirror
    <3>4. PICK c \in rows : c.id = r.id /\ c.op = Create(r.op.target)
      BY <3>3
    <3>5. PICK s \in rows : ~Synthesized(s) /\ s.id = r.id /\ s.status # "done"
      BY <3>1, <3>2
    <3>6. c = s
      <4>1. c.op.kind = "createVm"
        BY <3>4, CloneFields
      <4>2. c \in Sent(rows) /\ s \in Sent(rows)
        BY <3>5, <4>1 DEF Sent, Synthesized
      <4>. QED BY <3>4, <3>5, <4>2 DEF Fitting, ListTells, OneRowEach
    <3>7. PICK d \in qs : d.id = s.id /\ d.op = s.op
      BY <1>4, <3>5
    <3>. QED BY <3>1, <3>3, <3>4, <3>6, <3>7 DEF IsMirror
  <2>. QED BY <2>1, <2>2 DEF RowsFit
<1>6. StagedAreListed(Nodes, canvas.life, qs)
  <2>. SUFFICES ASSUME NEW n \in Nodes, canvas.life[n] = "staged" PROVE \E q \in qs : q.op = Create(n)
    BY DEF StagedAreListed
  <2>1. PICK r \in rows : r.op = Create(n)
    BY <1>1 DEF Awaits, StagedAreListed
  <2>2. r.op.kind = "createVm" /\ r.op.target = n
    BY <2>1, CloneFields
  <2>3. ~Synthesized(r) /\ r.status # "done"
    BY <1>1, <2>2 DEF Awaits, LeftHaveFailed, Synthesized
  <2>. QED BY <1>4, <2>1, <2>3
<1>7. ClonesAwait(canvas.life, qs)
  BY <1>1, <1>3 DEF Awaits, ClonesAwait
<1>8. LeftHaveFailed(canvas.life, qs)
  BY <1>1, <1>3 DEF Awaits, LeftHaveFailed, Synthesized
<1>9. GhostsAreDrawn(ds, qs) /\ CertsAreWhole(canvas.config, ds, qs) /\ RootsIssue(canvas.type, canvas.config, ds)
  <2>1. \A q \in qs : q.status # "done" /\ \E r \in rows : q.op = r.op
    BY <1>3
  <2>2. /\ GhostsAreDrawn(es, rows) /\ CertsAreWhole(canvas.config, es, rows)
        /\ RootsIssue(canvas.type, canvas.config, es)
    BY <1>1 DEF Awaits
  <2>3. RelateAs(rows, qs) /\ GhostsLast(qs, qs)
    BY <2>1 DEF RelateAs, GhostsLast
  <2>. QED BY <1>2, <2>2, <2>3, ShownAwaits
<1>. QED BY <1>1, <1>5, <1>6, <1>7, <1>8, <1>9 DEF Awaits, ds

\* What fails with a row: no clone but the one that fails itself, and the provision rows of
\* that one.
LEMMA ClonesCascade ==
    ASSUME NEW t, NEW rs, \A r \in rs : IsRow(r) /\ r.status = "pending", NEW row \in rs, NEW x \in rs
    PROVE  /\ x.op.kind = "createVm" => x \notin Cascaded(t, rs, row)
           /\ x.op.kind = "provision" /\ x \in Cascaded(t, rs, row) => row.op = Create(x.op.target)
           /\ x.op.kind = "provision" /\ row.op = Create(x.op.target) => x \in Cascaded(t, rs, row)
<1>. DEFINE needed == [r \in {s \in rs : s.status = "pending"} |-> NeededBy(t, rs, r)]
            With(S) == S \cup {r \in DOMAIN needed : needed[r] \cap S # {}}
            Early(S) == \A y \in S :
                /\ y \in rs
                /\ y.op.kind = "createVm" => y = row
                /\ y.op.kind = "provision" => y = row \/ row.op = Create(y.op.target)
<1>1. \A S, y : y \in With(S) <=>
          y \in S \/ (y \in rs /\ \E s \in S \cap rs : s.op \in Needs(t, y.op))
  BY DEF NeededBy, Dependencies, OpsOf
<1>2. Cascaded(t, rs, row) = With(With(With(With(With({row}))))) \ {row}
  BY DEF Cascaded
<1>. HIDE DEF With
<1>3. Early({row})
  OBVIOUS
<1>4. ASSUME NEW S, Early(S) PROVE Early(With(S))
  <2>. SUFFICES ASSUME NEW y \in With(S), y \notin S
                PROVE  /\ y \in rs
                       /\ y.op.kind = "createVm" => y = row
                       /\ y.op.kind = "provision" => y = row \/ row.op = Create(y.op.target)
    BY <1>4
  <2>1. y \in rs
    BY <1>1
  <2>2. PICK s \in S \cap rs : s.op \in Needs(t, y.op)
    BY <1>1
  <2>3. y.op.kind # "createVm"
    BY <2>2 DEF Needs
  <2>4. ASSUME y.op.kind = "provision" PROVE row.op = Create(y.op.target)
    <3>1. s.op = Create(y.op.target)
      BY <2>2, <2>4 DEF Needs
    <3>2. s = row
      BY <1>4, <3>1, CloneFields
    <3>. QED BY <3>1, <3>2
  <2>. QED BY <2>1, <2>3, <2>4
<1>5. Early(With(With(With(With(With({row}))))))
  BY <1>3, <1>4
<1>6. ASSUME x \in Cascaded(t, rs, row)
      PROVE  /\ x.op.kind # "createVm"
             /\ x.op.kind = "provision" => row.op = Create(x.op.target)
  BY <1>2, <1>5, <1>6
<1>7. ASSUME x.op.kind = "provision", row.op = Create(x.op.target) PROVE x \in Cascaded(t, rs, row)
  <2>1. row.op \in Needs(t, x.op)
    BY <1>7 DEF Needs
  <2>2. x \in With({row})
    BY <1>1, <2>1
  <2>3. x \in With(With(With(With(With({row})))))
    BY <1>1, <2>2
  <2>4. x # row
    BY <1>7, CloneFields
  <2>. QED BY <1>2, <2>3, <2>4
<1>. QED BY <1>6, <1>7

\* The provision rows of a plan, and their clones.
LEMMA MirrorsOfPlan ==
    ASSUME NEW rs, OneRowEach(rs), RowsFit(rs),
           NEW m \in rs \cup Mirrors(rs), Synthesized(m), NEW r \in rs \cup Mirrors(rs),
           r.op.kind = "createVm", m.id = r.id
    PROVE  r.op = Create(m.op.target)
<1>1. \A s \in Mirrors(rs) : s.op.kind = "provision"
  BY MirrorRows
<1>2. r \in rs /\ r \in Sent(rs) /\ IsRow(r)
  BY <1>1 DEF Sent, Synthesized, OneRowEach
<1>3. CASE m \in rs
  <2>1. PICK c \in rs : c.id = m.id /\ c.op = Create(m.op.target)
    BY <1>3 DEF RowsFit, IsMirror
  <2>2. c.op.kind = "createVm"
    BY <2>1, CloneFields
  <2>3. c = r
    BY <1>2, <2>1, <2>2 DEF OneRowEach, Sent, Synthesized
  <2>. QED BY <2>1, <2>3
<1>4. CASE m \in Mirrors(rs)
  <2>1. PICK c \in rs : c.op.kind = "createVm" /\ m.id = c.id /\ m.op.target = c.op.target
    BY <1>4, MirrorRows
  <2>2. c = r
    BY <1>2, <2>1 DEF OneRowEach, Sent, Synthesized
  <2>. QED BY <1>2, <2>1, <2>2, CloneOp
<1>. QED BY <1>3, <1>4

LEMMA OutcomeClones ==
    ASSUME NEW rs, OneRowEach(rs), RowsFit(rs), \A r \in rs : r.status = "pending",
           NEW ps \in Outcomes(rs)
    PROVE  PlanClones(ps)
<1>. DEFINE all == rs \cup Mirrors(rs)
            t == DeployTopology(canvas)
<1>1. \A r \in all : IsRow(r) /\ r.status = "pending"
  <2>1. OneRowEach(all)
    BY MirroredRows
  <2>2. \A m \in Mirrors(rs) : m.status = "pending"
    BY MirrorRows
  <2>. QED BY <2>1, <2>2 DEF OneRowEach
<1>2. \A r, s \in all : ~Synthesized(r) /\ r.op = s.op => r = s
  <2>1. OneRowEach(all)
    BY MirroredRows
  <2>. QED BY <2>1 DEF OneRowEach, Sent, Synthesized
<1>3. ASSUME NEW r \in all, r.op.kind = "createVm"
      PROVE  \E m \in all : m.id = r.id /\ m.op = Provision(r.op.target)
  <2>1. r \in rs
    BY <1>3, MirrorRows
  <2>. DEFINE m == Row(r.id, Provision(r.op.target), "pending", {r.id}, NoNode)
  <2>2. m \in Mirrors(rs)
    BY <1>3, <2>1 DEF Mirrors
  <2>3. m.id = r.id /\ m.op = Provision(r.op.target)
    BY RowFields
  <2>. QED BY <2>2, <2>3
<1>4. \A m, r \in all : m.op.kind = "provision" /\ r.op.kind = "createVm" /\ m.id = r.id =>
          r.op = Create(m.op.target)
  BY MirrorsOfPlan DEF Synthesized
<1>5. \/ ps = {[r EXCEPT !.status = "done"] : r \in all}
      \/ \E row \in all :
            ps = {[r EXCEPT !.status =
                      IF r = row THEN "error"
                      ELSE IF r \in Cascaded(t, all, row) THEN "cancelled" ELSE "done"] : r \in all}
  BY DEF Outcomes
<1>. HIDE DEF all, t
<1>6. CASE ps = {[r EXCEPT !.status = "done"] : r \in all}
  <2>1. \A p \in ps : \E r \in all : p.id = r.id /\ p.op = r.op /\ p.status = "done"
    <3>. TAKE p \in ps
    <3>1. PICK r \in all : p = [r EXCEPT !.status = "done"]
      BY <1>6
    <3>. QED BY <1>1, <3>1, RewrittenRow
  <2>2. ASSUME NEW r \in all PROVE \E p \in ps : p.id = r.id /\ p.op = r.op
    <3>1. PICK p \in ps : p = [r EXCEPT !.status = "done"]
      BY <1>6
    <3>. QED BY <1>1, <3>1, RewrittenRow
  <2>3. ASSUME NEW q \in ps, q.op.kind = "createVm"
        PROVE  \E p \in ps : p.id = q.id /\ p.op = Provision(q.op.target)
    <3>1. PICK r \in all : q.id = r.id /\ q.op = r.op
      BY <2>1
    <3>2. PICK m \in all : m.id = r.id /\ m.op = Provision(r.op.target)
      BY <1>3, <2>3, <3>1
    <3>3. PICK p \in ps : p.id = m.id /\ p.op = m.op
      BY <2>2
    <3>. QED BY <3>1, <3>2, <3>3
  <2>. QED BY <2>1, <2>3 DEF PlanClones
<1>7. ASSUME NEW row \in all,
             ps = {[r EXCEPT !.status =
                      IF r = row THEN "error"
                      ELSE IF r \in Cascaded(t, all, row) THEN "cancelled" ELSE "done"] : r \in all}
      PROVE  PlanClones(ps)
  <2>. DEFINE end(r) == IF r = row THEN "error"
                        ELSE IF r \in Cascaded(t, all, row) THEN "cancelled" ELSE "done"
  <2>1. ps = {[r EXCEPT !.status = end(r)] : r \in all}
    BY <1>7
  <2>2. /\ \A r \in all : r.op.kind = "createVm" => end(r) = IF r = row THEN "error" ELSE "done"
        /\ \A m \in all : m.op.kind = "provision" =>
              IF row.op = Create(m.op.target) THEN end(m) = "cancelled" ELSE end(m) \in {"done", "error"}
    <3>1. \A r \in all : /\ r.op.kind = "createVm" => r \notin Cascaded(t, all, row)
                         /\ r.op.kind = "provision" =>
                               (r \in Cascaded(t, all, row) <=> row.op = Create(r.op.target))
      BY <1>1, ClonesCascade
    <3>2. \A m \in all : m.op.kind = "provision" /\ row.op = Create(m.op.target) => m # row
      BY CloneFields
    <3>. QED BY <3>1, <3>2
  <2>. HIDE DEF end
  <2>3. \A p \in ps : \E r \in all : p.id = r.id /\ p.op = r.op /\ p.status = end(r)
    <3>. TAKE p \in ps
    <3>1. PICK r \in all : p = [r EXCEPT !.status = end(r)]
      BY <2>1
    <3>. QED BY <1>1, <3>1, RewrittenRow
  <2>4. ASSUME NEW r \in all PROVE \E p \in ps : p.id = r.id /\ p.op = r.op
    <3>1. PICK p \in ps : p = [r EXCEPT !.status = end(r)]
      BY <2>1
    <3>. QED BY <1>1, <3>1, RewrittenRow
  <2>5. ASSUME NEW q \in ps, q.op.kind = "createVm"
        PROVE  /\ q.status \in {"done", "error"}
               /\ \E p \in ps : p.id = q.id /\ p.op = Provision(q.op.target)
    <3>1. PICK r \in all : q.id = r.id /\ q.op = r.op /\ q.status = end(r)
      BY <2>3
    <3>2. PICK m \in all : m.id = r.id /\ m.op = Provision(r.op.target)
      BY <1>3, <2>5, <3>1
    <3>3. PICK p \in ps : p.id = m.id /\ p.op = m.op
      BY <2>4
    <3>. QED BY <2>2, <2>5, <3>1, <3>2, <3>3
  <2>6. ASSUME NEW p \in ps, NEW q \in ps, p.op.kind = "provision", q.op.kind = "createVm", p.id = q.id
        PROVE  IF q.status = "done" THEN p.status \in {"done", "error"} ELSE p.status = "cancelled"
    <3>1. PICK m \in all : p.id = m.id /\ p.op = m.op /\ p.status = end(m)
      BY <2>3
    <3>2. PICK r \in all : q.id = r.id /\ q.op = r.op /\ q.status = end(r)
      BY <2>3
    <3>3. r.op = Create(m.op.target)
      BY <1>4, <2>6, <3>1, <3>2
    <3>4. r = row <=> row.op = Create(m.op.target)
      BY <1>2, <2>6, <3>2, <3>3 DEF Synthesized
    <3>. QED BY <2>2, <2>6, <3>1, <3>2, <3>4
  <2>. QED BY <2>5, <2>6 DEF PlanClones
<1>. QED BY <1>5, <1>6, <1>7

\* confirmDeploy, deploy.
LEMMA ReviewAwaits ==
    ASSUME Fitting, StillOpen, ConfirmReview
    PROVE  StillOpen'
<1>1. fresh' = fresh
  BY DEF ConfirmReview, Answered
<1>2. CASE deploying \/ rows = {}
  <2>1. canvas' = canvas /\ rows' = rows /\ plan' = plan /\ deploying' = deploying
    BY <1>2 DEF ConfirmReview
  <2>. QED BY <1>1, <2>1, SameAwaits
<1>3. CASE ~deploying /\ rows # {}
  <2>. DEFINE sent == Prepared(rows, "pending")
              ds == EdgesShown(sent)
  <2>1. /\ canvas' = [canvas EXCEPT !.edges = ds] /\ rows' = sent
        /\ plan' = {} \/ plan' \in Outcomes(sent)
    BY <1>3 DEF ConfirmReview
  <2>2. /\ canvas'.nodes = canvas.nodes /\ canvas'.type = canvas.type /\ canvas'.life = canvas.life
        /\ canvas'.config = canvas.config /\ canvas'.edges = ds
    BY <2>1 DEF Fitting, DrawnInv, Shaped
  <2>3. Awaits(Nodes, canvas.type, canvas.config, canvas.life, ds, sent)
    BY SentAwaits
  <2>4. OneRowEach(sent) /\ \A r \in sent : r.status = "pending"
    BY PreparedRows DEF Fitting, ListTells
  <2>. HIDE DEF sent, ds
  <2>5. PlanClones(plan')
    <3>1. CASE plan' = {}
      BY <3>1 DEF PlanClones
    <3>2. CASE plan' \in Outcomes(sent)
      BY <2>3, <2>4, <3>2, OutcomeClones DEF Awaits
    <3>. QED BY <2>1, <3>1, <3>2
  <2>6. ListAwaits'
    BY <2>1, <2>2, <2>3 DEF ListAwaits, Nodes
  <2>. QED BY <1>1, <2>2, <2>5, <2>6 DEF StillOpen, LivesFit
<1>. QED BY <1>2, <1>3

\* The rows of a plan that ends, and what they end as.
PlanRows == rows \cup Mirrors(rows)
EndedRows == {EndOf(r) : r \in PlanRows}

LEMMA PlanRowFields ==
    ASSUME OneRowEach(rows), RowsFit(rows)
    PROVE  /\ OneRowEach(PlanRows) /\ rows \subseteq PlanRows
           /\ \A r \in PlanRows : r \in rows \/ Synthesized(r)
           /\ \A m \in PlanRows : Synthesized(m) =>
                 /\ m.id \in m.deps
                 /\ \E c \in rows : c.id = m.id /\ c.op = Create(m.op.target)
           /\ \A c \in rows : c.op.kind = "createVm" =>
                 \E m \in PlanRows : m.id = c.id /\ m.op = Provision(c.op.target)
<1>1. OneRowEach(PlanRows)
  BY MirroredRows DEF PlanRows
<1>2. \A r \in PlanRows : r \in rows \/ Synthesized(r)
  BY MirrorRows DEF PlanRows, Synthesized
<1>3. ASSUME NEW m \in PlanRows, Synthesized(m)
      PROVE  m.id \in m.deps /\ \E c \in rows : c.id = m.id /\ c.op = Create(m.op.target)
  <2>1. CASE m \in rows
    BY <1>3, <2>1 DEF RowsFit, IsMirror
  <2>2. CASE m \in Mirrors(rows)
    <3>1. PICK c \in rows : /\ c.op.kind = "createVm" /\ m.id = c.id
                            /\ m.deps = {m.id} /\ m.op.target = c.op.target
      BY <2>2, MirrorRows
    <3>2. c.op = Create(c.op.target)
      BY <3>1, CloneOp DEF OneRowEach
    <3>. QED BY <3>1, <3>2
  <2>. QED BY <2>1, <2>2 DEF PlanRows
<1>4. ASSUME NEW c \in rows, c.op.kind = "createVm"
      PROVE  \E m \in PlanRows : m.id = c.id /\ m.op = Provision(c.op.target)
  <2>. DEFINE m == Row(c.id, Provision(c.op.target), "pending", {c.id}, NoNode)
  <2>1. m \in PlanRows
    BY <1>4 DEF Mirrors, PlanRows
  <2>2. m.id = c.id /\ m.op = Provision(c.op.target)
    BY RowFields
  <2>. QED BY <2>1, <2>2
<1>. QED BY <1>1, <1>2, <1>3, <1>4 DEF PlanRows

LEMMA EndedClones ==
    ASSUME OneRowEach(rows), RowsFit(rows), PlanFits(rows, plan), PlanClones(plan), plan # {}
    PROVE  /\ \A c \in rows : c.op.kind = "createVm" => EndOf(c).status \in {"done", "error"}
           /\ \A m \in PlanRows, c \in rows :
                 Synthesized(m) /\ c.op.kind = "createVm" /\ m.id = c.id =>
                     IF EndOf(c).status = "done" THEN EndOf(m).status \in {"done", "error"}
                     ELSE EndOf(m).status = "cancelled"
<1>1. ASSUME NEW r \in PlanRows
      PROVE  \E p \in plan : p.id = r.id /\ p.op = r.op /\ EndOf(r).status = p.status
  <2>1. \E p \in plan : p.id = r.id /\ p.op = r.op
    <3>1. CASE r \in rows
      BY <3>1 DEF PlanFits
    <3>2. CASE r \in Mirrors(rows)
      <4>1. PICK c \in rows : c.op.kind = "createVm" /\ r.id = c.id /\ r.op = Provision(c.op.target)
        BY <3>2, MirrorRows
      <4>2. PICK q \in plan : q.id = c.id /\ q.op = c.op
        BY DEF PlanFits
      <4>. QED BY <4>1, <4>2 DEF PlanClones
    <3>. QED BY <3>1, <3>2 DEF PlanRows
  <2>2. IsRow(r)
    BY PlanRowFields DEF OneRowEach
  <2>. QED BY <2>1, <2>2, EndedRow
<1>2. rows \subseteq PlanRows
  BY PlanRowFields
<1>3. ASSUME NEW c \in rows, c.op.kind = "createVm" PROVE EndOf(c).status \in {"done", "error"}
  <2>1. PICK p \in plan : p.id = c.id /\ p.op = c.op /\ EndOf(c).status = p.status
    BY <1>1, <1>2
  <2>. QED BY <1>3, <2>1 DEF PlanClones
<1>4. ASSUME NEW m \in PlanRows, NEW c \in rows, Synthesized(m), c.op.kind = "createVm", m.id = c.id
      PROVE  IF EndOf(c).status = "done" THEN EndOf(m).status \in {"done", "error"}
             ELSE EndOf(m).status = "cancelled"
  <2>1. PICK p \in plan : p.id = m.id /\ p.op = m.op /\ EndOf(m).status = p.status
    BY <1>1
  <2>2. PICK q \in plan : q.id = c.id /\ q.op = c.op /\ EndOf(c).status = q.status
    BY <1>1, <1>2
  <2>. QED BY <1>4, <2>1, <2>2 DEF PlanClones, Synthesized
<1>. QED BY <1>3, <1>4

\* What the cards show when a plan has ended.
LEMMA EndedLives ==
    ASSUME OneRowEach(rows), RowsFit(rows), PlanFits(rows, plan), PlanClones(plan), plan # {},
           NEW n, NEW shown
    PROVE  /\ Create(n) \notin OpsOf(rows) => LifeShown(EndedRows, n, shown) = shown
           /\ Create(n) \in OpsOf(rows) => LifeShown(EndedRows, n, shown) # "staged"
           /\ \A r \in PlanRows : r.op \in {Create(n), Provision(n)} /\ EndOf(r).status = "error" =>
                 LifeShown(EndedRows, n, shown) = "failed"
<1>. DEFINE clone == StatusOf(EndedRows, Create(n))
            provision == StatusOf(EndedRows, Provision(n))
            life == LifeShown(EndedRows, n, shown)
<1>1. \A r \in PlanRows : EndOf(r).op = r.op
  <2>1. \A r \in PlanRows : IsRow(r)
    BY PlanRowFields DEF OneRowEach
  <2>. QED BY <2>1, EndedRow
<1>2. \A o, st : st \in StatusOf(EndedRows, o) <=> \E r \in PlanRows : r.op = o /\ EndOf(r).status = st
  BY <1>1 DEF StatusOf, EndedRows
<1>3. life = IF "error" \in clone \cup provision THEN "failed"
             ELSE IF "done" \in provision THEN RealizedLife(EndedRows, n)
             ELSE IF "done" \in clone THEN "provisioning" ELSE shown
  BY DEF LifeShown
<1>4. RealizedLife(EndedRows, n) \in {"failed", "deployed", "provisioning"}
  BY DEF RealizedLife
<1>. HIDE DEF clone, provision, life
<1>5. /\ \A st : st \in clone <=> \E r \in PlanRows : r.op = Create(n) /\ EndOf(r).status = st
      /\ \A st : st \in provision <=> \E r \in PlanRows : r.op = Provision(n) /\ EndOf(r).status = st
  BY <1>2 DEF clone, provision
<1>6. ASSUME Create(n) \notin OpsOf(rows) PROVE life = shown
  <2>1. clone = {}
    <3>1. \A r \in PlanRows : r.op # Create(n)
      BY <1>6, PlanRowFields, CloneFields DEF OpsOf, Synthesized
    <3>. QED BY <1>5, <3>1
  <2>2. provision = {}
    <3>1. \A r \in PlanRows : r.op # Provision(n)
      BY <1>6, PlanRowFields, CloneFields DEF OpsOf, Synthesized
    <3>. QED BY <1>5, <3>1
  <2>. QED BY <1>3, <2>1, <2>2
<1>7. ASSUME Create(n) \in OpsOf(rows) PROVE life # "staged"
  <2>1. PICK c \in rows : c.op = Create(n)
    BY <1>7 DEF OpsOf
  <2>2. c \in PlanRows /\ EndOf(c).status \in {"done", "error"}
    BY <2>1, PlanRowFields, EndedClones, CloneFields
  <2>3. clone \cap {"done", "error"} # {}
    BY <1>5, <2>1, <2>2
  <2>. QED BY <1>3, <1>4, <2>3
<1>8. \A r \in PlanRows : r.op \in {Create(n), Provision(n)} /\ EndOf(r).status = "error" =>
          life = "failed"
  BY <1>3, <1>5
<1>. QED BY <1>6, <1>7, <1>8 DEF life

\* finishDeploy: the rows that stay listed.
LEMMA LeftRows ==
    ASSUME OneRowEach(rows), RowsFit(rows), PlanFits(rows, plan), PlanClones(plan), plan # {},
           NEW qs, qs = Finished(EndedRows)
    PROVE  /\ OneRowEach(qs)
           /\ \A q \in qs : \E r \in PlanRows :
                 /\ q.op = r.op /\ q.id = r.id /\ q.deps = r.deps
                 /\ q.status = "done" <=> EndOf(r).status = "done"
                 /\ r.op.kind \in Relating \cup {"domainLeave"} => EndOf(r).status # "done"
                 /\ EndOf(r).status # "done" \/
                       \E m \in PlanRows : Synthesized(m) /\ m.id = r.id /\ EndOf(m).status = "error"
           /\ \A r \in PlanRows :
                 (EndOf(r).status # "done" \/
                       \E m \in PlanRows : Synthesized(m) /\ m.id = r.id /\ EndOf(m).status = "error")
                    => \E q \in qs : q.op = r.op /\ q.id = r.id
<1>. DEFINE failed == {s.id : s \in {e \in EndedRows : Synthesized(e) /\ e.status = "error"}}
<1>1. OneRowEach(PlanRows) /\ \A r \in PlanRows : r.status = "pending"
  <2>1. \A m \in Mirrors(rows) : m.status = "pending"
    BY MirrorRows
  <2>. QED BY <2>1, PlanRowFields DEF PlanFits, PlanRows
<1>2. ASSUME NEW r \in PlanRows
      PROVE  LET s == EndOf(r) IN /\ IsRow(s) /\ s.id = r.id /\ s.op = r.op /\ s.deps = r.deps
                                  /\ s \in EndedRows
  BY <1>1, EndedRow DEF OneRowEach, EndedRows
<1>3. ASSUME NEW r \in PlanRows
      PROVE  LET q == Kept(EndOf(r)) IN
             /\ q.id = r.id /\ q.op = r.op /\ q.deps = r.deps
             /\ q.status = "done" <=> EndOf(r).status = "done"
  BY <1>2, KeptRow
<1>4. \A i : i \in failed <=>
          \E m \in PlanRows : Synthesized(m) /\ m.id = i /\ EndOf(m).status = "error"
  <2>1. \A r \in PlanRows : Synthesized(EndOf(r)) <=> Synthesized(r)
    BY <1>2 DEF Synthesized
  <2>2. \A i : i \in failed <=>
            \E m \in PlanRows : Synthesized(EndOf(m)) /\ EndOf(m).id = i /\ EndOf(m).status = "error"
    BY DEF EndedRows
  <2>. QED BY <1>2, <2>1, <2>2
<1>5. qs = {Kept(s) : s \in {e \in EndedRows : e.status # "done" \/ e.id \in failed}}
  BY DEF Finished, Kept
<1>. HIDE DEF failed
<1>6. OneRowEach(qs)
  BY <1>1, FinishedRows DEF EndedRows
<1>7. ASSUME NEW q \in qs
      PROVE  \E r \in PlanRows : q = Kept(EndOf(r)) /\ (EndOf(r).status # "done" \/ r.id \in failed)
  <2>1. PICK s \in EndedRows : q = Kept(s) /\ (s.status # "done" \/ s.id \in failed)
    BY <1>5
  <2>2. PICK r \in PlanRows : s = EndOf(r)
    BY DEF EndedRows
  <2>. QED BY <1>2, <2>1, <2>2
<1>8. ASSUME NEW r \in PlanRows, EndOf(r).status # "done" \/ r.id \in failed
      PROVE  Kept(EndOf(r)) \in qs
  BY <1>2, <1>5, <1>8
<1>9. ASSUME NEW r \in PlanRows, r.op.kind \in Relating \cup {"domainLeave"}, r.id \in failed
      PROVE  FALSE
  <2>1. PICK m \in PlanRows : Synthesized(m) /\ m.id = r.id
    BY <1>4, <1>9
  <2>2. ~Synthesized(r)
    BY <1>9 DEF Synthesized, Relating
  <2>. QED BY <1>1, <1>9, <2>1, <2>2 DEF OneRowEach, Relating
<1>10. ASSUME NEW q \in qs
       PROVE  \E r \in PlanRows :
                 /\ q.op = r.op /\ q.id = r.id /\ q.deps = r.deps
                 /\ q.status = "done" <=> EndOf(r).status = "done"
                 /\ r.op.kind \in Relating \cup {"domainLeave"} => EndOf(r).status # "done"
                 /\ EndOf(r).status # "done" \/
                       \E m \in PlanRows : Synthesized(m) /\ m.id = r.id /\ EndOf(m).status = "error"
  <2>1. PICK r \in PlanRows : q = Kept(EndOf(r)) /\ (EndOf(r).status # "done" \/ r.id \in failed)
    BY <1>7
  <2>. QED BY <1>3, <1>4, <1>9, <2>1
<1>11. ASSUME NEW r \in PlanRows,
              EndOf(r).status # "done" \/
                 \E m \in PlanRows : Synthesized(m) /\ m.id = r.id /\ EndOf(m).status = "error"
       PROVE  \E q \in qs : q.op = r.op /\ q.id = r.id
  BY <1>3, <1>4, <1>8, <1>11
<1>. QED BY <1>6, <1>10, <1>11

\* The card of a row that stays listed failed, be it a clone or the mirror of one.
LEMMA LeftHasFailed ==
    ASSUME OneRowEach(rows), RowsFit(rows), PlanFits(rows, plan), PlanClones(plan), plan # {},
           NEW r \in PlanRows, r.op.kind \in {"createVm", "provision"}, NEW shown,
           EndOf(r).status # "done" \/
               \E m \in PlanRows : Synthesized(m) /\ m.id = r.id /\ EndOf(m).status = "error"
    PROVE  LifeShown(EndedRows, r.op.target, shown) = "failed"
<1>. DEFINE n == r.op.target
<1>1. PICK c \in rows : c.id = r.id /\ c.op = Create(n)
  <2>1. CASE r.op.kind = "createVm"
    <3>1. r \in rows /\ IsRow(r)
      BY <2>1, PlanRowFields DEF Synthesized, OneRowEach
    <3>. QED BY <2>1, <3>1, CloneOp
  <2>2. CASE r.op.kind = "provision"
    BY <2>2, PlanRowFields DEF Synthesized
  <2>. QED BY <2>1, <2>2
<1>2. c.op.kind = "createVm" /\ c \in PlanRows
  BY <1>1, CloneFields, PlanRowFields
<1>3. ASSUME NEW m \in PlanRows, Synthesized(m), m.id = r.id PROVE m.op = Provision(n)
  <2>1. PICK d \in rows : d.id = m.id /\ d.op = Create(m.op.target)
    BY <1>3, PlanRowFields
  <2>2. d = c
    <3>1. d.op.kind = "createVm"
      BY <2>1, CloneFields
    <3>. QED BY <1>1, <1>2, <1>3, <2>1, <3>1 DEF OneRowEach, Sent, Synthesized
  <2>3. m.op.target = n
    BY <1>1, <2>1, <2>2, CloneFields
  <2>4. IsRow(m)
    BY PlanRowFields DEF OneRowEach
  <2>. QED BY <1>3, <2>3, <2>4, CloneOp DEF Synthesized
<1>4. ASSUME NEW s \in PlanRows, s.op \in {Create(n), Provision(n)}, EndOf(s).status = "error"
      PROVE  LifeShown(EndedRows, n, shown) = "failed"
  BY <1>4, EndedLives
<1>5. CASE \E m \in PlanRows : Synthesized(m) /\ m.id = r.id /\ EndOf(m).status = "error"
  BY <1>3, <1>4, <1>5
<1>6. CASE EndOf(c).status = "error"
  BY <1>1, <1>2, <1>4, <1>6
<1>7. CASE EndOf(c).status # "error" /\ EndOf(r).status # "done"
  <2>1. EndOf(c).status = "done"
    BY <1>2, <1>7, EndedClones
  <2>2. Synthesized(r)
    <3>. SUFFICES ASSUME ~Synthesized(r) PROVE FALSE
      OBVIOUS
    <3>1. r \in rows
      BY PlanRowFields
    <3>2. r = c
      BY <1>1, <1>2, <3>1 DEF OneRowEach, Sent, Synthesized
    <3>. QED BY <1>7, <2>1, <3>2
  <2>3. EndOf(r).status = "error"
    BY <1>1, <1>2, <1>7, <2>1, <2>2, EndedClones
  <2>. QED BY <1>3, <1>4, <2>2, <2>3
<1>. QED BY <1>5, <1>6, <1>7

\* The edges that a plan leaves: the ones of listed rows are ghosts still.
LEMMA LeftEdges ==
    ASSUME Fitting, ListAwaits, PlanClones(plan), deploying, plan # {},
           NEW qs, qs = Finished(EndedRows), NEW ds, ds = EdgesShown(EndedRows)
    PROVE  /\ GhostsAreDrawn(ds, qs) /\ CertsAreWhole(canvas.config, ds, qs)
           /\ RootsIssue(canvas.type, canvas.config, ds)
<1>1. Tells(Nodes, canvas.config, canvas.edges, rows) /\ OneRowEach(rows) /\ PlanFits(rows, plan)
  BY DEF Fitting, ListTells
<1>2. /\ RowsFit(rows) /\ GhostsAreDrawn(canvas.edges, rows)
      /\ CertsAreWhole(canvas.config, canvas.edges, rows)
      /\ RootsIssue(canvas.type, canvas.config, canvas.edges)
  BY DEF ListAwaits, Awaits
<1>3. Coloured(EndedRows, ds)
  BY <1>1, ShownEdges DEF Tells, Coloured
<1>4. ASSUME NEW q \in qs, q.op.kind \in Relating
      PROVE  \E r \in rows : q.op = r.op /\ EndOf(r).status # "done"
  <2>1. PICK r \in PlanRows :
            /\ q.op = r.op
            /\ r.op.kind \in Relating \cup {"domainLeave"} => EndOf(r).status # "done"
    BY <1>1, <1>2, LeftRows
  <2>2. r \in rows
    BY <1>1, <1>2, <1>4, <2>1, PlanRowFields DEF Synthesized, Relating
  <2>. QED BY <1>4, <2>1, <2>2
<1>5. RelateAs(rows, qs)
  BY <1>4 DEF RelateAs
<1>6. GhostsLast(qs, EndedRows)
  <2>. SUFFICES ASSUME NEW q \in qs, NEW e \in canvas.edges, NEW s \in EndedRows,
                       q.op.kind \in Relating, OpOfEdge(e) = q.op,
                       e \in OperationEdges(s, canvas.edges)
                PROVE  s.status # "done"
    BY DEF GhostsLast
  <2>1. PICK r \in rows : q.op = r.op /\ EndOf(r).status # "done"
    BY <1>4
  <2>2. PICK j \in PlanRows : s = EndOf(j)
    BY DEF EndedRows
  <2>3. IsRow(s) /\ s.op = j.op
    <3>1. IsRow(j)
      BY <1>1, <1>2, PlanRowFields DEF OneRowEach
    <3>. QED BY <2>2, <3>1, EndedRow
  <2>4. s.op.kind = "caConnect" => s.op \in OpsOf(rows)
    BY <1>1, <1>2, <2>3, PlanRowFields DEF Synthesized, OpsOf
  <2>5. e.type = "webServerCert" => canvas.config[e.source] = "Issuing"
    <3>1. IsEdge(e)
      BY <1>1 DEF Tells
    <3>2. e.type = "webServerCert" => q.op.kind = "webServerCert" /\ q.op.target = e.source
      BY <3>1, OpIsOfEdge
    <3>. QED BY <1>2, <2>1, <3>2 DEF CertsAreWhole
  <2>6. s.op = q.op
    BY <1>1, <1>2, <2>3, <2>4, <2>5, OwnRows
  <2>7. j = r
    <3>1. OneRowEach(PlanRows) /\ r \in PlanRows
      BY <1>1, <1>2, PlanRowFields
    <3>2. r \in Sent(PlanRows) /\ j \in Sent(PlanRows)
      BY <2>1, <2>3, <2>6, <3>1 DEF Sent, Synthesized, Relating
    <3>. QED BY <2>1, <2>3, <2>6, <3>1, <3>2 DEF OneRowEach
  <2>. QED BY <2>1, <2>2, <2>7
<1>. QED BY <1>2, <1>3, <1>5, <1>6, ShownAwaits

\* applyPlanState and finishDeploy: the cards and the rows.
LEMMA LeftAwaits ==
    ASSUME Fitting, ListAwaits, PlanClones(plan), deploying, plan # {}, NoNode \notin Nodes,
           Nodes \subseteq DOMAIN canvas.life,
           NEW qs, qs = Finished(EndedRows), NEW ds, ds = EdgesShown(EndedRows),
           NEW kf, kf = [n \in DOMAIN canvas.life |->
                            IF n \in Nodes THEN LifeShown(EndedRows, n, canvas.life[n])
                            ELSE canvas.life[n]]
    PROVE  Awaits(Nodes, canvas.type, canvas.config, kf, ds, qs)
<1>. DEFINE lf == canvas.life
<1>1. Tells(Nodes, canvas.config, canvas.edges, rows) /\ OneRowEach(rows) /\ PlanFits(rows, plan)
  BY DEF Fitting, ListTells
<1>2. Awaits(Nodes, canvas.type, canvas.config, lf, canvas.edges, rows) /\ RowsFit(rows)
  BY DEF ListAwaits, Awaits
<1>3. \A n \in Nodes : kf[n] = LifeShown(EndedRows, n, lf[n])
  OBVIOUS
<1>4. ASSUME NEW r \in PlanRows, r.op.kind \in {"createVm", "provision"} PROVE r.op.target \in Nodes
  <2>1. PICK c \in rows : c.op.kind = "createVm" /\ c.op.target = r.op.target
    <3>1. CASE r \in rows /\ r.op.kind = "createVm"
      BY <3>1
    <3>2. CASE Synthesized(r)
      <4>1. PICK c \in rows : c.op = Create(r.op.target)
        BY <1>1, <1>2, <3>2, PlanRowFields
      <4>. QED BY <4>1, CloneFields
    <3>. QED BY <1>1, <1>2, <1>4, <3>1, <3>2, PlanRowFields DEF Synthesized
  <2>2. c.op.target # NoNode /\ c.op.target \in Nodes \cup {NoNode}
    BY <1>1, <1>2, <2>1 DEF RowsFit, Tells, RowsAreOfCards
  <2>. QED BY <2>1, <2>2
<1>5. ASSUME NEW n \in Nodes
      PROVE  /\ Create(n) \notin OpsOf(rows) => kf[n] = lf[n]
             /\ Create(n) \in OpsOf(rows) => kf[n] # "staged"
  BY <1>1, <1>2, <1>3, EndedLives
<1>6. ASSUME NEW q \in qs
      PROVE  \E r \in PlanRows :
                 /\ q.op = r.op /\ q.id = r.id /\ q.deps = r.deps
                 /\ EndOf(r).status # "done" \/
                       \E m \in PlanRows : Synthesized(m) /\ m.id = r.id /\ EndOf(m).status = "error"
  BY <1>1, <1>2, LeftRows
<1>7. ASSUME NEW q \in qs, q.op.kind \in {"createVm", "provision"} PROVE kf[q.op.target] = "failed"
  <2>1. PICK r \in PlanRows :
            /\ q.op = r.op
            /\ EndOf(r).status # "done" \/
                  \E m \in PlanRows : Synthesized(m) /\ m.id = r.id /\ EndOf(m).status = "error"
    BY <1>6
  <2>2. LifeShown(EndedRows, r.op.target, lf[r.op.target]) = "failed"
    BY <1>1, <1>2, <1>7, <2>1, LeftHasFailed
  <2>. QED BY <1>3, <1>4, <1>7, <2>1, <2>2
<1>8. RowsFit(qs)
  <2>1. ASSUME NEW q \in qs
        PROVE  /\ q.op.kind \in OpKinds
               /\ q.op.kind = "createVm" => q.deps = {}
               /\ q.op.kind \in {"createVm", "provision", "domainLeave"} => q.op.target # NoNode
    <3>1. PICK r \in PlanRows : q.op = r.op /\ q.deps = r.deps
      BY <1>6
    <3>2. CASE r \in rows
      BY <1>2, <3>1, <3>2 DEF RowsFit
    <3>3. CASE Synthesized(r)
      BY <1>4, <3>1, <3>3 DEF Synthesized, OpKinds
    <3>. QED BY <1>1, <1>2, <3>2, <3>3, PlanRowFields
  <2>2. ASSUME NEW q \in qs, Synthesized(q) PROVE IsMirror(qs, q)
    <3>1. PICK r \in PlanRows :
              /\ q.op = r.op /\ q.id = r.id /\ q.deps = r.deps
              /\ EndOf(r).status # "done" \/
                    \E m \in PlanRows : Synthesized(m) /\ m.id = r.id /\ EndOf(m).status = "error"
      BY <1>6
    <3>2. Synthesized(r)
      BY <2>2, <3>1 DEF Synthesized
    <3>3. r.id \in r.deps /\ \E c \in rows : c.id = r.id /\ c.op = Create(r.op.target)
      BY <1>1, <1>2, <3>2, PlanRowFields
    <3>4. PICK c \in rows : c.id = r.id /\ c.op = Create(r.op.target)
      BY <3>3
    <3>5. c.op.kind = "createVm" /\ c \in PlanRows
      BY <1>1, <1>2, <3>4, CloneFields, PlanRowFields
    <3>6. EndOf(c).status # "done" \/
             \E m \in PlanRows : Synthesized(m) /\ m.id = c.id /\ EndOf(m).status = "error"
      <4>. SUFFICES ASSUME EndOf(c).status = "done",
                           \A m \in PlanRows : Synthesized(m) /\ m.id = c.id => EndOf(m).status # "error"
                    PROVE  FALSE
        OBVIOUS
      <4>1. EndOf(r).status \in {"done", "error"}
        BY <1>1, <1>2, <3>2, <3>4, <3>5, EndedClones
      <4>. QED BY <3>1, <3>2, <3>4, <4>1
    <3>7. \E p \in qs : p.op = c.op /\ p.id = c.id
      BY <1>1, <1>2, <3>5, <3>6, LeftRows
    <3>. QED BY <3>1, <3>3, <3>4, <3>7 DEF IsMirror
  <2>. QED BY <2>1, <2>2 DEF RowsFit
<1>9. StagedAreListed(Nodes, kf, qs)
  <2>. SUFFICES ASSUME NEW n \in Nodes, kf[n] = "staged" PROVE FALSE
    BY DEF StagedAreListed
  <2>1. lf[n] = "staged" /\ Create(n) \notin OpsOf(rows)
    BY <1>5
  <2>. QED BY <1>2, <2>1 DEF Awaits, StagedAreListed, OpsOf
<1>10. ClonesAwait(kf, qs)
  BY <1>7 DEF ClonesAwait
<1>11. LeftHaveFailed(kf, qs)
  <2>. SUFFICES ASSUME NEW q \in qs, Synthesized(q) \/ q.status = "done" PROVE kf[q.op.target] = "failed"
    BY DEF LeftHaveFailed
  <2>1. OneRowEach(qs)
    BY <1>1, <1>2, LeftRows
  <2>2. q.op.kind \in {"createVm", "provision"}
    BY <1>8, <2>1 DEF RowsFit, OpKinds, OneRowEach, Relating, Synthesized
  <2>. QED BY <1>7, <2>2
<1>12. CasAreSet(Nodes, canvas.type, canvas.config, kf)
  <2>. SUFFICES ASSUME NEW n \in Nodes, kf[n] # "draft" PROVE lf[n] # "draft"
    BY <1>2 DEF Awaits, CasAreSet
  <2>1. CASE Create(n) \notin OpsOf(rows)
    BY <1>5, <2>1
  <2>2. CASE Create(n) \in OpsOf(rows)
    <3>1. PICK c \in rows : c.op = Create(n)
      BY <2>2 DEF OpsOf
    <3>. QED BY <1>2, <3>1, CloneFields DEF Awaits, ClonesAwait
  <2>. QED BY <2>1, <2>2
<1>13. /\ GhostsAreDrawn(ds, qs) /\ CertsAreWhole(canvas.config, ds, qs)
       /\ RootsIssue(canvas.type, canvas.config, ds)
  BY LeftEdges
<1>. QED BY <1>8, <1>9, <1>10, <1>11, <1>12, <1>13 DEF Awaits

\* A POST that is refused puts the list back.
LEMMA BackAwaits ==
    ASSUME Fitting, ListAwaits, NEW qs, qs = {[r EXCEPT !.status = "staged"] : r \in rows}
    PROVE  Awaits(Nodes, canvas.type, canvas.config, canvas.life, canvas.edges, qs)
<1>1. Awaits(Nodes, canvas.type, canvas.config, canvas.life, canvas.edges, rows)
  BY DEF ListAwaits
<1>2. ASSUME NEW r \in rows
      PROVE  LET q == [r EXCEPT !.status = "staged"] IN
             /\ q \in qs /\ q.id = r.id /\ q.op = r.op /\ q.deps = r.deps /\ q.status = "staged"
  BY RewrittenRow DEF Fitting, ListTells, OneRowEach
<1>3. ASSUME NEW q \in qs
      PROVE  \E r \in rows : q.id = r.id /\ q.op = r.op /\ q.deps = r.deps /\ q.status = "staged"
  <2>1. PICK r \in rows : q = [r EXCEPT !.status = "staged"]
    OBVIOUS
  <2>. QED BY <1>2, <2>1
<1>4. \A r \in rows : \E q \in qs : q.id = r.id /\ q.op = r.op
  BY <1>2
<1>5. RowsFit(qs)
  <2>1. ASSUME NEW q \in qs
        PROVE  /\ q.op.kind \in OpKinds
               /\ q.op.kind = "createVm" => q.deps = {}
               /\ q.op.kind \in {"createVm", "provision", "domainLeave"} => q.op.target # NoNode
    BY <1>1, <1>3 DEF Awaits, RowsFit
  <2>2. ASSUME NEW q \in qs, Synthesized(q) PROVE IsMirror(qs, q)
    <3>1. PICK r \in rows : q.id = r.id /\ q.op = r.op /\ q.deps = r.deps
      BY <1>3
    <3>2. r.id \in r.deps /\ \E c \in rows : c.id = r.id /\ c.op = Create(r.op.target)
      BY <1>1, <2>2, <3>1 DEF Awaits, RowsFit, IsMirror, Synthesized
    <3>3. PICK c \in rows : c.id = r.id /\ c.op = Create(r.op.target)
      BY <3>2
    <3>4. PICK d \in qs : d.id = c.id /\ d.op = c.op
      BY <1>4
    <3>. QED BY <3>1, <3>2, <3>3, <3>4 DEF IsMirror
  <2>. QED BY <2>1, <2>2 DEF RowsFit
<1>6. StagedAreListed(Nodes, canvas.life, qs)
  BY <1>1, <1>4 DEF Awaits, StagedAreListed
<1>7. ClonesAwait(canvas.life, qs) /\ LeftHaveFailed(canvas.life, qs)
  BY <1>1, <1>3 DEF Awaits, ClonesAwait, LeftHaveFailed, Synthesized
<1>8. GhostsAreDrawn(canvas.edges, qs) /\ CertsAreWhole(canvas.config, canvas.edges, qs)
  BY <1>1, <1>3 DEF Awaits, GhostsAreDrawn, CertsAreWhole
<1>. QED BY <1>1, <1>5, <1>6, <1>7, <1>8 DEF Awaits

\* applyPlanState and finishDeploy.
LEMMA DeployEndsAwaits ==
    ASSUME Fitting, StillOpen, DeployEnds
    PROVE  StillOpen'
<1>1. deploying /\ ~deploying' /\ fresh' = fresh
  BY DEF DeployEnds
<1>2. /\ NoNode \notin Nodes /\ Nodes \subseteq DOMAIN canvas.life /\ ListAwaits /\ PlanClones(plan)
  BY <1>1 DEF StillOpen, LivesFit, Nodes
<1>3. CASE plan = {}
  <2>1. rows' = {[r EXCEPT !.status = "staged"] : r \in rows} /\ canvas' = canvas
    BY <1>3 DEF DeployEnds
  <2>2. Awaits(Nodes, canvas.type, canvas.config, canvas.life, canvas.edges, rows')
    BY <1>2, <2>1, BackAwaits
  <2>3. ListAwaits'
    BY <2>1, <2>2 DEF ListAwaits, Nodes
  <2>. QED BY <1>1, <2>1, <2>3 DEF StillOpen, LivesFit
<1>4. CASE plan # {}
  <2>. DEFINE ds == EdgesShown(EndedRows)
              kf == [n \in DOMAIN canvas.life |->
                        IF n \in Nodes THEN LifeShown(EndedRows, n, canvas.life[n])
                        ELSE canvas.life[n]]
  <2>1. Ended(rows \cup Mirrors(rows)) = EndedRows
    BY DEF Ended, EndOf, EndedRows, PlanRows
  <2>2. /\ rows' = Finished(EndedRows)
        /\ canvas' = [canvas EXCEPT
              !.edges = ds,
              !.life = [n \in DOMAIN @ |-> IF n \in Nodes THEN LifeShown(EndedRows, n, @[n]) ELSE @[n]]]
    BY <1>4, <2>1 DEF DeployEnds
  <2>3. /\ canvas'.nodes = canvas.nodes /\ canvas'.type = canvas.type
        /\ canvas'.config = canvas.config /\ canvas'.edges = ds /\ canvas'.life = kf
    BY <2>2 DEF Fitting, DrawnInv, Shaped
  <2>4. DOMAIN kf = DOMAIN canvas.life
    OBVIOUS
  <2>5. Awaits(Nodes, canvas.type, canvas.config, kf, ds, rows')
    BY <1>1, <1>2, <1>4, <2>2, LeftAwaits
  <2>. HIDE DEF ds, kf
  <2>6. ListAwaits'
    BY <2>3, <2>5 DEF ListAwaits, Nodes
  <2>. QED BY <1>1, <2>3, <2>4, <2>6 DEF StillOpen, LivesFit
<1>. QED BY <1>3, <1>4

\* promoteProvisioned.
LEMMA PromoteAwaits ==
    ASSUME Fitting, StillOpen, NEW n \in Nodes, Promote(n)
    PROVE  StillOpen'
<1>. DEFINE lf == canvas.life
            kf == [lf EXCEPT ![n] = "deployed"]
<1>1. /\ canvas' = [canvas EXCEPT !.life[n] = "deployed"] /\ lf[n] = "provisioning"
      /\ fresh' = fresh /\ rows' = rows /\ plan' = plan /\ deploying' = deploying
  BY DEF Promote
<1>2. /\ canvas'.nodes = canvas.nodes /\ canvas'.type = canvas.type
      /\ canvas'.config = canvas.config /\ canvas'.edges = canvas.edges /\ canvas'.life = kf
  BY <1>1 DEF Fitting, DrawnInv, Shaped
<1>3. n \in DOMAIN lf
  BY DEF StillOpen, LivesFit, Nodes
<1>4. /\ kf[n] = "deployed" /\ DOMAIN kf = DOMAIN lf
      /\ \A m : m # n /\ m \in DOMAIN lf => kf[m] = lf[m]
  BY <1>3
<1>. HIDE DEF kf
<1>5. Awaits(Nodes, canvas.type, canvas.config, lf, canvas.edges, rows)
  BY DEF StillOpen, ListAwaits
<1>6. \A q \in rows : q.op.kind = "createVm" => lf[q.op.target] \in {"staged", "failed"}
  BY <1>5 DEF Awaits, ClonesAwait
<1>7. \A q \in rows : Synthesized(q) \/ q.status = "done" => lf[q.op.target] = "failed"
  BY <1>5 DEF Awaits, LeftHaveFailed
<1>8. \A q \in rows : Synthesized(q) \/ q.status = "done" => q.op.kind \in {"createVm", "provision"}
  BY <1>5 DEF Awaits, RowsFit, Fitting, ListTells, OneRowEach, Relating, OpKinds, Synthesized
<1>9. \A q \in rows : q.op.kind \in {"createVm", "provision"} => q.op.target \in DOMAIN lf
  BY <1>5 DEF StillOpen, Awaits, RowsFit, LivesFit, Fitting, ListTells, Tells, RowsAreOfCards, Nodes
<1>10. StagedAreListed(Nodes, kf, rows)
  BY <1>4, <1>5 DEF Awaits, StagedAreListed, StillOpen, LivesFit, Nodes
<1>11. ClonesAwait(kf, rows)
  BY <1>1, <1>4, <1>6, <1>9 DEF ClonesAwait
<1>12. LeftHaveFailed(kf, rows)
  BY <1>1, <1>4, <1>7, <1>8, <1>9 DEF LeftHaveFailed
<1>13. CasAreSet(Nodes, canvas.type, canvas.config, kf)
  BY <1>1, <1>4, <1>5 DEF Awaits, CasAreSet, StillOpen, LivesFit, Nodes
<1>14. ListAwaits'
  BY <1>1, <1>2, <1>5, <1>10, <1>11, <1>12, <1>13 DEF ListAwaits, Awaits, Nodes
<1>. QED BY <1>1, <1>2, <1>4, <1>14 DEF StillOpen, LivesFit

-----------------------------------------------------------------------------
\* The invariant, on the steps that are made of these.

LEMMA CardsMoveAwaits ==
    ASSUME Fitting, StillOpen, NEW n, NEW m, NEW x,
           Drag(n, x) \/ JoinAction(n, m) \/ CancelDomain
    PROVE  StillOpen'
<1>1. CASE Drag(n, x)
  <2>1. /\ canvas' = MovedBy(n, x) /\ fresh' = fresh /\ rows' = rows
        /\ plan' = plan /\ deploying' = deploying
    BY <1>1 DEF Drag, Mouse
  <2>2. PICK at : canvas' = [canvas EXCEPT !.at = at]
    BY <2>1 DEF MovedBy, CarriedTo, Fitting, DrawnInv, Shaped
  <2>. QED BY <2>1, <2>2, MovedAwaits
<1>2. CASE JoinAction(n, m)
  <2>1. /\ \E place : canvas' = [canvas EXCEPT !.at[n] = place]
        /\ fresh' = fresh /\ rows' = rows /\ plan' = plan /\ deploying' = deploying
    BY <1>2 DEF JoinAction, Mouse
  <2>2. PICK at : canvas' = [canvas EXCEPT !.at = at]
    BY <2>1 DEF Fitting, DrawnInv, Shaped
  <2>. QED BY <2>1, <2>2, MovedAwaits
<1>3. CASE CancelDomain
  <2>1. /\ canvas' = SnapsBack(Upper) /\ fresh' = fresh /\ rows' = rows
        /\ plan' = plan /\ deploying' = deploying
    BY <1>3 DEF CancelDomain, Answered
  <2>2. PICK at : canvas' = [canvas EXCEPT !.at = at]
    BY <2>1 DEF SnapsBack, Fitting, DrawnInv, Shaped
  <2>. QED BY <2>1, <2>2, MovedAwaits
<1>. QED BY <1>1, <1>2, <1>3

LEMMA ConfirmDomainAwaits ==
    ASSUME Fitting, StillOpen, ConfirmDomain
    PROVE  StillOpen'
<1>1. /\ dialogs # <<>> /\ Upper.kind = "domain" /\ Closes /\ fresh' = fresh
      /\ deploying' = deploying /\ plan' = plan
  BY DEF ConfirmDomain, Asks, Answered
<1>2. ChangesFit(Nodes, Upper.changes)
  BY <1>1, ClosesOne DEF Fitting
<1>3. CASE deploying
  <2>1. canvas' = canvas /\ rows' = rows
    BY <1>3 DEF ConfirmDomain
  <2>. QED BY <1>1, <2>1, SameAwaits
<1>4. CASE ~deploying
  <2>1. AppliesChanges(Upper.changes)
    BY <1>4 DEF ConfirmDomain
  <2>. QED BY <1>1, <1>2, <1>4, <2>1, ChangesAwait
<1>. QED BY <1>3, <1>4

LEMMA DeleteAwaits ==
    ASSUME Fitting, StillOpen, NEW n, ConfirmDelete \/ DeleteKey(n), ~strayed'
    PROVE  StillOpen'
<1>1. CASE ConfirmDelete
  <2>1. /\ fresh' = fresh /\ deploying' = deploying /\ plan' = plan
        /\ RemoveNode(Upper.node, FALSE) \/ (canvas' = canvas /\ rows' = rows)
    BY <1>1 DEF ConfirmDelete, Answered
  <2>. QED BY <2>1, CardAwaits, SameAwaits
<1>2. CASE DeleteKey(n)
  <2>1. /\ fresh' = fresh /\ deploying' = deploying /\ plan' = plan
        /\ RemoveNode(n, dialogs # <<>>) \/ (canvas' = canvas /\ rows' = rows)
    BY <1>2 DEF DeleteKey, Shortcut
  <2>. QED BY <2>1, CardAwaits, SameAwaits
<1>. QED BY <1>1, <1>2

LEMMA RowsGoAwaits ==
    ASSUME Fitting, StillOpen, NEW row, ConfirmCut \/ Undo \/ (row \in rows /\ RequestRemove(row))
    PROVE  StillOpen'
<1>1. OneRowEach(rows) /\ RowsFit(rows)
  BY DEF Fitting, ListTells, StillOpen, ListAwaits, Awaits
<1>2. CASE ConfirmCut
  <2>. DEFINE first == {r \in rows : r.id = Upper.row /\ ~Synthesized(r)}
  <2>1. /\ fresh' = fresh /\ deploying' = deploying /\ plan' = plan
        /\ Removes(Cascade(first), FALSE)
    BY <1>2 DEF ConfirmCut, Answered
  <2>2. first \in SUBSET rows
    OBVIOUS
  <2>. HIDE DEF first
  <2>3. Cascade(first) \in SUBSET rows /\ Closed(Cascade(first), rows)
    BY <1>1, <2>2, CascadeIsListed, CascadeIsClosed
  <2>. QED BY <2>1, <2>3, RemovedAwaits
<1>3. CASE Undo
  <2>. DEFINE last == Max({r.id : r \in Sent(rows)})
              gone == {r \in rows : r.id = last}
  <2>1. /\ Removes(gone, dialogs # <<>>)
        /\ fresh' = fresh /\ deploying' = deploying /\ plan' = plan
    BY <1>3 DEF Undo, Shortcut
  <2>2. gone \in SUBSET rows
    OBVIOUS
  <2>. HIDE DEF last
  <2>3. Closed(gone, rows)
    BY LastIsClosed
  <2>. HIDE DEF gone
  <2>. QED BY <2>1, <2>2, <2>3, RemovedAwaits
<1>4. CASE row \in rows /\ RequestRemove(row)
  <2>1. fresh' = fresh /\ deploying' = deploying /\ plan' = plan
    BY <1>4 DEF RequestRemove, Mouse
  <2>2. CASE Dependents(rows, row) = {}
    <3>1. Removes({row}, FALSE) /\ {row} \in SUBSET rows
      BY <1>4, <2>2 DEF RequestRemove
    <3>2. Closed({row}, rows)
      BY <1>1, <1>4, <2>2, AloneIsClosed
    <3>. QED BY <2>1, <3>1, <3>2, RemovedAwaits
  <2>3. CASE Dependents(rows, row) # {}
    <3>1. canvas' = canvas /\ rows' = rows
      BY <1>4, <2>3 DEF RequestRemove
    <3>. QED BY <2>1, <3>1, SameAwaits
  <2>. QED BY <2>2, <2>3
<1>. QED BY <1>2, <1>3, <1>4

LEMMA StepOpens == ListInv /\ OpenInv /\ [Next]_vars => OpenInv'
<1>. SUFFICES ASSUME ListInv, OpenInv, [Next]_vars, ~strayed' PROVE StillOpen'
  BY DEF OpenInv
<1>1. Fitting /\ StillOpen
  BY StrayedStays DEF ListInv, OpenInv
<1>2. CASE UNCHANGED vars \/ Dismiss \/ Compile \/ Compiled
  <2>1. /\ canvas' = canvas /\ fresh' = fresh /\ rows' = rows /\ plan' = plan
        /\ deploying' = deploying
    BY <1>2 DEF vars, Dismiss, Answered, Compile, Compiled
  <2>. QED BY <1>1, <2>1, SameAwaits
<1>3. ASSUME NEW n \in fresh, NEW x \in Places, Drop(n, x) PROVE StillOpen'
  BY <1>1, <1>3, DropAwaits
<1>4. ASSUME NEW n \in Nodes, NEW setting \in Settings, EditForm(n, setting) \/ Configure(n, setting)
      PROVE  StillOpen'
  BY <1>1, <1>4, EditAwaits, ConfigureAwaits
<1>5. ASSUME NEW n \in Nodes, NEW x \in Places, Drag(n, x) PROVE StillOpen'
  BY <1>1, <1>5, CardsMoveAwaits
<1>6. ASSUME NEW n \in Nodes, NEW m \in Nodes, NEW socket \in Sockets, Connect(n, socket, m)
      PROVE  StillOpen'
  BY <1>1, <1>6, ConnectAwaits
<1>7. ASSUME NEW n \in Nodes, NEW dc \in Nodes, JoinAction(n, dc) PROVE StillOpen'
  BY <1>1, <1>7, CardsMoveAwaits
<1>8. ASSUME NEW n \in Nodes, DeleteKey(n) \/ Promote(n) PROVE StillOpen'
  BY <1>1, <1>8, DeleteAwaits, PromoteAwaits
<1>9. ASSUME NEW row \in rows, RequestRemove(row) PROVE StillOpen'
  BY <1>1, <1>9, RowsGoAwaits
<1>10. CASE ConfirmDomain \/ CancelDomain \/ ConfirmDelete \/ ConfirmCut
  BY <1>1, <1>10, ConfirmDomainAwaits, CardsMoveAwaits, DeleteAwaits, RowsGoAwaits
<1>11. CASE Undo \/ ConfirmReview \/ DeployEnds
  BY <1>1, <1>11, RowsGoAwaits, ReviewAwaits, DeployEndsAwaits
<1>. QED BY <1>2, <1>3, <1>4, <1>5, <1>6, <1>7, <1>8, <1>9, <1>10, <1>11 DEF Next

-----------------------------------------------------------------------------
\* A saved project as it is opened.

LEMMA ListedRowsFit ==
    ASSUME NEW scene \in Scenes
    PROVE  /\ RowsFit(Listed(scene))
           /\ \A r \in Listed(scene) : r.status = "staged" /\ ~Synthesized(r)
<1>. DEFINE cards == DOMAIN Opened(scene).type
            ops == scene.ops
            OpSet == [kind : OpKinds \ {"provision"}, target : cards,
                      secondary : cards \cup {NoNode}]
            D == [i \in DOMAIN ops |->
                    Inferred(ops[i], {Row(j, ops[j], "staged", {}, NoNode) : j \in 1..(i - 1)})]
<1>1. \A i \in DOMAIN ops : ops[i] \in OpSet
  <2>1. ops \in Seq(OpSet)
    BY SavedAssumption
  <2>. HIDE DEF ops, OpSet
  <2>. QED BY <2>1
<1>2. NoNode \notin cards
  <2>1. PICK cloning : Opened(scene) = Hydrated(scene.canvas, cloning)
    BY DEF Opened
  <2>2. {"nodes", "type", "config", "life", "at", "edges"} \subseteq DOMAIN scene.canvas
    BY ScenesAssumption
  <2>3. Opened(scene).type = scene.canvas.type
    BY <2>1, <2>2 DEF Hydrated
  <2>. QED BY <2>3, ScenesAssumption
<1>3. \A i \in DOMAIN ops : /\ ops[i].kind \in OpKinds \ {"provision"} /\ ops[i].target # NoNode
                            /\ ops[i].kind = "createVm" => D[i] = {}
  BY <1>1, <1>2 DEF Inferred
<1>4. \A r \in Listed(scene) : \E i \in DOMAIN ops : r = Row(i, ops[i], "staged", D[i], NoNode)
  BY DEF Listed
<1>. HIDE DEF ops, D
<1>5. ASSUME NEW r \in Listed(scene)
      PROVE  /\ r.op.kind \in OpKinds \ {"provision"} /\ r.op.target # NoNode
             /\ r.op.kind = "createVm" => r.deps = {}
             /\ r.status = "staged" /\ ~Synthesized(r)
  <2>1. PICK i \in DOMAIN ops : r = Row(i, ops[i], "staged", D[i], NoNode)
    BY <1>4
  <2>2. r.op = ops[i] /\ r.deps = D[i] /\ r.status = "staged"
    BY <2>1, RowFields
  <2>. QED BY <1>3, <2>2 DEF Synthesized
<1>. QED BY <1>5 DEF RowsFit

LEMMA OpenedAwaits ==
    ASSUME NEW scene \in Scenes
    PROVE  LET c == Opened(scene) IN
           /\ Awaits(c.nodes, c.type, c.config, c.life, c.edges, Listed(scene))
           /\ LivesFit(c, scene.fresh)
<1>. DEFINE c == Opened(scene)
            rs == Listed(scene)
<1>1. /\ ListIsOpen(c, rs)
      /\ scene.fresh \subseteq DOMAIN c.type /\ scene.fresh \cap c.nodes = {}
  BY SavedAssumption, OpenAssumption
<1>2. RowsFit(rs) /\ \A r \in rs : r.status = "staged" /\ ~Synthesized(r)
  BY ListedRowsFit
<1>3. LivesFit(c, scene.fresh)
  <2>1. PICK cloning : c = Hydrated(scene.canvas, cloning)
    BY DEF Opened
  <2>2. {"nodes", "type", "config", "life", "at", "edges"} \subseteq DOMAIN scene.canvas
    BY ScenesAssumption
  <2>3. /\ c.type = scene.canvas.type /\ c.nodes = scene.canvas.nodes
        /\ DOMAIN c.life = DOMAIN scene.canvas.life
    BY <2>1, <2>2 DEF Hydrated
  <2>4. /\ DOMAIN scene.canvas.life = DOMAIN scene.canvas.type
        /\ scene.canvas.nodes \subseteq DOMAIN scene.canvas.type
        /\ NoNode \notin DOMAIN scene.canvas.type
    BY ScenesAssumption
  <2>. QED BY <1>1, <2>3, <2>4 DEF LivesFit
<1>. HIDE DEF c, rs
<1>4. StagedAreListed(c.nodes, c.life, rs)
  BY <1>1 DEF ListIsOpen, StagedAreListed, OpsOf
<1>5. ClonesAwait(c.life, rs) /\ LeftHaveFailed(c.life, rs) /\ GhostsAreDrawn(c.edges, rs)
  BY <1>1, <1>2 DEF ListIsOpen, ClonesAwait, LeftHaveFailed, GhostsAreDrawn, Relating
<1>6. CertsAreWhole(c.config, c.edges, rs)
  BY <1>1, WholeIsComplete DEF ListIsOpen, CertsAreWhole
<1>7. RootsIssue(c.type, c.config, c.edges) /\ CasAreSet(c.nodes, c.type, c.config, c.life)
  BY <1>1 DEF ListIsOpen, RootsIssue, CasAreSet, EdgesOf
<1>. QED BY <1>2, <1>3, <1>4, <1>5, <1>6, <1>7 DEF Awaits, c, rs

LEMMA InitOpens == Init => OpenInv
<1>. SUFFICES ASSUME Init PROVE StillOpen
  BY DEF OpenInv
<1>1. PICK scene \in Scenes :
          /\ rows = Listed(scene) /\ canvas = Opened(scene) /\ fresh = scene.fresh
          /\ deploying = FALSE
  BY DEF Init
<1>. QED BY <1>1, OpenedAwaits DEF StillOpen, ListAwaits, Nodes

-----------------------------------------------------------------------------
\* A list that is open is what the compiler asks of the topology of its canvas.

\* A relationship of the topology is realized by the operation of its edges, and planned as
\* long as one of these is a ghost.
LEMMA MadeOps ==
    ASSUME NEW c, NEW e, e \in c.edges
    PROVE  /\ e.type = "domainJoin" =>
                 /\ OpOf(JoinMade(e)) = OpOfEdge(e)
                 /\ JoinMade(e).state = IF e.staged THEN "planned" ELSE "realized"
           /\ e.type = "caHierarchy" =>
                 /\ OpOf(ParentMade(e)) = OpOfEdge(e)
                 /\ ParentMade(e).state = IF e.staged THEN "planned" ELSE "realized"
           /\ e.type = "webServerCert" =>
                 /\ OpOf(PublicationMade(c, e)) = OpOfEdge(e)
                 /\ PublicationMade(c, e).state =
                       IF \E f \in c.edges : /\ f.type = "webServerCert" /\ f.source = e.source
                                             /\ f.target = e.target /\ f.staged
                       THEN "planned" ELSE "realized"
<1>1. CASE e.type = "domainJoin"
  <2>1. JoinMade(e).state = IF e.staged THEN "planned" ELSE "realized"
    BY DEF JoinMade, TopologyEdge, StateOf
  <2>2. OpOf(JoinMade(e)) = OpOfEdge(e)
    BY <1>1, EdgeFields DEF OpOf, OpOfEdge
  <2>. QED BY <1>1, <2>1, <2>2
<1>2. CASE e.type = "caHierarchy"
  <2>1. ParentMade(e).state = IF e.staged THEN "planned" ELSE "realized"
    BY DEF ParentMade, TopologyEdge, StateOf
  <2>2. OpOf(ParentMade(e)) = OpOfEdge(e)
    BY <1>2, EdgeFields DEF OpOf, OpOfEdge
  <2>. QED BY <1>2, <2>1, <2>2
<1>3. CASE e.type = "webServerCert"
  <2>1. PublicationMade(c, e).state =
            IF \E f \in WebEdges(c, e.source, e.target) : f.staged THEN "planned" ELSE "realized"
    BY DEF PublicationMade, TopologyEdge, StateOf
  <2>2. OpOf(PublicationMade(c, e)) = OpOfEdge(e)
    BY <1>3, EdgeFields DEF OpOf, OpOfEdge
  <2>. QED BY <1>3, <2>1, <2>2 DEF WebEdges, EdgesOf
<1>. QED BY <1>1, <1>2, <1>3

\* Every operation of the list realizes what the topology plans.
LEMMA ListedIsPlanned ==
    ASSUME Fitting, ListAwaits, Valid(DeployTopology(canvas)),
           NEW r \in rows, r.op.kind \in Relating
    PROVE  LET t == DeployTopology(canvas) IN
           /\ r.op \in EdgeOps(t)
           /\ \A f \in t.edges : OpOf(f) = r.op => f.state # "realized"
<1>. DEFINE t == DeployTopology(canvas)
<1>1. PICK e \in canvas.edges : e.staged /\ OpOfEdge(e) = r.op
  BY DEF ListAwaits, Awaits, GhostsAreDrawn
<1>2. IsEdge(e) /\ \A f \in canvas.edges : IsEdge(f)
  BY DEF Fitting, ListTells, Tells
<1>3. t.edges = JoinsMade(canvas) \cup ParentsMade(canvas) \cup PublicationsMade(canvas)
  BY DEF DeployTopology, JoinsMade, ParentsMade, PublicationsMade, JoinMade, ParentMade,
         PublicationMade
<1>4. \A f, g \in t.edges : SameRelationship(f, g) => f = g
  BY DEF Valid, EdgesAreSound
<1>5. /\ \A f \in JoinsMade(canvas) : OpOf(f).kind = "domainJoin"
      /\ \A f \in ParentsMade(canvas) : OpOf(f).kind = "caConnect"
      /\ \A f \in PublicationsMade(canvas) : OpOf(f).kind = "webServerCert"
  BY EdgeFields, OpFields DEF JoinsMade, ParentsMade, PublicationsMade, OpOf
<1>. HIDE DEF t
<1>6. CASE e.type = "domainJoin"
  <2>1. /\ OpOf(JoinMade(e)) = r.op /\ JoinMade(e).state = "planned"
        /\ JoinMade(e) \in t.edges /\ r.op = Op("domainJoin", e.source, e.target)
    BY <1>1, <1>3, <1>6, MadeOps DEF JoinsMade, EdgesOf, OpOfEdge
  <2>2. ASSUME NEW f \in t.edges, OpOf(f) = r.op PROVE f = JoinMade(e)
    <3>1. f \in JoinsMade(canvas)
      BY <1>3, <1>5, <2>1, <2>2, OpFields
    <3>2. PICK g \in EdgesOf(canvas, "domainJoin") : f = JoinMade(g)
      BY <3>1 DEF JoinsMade
    <3>3. r.op = Op("domainJoin", g.source, g.target)
      BY <2>2, <3>2, EdgeFields DEF OpOf
    <3>4. g.source = e.source /\ g.target = e.target
      BY <2>1, <3>3, OpFields
    <3>. QED BY <1>4, <2>1, <3>2, <3>4, EdgeFields DEF SameRelationship
  <2>. QED BY <2>1, <2>2 DEF EdgeOps, t
<1>7. CASE e.type = "caHierarchy"
  <2>1. /\ OpOf(ParentMade(e)) = r.op /\ ParentMade(e).state = "planned"
        /\ ParentMade(e) \in t.edges /\ r.op = Op("caConnect", e.target, e.source)
    BY <1>1, <1>3, <1>7, MadeOps DEF ParentsMade, EdgesOf, OpOfEdge
  <2>2. ASSUME NEW f \in t.edges, OpOf(f) = r.op PROVE f = ParentMade(e)
    <3>1. f \in ParentsMade(canvas)
      BY <1>3, <1>5, <2>1, <2>2, OpFields
    <3>2. PICK g \in EdgesOf(canvas, "caHierarchy") : f = ParentMade(g)
      BY <3>1 DEF ParentsMade
    <3>3. r.op = Op("caConnect", g.target, g.source)
      BY <2>2, <3>2, EdgeFields DEF OpOf
    <3>4. g.source = e.source /\ g.target = e.target
      BY <2>1, <3>3, OpFields
    <3>. QED BY <1>4, <2>1, <3>2, <3>4, EdgeFields DEF SameRelationship
  <2>. QED BY <2>1, <2>2 DEF EdgeOps, t
<1>8. CASE e.type = "webServerCert"
  <2>1. r.op = Op("webServerCert", e.source, e.target)
    BY <1>1, <1>8 DEF OpOfEdge
  <2>2. r.op.kind = "webServerCert" /\ r.op.target = e.source /\ r.op.secondary = e.target
    BY <2>1, OpFields
  <2>3. Publishes(canvas, e.source, e.target)
    BY <2>2, WholeIsComplete DEF ListAwaits, Awaits, CertsAreWhole, Publishes
  <2>4. PublicationMade(canvas, e) \in t.edges /\ OpOf(PublicationMade(canvas, e)) = r.op
    BY <1>1, <1>3, <1>8, <2>3, MadeOps DEF PublicationsMade, EdgesOf
  <2>5. ASSUME NEW f \in t.edges, OpOf(f) = r.op PROVE f.state = "planned"
    <3>1. f \in PublicationsMade(canvas)
      BY <1>3, <1>5, <2>2, <2>5
    <3>2. PICK g \in EdgesOf(canvas, "webServerCert") : f = PublicationMade(canvas, g)
      BY <3>1 DEF PublicationsMade
    <3>3. r.op = Op("webServerCert", g.source, g.target)
      BY <2>5, <3>2, EdgeFields DEF OpOf
    <3>4. g.source = e.source /\ g.target = e.target
      BY <2>2, <3>3, OpFields
    <3>. QED BY <1>1, <1>8, <3>2, <3>4, MadeOps DEF EdgesOf
  <2>. QED BY <2>4, <2>5 DEF EdgeOps, t
<1>. QED BY <1>2, <1>6, <1>7, <1>8 DEF IsEdge, EdgeTypes

\* Every relationship that the topology plans is listed.
LEMMA PlannedIsListed ==
    ASSUME Fitting, NEW f \in DeployTopology(canvas).edges, f.state = "planned"
    PROVE  HasRow(rows, OpOf(f))
<1>1. f \in JoinsMade(canvas) \cup ParentsMade(canvas) \cup PublicationsMade(canvas)
  BY DEF DeployTopology, JoinsMade, ParentsMade, PublicationsMade, JoinMade, ParentMade,
         PublicationMade
<1>2. GhostsAreListed(canvas.config, canvas.edges, rows)
  BY DEF Fitting, ListTells, Tells
<1>3. CASE f \in JoinsMade(canvas) \cup ParentsMade(canvas)
  <2>1. PICK e \in canvas.edges :
            /\ e.type # "webServerCert" /\ OpOf(f) = OpOfEdge(e)
            /\ f.state = IF e.staged THEN "planned" ELSE "realized"
    BY <1>3, MadeOps DEF JoinsMade, ParentsMade, EdgesOf
  <2>. QED BY <1>2, <2>1 DEF GhostsAreListed, Carries
<1>4. CASE f \in PublicationsMade(canvas)
  <2>1. PICK e \in EdgesOf(canvas, "webServerCert") :
            Publishes(canvas, e.source, e.target) /\ f = PublicationMade(canvas, e)
    BY <1>4 DEF PublicationsMade
  <2>2. e \in canvas.edges /\ e.type = "webServerCert"
    BY DEF EdgesOf
  <2>3. PICK g \in canvas.edges : /\ g.type = "webServerCert" /\ g.source = e.source
                                  /\ g.target = e.target /\ g.staged
    BY <2>1, <2>2, MadeOps
  <2>4. Carries(canvas.config, canvas.edges, g)
    BY <2>1, <2>3, WholeIsComplete DEF Publishes, Carries
  <2>5. OpOfEdge(g) = OpOfEdge(e) /\ OpOf(f) = OpOfEdge(e)
    BY <2>1, <2>2, <2>3, MadeOps DEF OpOfEdge
  <2>. QED BY <1>2, <2>4, <2>5 DEF GhostsAreListed
<1>. QED BY <1>1, <1>3, <1>4

\* On a canvas of configured cards nothing is left of a plan that failed.
LEMMA ConfiguredRows ==
    ASSUME Fitting, ListAwaits, \A n \in Nodes : IsConnectable(canvas, n), NEW r \in rows
    PROVE  /\ ~Synthesized(r) /\ r.status # "done"
           /\ r.op.kind \in {"createVm", "domainLeave"} => r.op.target \in Nodes
           /\ r.op.kind = "createVm" =>
                 r.op = Create(r.op.target) /\ canvas.life[r.op.target] = "staged"
           /\ r.op.kind = "domainLeave" => r.op = Leave(r.op.target)
           /\ r.op.kind \in {"createVm", "domainLeave"} \cup Relating
<1>1. /\ IsRow(r) /\ r.op.kind \in OpKinds
      /\ r.status = "done" => r.op.kind \notin Relating \cup {"domainLeave"}
      /\ r.op.kind \in {"createVm", "provision", "domainLeave"} => r.op.target # NoNode
      /\ r.op.target \in Nodes \cup {NoNode}
  BY DEF Fitting, ListTells, OneRowEach, ListAwaits, Awaits, RowsFit, Tells, RowsAreOfCards
<1>2. \A n \in Nodes : canvas.life[n] # "failed"
  BY DEF IsConnectable, IsDeployed
<1>3. ~Synthesized(r) /\ r.status # "done"
  BY <1>1, <1>2 DEF ListAwaits, Awaits, LeftHaveFailed, Synthesized, OpKinds, Relating
<1>4. r.op.kind = "createVm" => canvas.life[r.op.target] = "staged"
  BY <1>1, <1>2 DEF ListAwaits, Awaits, ClonesAwait
<1>. QED BY <1>1, <1>3, <1>4, CloneOp DEF Synthesized, OpKinds, Relating

LEMMA OpenCompiles == ListInv /\ OpenInv => ConfiguredCanvasCompiles
<1>. DEFINE t == DeployTopology(canvas)
            qs == Prepared(rows, "pending")
            ops == {q.op : q \in Sent(qs)}
<1>. SUFFICES ASSUME ListInv, OpenInv, ~strayed, rows # {}, Valid(t),
                     \A n \in Nodes : IsConnectable(canvas, n)
              PROVE  Compiles(t, Sent(qs))
  BY DEF ConfiguredCanvasCompiles, Accepts
<1>1. Fitting /\ ListAwaits
  BY DEF ListInv, OpenInv, StillOpen
<1>2. \A r \in rows : ~Synthesized(r) /\ r.status # "done"
  BY <1>1, ConfiguredRows
<1>3. /\ \A q \in qs : \E r \in rows : q.op = r.op
      /\ \A r \in rows : \E q \in qs : q.op = r.op
  BY <1>2, PreparedFrom
<1>4. OneRowEach(qs)
  BY <1>1, PreparedRows DEF Fitting, ListTells
<1>. HIDE DEF qs
<1>5. Sent(qs) = qs
  BY <1>2, <1>3 DEF Sent, Synthesized
<1>6. /\ \A o \in ops : \E r \in rows : o = r.op
      /\ \A r \in rows : r.op \in ops
  BY <1>3, <1>5
<1>7. Sent(qs) # {} /\ \A q, s \in Sent(qs) : q.op = s.op => q = s
  BY <1>3, <1>4, <1>5 DEF OneRowEach
<1>8. /\ t.nodes = Nodes
      /\ t.realized = {n \in Nodes : IsDeployed(canvas, n) \/ canvas.life[n] = "provisioning"}
  BY DEF DeployTopology, Nodes
<1>. HIDE DEF t, ops
<1>9. \A r \in rows : r.op \in {Create(n) : n \in t.nodes} \cup {Leave(n) : n \in t.nodes} \cup EdgeOps(t)
  <2>. SUFFICES ASSUME NEW r \in rows
                PROVE  r.op \in {Create(n) : n \in t.nodes} \cup {Leave(n) : n \in t.nodes} \cup EdgeOps(t)
    OBVIOUS
  <2>1. CASE r.op.kind \in Relating
    BY <1>1, <2>1, ListedIsPlanned DEF t
  <2>2. CASE r.op.kind \in {"createVm", "domainLeave"}
    <3>1. /\ r.op.target \in t.nodes
          /\ r.op = Create(r.op.target) \/ r.op = Leave(r.op.target)
      BY <1>1, <1>8, <2>2, ConfiguredRows
    <3>. QED BY <3>1
  <2>. QED BY <1>1, <2>1, <2>2, ConfiguredRows
<1>10. \A r \in rows : r.op \notin RealizedOps(t)
  <2>. SUFFICES ASSUME NEW r \in rows, r.op \in RealizedOps(t) PROVE FALSE
    OBVIOUS
  <2>1. CASE \E n \in t.realized : r.op = Create(n)
    <3>1. PICK n \in t.realized : r.op = Create(n)
      BY <2>1
    <3>2. r.op.kind = "createVm" /\ r.op.target = n
      BY <3>1, CloneFields
    <3>3. canvas.life[n] = "staged"
      BY <1>1, <3>2, ConfiguredRows
    <3>. QED BY <1>8, <3>3 DEF IsDeployed
  <2>2. CASE \E f \in t.edges : f.state = "realized" /\ r.op = OpOf(f)
    <3>1. PICK f \in t.edges : f.state = "realized" /\ r.op = OpOf(f)
      BY <2>2
    <3>2. f \in JoinsMade(canvas) \cup ParentsMade(canvas) \cup PublicationsMade(canvas)
      BY DEF t, DeployTopology, JoinsMade, ParentsMade, PublicationsMade, JoinMade, ParentMade,
             PublicationMade
    <3>3. OpOf(f).kind \in Relating
      BY <3>2, EdgeFields, OpFields DEF OpOf, JoinsMade, ParentsMade, PublicationsMade, Relating
    <3>. QED BY <1>1, <3>1, <3>3, ListedIsPlanned DEF t
  <2>. QED BY <2>1, <2>2 DEF RealizedOps
<1>11. \A o \in PlannedOps(t) : \E r \in rows : r.op = o
  <2>. SUFFICES ASSUME NEW o \in PlannedOps(t) PROVE \E r \in rows : r.op = o
    OBVIOUS
  <2>1. CASE \E n \in t.nodes \ t.realized : o = Create(n)
    <3>1. PICK n \in t.nodes \ t.realized : o = Create(n)
      BY <2>1
    <3>2. n \in Nodes /\ canvas.life[n] = "staged"
      BY <1>8, <3>1 DEF IsConnectable
    <3>. QED BY <1>1, <3>1, <3>2 DEF ListAwaits, Awaits, StagedAreListed
  <2>2. CASE \E f \in t.edges : f.state = "planned" /\ o = OpOf(f)
    <3>1. PICK f \in t.edges : f.state = "planned" /\ o = OpOf(f)
      BY <2>2
    <3>2. HasRow(rows, OpOf(f))
      BY <1>1, <3>1, PlannedIsListed DEF t
    <3>. QED BY <3>1, <3>2 DEF HasRow
  <2>. QED BY <2>1, <2>2 DEF PlannedOps
<1>12. Matches(t, ops)
  <2>1. ops \subseteq {Create(n) : n \in t.nodes} \cup {Leave(n) : n \in t.nodes} \cup EdgeOps(t)
    BY <1>6, <1>9
  <2>2. ops \cap RealizedOps(t) = {}
    BY <1>6, <1>10
  <2>3. PlannedOps(t) \subseteq ops
    BY <1>6, <1>11
  <2>. QED BY <2>1, <2>2, <2>3 DEF Matches
<1>. QED BY <1>7, <1>12 DEF Compiles, ops

\* From any saved project whose list is what its canvas still has to become, and however it is
\* edited, undone, deleted, reviewed and deployed, a plan that fails included: once every card
\* is configured and the topology is valid, the list is what compile_plan takes, each operation
\* known, none of what is realized and all that is planned.
THEOREM ConfiguredCanvasesCompile == Spec => []ConfiguredCanvasCompiles
BY InitFits, InitOpens, StepFits, StepOpens, OpenCompiles, PTL DEF Spec
=============================================================================
