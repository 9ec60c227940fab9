---------------------------- MODULE MCCanvasEditing ----------------------------
(***************************************************************************)
(* Canvases for CanvasEditing: a PKI whose cards are staged and partly        *)
(* related, a lab with a member beside two domains, a PKI that was drawn        *)
(* before there were sockets, CAs without relations, new cards beside a domain, *)
(* and a PKI that runs and grows by a host.                                     *)
(***************************************************************************)
EXTENDS CanvasEditing

CONSTANTS dc, dc2, root, iss, sub, web, web2, client

TypeOf == (dc :> DC) @@ (dc2 :> DC) @@ (root :> CA) @@ (iss :> CA) @@ (sub :> CA)
          @@ (web :> "webServer")
          @@ (web2 :> "webServer") @@ (client :> "client")
ConfigOf == (dc :> "set") @@ (dc2 :> "set") @@ (root :> "Root") @@ (iss :> "Issuing")
            @@ (sub :> "Issuing") @@ (web :> "set") @@ (web2 :> "set") @@ (client :> "set")

Scene(nodes, life, at, edges, ops, cards, gests) ==
    [canvas |-> [nodes |-> nodes, type |-> TypeOf, config |-> ConfigOf, edges |-> edges,
                 life |-> [n \in DOMAIN TypeOf |-> IF n \in DOMAIN life THEN life[n] ELSE "draft"],
                 at |-> [n \in DOMAIN TypeOf |-> IF n \in DOMAIN at THEN at[n] ELSE 0]],
     ops |-> ops, fresh |-> cards, gestures |-> gests]

All(nodes, life) == [n \in nodes |-> life]

Pki ==
    LET nodes == {dc, root, iss, web} IN
    Scene(nodes, All(nodes, "staged"), (dc :> 0) @@ (root :> 20) @@ (iss :> 6) @@ (web :> 10),
          {JoinEdge(iss, dc, TRUE), JoinEdge(web, dc, TRUE),
           Ghost("caHierarchy", root, "issuance", iss)},
          <<Create(dc), Create(root), Create(iss), Create(web), Op("domainJoin", iss, dc),
            Op("domainJoin", web, dc), Op("caConnect", iss, root)>>, {}, 3)

Lab ==
    LET nodes == {dc, dc2, client, web} IN
    Scene(nodes, All(nodes, "deployed"), (dc :> 0) @@ (dc2 :> 24) @@ (client :> 6) @@ (web :> 40),
          {JoinEdge(client, dc, FALSE)}, <<>>, {}, 3)

\* Drawn before there were sockets.
Legacy ==
    LET nodes == {dc, root, iss, web} IN
    Scene(nodes, All(nodes, "deployed"), (dc :> 0) @@ (root :> 20) @@ (iss :> 6) @@ (web :> 10),
          {JoinEdge(iss, dc, FALSE), JoinEdge(web, dc, FALSE),
           [Ghost("caHierarchy", root, "none", iss) EXCEPT !.staged = FALSE, !.health = "verified"],
           Ghost("webServerCert", iss, "legacy", web)},
          <<Op("webServerCert", iss, web)>>, {}, 2)

Cas ==
    LET nodes == {root, iss, sub} IN
    Scene(nodes, All(nodes, "deployed"), (root :> 20) @@ (iss :> 6) @@ (sub :> 40), {}, <<>>, {}, 3)

New ==
    Scene({dc, client}, All({dc}, "deployed"), (dc :> 0) @@ (client :> 20), {}, <<>>, {web}, 4)

\* A PKI that runs, and a second host beside its domain.
Grown ==
    LET nodes == {dc, root, iss, web, web2}
        verified(e) == [e EXCEPT !.staged = FALSE, !.health = "verified"]
    IN  Scene(nodes, All(nodes, "deployed"),
              (dc :> 0) @@ (root :> 40) @@ (iss :> 6) @@ (web :> 10) @@ (web2 :> 20),
              {JoinEdge(iss, dc, FALSE), JoinEdge(web, dc, FALSE),
               verified(Ghost("caHierarchy", root, "issuance", iss)),
               verified(Ghost("webServerCert", iss, "publication", web)),
               verified(Ghost("webServerCert", iss, "ocsp", web))}, <<>>, {}, 2)

AllScenes == {Pki, Lab, Legacy, Cas, New, Grown}
SomePlaces == {0, 6, 14, 40}
=============================================================================
