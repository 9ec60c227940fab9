---------------------------- MODULE MCLabDeploys ----------------------------
(***************************************************************************)
(* Labs for LabDeploys: a two-tier PKI that grows around a domain, and a     *)
(* member with two domains.                                                  *)
(***************************************************************************)
EXTENDS LabDeploys, TLC

CONSTANTS dc, dc2, root, iss, web, client

PkiLab ==
    [nodes |-> {dc, root, iss, web, client},
     role |-> (dc :> "domainController") @@ (root :> "rootCa")
              @@ (iss :> "issuingCa")
              @@ (web :> "webServer") @@ (client :> "client"),
     maxDeploys |-> 2, maxEdits |-> 2,
     ops |-> <<Create(root), Create(iss), Create(web), Create(client),
               Op("domainJoin", iss, dc), Op("domainJoin", web, dc), Op("domainJoin", client, dc),
               Op("caConnect", iss, root), Op("webServerCert", iss, web)>>]

DomainLab ==
    [nodes |-> {dc, dc2, client},
     role |-> (dc :> "domainController") @@ (dc2 :> "domainController") @@ (client :> "client"),
     maxDeploys |-> 3, maxEdits |-> 4,
     ops |-> <<Create(dc), Create(dc2), Create(client), Op("domainJoin", client, dc)>>]

BothLabs == {PkiLab, DomainLab}
OnlyDomain == {DomainLab}
=============================================================================
