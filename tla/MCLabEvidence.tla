---------------------------- MODULE MCLabEvidence ----------------------------
(***************************************************************************)
(* Projects for LabEvidence: the template, deployed whole; a PKI whose cards   *)
(* run and whose relationships are still to realize, with a second tab; its    *)
(* last relationship, with tabs that are left or moved, or with every verdict  *)
(* of a single check; and an issuing CA that publishes to two hosts.           *)
(***************************************************************************)
EXTENDS LabEvidence

CONSTANTS lab, other, WEB2, client

TypeOf == (CA01 :> CA) @@ (CA02 :> CA) @@ (DC01 :> DC) @@ (SRV1 :> "webServer")
          @@ (WEB2 :> "webServer") @@ (client :> "client")
ConfigOf == (CA01 :> "Root") @@ (CA02 :> "Issuing") @@ (DC01 :> "set") @@ (SRV1 :> "set")
            @@ (WEB2 :> "set") @@ (client :> "set")

Document(order, life, es, ops) ==
    LET nodes == ToSet(order) IN
    Drafted(order, Restrict(TypeOf, nodes), Restrict(ConfigOf, nodes), [n \in nodes |-> life], es, ops)

Bounds(verdicts, deploys, errors, losses, reloads, edits, switches) ==
    [verdicts |-> verdicts, deploys |-> deploys, errors |-> errors, losses |-> losses,
     reloads |-> reloads, edits |-> edits, switches |-> switches]
EachCheck == {{}} \cup {{k} : k \in Checks}
SomeChecks == {{}, {"chain", "ocsp"}}

Small == Document(<<client>>, "deployed", <<>>, <<>>)

FromTemplate ==
    [tabs |-> <<>>, docs |-> [t \in Tabs |-> Small], left |-> Bounds(SomeChecks, 1, 0, 0, 1, 0, 1)]

Realized(es, k) ==
    [i \in DOMAIN es |-> IF i > k THEN es[i]
                         ELSE [es[i] EXCEPT !.staged = FALSE, !.health = "verified"]]
PkiOrder == <<DC01, CA01, CA02, SRV1>>

Relations ==
    [tabs |-> <<lab, other>>, left |-> Bounds(SomeChecks, 2, 1, 1, 1, 1, 0),
     docs |-> (other :> Small) @@
        (lab :> Document(PkiOrder, "deployed", TemplateEdges, SubSeq(TemplateOps, 5, 8)))]

LastStep(verdicts, deploys, errors, losses, reloads, edits, switches) ==
    [tabs |-> <<lab, other>>,
     left |-> Bounds(verdicts, deploys, errors, losses, reloads, edits, switches),
     docs |-> (other :> Small) @@
        (lab :> Document(PkiOrder, "deployed", Realized(TemplateEdges, 4), SubSeq(TemplateOps, 8, 8)))]
Leaving == LastStep(SomeChecks, 1, 0, 1, 1, 0, 2)
Moving == LastStep(SomeChecks, 1, 0, 1, 1, 1, 1)
Probing == LastStep(EachCheck, 1, 0, 0, 0, 1, 0)

HostEdges ==
    <<JoinEdge(CA02, DC01, TRUE), JoinEdge(SRV1, DC01, TRUE), JoinEdge(WEB2, DC01, TRUE),
      Ghost("caHierarchy", CA01, "issuance", CA02),
      Ghost("webServerCert", CA02, "publication", SRV1), Ghost("webServerCert", CA02, "ocsp", SRV1),
      Ghost("webServerCert", CA02, "publication", WEB2), Ghost("webServerCert", CA02, "ocsp", WEB2)>>

TwoHosts ==
    [tabs |-> <<lab>>, left |-> Bounds(SomeChecks, 2, 1, 0, 1, 1, 0),
     docs |-> [t \in Tabs |->
        Document(<<DC01, CA01, CA02, SRV1, WEB2>>, "deployed", Realized(HostEdges, 4),
                 <<Op("webServerCert", CA02, WEB2), Op("webServerCert", CA02, SRV1)>>)]]

AllScenes == {FromTemplate, Relations, Leaving, Moving, Probing, TwoHosts}
=============================================================================
