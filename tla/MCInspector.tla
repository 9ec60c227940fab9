----------------------------- MODULE MCInspector -----------------------------
(***************************************************************************)
(* Instances of Inspector for TLC: two cards, and three canvases to begin    *)
(* with.  Two configured cards, one with a disc of scripts and one with an    *)
(* upload; a draft beside a deployed card; two deployed cards.                *)
(***************************************************************************)
EXTENDS Inspector, TLC

CONSTANTS a, b, x, y, d1, d2, role, gen, own

\* The password of d2 has x in it.
WeakPairs == {<<x, d2>>}

TwoCards == {a, b}

Pack == [EmptyIso EXCEPT !.enabled = TRUE, !.seeded = TRUE, !.files = {role}]
Upload1 == [EmptyIso EXCEPT !.enabled = TRUE, !.seeded = TRUE, !.mode = "uploadIso", !.isoId = 1]

Canvas(lifeA, lifeB, configA, vmA, vmB, isoA, isoB) ==
    [nodes |-> {a, b}, life |-> (a :> lifeA) @@ (b :> lifeB),
     name |-> (a :> x) @@ (b :> y), config |-> (a :> configA) @@ (b :> d2),
     vm |-> (a :> vmA) @@ (b :> vmB), iso |-> (a :> isoA) @@ (b :> isoB)]

Configured == Canvas("staged", "staged", d1, None, None, Pack, Upload1)
Mixed == Canvas("draft", "deployed", None, None, y, EmptyIso, EmptyIso)
Running == Canvas("deployed", "deployed", d1, x, y, EmptyIso, EmptyIso)
SomeStarts == {Configured, Mixed, Running}
=============================================================================
