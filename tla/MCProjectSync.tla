---------------------------- MODULE MCProjectSync ----------------------------
(***************************************************************************)
(* Instances of ProjectSync: what the project may hold, and how many kinds  *)
(* of trouble a behaviour has.                                              *)
(***************************************************************************)
EXTENDS ProjectSync

CONSTANTS v1, v2, v3

Three == {v1, v2, v3}

\* A constraint: a denial, a failure, a deletion by another operator, an edit that leads back
\* and a second session: a behaviour meets two of them at most.
TwoTroubles == denials + failures + foreign + reverts + (IF sessions > 1 THEN 1 ELSE 0) <= 2
=============================================================================
