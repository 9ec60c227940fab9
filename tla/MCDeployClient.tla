---------------------------- MODULE MCDeployClient ----------------------------
(***************************************************************************)
(* Instances of DeployClient for TLC: project A clones a machine and joins   *)
(* it to a domain, project B has nothing staged.                             *)
(***************************************************************************)
EXTENDS DeployClient, TLC

CONSTANTS A, B, c, e

CloneThenJoin == (c :> {}) @@ (e :> {c})
OnlyInA == (A :> {c, e}) @@ (B :> {})

\* A constraint: a fault, or a reload or a switch of project, and a tab that is at most three
\* messages behind its plan.
OneTrouble == faults + leaves <= 1 /\ Len(socket.frames) <= 3
=============================================================================
