--------------------------- MODULE MCGuestLifecycle ---------------------------
(***************************************************************************)
(* Instances of GuestLifecycle: which task works on which name, and the     *)
(* ranges an operator switches between.                                    *)
(***************************************************************************)
EXTENDS GuestLifecycle, TLC

CONSTANTS cx, cz, cy, dx, x, y

\* Two clones and a teardown of x, a clone of y.
TaskNames == (cx :> x @@ cz :> x @@ dx :> x @@ cy :> y)

AllRanges == {{1, 2}, {2}, {}}
=============================================================================
