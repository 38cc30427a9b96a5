---------------------------- MODULE MCPublication ----------------------------
(***************************************************************************)
(* Two files about one app, the first of which is corrected once, and one  *)
(* about another app.  The package of the first revision does not pass.    *)
(***************************************************************************)
EXTENDS Publication, TLC

CONSTANTS first, second, other, app, tool

MCAppOf == first :> app @@ second :> app @@ other :> tool
MCRevisions == first :> 2 @@ second :> 1 @@ other :> 1
MCSound == {<<first, 2>>, <<second, 1>>, <<other, 1>>}
=============================================================================
