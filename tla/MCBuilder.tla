------------------------------ MODULE MCBuilder ------------------------------
(***************************************************************************)
(* An app folder that may hold a, A and A/b: two names that differ in case *)
(* only, one of which can be a folder with a file in it.                   *)
(***************************************************************************)
EXTENDS Builder, TLC

CONSTANTS lower, upper, inner

MCParent == lower :> Top @@ upper :> Top @@ inner :> upper
MCKey == lower :> "a" @@ upper :> "a" @@ inner :> "a/b"
=============================================================================
