------------------------------ MODULE MCDeploy ------------------------------
(***************************************************************************)
(* Every revision as a target, rows wherever they can be, one replica at a *)
(* time; a pgvector below the floor and 0.10, which is above it only when *)
(* the parts are compared as numbers.                                      *)
(***************************************************************************)
EXTENDS Deploy

MCTargets == Revisions
MCPgVectors == {<<0, 7>>, <<0, 10>>}
=============================================================================
