---------------------------- MODULE MCTokenCache ----------------------------
(***************************************************************************)
(* The two goroutines of the operator that talk to Keycloak.               *)
(***************************************************************************)
EXTENDS TokenCache
=============================================================================
