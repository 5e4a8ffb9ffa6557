------------------------- MODULE MCRealmController -------------------------
(***************************************************************************)
(* Two KeycloakRealms: ra names its realm and is edited between settings   *)
(* with and without a display name, rb takes its tenant ID as the realm's  *)
(* name.                                                                   *)
(***************************************************************************)
EXTENDS RealmController, TLC

CONSTANTS ra, rb, acme, globex, shown

on  == [displayName |-> shown, enabled |-> TRUE]
off == [displayName |-> NoName, enabled |-> FALSE]

MCSpecs ==
  (ra :> {[realm |-> acme, tenantID |-> globex, settings |-> s] : s \in {on, off}}) @@
  (rb :> {[realm |-> NoName, tenantID |-> globex, settings |-> on]})
=============================================================================
