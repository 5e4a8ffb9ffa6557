------------------------- MODULE MCClientController -------------------------
(***************************************************************************)
(* One KeycloakClient, web, that refers to realm ra; it is edited between  *)
(* a service account and a public client with redirects, so that its       *)
(* redirect URIs are set and cleared.  Besides ra's realm acme, Keycloak   *)
(* has the realm initech, which carries the tenant's ID.                   *)
(***************************************************************************)
EXTENDS ClientController, TLC

CONSTANTS ra, web, acme, initech, webSecret, login, k1, k2, k3, k4

MCPossibleNames == (ra :> {acme})
MCDefaultSecret == (web :> webSecret)

WebSpec(public, redirectURIs) ==
  [clientID |-> NoName, realmRef |-> ra, tenantID |-> initech, secretName |-> NoName,
   public |-> public, serviceAccounts |-> ~public, redirectURIs |-> redirectURIs]

MCSpecs == (web :> {WebSpec(FALSE, NoName), WebSpec(TRUE, login)})
=============================================================================
