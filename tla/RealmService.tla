---------------------------- MODULE RealmService ----------------------------
(***************************************************************************)
(* What the KeycloakClient controller may rely on of the realms it works   *)
(* in: how their custom resources appear in the informer cache, and        *)
(* whether Keycloak has them.  RealmController is shown to implement this. *)
(*                                                                         *)
(* The cache may show a realm ready before or after Keycloak has it; what  *)
(* holds is that a resource stays visible for as long as its realm is up,  *)
(* unless someone forces it out by stripping its finalizer.                *)
(***************************************************************************)
EXTENDS CatalogItem

CONSTANTS Realms, RealmNames,
          PossibleNames,     \* the names the spec of each resource can give its realm
          AmbientRealms,     \* realms of Keycloak that no custom resource manages
          MayStrip           \* whether finalizers are stripped by hand

VARIABLES realmView,   \* the cached KeycloakRealm: its realm's name, and Ready
          realmUp,     \* Keycloak has a realm of that name
          stripped     \* some finalizer was stripped

serviceVars == <<realmView, realmUp, stripped>>

RealmViews(r) == [name : PossibleNames[r], ready : BOOLEAN]

ServiceInit ==
  /\ realmView = [r \in Realms |-> NoObj]
  /\ realmUp = [n \in RealmNames |-> n \in AmbientRealms]
  /\ stripped = FALSE

Managing(n) == {r \in Realms : realmView[r] # NoObj /\ n \in PossibleNames[r]}

(* The cache moves on, for one resource or, after a restart, for several.  *)
Refresh ==
  /\ realmView' \in [Realms -> [name : RealmNames, ready : BOOLEAN] \cup {NoObj}]
  /\ \A r \in Realms :
       /\ realmView'[r] \in RealmViews(r) \cup {NoObj}
       /\ realmView[r] # NoObj /\ realmView'[r] = NoObj =>
            \A n \in PossibleNames[r] : ~realmUp[n]
  /\ UNCHANGED <<realmUp, stripped>>

BringUp(n) ==
  /\ ~realmUp[n] /\ Managing(n) # {}
  /\ realmUp' = [realmUp EXCEPT ![n] = TRUE]
  /\ UNCHANGED <<realmView, stripped>>

TakeDown(n) ==
  /\ realmUp[n] /\ Managing(n) # {}
  /\ realmUp' = [realmUp EXCEPT ![n] = FALSE]
  /\ UNCHANGED <<realmView, stripped>>

Strip(r) ==
  /\ MayStrip /\ realmView[r] # NoObj
  /\ realmView' = [realmView EXCEPT ![r] = NoObj]
  /\ stripped' = TRUE
  /\ UNCHANGED realmUp

ServiceNext ==
  \/ Refresh
  \/ \E n \in RealmNames \ AmbientRealms : BringUp(n) \/ TakeDown(n)
  \/ \E r \in Realms : Strip(r)

ServiceSpec == ServiceInit /\ [][ServiceNext]_serviceVars
=============================================================================
