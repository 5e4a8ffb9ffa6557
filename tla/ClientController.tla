-------------------------- MODULE ClientController --------------------------
(***************************************************************************)
(* The KeycloakClient controller: it resolves the realm a client belongs   *)
(* to, makes Keycloak have the client, copies its credentials into a       *)
(* Secret of the tenant and tears both down again.  It shares the informer *)
(* cache and Keycloak with the realm controller, which appears here as the *)
(* RealmService it implements.                                             *)
(***************************************************************************)
EXTENDS ControllerRuntime, RealmService

CONSTANTS ClientIDs,        \* OAuth client IDs; a resource's name can be one
          SecretNames,      \* Secrets of the tenant namespaces
          DefaultSecret,    \* for each resource, <name>-keycloak-client
          RedirectURIs,     \* lists of redirect URIs; the empty one is NoName
          Credentials,      \* client secrets Keycloak generates
          NoClient, NoSecret, NoCredential

(* The realms a status can record are the realms of Keycloak.              *)
ClientSpecs ==
  [clientID : ClientIDs \cup {NoName}, realmRef : Realms, tenantID : RealmNames,
   secretName : SecretNames \cup {NoName}, public : BOOLEAN,
   serviceAccounts : BOOLEAN, redirectURIs : RedirectURIs \cup {NoName}]

(* What the operator manages of a client in Keycloak                       *)
Representations ==
  [public : BOOLEAN, serviceAccounts : BOOLEAN, standardFlow : BOOLEAN,
   redirectURIs : RedirectURIs \cup {NoName}]

KcClients == [rep : Representations, credential : Credentials]

(* The local variables of a reconcile: the realm, and what Keycloak says   *)
(* the client's secret is.                                                 *)
Locals == [realm : RealmNames \cup {NoName}, credential : Credentials \cup {NoCredential}]

(* What the operator writes into a Secret.                                 *)
SecretContents ==
  [realm : RealmNames, clientID : ClientIDs, credential : Credentials \cup {NoCredential}]

(* Whatever is in use, Keycloak has another secret to give.                *)
ASSUME ClientAssumption ==
  /\ Names = RealmNames /\ NoLocal \notin Locals /\ NoSecret \notin SecretContents
  /\ Keys \subseteq ClientIDs
  /\ \A k \in Keys : Specs[k] \subseteq ClientSpecs
  /\ DefaultSecret \in [Keys -> SecretNames]
  /\ \A kc \in [RealmNames \X ClientIDs -> Credentials \cup {NoCredential}],
        copies \in [SecretNames -> Credentials \cup {NoCredential}] :
       \E v \in Credentials :
         /\ \A c \in RealmNames \X ClientIDs : kc[c] # v
         /\ \A s \in SecretNames : copies[s] # v

VARIABLES kcClients,     \* Keycloak: the client of an ID in a realm, or NoClient
          secrets        \* the tenant's Secrets

clientVars == <<runtimeVars, serviceVars, kcClients, secrets>>

(* lines 49-52 and 84-87: defaults taken from the resource's name          *)
ClientIDOf(k, spec)   == IF spec.clientID = NoName THEN k ELSE spec.clientID
SecretNameOf(k, spec) ==
  IF spec.secretName = NoName THEN DefaultSecret[k] ELSE spec.secretName

(* Bug: without a recorded realm, the tenant ID is taken for its name      *)
ResolvedRealm_TenantFallback(obj) ==
  IF obj.status.recorded # NoName THEN obj.status.recorded ELSE obj.spec.tenantID

(* Bug: the recorded realm is not consulted                                *)
ResolvedRealm_Unrecorded(obj) ==
  IF realmView[obj.spec.realmRef] = NoObj THEN NoName
  ELSE realmView[obj.spec.realmRef].name

(* lines 54-75: the recorded realm, else the one the referenced resource   *)
(* names in the cache, else none                                           *)
ResolvedRealm(obj) ==
  IF obj.status.recorded # NoName THEN obj.status.recorded
  ELSE IF realmView[obj.spec.realmRef] # NoObj THEN realmView[obj.spec.realmRef].name
  ELSE NoName

RealmReady(obj) ==
  realmView[obj.spec.realmRef] # NoObj /\ realmView[obj.spec.realmRef].ready

(* What a reconcile works on                                               *)
InRealm(n) == [realm |-> n, credential |-> NoCredential]

Spec   == Obj.spec
Realm  == worker.local.realm
Client == <<Realm, ClientIDOf(Key, Spec)>>
Secret == SecretNameOf(Key, Spec)
Found  == kcClients[Client]               \* what Keycloak has of it

ClientInit ==
  /\ RuntimeInit /\ ServiceInit
  /\ kcClients = [c \in RealmNames \X ClientIDs |-> NoClient]
  /\ secrets = [s \in SecretNames |-> NoSecret]

----------------------------------------------------------------------------
(* What Reconcile (lines 41-193) branches on before its first call.        *)

(* Bug: only a client whose realm is recorded is deleted                   *)
StartTeardown_IfRecorded(k) ==
  /\ Terminated(k)
  /\ Take(k, IF cache[k].status.recorded = NoName THEN "deleteSecret" ELSE "findToDelete",
          InRealm(cache[k].status.recorded))

(* without a realm only the Secret is torn down                            *)
StartTeardown(k) ==
  /\ Terminated(k)
  /\ Take(k, IF ResolvedRealm(cache[k]) = NoName THEN "deleteSecret" ELSE "findToDelete",
          InRealm(ResolvedRealm(cache[k])))

StartWithoutRealm(k) ==
  /\ Managed(k) /\ ResolvedRealm(cache[k]) = NoName
  /\ Take(k, "failStatus", InRealm(NoName))

StartWaiting(k) ==
  /\ Managed(k) /\ ResolvedRealm(cache[k]) # NoName
  /\ cache[k].status.recorded = NoName /\ ~RealmReady(cache[k])
  /\ Take(k, "waitStatus", InRealm(NoName))

StartEnsure(k) ==
  /\ Managed(k) /\ ResolvedRealm(cache[k]) # NoName
  /\ cache[k].status.recorded # NoName \/ RealmReady(cache[k])
  /\ Take(k, "findClient", InRealm(ResolvedRealm(cache[k])))

----------------------------------------------------------------------------
(* EnsureClient (client.go:122-160).  Keycloak answers 404 to anything     *)
(* asked of a realm or client it does not have, which is an error here.    *)

NoStep == UNCHANGED <<objects, cache, edits, calm, serviceVars>>

(* lines 131-136 and client.go:123: the standard flow is for redirects     *)
Representation(spec) ==
  [public       |-> spec.public,         serviceAccounts |-> spec.serviceAccounts,
   redirectURIs |-> spec.redirectURIs,   standardFlow    |-> spec.redirectURIs # NoName]

(* Bug: an existing client is taken as it is                               *)
Drifted_Never == FALSE

Drifted == Found.rep # Representation(Spec)

(* a confidential client's secret is fetched before the Secret is written  *)
AfterEnsure == IF Spec.public THEN "writeSecret" ELSE "getCredential"

(* Keycloak generates a secret that is not in use anywhere                 *)
InUse ==
  {kcClients[c].credential : c \in {d \in DOMAIN kcClients : kcClients[d] # NoClient}}
    \cup {secrets[s].credential : s \in {t \in SecretNames : secrets[t] # NoSecret}}

Fresh == CHOOSE v \in Credentials : v \notin InUse

FindClient(o) ==
  /\ At("findClient", o)
  /\ \/ (o # "ok" \/ ~realmUp[Realm]) /\ Goto("failStatus")
     \/ o = "ok" /\ realmUp[Realm] /\ Found = NoClient /\ Goto("postClient")
     \/ o = "ok" /\ realmUp[Realm] /\ Found # NoClient
          /\ Goto(IF Drifted THEN "putClient" ELSE AfterEnsure)
  /\ NoStep /\ UNCHANGED <<kcClients, secrets>>

PostClient(o) ==
  /\ At("postClient", o)
  /\ kcClients' = IF ~realmUp[Realm] THEN kcClients
       ELSE Call(o, kcClients, [kcClients EXCEPT ![Client] =
              [rep |-> Representation(Spec), credential |-> Fresh]])
  /\ Goto(IF o = "ok" /\ realmUp[Realm] THEN "findCreated" ELSE "failStatus")
  /\ NoStep /\ UNCHANGED secrets

FindCreated(o) ==
  /\ At("findCreated", o)
  /\ Goto(IF o = "ok" /\ Found # NoClient THEN AfterEnsure ELSE "failStatus")
  /\ NoStep /\ UNCHANGED <<kcClients, secrets>>

(* Empty redirect URIs are left out of the body (omitempty, client.go:35), *)
(* and Keycloak leaves alone what a PUT does not mention.                  *)
Updating(rep) ==
  [Representation(Spec) EXCEPT !.redirectURIs = IF @ = NoName THEN rep.redirectURIs ELSE @]

PutClient(o) ==
  /\ At("putClient", o)
  /\ kcClients' = IF Found = NoClient THEN kcClients
       ELSE Call(o, kcClients, [kcClients EXCEPT ![Client].rep = Updating(Found.rep)])
  /\ Goto(IF o = "ok" /\ Found # NoClient THEN AfterEnsure ELSE "failStatus")
  /\ NoStep /\ UNCHANGED secrets

GetCredential(o) ==
  /\ At("getCredential", o)
  /\ worker' = IF o = "ok" /\ Found # NoClient
       THEN [worker EXCEPT !.pc = "writeSecret", !.local.credential = Found.credential]
       ELSE [worker EXCEPT !.pc = "failStatus"]
  /\ NoStep /\ UNCHANGED <<queue, kcClients, secrets>>

(* lines 144-176: StringData is merged into the Secret, so the             *)
(* client-secret key of a client that became public stays                  *)
SecretContent ==
  [realm |-> Realm, clientID |-> Client[2],
   credential |-> IF ~Spec.public THEN worker.local.credential
                  ELSE IF secrets[Secret] = NoSecret THEN NoCredential
                  ELSE secrets[Secret].credential]

WriteSecret(o) ==
  /\ At("writeSecret", o)
  /\ secrets' = Call(o, secrets, [secrets EXCEPT ![Secret] = SecretContent])
  /\ Goto(IF o = "ok" THEN "readyStatus" ELSE "failStatus")
  /\ NoStep /\ UNCHANGED kcClients

(* Bug: the realm is not recorded                                          *)
WriteClientReady_Unrecorded(o) == WriteReady(o, NoName)

(* lines 178-186: the realm is recorded with the first Ready               *)
WriteClientReady(o) == WriteReady(o, Realm)

----------------------------------------------------------------------------
(* finalize, lines 77-94 with client.go:164-176: the Keycloak client, then *)
(* the Secret, then the finalizer.  A realm that is gone is an error.      *)

(* Bug: a client that is already gone ends the cleanup                     *)
FindToDelete_ShortCut(o) ==
  /\ At("findToDelete", o)
  /\ IF o # "ok" \/ ~realmUp[Realm] THEN Retry
     ELSE Goto(IF Found = NoClient THEN "removeFinalizer" ELSE "deleteClient")
  /\ NoStep /\ UNCHANGED <<kcClients, secrets>>

FindToDelete(o) ==
  /\ At("findToDelete", o)
  /\ IF o # "ok" \/ ~realmUp[Realm] THEN Retry
     ELSE Goto(IF Found = NoClient THEN "deleteSecret" ELSE "deleteClient")
  /\ NoStep /\ UNCHANGED <<kcClients, secrets>>

DeleteKcClient(o) ==
  /\ At("deleteClient", o)
  /\ kcClients' = Call(o, kcClients, [kcClients EXCEPT ![Client] = NoClient])
  /\ IF o = "ok" /\ Found # NoClient THEN Goto("deleteSecret") ELSE Retry
  /\ NoStep /\ UNCHANGED secrets

DeleteSecret(o) ==
  /\ At("deleteSecret", o)
  /\ secrets' = Call(o, secrets, [secrets EXCEPT ![Secret] = NoSecret])
  /\ IF o = "ok" THEN Goto("removeFinalizer") ELSE Retry
  /\ NoStep /\ UNCHANGED kcClients

----------------------------------------------------------------------------
external == <<serviceVars, kcClients, secrets>>

(* The realms change underneath; a realm Keycloak drops takes its clients  *)
(* with it.                                                                *)
ServiceStep ==
  /\ ServiceNext
  /\ kcClients' = [c \in DOMAIN kcClients |->
                     IF realmUp'[c[1]] THEN kcClients[c] ELSE NoClient]
  /\ UNCHANGED <<runtimeVars, secrets>>

TakeKey(k) ==
  \/ Skip(k) \/ StartAdoption(k) \/ StartTeardown(k)
  \/ StartWithoutRealm(k) \/ StartWaiting(k) \/ StartEnsure(k)

LocalStep ==
  \E o \in Outcomes : FinalizerStep(o) \/ WriteClientReady(o) \/ WriteWaiting(o)

EnsureStep ==
  \E o \in Outcomes :
    \/ FindClient(o) \/ PostClient(o) \/ FindCreated(o) \/ PutClient(o)
    \/ GetCredential(o) \/ WriteSecret(o)

TeardownStep ==
  \E o \in Outcomes : FindToDelete(o) \/ DeleteKcClient(o) \/ DeleteSecret(o)

Step == (LocalStep /\ UNCHANGED external) \/ EnsureStep \/ TeardownStep

ClientNext ==
  \/ UserNext /\ UNCHANGED external
  \/ \E k \in Keys : (Sync(k) \/ TakeKey(k)) /\ UNCHANGED external
  \/ Step
  \/ ServiceStep
  \/ (Restart \/ Resync \/ BecomeCalm) /\ UNCHANGED external

ClientSpec == ClientInit /\ [][ClientNext]_clientVars

(* As for the realm controller; nothing is asked of the realms here.       *)
ClientFairness ==
  /\ WF_clientVars(Step)
  /\ \A k \in Keys : /\ WF_clientVars(Sync(k) /\ UNCHANGED external)
                     /\ SF_clientVars(TakeKey(k) /\ UNCHANGED external)

ClientFairSpec == ClientSpec /\ ClientFairness

----------------------------------------------------------------------------
ClientSteps ==
  {"addFinalizer", "findClient", "postClient", "findCreated", "putClient", "getCredential",
   "writeSecret", "readyStatus", "failStatus", "waitStatus", "findToDelete",
   "deleteClient", "deleteSecret", "removeFinalizer"}

(* The steps a reconcile that resolved no realm may take                   *)
RealmlessSteps == {"failStatus", "waitStatus", "deleteSecret", "removeFinalizer"}

(* The resources keep their shape (see RuntimeTypeOK), as do Keycloak and  *)
(* the Secrets; Ready comes with a recorded realm, and no step talks to    *)
(* Keycloak without a realm to name.                                       *)
ClientTypeOK ==
  /\ RuntimeTypeOK(ClientSteps, Locals \cup {NoLocal})
  /\ worker.pc \in ClientSteps \ {"addFinalizer"} =>
       /\ worker.local # NoLocal
       /\ worker.local.realm = NoName => worker.pc \in RealmlessSteps
  /\ \A k \in Keys : objects[k] # NoObj =>
       (objects[k].status.ready = "True" => objects[k].status.recorded # NoName)
  /\ kcClients \in [RealmNames \X ClientIDs -> KcClients \cup {NoClient}]
  /\ secrets \in [SecretNames -> SecretContents \cup {NoSecret}]

(* A client in Keycloak always has a resource that still carries the       *)
(* finalizer and stands for it, unless somebody stripped a realm's         *)
(* finalizer: neither a lost answer, a crash between the POST and the      *)
(* status write, nor a stale cache leaks it.                               *)
HeldFor(k, c) ==
  objects[k] # NoObj /\ objects[k].finalizer /\ ClientIDOf(k, objects[k].spec) = c[2]

NoOrphanClient ==
  ~stripped =>
    \A c \in DOMAIN kcClients : kcClients[c] # NoClient => \E k \in Keys : HeldFor(k, c)

(* The same of the tenant's Secrets, whatever happens to the realms.       *)
NoOrphanSecret ==
  \A s \in SecretNames : secrets[s] # NoSecret =>
    \E k \in Keys : objects[k] # NoObj /\ objects[k].finalizer
                    /\ SecretNameOf(k, objects[k].spec) = s

(* "Never fall back to the tenant ID": a client is only ever in a realm    *)
(* that a resource it refers to may name (keycloakclient_controller.go:    *)
(* 54-57).                                                                 *)
ClientsStayInReferencedRealms ==
  \A c \in DOMAIN kcClients : kcClients[c] # NoClient =>
    \E k \in Keys : \E spec \in Specs[k] :
      c[2] = ClientIDOf(k, spec) /\ c[1] \in PossibleNames[spec.realmRef]

(* A resource that recorded its realm is only let go once that realm no    *)
(* longer has the client, though the realm's own resource may be gone.     *)
RecordedClientIsTornDown ==
  [][\A k \in Keys :
       objects[k] # NoObj /\ objects'[k] = NoObj /\ objects[k].status.recorded # NoName =>
         kcClients[<<objects[k].status.recorded, ClientIDOf(k, objects[k].spec)>>] = NoClient
    ]_clientVars

(* When nothing is left to do for a Ready client - no event, no queued key,*)
(* no reconcile - and Keycloak still has it, then Keycloak has of the spec *)
(* what a PUT can give it (redirect URIs that are not asked for may be     *)
(* what they were) and the Secret the credential Keycloak would check.     *)
Serves(rep, wanted) ==
  /\ rep.public = wanted.public /\ rep.serviceAccounts = wanted.serviceAccounts
  /\ rep.standardFlow = wanted.standardFlow
  /\ wanted.redirectURIs \in {NoName, rep.redirectURIs}

Works(k, obj) ==
  LET kc     == kcClients[<<obj.status.recorded, ClientIDOf(k, obj.spec)>>]
      secret == secrets[SecretNameOf(k, obj.spec)]
  IN  kc # NoClient =>
        /\ Serves(kc.rep, Representation(obj.spec))
        /\ secret # NoSecret
        /\ secret.realm = obj.status.recorded /\ secret.clientID = ClientIDOf(k, obj.spec)
        /\ ~obj.spec.public => secret.credential = kc.credential

QuietReadyClientWorks ==
  \A k \in Keys : objects[k] # NoObj /\ Quiet(k) /\ Ready(objects[k]) => Works(k, objects[k])

(* When the environment is calm and the realm a resource needs stays up,   *)
(* visible and ready, the resource ends up Ready, or gone.                 *)
RealmServes(k) ==
  objects[k] # NoObj => RealmReady(objects[k]) /\ realmUp[ResolvedRealm(objects[k])]

Settled(k) ==
  objects[k] # NoObj =>
    /\ ~objects[k].deleting /\ Ready(objects[k])
    /\ ~objects[k].status.failed /\ ~objects[k].status.reconciling

ClientsConverge ==
  (<>calm /\ <>[](\A k \in Keys : RealmServes(k))) => <>[](\A k \in Keys : Settled(k))

----------------------------------------------------------------------------
(* "missing clients are not an error" (client.go:162-163): a client whose  *)
(* realm is gone from Keycloak is released.  But listing the clients of a  *)
(* missing realm is a 404, which DeleteClient returns as an error.         *)
TeardownOutlivesRealm ==
  (<>calm /\ <>[](\A n \in RealmNames \ AmbientRealms : ~realmUp[n])) =>
    <>[](\A k \in Keys : objects[k] # NoObj => ~objects[k].deleting)
=============================================================================
