-------------------------- MODULE RealmController --------------------------
(***************************************************************************)
(* The KeycloakRealm controller: makes Keycloak have the realm of every    *)
(* KeycloakRealm, with its settings, and deletes it before the resource    *)
(* may go.  It is the only one that creates or deletes realms here.        *)
(***************************************************************************)
EXTENDS ControllerRuntime

CONSTANTS DisplayNames,  \* names for people, of which a realm need not have one
          NoRealm        \* Keycloak has no such realm

Settings == [displayName : DisplayNames \cup {NoName}, enabled : BOOLEAN]

(* The names a realm can have are the Names a status can record.           *)
RealmSpecs == [realm : Names \cup {NoName}, tenantID : Names, settings : Settings]

ASSUME RealmAssumption ==
  /\ \A k \in Keys : Specs[k] \subseteq RealmSpecs
  /\ NoRealm \notin Settings
  /\ NoObj \notin [name : Names, ready : BOOLEAN]

VARIABLE kcRealms        \* Keycloak: the settings of each realm, or NoRealm

realmVars == <<runtimeVars, kcRealms>>

(* lines 41-44: an empty spec.realm means the tenant ID                    *)
RealmNameOf(spec) == IF spec.realm = NoName THEN spec.tenantID ELSE spec.realm

RealmName == RealmNameOf(Obj.spec)
Wanted    == Obj.spec.settings
Existing  == kcRealms[RealmName]

RealmInit == RuntimeInit /\ kcRealms = [n \in Names |-> NoRealm]

----------------------------------------------------------------------------
(* Bug: what was never recorded as provisioned needs no teardown           *)
StartTeardown_IfRecorded(k) ==
  /\ Terminated(k)
  /\ Take(k, IF cache[k].status.recorded = NoName THEN "removeFinalizer"
             ELSE "deleteRealm", NoLocal)

StartTeardown(k) == Terminated(k) /\ Take(k, "deleteRealm", NoLocal)

(* Bug: provisions before it has the finalizer                             *)
StartEnsure_Unmanaged(k) ==
  (Managed(k) \/ Unmanaged(k)) /\ Take(k, "getRealm", NoLocal)

StartEnsure(k) == Managed(k) /\ Take(k, "getRealm", NoLocal)

(* Bug: an existing realm is taken as it is                                *)
GetRealm_CreateOnly(o) ==
  /\ At("getRealm", o)
  /\ Goto(IF o # "ok" THEN "failStatus"
          ELSE IF Existing = NoRealm THEN "postRealm" ELSE "readyStatus")
  /\ UNCHANGED <<objects, cache, edits, calm, kcRealms>>

(* Bug: a realm that drifted is deleted, to be created again               *)
GetRealm_Recreate(o) ==
  /\ At("getRealm", o)
  /\ Goto(IF o # "ok" THEN "failStatus"
          ELSE IF Existing = NoRealm THEN "postRealm"
          ELSE IF Existing = Wanted THEN "readyStatus" ELSE "deleteRealm")
  /\ UNCHANGED <<objects, cache, edits, calm, kcRealms>>

(* EnsureRealm: GET, then POST or PUT, or neither when nothing drifted     *)
GetRealm(o) ==
  /\ At("getRealm", o)
  /\ \/ o # "ok" /\ Goto("failStatus")
     \/ o = "ok" /\ Existing = NoRealm /\ Goto("postRealm")
     \/ o = "ok" /\ Existing = Wanted /\ Goto("readyStatus")
     \/ o = "ok" /\ Existing \notin {NoRealm, Wanted} /\ Goto("putRealm")
  /\ UNCHANGED <<objects, cache, edits, calm, kcRealms>>

PostRealm(o) ==
  /\ At("postRealm", o)
  /\ kcRealms' = Call(o, kcRealms, [kcRealms EXCEPT ![RealmName] = Wanted])
  /\ Goto(IF o = "ok" THEN "readyStatus" ELSE "failStatus")
  /\ UNCHANGED <<objects, cache, edits, calm>>

(* An empty displayName is left out of the body (omitempty, client.go:24), *)
(* and Keycloak leaves alone what a PUT does not mention.                  *)
Updating(settings) ==
  [displayName |-> IF Wanted.displayName = NoName THEN settings.displayName
                   ELSE Wanted.displayName,
   enabled     |-> Wanted.enabled]

PutRealm(o) ==
  /\ At("putRealm", o)
  /\ kcRealms' = IF Existing = NoRealm THEN kcRealms
       ELSE Call(o, kcRealms, [kcRealms EXCEPT ![RealmName] = Updating(Existing)])
  /\ Goto(IF o = "ok" /\ Existing # NoRealm THEN "readyStatus" ELSE "failStatus")
  /\ UNCHANGED <<objects, cache, edits, calm>>

(* Bug: the error of the DELETE is dropped                                 *)
DeleteKcRealm_ErrorDropped(o) ==
  /\ At("deleteRealm", o)
  /\ kcRealms' = Call(o, kcRealms, [kcRealms EXCEPT ![RealmName] = NoRealm])
  /\ Goto("removeFinalizer")
  /\ UNCHANGED <<objects, cache, edits, calm>>

(* finalize: the realm is deleted, or already gone, before the finalizer   *)
DeleteKcRealm(o) ==
  /\ At("deleteRealm", o)
  /\ kcRealms' = Call(o, kcRealms, [kcRealms EXCEPT ![RealmName] = NoRealm])
  /\ IF o = "ok" THEN Goto("removeFinalizer") ELSE Retry
  /\ UNCHANGED <<objects, cache, edits, calm>>

WriteRealmReady(o) == WriteReady(o, RealmName)

----------------------------------------------------------------------------
TakeKey(k) == Skip(k) \/ StartAdoption(k) \/ StartTeardown(k) \/ StartEnsure(k)

(* The steps that leave Keycloak alone, and those that talk to it          *)
LocalStep    == \E o \in Outcomes : FinalizerStep(o) \/ WriteRealmReady(o)
KeycloakStep == \E o \in Outcomes : GetRealm(o) \/ PostRealm(o) \/ PutRealm(o) \/ DeleteKcRealm(o)

Step == (LocalStep /\ UNCHANGED kcRealms) \/ KeycloakStep

RealmNext ==
  \/ UserNext /\ UNCHANGED kcRealms
  \/ \E k \in Keys : (Sync(k) \/ TakeKey(k)) /\ UNCHANGED kcRealms
  \/ Step
  \/ (Restart \/ Resync \/ BecomeCalm) /\ UNCHANGED kcRealms

RealmSpec == RealmInit /\ [][RealmNext]_realmVars

(* Watches deliver; a reconcile in progress goes on; the queue is first-in *)
(* first-out, so a key that stays in it is taken however often others are. *)
RealmFairness ==
  /\ WF_realmVars(Step)
  /\ \A k \in Keys : /\ WF_realmVars(Sync(k) /\ UNCHANGED kcRealms)
                     /\ SF_realmVars(TakeKey(k) /\ UNCHANGED kcRealms)

RealmFairSpec == RealmSpec /\ RealmFairness

----------------------------------------------------------------------------
(* Users may change everything about a resource but its realm's name; what *)
(* becomes of a realm whose resource is renamed, see NoOrphanRealm below.  *)
StableRealmNames ==
  \A k \in Keys : \A s, t \in Specs[k] : RealmNameOf(s) = RealmNameOf(t)

RealmSteps == {"addFinalizer", "getRealm", "postRealm", "putRealm", "readyStatus",
               "failStatus", "deleteRealm", "removeFinalizer"}

(* No two resources name the same realm.                                   *)
DistinctRealmNames ==
  \A j, k \in Keys : \A s \in Specs[j], t \in Specs[k] :
    RealmNameOf(s) = RealmNameOf(t) => j = k

(* The resources keep their shape (see RuntimeTypeOK), and so does         *)
(* Keycloak.                                                               *)
RealmTypeOK ==
  /\ RuntimeTypeOK(RealmSteps, {NoLocal})
  /\ kcRealms \in [Names -> Settings \cup {NoRealm}]

(* A realm in Keycloak always has a resource that still carries the        *)
(* finalizer and names it: teardown "is verified before deletion"          *)
(* (common.go:23-24), whatever was lost, stale, repeated or crashed.       *)
Manages(k, n) ==
  objects[k] # NoObj /\ objects[k].finalizer /\ RealmNameOf(objects[k].spec) = n

NoOrphanRealm ==
  \A n \in Names : kcRealms[n] # NoRealm => \E k \in Keys : Manages(k, n)

(* Keycloak has the realm, with all the settings a PUT can give it; one    *)
(* that is not asked for may be what it was before.                        *)
Provisioned(spec) ==
  LET realm == kcRealms[RealmNameOf(spec)]
  IN  /\ realm # NoRealm
      /\ realm.enabled = spec.settings.enabled
      /\ spec.settings.displayName \in {NoName, realm.displayName}

(* Ready at the current generation means that Keycloak has the realm as    *)
(* that generation asks: a reconcile that began on an older, cached spec   *)
(* cannot leave its settings behind a newer Ready, nor does a PUT or POST  *)
(* whose answer was lost.  (Needs resources with names of their own.)      *)
ReadyRealmIsProvisioned ==
  \A k \in Keys : objects[k] # NoObj /\ Ready(objects[k]) => Provisioned(objects[k].spec)

(* A realm vanishes from Keycloak only while its resource is being         *)
(* deleted: a retried teardown never destroys the realm of a successor.    *)
RealmGoesOnlyWithItsResource ==
  [][\A n \in Names : kcRealms[n] # NoRealm /\ kcRealms'[n] = NoRealm =>
       \E k \in Keys : Manages(k, n) /\ objects[k].deleting]_realmVars

(* Once the environment is calm every resource ends up Ready with its      *)
(* realm in Keycloak, or gone, the cache shows it, and the queue drains.   *)
Settled(k) ==
  objects[k] # NoObj =>
    /\ ~objects[k].deleting /\ Ready(objects[k])
    /\ ~objects[k].status.failed /\ ~objects[k].status.reconciling
    /\ Provisioned(objects[k].spec)

RealmsConverge ==
  <>calm => <>[](queue = {} /\ cache = objects /\ \A k \in Keys : Settled(k))

----------------------------------------------------------------------------
(* Each resource, with the realm it names, lives the life of a Catalog     *)
(* Item.  (Needs one stable name per resource, not shared.)                *)
HasRealm(k) == \E s \in Specs[k] : kcRealms[RealmNameOf(s)] # NoRealm

Lifecycle == INSTANCE CatalogItemLifecycle WITH
  Items    <- Keys,
  phase    <- [k \in Keys |-> Phase(k)],
  external <- [k \in Keys |-> HasRealm(k)]

RealmsImplementLifecycle == Lifecycle!LifecycleSpec

(* To the client controller, the realm controller is the RealmService.     *)
Service == INSTANCE RealmService WITH
  Realms        <- Keys,
  RealmNames    <- Names,
  PossibleNames <- [k \in Keys |-> {RealmNameOf(s) : s \in Specs[k]}],
  AmbientRealms <- {},
  MayStrip      <- FALSE,
  realmView     <- [k \in Keys |->
                      IF cache[k] = NoObj THEN NoObj
                      ELSE [name  |-> RealmNameOf(cache[k].spec),
                            ready |-> cache[k].status.ready = "True"]],
  realmUp       <- [n \in Names |-> kcRealms[n] # NoRealm],
  stripped      <- FALSE

RealmsServeClients == Service!ServiceSpec
=============================================================================
