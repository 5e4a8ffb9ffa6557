------------------------ MODULE ClusterDexController ------------------------
(***************************************************************************)
(* The ClusterDex controller: it renders the Dex baseline of a cluster, an *)
(* ArgoCD Application and the ConfigMaps argocd-cm and argocd-rbac-cm, one *)
(* after the other, once the Secrets they refer to are there; it removes   *)
(* them when the baseline is disabled or its resource deleted.             *)
(***************************************************************************)
EXTENDS ControllerRuntime, Sequences

CONSTANTS Clusters,          \* cluster IDs; the Application is named for one
          Namespaces,        \* ArgoCD namespaces
          DefaultNamespace,  \* "argocd"
          Installed,         \* where ArgoCD had its ConfigMaps before
          SecretRefs,        \* Secrets a spec can refer to
          Images,            \* image references
          Groups,            \* admin and viewer groups, as one value
          Issuers,           \* issuer URLs that override the default
          WellFormed,        \* images with an explicit tag, groups of one line
          NoChild,           \* the child does not exist
          Foreign            \* the child exists and was not rendered by us

(* Optional fields are NoName when they are not set.                       *)
DexSpecs ==
  [enabled : BOOLEAN, impersonates : BOOLEAN, cluster : Clusters,
   namespace : Namespaces \cup {NoName}, clientRef : SecretRefs,
   configRef : SecretRefs \cup {NoName}, oidcRef : SecretRefs \cup {NoName},
   image : Images \cup {NoName}, issuer : Issuers \cup {NoName}, groups : Groups]

ASSUME DexAssumption ==
  /\ Names = Clusters /\ NoName \notin SecretRefs
  /\ DefaultNamespace \in Namespaces /\ Installed \subseteq Namespaces
  /\ \A k \in Keys : Specs[k] \subseteq DexSpecs
  /\ {"argocd-cm", "argocd-rbac-cm"} \cap Clusters = {}

VARIABLES children,    \* the API server: the content of each child, by namespace and name
          seen,        \* the informer cache of the ConfigMaps among them
          complete     \* Secrets that exist, in the cache, with the keys asked for

dexVars == <<runtimeVars, children, seen, complete>>

ConfigMaps == Namespaces \X {"argocd-cm", "argocd-rbac-cm"}
ChildNames == ConfigMaps \cup (Namespaces \X Clusters)

(* clusterdex_application.go: where the children go, and what is in them.  *)
(* What the spec merely passes on (chart version, project, route, extra    *)
(* policy) is represented by the fields that are here.                     *)
ArgoCDNamespace(spec) == IF spec.namespace = NoName THEN DefaultNamespace ELSE spec.namespace

ChildrenOf(spec) ==
  LET ns == ArgoCDNamespace(spec)
  IN  << <<ns, spec.cluster>>, <<ns, "argocd-cm">>, <<ns, "argocd-rbac-cm">> >>

(* the default issuer is a URL made of the cluster ID                      *)
DexIssuer(spec) == IF spec.issuer = NoName THEN spec.cluster ELSE spec.issuer

DexApplication(spec) == [configSecret |-> spec.configRef, image |-> spec.image]
ArgoCDConfig(spec)   == [issuer |-> DexIssuer(spec), clientSecret |-> spec.oidcRef]
ArgoCDPolicy(spec)   == [groups |-> spec.groups]

Rendered(spec) == <<DexApplication(spec), ArgoCDConfig(spec), ArgoCDPolicy(spec)>>

(* splitImageRef wants a tag and no digest; a group must be a single line  *)
Renderable(spec) == spec.image \in WellFormed \cup {NoName} /\ spec.groups \in WellFormed

(* lines 86-103: what has to be there before anything is rendered          *)
Awaited(spec) ==
  ({spec.clientRef, spec.configRef} \ complete) \cup ({spec.oidcRef} \cap {NoName})

(* The local variable of a reconcile: which child is next, or none.        *)
First == [child |-> 1]

Contents ==
  {NoChild, Foreign}
    \cup [configSecret : SecretRefs, image : Images \cup {NoName}]
    \cup [issuer : Clusters \cup Issuers, clientSecret : SecretRefs]
    \cup [groups : Groups]

(* Before the operator comes there is no Application of Dex.               *)
DexInit ==
  /\ RuntimeInit
  /\ children = [c \in ChildNames |->
       IF c \in ConfigMaps /\ c[1] \in Installed THEN Foreign ELSE NoChild]
  /\ seen = [c \in ConfigMaps |-> children[c]]
  /\ complete = {}

----------------------------------------------------------------------------
(* What Reconcile branches on before its first call.                       *)

(* Bug: what was never recorded as rendered needs no teardown              *)
StartTeardown_IfRecorded(k) ==
  /\ Terminated(k)
  /\ Take(k, IF cache[k].status.recorded = NoName THEN "removeFinalizer"
             ELSE "deleteChild", First)

StartTeardown(k) == Terminated(k) /\ Take(k, "deleteChild", First)

StartDisable(k) == Managed(k) /\ ~cache[k].spec.enabled /\ Take(k, "disableChild", First)

(* waiting: Failed, and a requeue after 30s                                *)
StartWaiting(k) ==
  /\ Managed(k) /\ cache[k].spec.enabled /\ Awaited(cache[k].spec) # {}
  /\ Take(k, "failStatus", First)

(* an error of the rendering is tried again, like any other                *)
StartUnrenderable(k) ==
  /\ Managed(k) /\ cache[k].spec.enabled /\ Awaited(cache[k].spec) = {}
  /\ ~Renderable(cache[k].spec)
  /\ Take(k, "failStatus", First)

StartApply(k) ==
  /\ Managed(k) /\ cache[k].spec.enabled /\ Awaited(cache[k].spec) = {}
  /\ Renderable(cache[k].spec)
  /\ Take(k, "applyChild", First)

----------------------------------------------------------------------------
(* The children, one by one.                                               *)

Nth   == worker.local.child
Child == ChildrenOf(Obj.spec)[Nth]

Next3(after) ==
  /\ worker' = IF Nth < 3 THEN [worker EXCEPT !.local.child = @ + 1]
               ELSE [worker EXCEPT !.pc = after]
  /\ UNCHANGED queue

(* CreateOrUpdate reads the child first.  The operator's own client takes  *)
(* ConfigMaps, being typed, from the informer cache; an impersonating      *)
(* client has none.                                                        *)
Desired == Rendered(Obj.spec)[Nth]

Read == IF Child \in ConfigMaps /\ ~Obj.spec.impersonates THEN seen[Child] ELSE children[Child]

(* Bug: the error of one child does not keep the next from being written   *)
ApplyChild_ErrorDropped(o) ==
  /\ At("applyChild", o)
  /\ children' = Call(o, children, [children EXCEPT ![Child] = Desired])
  /\ Next3("readyStatus")
  /\ UNCHANGED <<objects, cache, edits, calm, seen, complete>>

(* applyChild: nothing is written when what was read is what is wanted;    *)
(* else the child is created, or replaced in what the spec decides, and    *)
(* either is refused if what was read is out of date.                      *)
ApplyChild(o) ==
  /\ At("applyChild", o)
  /\ children' = IF Read = Desired \/ Read # children[Child] THEN children
                 ELSE Call(o, children, [children EXCEPT ![Child] = Desired])
  /\ IF o = "ok" /\ Read \in {Desired, children[Child]} THEN Next3("readyStatus")
     ELSE Goto("failStatus")
  /\ UNCHANGED <<objects, cache, edits, calm, seen, complete>>

(* deleteChildren, of a teardown ("deleteChild") or a disabled baseline    *)
(* ("disableChild"): a child that is missing is no error, any other error  *)
(* ends the reconcile                                                      *)
DeleteChild(o) ==
  /\ At("deleteChild", o) \/ At("disableChild", o)
  /\ children' = Call(o, children, [children EXCEPT ![Child] = NoChild])
  /\ IF o = "ok" THEN Next3(IF worker.pc = "deleteChild" THEN "removeFinalizer" ELSE "readyStatus")
     ELSE Retry
  /\ UNCHANGED <<objects, cache, edits, calm, seen, complete>>

(* ready: without a change there is no write.  The issuer and the client   *)
(* ID it also compares follow from the spec, which the generation covers.  *)
Application == IF Obj.spec.enabled THEN Obj.spec.cluster ELSE NoName

(* Bug: any Ready is taken for one of this generation                      *)
Recorded_AnyGeneration ==
  Obj.status.ready = "True" /\ Obj.status.recorded = Application

Recorded == Ready(Obj) /\ Obj.status.recorded = Application

WriteDexReady(o) ==
  /\ At("readyStatus", o)
  /\ \/ ~Recorded /\ WriteReady(o, Application)
     \/ Recorded /\ Done /\ UNCHANGED <<objects, cache, edits, calm>>

----------------------------------------------------------------------------
(* The informer of the ConfigMaps catches up; nobody is told.              *)
SeeChildren ==
  /\ seen' = [c \in ConfigMaps |-> children[c]]
  /\ UNCHANGED <<runtimeVars, children, complete>>

(* ESO, Vault and the server provide the Secrets, and may take them away.  *)
SyncSecret(ref) ==
  /\ complete' = complete \cup {ref}
  /\ UNCHANGED <<runtimeVars, children, seen>>

LoseSecret(ref) ==
  /\ ~calm
  /\ complete' = complete \ {ref}
  /\ UNCHANGED <<runtimeVars, children, seen>>

TakeKey(k) ==
  \/ Skip(k) \/ StartAdoption(k) \/ StartTeardown(k) \/ StartDisable(k)
  \/ StartWaiting(k) \/ StartUnrenderable(k) \/ StartApply(k)

outside == <<children, seen, complete>>

LocalStep == \E o \in Outcomes : FinalizerStep(o) \/ WriteDexReady(o)
ChildStep == \E o \in Outcomes : ApplyChild(o) \/ DeleteChild(o)
Step      == (LocalStep /\ UNCHANGED outside) \/ ChildStep

DexNext ==
  \/ UserNext /\ UNCHANGED outside
  \/ \E k \in Keys : (Sync(k) \/ TakeKey(k)) /\ UNCHANGED outside
  \/ Step
  \/ \E ref \in SecretRefs : SyncSecret(ref) \/ LoseSecret(ref)
  \/ SeeChildren
  \/ Restart /\ seen' = [c \in ConfigMaps |-> children[c]] /\ UNCHANGED <<children, complete>>
  \/ (Resync \/ BecomeCalm) /\ UNCHANGED outside

DexSpec == DexInit /\ [][DexNext]_dexVars

(* As for the realm controller; nothing is asked of who provides Secrets.  *)
DexFairness ==
  /\ WF_dexVars(Step) /\ WF_dexVars(SeeChildren)
  /\ \A k \in Keys : /\ WF_dexVars(Sync(k) /\ UNCHANGED outside)
                     /\ SF_dexVars(TakeKey(k) /\ UNCHANGED outside)

DexFairSpec == DexSpec /\ DexFairness

----------------------------------------------------------------------------
DexSteps == {"addFinalizer", "applyChild", "deleteChild", "disableChild", "readyStatus",
             "failStatus", "removeFinalizer"}

(* The resources keep their shape (see RuntimeTypeOK), and so do the       *)
(* children: under no name is there a child of another kind.               *)
DexTypeOK ==
  /\ RuntimeTypeOK(DexSteps, [child : 1..3] \cup {NoLocal})
  /\ DOMAIN children = ChildNames
  /\ \A c \in ChildNames : children[c] \in Contents
  /\ DOMAIN seen = ConfigMaps
  /\ \A c \in ConfigMaps : seen[c] \in Contents
  /\ complete \subseteq SecretRefs

(* What was rendered never outlives the resource it was rendered for: as   *)
(* long as there is a child of ours, there is a resource that carries the  *)
(* finalizer and would remove it ("teardown is verified before deletion",  *)
(* common.go:23-24).  (Needs resources that keep cluster and namespace.)   *)
RenderedFor(k, c) ==
  /\ objects[k] # NoObj /\ objects[k].finalizer
  /\ \E i \in 1..3 : ChildrenOf(objects[k].spec)[i] = c

NoOrphanChild ==
  \A c \in ChildNames :
    children[c] \notin {NoChild, Foreign} => \E k \in Keys : RenderedFor(k, c)

(* Ready at the current generation says which children there are: all      *)
(* three, with the content of that very spec, or none of ours when the     *)
(* baseline is disabled (children are deleted by name then, but nothing is *)
(* said of one that was there before) - although each is written by a call *)
(* of its own, from a copy of the spec that may be old, and a Ready that   *)
(* is recorded already is not written again.  It says so of a ConfigMap    *)
(* only if the operator impersonates the tenant, hence reads it from the   *)
(* API server.  (Needs resources with children of their own.)              *)
ChildAsReady(spec, i) ==
  LET name == ChildrenOf(spec)[i]
  IN  IF spec.enabled THEN children[name] = Rendered(spec)[i]
      ELSE children[name] \in {NoChild, Foreign}

ReadyDexIsRendered ==
  \A k \in Keys : objects[k] # NoObj /\ Ready(objects[k]) =>
    \A i \in 1..3 :
      i = 1 \/ ~objects[k].spec.enabled \/ objects[k].spec.impersonates
        => ChildAsReady(objects[k].spec, i)

(* Once the environment is calm and the Secrets stay, every resource that  *)
(* can be rendered ends up Ready, every other one Failed and not Ready,    *)
(* or it is gone.                                                          *)
Settled(k) ==
  LET obj  == objects[k]
      good == ~obj.spec.enabled \/ (Awaited(obj.spec) = {} /\ Renderable(obj.spec))
  IN  obj # NoObj =>
        /\ ~obj.deleting
        /\ IF good THEN Ready(obj) /\ ~obj.status.failed
           ELSE obj.status.failed /\ obj.status.ready = "False"

DexesConverge ==
  (<>calm /\ <>[](complete = SecretRefs)) => <>[](\A k \in Keys : Settled(k))

----------------------------------------------------------------------------
(* "Toggling on renders the baseline" (clusterdex_controller_test.go:487): *)
(* when nothing is left to do for a resource that is enabled and Ready,    *)
(* its three children are there.  But a ConfigMap that was deleted or      *)
(* replaced a moment ago may still look as wanted in the cache, is then    *)
(* not written, and no event of it reaches the controller.                 *)
ChildrenSeen == seen = [c \in ConfigMaps |-> children[c]]

EnabledIsRendered ==
  \A k \in Keys :
    AtRest /\ ChildrenSeen /\ objects[k] # NoObj /\ objects[k].spec.enabled /\ Ready(objects[k]) =>
      \A i \in 1..3 : ChildAsReady(objects[k].spec, i)
=============================================================================
