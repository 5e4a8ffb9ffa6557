--------------------------- MODULE ItemController ---------------------------
(***************************************************************************)
(* The CertIssuer and the ArgoProject controller.  Each renders a resource *)
(* as one child, a ClusterIssuer or an AppProject, under a name made of    *)
(* the tenant and the resource's own, and removes it by the finalizer.     *)
(* They differ in what they render and in what they do after an error.     *)
(*                                                                         *)
(* The two share nothing, so a behaviour is about one of them.  Children   *)
(* are unstructured, hence read from the API server, not from a cache.     *)
(*                                                                         *)
(* A name is the sequence of its words, what is between the dashes: names  *)
(* joined by dashes are sequences appended, and different names may well   *)
(* make the same child's name.                                             *)
(***************************************************************************)
EXTENDS ControllerRuntime, Sequences

CONSTANTS Issuers, Projects,   \* the resources of each kind
          Populations,         \* those a behaviour is about: all of one kind
          NameOf,              \* metadata.name; a key has a namespace too
          Tenants,             \* tenant IDs
          Servers, Cas,        \* settings of the two kinds of issuer
          Repos, DexRepo,      \* source repositories; that of the Dex chart
          Namespaces,
          NoChild

IssuerSpecs ==
  [tenant : Tenants, acme : Servers \cup {NoName}, ca : Cas \cup {NoName}]

ProjectSpecs ==
  [tenant : Tenants, namespace : Namespaces, repos : SUBSET Repos \ {{}},
   destinations : SUBSET Namespaces]

(* What a child can be: a ClusterIssuer, or an AppProject.                 *)
Contents ==
  [acme : Servers \cup {NoName}, ca : Cas \cup {NoName}]
    \cup [repos : SUBSET Repos, destinations : SUBSET Namespaces]

ChildNames == {tenant \o NameOf[k] : tenant \in Tenants, k \in Keys}

ASSUME ItemAssumption ==
  /\ Keys = Issuers \cup Projects /\ Issuers \cap Projects = {}
  /\ Populations \subseteq (SUBSET Issuers) \cup (SUBSET Projects)
  /\ DexRepo \in Repos /\ NoChild \notin Contents /\ MaxEdits > 0
  /\ Names = ChildNames
  /\ \A k \in Issuers : Specs[k] \subseteq IssuerSpecs
  /\ \A k \in Projects : Specs[k] \subseteq ProjectSpecs

VARIABLES mine,       \* the resources this behaviour is about
          children    \* the API server: the spec of each child

itemVars == <<runtimeVars, mine, children>>

(* tenantChildName of "tenant", the tenant's ID and the resource's name.   *)
(* (Beyond 63 characters it is cut, and told apart by a hash.)             *)
ChildOf(k, spec) == spec.tenant \o NameOf[k]

(* Bug: both at once is accepted                                           *)
Buildable_Both(k, spec) == k \in Issuers => spec.acme # NoName \/ spec.ca # NoName

(* buildClusterIssuerSpec wants one of the two                             *)
Buildable(k, spec) == k \in Issuers => (spec.acme = NoName) # (spec.ca = NoName)

IssuerChild(spec) == [acme |-> spec.acme, ca |-> spec.ca]

(* the chart repository is always allowed; the tenant's own namespace is   *)
(* the default destination                                                 *)
ProjectChild(spec) ==
  [repos |-> spec.repos \cup {DexRepo},
   destinations |-> IF spec.destinations = {} THEN {spec.namespace} ELSE spec.destinations]

Rendered(k, spec) == IF k \in Issuers THEN IssuerChild(spec) ELSE ProjectChild(spec)

(* A cluster may hold projects that are Ready, rendered by a version that  *)
(* did not add the chart repository.                                       *)
OldProject(k, spec) ==
  [NewObject(1, spec) EXCEPT !.finalizer = TRUE,
                             !.status = [SetReady(NoStatus, 1) EXCEPT !.recorded = ChildOf(k, spec)]]

OldChild(spec) == [ProjectChild(spec) EXCEPT !.repos = spec.repos]

ItemInit ==
  /\ mine \in Populations
  /\ cache = [k \in Keys |-> NoObj] /\ queue = {} /\ worker = Idle
  /\ edits = 1 /\ calm = FALSE
  /\ \/ /\ objects = [k \in Keys |-> NoObj]
        /\ children = [c \in ChildNames |-> NoChild]
     \/ \E k \in mine \cap Projects : \E spec \in Specs[k] :
          /\ objects = [x \in Keys |-> IF x = k THEN OldProject(k, spec) ELSE NoObj]
          /\ children = [c \in ChildNames |->
               IF c = ChildOf(k, spec) THEN OldChild(spec) ELSE NoChild]

----------------------------------------------------------------------------
(* What Reconcile branches on before its first call: nothing else, in      *)
(* particular not whether the resource is Ready already.                   *)

(* Bug: what was never recorded as rendered needs no teardown              *)
StartTeardown_IfRecorded(k) ==
  /\ Terminated(k)
  /\ Take(k, IF cache[k].status.recorded = NoName THEN "removeFinalizer"
             ELSE "deleteChild", NoLocal)

StartTeardown(k) == Terminated(k) /\ Take(k, "deleteChild", NoLocal)

(* Bug: a resource that is Ready is left alone                             *)
StartRender_UnlessReady(k) ==
  /\ Managed(k)
  /\ Take(k, IF Ready(cache[k]) THEN "readyStatus" ELSE "applyChild", NoLocal)

(* Bug: renders before it has the finalizer                                *)
StartRender_Unmanaged(k) ==
  (Managed(k) \/ Unmanaged(k)) /\ Take(k, "applyChild", NoLocal)

StartRender(k) == Managed(k) /\ Take(k, "applyChild", NoLocal)

----------------------------------------------------------------------------
Child == ChildOf(Key, Obj.spec)

(* The CertIssuer controller takes every error for one in the spec, which  *)
(* the user has to mend; the ArgoProject controller tries again.           *)
AfterError == IF Key \in Issuers THEN "rejectStatus" ELSE "failStatus"

(* Bug: an error of the call goes unnoticed                                *)
ApplyChild_ErrorDropped(o) ==
  /\ At("applyChild", o)
  /\ children' = IF ~Buildable(Key, Obj.spec) THEN children
       ELSE Call(o, children, [children EXCEPT ![Child] = Rendered(Key, Obj.spec)])
  /\ Goto(IF Buildable(Key, Obj.spec) THEN "readyStatus" ELSE AfterError)
  /\ UNCHANGED <<objects, cache, edits, calm, mine>>

(* CreateOrUpdate                                                          *)
ApplyChild(o) ==
  /\ At("applyChild", o)
  /\ children' = IF ~Buildable(Key, Obj.spec) THEN children
       ELSE Call(o, children, [children EXCEPT ![Child] = Rendered(Key, Obj.spec)])
  /\ Goto(IF o = "ok" /\ Buildable(Key, Obj.spec) THEN "readyStatus" ELSE AfterError)
  /\ UNCHANGED <<objects, cache, edits, calm, mine>>

WriteItemReady(o) == WriteReady(o, Child)

DeleteChild(o) ==
  /\ At("deleteChild", o)
  /\ children' = Call(o, children, [children EXCEPT ![Child] = NoChild])
  /\ IF o = "ok" THEN Goto("removeFinalizer") ELSE Retry
  /\ UNCHANGED <<objects, cache, edits, calm, mine>>

----------------------------------------------------------------------------
outside == <<mine, children>>

TakeKey(k) == Skip(k) \/ StartAdoption(k) \/ StartTeardown(k) \/ StartRender(k)

ItemUsers == UserNext /\ \A k \in Keys \ mine : objects'[k] = objects[k]

LocalStep == \E o \in Outcomes : FinalizerStep(o) \/ WriteRejected(o) \/ WriteItemReady(o)
ChildStep == \E o \in Outcomes : ApplyChild(o) \/ DeleteChild(o)
Step      == (LocalStep /\ UNCHANGED outside) \/ ChildStep

ItemNext ==
  \/ ItemUsers /\ UNCHANGED outside
  \/ \E k \in Keys : (Sync(k) \/ TakeKey(k)) /\ UNCHANGED outside
  \/ Step
  \/ (Restart \/ Resync \/ BecomeCalm) /\ UNCHANGED outside

ItemSpec == ItemInit /\ [][ItemNext]_itemVars

(* As for the realm controller.                                            *)
ItemFairness ==
  /\ WF_itemVars(Step)
  /\ \A k \in Keys : /\ WF_itemVars(Sync(k) /\ UNCHANGED outside)
                     /\ SF_itemVars(TakeKey(k) /\ UNCHANGED outside)

ItemFairSpec == ItemSpec /\ ItemFairness

----------------------------------------------------------------------------
ItemSteps == {"addFinalizer", "applyChild", "deleteChild", "readyStatus", "failStatus",
              "rejectStatus", "removeFinalizer"}

(* The resources keep their shape (see RuntimeTypeOK); only those of this  *)
(* behaviour exist; and an issuer, once rendered, is of one kind only.     *)
ItemTypeOK ==
  /\ RuntimeTypeOK(ItemSteps, {NoLocal})
  /\ \A k \in Keys \ mine : objects[k] = NoObj
  /\ DOMAIN children = ChildNames
  /\ \A c \in ChildNames : children[c] # NoChild =>
       /\ children[c] \in Contents
       /\ mine \subseteq Issuers => (children[c].acme = NoName) # (children[c].ca = NoName)

(* Another resource of the behaviour may name the same child.              *)
SharesChild(k) ==
  \E p \in Populations : k \in p /\ \E j \in p \ {k} :
    \E spec \in Specs[k], other \in Specs[j] : ChildOf(k, spec) = ChildOf(j, other)

(* No child outlives its resource: as long as there is one, there is a     *)
(* resource that carries the finalizer and would remove it ("cluster-      *)
(* scoped children", common.go:23-24), also if rendering failed or was     *)
(* given up after the call took effect, and also if other resources have   *)
(* made and deleted a child of the same name.  (Needs resources that keep  *)
(* their tenant.)                                                          *)
NoOrphanChild ==
  \A c \in ChildNames : children[c] # NoChild =>
    \E k \in Keys : /\ objects[k] # NoObj /\ objects[k].finalizer
                    /\ ChildOf(k, objects[k].spec) = c

(* Ready at the current generation, unless by an older version of the      *)
(* operator that was not yet followed up, means that the child is the one  *)
(* of that very generation, although an old reconcile may still have been  *)
(* writing an older one.  (For a resource whose child no other one names.) *)
ReadyItemIsRendered ==
  \A k \in Keys : objects[k] # NoObj /\ Ready(objects[k]) /\ ~SharesChild(k) =>
    LET spec == objects[k].spec
        child == children[ChildOf(k, spec)]
    IN  \/ child = Rendered(k, spec)
        \/ k \in Projects /\ child = OldChild(spec) /\ objects[k].uid = 1 /\ objects[k].gen = 1

(* Once the environment is calm every project ends up Ready and allows the *)
(* chart repository, also one that was Ready before without it ("existing  *)
(* tenants converge without manual migration", argoproject_controller.go:  *)
(* 102-104); a deleted resource of either kind goes; and an issuer that    *)
(* cannot be built is not Ready.                                           *)
Settled(k) ==
  LET obj == objects[k]
  IN  obj # NoObj =>
        /\ ~obj.deleting
        /\ k \in Projects /\ ~SharesChild(k) =>
             Ready(obj) /\ DexRepo \in children[ChildOf(k, obj.spec)].repos
        /\ ~Buildable(k, obj.spec) => ~Ready(obj)

ItemsConverge == <>calm => <>[](\A k \in Keys : Settled(k))

----------------------------------------------------------------------------
(* "spec errors wait for user fix" (certissuer_controller.go:132): an      *)
(* issuer without a spec error is not left waiting, it is Ready when the   *)
(* operator has nothing more to do.  But any error counts, a conflict or   *)
(* an API server that was away for a moment too.  After one failed call    *)
(* the Failed that is written changes the resource, whose event brings it  *)
(* back; when that write fails as well, or the retry fails and finds the   *)
(* status as it is, nothing does before the next edit, restart or resync.  *)
OnlySpecErrorsWait ==
  AtRest => \A k \in Issuers :
    objects[k] # NoObj /\ Buildable(k, objects[k].spec) => Ready(objects[k])

----------------------------------------------------------------------------
(* Each resource, with the child it names, lives the life of a Catalog     *)
(* Item.  (For a resource that keeps its tenant and shares no child.)      *)
HasChild(k) ==
  k \in mine /\ \E spec \in Specs[k] : children[ChildOf(k, spec)] # NoChild

Alone == {k \in Keys : ~SharesChild(k)}

Lifecycle == INSTANCE CatalogItemLifecycle WITH
  Items    <- Alone,
  phase    <- [k \in Alone |-> Phase(k)],
  external <- [k \in Alone |-> HasChild(k)]

ItemsImplementLifecycle == Lifecycle!LifecycleSpec
=============================================================================
