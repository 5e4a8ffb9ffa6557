----------------------- MODULE ItemController_proofs -----------------------
(***************************************************************************)
(* Theorems about the CertIssuer and the ArgoProject controller, for any   *)
(* number of resources, users' operations and faults.                      *)
(***************************************************************************)
EXTENDS ItemController, ControllerRuntime_proofs

ApplySteps    == {"applyChild"}
TeardownSteps == {"deleteChild", "removeFinalizer"}

(* The invariant behind the theorem: what the API server, the cache and the*)
(* worker know of each other (ControllerRuntime_proofs); and a child is    *)
(* gone before the finalizer is.                                           *)
ItemTypeInv ==
  /\ RuntimeInv(ItemSteps, {NoLocal})
  /\ DOMAIN children = ChildNames

ItemInv ==
  /\ ItemTypeInv
  /\ FinalizerInv(ApplySteps, TeardownSteps)
  /\ worker.pc = "removeFinalizer" => children[Child] = NoChild
  /\ NoOrphanChild

(* What users must not do: move a resource to another tenant.              *)
StableTenants == \A k \in Keys : \A spec, other \in Specs[k] : spec.tenant = other.tenant

LEMMA ItemStepSets ==
  /\ ApplySteps \cup TeardownSteps \subseteq ItemSteps
  /\ "idle" \notin ItemSteps /\ "idle" \notin ApplySteps \cup TeardownSteps
  /\ "removeFinalizer" \in TeardownSteps
BY DEF ApplySteps, TeardownSteps, ItemSteps

(* A spec always names a child.                                            *)
LEMMA ChildOfIsAName ==
  ASSUME NEW k \in Keys, NEW spec \in Specs[k]
  PROVE  ChildOf(k, spec) \in ChildNames /\ ChildOf(k, spec) \in Names
<1>1. spec.tenant \in Tenants
  BY ItemAssumption DEF IssuerSpecs, ProjectSpecs
<1>2. \A tenant \in Tenants : tenant \o NameOf[k] \in ChildNames
  BY DEF ChildNames
<1> QED
  BY <1>1, <1>2, ItemAssumption DEF ChildOf

LEMMA WorkerNamesAChild ==
  ASSUME ItemTypeInv, worker.pc # "idle"
  PROVE  /\ Key \in Keys /\ Obj \in CatalogObjects(Key) /\ Obj.spec \in Specs[Key]
         /\ Child \in ChildNames /\ Child \in Names
<1>1. Key \in Keys /\ Obj \in CatalogObjects(Key)
  BY WorkerAtAStep DEF ItemTypeInv
<1>2. Obj.spec \in Specs[Key]
  BY <1>1 DEF CatalogObjects
<1> QED
  BY <1>1, <1>2, ChildOfIsAName DEF Child

----------------------------------------------------------------------------
(* The initial states: none of our resources, or one old project.          *)
LEMMA OldProjectIsGood ==
  ASSUME NEW k \in Keys, NEW spec \in Specs[k]
  PROVE  /\ GoodObject(k, OldProject(k, spec), 1)
         /\ OldProject(k, spec).finalizer /\ OldProject(k, spec).spec = spec
<1> DEFINE blank  == SetReady(NoStatus, 1)
           status == [blank EXCEPT !.recorded = ChildOf(k, spec)]
           fresh  == NewObject(1, spec)
           old    == [fresh EXCEPT !.finalizer = TRUE, !.status = status]
<1>1. 1 \in 1..MaxEdits /\ 1 \in 0..MaxEdits /\ 0 \in 0..MaxEdits
  <2>1. MaxEdits \in Nat
    BY RuntimeAssumption
  <2>2. MaxEdits > 0
    BY ItemAssumption
  <2> QED
    BY <2>1, <2>2
<1>2. blank \in Statuses(MaxEdits, Names) /\ blank.readyGen = 1
  <2>1. NoStatus \in Statuses(MaxEdits, Names)
    BY <1>1 DEF NoStatus, Statuses
  <2> QED
    BY <1>1, <2>1 DEF SetReady, Statuses
<1>3. status \in Statuses(MaxEdits, Names) /\ status.readyGen = 1
  <2>1. ChildOf(k, spec) \in Names
    BY ChildOfIsAName
  <2> HIDE DEF blank
  <2> QED
    BY <1>1, <1>2, <2>1 DEF Statuses
<1>4. fresh = [uid |-> 1, gen |-> 1, spec |-> spec, deleting |-> FALSE,
               finalizer |-> FALSE, status |-> NoStatus]
  BY DEF NewObject
<1>5. /\ old \in CatalogObjects(k) /\ old.finalizer /\ old.spec = spec
      /\ old.gen = 1 /\ old.uid = 1 /\ old.status = status
  <2> HIDE DEF status, fresh
  <2> QED
    BY <1>1, <1>3, <1>4 DEF CatalogObjects
<1>6. OldProject(k, spec) = old
  BY DEF OldProject
<1> HIDE DEF status, old
<1> QED
  BY <1>3, <1>5, <1>6 DEF GoodObject

LEMMA ItemInvInit ==
  ASSUME ItemInit
  PROVE  ItemInv
<1>1. /\ worker = Idle /\ queue = {} /\ edits = 1 /\ calm = FALSE
      /\ DOMAIN cache = Keys /\ \A k \in Keys : cache[k] = NoObj
  BY DEF ItemInit
<1>2. /\ DOMAIN objects = Keys /\ DOMAIN children = ChildNames
      /\ \A k \in Keys : objects[k] # NoObj => GoodObject(k, objects[k], edits)
      /\ NoOrphanChild
  <2>1. CASE /\ objects = [k \in Keys |-> NoObj]
             /\ children = [c \in ChildNames |-> NoChild]
    BY <2>1 DEF NoOrphanChild
  <2>2. CASE \E k \in mine \cap Projects : \E spec \in Specs[k] :
               /\ objects = [x \in Keys |-> IF x = k THEN OldProject(k, spec) ELSE NoObj]
               /\ children = [c \in ChildNames |->
                    IF c = ChildOf(k, spec) THEN OldChild(spec) ELSE NoChild]
    <3>0. PICK k \in Keys : \E spec \in Specs[k] :
            /\ objects = [x \in Keys |-> IF x = k THEN OldProject(k, spec) ELSE NoObj]
            /\ children = [c \in ChildNames |->
                 IF c = ChildOf(k, spec) THEN OldChild(spec) ELSE NoChild]
      BY <2>2, ItemAssumption
    <3>1. PICK spec \in Specs[k] :
            /\ objects = [x \in Keys |-> IF x = k THEN OldProject(k, spec) ELSE NoObj]
            /\ children = [c \in ChildNames |->
                 IF c = ChildOf(k, spec) THEN OldChild(spec) ELSE NoChild]
      BY <3>0
    <3>2. /\ GoodObject(k, OldProject(k, spec), edits)
          /\ OldProject(k, spec).finalizer /\ OldProject(k, spec).spec = spec
      BY <1>1, OldProjectIsGood
    <3>3. OldProject(k, spec) # NoObj
      BY <3>2, NoObjIsNoObject DEF GoodObject
    <3>4. NoOrphanChild
      BY <3>1, <3>2, <3>3 DEF NoOrphanChild
    <3> QED
      BY <3>1, <3>2, <3>4
  <2> QED
    BY <2>1, <2>2 DEF ItemInit
<1>3. RuntimeTypeOK(ItemSteps, {NoLocal})
  <2>1. 1 \in 0..MaxEdits
    BY RuntimeAssumption, ItemAssumption
  <2> QED
    BY <1>1, <1>2, <2>1 DEF RuntimeTypeOK, GoodObject
<1>4. ItemTypeInv
  BY <1>1, <1>2, <1>3 DEF ItemTypeInv, RuntimeInv, GoodObject
<1>5. FinalizerInv(ApplySteps, TeardownSteps)
  BY <1>1, ItemStepSets, FinalizerInvInit
<1> QED
  BY <1>1, <1>2, <1>4, <1>5 DEF ItemInv, Idle

----------------------------------------------------------------------------
(* A step of a reconcile, as one of the kinds that the lemmas of           *)
(* ControllerRuntime_proofs are about.                                     *)
LEMMA ItemLocalStep ==
  ASSUME ItemTypeInv, LocalStep
  PROVE  \E o \in Outcomes :
           FinalizerStep(o) \/ WriteRejected(o)
             \/ \E name \in Names \cup {NoName} : WriteReady(o, name)
<1>1. PICK o \in Outcomes : FinalizerStep(o) \/ WriteRejected(o) \/ WriteItemReady(o)
  BY DEF LocalStep
<1>2. WriteItemReady(o) => Child \in Names
  BY WorkerNamesAChild DEF WriteItemReady, WriteReady, At
<1> QED
  BY <1>1, <1>2 DEF WriteItemReady

LEMMA ItemChildStep ==
  ASSUME ItemTypeInv, ChildStep
  PROVE  /\ worker.pc \in {"applyChild", "deleteChild"}
         /\ UNCHANGED <<objects, cache, edits, calm>> /\ DOMAIN children' = ChildNames
         /\ \/ Retry
            \/ \E step \in ItemSteps :
                 /\ Goto(step)
                 /\ step \notin ApplySteps
                 /\ step \in TeardownSteps => worker.pc \in TeardownSteps
         /\ \A c \in ChildNames :
              \/ children'[c] = children[c]
              \/ c = Child /\ worker.pc \in ApplySteps
              \/ children'[c] = NoChild
<1>1. PICK o \in Outcomes : ApplyChild(o) \/ DeleteChild(o)
  BY DEF ChildStep
<1>2. DOMAIN children = ChildNames
  BY DEF ItemTypeInv
<1>3. CASE ApplyChild(o)
  <2>1. worker.pc = "applyChild" /\ UNCHANGED <<objects, cache, edits, calm>>
    BY <1>3 DEF ApplyChild, At
  <2>2. \E step \in {"readyStatus", "rejectStatus", "failStatus"} : Goto(step)
    BY <1>3 DEF ApplyChild, AfterError
  <2>3. \/ children' = children
        \/ children' = [children EXCEPT ![Child] = Rendered(Key, Obj.spec)]
    BY <1>3 DEF ApplyChild, Call
  <2>4. DOMAIN children' = ChildNames
        /\ \A c \in ChildNames : c # Child => children'[c] = children[c]
    BY <1>2, <2>3
  <2> QED
    BY <2>1, <2>2, <2>4 DEF ApplySteps, TeardownSteps, ItemSteps
<1>4. CASE DeleteChild(o)
  <2>1. worker.pc = "deleteChild" /\ UNCHANGED <<objects, cache, edits, calm>>
    BY <1>4 DEF DeleteChild, At
  <2>2. Goto("removeFinalizer") \/ Retry
    BY <1>4 DEF DeleteChild
  <2>3. children' = children \/ children' = [children EXCEPT ![Child] = NoChild]
    BY <1>4 DEF DeleteChild, Call
  <2>4. DOMAIN children' = ChildNames
        /\ \A c \in ChildNames : children'[c] = children[c] \/ children'[c] = NoChild
    BY <1>2, <2>3
  <2> QED
    BY <2>1, <2>2, <2>4 DEF ApplySteps, TeardownSteps, ItemSteps
<1> QED
  BY <1>1, <1>3, <1>4

LEMMA ItemTakes ==
  ASSUME NEW k \in Keys, TakeKey(k)
  PROVE  \/ Skip(k)
         \/ \E step \in {"addFinalizer", "deleteChild", "applyChild"} :
              /\ Take(k, step, NoLocal) /\ cache[k] # NoObj
              /\ step \in ApplySteps => Managed(k)
              /\ step \in TeardownSteps => Terminated(k)
BY DEF TakeKey, StartAdoption, StartTeardown, StartRender, Unmanaged, Terminated, Managed,
       Cached, ApplySteps, TeardownSteps

LEMMA ItemTypeInvStep ==
  ASSUME ItemTypeInv, [ItemNext]_itemVars
  PROVE  ItemTypeInv'
<1> USE DEF ItemTypeInv
<1>1. CASE ItemUsers /\ UNCHANGED outside
  BY <1>1, UsersKeepRuntimeInv DEF ItemUsers, outside
<1>2. CASE \E k \in Keys : (Sync(k) \/ TakeKey(k)) /\ UNCHANGED outside
  <2>1. PICK k \in Keys : (Sync(k) \/ TakeKey(k)) /\ UNCHANGED children
    BY <1>2 DEF outside
  <2>2. CASE Sync(k)
    BY <2>1, <2>2, SyncKeepsRuntimeInv
  <2>3. CASE Skip(k)
    BY <2>1, <2>3, IdleKeepsRuntimeInv
  <2>4. CASE TakeKey(k) /\ ~Skip(k)
    <3>1. \E step \in ItemSteps : cache[k] # NoObj /\ Take(k, step, NoLocal)
      BY <2>4, ItemTakes DEF ItemSteps
    <3> QED
      BY <2>1, <3>1, TakeKeepsRuntimeInv
  <2> QED
    BY <2>1, <2>2, <2>3, <2>4
<1>3. CASE LocalStep /\ UNCHANGED outside
  BY <1>3, ItemLocalStep, FinalizerStepKeepsRuntimeInv DEF outside
<1>4. CASE ChildStep
  <2>1. worker.pc # "idle" /\ UNCHANGED <<objects, cache, edits, calm>>
    BY <1>4, ItemChildStep
  <2>2. ((\E step \in ItemSteps : Goto(step)) \/ Retry) /\ DOMAIN children' = ChildNames
    BY <1>4, ItemChildStep
  <2> QED
    BY <2>1, <2>2, GotoKeepsRuntimeInv
<1>5. CASE (Restart \/ Resync \/ BecomeCalm) /\ UNCHANGED outside
  BY <1>5, IdleKeepsRuntimeInv DEF outside
<1>6. CASE UNCHANGED itemVars
  BY <1>6 DEF itemVars, runtimeVars, RuntimeInv, RuntimeTypeOK, Idle
<1> QED
  BY <1>1, <1>2, <1>3, <1>4, <1>5, <1>6 DEF ItemNext, Step

LEMMA ItemFinalizerInvStep ==
  ASSUME ItemTypeInv, FinalizerInv(ApplySteps, TeardownSteps), [ItemNext]_itemVars
  PROVE  FinalizerInv(ApplySteps, TeardownSteps)'
<1>0. /\ RuntimeInv(ItemSteps, {NoLocal})
      /\ "idle" \notin ApplySteps \cup TeardownSteps /\ "removeFinalizer" \in TeardownSteps
  BY ItemStepSets DEF ItemTypeInv
<1>1. CASE ItemUsers /\ UNCHANGED outside
  BY <1>0, <1>1, UsersKeepFinalizerInv DEF ItemUsers
<1>2. CASE \E k \in Keys : (Sync(k) \/ TakeKey(k)) /\ UNCHANGED outside
  <2>1. PICK k \in Keys : Sync(k) \/ TakeKey(k)
    BY <1>2
  <2>2. CASE Sync(k)
    BY <1>0, <2>2, SyncKeepsFinalizerInv
  <2>3. CASE Skip(k)
    BY <1>0, <2>3, IdleKeepsFinalizerInv
  <2>4. CASE TakeKey(k) /\ ~Skip(k)
    <3>1. PICK step : /\ Take(k, step, NoLocal)
                      /\ step \in ApplySteps => Managed(k)
                      /\ step \in TeardownSteps => Terminated(k)
      BY <2>4, ItemTakes
    <3> QED
      BY <1>0, <3>1, TakeKeepsFinalizerInv
  <2> QED
    BY <2>1, <2>2, <2>3, <2>4
<1>3. CASE LocalStep /\ UNCHANGED outside
  BY <1>0, <1>3, ItemLocalStep, FinalizerStepKeepsFinalizerInv
<1>4. CASE ChildStep
  <2>1. /\ worker.pc # "idle" /\ UNCHANGED <<objects, cache>>
        /\ \/ \E step \in ItemSteps : /\ Goto(step)
                                      /\ step \in ApplySteps => worker.pc \in ApplySteps
                                      /\ step \in TeardownSteps => worker.pc \in TeardownSteps
           \/ Retry
    BY <1>4, ItemChildStep
  <2> QED
    BY <1>0, <2>1, GotoKeepsFinalizerInv
<1>5. CASE (Restart \/ Resync \/ BecomeCalm) /\ UNCHANGED outside
  BY <1>0, <1>5, IdleKeepsFinalizerInv
<1>6. CASE UNCHANGED itemVars
  BY <1>6 DEF itemVars, runtimeVars, FinalizerInv, CacheInv, ReadInv, TeardownInv,
              Held, SameLife, Key, Obj
<1> QED
  BY <1>1, <1>2, <1>3, <1>4, <1>5, <1>6 DEF ItemNext, Step

----------------------------------------------------------------------------
(* The finalizer is on its way out only after the child is gone.           *)
LEMMA ChildGoneFirst ==
  ASSUME ItemInv, [ItemNext]_itemVars, worker'.pc = "removeFinalizer"
  PROVE  children'[Child'] = NoChild
<1>1. CASE UNCHANGED <<worker, children>>
  BY <1>1 DEF ItemInv, Child, Key, Obj
<1>2. CASE LocalStep \/ Restart
  BY <1>2 DEF LocalStep, FinalizerStep, AddFinalizer, RemoveFinalizer, WriteFailed,
    WriteRejected, WriteItemReady, WriteReady, Retry, Done, Restart, Idle
<1>3. CASE \E k \in Keys : TakeKey(k) /\ UNCHANGED outside
  <2>1. PICK k \in Keys : TakeKey(k) /\ UNCHANGED children
    BY <1>3 DEF outside
  <2>2. CASE Skip(k)
    BY <1>1, <2>1, <2>2 DEF Skip
  <2>3. CASE ~Skip(k)
    BY <2>1, <2>3, ItemTakes DEF Take
  <2> QED
    BY <2>2, <2>3
<1>4. CASE ChildStep
  <2>1. worker.pc # "idle" /\ Child \in ChildNames /\ DOMAIN children = ChildNames
    BY <1>4, ItemChildStep, WorkerNamesAChild DEF ItemInv, ItemTypeInv
  <2>2. worker \in Reconciles(Key, ItemSteps, {NoLocal})
    BY <2>1, WorkerAtAStep DEF ItemInv, ItemTypeInv
  <2>3. PICK o \in Outcomes : ApplyChild(o) \/ DeleteChild(o)
    BY <1>4 DEF ChildStep
  <2>4. ~ApplyChild(o)
    BY <2>2 DEF ApplyChild, AfterError, Goto, Reconciles
  <2>5. Goto("removeFinalizer") /\ o = "ok"
    BY <2>3, <2>4 DEF DeleteChild, Retry, Idle
  <2>6. Child' = Child
    BY <2>2, <2>5 DEF Goto, Reconciles, Child, Key, Obj
  <2> QED
    BY <2>1, <2>3, <2>4, <2>5, <2>6 DEF DeleteChild, Call
<1>5. CASE ItemUsers /\ UNCHANGED outside
  <2>1. UNCHANGED worker
    BY <1>5, UserEffect DEF ItemUsers, ItemInv, ItemTypeInv
  <2> QED
    BY <1>1, <1>5, <2>1 DEF outside
<1>6. CASE \/ (\E k \in Keys : Sync(k)) /\ UNCHANGED outside
           \/ (Resync \/ BecomeCalm) /\ UNCHANGED outside
           \/ UNCHANGED itemVars
  BY <1>1, <1>6 DEF Sync, Resync, BecomeCalm, outside, itemVars, runtimeVars
<1> QED
  BY <1>2, <1>3, <1>4, <1>5, <1>6 DEF ItemNext, Step

(* A resource that holds a child is released only by the removal of the    *)
(* finalizer, when the child is gone.                                      *)
LEMMA HeldUnlessReleased ==
  ASSUME ItemInv, [ItemNext]_itemVars, NEW k \in Keys, Held(k), ~Held(k)'
  PROVE  /\ worker.pc = "removeFinalizer" /\ k = Key /\ objects[k] = Obj
         /\ UNCHANGED children
<1>0. RuntimeInv(ItemSteps, {NoLocal}) /\ TeardownInv(TeardownSteps) /\ ItemTypeInv
  BY DEF ItemInv, ItemTypeInv, FinalizerInv
<1>1. objects'[k] # objects[k]
  BY DEF Held
<1>2. ~UserNext
  BY <1>0, UserEffect DEF Held
<1>3. LocalStep /\ UNCHANGED children
  BY <1>0, <1>1, <1>2, ItemChildStep DEF ItemNext, ItemUsers, Step, outside, itemVars,
    runtimeVars, Sync, TakeKey, Skip, StartAdoption, StartTeardown, StartRender, Take,
    Restart, Resync, BecomeCalm
<1>4. PICK o \in Outcomes : FinalizerStep(o) \/ WriteRejected(o)
                              \/ \E name \in Names \cup {NoName} : WriteReady(o, name)
  BY <1>0, <1>3, ItemLocalStep
<1>5. CASE RemoveFinalizer(o)
  BY <1>0, <1>1, <1>3, <1>5, ItemStepSets, RemoveFinalizerEffect DEF RemoveFinalizer, At
<1>6. CASE ~RemoveFinalizer(o)
  BY <1>0, <1>1, <1>4, <1>6, OtherWritesEffect DEF Keeps, Held, SameLife
<1> QED
  BY <1>5, <1>6

(* The same resource names the same child as long as it is held.           *)
LEMMA ChildStays ==
  ASSUME StableTenants, ItemTypeInv, ItemTypeInv', NEW k \in Keys, Held(k), Held(k)'
  PROVE  ChildOf(k, objects'[k].spec) = ChildOf(k, objects[k].spec)
<1>1. objects[k].spec \in Specs[k] /\ objects'[k].spec \in Specs[k]
  BY DEF ItemTypeInv, RuntimeInv, RuntimeTypeOK, CatalogObjects, Held
<1> QED
  BY <1>1 DEF StableTenants, ChildOf

LEMMA ItemInvStep ==
  ASSUME StableTenants, ItemInv, [ItemNext]_itemVars
  PROVE  ItemInv'
<1>1. ItemTypeInv /\ ItemTypeInv' /\ DOMAIN children = ChildNames
  BY ItemTypeInvStep DEF ItemInv, ItemTypeInv
<1>2. FinalizerInv(ApplySteps, TeardownSteps)'
  BY ItemFinalizerInvStep DEF ItemInv
<1>3. worker'.pc = "removeFinalizer" => children'[Child'] = NoChild
  BY ChildGoneFirst
<1>4. NoOrphanChild'
  <2> SUFFICES ASSUME NEW c \in ChildNames, children'[c] # NoChild
               PROVE  \E k \in Keys : Held(k)' /\ ChildOf(k, objects'[k].spec) = c
    BY DEF NoOrphanChild, Held
  <2>1. PICK k \in Keys : Held(k) /\ ChildOf(k, objects[k].spec) = c
    <3>1. CASE children[c] # NoChild
      BY <3>1 DEF ItemInv, NoOrphanChild, Held
    <3>2. CASE children[c] = NoChild
      <4>1. ChildStep
        BY <3>2 DEF ItemNext, Step, outside, itemVars
      <4>2. c = Child /\ worker.pc \in ApplySteps
        BY <1>1, <3>2, <4>1, ItemChildStep
      <4>3. Key \in Keys /\ Held(Key) /\ Obj.spec \in Specs[Key]
        BY <1>1, <4>2, ItemStepSets, WorkerNamesAChild DEF ItemInv, FinalizerInv
      <4>4. objects[Key].spec \in Specs[Key]
        BY <1>1, <4>3 DEF ItemTypeInv, RuntimeInv, RuntimeTypeOK, CatalogObjects, Held
      <4>5. ChildOf(Key, objects[Key].spec) = c
        BY <4>2, <4>3, <4>4 DEF StableTenants, ChildOf, Child
      <4> QED
        BY <4>3, <4>5
    <3> QED
      BY <3>1, <3>2
  <2>2. Held(k)'
    <3> SUFFICES ASSUME ~Held(k)' PROVE FALSE
      OBVIOUS
    <3>1. worker.pc = "removeFinalizer" /\ k = Key /\ objects[k] = Obj /\ UNCHANGED children
      BY <2>1, HeldUnlessReleased
    <3>2. c = Child
      BY <2>1, <3>1 DEF Child
    <3> QED
      BY <3>1, <3>2 DEF ItemInv
  <2> QED
    BY <1>1, <2>1, <2>2, ChildStays
<1> QED
  BY <1>1, <1>2, <1>3, <1>4 DEF ItemInv

(* No ClusterIssuer and no AppProject outlives its resource, also if the   *)
(* write that made it was reported as failed, was given up, or came from a *)
(* reconcile that had read the resource long ago; provided that resources  *)
(* keep their tenant, of which the child's name is made.                   *)
THEOREM NoChildIsOrphaned ==
  ASSUME StableTenants
  PROVE  ItemSpec => []NoOrphanChild
<1>1. ItemInit => ItemInv
  BY ItemInvInit
<1>2. ItemInv /\ [ItemNext]_itemVars => ItemInv'
  BY ItemInvStep
<1>3. ItemInv => NoOrphanChild
  BY DEF ItemInv
<1> QED
  BY <1>1, <1>2, <1>3, PTL DEF ItemSpec

----------------------------------------------------------------------------
(* Type correctness.  A behaviour is about the resources of "mine" only,   *)
(* and what is rendered has the shape of their kind.                       *)
MineInv ==
  /\ mine \in Populations
  /\ \A k \in Keys \ mine : objects[k] = NoObj /\ cache[k] = NoObj
  /\ worker.pc # "idle" => Key \in mine

OneKind(child) == (child.acme = NoName) # (child.ca = NoName)

ContentInv ==
  \A c \in ChildNames : children[c] # NoChild =>
    /\ children[c] \in Contents
    /\ mine \subseteq Issuers => OneKind(children[c])

ItemShapeInv == ItemTypeInv /\ MineInv /\ ContentInv

(* A step of a reconcile of the resource, seen from the children.          *)
LEMMA ChildrenEffect ==
  ASSUME [ItemNext]_itemVars
  PROVE  \/ UNCHANGED children
         \/ /\ worker.pc = "applyChild" /\ Buildable(Key, Obj.spec) /\ UNCHANGED objects
            /\ children' = [children EXCEPT ![Child] = Rendered(Key, Obj.spec)]
         \/ /\ worker.pc = "deleteChild" /\ UNCHANGED objects
            /\ children' = [children EXCEPT ![Child] = NoChild]
<1>1. CASE ChildStep
  <2>1. PICK o \in Outcomes : ApplyChild(o) \/ DeleteChild(o)
    BY <1>1 DEF ChildStep
  <2> QED
    BY <2>1 DEF ApplyChild, DeleteChild, At, Call
<1>2. CASE ~ChildStep
  BY <1>2 DEF ItemNext, Step, outside, itemVars
<1> QED
  BY <1>1, <1>2

LEMMA RenderedHasItsShape ==
  ASSUME NEW k \in Keys, NEW spec \in Specs[k], Buildable(k, spec)
  PROVE  Rendered(k, spec) \in Contents /\ (k \in Issuers => OneKind(Rendered(k, spec)))
<1>1. CASE k \in Issuers
  <2>1. spec.acme \in Servers \cup {NoName} /\ spec.ca \in Cas \cup {NoName}
    BY <1>1, ItemAssumption DEF IssuerSpecs
  <2> QED
    BY <1>1, <2>1 DEF Rendered, IssuerChild, Contents, OneKind, Buildable
<1>2. CASE k \in Projects /\ k \notin Issuers
  <2>1. /\ spec.repos \cup {DexRepo} \in SUBSET Repos
        /\ spec.namespace \in Namespaces /\ spec.destinations \in SUBSET Namespaces
    BY <1>2, ItemAssumption DEF ProjectSpecs
  <2> QED
    BY <1>2, <2>1 DEF Rendered, ProjectChild, Contents
<1> QED
  BY <1>1, <1>2, ItemAssumption

LEMMA MineInvStep ==
  ASSUME ItemTypeInv, MineInv, [ItemNext]_itemVars
  PROVE  MineInv' /\ UNCHANGED mine
<1>0. RuntimeInv(ItemSteps, {NoLocal}) /\ DOMAIN cache = Keys
  BY DEF ItemTypeInv, RuntimeInv, RuntimeTypeOK
<1>1. CASE ItemUsers /\ UNCHANGED outside
  <2>1. UNCHANGED <<cache, worker, mine>>
    BY <1>0, <1>1, UserEffect DEF ItemUsers, outside
  <2> QED
    BY <1>1, <2>1 DEF ItemUsers, MineInv, Key
<1>2. CASE \E k \in Keys : (Sync(k) \/ TakeKey(k)) /\ UNCHANGED outside
  <2>1. PICK k \in Keys : (Sync(k) \/ TakeKey(k)) /\ UNCHANGED mine
    BY <1>2 DEF outside
  <2>2. CASE Sync(k)
    BY <1>0, <2>1, <2>2 DEF Sync, MineInv, Key
  <2>3. CASE Skip(k)
    BY <2>1, <2>3 DEF Skip, MineInv, Key
  <2>4. CASE TakeKey(k) /\ ~Skip(k)
    <3>1. /\ UNCHANGED <<objects, cache>> /\ worker'.key = k /\ cache[k] # NoObj
      BY <2>4, ItemTakes DEF Take
    <3> QED
      BY <2>1, <3>1 DEF MineInv, Key
  <2> QED
    BY <2>1, <2>2, <2>3, <2>4
<1>3. CASE LocalStep /\ UNCHANGED outside
  <2>1. PICK o \in Outcomes :
          FinalizerStep(o) \/ WriteRejected(o)
            \/ \E name \in Names \cup {NoName} : WriteReady(o, name)
    BY <1>3, ItemLocalStep
  <2>2. worker.pc # "idle" /\ worker' = Idle /\ UNCHANGED cache
    BY <2>1 DEF FinalizerStep, AddFinalizer, RemoveFinalizer, WriteFailed, WriteRejected,
                WriteReady, At, Retry, Done
  <2>3. \A k \in Keys : objects'[k] = objects[k] \/ k = Key
    BY <1>0, <2>1, WriteVersionEffect
  <2> QED
    BY <1>3, <2>2, <2>3 DEF MineInv, outside, Idle
<1>4. CASE ChildStep
  <2>1. /\ worker.pc # "idle" /\ UNCHANGED <<objects, cache>>
        /\ Retry \/ \E step \in ItemSteps : Goto(step)
    BY <1>4, ItemChildStep
  <2>2. worker'.pc = "idle" \/ worker'.key = worker.key
    BY <1>0, <2>1, WorkerAtAStep DEF Retry, Goto, Idle, Reconciles
  <2>3. UNCHANGED mine
    BY <1>4 DEF ChildStep, ApplyChild, DeleteChild
  <2> QED
    BY <2>1, <2>2, <2>3 DEF MineInv, Key
<1>5. CASE (Restart \/ Resync \/ BecomeCalm) /\ UNCHANGED outside
  BY <1>5 DEF Restart, Resync, BecomeCalm, outside, MineInv, Idle, Key
<1>6. CASE UNCHANGED itemVars
  BY <1>6 DEF itemVars, runtimeVars, MineInv, Key
<1> QED
  BY <1>1, <1>2, <1>3, <1>4, <1>5, <1>6 DEF ItemNext, Step

LEMMA ContentInvStep ==
  ASSUME ItemTypeInv, MineInv, ContentInv, [ItemNext]_itemVars
  PROVE  ContentInv'
<1>1. UNCHANGED mine /\ DOMAIN children = ChildNames
  BY MineInvStep DEF ItemTypeInv
<1> SUFFICES ASSUME NEW c \in ChildNames, children'[c] # NoChild, children'[c] # children[c]
             PROVE  /\ children'[c] \in Contents
                    /\ mine \subseteq Issuers => OneKind(children'[c])
  BY <1>1 DEF ContentInv
<1>2. /\ worker.pc = "applyChild" /\ Buildable(Key, Obj.spec)
      /\ children'[c] = Rendered(Key, Obj.spec)
  BY <1>1, ChildrenEffect
<1>3. Key \in Keys /\ Obj.spec \in Specs[Key] /\ Key \in mine
  BY <1>2, WorkerNamesAChild DEF MineInv
<1> QED
  BY <1>2, <1>3, RenderedHasItsShape

LEMMA ItemShapeInvInit ==
  ASSUME ItemInit
  PROVE  ItemShapeInv
<1>1. ItemTypeInv /\ worker.pc = "idle" /\ mine \in Populations /\ mine \subseteq Keys
  BY ItemInvInit, ItemAssumption DEF ItemInv, ItemInit, Idle
<1>2. CASE /\ objects = [k \in Keys |-> NoObj]
           /\ children = [c \in ChildNames |-> NoChild]
  BY <1>1, <1>2 DEF ItemInit, ItemShapeInv, MineInv, ContentInv
<1>3. CASE \E k \in mine \cap Projects : \E spec \in Specs[k] :
             /\ objects = [x \in Keys |-> IF x = k THEN OldProject(k, spec) ELSE NoObj]
             /\ children = [c \in ChildNames |->
                  IF c = ChildOf(k, spec) THEN OldChild(spec) ELSE NoChild]
  <2>1. PICK k \in mine \cap Projects : \E spec \in Specs[k] :
          /\ objects = [x \in Keys |-> IF x = k THEN OldProject(k, spec) ELSE NoObj]
          /\ children = [c \in ChildNames |->
               IF c = ChildOf(k, spec) THEN OldChild(spec) ELSE NoChild]
    BY <1>3
  <2>2. PICK spec \in Specs[k] :
          /\ objects = [x \in Keys |-> IF x = k THEN OldProject(k, spec) ELSE NoObj]
          /\ children = [c \in ChildNames |->
               IF c = ChildOf(k, spec) THEN OldChild(spec) ELSE NoChild]
    BY <2>1
  <2>3. MineInv
    BY <1>1, <2>2 DEF ItemInit, MineInv
  <2>4. OldChild(spec) \in Contents
    <3>1. /\ spec.repos \in SUBSET Repos
          /\ spec.namespace \in Namespaces /\ spec.destinations \in SUBSET Namespaces
      BY ItemAssumption DEF ProjectSpecs
    <3>2. ProjectChild(spec) =
            [repos |-> spec.repos \cup {DexRepo},
             destinations |-> IF spec.destinations = {} THEN {spec.namespace}
                              ELSE spec.destinations]
      BY DEF ProjectChild
    <3> QED
      BY <3>1, <3>2 DEF OldChild, Contents
  <2>5. ~(mine \subseteq Issuers)
    BY ItemAssumption
  <2> QED
    BY <1>1, <2>2, <2>3, <2>4, <2>5 DEF ItemShapeInv, ContentInv
<1> QED
  BY <1>2, <1>3 DEF ItemInit

LEMMA ItemShapeInvStep ==
  ASSUME ItemShapeInv, [ItemNext]_itemVars
  PROVE  ItemShapeInv'
BY ItemTypeInvStep, MineInvStep, ContentInvStep DEF ItemShapeInv

(* Resources keep their shape, and every rendered child has that of its    *)
(* kind: a ClusterIssuer is never of two kinds, or of none.                *)
THEOREM ItemTypeCorrect == ItemSpec => []ItemTypeOK
<1>1. ItemInit => ItemShapeInv
  BY ItemShapeInvInit
<1>2. ItemShapeInv /\ [ItemNext]_itemVars => ItemShapeInv'
  BY ItemShapeInvStep
<1>3. ItemShapeInv => ItemTypeOK
  BY DEF ItemShapeInv, ItemTypeInv, RuntimeInv, MineInv, ContentInv, OneKind, ItemTypeOK
<1> QED
  BY <1>1, <1>2, <1>3, PTL DEF ItemSpec

----------------------------------------------------------------------------
(* Ready can be believed (see VersionInv).                                 *)
ManageSteps == {"applyChild", "readyStatus"}

IsRendered(k, spec) == children[ChildOf(k, spec)] = Rendered(k, spec)

IsOld(k) ==
  /\ k \in Projects /\ objects[k].uid = 1 /\ objects[k].gen = 1
  /\ children[ChildOf(k, objects[k].spec)] = OldChild(objects[k].spec)

RenderedInv ==
  /\ ItemInv /\ ItemShapeInv
  /\ VersionInv(ManageSteps)
  /\ worker.pc = "readyStatus" /\ ~SharesChild(Key) => IsRendered(Key, Obj.spec)
  /\ ReadyItemIsRendered

LEMMA ItemVersionInvStep ==
  ASSUME ItemTypeInv, VersionInv(ManageSteps), [ItemNext]_itemVars
  PROVE  VersionInv(ManageSteps)'
<1>0. /\ RuntimeInv(ItemSteps, {NoLocal})
      /\ "idle" \notin ManageSteps /\ "readyStatus" \in ManageSteps
  BY DEF ItemTypeInv, ManageSteps
<1>1. CASE ItemUsers
  BY <1>0, <1>1, UsersKeepVersionInv DEF ItemUsers
<1>2. CASE \E k \in Keys : Sync(k) \/ TakeKey(k)
  <2>1. PICK k \in Keys : Sync(k) \/ TakeKey(k)
    BY <1>2
  <2>2. CASE Sync(k)
    BY <1>0, <2>2, SyncKeepsVersionInv
  <2>3. CASE Skip(k)
    BY <1>0, <2>3, IdleKeepsVersionInv
  <2>4. CASE TakeKey(k) /\ ~Skip(k)
    <3>1. \E step : /\ Take(k, step, NoLocal) /\ cache[k] # NoObj
                    /\ step \in ManageSteps => ~cache[k].deleting
      BY <2>4, ItemTakes DEF ManageSteps, ApplySteps, Managed
    <3> QED
      BY <1>0, <3>1, TakeKeepsVersionInv
  <2> QED
    BY <2>1, <2>2, <2>3, <2>4
<1>3. CASE LocalStep
  BY <1>0, <1>3, ItemLocalStep, FinalizerStepKeepsVersionInv
<1>4. CASE ChildStep
  <2>1. worker.pc # "idle" /\ UNCHANGED <<objects, cache>>
    BY <1>4, ItemChildStep
  <2>2. PICK o \in Outcomes : ApplyChild(o) \/ DeleteChild(o)
    BY <1>4 DEF ChildStep
  <2>3. \/ \E step \in ItemSteps :
             Goto(step) /\ (step \in ManageSteps => worker.pc \in ManageSteps)
        \/ Retry
    BY <2>2 DEF ApplyChild, DeleteChild, AfterError, At, ManageSteps, ItemSteps
  <2> QED
    BY <1>0, <2>1, <2>3, GotoKeepsVersionInv
<1>5. CASE Restart \/ Resync \/ BecomeCalm
  BY <1>0, <1>5, IdleKeepsVersionInv
<1>6. CASE UNCHANGED itemVars
  BY <1>6 DEF itemVars, runtimeVars, VersionInv, CopiesInv, ReadyInv, Precedes, SameVersion,
              SameLife, Ready, Key, Obj
<1> QED
  BY <1>1, <1>2, <1>3, <1>4, <1>5, <1>6 DEF ItemNext, Step

(* No other resource of the behaviour writes the child of one that shares  *)
(* it with none.                                                           *)
LEMMA OnlyItsOwnChild ==
  ASSUME ItemTypeInv, MineInv, worker.pc # "idle", NEW k \in Keys, NEW spec \in Specs[k],
         ~SharesChild(k), k \in mine, ChildOf(k, spec) = Child
  PROVE  k = Key
BY WorkerNamesAChild DEF MineInv, SharesChild, Child

LEMMA ReportsWhatIsRendered ==
  ASSUME RenderedInv, [ItemNext]_itemVars, worker'.pc = "readyStatus", ~SharesChild(Key')
  PROVE  IsRendered(Key, Obj.spec)'
<1>0. RuntimeInv(ItemSteps, {NoLocal}) /\ ItemTypeInv /\ DOMAIN children = ChildNames
  BY DEF RenderedInv, ItemInv, ItemTypeInv
<1>1. CASE UNCHANGED <<worker, children>>
  <2>1. Key' = Key /\ Obj' = Obj /\ worker.pc = "readyStatus"
    BY <1>1 DEF Key, Obj
  <2> QED
    BY <1>1, <2>1 DEF RenderedInv, IsRendered
<1>2. CASE ItemUsers /\ UNCHANGED outside
  <2>1. UNCHANGED worker
    BY <1>0, <1>2, UserEffect DEF ItemUsers
  <2> QED
    BY <1>1, <1>2, <2>1 DEF outside
<1>3. CASE ChildStep
  <2>1. PICK o \in Outcomes : ApplyChild(o) \/ DeleteChild(o)
    BY <1>3 DEF ChildStep
  <2>2. worker.pc # "idle"
    BY <2>1 DEF ApplyChild, DeleteChild, At
  <2>3. Child \in ChildNames /\ worker \in Reconciles(Key, ItemSteps, {NoLocal})
    BY <1>0, <2>2, WorkerNamesAChild, WorkerAtAStep
  <2>4. ~DeleteChild(o)
    BY <2>3 DEF DeleteChild, Goto, Retry, Idle, Reconciles
  <2>5. Goto("readyStatus") /\ o = "ok" /\ Buildable(Key, Obj.spec)
    BY <2>1, <2>3, <2>4 DEF ApplyChild, AfterError, Goto, Reconciles
  <2>6. Key' = Key /\ Obj' = Obj
    BY <2>3, <2>5 DEF Goto, Reconciles, Key, Obj
  <2>7. children'[Child] = Rendered(Key, Obj.spec)
    BY <1>0, <2>1, <2>3, <2>4, <2>5 DEF ApplyChild, Call
  <2> QED
    BY <2>6, <2>7 DEF IsRendered, Child
<1>4. CASE LocalStep \/ Restart
  BY <1>4 DEF LocalStep, FinalizerStep, AddFinalizer, RemoveFinalizer, WriteFailed,
    WriteRejected, WriteItemReady, WriteReady, Retry, Done, Restart, Idle
<1>5. CASE (\E k \in Keys : Sync(k) \/ TakeKey(k)) /\ UNCHANGED outside
  BY <1>1, <1>5 DEF Sync, TakeKey, Skip, StartAdoption, StartTeardown, StartRender, Take, outside
<1>6. CASE ((Resync \/ BecomeCalm) /\ UNCHANGED outside) \/ UNCHANGED itemVars
  BY <1>1, <1>6 DEF Resync, BecomeCalm, itemVars, runtimeVars, outside
<1> QED
  BY <1>2, <1>3, <1>4, <1>5, <1>6 DEF ItemNext, Step

LEMMA ItemBecomesReady ==
  ASSUME ItemTypeInv, [ItemNext]_itemVars, NEW k \in Keys,
         objects'[k] # NoObj, Ready(objects'[k])
  PROVE  \/ objects[k] # NoObj /\ Ready(objects[k]) /\ Rewrites(objects[k], objects'[k])
         \/ /\ worker.pc = "readyStatus" /\ k = Key /\ objects'[k].spec = Obj.spec
            /\ UNCHANGED children
<1>0. RuntimeInv(ItemSteps, {NoLocal})
  BY DEF ItemTypeInv
<1>1. CASE objects'[k] = objects[k]
  BY <1>1 DEF Rewrites
<1>2. CASE ItemUsers
  BY <1>0, <1>1, <1>2, UserVersionEffect DEF ItemUsers
<1>3. CASE LocalStep /\ UNCHANGED outside
  <2>1. PICK o \in Outcomes :
          FinalizerStep(o) \/ WriteRejected(o)
            \/ \E name \in Names \cup {NoName} : WriteReady(o, name)
    BY <1>3, ItemLocalStep
  <2>2. worker.pc # "idle"
    BY <2>1 DEF FinalizerStep, AddFinalizer, RemoveFinalizer, WriteFailed, WriteRejected,
                WriteReady, At
  <2>3. Obj # NoObj
    BY <1>0, <2>2, WorkerAtAStep, NoObjIsNoObject
  <2> QED
    BY <1>0, <1>1, <1>3, <2>1, <2>3, WriteVersionEffect DEF Rewrites, outside
<1>4. CASE UNCHANGED objects
  BY <1>1, <1>4
<1> QED
  BY <1>2, <1>3, <1>4, ItemChildStep DEF ItemNext, Step, itemVars, runtimeVars, Sync, TakeKey,
    Skip, StartAdoption, StartTeardown, StartRender, Take, Restart, Resync, BecomeCalm

LEMMA RenderedInvStep ==
  ASSUME StableTenants, RenderedInv, [ItemNext]_itemVars
  PROVE  RenderedInv'
<1>0. /\ ItemInv /\ ItemShapeInv /\ ItemTypeInv /\ MineInv /\ VersionInv(ManageSteps)
      /\ RuntimeInv(ItemSteps, {NoLocal}) /\ DOMAIN children = ChildNames
  BY DEF RenderedInv, ItemShapeInv, ItemTypeInv
<1>1. ItemInv' /\ ItemShapeInv' /\ VersionInv(ManageSteps)'
  BY <1>0, ItemInvStep, ItemShapeInvStep, ItemVersionInvStep
<1>2. worker'.pc = "readyStatus" /\ ~SharesChild(Key') => IsRendered(Key, Obj.spec)'
  BY ReportsWhatIsRendered
<1>3. ReadyItemIsRendered'
  <2> SUFFICES ASSUME NEW k \in Keys, objects'[k] # NoObj, Ready(objects'[k]), ~SharesChild(k)
               PROVE  IsRendered(k, objects[k].spec)' \/ IsOld(k)'
    BY DEF ReadyItemIsRendered, IsRendered, IsOld
  <2>1. CASE /\ worker.pc = "readyStatus" /\ k = Key /\ objects'[k].spec = Obj.spec
             /\ UNCHANGED children
    BY <2>1 DEF RenderedInv, IsRendered
  <2>2. CASE objects[k] # NoObj /\ Ready(objects[k]) /\ Rewrites(objects[k], objects'[k])
    <3>1. IsRendered(k, objects[k].spec) \/ IsOld(k)
      BY <2>2 DEF RenderedInv, ReadyItemIsRendered, IsRendered, IsOld
    <3>2. /\ objects[k].spec \in Specs[k] /\ k \in mine /\ ~objects[k].deleting
          /\ ChildOf(k, objects[k].spec) \in ChildNames
      BY <1>0, <2>2, ChildOfIsAName
        DEF MineInv, RuntimeInv, RuntimeTypeOK, CatalogObjects, VersionInv, ReadyInv
    <3>3. CASE UNCHANGED children
      BY <2>2, <3>1, <3>3 DEF IsRendered, IsOld, Rewrites
    <3>4. CASE worker.pc # "idle" /\ ChildOf(k, objects[k].spec) # Child
      <4>1. UNCHANGED children \/ \E value : children' = [children EXCEPT ![Child] = value]
        BY ChildrenEffect
      <4>2. children'[ChildOf(k, objects[k].spec)] = children[ChildOf(k, objects[k].spec)]
        BY <1>0, <3>2, <3>4, <4>1
      <4> QED
        BY <2>2, <3>1, <4>2 DEF IsRendered, IsOld, Rewrites
    <3>5. CASE worker.pc # "idle" /\ ChildOf(k, objects[k].spec) = Child
      <4>1. k = Key
        BY <1>0, <3>2, <3>5, OnlyItsOwnChild
      <4>2. SameVersion(Obj, objects[k]) /\ Precedes(Obj, objects[k]) /\ Obj # NoObj
        BY <1>0, <2>2, <3>5, <4>1, WorkerAtAStep, NoObjIsNoObject
          DEF VersionInv, ReadyInv, CopiesInv
      <4>3. Obj.spec = objects[k].spec /\ ~Obj.deleting
        BY <3>2, <4>2 DEF SameVersion, Precedes
      <4>4. worker.pc # "deleteChild"
        BY <1>0, <4>3 DEF ItemInv, FinalizerInv, TeardownInv, TeardownSteps
      <4>5. \/ UNCHANGED children
            \/ children' = [children EXCEPT ![Child] = Rendered(Key, Obj.spec)]
        BY <4>4, ChildrenEffect
      <4>6. CASE children' = [children EXCEPT ![Child] = Rendered(Key, Obj.spec)]
        <5>1. children'[ChildOf(k, objects[k].spec)] = Rendered(k, objects[k].spec)
          BY <1>0, <3>2, <3>5, <4>1, <4>3, <4>6
        <5> QED
          BY <2>2, <5>1 DEF IsRendered, Rewrites
      <4> QED
        BY <3>3, <4>5, <4>6
    <3>6. CASE worker.pc = "idle"
      BY <3>3, <3>6, ChildrenEffect
    <3> QED
      BY <3>4, <3>5, <3>6
  <2> QED
    BY <1>0, <2>1, <2>2, ItemBecomesReady
<1> QED
  BY <1>1, <1>2, <1>3 DEF RenderedInv

LEMMA RenderedInvInit ==
  ASSUME ItemInit
  PROVE  RenderedInv
<1>1. ItemInv /\ ItemShapeInv /\ worker = Idle /\ \A k \in Keys : cache[k] = NoObj
  BY ItemInvInit, ItemShapeInvInit DEF ItemInit
<1>2. CASE objects = [k \in Keys |-> NoObj]
  <2>1. VersionInv(ManageSteps)
    BY <1>1, <1>2, VersionInvInit DEF ManageSteps
  <2> QED
    BY <1>1, <1>2, <2>1 DEF RenderedInv, ReadyItemIsRendered, Idle
<1>3. CASE \E k \in mine \cap Projects : \E spec \in Specs[k] :
             /\ objects = [x \in Keys |-> IF x = k THEN OldProject(k, spec) ELSE NoObj]
             /\ children = [c \in ChildNames |->
                  IF c = ChildOf(k, spec) THEN OldChild(spec) ELSE NoChild]
  <2>1. PICK k \in Keys \cap Projects : \E spec \in Specs[k] :
          /\ objects = [x \in Keys |-> IF x = k THEN OldProject(k, spec) ELSE NoObj]
          /\ children = [c \in ChildNames |->
               IF c = ChildOf(k, spec) THEN OldChild(spec) ELSE NoChild]
    BY <1>3, ItemAssumption
  <2>2. PICK spec \in Specs[k] :
          /\ objects = [x \in Keys |-> IF x = k THEN OldProject(k, spec) ELSE NoObj]
          /\ children = [c \in ChildNames |->
               IF c = ChildOf(k, spec) THEN OldChild(spec) ELSE NoChild]
    BY <2>1
  <2>3. /\ OldProject(k, spec).uid = 1 /\ OldProject(k, spec).gen = 1
        /\ OldProject(k, spec).spec = spec /\ ~OldProject(k, spec).deleting
    BY DEF OldProject, NewObject
  <2>4. VersionInv(ManageSteps)
    BY <1>1, <2>2, <2>3, VersionInvInit DEF ManageSteps
  <2>5. children[ChildOf(k, spec)] = OldChild(spec)
    BY <2>2, ChildOfIsAName
  <2>6. ReadyItemIsRendered
    BY <2>2, <2>3, <2>5 DEF ReadyItemIsRendered
  <2> QED
    BY <1>1, <2>4, <2>6 DEF RenderedInv, Idle
<1> QED
  BY <1>2, <1>3 DEF ItemInit

(* A resource that is Ready at its current generation has its child as that*)
(* generation asks for it, unless an older version of the operator said so,*)
(* however stale the reconcile under way; if no other resource names that  *)
(* child.                                                                  *)
THEOREM ReadyMeansRendered ==
  ASSUME StableTenants
  PROVE  ItemSpec => []ReadyItemIsRendered
<1>1. ItemInit => RenderedInv
  BY RenderedInvInit
<1>2. RenderedInv /\ [ItemNext]_itemVars => RenderedInv'
  BY RenderedInvStep
<1>3. RenderedInv => ReadyItemIsRendered
  BY DEF RenderedInv
<1> QED
  BY <1>1, <1>2, <1>3, PTL DEF ItemSpec

----------------------------------------------------------------------------
(* No wakeup is lost, and what is left to the user is left complete.       *)
WakeSteps == ManageSteps \cup {"rejectStatus"}

ItemWakeInv ==
  /\ ItemTypeInv
  /\ FinalizerInv(ApplySteps, TeardownSteps)
  /\ VersionInv(ManageSteps)
  /\ WakeInv(WakeSteps, Issuers)
  /\ worker.pc = "rejectStatus" => Key \in Issuers

LEMMA ItemWakeInvStep ==
  ASSUME ItemWakeInv, [ItemNext]_itemVars
  PROVE  /\ WakeInv(WakeSteps, Issuers)'
         /\ (worker.pc = "rejectStatus" => Key \in Issuers)'
<1>0. /\ ItemTypeInv /\ RuntimeInv(ItemSteps, {NoLocal}) /\ CopiesInv /\ CacheInv
      /\ TeardownInv(TeardownSteps) /\ WakeInv(WakeSteps, Issuers)
      /\ "idle" \notin WakeSteps /\ {"readyStatus", "rejectStatus"} \subseteq WakeSteps
      /\ "removeFinalizer" \in TeardownSteps /\ "idle" \notin ItemSteps
      /\ worker.pc = "rejectStatus" => Key \in Issuers
  BY ItemStepSets
    DEF ItemWakeInv, ItemTypeInv, FinalizerInv, VersionInv, WakeSteps, ManageSteps
<1>1. CASE ItemUsers
  <2>1. UserNext /\ UNCHANGED worker
    BY <1>1 DEF ItemUsers, UserNext, CreateObject, EditObject, DeleteObject, Edit
  <2> QED
    BY <1>0, <2>1, UsersKeepWakeInv DEF Key
<1>2. CASE \E k \in Keys : Sync(k) \/ TakeKey(k)
  <2>1. PICK k \in Keys : Sync(k) \/ TakeKey(k)
    BY <1>2
  <2>2. CASE Sync(k)
    BY <1>0, <2>2, SyncKeepsWakeInv DEF Sync, Key
  <2>3. CASE Skip(k)
    BY <1>0, <2>3, IdleKeepsWakeInv DEF Skip, Key
  <2>4. CASE TakeKey(k) /\ ~Skip(k)
    <3>1. PICK step : /\ Take(k, step, NoLocal)
                      /\ step \in WakeSteps => cache[k].finalizer /\ ~cache[k].deleting
                      /\ step = "addFinalizer" => ~cache[k].finalizer
                      /\ step # "rejectStatus"
      BY <2>4 DEF TakeKey, StartAdoption, StartTeardown, StartRender, Unmanaged, Managed,
                  WakeSteps, ManageSteps
    <3>2. worker'.pc # "rejectStatus"
      BY <3>1 DEF Take
    <3> QED
      BY <1>0, <3>1, <3>2, TakeKeepsWakeInv
  <2> QED
    BY <2>1, <2>2, <2>3, <2>4
<1>3. CASE LocalStep
  <2>1. PICK o \in Outcomes :
          \/ FinalizerStep(o)
          \/ Key \in Issuers /\ WriteRejected(o)
          \/ \E name \in Names \cup {NoName} : WriteReady(o, name)
    BY <1>0, <1>3, ItemLocalStep DEF WriteRejected, At
  <2>2. worker' = Idle
    BY <2>1 DEF FinalizerStep, AddFinalizer, RemoveFinalizer, WriteFailed, WriteRejected,
                WriteReady, Retry, Done
  <2> QED
    BY <1>0, <2>1, <2>2, FinalizerStepKeepsWakeInv DEF Idle
<1>4. CASE ChildStep
  <2>1. PICK o \in Outcomes : ApplyChild(o) \/ DeleteChild(o)
    BY <1>4 DEF ChildStep
  <2>2. worker.pc # "idle" /\ UNCHANGED <<objects, cache>>
    BY <1>0, <1>4, ItemChildStep
  <2>3. \/ \E step \in ItemSteps : /\ Goto(step) /\ step # "addFinalizer"
                                   /\ step \in WakeSteps => worker.pc \in WakeSteps
                                   /\ step = "rejectStatus" => Key \in Issuers
        \/ Retry
    BY <2>1 DEF ApplyChild, DeleteChild, AfterError, At, WakeSteps, ManageSteps, ItemSteps
  <2>4. WakeInv(WakeSteps, Issuers)'
    BY <1>0, <2>2, <2>3, GotoKeepsWakeInv
  <2>5. CASE Retry
    BY <2>4, <2>5 DEF Retry, Idle
  <2>6. CASE \E step \in ItemSteps : Goto(step) /\ (step = "rejectStatus" => Key \in Issuers)
    <3>1. PICK step \in ItemSteps : Goto(step) /\ (step = "rejectStatus" => Key \in Issuers)
      BY <2>6
    <3>2. worker'.pc = step /\ Key' = Key
      BY <1>0, <2>2, <3>1, GotoGoesOnward DEF Onward
    <3> QED
      BY <2>4, <3>1, <3>2
  <2> QED
    BY <2>3, <2>5, <2>6
<1>5. CASE Restart \/ Resync \/ BecomeCalm
  <2>1. WakeInv(WakeSteps, Issuers)'
    BY <1>0, <1>5, IdleKeepsWakeInv
  <2>2. UNCHANGED worker \/ worker'.pc = "idle"
    BY <1>5 DEF Restart, Resync, BecomeCalm, Idle
  <2> QED
    BY <1>0, <2>1, <2>2 DEF Key
<1>6. CASE UNCHANGED itemVars
  BY <1>0, <1>6 DEF itemVars, runtimeVars, WakeInv, StatusInv, FreshInv, ResultInv, Quiet,
                    Arrived, Ready, Key, Obj
<1> QED
  BY <1>1, <1>2, <1>3, <1>4, <1>5, <1>6 DEF ItemNext, Step

LEMMA ItemWakeInvInit ==
  ASSUME ItemInit
  PROVE  ItemWakeInv
<1>1. worker = Idle /\ worker.pc = "idle" /\ \A k \in Keys : cache[k] = NoObj
  BY DEF ItemInit, Idle
<1>2. /\ ItemInv /\ VersionInv(ManageSteps)
  BY RenderedInvInit DEF RenderedInv
<1>3. StatusInv
  <2> SUFFICES ASSUME NEW k \in Keys, objects[k] # NoObj
               PROVE  /\ objects[k].finalizer
                      /\ ~objects[k].status.failed /\ ~objects[k].status.reconciling
    BY DEF StatusInv
  <2>1. \E spec : objects[k] = OldProject(k, spec)
    BY DEF ItemInit
  <2> QED
    BY <2>1 DEF OldProject, NewObject, SetReady, NoStatus
<1>4. WakeInv(WakeSteps, Issuers)
  BY <1>1, <1>3, WakeInvInit DEF WakeSteps, ManageSteps
<1> QED
  BY <1>1, <1>2, <1>4 DEF ItemWakeInv, ItemInv

(* An issuer or a project that the operator will not look at again by      *)
(* itself holds its finalizer and nobody waits for its deletion; a project *)
(* is Ready, too.  (An issuer is left to the user after any error, and so  *)
(* may rest without being Ready.)                                          *)
THEOREM NoItemWakeupIsLost == ItemSpec => []ResultInv(Issuers)
<1>1. ItemInit => ItemWakeInv
  BY ItemWakeInvInit
<1>2. ItemWakeInv /\ [ItemNext]_itemVars => ItemWakeInv'
  BY ItemTypeInvStep, ItemFinalizerInvStep, ItemVersionInvStep, ItemWakeInvStep DEF ItemWakeInv
<1>3. ItemWakeInv => ResultInv(Issuers)
  BY DEF ItemWakeInv, WakeInv
<1> QED
  BY <1>1, <1>2, <1>3, PTL DEF ItemSpec

----------------------------------------------------------------------------
(* Every step of the controllers is a step of the lifecycle of the items   *)
(* that share no child, or none.                                           *)
phases    == [k \in Alone |-> Phase(k)]
externals == [k \in Alone |-> HasChild(k)]

LEMMA HasOneChild ==
  ASSUME StableTenants, NEW k \in Keys, k \in mine, NEW spec \in Specs[k]
  PROVE  HasChild(k) <=> children[ChildOf(k, spec)] # NoChild
BY DEF StableTenants, HasChild, ChildOf

(* One item changes its phase and no child comes or goes: which lifecycle  *)
(* step that is.                                                           *)
LEMMA ItemPhaseStep ==
  ASSUME NEW k \in Keys, UNCHANGED externals,
         \A j \in Keys : j # k => Phase(j)' = Phase(j),
         \/ Phase(k)' = Phase(k)
         \/ Phase(k) = "absent" /\ Phase(k)' = "unmanaged"
         \/ Phase(k) = "unmanaged" /\ Phase(k)' = "absent"
         \/ Phase(k) = "unmanaged" /\ Phase(k)' = "managed"
         \/ Phase(k) = "managed" /\ Phase(k)' = "deleting"
         \/ Phase(k) = "deleting" /\ Phase(k)' = "absent" /\ ~HasChild(k)
  PROVE  [Lifecycle!LifecycleNext]_(Lifecycle!lifecycleVars)
<1>1. Alone \subseteq Keys
  BY DEF Alone
<1>2. CASE k \notin Alone \/ Phase(k)' = Phase(k)
  <2>1. UNCHANGED phases
    BY <1>1, <1>2 DEF phases
  <2> QED
    BY <2>1 DEF Lifecycle!lifecycleVars, phases, externals
<1>3. CASE k \in Alone /\ Phase(k)' # Phase(k)
  <2>1. phases' = [phases EXCEPT ![k] = Phase(k)'] /\ phases[k] = Phase(k)
    BY <1>1, <1>3 DEF phases
  <2>2. externals[k] = HasChild(k)
    BY <1>3 DEF externals
  <2>3. \/ Lifecycle!Create(k) \/ Lifecycle!Vanish(k) \/ Lifecycle!Adopt(k)
        \/ Lifecycle!Retire(k) \/ Lifecycle!Release(k)
    BY <1>3, <2>1, <2>2 DEF phases, externals, Lifecycle!Create, Lifecycle!Vanish,
      Lifecycle!Adopt, Lifecycle!Retire, Lifecycle!Release, Lifecycle!Move
  <2> QED
    BY <1>3, <2>3 DEF Lifecycle!LifecycleNext
<1> QED
  BY <1>2, <1>3

LEMMA ItemLocalLifecycleStep ==
  ASSUME StableTenants, ItemInv, MineInv, LocalStep /\ UNCHANGED outside
  PROVE  [Lifecycle!LifecycleNext]_(Lifecycle!lifecycleVars)
<1>1. RuntimeInv(ItemSteps, {NoLocal}) /\ TeardownInv(TeardownSteps) /\ ItemTypeInv
  BY DEF ItemInv, ItemTypeInv, FinalizerInv
<1>2. PICK o \in Outcomes : FinalizerStep(o) \/ WriteRejected(o)
                              \/ \E name \in Names \cup {NoName} : WriteReady(o, name)
  BY <1>1, ItemLocalStep
<1>3. PICK k \in Keys :
        /\ worker.pc # "idle" /\ k = Key
        /\ \A j \in Keys : j # k => Phase(j)' = Phase(j)
        /\ \/ Phase(k)' = Phase(k)
           \/ Phase(k) = "unmanaged" /\ Phase(k)' = "managed"
           \/ /\ worker.pc = "removeFinalizer"
              /\ Phase(k) = "deleting" /\ Phase(k)' = "absent"
  BY <1>1, <1>2, ItemStepSets, WritePhases
<1>4. worker.pc = "removeFinalizer" => ~HasChild(k)
  <2>1. Obj.spec \in Specs[k] /\ k \in mine
    BY <1>1, <1>3, WorkerNamesAChild DEF MineInv
  <2> QED
    BY <1>3, <2>1, HasOneChild DEF ItemInv, Child
<1>5. UNCHANGED externals
  BY DEF externals, HasChild, outside
<1> QED
  BY <1>3, <1>4, <1>5, ItemPhaseStep

(* A child is taken away only from an item that terminates.                *)
LEMMA DeletesWhatTerminates ==
  ASSUME StableTenants, ItemInv, ItemShapeInv, worker.pc = "deleteChild",
         ~SharesChild(Key), children[Child] # NoChild
  PROVE  Held(Key) /\ objects[Key].deleting
<1>1. ItemTypeInv /\ MineInv /\ Key \in mine /\ Key \in Keys /\ Child \in ChildNames
  BY WorkerNamesAChild DEF ItemShapeInv, MineInv
<1>2. PICK k \in Keys : Held(k) /\ ChildOf(k, objects[k].spec) = Child
  BY <1>1 DEF ItemInv, NoOrphanChild, Held
<1>3. k \in mine /\ objects[k].spec \in Specs[k] /\ Obj.spec \in Specs[Key]
  BY <1>1, <1>2, WorkerNamesAChild
    DEF MineInv, Held, ItemTypeInv, RuntimeInv, RuntimeTypeOK, CatalogObjects
<1>4. k = Key
  BY <1>1, <1>2, <1>3 DEF SharesChild, MineInv, Child
<1> QED
  BY <1>2, <1>4 DEF ItemInv, FinalizerInv, TeardownInv, TeardownSteps, Held

LEMMA ChildLifecycleStep ==
  ASSUME StableTenants, ItemInv, ItemShapeInv, [ItemNext]_itemVars, UNCHANGED objects
  PROVE  [Lifecycle!LifecycleNext]_(Lifecycle!lifecycleVars)
<1>0. ItemTypeInv /\ MineInv /\ DOMAIN children = ChildNames /\ UNCHANGED mine
  BY MineInvStep DEF ItemShapeInv, ItemTypeInv
<1>1. UNCHANGED phases /\ Alone \subseteq Keys
  BY DEF phases, Phase, Alone
<1>2. CASE UNCHANGED externals
  BY <1>1, <1>2 DEF externals, phases, Lifecycle!lifecycleVars
<1>3. CASE externals' # externals
  <2>1. /\ worker.pc \in {"applyChild", "deleteChild"}
        /\ \E value : children' = [children EXCEPT ![Child] = value]
    BY <1>0, <1>3, ChildrenEffect DEF externals, HasChild
  <2>2. /\ Key \in Keys /\ Key \in mine /\ Obj.spec \in Specs[Key] /\ Child \in ChildNames
    BY <1>0, <2>1, WorkerNamesAChild DEF MineInv
  <2>3. \A j \in Alone : j # Key => (HasChild(j)' <=> HasChild(j))
    <3> SUFFICES ASSUME NEW j \in Alone, j # Key, j \in mine, NEW spec \in Specs[j]
                 PROVE  children'[ChildOf(j, spec)] = children[ChildOf(j, spec)]
      BY <1>0 DEF HasChild
    <3>1. ~SharesChild(j) /\ j \in Keys
      BY DEF Alone
    <3>2. ChildOf(j, spec) # Child /\ ChildOf(j, spec) \in ChildNames
      BY <1>0, <2>1, <3>1, OnlyItsOwnChild, ChildOfIsAName
    <3> QED
      BY <1>0, <2>1, <3>2
  <2>4. PICK k \in Alone : k = Key
    <3> SUFFICES ASSUME Key \notin Alone PROVE UNCHANGED externals
      BY <1>3
    <3> QED
      BY <2>3 DEF externals, HasChild
  <2>5. HasChild(k) <=> children[Child] # NoChild
    BY <2>2, <2>4, HasOneChild DEF Child
  <2>6. HasChild(k)' <=> children'[Child] # NoChild
    BY <1>0, <2>2, <2>4 DEF StableTenants, HasChild, ChildOf, Child
  <2>7. externals' = [externals EXCEPT ![k] = HasChild(k)'] /\ phases[k] = Phase(k)
    BY <2>3, <2>4 DEF externals, phases, HasChild
  <2>8. children'[Child] = NoChild <=> children[Child] # NoChild
    <3> SUFFICES ASSUME HasChild(k)' <=> HasChild(k) PROVE UNCHANGED externals
      BY <1>3, <2>5, <2>6
    <3> QED
      BY <2>3, <2>4 DEF externals, HasChild
  <2>9. CASE worker.pc = "deleteChild"
    <3>1. children' = [children EXCEPT ![Child] = NoChild]
      BY <2>8, <2>9, ChildrenEffect
    <3>2. HasChild(k)' = FALSE /\ children[Child] # NoChild
      BY <1>0, <2>2, <2>6, <2>8, <3>1 DEF HasChild
    <3>3. Phase(k) = "deleting"
      BY <2>4, <2>9, <3>2, DeletesWhatTerminates DEF Alone, Held, Phase
    <3>4. Lifecycle!Deprovision(k)
      BY <1>1, <2>7, <3>2, <3>3 DEF Lifecycle!Deprovision, phases, externals
    <3> QED
      BY <2>4, <3>4 DEF Lifecycle!LifecycleNext
  <2>10. CASE worker.pc = "applyChild"
    <3>1. Held(Key)
      BY <2>10 DEF ItemInv, FinalizerInv, ApplySteps
    <3>2. Phase(k) \in {"managed", "deleting"}
      BY <2>4, <3>1 DEF Held, Phase
    <3>3. HasChild(k)' = TRUE
      <4>1. /\ Buildable(Key, Obj.spec)
            /\ children' = [children EXCEPT ![Child] = Rendered(Key, Obj.spec)]
        BY <2>8, <2>10, ChildrenEffect
      <4>2. children'[Child] # NoChild
        BY <1>0, <2>2, <4>1, RenderedHasItsShape, ItemAssumption
      <4> QED
        BY <2>6, <4>2 DEF HasChild
    <3>4. Lifecycle!Provision(k)
      BY <1>1, <2>7, <3>2, <3>3 DEF Lifecycle!Provision, phases, externals
    <3> QED
      BY <2>4, <3>4 DEF Lifecycle!LifecycleNext
  <2> QED
    BY <2>1, <2>9, <2>10
<1> QED
  BY <1>2, <1>3

LEMMA ItemLifecycleInit ==
  ASSUME StableTenants, ItemInit
  PROVE  Lifecycle!LifecycleInit
<1>1. mine \in Populations /\ mine \subseteq Keys
  BY ItemAssumption DEF ItemInit
<1>2. /\ \A k \in Alone : Phase(k) \in {"absent", "managed"}
      /\ \A k \in Alone : HasChild(k) => Phase(k) = "managed"
  <2>1. CASE /\ objects = [k \in Keys |-> NoObj]
             /\ children = [c \in ChildNames |-> NoChild]
    BY <2>1, ChildOfIsAName DEF Alone, Phase, HasChild
  <2>2. CASE \E k \in mine \cap Projects : \E spec \in Specs[k] :
               /\ objects = [x \in Keys |-> IF x = k THEN OldProject(k, spec) ELSE NoObj]
               /\ children = [c \in ChildNames |->
                    IF c = ChildOf(k, spec) THEN OldChild(spec) ELSE NoChild]
    <3>1. PICK k \in mine : \E spec \in Specs[k] :
            /\ objects = [x \in Keys |-> IF x = k THEN OldProject(k, spec) ELSE NoObj]
            /\ children = [c \in ChildNames |->
                 IF c = ChildOf(k, spec) THEN OldChild(spec) ELSE NoChild]
      BY <2>2
    <3>2. PICK spec \in Specs[k] :
            /\ objects = [x \in Keys |-> IF x = k THEN OldProject(k, spec) ELSE NoObj]
            /\ children = [c \in ChildNames |->
                 IF c = ChildOf(k, spec) THEN OldChild(spec) ELSE NoChild]
      BY <3>1
    <3>3. k \in Keys /\ Phase(k) = "managed"
      <4>1. OldProject(k, spec) # NoObj /\ OldProject(k, spec).finalizer
        BY <1>1, OldProjectIsGood, NoObjIsNoObject DEF GoodObject
      <4>2. ~OldProject(k, spec).deleting
        BY DEF OldProject, NewObject
      <4> QED
        BY <1>1, <3>2, <4>1, <4>2 DEF Phase
    <3>4. \A j \in Alone : j # k => Phase(j) = "absent" /\ ~HasChild(j)
      <4> SUFFICES ASSUME NEW j \in Alone, j # k
                   PROVE  Phase(j) = "absent" /\ ~HasChild(j)
        OBVIOUS
      <4>1. j \in Keys /\ ~SharesChild(j)
        BY DEF Alone
      <4>2. Phase(j) = "absent"
        BY <3>2, <4>1 DEF Phase
      <4>3. ASSUME j \in mine, NEW other \in Specs[j]
            PROVE  children[ChildOf(j, other)] = NoChild
        <5>1. ChildOf(j, other) # ChildOf(k, spec)
          BY <1>1, <4>1, <4>3 DEF SharesChild
        <5> QED
          BY <3>2, <4>1, <5>1, ChildOfIsAName
      <4> QED
        BY <4>2, <4>3 DEF HasChild
    <3> QED
      BY <3>3, <3>4
  <2> QED
    BY <2>1, <2>2 DEF ItemInit
<1>3. \A k \in Alone : HasChild(k) \in BOOLEAN
  BY DEF HasChild
<1>4. /\ phases \in [Alone -> {"absent", "managed"}]
      /\ externals \in [Alone -> BOOLEAN]
      /\ \A k \in Alone : externals[k] => phases[k] = "managed"
  BY <1>2, <1>3 DEF phases, externals
<1> QED
  BY <1>4 DEF Lifecycle!LifecycleInit, phases, externals

(* The CertIssuer and the ArgoProject controller implement the lifecycle of*)
(* a Catalog Item, for every resource whose child no other one names.      *)
THEOREM ItemsLiveTheLifecycle ==
  ASSUME StableTenants
  PROVE  ItemSpec => ItemsImplementLifecycle
<1> DEFINE Inv == ItemInv /\ ItemShapeInv
<1>1. ItemInit => Inv
  BY ItemInvInit, ItemShapeInvInit
<1>2. Inv /\ [ItemNext]_itemVars => Inv'
  BY ItemInvStep, ItemShapeInvStep
<1>3. ItemInit => Lifecycle!LifecycleInit
  BY ItemLifecycleInit
<1>4. Inv /\ [ItemNext]_itemVars => [Lifecycle!LifecycleNext]_(Lifecycle!lifecycleVars)
  <2> SUFFICES ASSUME Inv, [ItemNext]_itemVars
               PROVE  [Lifecycle!LifecycleNext]_(Lifecycle!lifecycleVars)
    OBVIOUS
  <2>1. CASE ItemUsers /\ UNCHANGED outside
    <3>1. RuntimeInv(ItemSteps, {NoLocal})
      BY DEF ItemInv, ItemTypeInv
    <3>2. UNCHANGED externals
      BY <2>1 DEF externals, HasChild, outside
    <3> QED
      BY <2>1, <3>1, <3>2, UserPhases, ItemPhaseStep DEF ItemUsers
  <2>2. CASE LocalStep /\ UNCHANGED outside
    BY <2>2, ItemLocalLifecycleStep DEF ItemShapeInv
  <2>3. CASE UNCHANGED objects
    BY <2>3, ChildLifecycleStep
  <2> QED
    BY <2>1, <2>2, <2>3, ItemChildStep DEF ItemShapeInv, ItemNext, Step, itemVars, runtimeVars,
      Sync, TakeKey, Skip, StartAdoption, StartTeardown, StartRender, Take, Restart, Resync,
      BecomeCalm
<1> QED
  BY <1>1, <1>2, <1>3, <1>4, PTL DEF ItemSpec, ItemsImplementLifecycle, Lifecycle!LifecycleSpec
=============================================================================
