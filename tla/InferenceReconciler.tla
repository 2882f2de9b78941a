------------------------- MODULE InferenceReconciler -------------------------
(***************************************************************************)
(* The operator's reconciliation of one InferenceService (operator.py      *)
(* reconcile_inference, refresh_inference_status; resources.py             *)
(* build_deployment, build_scaled_object, build_http_route): a handler     *)
(* that writes the children one API call at a time from a snapshot of the  *)
(* object, and a timer that refreshes status.phase from what it reads.     *)
(*                                                                         *)
(* People edit the object and Slack patches it (FleetCommand) at any       *)
(* moment.  Kopf, KEDA and the Deployment controller are external.  Kopf   *)
(* calls the handler with the object as it is then, retries it after any   *)
(* error but a PermanentError, calls it again for every object when the    *)
(* operator starts, and stores the spec it was called with as handled;     *)
(* observed stands for that and for status.observedGeneration.             *)
(***************************************************************************)
EXTENDS FleetCommand, Sequences, FiniteSets

CONSTANTS Manifests,     \* the specs that people apply
          MaxReplicas,   \* bound: replicas anyone asks for
          MaxEdits,      \* bound: specs stored after the first, and updates that
                         \* leave the spec as it is
          MaxFaults,     \* bound: crashes, API errors and failures of pods
          MaxScalings    \* bound: decisions of KEDA within the range it was given

\* sound: build_deployment accepts the spec (accelerator, init containers);
\* scaled, min and max: autoscaling; routed: gateway.enabled.
InferenceSpec ==
    [suspend : BOOLEAN, forceActive : BOOLEAN, replicas : 0..MaxReplicas,
     scaled : BOOLEAN, min : 0..MaxReplicas, max : 1..MaxReplicas,
     triggers : BOOLEAN, routed : BOOLEAN, sound : BOOLEAN]

ASSUME ConstantsAssumption ==
    /\ MaxReplicas \in Nat \ {0} /\ MaxEdits \in Nat
    /\ MaxFaults \in Nat /\ MaxScalings \in Nat
    /\ Manifests \subseteq InferenceSpec

VARIABLES
    stored,      \* the specs the object has had; its generation is their number
    observed,    \* the last generation handled
    phase,       \* status.phase
    deployed,    \* the Deployment exists
    replicas,    \* its spec.replicas
    ready,       \* its status.readyReplicas
    service,     \* the Service exists
    scaler,      \* the ScaledObject: {} or {[min, max]}
    route,       \* the HTTPRoute exists
    keda,        \* KEDA is installed
    pc,          \* the next call of the handler
    body,        \* the generation the handler was called with
    due,         \* the object has to be handled though its spec has not changed
    timer,       \* idle, reading, or the phase it is about to write
    repeats, faults, scalings  \* counters for the bounds

children == <<deployed, replicas, service, scaler, route>>
handlers == <<pc, body, due>>
bounds == <<repeats, faults, scalings>>
vars == <<stored, observed, phase, children, ready, keda, handlers, timer, bounds>>

Phases == {"none", "Reconciling", "Suspended", "Invalid", "Ready", "Scaling"}
Calls  == {"deployment", "service", "scaler", "route"}
Labels == Calls \cup {"down", "idle", "applied", "invalid"}

Generation == Len(stored)
Current    == stored[Generation]
Fault == faults < MaxFaults /\ faults' = faults + 1

(***************************************************************************)
(* The builders of resources.py.                                           *)
(***************************************************************************)
\* Mutant: the replicas of a suspended service are those of its spec.
ReplicasAwake(s) == IF s.scaled /\ s.min > s.replicas THEN s.min ELSE s.replicas

ReplicasOf(s) ==
    IF s.suspend THEN 0
    ELSE IF s.scaled /\ s.min > s.replicas THEN s.min ELSE s.replicas

\* Mutant: forceActive is not looked at.
FloorOfSpec(s) == s.min

Floor(s) == IF s.forceActive THEN 1 ELSE s.min

\* Mutant: a suspended service keeps its ScaledObject.
WantsScalerAwake(s) == s.scaled

WantsScaler(s) == s.scaled /\ ~s.suspend

ScalerOf(s) == IF WantsScaler(s) THEN {[min |-> Floor(s), max |-> s.max]} ELSE {}

\* Mutant: the triggers are checked before anything else.
LacksTriggersEver(s) == s.scaled /\ ~s.triggers

\* build_scaled_object raises InvalidSpec.
LacksTriggers(s) == s.scaled /\ ~s.suspend /\ ~s.triggers

\* The specs that are applied without an InvalidSpec.
Accepted(s) == s.sound /\ (s.scaled /\ ~s.suspend => s.triggers)

Init ==
    /\ \E m \in Manifests : stored = <<m>>
    /\ observed = 0 /\ phase = "none"
    /\ deployed = FALSE /\ replicas = 0 /\ ready = 0
    /\ service = FALSE /\ scaler = {} /\ route = FALSE
    /\ keda \in BOOLEAN
    /\ pc = "down" /\ body = 0 /\ due = FALSE /\ timer = "idle"
    /\ repeats = 0 /\ faults = 0 /\ scalings = 0

(***************************************************************************)
(* What people and Slack ask for.                                          *)
(***************************************************************************)
Store(s) ==
    /\ Generation + repeats <= MaxEdits /\ s # Current
    /\ stored' = Append(stored, s)
    /\ UNCHANGED <<observed, phase, children, ready, keda, handlers, timer, bounds>>

Edit == \E m \in Manifests : Store(m)

\* FleetClient.apply for an inference command.
Command(verb) ==
    LET patch == Fields([verb |-> verb, kind |-> "inference", name |-> "m", confirmed |-> TRUE])
    IN  Store([Current EXCEPT !.suspend = patch["suspend"],
                              !.forceActive = patch["forceActive"]])

\* The same command once more changes nothing but the audit annotations, which
\* is an update event all the same.
Annotate ==
    /\ pc # "down" /\ ~due /\ Generation + repeats <= MaxEdits
    /\ due' = TRUE /\ repeats' = repeats + 1
    /\ UNCHANGED <<stored, observed, phase, children, ready, keda, pc, body, timer,
                   faults, scalings>>

(***************************************************************************)
(* The handler.                                                            *)
(***************************************************************************)
Start ==
    /\ pc = "down"
    /\ pc' = "idle"
    /\ due' = TRUE
    /\ UNCHANGED <<stored, observed, phase, children, ready, keda, body, timer, bounds>>

Crash ==
    /\ pc # "down" /\ Fault
    /\ pc' = "down"
    /\ due' = FALSE
    /\ timer' = "idle"
    /\ UNCHANGED <<stored, observed, phase, children, ready, keda, body, repeats, scalings>>

\* Mutant: the handler is registered for create and resume but not for update.
PendingOnResume == due

\* on.create, on.update and on.resume.
Pending == due \/ observed # Generation

Pickup ==
    /\ pc = "idle" /\ Pending
    /\ pc' = "deployment"
    /\ body' = Generation
    /\ due' = FALSE
    /\ UNCHANGED <<stored, observed, phase, children, ready, keda, timer, bounds>>

BodySpec == stored[body]

\* The order of the calls.
After == [deployment |-> "service", service |-> "scaler",
          scaler |-> "route", route |-> "applied"]

\* What the calls write: creates what is absent, patches what exists, deletes
\* what is not wanted.
Write(call, s) ==
    \/ /\ call = "deployment"
       /\ deployed' = TRUE /\ replicas' = ReplicasOf(s)
       /\ UNCHANGED <<service, scaler, route>>
    \/ /\ call = "service"
       /\ service' = TRUE
       /\ UNCHANGED <<deployed, replicas, scaler, route>>
    \/ /\ call = "scaler"
       /\ scaler' = ScalerOf(s)
       /\ UNCHANGED <<deployed, replicas, service, route>>
    \/ /\ call = "route"
       /\ route' = s.routed
       /\ UNCHANGED <<deployed, replicas, service, scaler>>

\* The builder of a call raises InvalidSpec.
Invalid(call, s) == \/ call = "deployment" /\ ~s.sound
                    \/ call = "scaler" /\ LacksTriggers(s)

\* The ScaledObject cannot be written without KEDA; deleting it can.
Uninstalled(call, s) == call = "scaler" /\ WantsScaler(s) /\ ~keda

Apply ==
    /\ pc \in Calls
    /\ ~Invalid(pc, BodySpec) /\ ~Uninstalled(pc, BodySpec)
    /\ Write(pc, BodySpec)
    /\ pc' = After[pc]
    /\ UNCHANGED <<stored, observed, phase, ready, keda, body, due, timer, bounds>>

Refuse ==
    /\ pc \in Calls /\ Invalid(pc, BodySpec)
    /\ pc' = "invalid"
    /\ UNCHANGED <<stored, observed, phase, children, ready, keda, body, due, timer, bounds>>

\* TemporaryError, or an ApiException: kopf calls the handler again.
Retry ==
    /\ pc' = "idle"
    /\ due' = TRUE
    /\ UNCHANGED <<stored, observed, phase, ready, keda, body, timer, repeats, scalings>>

AwaitKeda ==
    /\ pc \in Calls
    /\ ~Invalid(pc, BodySpec) /\ Uninstalled(pc, BodySpec)
    /\ Retry
    /\ UNCHANGED <<children, faults>>

\* A call fails; what it asked for may have been done all the same.
ApiError ==
    /\ pc \in Calls
    /\ ~Invalid(pc, BodySpec) /\ ~Uninstalled(pc, BodySpec)
    /\ Fault
    /\ Retry
    /\ Write(pc, BodySpec) \/ UNCHANGED children

\* Mutant: the status names the generation of the moment.
ObservesLatest == Generation

Observes == body

\* The handler ends, with a PermanentError or without, and kopf writes what it
\* has put into the patch.
Finish ==
    /\ pc \in {"applied", "invalid"}
    /\ observed' = Observes
    /\ phase' = IF pc = "invalid" THEN "Invalid"
                ELSE IF BodySpec.suspend THEN "Suspended" ELSE "Reconciling"
    /\ pc' = "idle"
    /\ UNCHANGED <<stored, children, ready, keda, body, due, timer, bounds>>

Handle == Pickup \/ Apply \/ Refuse \/ AwaitKeda \/ Finish

(***************************************************************************)
(* The timer: refresh_inference_status, concurrent with the handler.       *)
(***************************************************************************)
\* Mutant: the timer always reads the Deployment.
FirstLookReads == "reading"

FirstLook == IF Current.suspend THEN "Suspended" ELSE "reading"

TimerLook ==
    /\ timer = "idle" /\ pc # "down"
    /\ timer' = FirstLook
    /\ UNCHANGED <<stored, observed, phase, children, ready, keda, handlers, bounds>>

TimerRead ==
    /\ timer = "reading"
    /\ timer' = IF ~deployed THEN "Reconciling"
                ELSE IF replicas > 0 /\ ready = replicas THEN "Ready" ELSE "Scaling"
    /\ UNCHANGED <<stored, observed, phase, children, ready, keda, handlers, bounds>>

TimerPatch ==
    /\ timer \in Phases
    /\ phase' = timer
    /\ timer' = "idle"
    /\ UNCHANGED <<stored, observed, children, ready, keda, handlers, bounds>>

Refresh == TimerLook \/ TimerRead \/ TimerPatch

(***************************************************************************)
(* KEDA and the Deployment controller.                                     *)
(***************************************************************************)
Scale(inside) ==
    /\ deployed
    /\ \E k \in scaler : \E n \in k.min..k.max :
          /\ inside = (replicas \in k.min..k.max)
          /\ n # replicas /\ replicas' = n
    /\ UNCHANGED <<stored, observed, phase, deployed, ready, service, scaler, route, keda,
                   handlers, timer, repeats, faults>>

\* The triggers ask for another number of replicas.
KedaScales == scalings < MaxScalings /\ scalings' = scalings + 1 /\ Scale(TRUE)

\* KEDA and its HPA bring the replicas into the range of the ScaledObject.
KedaEnforces == Scale(FALSE) /\ UNCHANGED scalings

InstallKeda ==
    /\ ~keda /\ keda' = TRUE
    /\ UNCHANGED <<stored, observed, phase, children, ready, handlers, timer, bounds>>

PodsFollow ==
    /\ ready # replicas
    /\ ready' = IF ready < replicas THEN ready + 1 ELSE ready - 1
    /\ UNCHANGED <<stored, observed, phase, children, keda, handlers, timer, bounds>>

PodFails ==
    /\ ready > 0 /\ Fault
    /\ ready' = ready - 1
    /\ UNCHANGED <<stored, observed, phase, children, keda, handlers, timer, repeats, scalings>>

Operator == Start \/ Crash \/ Handle \/ ApiError \/ Refresh

Cluster == KedaScales \/ KedaEnforces \/ InstallKeda \/ PodsFollow \/ PodFails

Next == \/ Edit \/ Annotate
        \/ \E verb \in {"wake", "auto", "sleep"} : Command(verb)
        \/ Operator
        \/ Cluster

Spec == Init /\ [][Next]_vars

(***************************************************************************)
(* Fairness: the Deployment restarts the operator, kopf calls the handler  *)
(* and the timer, KEDA keeps the replicas in range and pods come up.       *)
(***************************************************************************)
FairSpec ==
    /\ Spec
    /\ WF_vars(Start) /\ WF_vars(Handle) /\ WF_vars(Refresh)
    /\ WF_vars(KedaEnforces) /\ WF_vars(PodsFollow)

-----------------------------------------------------------------------------
(***************************************************************************)
(* Properties.                                                             *)
(***************************************************************************)
\* Every variable keeps its type; no generation is handled before it is stored.
TypeOK ==
    /\ stored \in Seq(InferenceSpec) /\ Generation > 0
    /\ observed \in 0..Generation /\ phase \in Phases
    /\ deployed \in BOOLEAN /\ service \in BOOLEAN
    /\ route \in BOOLEAN /\ keda \in BOOLEAN
    /\ replicas \in 0..MaxReplicas /\ ready \in Nat
    /\ scaler \subseteq [min : Nat, max : 1..MaxReplicas]
    /\ pc \in Labels /\ due \in BOOLEAN
    /\ body \in 0..Generation /\ (pc \notin {"down", "idle"} => body > 0)
    /\ timer \in (Phases \ {"none", "Invalid"}) \cup {"idle", "reading"}
    /\ repeats \in 0..MaxEdits /\ faults \in 0..MaxFaults /\ scalings \in 0..MaxScalings

\* The children that do not depend on KEDA are those of spec s: a ScaledObject
\* exactly for an autoscaled service that is awake, with a floor under a forced
\* one, a route exactly when it is asked for.
Matches(s) ==
    /\ deployed /\ service
    /\ (scaler # {}) = (s.scaled /\ ~s.suspend)
    /\ \A k \in scaler : /\ k.max = s.max
                         /\ s.forceActive => k.min >= 1
                         /\ ~s.forceActive => k.min = s.min
    /\ route = s.routed

\* When status.observedGeneration is the generation of the object, and its spec
\* can be applied, the children are those of the spec: whatever edits raced the
\* handler, whichever call failed, whenever the operator was restarted.
ObservedIsApplied ==
    (observed = Generation /\ Accepted(Current)) => Matches(Current)

\* What carries ObservedIsApplied: the handler never goes back to an older
\* generation, and what it has written so far is what its snapshot asks for.
HandlerInOrder ==
    /\ pc \notin {"down", "idle"} => observed <= body
    /\ pc \in {"service", "scaler", "route", "applied"} => deployed /\ BodySpec.sound
    /\ pc \in {"scaler", "route", "applied"} => service
    /\ pc \in {"route", "applied"} => scaler = ScalerOf(BodySpec) /\ ~LacksTriggers(BodySpec)
    /\ pc = "applied" => route = BodySpec.routed
    /\ pc = "invalid" => ~Accepted(BodySpec)

\* Phase Invalid is only said of a generation that cannot be applied.
InvalidIsTrue == phase = "Invalid" => observed > 0 /\ ~Accepted(stored[observed])

\* A route, a Service or a ScaledObject never stands without what it points to.
ChildrenInOrder == /\ route => service
                   /\ service \/ scaler # {} => deployed

\* The inductive invariant.
ReconcilerInv ==
    /\ TypeOK /\ HandlerInOrder
    /\ ObservedIsApplied /\ InvalidIsTrue /\ ChildrenInOrder

\* Once a suspended service has come to rest at zero replicas, no restart of the
\* operator, retry, timer or KEDA wakes it: only another spec does.
Asleep == /\ observed = Generation /\ Current.suspend /\ Accepted(Current)
          /\ replicas = 0

SleepIsStable == [][Asleep /\ stored' = stored => replicas' = 0]_vars

\* The handler keeps the promise of Reconciliation, of every generation that it
\* observes and not only of the newest; what is refused cannot be met.
Met == {g \in 1..Generation : Accepted(stored[g]) => Matches(stored[g])}

Promised == INSTANCE Reconciliation WITH generation <- Generation, met <- Met

ImplementsReconciliation == Promised!RSpec

\* Every edit is handled in the end, unless it waits for KEDA for ever.
SpecIsObserved == <>[]~keda \/ []<>(observed = Generation)

\* The timer makes phase follow suspend in the end, whatever it wrote before
\* from what it had read before.
PhaseFollowsIntent == []<>((phase = "Suspended") = Current.suspend)

\* A service that is forced active and autoscaled comes up and stays up, from
\* whatever number of replicas it had when it was woken.
Forced == Accepted(Current) /\ Current.forceActive /\ ~Current.suspend /\ Current.scaled

WokenComesUp == <>[](Forced /\ keda => replicas >= 1 /\ ready >= 1)
=============================================================================
