----------------------- MODULE InferenceReconcilerProofs -----------------------
(***************************************************************************)
(* Proofs about InferenceReconciler, for all manifests and all bounds.     *)
(* ReconcilerInv is inductive.  The steps are grouped by what they write:  *)
(* a new spec, a call of the handler, the end of the handler, the phase    *)
(* and the replicas.                                                       *)
(***************************************************************************)
EXTENDS InferenceReconciler, TLAPS

\* What the builders return is of the right type: replicas within the bound and
\* at most one ScaledObject, whose floor is a number.
LEMMA BuilderTypes ==
    ASSUME NEW s \in InferenceSpec
    PROVE  /\ ReplicasOf(s) \in 0..MaxReplicas
           /\ ScalerOf(s) \subseteq [min : Nat, max : 1..MaxReplicas]
           /\ s.routed \in BOOLEAN
<1>1. ReplicasOf(s) \in 0..MaxReplicas
  BY ConstantsAssumption DEF ReplicasOf, InferenceSpec
<1>2. Floor(s) \in Nat
  BY ConstantsAssumption DEF Floor, InferenceSpec
<1>3. ScalerOf(s) \subseteq [min : Nat, max : 1..MaxReplicas]
  BY <1>2 DEF ScalerOf, InferenceSpec
<1>4. QED
  BY <1>1, <1>3 DEF InferenceSpec

\* The ScaledObject that is built is the one Matches asks for.
LEMMA ScalerMatches ==
    ASSUME NEW s \in InferenceSpec
    PROVE  /\ (ScalerOf(s) # {}) = (s.scaled /\ ~s.suspend)
           /\ \A k \in ScalerOf(s) : /\ k.max = s.max
                                     /\ s.forceActive => k.min >= 1
                                     /\ ~s.forceActive => k.min = s.min
<1>1. s.suspend \in BOOLEAN /\ s.forceActive \in BOOLEAN /\ s.scaled \in BOOLEAN
  BY DEF InferenceSpec
<1>2. CASE s.scaled /\ ~s.suspend
  <2>1. ScalerOf(s) = {[min |-> Floor(s), max |-> s.max]}
    BY <1>2 DEF ScalerOf, WantsScaler
  <2>2. /\ s.forceActive => Floor(s) = 1
        /\ ~s.forceActive => Floor(s) = s.min
    BY DEF Floor
  <2>3. QED
    BY <1>2, <2>1, <2>2
<1>3. CASE ~(s.scaled /\ ~s.suspend)
  BY <1>1, <1>3 DEF ScalerOf, WantsScaler
<1>4. QED
  BY <1>2, <1>3

\* A spec of which suspend and forceActive are replaced is a spec.
LEMMA CommandedSpec ==
    ASSUME NEW s \in InferenceSpec, NEW verb \in {"wake", "auto", "sleep"}
    PROVE  LET patch == Fields([verb |-> verb, kind |-> "inference", name |-> "m",
                                confirmed |-> TRUE])
           IN  [s EXCEPT !.suspend = patch["suspend"],
                         !.forceActive = patch["forceActive"]] \in InferenceSpec
<1> DEFINE c == [verb |-> verb, kind |-> "inference", name |-> "m", confirmed |-> TRUE]
<1>1. /\ Fields(c)["suspend"] = (verb = "sleep")
      /\ Fields(c)["forceActive"] = (verb = "wake")
  BY DEF Fields
<1>2. Fields(c)["suspend"] \in BOOLEAN /\ Fields(c)["forceActive"] \in BOOLEAN
  BY <1>1
<1> HIDE DEF c
<1>3. [s EXCEPT !.suspend = Fields(c)["suspend"],
                !.forceActive = Fields(c)["forceActive"]] \in InferenceSpec
  BY <1>2 DEF InferenceSpec
<1>4. QED
  BY <1>3 DEF c

\* The invariant holds initially.
LEMMA InitReconcilerInv == Init => ReconcilerInv
<1> SUFFICES ASSUME Init PROVE ReconcilerInv
  OBVIOUS
<1> USE ConstantsAssumption
<1>1. PICK m \in Manifests : stored = <<m>>
  BY DEF Init
<1>2. stored \in Seq(InferenceSpec) /\ Generation = 1
  BY <1>1 DEF Generation
<1>3. TypeOK
  <2>1. /\ replicas \in 0..MaxReplicas /\ ready \in Nat
        /\ repeats \in 0..MaxEdits /\ faults \in 0..MaxFaults
        /\ scalings \in 0..MaxScalings
        /\ observed \in 0..Generation /\ body \in 0..Generation
    BY <1>2 DEF Init
  <2>2. /\ phase \in Phases /\ pc \in Labels /\ timer \in {"idle", "reading"}
        /\ deployed \in BOOLEAN /\ service \in BOOLEAN /\ route \in BOOLEAN
        /\ keda \in BOOLEAN /\ due \in BOOLEAN
        /\ scaler \subseteq [min : Nat, max : 1..MaxReplicas]
    BY DEF Init, Phases, Labels
  <2>3. pc = "down"
    BY DEF Init
  <2>4. QED
    BY <1>2, <2>1, <2>2, <2>3 DEF TypeOK
<1>4. HandlerInOrder /\ ObservedIsApplied /\ InvalidIsTrue /\ ChildrenInOrder
  BY <1>2 DEF Init, HandlerInOrder, ObservedIsApplied, InvalidIsTrue, ChildrenInOrder
<1>5. QED
  BY <1>3, <1>4 DEF ReconcilerInv

\* A fault stays within its bound.
LEMMA FaultBound == TypeOK /\ Fault => faults' \in 0..MaxFaults
  BY ConstantsAssumption DEF TypeOK, Fault

\* Storing a spec preserves it: the handled generation is no longer the last.
LEMMA StoreStep ==
    ASSUME ReconcilerInv, NEW s \in InferenceSpec, Store(s)
    PROVE  ReconcilerInv'
<1> USE DEF ReconcilerInv
<1>1. /\ stored' \in Seq(InferenceSpec) /\ Generation' = Generation + 1
      /\ Generation \in Nat
      /\ \A g \in 1..Generation : stored'[g] = stored[g]
  BY DEF Store, TypeOK, Generation
<1>2. TypeOK'
  BY <1>1 DEF Store, TypeOK, children, handlers, bounds
<1>3. body > 0 => BodySpec' = BodySpec
  <2>1. body' = body
    BY DEF Store, handlers
  <2>2. body \in 0..Generation
    BY DEF TypeOK
  <2>3. body > 0 => body \in 1..Generation
    BY <1>1, <2>2
  <2>4. QED
    BY <1>1, <2>1, <2>3 DEF BodySpec
<1>4. HandlerInOrder'
  BY <1>3 DEF HandlerInOrder, Store, children, handlers, TypeOK
<1>5. ObservedIsApplied'
  BY <1>1 DEF ObservedIsApplied, Store, TypeOK
<1>6. InvalidIsTrue'
  <2>1. observed' = observed /\ phase' = phase /\ observed \in 0..Generation
    BY DEF Store, TypeOK
  <2>2. observed > 0 => stored'[observed] = stored[observed]
    BY <1>1, <2>1
  <2>3. QED
    BY <2>1, <2>2 DEF InvalidIsTrue
<1>7. ChildrenInOrder'
  BY DEF ChildrenInOrder, Store, children
<1>8. QED
  BY <1>2, <1>4, <1>5, <1>6, <1>7

\* Steps that leave the specs, the children and the status alone, and do not
\* move the handler forward, preserve it.
LEMMA QuietStep ==
    ASSUME ReconcilerInv, TypeOK',
           UNCHANGED <<stored, observed, phase, children>>,
           \/ UNCHANGED <<pc, body>>
           \/ pc' \in {"idle", "down"}
           \/ pc' = "deployment" /\ body' = Generation
           \/ pc' = "invalid" /\ UNCHANGED body /\ ~Accepted(BodySpec) /\ pc \in Calls
    PROVE  ReconcilerInv'
<1> USE DEF ReconcilerInv
<1>1. ObservedIsApplied' /\ InvalidIsTrue' /\ ChildrenInOrder'
  BY DEF ObservedIsApplied, InvalidIsTrue, ChildrenInOrder, children, Generation, Current,
         Matches
<1>2. HandlerInOrder'
  <2>1. /\ UNCHANGED <<deployed, service, scaler, route, observed, stored>>
        /\ observed <= Generation
    BY DEF children, TypeOK, Generation
  <2>2. CASE UNCHANGED <<pc, body>> \/ pc' \in {"idle", "down"}
    BY <2>1, <2>2 DEF HandlerInOrder, BodySpec
  <2>3. CASE pc' = "deployment" /\ body' = Generation
    BY <2>1, <2>3 DEF HandlerInOrder
  <2>4. CASE pc' = "invalid" /\ UNCHANGED body /\ ~Accepted(BodySpec) /\ pc \in Calls
    BY <2>1, <2>4 DEF HandlerInOrder, BodySpec, Calls
  <2> QED BY <2>2, <2>3, <2>4
<1>3. QED
  BY <1>1, <1>2

\* What a call writes, in a state where the invariant holds, preserves the
\* parts of it that speak of the children only.
LEMMA WriteStep ==
    ASSUME ReconcilerInv, pc \in Calls, Write(pc, BodySpec),
           ~Invalid(pc, BodySpec), UNCHANGED <<stored, observed, phase>>
    PROVE  /\ deployed' \in BOOLEAN /\ service' \in BOOLEAN /\ route' \in BOOLEAN
           /\ replicas' \in 0..MaxReplicas
           /\ scaler' \subseteq [min : Nat, max : 1..MaxReplicas]
           /\ ObservedIsApplied' /\ InvalidIsTrue' /\ ChildrenInOrder'
<1> USE DEF ReconcilerInv
<1>1. BodySpec \in InferenceSpec
  BY DEF BodySpec, TypeOK, Calls, Generation
<1>2. /\ deployed' \in BOOLEAN /\ service' \in BOOLEAN /\ route' \in BOOLEAN
      /\ replicas' \in 0..MaxReplicas
      /\ scaler' \subseteq [min : Nat, max : 1..MaxReplicas]
  BY <1>1, BuilderTypes DEF Write, TypeOK
<1>3. ChildrenInOrder'
  BY DEF ChildrenInOrder, Write, HandlerInOrder, Calls
<1>4. InvalidIsTrue'
  BY DEF InvalidIsTrue
<1>5. ObservedIsApplied'
  <2> SUFFICES ASSUME observed = Generation, Accepted(Current)
               PROVE  Matches(Current)'
    BY DEF ObservedIsApplied, Generation, Current
  <2>1. body = Generation /\ BodySpec = Current
    BY DEF HandlerInOrder, BodySpec, Current, TypeOK, Calls
  <2>2. Matches(Current)
    BY DEF ObservedIsApplied
  <2>3. CASE pc = "scaler"
    <3>1. scaler' = ScalerOf(Current)
      BY <2>1, <2>3 DEF Write
    <3>2. /\ (scaler' # {}) = (Current.scaled /\ ~Current.suspend)
          /\ \A k \in scaler' : /\ k.max = Current.max
                                /\ Current.forceActive => k.min >= 1
                                /\ ~Current.forceActive => k.min = Current.min
      BY <1>1, <2>1, <3>1, ScalerMatches
    <3>3. UNCHANGED <<deployed, service, route>>
      BY <2>3 DEF Write
    <3>4. QED
      BY <2>2, <3>2, <3>3 DEF Matches, Current, Generation
  <2>4. CASE pc # "scaler"
    BY <2>1, <2>2, <2>4 DEF Matches, Write, Current, Generation
  <2>5. QED
    BY <2>3, <2>4
<1>6. QED
  BY <1>2, <1>3, <1>4, <1>5

\* Apply moves to the next call with what it has written.
LEMMA ApplyStep ==
    ASSUME ReconcilerInv, Apply
    PROVE  ReconcilerInv'
<1> USE DEF ReconcilerInv
<1>1. /\ deployed' \in BOOLEAN /\ service' \in BOOLEAN /\ route' \in BOOLEAN
      /\ replicas' \in 0..MaxReplicas
      /\ scaler' \subseteq [min : Nat, max : 1..MaxReplicas]
      /\ ObservedIsApplied' /\ InvalidIsTrue' /\ ChildrenInOrder'
  BY WriteStep DEF Apply
<1>2. /\ pc = "deployment" => pc' = "service"
      /\ pc = "service" => pc' = "scaler"
      /\ pc = "scaler" => pc' = "route"
      /\ pc = "route" => pc' = "applied"
      /\ pc \in Calls
  BY DEF Apply, After
<1>3. TypeOK'
  BY <1>1, <1>2 DEF TypeOK, Apply, Labels, Calls, bounds, Generation
<1>4. HandlerInOrder'
  <2>1. UNCHANGED <<stored, observed, body>> /\ BodySpec' = BodySpec
    BY DEF Apply, BodySpec
  <2>2. CASE pc = "deployment"
    BY <1>2, <2>1, <2>2 DEF HandlerInOrder, Apply, Write, Invalid
  <2>3. CASE pc = "service"
    BY <1>2, <2>1, <2>3 DEF HandlerInOrder, Apply, Write
  <2>4. CASE pc = "scaler"
    <3>1. scaler' = ScalerOf(BodySpec) /\ ~LacksTriggers(BodySpec)
      BY <2>4 DEF Apply, Write, Invalid
    <3>2. ScalerOf(BodySpec)' = ScalerOf(BodySpec)
          /\ LacksTriggers(BodySpec)' = LacksTriggers(BodySpec)
      BY <2>1 DEF ScalerOf, WantsScaler, Floor, LacksTriggers
    <3>3. UNCHANGED <<deployed, service, route>>
      BY <2>4 DEF Apply, Write
    <3>4. QED
      BY <1>2, <2>1, <2>4, <3>1, <3>2, <3>3 DEF HandlerInOrder
  <2>5. CASE pc = "route"
    <3>1. route' = BodySpec.routed /\ UNCHANGED <<deployed, service, scaler>>
      BY <2>5 DEF Apply, Write
    <3>2. ScalerOf(BodySpec)' = ScalerOf(BodySpec)
          /\ LacksTriggers(BodySpec)' = LacksTriggers(BodySpec)
      BY <2>1 DEF ScalerOf, WantsScaler, Floor, LacksTriggers
    <3>3. QED
      BY <1>2, <2>1, <2>5, <3>1, <3>2 DEF HandlerInOrder
  <2>6. QED
    BY <1>2, <2>2, <2>3, <2>4, <2>5 DEF Calls
<1>5. QED
  BY <1>1, <1>3, <1>4

\* Finish makes the snapshot the handled generation.
LEMMA FinishStep ==
    ASSUME ReconcilerInv, Finish
    PROVE  ReconcilerInv'
<1> USE DEF ReconcilerInv
<1>1. body \in 1..Generation /\ observed' = body /\ pc \in {"applied", "invalid"}
  BY DEF Finish, Observes, TypeOK, Generation
<1>2. TypeOK'
  BY <1>1 DEF Finish, TypeOK, Labels, Phases, children, bounds, Generation
<1>3. HandlerInOrder'
  BY DEF Finish, HandlerInOrder
<1>4. InvalidIsTrue'
  <2>1. pc # "invalid" => phase' # "Invalid"
    BY DEF Finish
  <2>2. pc = "invalid" => ~Accepted(stored[body])
    BY DEF HandlerInOrder, BodySpec
  <2>3. stored' = stored
    BY DEF Finish
  <2>4. QED
    BY <1>1, <2>1, <2>2, <2>3 DEF InvalidIsTrue
<1>5. ObservedIsApplied'
  <2> SUFFICES ASSUME body = Generation, Accepted(Current) PROVE Matches(Current)'
    BY <1>1 DEF ObservedIsApplied, Generation, Current, Finish
  <2>1. BodySpec = Current /\ Current \in InferenceSpec
    BY <1>1 DEF BodySpec, Current, TypeOK, Generation
  <2>2. pc = "applied"
    BY <1>1, <2>1 DEF HandlerInOrder
  <2>3. Matches(Current)
    <3>1. /\ deployed /\ service /\ route = Current.routed
          /\ scaler = ScalerOf(Current)
      BY <2>1, <2>2 DEF HandlerInOrder
    <3>2. QED
      BY <2>1, <3>1, ScalerMatches DEF Matches
  <2>4. QED
    BY <2>3 DEF Matches, Finish, children, Current, Generation
<1>6. ChildrenInOrder'
  BY DEF ChildrenInOrder, Finish, children
<1>7. QED
  BY <1>2, <1>3, <1>4, <1>5, <1>6

\* KEDA changes the replicas only, and only of a Deployment it has a range for.
LEMMA ScaleStep ==
    ASSUME ReconcilerInv, KedaScales \/ KedaEnforces
    PROVE  ReconcilerInv'
<1> USE DEF ReconcilerInv
<1>1. PICK inside \in BOOLEAN : Scale(inside)
  BY DEF KedaScales, KedaEnforces
<1>2. replicas' \in 0..MaxReplicas
  BY <1>1, ConstantsAssumption DEF Scale, TypeOK
<1>3. scalings' \in 0..MaxScalings
  <2>1. scalings \in 0..MaxScalings /\ MaxScalings \in Nat
    BY ConstantsAssumption DEF TypeOK
  <2>2. scalings' = scalings \/ (scalings < MaxScalings /\ scalings' = scalings + 1)
    BY DEF KedaScales, KedaEnforces
  <2>3. QED
    BY <2>1, <2>2
<1>4. TypeOK'
  BY <1>1, <1>2, <1>3 DEF Scale, TypeOK, handlers, Generation
<1>5. HandlerInOrder'
  BY <1>1 DEF Scale, HandlerInOrder, handlers, BodySpec
<1>6. ObservedIsApplied' /\ InvalidIsTrue' /\ ChildrenInOrder'
  BY <1>1 DEF Scale, ObservedIsApplied, InvalidIsTrue, ChildrenInOrder, Generation, Current,
              Matches
<1>7. QED
  BY <1>4, <1>5, <1>6

\* Only the status changes: the timer never writes Invalid.
LEMMA PatchStep ==
    ASSUME ReconcilerInv, TimerPatch
    PROVE  ReconcilerInv'
<1> USE DEF ReconcilerInv
<1>1. TypeOK'
  BY DEF TypeOK, TimerPatch, children, handlers, bounds, Generation
<1>2. phase' # "Invalid"
  BY DEF TypeOK, TimerPatch, Phases
<1>3. HandlerInOrder' /\ ChildrenInOrder'
  BY DEF TimerPatch, HandlerInOrder, ChildrenInOrder, children, handlers, BodySpec
<1>4. ObservedIsApplied'
  BY DEF TimerPatch, ObservedIsApplied, children, Generation, Current, Matches
<1>5. QED
  BY <1>1, <1>2, <1>3, <1>4 DEF InvalidIsTrue

\* Every step preserves the invariant.
LEMMA NextReconcilerInv == ReconcilerInv /\ [Next]_vars => ReconcilerInv'
<1> SUFFICES ASSUME ReconcilerInv, [Next]_vars PROVE ReconcilerInv'
  OBVIOUS
<1> USE DEF ReconcilerInv
<1>0. Current \in InferenceSpec
  BY DEF TypeOK, Current, Generation
<1>1. CASE Edit
  BY <1>1, StoreStep, ConstantsAssumption DEF Edit
<1>2. ASSUME NEW verb \in {"wake", "auto", "sleep"}, Command(verb)
      PROVE  ReconcilerInv'
  BY <1>0, <1>2, CommandedSpec, StoreStep DEF Command
<1>3. CASE Annotate
  <2>1. /\ due' = TRUE /\ repeats' = repeats + 1
        /\ Generation > 0 /\ Generation + repeats <= MaxEdits
        /\ UNCHANGED <<stored, observed, phase, children, ready, keda, pc, body, timer,
                       faults, scalings>>
    BY <1>3 DEF Annotate, TypeOK
  <2>2. repeats' \in 0..MaxEdits
    BY <2>1, ConstantsAssumption DEF TypeOK, Generation
  <2>3. TypeOK'
    BY <2>1, <2>2 DEF TypeOK, children, Generation
  <2>4. QED
    BY <1>3, <2>3, QuietStep DEF Annotate
<1>4. CASE Start
  <2>1. TypeOK'
    BY <1>4 DEF Start, TypeOK, Labels, children, bounds, Generation
  <2>2. QED
    BY <1>4, <2>1, QuietStep DEF Start
<1>5. CASE Crash
  <2>1. faults' \in 0..MaxFaults
    BY <1>5, FaultBound DEF Crash
  <2>2. /\ pc' = "down" /\ due' = FALSE /\ timer' = "idle"
        /\ UNCHANGED <<stored, observed, phase, children, ready, keda, body, repeats, scalings>>
    BY <1>5 DEF Crash
  <2>3. TypeOK'
    BY <2>1, <2>2 DEF TypeOK, Labels, children, Generation
  <2>4. QED
    BY <2>2, <2>3, QuietStep
<1>6. CASE Pickup
  <2>1. TypeOK'
    <3>1. /\ pc' = "deployment" /\ due' = FALSE /\ body' = Generation
          /\ UNCHANGED <<stored, observed, phase, children, ready, keda, timer, bounds>>
      BY <1>6 DEF Pickup
    <3>2. Generation' = Generation /\ Generation \in Nat /\ Generation > 0
      BY <3>1 DEF Generation, TypeOK
    <3>3. body' \in 0..Generation' /\ body' > 0
      BY <3>1, <3>2
    <3>4. pc' \in Labels
      BY <3>1 DEF Labels, Calls
    <3>5. QED
      BY <3>1, <3>2, <3>3, <3>4 DEF TypeOK, children, bounds
  <2>2. QED
    BY <1>6, <2>1, QuietStep DEF Pickup
<1>7. CASE Apply
  BY <1>7, ApplyStep
<1>8. CASE Refuse
  <2>1. TypeOK'
    BY <1>8 DEF Refuse, TypeOK, Labels, Calls, children, bounds, Generation
  <2>2. ~Accepted(BodySpec)
    BY <1>8 DEF Refuse, Invalid, Accepted, LacksTriggers
  <2>3. QED
    BY <1>8, <2>1, <2>2, QuietStep DEF Refuse
<1>9. CASE AwaitKeda
  <2>1. TypeOK'
    BY <1>9 DEF AwaitKeda, Retry, TypeOK, Labels, children, Generation
  <2>2. QED
    BY <1>9, <2>1, QuietStep DEF AwaitKeda, Retry
<1>10. CASE Finish
  BY <1>10, FinishStep
<1>11. CASE ApiError
  <2>1. CASE UNCHANGED children
    <3>1. TypeOK'
      BY <1>11, <2>1, ConstantsAssumption
      DEF ApiError, Fault, Retry, TypeOK, Labels, children, Generation
    <3>2. QED
      BY <1>11, <2>1, <3>1, QuietStep DEF ApiError, Retry
  <2>2. CASE Write(pc, BodySpec)
    <3>1. /\ deployed' \in BOOLEAN /\ service' \in BOOLEAN /\ route' \in BOOLEAN
          /\ replicas' \in 0..MaxReplicas
          /\ scaler' \subseteq [min : Nat, max : 1..MaxReplicas]
          /\ ObservedIsApplied' /\ InvalidIsTrue' /\ ChildrenInOrder'
      BY <1>11, <2>2, WriteStep DEF ApiError, Retry
    <3>2. TypeOK'
      BY <1>11, <3>1, ConstantsAssumption
      DEF ApiError, Fault, Retry, TypeOK, Labels, Generation
    <3>3. HandlerInOrder'
      BY <1>11 DEF ApiError, Retry, HandlerInOrder
    <3>4. QED
      BY <3>1, <3>2, <3>3
  <2>3. QED
    BY <1>11, <2>1, <2>2 DEF ApiError
<1>12. CASE TimerLook \/ TimerRead
  <2>1. TypeOK'
    BY <1>12 DEF TimerLook, TimerRead, FirstLook, TypeOK, Phases, children, handlers, bounds,
                 Generation
  <2>2. QED
    BY <1>12, <2>1, QuietStep DEF TimerLook, TimerRead, handlers
<1>13. CASE TimerPatch
  BY <1>13, PatchStep
<1>14. CASE KedaScales \/ KedaEnforces
  BY <1>14, ScaleStep
<1>15. CASE InstallKeda \/ PodsFollow \/ PodFails
  <2>1. ready' \in Nat /\ keda' \in BOOLEAN /\ faults' \in 0..MaxFaults
    <3>1. ready \in Nat /\ replicas \in 0..MaxReplicas /\ keda \in BOOLEAN
          /\ faults \in 0..MaxFaults /\ MaxReplicas \in Nat
      BY ConstantsAssumption DEF TypeOK
    <3>2. CASE InstallKeda
      BY <3>1, <3>2 DEF InstallKeda, bounds
    <3>3. CASE PodsFollow
      BY <3>1, <3>3 DEF PodsFollow, bounds
    <3>4. CASE PodFails
      BY <3>1, <3>4, FaultBound DEF PodFails
    <3>5. QED
      BY <1>15, <3>2, <3>3, <3>4
  <2>2. TypeOK'
    BY <1>15, <2>1 DEF InstallKeda, PodsFollow, PodFails, TypeOK, children, handlers, bounds,
                       Generation
  <2>3. QED
    BY <1>15, <2>2, QuietStep DEF InstallKeda, PodsFollow, PodFails, handlers
<1>16. CASE UNCHANGED vars
  <2>1. TypeOK'
    BY <1>16 DEF vars, TypeOK, children, handlers, bounds, Generation
  <2>2. QED
    BY <1>16, <2>1, QuietStep DEF vars, handlers
<1>17. QED
  BY <1>1, <1>2, <1>3, <1>4, <1>5, <1>6, <1>7, <1>8, <1>9, <1>10, <1>11, <1>12, <1>13, <1>14,
     <1>15, <1>16
  DEF Next, Operator, Handle, Refresh, Cluster

\* The operator's invariant holds for any manifests, edits, crashes and errors.
THEOREM ReconcilerCorrect == Spec => []ReconcilerInv
<1>1. QED
  BY InitReconcilerInv, NextReconcilerInv, PTL DEF Spec

\* Every variable keeps its type.
THEOREM TypeCorrect == Spec => []TypeOK
<1>1. ReconcilerInv => TypeOK
  BY DEF ReconcilerInv
<1>2. QED
  BY <1>1, ReconcilerCorrect, PTL

\* A generation that is reported as observed and can be applied is applied.
THEOREM ObservedMeansApplied == Spec => []ObservedIsApplied
<1>1. ReconcilerInv => ObservedIsApplied
  BY DEF ReconcilerInv
<1>2. QED
  BY <1>1, ReconcilerCorrect, PTL

\* Phase Invalid is the truth about the generation it names.
THEOREM InvalidMeansInvalid == Spec => []InvalidIsTrue
<1>1. ReconcilerInv => InvalidIsTrue
  BY DEF ReconcilerInv
<1>2. QED
  BY <1>1, ReconcilerCorrect, PTL

\* A suspended service at rest stays at zero until its spec changes.
THEOREM SleepLasts == Spec => SleepIsStable
<1>1. ReconcilerInv /\ [Next]_vars => [Asleep /\ stored' = stored => replicas' = 0]_vars
  <2> SUFFICES ASSUME ReconcilerInv, [Next]_vars, Asleep, stored' = stored
               PROVE  replicas' = 0
    OBVIOUS
  <2> USE DEF ReconcilerInv
  <2>1. scaler = {}
    BY DEF Asleep, ObservedIsApplied, Matches
  <2>2. ~KedaScales /\ ~KedaEnforces
    BY <2>1 DEF KedaScales, KedaEnforces, Scale
  <2>3. pc \in Calls /\ Write(pc, BodySpec) => replicas' = 0
    <3> SUFFICES ASSUME pc \in Calls, Write(pc, BodySpec) PROVE replicas' = 0
      OBVIOUS
    <3>1. BodySpec = Current
      BY DEF Asleep, HandlerInOrder, TypeOK, Calls, BodySpec, Current
    <3>2. replicas' = ReplicasOf(BodySpec) \/ replicas' = replicas
      BY DEF Write
    <3>3. QED
      BY <3>1, <3>2 DEF Asleep, ReplicasOf
  <2>4. CASE UNCHANGED children
    BY <2>4 DEF children, Asleep
  <2>5. Apply => pc \in Calls /\ Write(pc, BodySpec)
    BY DEF Apply
  <2>6. ApiError => (pc \in Calls /\ Write(pc, BodySpec)) \/ UNCHANGED children
    BY DEF ApiError
  <2>7. \A s : Store(s) => UNCHANGED children
    BY DEF Store
  <2>8. \/ Annotate \/ Start \/ Crash \/ Pickup \/ Refuse \/ AwaitKeda \/ Finish
        \/ TimerLook \/ TimerRead \/ TimerPatch \/ InstallKeda \/ PodsFollow \/ PodFails
        \/ UNCHANGED vars
        => UNCHANGED children
    BY DEF Annotate, Start, Crash, Pickup, Refuse, AwaitKeda, Finish, TimerLook, TimerRead,
           TimerPatch, InstallKeda, PodsFollow, PodFails, vars
  <2>9. Edit \/ (\E verb \in {"wake", "auto", "sleep"} : Command(verb)) => UNCHANGED children
    BY <2>7 DEF Edit, Command
  <2>10. QED
    BY <2>2, <2>3, <2>4, <2>5, <2>6, <2>8, <2>9
    DEF Next, Operator, Handle, Refresh, Cluster
<1>2. QED
  BY <1>1, ReconcilerCorrect, PTL DEF Spec, SleepIsStable

-----------------------------------------------------------------------------
(* The refinement of Reconciliation.                                       *)

\* What the handler has written when it ends meets its generation.
LEMMA EndMeets ==
    ASSUME ReconcilerInv, pc \in {"applied", "invalid"}
    PROVE  body \in Met /\ observed <= body
<1> USE DEF ReconcilerInv
<1>1. body \in 1..Generation /\ BodySpec \in InferenceSpec /\ observed <= body
  BY DEF TypeOK, HandlerInOrder, BodySpec, Generation
<1>2. Accepted(BodySpec) => Matches(BodySpec)
  <2>1. CASE pc = "applied"
    BY <1>1, <2>1, ScalerMatches DEF HandlerInOrder, Matches
  <2>2. CASE pc = "invalid"
    BY <2>2 DEF HandlerInOrder
  <2> QED BY <2>1, <2>2
<1> QED BY <1>1, <1>2 DEF Met, BodySpec

\* Met may only gain the new generation.
LEMMA OneMore ==
    ASSUME NEW n \in Nat, NEW M \in SUBSET (1..n), NEW N \in SUBSET (1..(n + 1)),
           \A g \in 1..n : g \in N <=> g \in M
    PROVE  N \in {M, M \cup {n + 1}}
<1>1. \A g : g \in 1..(n + 1) <=> g \in 1..n \/ g = n + 1
  OBVIOUS
<1>2. CASE n + 1 \in N
  BY <1>1, <1>2
<1>3. CASE n + 1 \notin N
  BY <1>1, <1>3
<1> QED BY <1>2, <1>3

\* An edit adds a generation and leaves the children as they are.
LEMMA StoreIsEdit ==
    ASSUME ReconcilerInv, NEW s \in InferenceSpec, Store(s)
    PROVE  Promised!REdit
<1>1. /\ Generation \in Nat /\ Generation' = Generation + 1 /\ UNCHANGED observed
      /\ \A g \in 1..Generation : stored'[g] = stored[g]
  BY DEF ReconcilerInv, TypeOK, Store, Generation
<1>2. \A r : Matches(r)' = Matches(r)
  BY DEF Store, children, Matches
<1>3. \A g \in 1..Generation : g \in Met' <=> g \in Met
  BY <1>1, <1>2 DEF Met
<1>4. Met \subseteq 1..Generation /\ Met' \subseteq 1..(Generation + 1)
  BY <1>1 DEF Met
<1>5. Met' \in {Met, Met \cup {Generation + 1}}
  BY <1>1, <1>3, <1>4, OneMore
<1> QED BY <1>1, <1>5 DEF Promised!REdit

\* Every step of the operator, of KEDA and of the cluster is one of the promise.
LEMMA ReconcilerRefines ==
    ReconcilerInv /\ [Next]_vars => [Promised!RNext]_(Promised!rvars)
<1> SUFFICES ASSUME ReconcilerInv, [Next]_vars PROVE Promised!RNext
  OBVIOUS
<1>1. ReconcilerInv'
  BY NextReconcilerInv
<1>2. CASE Finish
  <2>1. /\ pc \in {"applied", "invalid"} /\ observed' = body
        /\ UNCHANGED <<stored, children>>
    BY <1>2 DEF Finish, Observes
  <2>2. Generation' = Generation /\ Met' = Met
    BY <2>1 DEF Generation, Met, Matches, children
  <2> QED BY <2>1, <2>2, EndMeets DEF Promised!RNext, Promised!RObserve, Met
<1>3. CASE UNCHANGED <<stored, observed>>
  <2>1. Generation' = Generation /\ Current' = Current
    BY <1>3 DEF Generation, Current
  <2>2. Generation \in 1..Generation
    BY DEF ReconcilerInv, TypeOK, Generation
  <2>3. observed = Generation => (Accepted(Current) => Matches(Current)')
    BY <1>1, <1>3, <2>1 DEF ReconcilerInv, ObservedIsApplied
  <2>4. observed = Generation => Generation \in Met'
    BY <1>3, <2>1, <2>2, <2>3 DEF Met, Current
  <2>5. Met' \subseteq 1..Generation
    BY <2>1 DEF Met
  <2> QED BY <1>3, <2>1, <2>4, <2>5 DEF Promised!RNext, Promised!RWork
<1>4. CASE Edit
  BY <1>4, StoreIsEdit, ConstantsAssumption DEF Edit, Promised!RNext
<1>5. ASSUME NEW verb \in {"wake", "auto", "sleep"}, Command(verb)
      PROVE  Promised!RNext
  <2>1. Current \in InferenceSpec
    BY DEF ReconcilerInv, TypeOK, Current, Generation
  <2> QED BY <1>5, <2>1, CommandedSpec, StoreIsEdit DEF Command, Promised!RNext
<1>6. CASE \/ Annotate \/ Start \/ Crash \/ Pickup \/ Apply \/ Refuse \/ AwaitKeda \/ ApiError
           \/ Refresh \/ Cluster \/ UNCHANGED vars
  <2>1. UNCHANGED <<stored, observed>>
    BY <1>6 DEF Annotate, Start, Crash, Pickup, Apply, Refuse, AwaitKeda, ApiError, Retry, Refresh,
                TimerLook, TimerRead, TimerPatch, Cluster, KedaScales, KedaEnforces, Scale,
                InstallKeda, PodsFollow, PodFails, vars
  <2> QED BY <1>3, <2>1
<1> QED BY <1>2, <1>4, <1>5, <1>6 DEF Next, Operator, Handle

\* reconcile_inference keeps the promise of Reconciliation, whatever edits,
\* crashes, failing calls and scalings interleave with it.
THEOREM ReconciliationImplemented == Spec => ImplementsReconciliation
<1>1. Init => Promised!RInit
  BY DEF Init, Promised!RInit, Generation, Met
<1> QED BY <1>1, ReconcilerCorrect, ReconcilerRefines, PTL DEF Spec, ImplementsReconciliation,
            Promised!RSpec
=============================================================================
