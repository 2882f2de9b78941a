------------------------- MODULE PodTemplateProofs -------------------------
(***************************************************************************)
(* Theorems about PodTemplate, for every set of specs and of nodes.        *)
(***************************************************************************)
EXTENDS PodTemplate, TLAPS

-----------------------------------------------------------------------------
(* Division with a remainder, the arithmetic behind the rounding.          *)
LEMMA Quotient ==
    ASSUME NEW d \in Nat, NEW s \in Nat \ {0}
    PROVE  /\ d \div s \in Nat /\ d % s \in 0..(s - 1)
           /\ d = s * (d \div s) + (d % s)
OBVIOUS

LEMMA ProductMonotone ==
    ASSUME NEW a \in Nat, NEW b \in Nat, NEW h \in Nat, a <= b
    PROVE  a * h <= b * h
<1> DEFINE k == b - a
<1>1. k \in Nat /\ b = a + k
  OBVIOUS
<1> HIDE DEF k
<1>2. (a + k) * h = a * h + k * h /\ k * h \in Nat /\ a * h \in Nat
  BY <1>1
<1> QED BY <1>1, <1>2

(* What math.ceil may return covers the formula.                           *)
LEMMA CalculatedCovers ==
    ASSUME NEW s \in Specs, NEW c \in Calculated(s)
    PROVE  c \in Nat /\ Demand(s) <= c * Share(s)
<1> DEFINE d == Demand(s)  h == Share(s)  q == d \div h  r == d % h
<1>1. d \in Nat /\ h \in Nat \ {0}
  BY SpecsAssumption DEF WellFormed, Share
<1> HIDE DEF d, h
<1>2. q \in Nat /\ r \in 0..(h - 1) /\ d = h * q + r
  BY <1>1, Quotient
<1> HIDE DEF q, r
<1>3. c \in {q, q + 1} /\ (r # 0 => c = q + 1)
  BY DEF Calculated, d, h, q, r
<1>4. (q + 1) * h = h * q + h /\ q * h = h * q
  BY <1>1, <1>2
<1>5. CASE c = q + 1
  BY <1>1, <1>2, <1>4, <1>5 DEF d, h
<1>6. CASE c = q /\ r = 0
  BY <1>1, <1>2, <1>4, <1>6 DEF d, h
<1> QED BY <1>3, <1>5, <1>6

(* The automatic choice: the class holds the memory, and is the smallest.  *)
LEMMA GpuClassRight ==
    ASSUME NEW memory \in Nat
    PROVE  /\ GpuClass(memory) \in Classes
           /\ Holds(GpuClass(memory), memory)
           /\ \A k \in Bounded : Holds(k, memory) =>
                 /\ GpuClass(memory) \in Bounded
                 /\ Capacity(GpuClass(memory)) <= Capacity(k)
<1>1. CASE memory <= 24
  BY <1>1 DEF GpuClass, Holds, Capacity, Bounded, Classes
<1>2. CASE memory \in 25..48
  BY <1>2 DEF GpuClass, Holds, Capacity, Bounded, Classes
<1>3. CASE memory \in 49..80
  BY <1>3 DEF GpuClass, Holds, Capacity, Bounded, Classes
<1>4. CASE memory > 80
  BY <1>4 DEF GpuClass, Holds, Capacity, Bounded, Classes
<1> QED BY <1>1, <1>2, <1>3, <1>4

-----------------------------------------------------------------------------
(* What carries the class and the memory from step to step.                *)
AfterMemory == {"class", "gpus", "selector", "products"}
AfterClass  == {"gpus", "selector", "products"}

MemoryCovers ==
    (pc \in AfterMemory \/ Placed) =>
        /\ spec.minimum <= required
        /\ spec.fit # {} => Demand(spec) <= required * Share(spec)

ClassKnown ==
    /\ (pc \in AfterClass \/ Placed) => chosen \in Classes
    /\ pc \in {"selector", "products"} \/ Placed => container.gpus = {spec.count}
    /\ pc \in {"initContainers", "datasets", "memory", "class"} => chosen = "none"

FitInv ==
    /\ spec \in Specs /\ required \in Nat /\ pc \in Labels
    /\ DOMAIN container = {"gpus", "mounts", "env"} /\ container.gpus \subseteq Nat
    /\ chosen \in Classes \cup {"none"}
    /\ MemoryCovers /\ ClassKnown /\ ClassIsRight

LEMMA FitInit == Init => FitInv
<1> SUFFICES ASSUME Init PROVE FitInv
  OBVIOUS
<1>1. WellFormed(spec)
  BY SpecsAssumption DEF Init
<1>2. DOMAIN container = {"gpus", "mounts", "env"} /\ container.gpus \subseteq Nat
  BY <1>1 DEF Init, Container, WellFormed
<1> QED BY <1>2 DEF Init, FitInv, Labels, MemoryCovers, ClassKnown, ClassIsRight, Placed,
                    AfterMemory, AfterClass

LEMMA FitStep == FitInv /\ [Next]_vars => FitInv'
<1> SUFFICES ASSUME FitInv, [Next]_vars PROVE FitInv'
  OBVIOUS
<1>a. WellFormed(spec) /\ spec.count \in Nat \ {0} /\ spec.minimum \in Nat
  BY SpecsAssumption DEF FitInv, WellFormed
<1> USE DEF FitInv, MemoryCovers, ClassKnown, ClassIsRight, Placed, Step, Refuse, Labels,
            AfterMemory, AfterClass
<1>1. CASE CheckInitContainers
  BY <1>1 DEF CheckInitContainers
<1>2. CASE MountDatasets
  <2>1. /\ pc = "datasets" /\ pc' = (IF spec.accelerated THEN "memory" ELSE "done")
        /\ UNCHANGED <<spec, required, chosen>>
        /\ \E e, m : container' = [container EXCEPT !.env = e, !.mounts = m]
    BY <1>2 DEF MountDatasets
  <2>2. DOMAIN container' = DOMAIN container /\ container'.gpus = container.gpus
    BY <2>1
  <2> QED BY <2>1, <2>2
<1>3. CASE ComputeMemory
  <2>1. /\ pc = "memory" /\ pc' = "class" /\ UNCHANGED <<spec, pod, container, chosen>>
    BY <1>3 DEF ComputeMemory
  <2>2. CASE spec.fit = {}
    <3>1. required' = spec.minimum
      BY <1>3, <2>2 DEF ComputeMemory
    <3> QED BY <1>a, <2>1, <2>2, <3>1
  <2>3. CASE spec.fit # {}
    <3>1. PICK c \in Calculated(spec) : required' = Larger(spec.minimum, c)
      BY <1>3, <2>3 DEF ComputeMemory
    <3>2. c \in Nat /\ Demand(spec) <= c * Share(spec)
      BY CalculatedCovers
    <3>3. required' \in Nat /\ spec.minimum <= required' /\ c <= required'
      BY <1>a, <3>1, <3>2 DEF Larger
    <3>4. Share(spec) \in Nat /\ Demand(spec) \in Nat
      BY <1>a, SpecsAssumption DEF Share
    <3>5. c * Share(spec) <= required' * Share(spec)
      BY <3>2, <3>3, <3>4, ProductMonotone
    <3>6. c * Share(spec) \in Nat /\ required' * Share(spec) \in Nat
      BY <3>2, <3>3, <3>4
    <3>7. Demand(spec) <= required' * Share(spec)
      BY <3>2, <3>4, <3>5, <3>6
    <3> QED BY <2>1, <3>3, <3>7 DEF Demand, Share, Sharded, Replicated
  <2> QED BY <2>2, <2>3
<1>4. CASE ChooseClass
  <2>1. /\ pc = "class" /\ pc' = "gpus" /\ ~ClassRefused
        /\ UNCHANGED <<spec, pod, container, required>>
        /\ chosen' = IF spec.class = "auto" THEN GpuClass(required) ELSE spec.class
    BY <1>4 DEF ChooseClass
  <2>2. CASE spec.class = "auto"
    <3>1. /\ GpuClass(required) \in Classes /\ Holds(GpuClass(required), required)
          /\ \A k \in Bounded : Holds(k, required) =>
                /\ GpuClass(required) \in Bounded
                /\ Capacity(GpuClass(required)) <= Capacity(k)
      BY GpuClassRight
    <3>2. chosen' = GpuClass(required) /\ UNCHANGED <<spec, required, container>>
      BY <2>1, <2>2
    <3>3. ClassIsRight'
      BY <3>1, <3>2, <2>2
    <3> HIDE DEF ClassIsRight
    <3> QED BY <2>1, <3>1, <3>2, <3>3
  <2>3. CASE spec.class # "auto"
    <3>1. chosen' = spec.class /\ spec.class \in Classes
      BY <1>a, <2>1, <2>3 DEF WellFormed
    <3>2. Holds(spec.class, required)
      BY <2>1 DEF ClassRefused, Holds
    <3>3. ClassIsRight'
      BY <2>1, <2>3, <3>1, <3>2
    <3> HIDE DEF ClassIsRight
    <3> QED BY <2>1, <3>1, <3>3
  <2> QED BY <2>2, <2>3
<1>5. CASE RequestGpus
  <2>1. /\ pc = "gpus" /\ pc' = "selector" /\ UNCHANGED <<spec, pod, required, chosen>>
        /\ container' = [container EXCEPT !.gpus = {spec.count}]
    BY <1>5 DEF RequestGpus
  <2>2. DOMAIN container' = DOMAIN container /\ container'.gpus = {spec.count}
    BY <2>1
  <2> QED BY <1>a, <2>1, <2>2
<1>6. CASE NarrowSelector
  BY <1>6 DEF NarrowSelector
<1>7. CASE NarrowAffinity
  BY <1>7 DEF NarrowAffinity
<1>8. CASE RefuseInitContainers \/ RefuseDatasets \/ RefuseClass \/ RefuseGpus
           \/ RefuseSelector \/ RefuseProducts
  <2>1. pc' = "refused" /\ UNCHANGED <<spec, pod, container, required, chosen>>
    BY <1>8 DEF RefuseInitContainers, RefuseDatasets, RefuseClass, RefuseGpus,
                RefuseSelector, RefuseProducts
  <2> QED BY <2>1
<1>9. CASE UNCHANGED vars
  BY <1>9 DEF vars
<1> QED
  BY <1>1, <1>2, <1>3, <1>4, <1>5, <1>6, <1>7, <1>8, <1>9 DEF Next

(* The class that is chosen holds the requirement, and the automatic       *)
(* choice is the smallest class that does.                                 *)
THEOREM ClassCorrect == Spec => []ClassIsRight
<1>1. FitInv => ClassIsRight
  BY DEF FitInv
<1> QED BY <1>1, FitInit, FitStep, PTL DEF Spec

(* The devices that a finished pod asks for, of the class it asks for, hold *)
(* the plan with its margin and the measured minimum.                      *)
THEOREM FitCorrect == Spec => []WorkloadFits
<1>1. ASSUME FitInv PROVE WorkloadFits
  <2> SUFFICES ASSUME Placed, chosen \in Bounded
               PROVE  /\ container.gpus = {spec.count}
                      /\ spec.minimum <= Capacity(chosen)
                      /\ spec.fit # {} => Demand(spec) <= Capacity(chosen) * Share(spec)
    BY DEF WorkloadFits
  <2>1. /\ spec.minimum \in Nat /\ required \in Nat
        /\ Share(spec) \in Nat /\ Demand(spec) \in Nat
    BY <1>1, SpecsAssumption DEF FitInv, WellFormed, Share
  <2>2. container.gpus = {spec.count} /\ chosen # "none"
    BY <1>1 DEF FitInv, ClassKnown, Bounded, Classes
  <2>3. /\ spec.minimum <= required
        /\ spec.fit # {} => Demand(spec) <= required * Share(spec)
    BY <1>1 DEF FitInv, MemoryCovers
  <2>4. Capacity(chosen) \in Nat
    BY DEF Capacity, Bounded, Classes
  <2>5. required <= Capacity(chosen)
    BY <1>1, <2>2 DEF FitInv, ClassIsRight, Holds
  <2>6. required * Share(spec) <= Capacity(chosen) * Share(spec)
    BY <2>1, <2>4, <2>5, ProductMonotone
  <2>7. required * Share(spec) \in Nat /\ Capacity(chosen) * Share(spec) \in Nat
    BY <2>1, <2>4
  <2> QED BY <2>1, <2>2, <2>3, <2>4, <2>5, <2>6, <2>7
<1> QED BY <1>1, FitInit, FitStep, PTL DEF Spec
-----------------------------------------------------------------------------
(* Where the pod may run.                                                  *)
Unselected(s) == "class" \in DOMAIN s.selector => s.selector["class"] = chosen

AuthorsTerms(s) == IF s.affinity = None THEN {{}} ELSE s.affinity

\* The selector of the author and the class say together what With says.
LEMMA SelectorNarrows ==
    ASSUME NEW selector, NEW value, NEW node,
           "class" \in DOMAIN selector => selector["class"] = value
    PROVE  (\A l \in DOMAIN With(selector, "class", value) :
                node[l] = With(selector, "class", value)[l])
             <=> (\A l \in DOMAIN selector : node[l] = selector[l]) /\ node["class"] = value
BY DEF With

\* A term with the products added matches the nodes of the products that it matched.
LEMMA TermNarrows ==
    ASSUME NEW t, NEW node
    PROVE  Matches(t \cup {OfProducts}, node)
             <=> (t = {} \/ Matches(t, node)) /\ node["product"] \in spec.products
<1>1. OfProducts.key = "product" /\ OfProducts.values = spec.products /\ OfProducts.in = TRUE
  BY DEF OfProducts
<1>2. ((node[OfProducts.key] \in OfProducts.values) = OfProducts.in)
        <=> node["product"] \in spec.products
  BY <1>1
<1> QED BY <1>2 DEF Matches

\* The alternatives narrow together; no affinity at all is one empty term.
LEMMA AffinityNarrows ==
    ASSUME NEW node, spec.affinity # None => {} \notin spec.affinity
    PROVE  (\E t \in Narrowed(AuthorsTerms(spec)) : Matches(t, node))
             <=> /\ spec.affinity = None \/ \E t \in spec.affinity : Matches(t, node)
                 /\ node["product"] \in spec.products
<1>1. (\E t \in Narrowed(AuthorsTerms(spec)) : Matches(t, node))
        <=> \E t \in AuthorsTerms(spec) : Matches(t \cup {OfProducts}, node)
  BY DEF Narrowed
<1>2. CASE spec.affinity = None
  <2>1. AuthorsTerms(spec) = {{}}
    BY <1>2 DEF AuthorsTerms
  <2> QED BY <1>1, <1>2, <2>1, TermNarrows
<1>3. CASE spec.affinity # None
  <2>1. AuthorsTerms(spec) = spec.affinity /\ {} \notin spec.affinity
    BY <1>3 DEF AuthorsTerms
  <2>2. \A t \in spec.affinity : Matches(t \cup {OfProducts}, node)
                                <=> Matches(t, node) /\ node["product"] \in spec.products
    BY <2>1, TermNarrows
  <2>3. (\E t \in AuthorsTerms(spec) : Matches(t \cup {OfProducts}, node))
          <=> \E t \in spec.affinity : Matches(t, node) /\ node["product"] \in spec.products
    <3> DEFINE Added(t) == Matches(t \cup {OfProducts}, node)
               Kept(t) == Matches(t, node) /\ node["product"] \in spec.products
    <3>1. \A t \in spec.affinity : Added(t) <=> Kept(t)
      BY <2>2
    <3> HIDE DEF Added, Kept
    <3>2. (\E t \in spec.affinity : Added(t)) <=> \E t \in spec.affinity : Kept(t)
      BY <3>1
    <3> QED BY <3>2, <2>1 DEF Added, Kept
  <2>4. (\E t \in spec.affinity : Matches(t, node) /\ node["product"] \in spec.products)
          <=> /\ \E t \in spec.affinity : Matches(t, node)
              /\ node["product"] \in spec.products
    OBVIOUS
  <2> QED BY <1>1, <1>3, <2>3, <2>4
<1> QED BY <1>2, <1>3

PlaceInv ==
    /\ spec \in Specs /\ pc \in Labels
    /\ DOMAIN pod = {"selector", "affinity", "volumes"}
    /\ pc \in {"initContainers", "datasets", "memory", "class", "gpus", "selector"} =>
          pod.selector = spec.selector /\ pod.affinity = spec.affinity
    /\ pc = "products" \/ Placed =>
          /\ pod.selector = With(spec.selector, "class", chosen)
          /\ Unselected(spec)
    /\ pc = "products" => spec.products # {} /\ pod.affinity = spec.affinity
    /\ Placed =>
          \/ spec.products = {} /\ pod.affinity = spec.affinity
          \/ /\ "product" \in DOMAIN spec.selector
             /\ spec.selector["product"] \in spec.products
             /\ pod.affinity = spec.affinity
          \/ spec.products # {} /\ pod.affinity = Narrowed(AuthorsTerms(spec))

LEMMA PlaceInit == Init => PlaceInv
BY DEF Init, PlaceInv, Labels, Placed

LEMMA PlaceStep == PlaceInv /\ [Next]_vars => PlaceInv'
<1> SUFFICES ASSUME PlaceInv, [Next]_vars PROVE PlaceInv'
  OBVIOUS
<1> USE DEF PlaceInv, Placed, Step, Refuse, Labels, Unselected
<1>1. CASE CheckInitContainers
  BY <1>1 DEF CheckInitContainers
<1>2. CASE MountDatasets
  <2>1. /\ pc = "datasets" /\ pc' = (IF spec.accelerated THEN "memory" ELSE "done")
        /\ UNCHANGED <<spec, chosen>> /\ \E v : pod' = [pod EXCEPT !.volumes = v]
    BY <1>2 DEF MountDatasets
  <2>2. /\ DOMAIN pod' = DOMAIN pod
        /\ pod'.selector = pod.selector /\ pod'.affinity = pod.affinity
    BY <2>1
  <2> QED BY <2>1, <2>2
<1>3. CASE ComputeMemory \/ ChooseClass \/ RequestGpus
  <2>1. /\ pc \in {"memory", "class", "gpus"} /\ pc' \in {"class", "gpus", "selector"}
        /\ UNCHANGED <<spec, pod>>
    BY <1>3 DEF ComputeMemory, ChooseClass, RequestGpus
  <2> QED BY <2>1
<1>4. CASE NarrowSelector
  <2>1. /\ pc = "selector" /\ pc' = (IF spec.products = {} THEN "done" ELSE "products")
        /\ UNCHANGED <<spec, chosen>> /\ ~SelectorRefused
        /\ pod' = [pod EXCEPT !.selector = With(@, "class", chosen)]
    BY <1>4 DEF NarrowSelector
  <2>2. /\ DOMAIN pod' = DOMAIN pod /\ pod'.affinity = pod.affinity
        /\ pod'.selector = With(spec.selector, "class", chosen)
    BY <2>1
  <2>3. Unselected(spec)
    BY <2>1 DEF SelectorRefused
  <2> QED BY <2>1, <2>2, <2>3
<1>5. CASE NarrowAffinity
  <2>1. /\ pc = "products" /\ pc' = "done" /\ UNCHANGED <<spec, chosen>> /\ ~ProductsRefused
        /\ pod' = IF Selected THEN pod ELSE [pod EXCEPT !.affinity = Narrowed(Terms)]
    BY <1>5 DEF NarrowAffinity
  <2>2. CASE Selected
    <3>1. pod' = pod /\ pod.selector["product"] \in spec.products
      BY <2>1, <2>2 DEF ProductsRefused
    <3>2. /\ "product" \in DOMAIN spec.selector
          /\ pod.selector["product"] = spec.selector["product"]
      BY <2>1, <2>2 DEF Selected, With
    <3> QED BY <2>1, <3>1, <3>2
  <2>3. CASE ~Selected
    <3>1. Terms = AuthorsTerms(spec)
      BY <2>1 DEF Terms, AuthorsTerms
    <3>2. /\ DOMAIN pod' = DOMAIN pod /\ pod'.selector = pod.selector
          /\ pod'.affinity = Narrowed(AuthorsTerms(spec))
      BY <2>1, <2>3, <3>1
    <3>3. AuthorsTerms(spec)' = AuthorsTerms(spec) /\ OfProducts' = OfProducts
      BY <2>1 DEF AuthorsTerms, OfProducts
    <3>4. Narrowed(AuthorsTerms(spec))' = Narrowed(AuthorsTerms(spec))
      BY <3>3 DEF Narrowed
    <3> QED BY <2>1, <3>2, <3>4
  <2> QED BY <2>2, <2>3
<1>6. CASE RefuseInitContainers \/ RefuseDatasets \/ RefuseClass \/ RefuseGpus
           \/ RefuseSelector \/ RefuseProducts
  <2>1. pc' = "refused" /\ UNCHANGED <<spec, pod, chosen>>
    BY <1>6 DEF RefuseInitContainers, RefuseDatasets, RefuseClass, RefuseGpus,
                RefuseSelector, RefuseProducts
  <2> QED BY <2>1
<1>7. CASE UNCHANGED vars
  <2>1. UNCHANGED <<spec, pc, pod, chosen>>
    BY <1>7 DEF vars
  <2>2. UNCHANGED <<Narrowed(AuthorsTerms(spec)), With(spec.selector, "class", chosen)>>
    BY <2>1 DEF Narrowed, AuthorsTerms, With, OfProducts
  <2> QED BY <2>1, <2>2
<1> QED
  BY <1>1, <1>2, <1>3, <1>4, <1>5, <1>6, <1>7 DEF Next

(* Whatever the spec and the nodes, the finished pod runs exactly where    *)
(* its author, its class and its products allow.                           *)
THEOREM PlacementCorrect == Spec => []PlacementIsExact
<1>1. ASSUME PlaceInv PROVE PlacementIsExact
  <2> SUFFICES ASSUME Placed, spec.affinity # None => {} \notin spec.affinity,
                      NEW n \in Nodes
               PROVE  MayRunOn(pod.selector, pod.affinity, n)
                        <=> (Wanted(n) /\ n["class"] = chosen)
    BY DEF PlacementIsExact
  <2> DEFINE bySelector == \A l \in DOMAIN spec.selector : n[l] = spec.selector[l]
             byAffinity == spec.affinity = None \/ \E t \in spec.affinity : Matches(t, n)
  <2>1. (\A l \in DOMAIN pod.selector : n[l] = pod.selector[l])
           <=> bySelector /\ n["class"] = chosen
    BY <1>1, SelectorNarrows DEF PlaceInv, Unselected
  <2>2. Wanted(n) <=> /\ bySelector /\ byAffinity
                      /\ spec.products # {} => n["product"] \in spec.products
    BY DEF Wanted, MayRunOn
  <2>3. CASE spec.products = {} /\ pod.affinity = spec.affinity
    BY <2>1, <2>2, <2>3 DEF MayRunOn
  <2>4. CASE /\ "product" \in DOMAIN spec.selector /\ spec.selector["product"] \in spec.products
             /\ pod.affinity = spec.affinity
    <3>1. bySelector => n["product"] \in spec.products
      BY <2>4
    <3> QED BY <2>1, <2>2, <2>4, <3>1 DEF MayRunOn
  <2>5. CASE spec.products # {} /\ pod.affinity = Narrowed(AuthorsTerms(spec))
    <3>1. (\E t \in pod.affinity : Matches(t, n)) <=> byAffinity /\ n["product"] \in spec.products
      BY <2>5, AffinityNarrows
    <3>2. pod.affinity # None
      <4>1. spec \in Specs
        BY <1>1 DEF PlaceInv
      <4> QED BY <4>1, <2>5, NoneAssumption DEF Narrowed, AuthorsTerms, OfProducts
    <3> QED BY <2>1, <2>2, <2>5, <3>1, <3>2 DEF MayRunOn
  <2> QED BY <1>1, <2>3, <2>4, <2>5 DEF PlaceInv
<1> QED BY <1>1, PlaceInit, PlaceStep, PTL DEF Spec

(* Every variable keeps its type; a finished pod selects its class.        *)
THEOREM TypeCorrect == Spec => []TypeOK
<1>1. ASSUME FitInv, PlaceInv PROVE TypeOK
  <2>1. WellFormed(spec)
    BY <1>1, SpecsAssumption DEF FitInv
  <2>2. chosen \in Classes \cup {"none"}
    BY <1>1 DEF FitInv
  <2>3. Placed => /\ chosen \in Classes
                  /\ "class" \in DOMAIN pod.selector /\ pod.selector["class"] = chosen
    BY <1>1 DEF FitInv, ClassKnown, PlaceInv, With
  <2> QED BY <1>1, <2>1, <2>2, <2>3 DEF FitInv, TypeOK
<1> QED BY <1>1, FitInit, FitStep, PlaceInit, PlaceStep, PTL DEF Spec
-----------------------------------------------------------------------------
(* What is mounted.                                                        *)
Sound(volumes, mounts) ==
    /\ \A i \in Claimed : \E m \in mounts :
          /\ m.path = spec.datasets[i].path
          /\ [name |-> m.volume, claim |-> spec.datasets[i].claim] \in volumes
    /\ \A m1, m2 \in mounts : m1.path = m2.path => m1 = m2
    /\ \A v1, v2 \in volumes : v1.name = v2.name => v1 = v2

MountInv ==
    /\ spec \in Specs
    /\ DOMAIN pod = {"selector", "affinity", "volumes"}
    /\ DOMAIN container = {"gpus", "mounts", "env"}
    /\ pc \in {"initContainers", "datasets"} =>
          container.mounts = spec.mounts /\ pod.volumes = spec.volumes
    /\ pc \notin {"initContainers", "datasets", "refused"} =>
          Sound(pod.volumes, container.mounts)

DatasetVolume(i) == [name |-> VolumeOf(spec.datasets[i].resource),
                     claim |-> spec.datasets[i].claim]
DatasetMount(i)  == [volume |-> VolumeOf(spec.datasets[i].resource),
                     path |-> spec.datasets[i].path]

\* The mounts and volumes of the datasets join those of the author soundly.
LEMMA DatasetsMounted ==
    ASSUME spec \in Specs, ~DatasetsRefused
    PROVE  Sound(spec.volumes \cup {DatasetVolume(i) : i \in Claimed},
                 spec.mounts \cup {DatasetMount(i) : i \in Claimed})
<1> DEFINE volumes == spec.volumes \cup {DatasetVolume(i) : i \in Claimed}
           mounts  == spec.mounts \cup {DatasetMount(i) : i \in Claimed}
<1>1. /\ Claimed \subseteq DOMAIN spec.datasets /\ Claimed \subseteq Nat
      /\ \A m1, m2 \in spec.mounts : m1.path = m2.path => m1 = m2
      /\ \A v1, v2 \in spec.volumes : v1.name = v2.name => v1 = v2
  BY MountsAssumption DEF Claimed
<1>2. \A i \in Claimed : ~Clashes(i)
  <2>1. Claimed # {} => spec.datasets # <<>>
    BY DEF Claimed
  <2> QED BY <2>1 DEF DatasetsRefused
<1>3. ASSUME NEW i \in Claimed
      PROVE  \E m \in mounts :
                /\ m.path = spec.datasets[i].path
                /\ [name |-> m.volume, claim |-> spec.datasets[i].claim] \in volumes
  <2>1. /\ DatasetMount(i) \in mounts /\ DatasetMount(i).path = spec.datasets[i].path
        /\ DatasetMount(i).volume = VolumeOf(spec.datasets[i].resource)
    BY DEF DatasetMount
  <2>2. [name |-> DatasetMount(i).volume, claim |-> spec.datasets[i].claim] \in volumes
    BY <2>1 DEF DatasetVolume
  <2> QED BY <2>1, <2>2
<1>4. ASSUME NEW m1 \in mounts, NEW m2 \in mounts, m1.path = m2.path
      PROVE  m1 = m2
  <2>1. ASSUME NEW i \in Claimed, NEW m \in spec.mounts
        PROVE  m.path # DatasetMount(i).path
    BY <1>2, <2>1 DEF Clashes, DatasetMount
  <2>2. ASSUME NEW i \in Claimed, NEW j \in Claimed, i # j
        PROVE  DatasetMount(i).path # DatasetMount(j).path
    <3>1. i \in Nat /\ j \in Nat
      BY <1>1
    <3>2. i < j \/ j < i
      BY <2>2, <3>1
    <3> QED BY <1>2, <3>2 DEF Clashes, DatasetMount
  <2> QED BY <1>1, <1>4, <2>1, <2>2
<1>5. ASSUME NEW v1 \in volumes, NEW v2 \in volumes, v1.name = v2.name
      PROVE  v1 = v2
  <2>1. ASSUME NEW i \in Claimed, NEW v \in spec.volumes
        PROVE  v.name = DatasetVolume(i).name => v = DatasetVolume(i)
    BY <1>1, MountsAssumption DEF DatasetVolume
  <2>2. ASSUME NEW i \in Claimed, NEW j \in Claimed,
               DatasetVolume(i).name = DatasetVolume(j).name
        PROVE  DatasetVolume(i) = DatasetVolume(j)
    <3>1. spec.datasets[i].resource = spec.datasets[j].resource
      BY <2>2 DEF DatasetVolume, VolumeOf
    <3>2. spec.datasets[i].claim = spec.datasets[j].claim
      BY <1>1, <3>1, MountsAssumption
    <3> QED BY <3>1, <3>2 DEF DatasetVolume
  <2> QED BY <1>1, <1>5, <2>1, <2>2
<1> QED BY <1>3, <1>4, <1>5 DEF Sound

LEMMA MountInit == Init => MountInv
BY DEF Init, MountInv, Container

LEMMA MountStep == MountInv /\ [Next]_vars => MountInv'
<1> SUFFICES ASSUME MountInv, [Next]_vars PROVE MountInv'
  OBVIOUS
<1> USE DEF Step, Refuse
<1>1. CASE MountDatasets
  <2>1. /\ pc = "datasets" /\ pc' \in {"memory", "done"} /\ spec' = spec /\ ~DatasetsRefused
    BY <1>1 DEF MountDatasets
  <2>2. /\ DOMAIN pod' = DOMAIN pod
        /\ pod'.volumes = spec.volumes \cup {DatasetVolume(i) : i \in Claimed}
    BY <1>1, <2>1 DEF MountDatasets, MountInv, DatasetVolume
  <2>3. /\ DOMAIN container' = DOMAIN container
        /\ container'.mounts = spec.mounts \cup {DatasetMount(i) : i \in Claimed}
    BY <1>1, <2>1 DEF MountDatasets, MountInv, DatasetMount
  <2>4. Sound(pod'.volumes, container'.mounts)
    BY <2>1, <2>2, <2>3, DatasetsMounted DEF MountInv
  <2>5. Sound(pod.volumes, container.mounts)'
    BY <2>1, <2>4 DEF Sound, Claimed
  <2> QED BY <2>1, <2>2, <2>3, <2>5 DEF MountInv
<1>2. ASSUME UNCHANGED spec, pod'.volumes = pod.volumes, container'.mounts = container.mounts,
             DOMAIN pod' = DOMAIN pod, DOMAIN container' = DOMAIN container,
             \/ pc' = pc \/ pc' = "refused" \/ (pc = "initContainers" /\ pc' = "datasets")
             \/ /\ pc \notin {"initContainers", "datasets", "refused"}
                /\ pc' \notin {"initContainers", "datasets"}
      PROVE  MountInv'
  <2>1. Sound(pod.volumes, container.mounts) => Sound(pod.volumes, container.mounts)'
    BY <1>2 DEF Sound, Claimed
  <2>2. pc' \notin {"initContainers", "datasets", "refused"}
           => pc \notin {"initContainers", "datasets", "refused"}
    BY <1>2
  <2>3. CASE pc' \in {"initContainers", "datasets"}
    BY <1>2, <2>3 DEF MountInv
  <2> QED BY <1>2, <2>1, <2>2, <2>3 DEF MountInv
<1>3. CASE CheckInitContainers
  BY <1>2, <1>3 DEF CheckInitContainers
<1>4. CASE ComputeMemory \/ ChooseClass
  BY <1>2, <1>4 DEF ComputeMemory, ChooseClass
<1>5. CASE RequestGpus
  <2>1. DOMAIN container' = DOMAIN container /\ container'.mounts = container.mounts
    BY <1>5 DEF RequestGpus, MountInv
  <2> QED BY <1>2, <1>5, <2>1 DEF RequestGpus
<1>6. CASE NarrowSelector
  <2>1. DOMAIN pod' = DOMAIN pod /\ pod'.volumes = pod.volumes
    BY <1>6 DEF NarrowSelector, MountInv
  <2> QED BY <1>2, <1>6, <2>1 DEF NarrowSelector
<1>7. CASE NarrowAffinity
  <2>1. DOMAIN pod' = DOMAIN pod /\ pod'.volumes = pod.volumes
    BY <1>7 DEF NarrowAffinity, MountInv
  <2> QED BY <1>2, <1>7, <2>1 DEF NarrowAffinity
<1>8. CASE RefuseInitContainers \/ RefuseDatasets \/ RefuseClass \/ RefuseGpus
           \/ RefuseSelector \/ RefuseProducts
  <2>1. pc' = "refused" /\ UNCHANGED <<spec, pod, container>>
    BY <1>8 DEF RefuseInitContainers, RefuseDatasets, RefuseClass, RefuseGpus,
                RefuseSelector, RefuseProducts
  <2> QED BY <2>1 DEF MountInv
<1>9. CASE UNCHANGED vars
  <2>1. UNCHANGED <<spec, pc, pod, container>>
    BY <1>9 DEF vars
  <2>2. Sound(pod.volumes, container.mounts)' = Sound(pod.volumes, container.mounts)
    BY <2>1 DEF Sound, Claimed
  <2> QED BY <2>1, <2>2 DEF MountInv
<1> QED
  BY <1>1, <1>3, <1>4, <1>5, <1>6, <1>7, <1>8, <1>9 DEF Next

(* Every dataset with a claim that _apply_datasets is given is mounted at  *)
(* its path from its own claim, and nothing else is mounted there.         *)
THEOREM MountsCorrect == Spec => []MountsAreRight
<1>1. MountInv => MountsAreRight
  BY DEF MountInv, MountsAreRight, Sound
<1> QED BY <1>1, MountInit, MountStep, PTL DEF Spec
-----------------------------------------------------------------------------
(* Why a spec is refused.                                                  *)
Cause == \/ spec.initContainers # {} /\ spec.initContainers # {"plain"}
         \/ "MODEL_FLEET_DATASETS_JSON" \in spec.env
         \/ PathsClash
         \/ NoClass
         \/ \E q \in spec.gpuRequest : q # spec.count
         \/ spec.affinity # None /\ \E t \in spec.affinity : \E e \in t : e.key = "product"
         \/ \A n \in Nodes : n["class"] = chosen => ~Wanted(n)

\* The memory is no more than the spec asks for, up to the rounding.
MemoryNeeded(memory) ==
    /\ memory = 0 => spec.minimum = 0 /\ spec.fit = {}
    /\ \A k \in Bounded :
          memory > Capacity(k) => \/ spec.minimum > Capacity(k)
                                  \/ Demand(spec) + Share(spec) > Capacity(k) * Share(spec)

CauseInv == /\ pc = "class" => MemoryNeeded(required)
            /\ pc = "refused" => Cause

\* What math.ceil may return is less than one more than the formula.
LEMMA CalculatedNeeded ==
    ASSUME NEW s \in Specs, s.fit # {}, NEW c \in Calculated(s)
    PROVE  /\ c \in Nat \ {0}
           /\ \A k \in Nat : c > k => Demand(s) + Share(s) > k * Share(s)
<1> DEFINE d == Demand(s)  h == Share(s)  q == d \div h  r == d % h
<1>1. d \in Nat \ {0} /\ h \in Nat \ {0}
  BY SpecsAssumption DEF WellFormed, Share
<1> HIDE DEF d, h
<1>2. q \in Nat /\ r \in 0..(h - 1) /\ d = h * q + r
  BY <1>1, Quotient
<1> HIDE DEF q, r
<1>3. c \in {q, q + 1} /\ (r # 0 => c = q + 1)
  BY DEF Calculated, d, h, q, r
<1>4. c \in Nat \ {0}
  <2>1. q = 0 => h * q = 0
    BY <1>1
  <2>2. q = 0 => r # 0
    BY <1>1, <1>2, <2>1
  <2> QED BY <1>2, <1>3, <2>2
<1>5. ASSUME NEW k \in Nat, c > k PROVE d + h > k * h
  <2>1. k <= q
    BY <1>2, <1>3, <1>5
  <2>2. k * h <= q * h
    BY <1>1, <1>2, <2>1, ProductMonotone
  <2>3. q * h = h * q /\ h * q \in Nat /\ k * h \in Nat
    BY <1>1, <1>2
  <2>4. h * q <= d
    BY <1>1, <1>2, <2>3
  <2> QED BY <1>1, <2>2, <2>3, <2>4
<1> QED BY <1>4, <1>5 DEF d, h

LEMMA MemoryIsNeeded ==
    ASSUME spec \in Specs, ComputeMemory
    PROVE  MemoryNeeded(required')
<1>1. spec.minimum \in Nat
  BY SpecsAssumption DEF WellFormed
<1>2. CASE spec.fit = {}
  BY <1>2 DEF ComputeMemory, MemoryNeeded
<1>3. CASE spec.fit # {}
  <2>1. PICK c \in Calculated(spec) : required' = Larger(spec.minimum, c)
    BY <1>3 DEF ComputeMemory
  <2>2. /\ c \in Nat \ {0}
        /\ \A k \in Nat : c > k => Demand(spec) + Share(spec) > k * Share(spec)
    BY <1>3, CalculatedNeeded
  <2>3. required' # 0 /\ required' \in {spec.minimum, c}
    BY <1>1, <2>1, <2>2 DEF Larger
  <2>4. \A k \in Bounded : Capacity(k) \in Nat
    BY DEF Bounded, Classes, Capacity
  <2>5. ASSUME NEW k \in Bounded, required' > Capacity(k)
        PROVE  \/ spec.minimum > Capacity(k)
               \/ Demand(spec) + Share(spec) > Capacity(k) * Share(spec)
    BY <2>2, <2>3, <2>4, <2>5
  <2> QED BY <2>3, <2>5 DEF MemoryNeeded
<1> QED BY <1>2, <1>3

\* Each refusal has its cause.
LEMMA RefusalHasCause ==
    ASSUME FitInv, PlaceInv, CauseInv,
           \/ RefuseInitContainers \/ RefuseDatasets \/ RefuseClass \/ RefuseGpus
           \/ RefuseSelector \/ RefuseProducts
    PROVE  Cause
<1>1. CASE RefuseInitContainers
  BY <1>1 DEF RefuseInitContainers, Cause
<1>2. CASE RefuseDatasets
  <2>1. CASE "MODEL_FLEET_DATASETS_JSON" \in spec.env
    BY <2>1 DEF Cause
  <2>2. ASSUME NEW i \in Claimed, spec.datasets[i].path = None \/ Clashes(i)
        PROVE  PathsClash
    <3>1. i \in Nat
      BY MountsAssumption DEF Claimed, FitInv
    <3>2. ASSUME NEW j \in Claimed, j < i PROVE j \in Claimed \ {i}
      BY <3>1, <3>2
    <3> QED BY <2>2, <3>2 DEF PathsClash, Clashes
  <2> QED BY <1>2, <2>1, <2>2 DEF RefuseDatasets, DatasetsRefused, Cause
<1>3. CASE RefuseClass
  <2>1. MemoryNeeded(required) /\ ClassRefused /\ required \in Nat
    BY <1>3 DEF RefuseClass, Refuse, Step, CauseInv, FitInv
  <2>2. CASE spec.class = "auto" /\ required = 0
    BY <2>1, <2>2 DEF MemoryNeeded, NoClass, Cause
  <2>3. CASE spec.class \in Bounded /\ ~Holds(spec.class, required)
    <3>1. Capacity(spec.class) \in Nat /\ spec.class # "auto"
      BY <2>3 DEF Bounded, Classes, Capacity
    <3>2. required > Capacity(spec.class)
      BY <2>1, <2>3, <3>1 DEF Holds
    <3> QED BY <2>1, <2>3, <3>1, <3>2 DEF MemoryNeeded, NoClass, Cause
  <2> QED BY <2>1, <2>2, <2>3 DEF ClassRefused
<1>4. CASE RefuseGpus
  BY <1>4 DEF RefuseGpus, GpusRefused, Cause
<1>5. CASE RefuseSelector
  <2>1. "class" \in DOMAIN spec.selector /\ spec.selector["class"] # chosen
    BY <1>5 DEF RefuseSelector, SelectorRefused, Refuse, Step, PlaceInv
  <2>2. \A n \in Nodes : n["class"] = chosen => ~Wanted(n)
    BY <2>1 DEF Wanted, MayRunOn
  <2> QED BY <2>2 DEF Cause
<1>6. CASE RefuseProducts
  <2>1. /\ pod.selector = With(spec.selector, "class", chosen)
        /\ pod.affinity = spec.affinity /\ spec.products # {} /\ ProductsRefused
    BY <1>6 DEF RefuseProducts, Refuse, Step, PlaceInv
  <2>2. CASE Selected
    <3>1. /\ "product" \in DOMAIN spec.selector
          /\ spec.selector["product"] \notin spec.products
      BY <2>1, <2>2 DEF Selected, ProductsRefused, With
    <3>2. \A n \in Nodes : ~Wanted(n)
      BY <2>1, <3>1 DEF Wanted, MayRunOn
    <3> QED BY <3>2 DEF Cause
  <2>3. CASE ~Selected
    BY <2>1, <2>3 DEF ProductsRefused, Terms, Cause
  <2> QED BY <2>2, <2>3
<1> QED BY <1>1, <1>2, <1>3, <1>4, <1>5, <1>6

LEMMA CauseStep == FitInv /\ PlaceInv /\ CauseInv /\ [Next]_vars => CauseInv'
<1> SUFFICES ASSUME FitInv, PlaceInv, CauseInv, [Next]_vars PROVE CauseInv'
  OBVIOUS
<1>1. ASSUME UNCHANGED <<spec, chosen>> PROVE Cause => Cause'
  BY <1>1 DEF Cause, PathsClash, Claimed, NoClass, Wanted
<1>2. CASE RefuseInitContainers \/ RefuseDatasets \/ RefuseClass \/ RefuseGpus
           \/ RefuseSelector \/ RefuseProducts
  <2>1. pc' = "refused" /\ UNCHANGED <<spec, chosen>>
    BY <1>2 DEF RefuseInitContainers, RefuseDatasets, RefuseClass, RefuseGpus,
                RefuseSelector, RefuseProducts, Refuse, Step
  <2> QED BY <1>1, <1>2, <2>1, RefusalHasCause DEF CauseInv
<1>3. CASE ComputeMemory
  <2>1. pc' = "class" /\ spec' = spec
    BY <1>3 DEF ComputeMemory, Step
  <2>2. MemoryNeeded(required)'
    BY <1>3, <2>1, MemoryIsNeeded DEF FitInv, MemoryNeeded
  <2> QED BY <2>1, <2>2 DEF CauseInv
<1>4. CASE CheckInitContainers \/ MountDatasets \/ ChooseClass \/ RequestGpus \/ NarrowSelector
           \/ NarrowAffinity
  <2>1. pc' \notin {"class", "refused"}
    BY <1>4 DEF CheckInitContainers, MountDatasets, ChooseClass, RequestGpus, NarrowSelector,
                NarrowAffinity, Step
  <2> QED BY <2>1 DEF CauseInv
<1>5. CASE UNCHANGED vars
  BY <1>1, <1>5 DEF vars, CauseInv, MemoryNeeded
<1> QED
  BY <1>2, <1>3, <1>4, <1>5 DEF Next

(* A spec that is refused could not be honoured: the author, the request   *)
(* for GPUs or a mount contradicts the rest, or no class can hold it.      *)
THEOREM RefusalsCorrect == Spec => []RefusedForCause
<1>1. CauseInv => RefusedForCause
  BY DEF CauseInv, RefusedForCause, Cause
<1>2. Init => CauseInv
  BY DEF Init, CauseInv
<1> QED BY <1>1, <1>2, FitInit, FitStep, PlaceInit, PlaceStep, CauseStep, PTL DEF Spec
=============================================================================
