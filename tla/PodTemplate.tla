---------------------------- MODULE PodTemplate ----------------------------
(***************************************************************************)
(* How the operator builds the pod of an InferenceService or TrainingRun   *)
(* (resources.py): it checks the init containers, mounts the datasets,     *)
(* computes the memory that each GPU needs, chooses a capacity class,      *)
(* and narrows the node selector and the affinity that the author wrote.   *)
(* A step that finds a contradiction raises InvalidSpec.                   *)
(*                                                                         *)
(* A spec is what the CRD admits and the steps read.  Memory is in whole   *)
(* GiB.  The product of the fit formula is a float that is rounded up: when *)
(* the exact product is whole, the result may be one more.                 *)
(***************************************************************************)
EXTENDS Naturals, FiniteSetsExt

CONSTANTS Specs,     \* the specs that may be built
          Nodes,     \* the kinds of nodes, each a function of its labels
          None       \* an absent field

Classes == {"gpu-24gb", "gpu-48gb", "gpu-80gb", "gpu-80gb-plus"}

\* The numbers of a spec.  What may be absent is a set of at most one value (the
\* container's own GPU request), or empty (products, the fit); an absent
\* minimumMemoryGiB is 0.  Of these the resource definition admits neither an
\* empty list nor a minimum of 0 (minItems and minimum are 1).
WellFormed(s) ==
    /\ s.accelerated \in BOOLEAN
    /\ s.count \in Nat \ {0} /\ s.minimum \in Nat /\ s.gpuRequest \subseteq Nat
    /\ s.class \in Classes \cup {"auto"}
    /\ s.margin \in 0..100

VARIABLES
    spec,        \* the spec of the resource
    pc,          \* the step that comes next; "done" and "refused" end it
    pod,         \* the pod: [selector, affinity, volumes]
    container,   \* its main container: [gpus, mounts, env]
    required,    \* memory per GPU in GiB; 0 is None
    chosen       \* the capacity class

vars == <<spec, pc, pod, container, required, chosen>>

Labels == {"initContainers", "datasets", "memory", "class", "gpus", "selector",
           "products", "done", "refused"}

\* The main container; the names of the model that _container adds to the
\* environment of an InferenceService clash with nothing.
Container(s) == [gpus |-> s.gpuRequest, mounts |-> s.mounts, env |-> s.env]

\* What build_deployment and build_training_job copy before the first step.
Init ==
    /\ spec \in Specs
    /\ pc = "initContainers"
    /\ pod = [selector |-> spec.selector, affinity |-> spec.affinity,
              volumes |-> spec.volumes]
    /\ container = Container(spec)
    /\ required = 0 /\ chosen = "none"

Step(from, to)  == pc = from /\ pc' = to
Refuse(from)    == Step(from, "refused") /\ UNCHANGED <<spec, pod, container, required, chosen>>

(***************************************************************************)
(* _init_containers.  A container is plain, or asks for what is refused.   *)
(***************************************************************************)
CheckInitContainers ==
    /\ spec.initContainers \subseteq {"plain"}
    /\ Step("initContainers", "datasets")
    /\ UNCHANGED <<spec, pod, container, required, chosen>>

RefuseInitContainers == ~(spec.initContainers \subseteq {"plain"}) /\ Refuse("initContainers")

(***************************************************************************)
(* _apply_datasets: those with a claim are mounted, in their order.        *)
(***************************************************************************)
Claimed == {i \in DOMAIN spec.datasets : spec.datasets[i].claim # None}

\* Mutant: two datasets at one path are not a conflict.
ClashesWithMounts(i) ==
    \E m \in spec.mounts : m.path = spec.datasets[i].path

\* The path is one of the container's own mounts or of an earlier dataset.
Clashes(i) ==
    \/ \E m \in spec.mounts : m.path = spec.datasets[i].path
    \/ \E j \in Claimed : j < i /\ spec.datasets[j].path = spec.datasets[i].path

DatasetsRefused ==
    /\ spec.datasets # <<>>
    /\ \/ "MODEL_FLEET_DATASETS_JSON" \in spec.env
       \/ \E i \in Claimed : spec.datasets[i].path = None \/ Clashes(i)

\* The volume of a dataset is named by a hash of its resource name.
VolumeOf(resource) == <<"dataset", resource>>

MountDatasets ==
    LET env     == IF spec.datasets = <<>> THEN {} ELSE {"MODEL_FLEET_DATASETS_JSON"}
        volumes == {[name |-> VolumeOf(spec.datasets[i].resource),
                     claim |-> spec.datasets[i].claim] : i \in Claimed}
        mounts  == {[volume |-> VolumeOf(spec.datasets[i].resource),
                     path |-> spec.datasets[i].path] : i \in Claimed}
    IN  /\ ~DatasetsRefused
        /\ Step("datasets", IF spec.accelerated THEN "memory" ELSE "done")
        /\ pod' = [pod EXCEPT !.volumes = @ \cup volumes]
        /\ container' = [container EXCEPT !.env = @ \cup env, !.mounts = @ \cup mounts]
        /\ UNCHANGED <<spec, required, chosen>>

RefuseDatasets == DatasetsRefused /\ Refuse("datasets")

\* Kubernetes takes the author's own mounts and volumes as they stand: no path and
\* no name twice.  A volume that the author names as a dataset's is that volume,
\* and a Dataset that is listed twice has one claim: its spec is immutable.
ASSUME MountsAssumption ==
    \A s \in Specs :
        /\ DOMAIN s.datasets \subseteq Nat
        /\ \A m1, m2 \in s.mounts : m1.path = m2.path => m1 = m2
        /\ \A v1, v2 \in s.volumes : v1.name = v2.name => v1 = v2
        /\ \A i \in DOMAIN s.datasets :
              /\ \A v \in s.volumes :
                    v.name = VolumeOf(s.datasets[i].resource) =>
                        v = [name |-> v.name, claim |-> s.datasets[i].claim]
              /\ \A j \in DOMAIN s.datasets :
                    s.datasets[j].resource = s.datasets[i].resource =>
                        s.datasets[j].claim = s.datasets[i].claim

(***************************************************************************)
(* gpu_memory_requirement.                                                 *)
(***************************************************************************)
Sum(modules) == MapThenSumSet(LAMBDA m : m.memory, modules)
Sharded(s)    == Sum({m \in s.fit : m.sharded})
Replicated(s) == Sum({m \in s.fit : ~m.sharded})

\* The formula as a fraction, Demand(s) / Share(s).
Demand(s) == (Sharded(s) + Replicated(s) * s.count) * (100 + s.margin)
Share(s)  == 100 * s.count

\* Mutant: rounded down.
RoundedDown(s) == {Demand(s) \div Share(s)}

\* math.ceil of the float: one more than the exact result only if that is whole
\* and the margin is no identity.
Calculated(s) ==
    LET floor == Demand(s) \div Share(s)
    IN  IF Demand(s) % Share(s) # 0 THEN {floor + 1}
        ELSE IF s.margin = 0 THEN {floor} ELSE {floor, floor + 1}

Larger(a, b) == IF a >= b THEN a ELSE b

ComputeMemory ==
    /\ Step("memory", "class")
    /\ IF spec.fit = {} THEN required' = spec.minimum
                        ELSE \E c \in Calculated(spec) : required' = Larger(spec.minimum, c)
    /\ UNCHANGED <<spec, pod, container, chosen>>

\* The specs are well formed; the memory of every module of a plan is positive,
\* and so is their sum.
ASSUME SpecsAssumption ==
    \A s \in Specs : /\ WellFormed(s) /\ Demand(s) \in Nat
                     /\ s.fit # {} => Demand(s) > 0

(***************************************************************************)
(* gpu_class and the rest of _apply_accelerator.                           *)
(***************************************************************************)
Bounded == Classes \ {"gpu-80gb-plus"}

Capacity(class) ==
    CASE class = "gpu-24gb" -> 24
      [] class = "gpu-48gb" -> 48
      [] class = "gpu-80gb" -> 80

Holds(class, memory) == class \in Bounded => memory <= Capacity(class)

\* Mutant: a class is taken only if something is left of it.
GpuClassWithSlack(memory) ==
    CASE memory < 24 -> "gpu-24gb"
      [] memory \in 24..47 -> "gpu-48gb"
      [] memory \in 48..79 -> "gpu-80gb"
      [] OTHER -> "gpu-80gb-plus"

GpuClass(memory) ==
    CASE memory <= 24 -> "gpu-24gb"
      [] memory \in 25..48 -> "gpu-48gb"
      [] memory \in 49..80 -> "gpu-80gb"
      [] OTHER -> "gpu-80gb-plus"

ClassRefused ==
    \/ spec.class = "auto" /\ required = 0
    \/ spec.class \in Bounded /\ ~Holds(spec.class, required)

ChooseClass ==
    /\ ~ClassRefused
    /\ Step("class", "gpus")
    /\ chosen' = IF spec.class = "auto" THEN GpuClass(required) ELSE spec.class
    /\ UNCHANGED <<spec, pod, container, required>>

RefuseClass == ClassRefused /\ Refuse("class")

\* Mutant: a container without a request of its own is in conflict.
GpusRefusedAbsent == spec.gpuRequest # {spec.count}

\* The container's own request counts, its limit does not; both are set.
GpusRefused == ~(spec.gpuRequest \subseteq {spec.count})

RequestGpus ==
    /\ ~GpusRefused
    /\ Step("gpus", "selector")
    /\ container' = [container EXCEPT !.gpus = {spec.count}]
    /\ UNCHANGED <<spec, pod, required, chosen>>

RefuseGpus == GpusRefused /\ Refuse("gpus")

SelectorRefused ==
    "class" \in DOMAIN pod.selector /\ pod.selector["class"] # chosen

With(selector, label, value) ==
    [l \in DOMAIN selector \cup {label} |-> IF l = label THEN value ELSE selector[l]]

NarrowSelector ==
    /\ ~SelectorRefused
    /\ Step("selector", IF spec.products = {} THEN "done" ELSE "products")
    /\ pod' = [pod EXCEPT !.selector = With(@, "class", chosen)]
    /\ UNCHANGED <<spec, container, required, chosen>>

RefuseSelector == SelectorRefused /\ Refuse("selector")

(***************************************************************************)
(* _apply_gpu_product_affinity.  The terms of an affinity are alternatives *)
(* and the expressions of a term are all required.                         *)
(***************************************************************************)
Selected == "product" \in DOMAIN pod.selector

Terms == IF pod.affinity = None THEN {{}} ELSE pod.affinity

ProductsRefused ==
    IF Selected THEN pod.selector["product"] \notin spec.products
    ELSE \E t \in Terms : \E e \in t : e.key = "product"

OfProducts == [key |-> "product", in |-> TRUE, values |-> spec.products]

\* Mutant: the products become an alternative of their own.
NarrowedByTerm(terms) == (terms \ {{}}) \cup {{OfProducts}}

\* The products are added to every term.
Narrowed(terms) == {t \cup {OfProducts} : t \in terms}

\* No spec has a narrowed affinity that is None.
ASSUME NoneAssumption ==
    \A s \in Specs :
        None # {t \cup {[key |-> "product", in |-> TRUE, values |-> s.products]} :
                   t \in IF s.affinity = None THEN {{}} ELSE s.affinity}

NarrowAffinity ==
    /\ ~ProductsRefused
    /\ Step("products", "done")
    /\ pod' = IF Selected THEN pod ELSE [pod EXCEPT !.affinity = Narrowed(Terms)]
    /\ UNCHANGED <<spec, container, required, chosen>>

RefuseProducts == ProductsRefused /\ Refuse("products")

Next == \/ CheckInitContainers \/ RefuseInitContainers
        \/ MountDatasets \/ RefuseDatasets
        \/ ComputeMemory \/ ChooseClass \/ RefuseClass
        \/ RequestGpus \/ RefuseGpus \/ NarrowSelector \/ RefuseSelector
        \/ NarrowAffinity \/ RefuseProducts

Spec == Init /\ [][Next]_vars
-----------------------------------------------------------------------------
\* Built without being refused, with an accelerator.
Placed == pc = "done" /\ spec.accelerated

\* Every variable keeps its type, and a pod that is built has its class.
TypeOK ==
    /\ WellFormed(spec) /\ pc \in Labels
    /\ required \in Nat /\ container.gpus \subseteq Nat
    /\ chosen \in Classes \cup {"none"}
    /\ Placed => /\ chosen \in Classes
                 /\ "class" \in DOMAIN pod.selector /\ pod.selector["class"] = chosen

\* The devices the pod asks for, of the class it asks for, hold the modules with
\* their margin and the measured minimum (docs/GPU_CAPACITY.md).
WorkloadFits ==
    (Placed /\ chosen \in Bounded) =>
        /\ container.gpus = {spec.count}
        /\ spec.minimum <= Capacity(chosen)
        /\ spec.fit # {} => Demand(spec) <= Capacity(chosen) * Share(spec)

\* The class holds the requirement, and the automatic choice is the smallest that
\* does: no smaller class is passed over at a boundary.
ClassIsRight ==
    chosen # "none" =>
        /\ Holds(chosen, required)
        /\ spec.class # "auto" => chosen = spec.class
        /\ spec.class = "auto" =>
              \A k \in Bounded : Holds(k, required) =>
                  chosen \in Bounded /\ Capacity(chosen) <= Capacity(k)

\* What Kubernetes makes of a selector and a required node affinity: every label,
\* and some term, of which every expression; an empty term matches nothing.
Matches(term, node) ==
    /\ term # {}
    /\ \A e \in term : (node[e.key] \in e.values) = e.in

MayRunOn(selector, affinity, node) ==
    /\ \A l \in DOMAIN selector : node[l] = selector[l]
    /\ affinity = None \/ \E t \in affinity : Matches(t, node)

Wanted(node) ==
    /\ MayRunOn(spec.selector, spec.affinity, node)
    /\ spec.products # {} => node["product"] \in spec.products

\* The pod runs exactly where its author allowed it, on nodes of the class and of
\* the products: no alternative of the affinity lets it out.  (An empty term of
\* the author, which allows nothing, is filled and then allows the products.)
PlacementIsExact ==
    (Placed /\ (spec.affinity # None => {} \notin spec.affinity)) =>
        \A n \in Nodes :
            MayRunOn(pod.selector, pod.affinity, n) <=> (Wanted(n) /\ n["class"] = chosen)

\* Every dataset with a claim is at its path, in a volume with its claim, no path
\* has two mounts and no volume name two claims.
MountsAreRight ==
    pc = "done" =>
        /\ \A i \in Claimed : \E m \in container.mounts :
              /\ m.path = spec.datasets[i].path
              /\ [name |-> m.volume, claim |-> spec.datasets[i].claim] \in pod.volumes
        /\ \A m1, m2 \in container.mounts : m1.path = m2.path => m1 = m2
        /\ \A v1, v2 \in pod.volumes : v1.name = v2.name => v1 = v2

\* Two mounts of the finished container would be at one path.
PathsClash ==
    LET Paths == {m.path : m \in spec.mounts}
    IN  \E i \in Claimed : \/ spec.datasets[i].path \in Paths \cup {None}
                           \/ \E j \in Claimed \ {i} :
                                 spec.datasets[j].path = spec.datasets[i].path

\* The explicit class is too small for the minimum, or for the formula and the
\* one GiB that its rounding may add; or there is nothing to choose by.
NoClass ==
    IF spec.class = "auto" THEN spec.minimum = 0 /\ spec.fit = {}
    ELSE spec.class \in Bounded /\
            \/ spec.minimum > Capacity(spec.class)
            \/ Demand(spec) + Share(spec) > Capacity(spec.class) * Share(spec)

\* No spec is refused that Kubernetes could honour: some node has to be ruled out
\* by the author, or the author's request for GPUs or mounts contradicts the rest.
RefusedForCause ==
    pc = "refused" =>
        \/ spec.initContainers # {} /\ spec.initContainers # {"plain"}
        \/ "MODEL_FLEET_DATASETS_JSON" \in spec.env
        \/ PathsClash
        \/ NoClass
        \/ \E q \in spec.gpuRequest : q # spec.count
        \/ spec.affinity # None /\ \E t \in spec.affinity : \E e \in t : e.key = "product"
        \/ \A n \in Nodes : n["class"] = chosen => ~Wanted(n)
=============================================================================
