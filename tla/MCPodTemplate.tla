--------------------------- MODULE MCPodTemplate ---------------------------
(***************************************************************************)
(* Small instances of PodTemplate for TLC: three families of specs, each   *)
(* varies what one part of the builder reads.                              *)
(***************************************************************************)
EXTENDS PodTemplate, Sequences

Products == {"A", "H"}

AllNodes == [class : Classes, product : Products, zone : {"x", "y"}]

Plain == [accelerated |-> TRUE, count |-> 1, minimum |-> 20, fit |-> {}, margin |-> 10,
          class |-> "auto", products |-> {}, gpuRequest |-> {},
          selector |-> [l \in {} |-> "x"], affinity |-> None,
          initContainers |-> {}, datasets |-> <<>>, env |-> {},
          volumes |-> {}, mounts |-> {}]

\* Plans around every capacity, with and without a remainder.
Module(n, m, s) == [name |-> n, memory |-> m, sharded |-> s]

Plans == {{}} \cup {{Module("weights", w, TRUE), Module("runtime", t, FALSE)} :
                       w \in {14, 24, 48, 70, 90}, t \in {1, 4, 10}}
              \cup {{Module("weights", w, FALSE)} : w \in {10, 24, 48, 80}}

FitSpecs ==
    {[Plain EXCEPT !.count = c, !.minimum = n, !.fit = f, !.margin = g, !.class = k,
                   !.gpuRequest = q] :
        c \in 1..3, n \in {0, 24, 25, 81}, f \in Plans, g \in {0, 10, 20},
        k \in Classes \cup {"auto"}, q \in {{}, {0}, {2}}}

\* Affinities of up to two alternatives over zones and products.
InZone(z)     == [key |-> "zone", in |-> TRUE, values |-> {z}]
NotInZone(z)  == [key |-> "zone", in |-> FALSE, values |-> {z}]
OfProduct(p)  == [key |-> "product", in |-> TRUE, values |-> {p}]
OfClass(c)    == [key |-> "class", in |-> TRUE, values |-> {c}]

TermChoices == {{}, {InZone("x")}, {NotInZone("x")}, {InZone("x"), OfClass("gpu-24gb")},
                {OfProduct("A")}, {OfClass("gpu-48gb")}}

Selectors == {[l \in {} |-> "x"], [l \in {"zone"} |-> "x"], [l \in {"product"} |-> "A"],
              [l \in {"class"} |-> "gpu-24gb"], [l \in {"class"} |-> "gpu-80gb"]}

PlacementSpecs ==
    {[Plain EXCEPT !.products = p, !.selector = s, !.affinity = a, !.class = k] :
        p \in SUBSET Products, s \in Selectors, k \in {"auto", "gpu-48gb"},
        a \in {None, {}} \cup {{t, u} : t \in TermChoices, u \in TermChoices}}

\* Datasets with and without a claim or a path, one of them twice, next to the
\* author's own mount; and init containers of every kind.
Dataset(r, c, p) == [resource |-> r, claim |-> c, path |-> p]

DatasetChoices == {Dataset("d1", "claim1", "p1"), Dataset("d1", "claim1", "p2"),
                   Dataset("d2", "claim2", "p1"), Dataset("d2", "claim2", None),
                   Dataset("d3", None, None)}

DatasetSpecs ==
    {[Plain EXCEPT !.accelerated = FALSE, !.datasets = d, !.env = e, !.mounts = m,
                   !.volumes = v \cup {[name |-> <<"own", "v">>, claim |-> "claim0"]},
                   !.initContainers = i] :
        d \in {<<>>} \cup [{1} -> DatasetChoices] \cup [1..2 -> DatasetChoices],
        e \in {{}, {"MODEL_NAME"}, {"MODEL_FLEET_DATASETS_JSON"}},
        m \in {{}, {[volume |-> <<"own", "v">>, path |-> "p2"]}},
        v \in {{}, {[name |-> VolumeOf("d1"), claim |-> "claim1"]}},
        i \in SUBSET {"plain", "privileged"}}

AllSpecs == FitSpecs \cup PlacementSpecs \cup DatasetSpecs
=============================================================================
