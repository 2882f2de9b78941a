------------------------ MODULE MCInferenceReconciler ------------------------
(* Small instances of InferenceReconciler for TLC. *)
EXTENDS InferenceReconciler

Plain  == [suspend |-> FALSE, forceActive |-> FALSE, replicas |-> 1, scaled |-> FALSE,
           min |-> 0, max |-> 1, triggers |-> FALSE, routed |-> FALSE, sound |-> TRUE]
Scaled == [Plain EXCEPT !.scaled = TRUE, !.triggers = TRUE, !.max = 2, !.routed = TRUE]

\* Two things that build_deployment and build_scaled_object refuse.
Unsound     == [Plain EXCEPT !.sound = FALSE]
Untriggered == [Scaled EXCEPT !.triggers = FALSE]

AllManifests == {Plain, Scaled, Unsound, Untriggered}
=============================================================================
