------------------------ MODULE MCTrainingReconciler ------------------------
(* Small instances of TrainingReconciler for TLC. *)
EXTENDS TrainingReconciler

Run      == [suspend |-> FALSE, cancelled |-> FALSE, image |-> "a", expects |-> 0,
             ttl |-> FALSE, sound |-> TRUE]
WithData == [Run EXCEPT !.expects = 1]

\* Edits: the next version of the Dataset with a time to live, another image
\* without data, what is refused.
AllManifests == {WithData, [Run EXCEPT !.expects = 2, !.ttl = TRUE],
                 [Run EXCEPT !.image = "b"], [Run EXCEPT !.sound = FALSE]}
TtlManifest == {[Run EXCEPT !.ttl = TRUE]}

TwoDatasets == {[version |-> 1, uri |-> 1], [version |-> 2, uri |-> 1]}
=============================================================================
