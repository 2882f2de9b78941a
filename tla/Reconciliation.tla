--------------------------- MODULE Reconciliation ---------------------------
(***************************************************************************)
(* What the operator promises of an object whose spec is edited under its  *)
(* hands: a generation is only reported as observed when the children meet *)
(* it, observation never goes back, and once the newest generation is      *)
(* observed nothing but the next edit makes the children fall short of it: *)
(* no retry, no second handling, no restart and no controller beside it.   *)
(***************************************************************************)
EXTENDS Naturals

VARIABLES generation,  \* how many specs the object has had
          observed,    \* the last of them that was handled
          met          \* those that the children meet

rvars == <<generation, observed, met>>

RInit == generation = 1 /\ observed = 0 /\ met \subseteq {1}

\* An edit leaves the children alone.
REdit == /\ generation' = generation + 1
         /\ met' \in {met, met \cup {generation + 1}}
         /\ UNCHANGED observed

\* The children are written, or change by themselves.
RWork == /\ met' \subseteq 1..generation
         /\ observed = generation => generation \in met'
         /\ UNCHANGED <<generation, observed>>

RObserve == /\ met' \subseteq 1..generation
            /\ observed' \in met' /\ observed <= observed'
            /\ UNCHANGED generation

RNext == REdit \/ RWork \/ RObserve

RSpec == RInit /\ [][RNext]_rvars
=============================================================================
