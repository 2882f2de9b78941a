-------------------------- MODULE CommandDelivery --------------------------
(***************************************************************************)
(* What the command topic promises, as docs/KAFKA_COMMANDS.md puts it: at  *)
(* least once, in order.  Commands are accepted at the end of the topic;   *)
(* each gets an outcome (an `applied` event or a dead letter), once for    *)
(* all and not before every command ahead of it has one; and the committed *)
(* offset, from which the next worker resumes, is only ever set to one up  *)
(* to which every command has an outcome.  Committing may go back: that    *)
(* only delivers commands once more.                                       *)
(***************************************************************************)
EXTENDS Naturals

VARIABLES accepted,   \* how many commands the topic holds
          outcomes,   \* the offsets of the commands that have an outcome
          committed   \* the offset the next worker resumes from

dvars == <<accepted, outcomes, committed>>

DInit == accepted = 0 /\ outcomes = {} /\ committed = 0

Accept == accepted' = accepted + 1 /\ UNCHANGED <<outcomes, committed>>

\* The next command in the order of the topic, and no other, gets its outcome.
Settle == \E o \in (1..accepted) \ outcomes :
             /\ 1..(o - 1) \subseteq outcomes
             /\ outcomes' = outcomes \cup {o}
             /\ UNCHANGED <<accepted, committed>>

Commit == \E o \in outcomes :
             /\ 1..o \subseteq outcomes
             /\ committed' = o
             /\ UNCHANGED <<accepted, outcomes>>

DNext == Accept \/ Settle \/ Commit

DSpec == DInit /\ [][DNext]_dvars
=============================================================================
