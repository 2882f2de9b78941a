---------------------------- MODULE FleetCommand ----------------------------
(***************************************************************************)
(* The vocabulary of fleet commands: what the Slack front end lets through *)
(* (slack.py parse_command, execute), what the transport and the worker    *)
(* validate (kafka.py validate_command) and which fields of a custom       *)
(* resource's spec each command sets (slack.py FleetClient.apply).  The    *)
(* three were written separately, and what one accepts another may not.    *)
(*                                                                         *)
(* A command is a record [verb, kind, name, confirmed]; the pair of kind   *)
(* and name is the resource it targets and its Kafka key.  A message that  *)
(* is a JSON object but not a command at all is the value Malformed.       *)
(***************************************************************************)
EXTENDS Naturals

ValidVerbs == {"wake", "auto", "sleep", "pause", "resume", "cancel"}
ValidKinds == {"agent", "inference", "training"}
Destructive == {"sleep", "cancel"}

\* Malformed stands for every JSON object that validate_command refuses for
\* its envelope, its schema version or its identity.
Malformed == [verb |-> "none", kind |-> "none", name |-> "none", confirmed |-> FALSE]

\* A message that is JSON but no object: validate_command cannot read it.
NotAnObject == [verb |-> "none", kind |-> "list", name |-> "none", confirmed |-> FALSE]

Key(c) == <<c.kind, c.name>>

\* parse_command's grammar, and the confirmation that execute asks for.
SlackAccepts(c) ==
    /\ c.verb \in ValidVerbs
    /\ c.verb \in {"pause", "resume", "cancel"} => c.kind = "training"
    /\ c.kind = "agent" => c.verb \in {"wake", "sleep"}
    /\ c.verb \in Destructive => c.confirmed

\* Mutant: the confirmation of destructive commands is not validated.
ValidUnconfirmed(c) == c.verb \in ValidVerbs /\ c.kind \in ValidKinds

\* validate_command: verb and kind are checked one by one, not as a pair.
Valid(c) ==
    /\ c.verb \in ValidVerbs
    /\ c.kind \in ValidKinds
    /\ c.verb \in Destructive => c.confirmed

\* The verbs for which FleetClient.apply has fields; it raises KeyError for
\* any other.  Agents take every verb: all but "sleep" clear suspend.
Applicable(c) ==
    CASE c.kind = "training"  -> c.verb \in {"pause", "resume", "cancel"}
      [] c.kind = "inference" -> c.verb \in {"wake", "auto", "sleep"}
      [] OTHER                -> TRUE

FieldNames == {"suspend", "forceActive", "cancelled"}

\* The fields of spec that the merge patch of an applicable command sets.
Fields(c) ==
    CASE c.kind = "training" /\ c.verb = "cancel" -> [f \in {"cancelled"} |-> TRUE]
      [] c.kind = "training" /\ c.verb # "cancel" -> [f \in {"suspend"} |-> c.verb = "pause"]
      [] c.kind = "agent" -> [f \in {"suspend"} |-> c.verb = "sleep"]
      [] OTHER -> [f \in {"suspend", "forceActive"} |->
                      IF f = "suspend" THEN c.verb = "sleep" ELSE c.verb = "wake"]

\* A JSON merge patch: fields that the patch names are replaced, others stay.
Merge(spec, patch) ==
    [f \in FieldNames |-> IF f \in DOMAIN patch THEN patch[f] ELSE spec[f]]

\* What ends every worker that polls it: what validate_command cannot read, and
\* a command that passes validation and that no worker can apply.
Poison(c) == c = NotAnObject \/ (Valid(c) /\ ~Applicable(c))
=============================================================================
