---------------------------- MODULE MCManagedAgent ---------------------------
(* Small instances of ManagedAgent for TLC. *)
EXTENDS ManagedAgent

Runtime == [managed |-> TRUE, active |-> 1, suspend |-> FALSE]

Task(v, c) == [verb |-> v, kind |-> "agent", name |-> Self, confirmed |-> c]

\* The operations agent is told to put itself to sleep.
SelfTasks == {Task("sleep", TRUE)}

\* The other's calls, at any time, are those of its timer.
SelfConcurrent == [r \in Registrations |-> IF r = Self THEN {"handler", "timer"} ELSE {"timer"}]

RuntimeManifest == {Runtime}
=============================================================================
