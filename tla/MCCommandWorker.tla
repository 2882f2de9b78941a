-------------------------- MODULE MCCommandWorker --------------------------
(* Small instances of CommandWorker for TLC. *)
EXTENDS CommandWorker

Cmd(v, k, n, c) == [verb |-> v, kind |-> k, name |-> n, confirmed |-> c]

\* An inference service that is woken and slept, an unconfirmed sleep that only
\* another producer can write, a training run in the same partition, and a
\* command that Slack and the validation let through and no worker can apply.
MixedCommands == {Cmd("wake", "inference", "m", FALSE),
                  Cmd("sleep", "inference", "m", TRUE),
                  Cmd("sleep", "inference", "m", FALSE),
                  Cmd("cancel", "training", "t", TRUE),
                  Cmd("wake", "training", "t", FALSE)}

\* What Slack and the validation accept and no worker can apply.
PoisonCommands == {Cmd("wake", "training", "t", FALSE),
                   Cmd("resume", "training", "t", FALSE)}

OneCommand == {Cmd("wake", "inference", "m", FALSE)}
=============================================================================
