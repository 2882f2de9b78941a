------------------------------ MODULE AgentTask -----------------------------
(***************************************************************************)
(* The life of an AgentTask: the supervisor creates the object, publishes  *)
(* the task to the agent's topic and marks it routed (supervisor.submit);  *)
(* an agent executes it, publishes a result and commits (AgentWorker.run,  *)
(* or Worker.Run of the Go SDK); the supervisor's result thread records    *)
(* the result on the object (consume_results, apply_result).               *)
(*                                                                         *)
(* One task topic, one result topic, one agent pod and one result thread;  *)
(* submissions run concurrently (several supervisor replicas), and a       *)
(* supervisor of another namespace shares the topics and the result group. *)
(* Kafka and the API server are external.  Skill selection and the bodies  *)
(* of tasks and results are abstracted: a result is good or an error.      *)
(***************************************************************************)
EXTENDS Naturals, Sequences, FiniteSets, FiniteSetsExt

CONSTANTS Tasks,       \* the submissions, each with the id submit draws
          Runtimes,    \* the runtimes an agent may be built on
          MaxFaults    \* bound: crashes, API errors and failed deliveries

\* In the topics, next to tasks: a message that does not validate, and the
\* result of one that has no id.
Others == {"garbage", "unnamed"}

ASSUME ConstantsAssumption ==
    /\ Runtimes \subseteq {"python", "go"} /\ MaxFaults \in Nat
    /\ Tasks \cap Others = {}

VARIABLES
    stage,          \* stage[t]: where submit is with t, or how it ended
    sent,           \* sent[t]: t's message in a producer: none, inflight or gone
    phase,          \* phase[t]: status.phase of the object; "absent": no object
    taskLog,        \* the task topic
    runtime,        \* the runtime of the agent; never changes
    taskCommitted,  \* the agent group's committed offset
    agent,          \* the agent worker: down, idle, publishing, or dead in a live pod
    flight,         \* the result it publishes: none, inflight, delivered or lost
    results,        \* the result topic: a sequence of [task, verdict]
    resCommitted,   \* the result group's committed offset
    recorder,       \* the result thread: dead, idle or recorded
    resPos,         \* the offset of the result it has polled last
    recorded,       \* the result offsets written to an object (history)
    elsewhere,      \* those the other supervisor has committed (history)
    faults          \* how many faults have happened (bound)

submitVars == <<stage, sent>>
agentVars  == <<runtime, taskCommitted, agent, flight>>
recVars    == <<resCommitted, recorder, resPos, recorded, elsewhere>>
vars == <<submitVars, phase, taskLog, agentVars, results, recVars, faults>>

Verdicts == {"completed", "failed"}
Phases   == {"absent", "unset", "routed"} \cup Verdicts
Stages   == {"none", "foreign", "created", "flushing", "patching",
             "routed", "error"}

Init ==
    /\ stage = [t \in Tasks |-> "none"]
    /\ sent = [t \in Tasks |-> "none"]
    /\ phase = [t \in Tasks |-> "absent"]
    /\ taskLog = <<>> /\ taskCommitted = 0 /\ runtime \in Runtimes
    /\ agent = "down" /\ flight = "none"
    /\ results = <<>> /\ resCommitted = 0
    /\ recorder = "idle" /\ resPos = 0 /\ recorded = {} /\ elsewhere = {}
    /\ faults = 0

Fault == faults < MaxFaults /\ faults' = faults + 1

(***************************************************************************)
(* Supervisor.submit.                                                      *)
(***************************************************************************)
\* The cards and the selection are awaited; then the object is created.  The
\* status in the body is dropped: the CRD has a status subresource.
Create(t) ==
    /\ stage[t] = "none"
    /\ stage' = [stage EXCEPT ![t] = "created"]
    /\ phase' = [phase EXCEPT ![t] = "unset"]
    /\ UNCHANGED <<sent, taskLog, agentVars, results, recVars, faults>>

\* Mutant: the task is published before its object is created.
MayProduceEarly(t) == stage[t] \in {"none", "created"}

MayProduce(t) == stage[t] = "created"

\* produce hands the task to the producer and flush starts to wait.
Produce(t) ==
    /\ MayProduce(t)
    /\ stage' = [stage EXCEPT ![t] = "flushing"]
    /\ sent' = [sent EXCEPT ![t] = "inflight"]
    /\ UNCHANGED <<phase, taskLog, agentVars, results, recVars, faults>>

DeliverTask(t) ==
    /\ sent[t] = "inflight"
    /\ sent' = [sent EXCEPT ![t] = "gone"]
    /\ taskLog' = Append(taskLog, t)
    /\ UNCHANGED <<stage, phase, agentVars, results, recVars, faults>>

\* The broker refuses the message; produce was given no callback to tell.
LoseTask(t) ==
    /\ sent[t] = "inflight" /\ Fault
    /\ sent' = [sent EXCEPT ![t] = "gone"]
    /\ UNCHANGED <<stage, phase, taskLog, agentVars, results, recVars>>

\* flush returns 0: nothing is in flight any more.
Flushed(t) ==
    /\ stage[t] = "flushing" /\ sent[t] # "inflight"
    /\ stage' = [stage EXCEPT ![t] = "patching"]
    /\ UNCHANGED <<sent, phase, taskLog, agentVars, results, recVars, faults>>

\* flush gives up, on this message or on another of the same producer.
FlushTimesOut(t) ==
    /\ stage[t] = "flushing" /\ \E u \in Tasks : sent[u] = "inflight"
    /\ stage' = [stage EXCEPT ![t] = "error"]
    /\ UNCHANGED <<sent, phase, taskLog, agentVars, results, recVars, faults>>

\* The object is marked routed, whatever its phase is by now.
MarkRouted(t) ==
    /\ stage[t] = "patching"
    /\ stage' = [stage EXCEPT ![t] = "routed"]
    /\ phase' = [phase EXCEPT ![t] = "routed"]
    /\ UNCHANGED <<sent, taskLog, agentVars, results, recVars, faults>>

\* The create or the patch fails, and the caller gets an error; the API server
\* may have applied the patch all the same.
SubmitFails(t) ==
    /\ stage[t] \in {"none", "patching"} /\ Fault
    /\ stage' = [stage EXCEPT ![t] = "error"]
    /\ \/ UNCHANGED phase
       \/ stage[t] = "patching" /\ phase' = [phase EXCEPT ![t] = "routed"]
    /\ UNCHANGED <<sent, taskLog, agentVars, results, recVars>>

\* The supervisor pod that submits t ends, and its producer queue with it.
SubmitCrash(t) ==
    /\ stage[t] \in {"created", "flushing", "patching"} /\ Fault
    /\ stage' = [stage EXCEPT ![t] = "error"]
    /\ sent' = [sent EXCEPT ![t] = IF @ = "inflight" THEN "gone" ELSE @]
    /\ UNCHANGED <<phase, taskLog, agentVars, results, recVars>>

\* Another supervisor, with its own namespace, uses the same topics.
SubmitElsewhere(t) ==
    /\ stage[t] = "none"
    /\ stage' = [stage EXCEPT ![t] = "foreign"]
    /\ taskLog' = Append(taskLog, t)
    /\ UNCHANGED <<sent, phase, agentVars, results, recVars, faults>>

\* Someone else writes to a topic of tasks, or to one that matches the pattern of
\* the result topics, what does not validate (bound: as the first fault).
ForeignMessage ==
    /\ faults = 0 /\ Fault
    /\ \/ taskLog' = Append(taskLog, "garbage") /\ UNCHANGED results
       \/ results' = Append(results, [task |-> "garbage", verdict |-> "completed"])
          /\ UNCHANGED taskLog
    /\ UNCHANGED <<submitVars, phase, agentVars, recVars>>

(***************************************************************************)
(* The agent: AgentWorker.run and process, or Worker.Run and process.      *)
(***************************************************************************)
AgentStart ==
    /\ agent = "down"
    /\ agent' = "idle"
    /\ UNCHANGED <<submitVars, phase, taskLog, runtime, taskCommitted, flight, results, recVars,
                   faults>>

\* A task is polled, at the committed offset since every task is committed before
\* the next, and executed.  The result is handed to the producer.
NextTask == taskLog[taskCommitted + 1]
Polls == agent = "idle" /\ taskCommitted < Len(taskLog)

Execute ==
    /\ Polls /\ (NextTask = "garbage" => runtime = "go")
    /\ flight' = "inflight"
    /\ agent' = "publishing"
    /\ UNCHANGED <<submitVars, phase, taskLog, runtime, taskCommitted, results, recVars, faults>>

\* The Python runtime validates a task outside of its try: run ends.
Chokes ==
    /\ Polls /\ NextTask = "garbage" /\ runtime = "python"
    /\ agent' = "dead"
    /\ UNCHANGED <<submitVars, phase, taskLog, runtime, taskCommitted, flight, results, recVars,
                   faults>>

\* An unknown skill and an exception of the handler become error results, and for
\* the Go SDK what it cannot decode does, too.
Answer(verdict) ==
    IF NextTask = "garbage" THEN [task |-> "unnamed", verdict |-> "failed"]
                            ELSE [task |-> NextTask, verdict |-> verdict]

Answered == \E v \in Verdicts : results' = Append(results, Answer(v))

DeliverResult ==
    /\ flight = "inflight"
    /\ flight' = "delivered"
    /\ Answered
    /\ UNCHANGED <<submitVars, phase, taskLog, runtime, taskCommitted, agent, recVars, faults>>

\* The broker refuses the result, say for its size.
LoseResult ==
    /\ flight = "inflight" /\ Fault
    /\ flight' = "lost"
    /\ UNCHANGED <<submitVars, phase, taskLog, runtime, taskCommitted, agent, results, recVars>>

\* Mutant: the worker does not wait for the producer.
PublishedAtOnce == TRUE

\* Mutant: the Go transport waits as the Python worker does.
PublishedByFlush == flight # "inflight"

\* flush of the Python worker counts what is in flight and says nothing of what
\* was refused; Publish of the Go transport returns the error.
Published == IF runtime = "python" THEN flight # "inflight" ELSE flight = "delivered"

AgentCommit ==
    /\ agent = "publishing" /\ Published
    /\ taskCommitted' = taskCommitted + 1
    /\ agent' = "idle" /\ flight' = "none"
    /\ UNCHANGED <<submitVars, phase, taskLog, runtime, results, recVars, faults>>

\* run ends; a result in flight still reaches the broker or is lost.
AgentEnds(how) ==
    /\ agent' = how /\ flight' = "none"
    /\ UNCHANGED results \/ (flight = "inflight" /\ Answered)
    /\ UNCHANGED <<submitVars, phase, taskLog, runtime, taskCommitted, recVars>>

\* The publication raises (the flush timed out, or Publish reports a refusal), or
\* the commit after it does.  The thread, or goroutine, of run ends; the pod and
\* its health go on.
AgentFails ==
    /\ agent = "publishing"
    /\ IF flight = "lost" /\ ~Published THEN UNCHANGED faults ELSE Fault
    /\ AgentEnds("dead")

\* The pod crashes, or someone restarts the one whose thread is dead.
AgentCrash ==
    /\ agent # "down"
    /\ IF agent = "dead" THEN UNCHANGED faults ELSE Fault
    /\ AgentEnds("down")

(***************************************************************************)
(* The result thread: consume_results and apply_result.                    *)
(***************************************************************************)
ApplyResult(o) ==
    LET r == results[o]
    IN  /\ phase' = [phase EXCEPT ![r.task] = IF @ = "absent" THEN @ ELSE r.verdict]
        /\ recorded' = recorded \cup {o}

NextResult == results[resPos + 1]

\* The object of the result's task is patched; 404 is ignored, which may be the
\* answer to an empty name.
Record ==
    /\ recorder = "idle" /\ resPos < Len(results)
    /\ NextResult.task # "garbage"
    /\ IF NextResult.task = "unnamed" THEN UNCHANGED <<phase, recorded>>
                                       ELSE ApplyResult(resPos + 1)
    /\ resPos' = resPos + 1
    /\ recorder' = "recorded"
    /\ UNCHANGED <<submitVars, taskLog, agentVars, results, resCommitted, elsewhere, faults>>

\* What does not validate ends the thread, and an empty name may.
RecordChokes ==
    /\ recorder = "idle" /\ resPos < Len(results)
    /\ NextResult.task \in Others
    /\ recorder' = "dead" /\ resPos' = resCommitted
    /\ UNCHANGED <<submitVars, phase, taskLog, agentVars, results, resCommitted,
                   recorded, elsewhere, faults>>

\* The group gives the partition to the other supervisor for a while, which
\* finds no objects of these tasks in its namespace: 404, and commits.
ConsumedElsewhere ==
    /\ recorder # "recorded" /\ Fault
    /\ \E o \in resCommitted + 1..Len(results) :
          /\ \A p \in resCommitted + 1..o : results[p].task # "garbage"
          /\ resCommitted' = o
          /\ elsewhere' = elsewhere \cup resCommitted + 1..o
    /\ resPos' = resCommitted'
    /\ UNCHANGED <<submitVars, phase, taskLog, agentVars, results, recorder, recorded>>

RecorderCommit ==
    /\ recorder = "recorded"
    /\ resCommitted' = resPos
    /\ recorder' = "idle"
    /\ UNCHANGED <<submitVars, phase, taskLog, agentVars, results, resPos, recorded, elsewhere,
                   faults>>

\* Any other API error ends the thread, with the patch applied or not, and so
\* does a crash of the pod; the health endpoint does not look at the thread.
RecorderDies ==
    /\ recorder # "dead" /\ Fault
    /\ recorder' = "dead" /\ resPos' = resCommitted
    /\ \/ UNCHANGED <<phase, recorded>>
       \/ /\ recorder = "idle" /\ resPos < Len(results) /\ NextResult.task \in Tasks
          /\ ApplyResult(resPos + 1)
    /\ UNCHANGED <<submitVars, taskLog, agentVars, results, resCommitted, elsewhere>>

\* Mutant: the thread resumes one offset too far.
ResumeSkipping == resCommitted + 1

\* Mutant: the thread resumes at the start of the topic.
ResumeFromStart == 0

ResumeFrom == resCommitted

\* The thread only comes back with a new pod.
PodRestart ==
    /\ recorder = "dead"
    /\ recorder' = "idle"
    /\ resPos' = ResumeFrom
    /\ UNCHANGED <<submitVars, phase, taskLog, agentVars, results,
                   resCommitted, recorded, elsewhere, faults>>

Submission(t) == Create(t) \/ Produce(t) \/ Flushed(t) \/ FlushTimesOut(t) \/ MarkRouted(t)

Agent == AgentStart \/ Execute \/ Chokes \/ DeliverResult
         \/ AgentCommit \/ AgentFails

Recorder == Record \/ RecordChokes \/ RecorderCommit

Next == \/ \E t \in Tasks : \/ Submission(t) \/ DeliverTask(t) \/ LoseTask(t)
                            \/ SubmitFails(t) \/ SubmitCrash(t) \/ SubmitElsewhere(t)
        \/ Agent \/ LoseResult \/ AgentCrash
        \/ Recorder \/ RecorderDies \/ ConsumedElsewhere \/ PodRestart
        \/ ForeignMessage

Spec == Init /\ [][Next]_vars

\* The agent's Deployment restarts its pod, and it works through its topic; the
\* result thread runs while it lives.  No one restarts what is dead in a live pod.
FairSpec == Spec /\ WF_vars(Agent) /\ WF_vars(Recorder)

-----------------------------------------------------------------------------
(***************************************************************************)
(* Properties.                                                             *)
(***************************************************************************)
\* Every variable keeps its type; no offset runs past its topic.
TypeOK ==
    /\ stage \in [Tasks -> Stages]
    /\ sent \in [Tasks -> {"none", "inflight", "gone"}]
    /\ phase \in [Tasks -> Phases]
    /\ taskLog \in Seq(Tasks \cup {"garbage"})
    /\ runtime \in Runtimes
    /\ taskCommitted \in 0..Len(taskLog)
    /\ agent \in {"down", "idle", "publishing", "dead"}
    /\ flight \in {"none", "inflight", "delivered", "lost"}
    /\ results \in Seq([task : Tasks \cup Others, verdict : Verdicts])
    /\ resCommitted \in 0..Len(results) /\ resPos \in 0..Len(results)
    /\ recorded \cup elsewhere \subseteq 1..Len(results)
    /\ recorder \in {"dead", "idle", "recorded"}
    /\ faults \in 0..MaxFaults

HasResult(t) == \E o \in 1..Len(results) : results[o].task = t

\* An agent commits a task only after its result is durable (the docs on the
\* agent control plane say it of both runtimes).
AnswerBeforeCommit ==
    \A o \in 1..taskCommitted : taskLog[o] \in Tasks => HasResult(taskLog[o])

\* The Go SDK keeps what the docs say: a task whose result the broker refused, or
\* whose pod went first, is never passed over.
GoAnswersFirst == runtime = "go" => AnswerBeforeCommit

\* A result that is committed is on the object of its task, which exists unless
\* it is of another namespace, or was written over by submit, whose routed patch
\* came later, or was consumed by the other supervisor.
CommittedIsRecorded ==
    \A o \in 1..resCommitted \ elsewhere : results[o].task \in Tasks =>
        LET t == results[o].task
        IN  \/ phase[t] \in Verdicts
            \/ phase[t] = "absent" /\ stage[t] = "foreign"
            \/ phase[t] = "routed" /\ stage[t] \in {"routed", "error"}

\* What an object says is what the last recorded result of its task says, and
\* nothing is recorded without a result, whatever is replayed.
LastResultWins ==
    \A t \in Tasks : phase[t] \in Verdicts =>
        LET own == {o \in recorded : results[o].task = t}
        IN  own # {} /\ phase[t] = results[Max(own)].verdict

\* A task that is marked complete stays complete (apply_result's docstring).
CompleteIsDurable ==
    [][\A t \in Tasks : phase[t] \in Verdicts => phase'[t] \in Verdicts]_vars

\* Every task in the topic gets a result (from the Python runtime at least a
\* commit), or run has ended in a live pod: at a message that does not validate,
\* or because a result could not be published.
PublishedIsAnswered ==
    \A t \in Tasks : (\E o \in 1..Len(taskLog) : taskLog[o] = t) ~>
        \/ HasResult(t) \/ agent = "dead"
        \/ runtime = "python" /\ \E o \in 1..taskCommitted : taskLog[o] = t

\* Every task with a result gets one recorded, unless the result thread dies or
\* the other supervisor takes it.
AnsweredIsRecorded ==
    \A t \in Tasks : HasResult(t) ~>
        \/ recorder = "dead"
        \/ \E o \in recorded \cup elsewhere : results[o].task = t
=============================================================================
