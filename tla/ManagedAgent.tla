----------------------------- MODULE ManagedAgent ----------------------------
(***************************************************************************)
(* Agents that the fleet starts and stops.  An AgentRegistration may link  *)
(* to a Deployment (spec.runtime) that names it in an annotation; the      *)
(* operator scales the Deployment of the registration the annotation names *)
(* (operator.py reconcile_agent_registration, which is both the handler    *)
(* and a timer, two concurrent callers of every registration).  Agents put *)
(* their cards into the registry (registry.py register), people and Slack  *)
(* patch spec.suspend (FleetCommand), and the built-in operations agent    *)
(* (fleet_agent.py) does so too, for those that reach it: it may be told   *)
(* to put itself to sleep.                                                 *)
(*                                                                         *)
(* One namespace and one Deployment, to which every managed registration   *)
(* links, rightly or not.  Kopf, the API server, the Deployment controller *)
(* and Kafka are external; kopf behaves as in InferenceReconciler.         *)
(***************************************************************************)
EXTENDS FleetCommand, Sequences, FiniteSets

CONSTANTS Registrations,  \* names of AgentRegistrations
          Self,           \* the registration of the operations agent
          NoOwner,        \* no annotation
          Manifests,      \* the specs that people apply
          TaskCommands,   \* what others ask the operations agent to do
          Modes,          \* bound: Modes[r]: which callers of r are looked at
          MaxActive,      \* bound: replicas anyone asks for
          MaxEvents       \* bound: what people, agents and Slack ask for, and crashes,
                          \* API errors and failed publications

\* managed: spec.runtime is there; active: its activeReplicas.
AgentSpec == [managed : BOOLEAN, active : 1..MaxActive, suspend : BOOLEAN]

ASSUME ConstantsAssumption ==
    /\ Self \in Registrations /\ NoOwner \notin Registrations
    /\ Modes \in [Registrations -> SUBSET {"handler", "timer"}]
    /\ MaxActive \in Nat \ {0} /\ MaxEvents \in Nat
    /\ Manifests \subseteq AgentSpec
    /\ \A c \in TaskCommands : c.name \in Registrations

VARIABLES
    stored,     \* stored[r]: the specs r has had; <<>> when there is no r
    phase,      \* phase[r]: status.phase
    observed,   \* observed[r]: status.observedGeneration
    due,        \* due[r]: kopf owes the handler a call
    up,         \* the operator runs
    pc,         \* pc[r][c]: where caller c of r's reconciliation is
    body,       \* body[r][c]: the generation whose spec it works from, 0 for none
    deployed,   \* the Deployment exists
    owner,      \* its annotation
    replicas,   \* its spec.replicas
    serving,    \* it has a running pod
    linked,     \* the registrations the annotation has ever named (history)
    tasks,      \* the topic of the operations agent
    committed,  \* the agent group's committed offset
    agent,      \* the agent's worker: down, idle, executed, or dead in a live pod
    events      \* counter for the bound

statusVars == <<phase, observed>>
callVars   == <<pc, body>>
runtime    == <<deployed, owner, replicas, serving, linked>>
agentVars  == <<tasks, committed, agent>>
vars == <<stored, statusVars, due, up, callVars, runtime, agentVars, events>>

Outcomes == {"Registered", "Missing", "Invalid", "applied"}
Labels   == {"idle", "read", "scale"} \cup Outcomes
Phases   == {"none", "Registered", "Missing", "Invalid", "Active", "Suspended"}

\* Mutant: there is a handler but no timer.
CallersHandler(r) == {"handler"}

\* on.create, on.update and on.resume; and the timer.
Callers(r) == Modes[r]

Generation(r) == Len(stored[r])
Current(r)    == stored[r][Generation(r)]
BodySpec(r, c) == stored[r][body[r][c]]
Exists(r)     == stored[r] # <<>>
Event == events < MaxEvents /\ events' = events + 1

\* The chart installs the operations agent: its registration, and its Deployment
\* with the annotation.  Other registrations come with other charts, or later.
Init ==
    /\ stored \in [Registrations -> {<<>>} \cup {<<m>> : m \in Manifests}] /\ Exists(Self)
    /\ phase = [r \in Registrations |-> "none"]
    /\ observed = [r \in Registrations |-> 0]
    /\ due = [r \in Registrations |-> FALSE] /\ up = FALSE
    /\ pc = [r \in Registrations |-> [c \in {"handler", "timer"} |-> "idle"]]
    /\ body = [r \in Registrations |-> [c \in {"handler", "timer"} |-> 0]]
    /\ deployed = TRUE /\ owner = Self
    /\ replicas = 1 /\ serving = FALSE
    /\ linked = {owner}
    /\ tasks = <<>> /\ committed = 0 /\ agent = "down"
    /\ events = 0

(***************************************************************************)
(* What people, Slack and agents ask for.                                  *)
(***************************************************************************)
\* The API server stores a spec of r; only another spec is another generation,
\* but any patch is an update event.
Put(r, s) ==
    /\ stored' = [stored EXCEPT ![r] = IF Exists(r) /\ s = Current(r) THEN @ ELSE Append(@, s)]
    /\ due' = [due EXCEPT ![r] = TRUE]

Edit(r) ==
    /\ Event
    /\ \E m \in Manifests : Put(r, m)
    /\ UNCHANGED <<statusVars, up, callVars, runtime, agentVars>>

Commanded(r, verb) ==
    [Current(r) EXCEPT !.suspend =
        Fields([verb |-> verb, kind |-> "agent", name |-> r, confirmed |-> TRUE])["suspend"]]

\* FleetClient.apply for an agent command of Slack or of the command worker.
Command(r, verb) ==
    /\ Exists(r) /\ Event
    /\ Put(r, Commanded(r, verb))
    /\ UNCHANGED <<statusVars, up, callVars, runtime, agentVars>>

\* KubernetesRegistry.register: creates the registration with the card, which
\* has no runtime, or merges the card, possibly another one, into its spec.
Register(r) ==
    /\ Event
    /\ stored' = [stored EXCEPT ![r] = Append(@,
            IF Exists(r) THEN Current(r) ELSE [managed |-> FALSE, active |-> 1, suspend |-> FALSE])]
    /\ due' = [due EXCEPT ![r] = TRUE]
    /\ UNCHANGED <<statusVars, up, callVars, runtime, agentVars>>

\* Someone edits the Deployment: its annotation, its replicas, its existence.
Link(o) ==
    /\ Event /\ deployed /\ o # owner
    /\ owner' = o /\ linked' = linked \cup {o}
    /\ UNCHANGED <<stored, statusVars, due, up, callVars, deployed, replicas, serving, agentVars>>

ScaleByHand(n) ==
    /\ Event /\ deployed /\ n # replicas
    /\ replicas' = n
    /\ UNCHANGED <<stored, statusVars, due, up, callVars, deployed, owner, serving, linked,
                   agentVars>>

Redeploy ==
    /\ Event
    /\ deployed' = ~deployed /\ replicas' = 1
    /\ UNCHANGED <<stored, statusVars, due, up, callVars, owner, serving, linked, agentVars>>

Produce(c) ==
    /\ Event
    /\ tasks' = Append(tasks, c)
    /\ UNCHANGED <<stored, statusVars, due, up, callVars, runtime, committed, agent>>

\* The supervisor's params have no action, whatever skill it selects.
Supervised == [verb |-> "none", kind |-> "agent", name |-> Self, confirmed |-> FALSE]
SubmitTask == Produce(Supervised)

\* Another producer of the topic names one.
ForeignTask(c) == Produce(c)

(***************************************************************************)
(* The operator: reconcile_agent_registration.                             *)
(***************************************************************************)
Start ==
    /\ ~up
    /\ up' = TRUE
    /\ due' = [r \in Registrations |-> TRUE]
    /\ UNCHANGED <<stored, statusVars, callVars, runtime, agentVars, events>>

Crash ==
    /\ up /\ Event
    /\ up' = FALSE
    /\ pc' = [r \in Registrations |-> [c \in {"handler", "timer"} |-> "idle"]]
    /\ body' = [r \in Registrations |-> [c \in {"handler", "timer"} |-> 0]]
    /\ UNCHANGED <<stored, statusVars, due, runtime, agentVars>>

Wanted(r, c) == c = "handler" => due[r]

\* The body is read; a registration without a runtime is only registered.
Call(r, c) ==
    /\ up /\ Exists(r) /\ pc[r][c] = "idle" /\ Wanted(r, c)
    /\ body' = [body EXCEPT ![r][c] = Generation(r)]
    /\ pc' = [pc EXCEPT ![r][c] = IF Current(r).managed THEN "read" ELSE "Registered"]
    /\ due' = IF c = "handler" THEN [due EXCEPT ![r] = FALSE] ELSE due
    /\ UNCHANGED <<stored, statusVars, up, runtime, agentVars, events>>

Desired(s) == IF s.suspend THEN 0 ELSE s.active

\* Mutant: the annotation only has to be there.
LinkedToAny(r) == owner # NoOwner

LinkedTo(r) == owner = r

\* The Deployment is read, and judged by what was read.
Read(r, c) ==
    /\ pc[r][c] = "read"
    /\ pc' = [pc EXCEPT ![r][c] =
                CASE ~deployed -> "Missing"
                  [] deployed /\ ~LinkedTo(r) -> "Invalid"
                  [] OTHER -> IF replicas # Desired(BodySpec(r, c)) THEN "scale" ELSE "applied"]
    /\ UNCHANGED <<stored, statusVars, due, up, body, runtime, agentVars, events>>

\* The patch of the scale looks at neither the annotation nor the version of
\* what was read.
ScaleTo(r, c) ==
    /\ replicas' = Desired(BodySpec(r, c))
    /\ UNCHANGED <<deployed, owner, serving, linked>>

Scale(r, c) ==
    /\ pc[r][c] = "scale" /\ deployed
    /\ ScaleTo(r, c)
    /\ pc' = [pc EXCEPT ![r][c] = "applied"]
    /\ UNCHANGED <<stored, statusVars, due, up, body, agentVars, events>>

Return(r, c) == /\ pc' = [pc EXCEPT ![r][c] = "idle"]
                /\ body' = [body EXCEPT ![r][c] = 0]

\* An ApiException ends the call without a status; kopf calls again.
Abandon(r, c) ==
    /\ Return(r, c)
    /\ due' = IF c = "handler" THEN [due EXCEPT ![r] = TRUE] ELSE due
    /\ UNCHANGED <<stored, statusVars, up, agentVars>>

\* The Deployment was deleted after it was read.
ScaleMissing(r, c) ==
    /\ pc[r][c] = "scale" /\ ~deployed
    /\ Abandon(r, c)
    /\ UNCHANGED <<runtime, events>>

\* Any other error; the scale may have been patched all the same.
ApiError(r, c) ==
    /\ pc[r][c] \in {"read", "scale"} /\ Event
    /\ Abandon(r, c)
    /\ \/ UNCHANGED runtime
       \/ pc[r][c] = "scale" /\ deployed /\ ScaleTo(r, c)

\* Mutant: the error of a missing Deployment is raised before the status is set.
PhaseUnlessMissing(r, c) ==
    IF pc[r][c] = "Missing" THEN phase[r]
    ELSE IF pc[r][c] # "applied" THEN pc[r][c]
    ELSE IF BodySpec(r, c).suspend THEN "Suspended" ELSE "Active"

PhaseOf(r, c) ==
    IF pc[r][c] # "applied" THEN pc[r][c]
    ELSE IF BodySpec(r, c).suspend THEN "Suspended" ELSE "Active"

\* The handler has a copy of the object, the timer a view that follows it: the
\* generation it names last may be newer than the spec it worked from.
Observable(r, c) == IF c = "handler" THEN {body[r][c]} ELSE body[r][c]..Generation(r)

\* TemporaryError; the other outcomes end the handling of the generation.
Retries(outcome) == outcome = "Missing"

\* The call ends, with an error or without, and kopf writes its status.
Finish(r, c) ==
    /\ pc[r][c] \in Outcomes
    /\ phase' = [phase EXCEPT ![r] = PhaseOf(r, c)]
    /\ \E g \in Observable(r, c) : observed' = [observed EXCEPT ![r] = g]
    /\ due' = IF c = "handler" /\ Retries(pc[r][c]) THEN [due EXCEPT ![r] = TRUE] ELSE due
    /\ Return(r, c)
    /\ UNCHANGED <<stored, up, runtime, agentVars, events>>

Reconcile(r, c) == Call(r, c) \/ Read(r, c) \/ Scale(r, c) \/ ScaleMissing(r, c) \/ Finish(r, c)

(***************************************************************************)
(* The Deployment controller and the operations agent in its pod.          *)
(***************************************************************************)
\* A pod comes up, or the last one goes.
PodsFollow ==
    /\ serving # (deployed /\ replicas > 0)
    /\ serving' = ~serving
    /\ UNCHANGED <<stored, statusVars, due, up, callVars, deployed, owner, replicas, linked,
                   agentVars, events>>

agentEffects == <<statusVars, up, callVars, runtime, tasks>>

\* start: the worker runs in a thread of the pod, and is given the partition.
AgentStart ==
    /\ agent = "down" /\ serving
    /\ agent' = "idle"
    /\ UNCHANGED <<agentEffects, stored, due, committed, events>>

\* Mutant: an action that is not allowed gets no result, and is polled again.
AfterExecuteStrict(c) == IF c.verb \in {"wake", "sleep"} THEN "executed" ELSE "idle"

\* Whatever becomes of a task it has a result, which is then published.
AfterExecute(c) == "executed"

\* _control: the actions of an agent, and the confirmation of a sleep.
Permitted(c) == /\ c.verb \in {"wake", "sleep"}
                /\ c.verb \in Destructive => c.confirmed

\* A task is polled and executed: the registration is patched, or the result
\* is an error (not permitted, or 404).
Execute ==
    /\ agent = "idle" /\ committed < Len(tasks)
    /\ LET c == tasks[committed + 1]
       IN  /\ agent' = AfterExecute(c)
           /\ IF Permitted(c) /\ Exists(c.name) THEN Put(c.name, Commanded(c.name, c.verb))
              ELSE UNCHANGED <<stored, due>>
    /\ UNCHANGED <<agentEffects, committed, events>>

\* POST /v1/tasks:execute: the agent's pod executes a task at once.
ExecuteNow(c) ==
    /\ serving /\ Event
    /\ Permitted(c) /\ Exists(c.name)
    /\ Put(c.name, Commanded(c.name, c.verb))
    /\ UNCHANGED <<statusVars, up, callVars, runtime, agentVars>>

AgentCommit ==
    /\ agent = "executed"
    /\ committed' = committed + 1
    /\ agent' = "idle"
    /\ UNCHANGED <<agentEffects, stored, due, events>>

\* The result cannot be published in time: the thread ends, the pod does not.
ThreadDies ==
    /\ agent = "executed" /\ Event
    /\ agent' = "dead"
    /\ UNCHANGED <<agentEffects, stored, due, committed>>

\* The pod has gone, or crashes.
AgentStops ==
    /\ agent # "down"
    /\ IF serving THEN Event ELSE UNCHANGED events
    /\ agent' = "down"
    /\ UNCHANGED <<agentEffects, stored, due, committed>>

AgentLoop == AgentStart \/ Execute \/ AgentCommit

Next == \/ \E r \in Registrations :
              \/ Edit(r) \/ Register(r)
              \/ \E verb \in {"wake", "sleep"} : Command(r, verb)
              \/ \E c \in Callers(r) : Reconcile(r, c) \/ ApiError(r, c)
        \/ \E o \in Registrations \cup {NoOwner} : Link(o)
        \/ \E n \in 0..MaxActive : ScaleByHand(n)
        \/ Redeploy
        \/ SubmitTask \/ \E c \in TaskCommands : ForeignTask(c) \/ ExecuteNow(c)
        \/ Start \/ Crash \/ PodsFollow
        \/ AgentLoop \/ ThreadDies \/ AgentStops

Spec == Init /\ [][Next]_vars

(***************************************************************************)
(* Fairness: the Deployments restart the operator and the pods, kopf calls *)
(* the handler and the timer of every registration, and neither starves    *)
(* the other (they run in threads of their own).                           *)
(***************************************************************************)
FairSpec ==
    /\ Spec
    /\ WF_vars(Start) /\ WF_vars(PodsFollow) /\ WF_vars(AgentLoop \/ (~serving /\ AgentStops))
    /\ \A r \in Registrations : \A c \in Callers(r) : WF_vars(Reconcile(r, c))

-----------------------------------------------------------------------------
(***************************************************************************)
(* Properties.                                                             *)
(***************************************************************************)
\* Every variable keeps its type; nothing newer than what is stored is observed.
TypeOK ==
    /\ stored \in [Registrations -> Seq(AgentSpec)]
    /\ phase \in [Registrations -> Phases]
    /\ \A r \in Registrations :
          /\ observed[r] \in 0..Generation(r)
          /\ \A c \in {"handler", "timer"} :
                /\ body[r][c] \in 0..Generation(r)
                /\ pc[r][c] = "idle" <=> body[r][c] = 0
    /\ pc \in [Registrations -> [{"handler", "timer"} -> Labels]]
    /\ due \in [Registrations -> BOOLEAN] /\ up \in BOOLEAN
    /\ deployed \in BOOLEAN /\ serving \in BOOLEAN
    /\ owner \in Registrations \cup {NoOwner} /\ replicas \in 0..MaxActive
    /\ linked \subseteq Registrations \cup {NoOwner}
    /\ tasks \in Seq(TaskCommands \cup {Supervised}) /\ committed \in 0..Len(tasks)
    /\ agent \in {"down", "idle", "executed", "dead"}
    /\ events \in 0..MaxEvents

\* No registration is about to scale the Deployment that the Deployment has
\* never named, however the calls of the others interleave (the docs on Slack
\* commands: the link prevents scaling an unrelated Deployment).
OnlyLinkedScales ==
    \A r \in Registrations : \A c \in Callers(r) : pc[r][c] = "scale" => r \in linked

Managed(r) == Exists(r) /\ Current(r).managed

\* In the end the Deployment has the replicas that the registration it names
\* asks for, although callers that worked from an older spec, or for another
\* registration before it was linked anew, may scale it after that was asked.
OwnerGoverns ==
    \A r \in Registrations :
        <>[](deployed /\ owner = r /\ Managed(r) => replicas = Desired(Current(r)))

Verdict(r) ==
    IF ~Current(r).managed THEN "Registered"
    ELSE IF ~deployed THEN "Missing"
    ELSE IF owner # r THEN "Invalid"
    ELSE IF Current(r).suspend THEN "Suspended" ELSE "Active"

\* In the end the status tells the truth of the newest generation, whichever of
\* handler and timer wrote it last.
StatusSettles ==
    \A r \in Registrations :
        <>[](Exists(r) => phase[r] = Verdict(r) /\ observed[r] = Generation(r))

\* The tasks that wait for an agent that is kept awake are worked off, those
\* that it refuses and those that it had executed before it was put to sleep
\* included, unless its thread has died in a live pod.
BacklogIsWorkedOff ==
    <>[](deployed /\ owner = Self /\ Managed(Self) /\ ~Current(Self).suspend)
        => []<>(agent = "dead" \/ committed = Len(tasks))
=============================================================================
