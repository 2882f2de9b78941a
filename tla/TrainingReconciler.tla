------------------------- MODULE TrainingReconciler -------------------------
(***************************************************************************)
(* The operator's reconciliation of one TrainingRun (operator.py           *)
(* reconcile_training, resolve_training_datasets, refresh_training_status; *)
(* resources.py build_training_job): a handler that resolves the Dataset   *)
(* the run refers to and creates, patches or deletes the Job, and a timer  *)
(* that derives status.phase from the Job.                                 *)
(*                                                                         *)
(* People edit the run, Slack patches it (FleetCommand), Datasets come and *)
(* go.  Kopf and the Job and TTL controllers are external; kopf behaves as *)
(* in InferenceReconciler.                                                 *)
(***************************************************************************)
EXTENDS FleetCommand, Sequences, FiniteSets

CONSTANTS Manifests,     \* the specs that people apply
          Images,        \* container images
          Datasets,      \* the Dataset objects that may be registered: [version, uri]
          NoDataset,     \* no Dataset, or no reference to one
          NoJob,         \* no Job
          Completions,   \* spec.completions of the Job
          BackoffLimit,  \* spec.backoffLimit of the Job
          MaxEdits,      \* bound: specs stored after the first, and Datasets
                         \* registered or deleted
          MaxFaults      \* bound: crashes and API errors

\* expects: the expected version of the referenced Dataset, 0 for no reference;
\* ttl: ttlSecondsAfterFinished is set; sound: build_training_job accepts it.
RunSpec == [suspend : BOOLEAN, cancelled : BOOLEAN, image : Images, expects : Nat,
            ttl : BOOLEAN, sound : BOOLEAN]

ASSUME ConstantsAssumption ==
    /\ Completions \in Nat \ {0} /\ BackoffLimit \in Nat
    /\ MaxEdits \in Nat /\ MaxFaults \in Nat
    /\ Manifests \subseteq RunSpec
    /\ Datasets \subseteq [version : Nat \ {0}, uri : Nat]
    /\ NoDataset \notin Datasets

VARIABLES
    stored,     \* the specs the run has had; its generation is their number
    handled,    \* the last generation whose handling has ended
    outcome,    \* how it ended
    phase,      \* status.phase
    dataset,    \* the registered Dataset, or NoDataset
    job,        \* the Job, or NoJob
    finished,   \* a Job of the run has finished (history)
    pc,         \* where the handler is
    body,       \* the generation it was called with
    resolved,   \* the Dataset it has resolved
    due,        \* the run has to be handled though its spec has not changed
    timer,      \* idle, reading, or the phase it is about to write
    registry, faults  \* counters for the bounds

status   == <<handled, outcome, phase>>
cluster  == <<job, finished>>
handlers == <<pc, body, resolved, due>>
vars == <<stored, status, dataset, cluster, handlers, timer, registry, faults>>

Phases   == {"none", "Pending", "Running", "Suspended", "Succeeded", "Failed",
             "Cancelled", "Invalid"}
Outcomes == {"applied", "cancelled", "invalid", "refused"}
Labels   == {"down", "idle", "resolve", "upsert", "delete"} \cup Outcomes

Template == [image : Images, data : Datasets \cup {NoDataset}]
Job == [template : Template, suspend : BOOLEAN, ttl : BOOLEAN, deleting : BOOLEAN,
        active : BOOLEAN, succeeded : 0..Completions, failed : 0..BackoffLimit + 1]

\* The value for the absence of a Job is not itself a Job.
ASSUME NoJobAssumption == NoJob \notin Job

Generation == Len(stored)
Current    == stored[Generation]
BodySpec   == stored[body]
Fault == faults < MaxFaults /\ faults' = faults + 1

Finished(j) == j.succeeded = Completions \/ j.failed > BackoffLimit

Init ==
    /\ \E m \in Manifests : stored = <<m>>
    /\ handled = 0 /\ outcome = "none" /\ phase = "none"
    /\ dataset \in Datasets \cup {NoDataset}
    /\ job = NoJob /\ finished = FALSE
    /\ pc = "down" /\ body = 0 /\ resolved = NoDataset /\ due = FALSE
    /\ timer = "idle" /\ registry = 0 /\ faults = 0

(***************************************************************************)
(* What people and Slack ask for.  The CRD keeps a Dataset's spec as it    *)
(* is: another version is another object, of the same name here.           *)
(***************************************************************************)
Store(s) ==
    /\ Generation + registry <= MaxEdits /\ s # Current
    /\ stored' = Append(stored, s)
    /\ UNCHANGED <<status, dataset, cluster, handlers, timer, registry, faults>>

Edit == \E m \in Manifests : Store(m)

\* FleetClient.apply for a training command.
Command(verb) ==
    LET patch == Fields([verb |-> verb, kind |-> "training", name |-> "t", confirmed |-> TRUE])
    IN  IF "cancelled" \in DOMAIN patch
        THEN Store([Current EXCEPT !.cancelled = TRUE])
        ELSE Store([Current EXCEPT !.suspend = patch["suspend"]])

Register(d) ==
    /\ Generation + registry <= MaxEdits /\ d # dataset
    /\ dataset = NoDataset \/ d = NoDataset
    /\ dataset' = d /\ registry' = registry + 1
    /\ UNCHANGED <<stored, status, cluster, handlers, timer, faults>>

(***************************************************************************)
(* The handler.                                                            *)
(***************************************************************************)
Start ==
    /\ pc = "down"
    /\ pc' = "idle" /\ due' = TRUE
    /\ UNCHANGED <<stored, status, dataset, cluster, body, resolved, timer, registry, faults>>

Crash ==
    /\ pc # "down" /\ Fault
    /\ pc' = "down" /\ due' = FALSE /\ timer' = "idle"
    /\ UNCHANGED <<stored, status, dataset, cluster, body, resolved, registry>>

Pickup ==
    /\ pc = "idle" /\ (due \/ handled # Generation)
    /\ pc' = "resolve" /\ body' = Generation /\ due' = FALSE
    /\ UNCHANGED <<stored, status, dataset, cluster, resolved, timer, registry, faults>>

\* Mutant: a cancelled run has its Dataset resolved as well.
NeedsDatasetEver(s) == s.expects # 0

NeedsDataset(s) == ~s.cancelled /\ s.expects # 0

\* Mutant: any version of the Dataset will do.
AnyVersion(s, d) == FALSE

Mismatch(s, d) == d.version # s.expects

\* resolve_training_datasets and build_training_job.
Resolve ==
    /\ pc = "resolve"
    /\ NeedsDataset(BodySpec) => dataset # NoDataset
    /\ resolved' = IF NeedsDataset(BodySpec) THEN dataset ELSE NoDataset
    /\ pc' = IF NeedsDataset(BodySpec) /\ Mismatch(BodySpec, dataset) THEN "invalid"
             ELSE IF BodySpec.cancelled THEN "delete"
             ELSE IF BodySpec.sound THEN "upsert" ELSE "invalid"
    /\ UNCHANGED <<stored, status, dataset, cluster, body, due, timer, registry, faults>>

\* kopf calls the handler again after a TemporaryError or an ApiException.
Retry ==
    /\ pc' = "idle" /\ due' = TRUE
    /\ UNCHANGED <<stored, status, dataset, body, resolved, timer, registry>>

\* The Dataset is not found.
AwaitDataset ==
    /\ pc = "resolve" /\ NeedsDataset(BodySpec) /\ dataset = NoDataset
    /\ Retry
    /\ UNCHANGED <<cluster, faults>>

TemplateOf(s) == [image |-> s.image, data |-> resolved]

\* Mutant: a Job that has finished is replaced.
AbsentOrFinished == job # NoJob => Finished(job)

Absent == job = NoJob

Create ==
    /\ Absent
    /\ job' = [template |-> TemplateOf(BodySpec), suspend |-> BodySpec.suspend,
               ttl |-> BodySpec.ttl, deleting |-> FALSE, active |-> FALSE,
               succeeded |-> 0, failed |-> 0]
    /\ UNCHANGED finished

\* Mutant: a Job that exists is not suspended.
PatchedTtlOnly(s) == [job EXCEPT !.ttl = @ \/ s.ttl]

\* A merge patch: a ttl that the spec no longer has stays.
Patched(s) == [job EXCEPT !.suspend = s.suspend, !.ttl = @ \/ s.ttl]

Patch ==
    /\ ~Absent /\ job.template = TemplateOf(BodySpec)
    /\ job' = Patched(BodySpec)
    /\ UNCHANGED finished

Upsert ==
    /\ pc = "upsert"
    /\ Create \/ Patch
    /\ pc' = "applied"
    /\ UNCHANGED <<stored, status, dataset, body, resolved, due, timer, registry, faults>>

\* The API server answers 422: the template of a Job is immutable.
Unprocessable ==
    /\ pc = "upsert" /\ ~Absent /\ job.template # TemplateOf(BodySpec)
    /\ pc' = "refused"
    /\ UNCHANGED <<stored, status, dataset, cluster, body, resolved, due, timer, registry,
                   faults>>

\* Foreground deletion: the Job stays until its pods are gone.
Remove ==
    /\ job' = IF Absent THEN NoJob ELSE [job EXCEPT !.deleting = TRUE]
    /\ UNCHANGED finished

Delete ==
    /\ pc = "delete"
    /\ Remove
    /\ pc' = "cancelled"
    /\ UNCHANGED <<stored, status, dataset, body, resolved, due, timer, registry, faults>>

\* A call fails; what it asked for may have been done all the same.
ApiError ==
    /\ pc \in {"resolve", "upsert", "delete"} /\ Fault
    /\ Retry
    /\ \/ UNCHANGED cluster
       \/ pc = "upsert" /\ (Create \/ Patch)
       \/ pc = "delete" /\ Remove

\* Mutant: the spec that is stored as handled is that of the moment.
HandlesLatest == Generation

Handles == body

\* The handler ends and kopf writes its patch; after a 422 there is none.
Finish ==
    /\ pc \in Outcomes
    /\ handled' = Handles /\ outcome' = pc
    /\ phase' = CASE pc = "applied" /\ BodySpec.suspend -> "Suspended"
                  [] pc = "applied" /\ ~BodySpec.suspend -> "Pending"
                  [] pc = "cancelled" -> "Cancelled"
                  [] pc = "invalid" -> "Invalid"
                  [] OTHER -> phase
    /\ pc' = "idle"
    /\ UNCHANGED <<stored, dataset, cluster, body, resolved, due, timer, registry, faults>>

Handle == \/ Pickup \/ Resolve \/ AwaitDataset \/ Upsert \/ Unprocessable \/ Delete
          \/ Finish

(***************************************************************************)
(* The timer: refresh_training_status, concurrent with the handler.        *)
(***************************************************************************)
TimerLook ==
    /\ timer = "idle" /\ pc # "down"
    /\ timer' = IF Current.cancelled THEN "Cancelled" ELSE "reading"
    /\ UNCHANGED <<stored, status, dataset, cluster, handlers, registry, faults>>

\* Mutant: the active pods are looked at before what has failed or succeeded,
\* and a Job without active pods is pending.
PhaseOfActive(j) ==
    IF j.suspend THEN "Suspended" ELSE IF j.active THEN "Running" ELSE "Pending"

PhaseOf(j) ==
    CASE j.suspend -> "Suspended"
      [] ~j.suspend /\ j.succeeded > 0 -> "Succeeded"
      [] ~j.suspend /\ j.succeeded = 0 /\ j.failed > 0 -> "Failed"
      [] OTHER -> IF j.active THEN "Running" ELSE "Pending"

TimerRead ==
    /\ timer = "reading"
    /\ timer' = IF Absent THEN "Pending" ELSE PhaseOf(job)
    /\ UNCHANGED <<stored, status, dataset, cluster, handlers, registry, faults>>

TimerPatch ==
    /\ timer \in Phases
    /\ phase' = timer /\ timer' = "idle"
    /\ UNCHANGED <<stored, handled, outcome, dataset, cluster, handlers, registry, faults>>

Refresh == TimerLook \/ TimerRead \/ TimerPatch

(***************************************************************************)
(* The Job and TTL controllers.                                            *)
(***************************************************************************)
\* One step of the Job, in a Job that exists.
JobStep(j) ==
    /\ job # NoJob /\ job' = j
    /\ finished' = (finished \/ (j # NoJob /\ Finished(j)))
    /\ UNCHANGED <<stored, status, dataset, handlers, timer, registry, faults>>

PodStarts ==
    /\ job # NoJob /\ ~job.suspend /\ ~job.deleting /\ ~job.active /\ ~Finished(job)
    /\ JobStep([job EXCEPT !.active = TRUE])

PodSucceeds ==
    /\ job # NoJob /\ job.active
    /\ JobStep([job EXCEPT !.active = FALSE, !.succeeded = @ + 1])

PodFails ==
    /\ job # NoJob /\ job.active
    /\ JobStep([job EXCEPT !.active = FALSE, !.failed = @ + 1])

\* Suspending a Job terminates its pods, and so does deleting it.
PodStops ==
    /\ job # NoJob /\ job.active /\ (job.suspend \/ job.deleting)
    /\ JobStep([job EXCEPT !.active = FALSE])

JobGoes ==
    /\ job # NoJob /\ job.deleting /\ ~job.active
    /\ JobStep(NoJob)

TtlExpires ==
    /\ job # NoJob /\ job.ttl /\ Finished(job) /\ ~job.active
    /\ JobStep(NoJob)

Operator == Start \/ Crash \/ Handle \/ ApiError \/ Refresh

Cluster == PodStarts \/ PodSucceeds \/ PodFails \/ PodStops \/ JobGoes \/ TtlExpires

Next == \/ Edit
        \/ \E verb \in {"pause", "resume", "cancel"} : Command(verb)
        \/ \E d \in Datasets \cup {NoDataset} : Register(d)
        \/ Operator \/ Cluster

Spec == Init /\ [][Next]_vars

\* The Deployment restarts the operator, kopf calls the handler and the timer,
\* the Job controller stops the pods of a suspended or deleted Job and removes
\* a deleted one.  Nothing is assumed of how long a pod trains.
FairSpec ==
    /\ Spec
    /\ WF_vars(Start) /\ WF_vars(Handle) /\ WF_vars(Refresh)
    /\ WF_vars(PodStops) /\ WF_vars(JobGoes)

-----------------------------------------------------------------------------
(***************************************************************************)
(* Properties.                                                             *)
(***************************************************************************)
\* Every variable keeps its type.
TypeOK ==
    /\ stored \in Seq(RunSpec) /\ Generation > 0
    /\ handled \in 0..Generation /\ phase \in Phases
    /\ outcome \in Outcomes \cup {"none"}
    /\ dataset \in Datasets \cup {NoDataset}
    /\ job \in Job \cup {NoJob}
    /\ finished \in BOOLEAN
    /\ pc \in Labels /\ due \in BOOLEAN
    /\ body \in 0..Generation /\ (pc \notin {"down", "idle"} => body > 0)
    /\ resolved \in Datasets \cup {NoDataset}
    /\ timer \in Phases \cup {"idle", "reading"}
    /\ registry \in 0..MaxEdits /\ faults \in 0..MaxFaults

\* Once a cancelled run has been handled its Job is gone or going, and nothing
\* that was under way when it was cancelled brings another.
CancelIsFinal ==
    (handled = Generation /\ Current.cancelled) => job = NoJob \/ job.deleting

\* A run whose last handling was an application has a Job of its own template,
\* suspended exactly when the run is, or the Job has gone.
JobFollowsSpec ==
    (handled = Generation /\ outcome = "applied" /\ job # NoJob) =>
        /\ job.suspend = Current.suspend
        /\ job.template.image = Current.image

\* No Job ever trains on another version of a Dataset than one that its run
\* has expected, whenever Datasets are replaced: a mismatch is an error and
\* not a fallback (the docs on Datasets).
DatasetAsExpected ==
    job # NoJob => \E g \in 1..Generation :
        /\ stored[g].image = job.template.image
        /\ stored[g].expects = IF job.template.data = NoDataset THEN 0
                               ELSE job.template.data.version

\* A run that has finished and was never cancelled is not run again, whatever
\* restarts, retries, pauses and edits follow: another attempt takes another
\* TrainingRun (the README on training).
FinishedIsNotRepeated ==
    (finished /\ \A g \in 1..Generation : ~stored[g].cancelled) =>
        job = NoJob \/ Finished(job)

\* The same of a run whose Job is kept: no spec has asked for the deletion of
\* finished Jobs (ttlSecondsAfterFinished).
KeptIsNotRepeated ==
    (\A g \in 1..Generation : ~stored[g].ttl) => FinishedIsNotRepeated

\* The handler keeps the promise of Reconciliation: a generation is met by a Job
\* that is going, or, when it was applied, by one of its own image and pause.
Meets(s) ==
    IF s.cancelled THEN job = NoJob \/ job.deleting
    ELSE (outcome = "applied" /\ job # NoJob) =>
            job.suspend = s.suspend /\ job.template.image = s.image

Met == {g \in 1..Generation : Meets(stored[g])}

Promised == INSTANCE Reconciliation WITH
                generation <- Generation, observed <- handled, met <- Met

ImplementsReconciliation == Promised!RSpec

\* A cancelled run loses its Job, whatever has become of its Dataset.
CancelLeadsToGone == Current.cancelled ~> (job = NoJob \/ ~Current.cancelled)

\* A paused run comes to a stop (`pause training` suspends a training Job: the
\* help text of the Slack commands), unless its spec cannot be applied or waits
\* for a Dataset: the handler resolves Datasets before it touches the Job.
PauseStops ==
    Current.suspend ~> \/ job = NoJob \/ ~job.active \/ ~Current.suspend
                       \/ (handled = Generation /\ outcome \in {"invalid", "refused"})
                       \/ (NeedsDataset(Current) /\ dataset = NoDataset)

\* What has finished is reported as finished, unless it was paused or cancelled.
FinishedIsReported ==
    []<>((job # NoJob /\ Finished(job) /\ ~job.suspend /\ ~Current.cancelled)
            => phase \in {"Succeeded", "Failed"})
=============================================================================
