# Model Fleet in TLA+

A verification development for the Model Fleet operator: TLA+ models of the
parts of the program that keep state and meet concurrency and failure, TLC runs
on small instances of them, and theorems checked by TLAPS. Paths below are
relative to the repository; `modelfleet/x.py` is `src/modelfleet/x.py`.

## 1. The system

Model Fleet is a set of processes around Kubernetes custom resources. Nothing
is shared between them but the API server and Kafka.

| Component | Code | State it keeps | Operations |
|---|---|---|---|
| Slack front end | `modelfleet/slack.py` | none but the queue of its Kafka producer | parse a command, check allow-lists and confirmation, `execute`: enqueue it, or `apply` it as a merge patch of `spec` |
| Command transport and worker | `modelfleet/kafka.py`, `modelfleet/command_worker.py` | command topic, event topic, dead-letter topic, the group's committed offset | `Publisher.send`/`enqueue`, `validate_command`, the poll–retry–publish–commit loop |
| Inference reconciler | `modelfleet/operator.py`, `modelfleet/resources.py` | Deployment, Service, ScaledObject, HTTPRoute; `status` of the InferenceService | `reconcile_inference` on create, update, resume; `refresh_inference_status` every 15 s |
| Training reconciler | the same two files | Job; `status` of the TrainingRun | `reconcile_training`, `resolve_training_datasets`, `refresh_training_status` |
| Datasets | `modelfleet/operator.py`, the Dataset CRD | immutable version objects | the handler writes a constant status; TrainingRuns resolve them |
| Agent tasks | `modelfleet/supervisor.py`, `modelfleet/agent_runtime.py`, `sdk/go/agent/agent.go` | AgentTask objects, task topics, result topics, two committed offsets | `submit`, the agents' loops, `consume_results`/`apply_result` |
| Managed agents | `operator.py` `reconcile_agent_registration` | replicas of an annotated Deployment | handler and timer with the same body |
| Agent registry | `modelfleet/registry.py` | AgentRegistration objects | `register` (create, or patch on 409), `list`, `get`, `search` |
| Fleet operations agent | `modelfleet/fleet_agent.py` | none | applies commands from agent tasks; registers itself with five attempts |
| Pod builder and GPU fit | `modelfleet/resources.py` | none (pure) | check init containers, mount datasets, memory per GPU, capacity class, GPU request, node selector, product affinity |
| Cloud quotas | `modelfleet/slack.py` `handle`, `modelfleet/cloud_quotas.py` | the requests and preferences that AWS and GCP keep | pass the gate, read the provider, then request |
| Gateway, cost report, Grafana, tracing, metrics, tokens | the remaining modules | counters | proxying, queries, formatting |

How they interact. Slack (and the fleet agent, and people with kubectl) change
`spec` of custom resources, either by a patch or, with Kafka enabled, through the
command worker. Kopf calls the operator's handlers with a snapshot of the
object; the handlers write children one API call at a time and, at their end,
`status`. Timers of the same objects run concurrently and overwrite
`status.phase`. KEDA, the Deployment, Job and TTL controllers change the
children on their own. The supervisor writes AgentTask objects from two places,
request handlers and a result thread, with two Kafka hops through the agents
between them.

What is hard, and what makes each component correct:

* *Command worker.* Crashes between patch, event and commit; replays of old
  commands over new ones; a partition that moves while a worker retries;
  messages nobody can apply. Correct when nothing is committed without an
  outcome, events are true, the last command of the topic wins, and the
  partition moves on.
* *Agent tasks.* A result may come before its submission has ended; a message
  may be refused without an error; tasks and results are replayed; the result
  thread may die alone. Correct when a result always has an object, what is
  committed is recorded, and the last result counts.
* *Inference reconciler.* The spec changes under the handler; calls fail half
  way or succeed with an error; KEDA scales between two calls; the timer writes
  what it read before. Correct when an observed generation has its children,
  and a service that sleeps stays asleep.
* *Training reconciler.* The Job is immutable and may vanish; Datasets come and
  go; cancelling and pausing race the handler. Correct when a cancelled run has
  no Job, no Job uses an unexpected Dataset, and a finished run is not repeated.
* *Managed agents.* The same body runs as handler and as timer, from different
  copies of the object; the Deployment is read, judged and then scaled without
  looking again; the operations agent can be told to end itself. Correct when
  only a registration that the Deployment names decides its replicas, the
  status ends up true, and tasks are worked off when the agent is awake.
* *Pod builder.* A float that is rounded, boundaries of capacity classes,
  alternatives of an affinity, datasets that clash with the author's own mounts.
  Correct when the pod fits where it may run, runs exactly where it should, and
  nothing is refused without a contradiction.
* *Cloud quotas.* Every Slack message has a thread; between reading a provider
  and asking it for more, another thread or the provider itself may act. Correct
  when only confirmed requests get through, a repeated one does no harm, and
  the answers are true.

The file `PROJECT.json` lists the hazards at their lines with the properties
that watch them.

## 2. The modules

| Module | What it is |
|---|---|
| `FleetCommand` | the commands: what Slack accepts, what `validate_command` accepts, which fields a command sets |
| `CommandDelivery` | abstract: a topic whose messages get an outcome one after the other, once for all, and are committed no further than their outcomes |
| `CommandWorker` | Slack's producer, one partition, the consumer group, the worker loop; implements `CommandDelivery` |
| `CommandWorkerProofs` | its theorems, and the proof of the refinement |
| `AgentTask` | `submit`, the agent loop of both runtimes, the result thread |
| `AgentTaskProofs` | its theorems |
| `Reconciliation` | abstract: an object that is edited while its operator writes children and reports generations as observed |
| `InferenceReconciler` | handler, timer, KEDA, Deployment controller for one InferenceService; implements `Reconciliation` |
| `InferenceReconcilerProofs` | its theorems, and the proof of the refinement |
| `TrainingReconciler` | handler, timer, Datasets, Job and TTL controllers for one TrainingRun; implements `Reconciliation` |
| `TrainingReconcilerProofs` | its theorems, and the proof of the refinement |
| `ManagedAgent` | handler and timer of AgentRegistrations, the Deployment they claim, the registry, the operations agent in its pod |
| `ManagedAgentProofs` | its theorems |
| `PodTemplate` | how the pod of a service or run is built from its spec |
| `PodTemplateProofs` | its theorems |
| `QuotaRequests` | concurrent quota requests from Slack to AWS and GCP |
| `QuotaRequestsProofs` | its theorems |
| `MC...` | the small instances of each for TLC |

`CommandWorker` and the three reconcilers EXTEND `FleetCommand`, so the fields a
command sets are the same definitions where a worker writes them and where a
reconciler reads them.

### CommandWorker

State: `outbox` is the producer queue of the Slack pod, `reports` the delivery
reports that wait for a thread to serve them, `errors` the requests whose `send`
has an error in its list, and `answers` what each request was told; `log` is the partition; `committed`, `owner` and `position`
are the consumer group's view; `pc`, `current`, `attempt` and `failed` are the
local variables of `command_worker.main` (`failed` is "terminal_error is not
empty"); `spec` are the custom resources; `events` and `deadLetters` are the
offsets with an outcome; `landed` is a history variable.

Actions: `Submit` is `execute` and `enqueue` up to the flush. The threads share one
producer, so what `flush` waits for and counts (`Remaining`) are the messages and
reports of all of them, and whichever thread is in `flush` runs the callbacks of
all (`Serve`), which put an error into the list of the send they belong to. A
thread sees nothing remaining (`Flushed`) or runs into the 15 seconds (`TimesOut`);
after that `Acknowledge` and `GiveUp` are the two ends of `Publisher.send`, decided by
its own list (`Confirmed`), which is all it knows of the topic. `Poll` is poll, decode and validate; `Applied`,
`Rejected` and `Choke` are the outcomes of one attempt; `Publish` and
`PublishFails` the outcomes of `send`; `Commit` and `CommitFails` of the commit.
`Crash`, `Assign`, `Rebalance`, `Deliver`, `Drop`, `ForeignProduce` are the
environment; a message that the producer gives up (`Drop`) may be in the topic all
the same. A server error may have applied the patch and a failed publication
may be durable: both are choices. All commands of a resource have one key and so
one partition; resources that share it are the hard case, so one partition is
modelled. Names, actors, event ids and time are left out; every message that is
an object but not a command is the one value `Malformed`, and JSON that is no
object is `NotAnObject`, on which `validate_command` raises an error that `main`
does not catch (`PollChokes`).

### AgentTask

`stage[t]` is where `submit` stands; `sent[t]` its message; `phase[t]` the
status of the object (the `pending` of the create body is dropped by the status
subresource: `unset`); `taskLog`, `results` the topics; `agent`, `taskCommitted`,
`flight` the agent's loop; `recorder`, `resPos`, `resCommitted` the result
thread; `recorded` and `elsewhere` are history: the results that were written to
an object, and those that another supervisor has taken.
`runtime` chooses between the Python worker, whose flush counts what is in
flight and does not report refusals, and the Go SDK, whose transport returns the
error of Publish. Of both, `run` is a thread, or goroutine, beside the health
endpoint: when a publication or the commit after it raises (`AgentFails`) it is
`dead` in a pod that looks well, and
nothing starts it again but the end of the pod.

`ForeignMessage` puts what does not validate into a topic: the Python runtime
validates outside of its `try` and ends (`Chokes`), the Go SDK answers a task
without a name, and the result thread ends on what it cannot validate and may
end on an empty name (`RecordChokes`). `ConsumedElsewhere` is the supervisor of
another namespace, which is in the same consumer group: it finds no object, and
commits. The content of tasks and results and the choice of a skill are left
out; so is the synchronous HTTP transport, which touches none of this state.

### InferenceReconciler

`stored` is the sequence of specs the object has had (its generation is the
length), `body` the generation the handler was called with, `pc` the call it
makes next, `due` that kopf will call it again though the spec is unchanged.
`Write` is what each call does to the children, `Invalid` and `Uninstalled` when
a builder refuses and when KEDA is missing, `ApiError` a call that fails and may
have been done. `TimerLook`, `TimerRead`, `TimerPatch` are the timer's reads and
its write, interleaved with the handler. Whether `build_deployment` accepts the
spec is its Boolean `sound`; `PodTemplate` says what that depends on. A Service
and an HTTPRoute exist or not; `readyReplicas` and messages are left out. One
operator runs: the overlap of two during a rolling update is not modelled.

### Reconciliation

What both reconcilers promise to whoever edits an object, in three steps. `REdit`
adds a generation and leaves the children alone. `RObserve` reports a generation
that the children meet, and never an older one than was reported. `RWork` is
everything else that touches the children (calls that fail half way, a second
handling after a restart, KEDA, the Job controller): it may do anything while the
newest generation is not observed, and once it is, must keep it met. `met` is
computed from the children: for an InferenceService the generations whose spec
`Matches` or cannot be applied, for a TrainingRun those whose cancellation is
done or, if the last handling was an application, whose image and pause the Job has.
AgentRegistrations do not keep this promise: the timer reports the generation of
kopf's live view, which may be newer than the spec it worked from.

### TrainingReconciler

The same kopf model. `job` is a record of what the properties tell apart: its
immutable template (image and resolved Dataset), `suspend`, `ttl`, whether it is
being deleted, its active pod, successes and failures (one pod at a time).
`Register` makes a Dataset appear or go; a new version is a new object of the
same name, as the CRD's immutability rule demands. `Unprocessable` is the 422 of
an immutable template, which writes no status. Templates are taken to differ in a
value that the patch changes, such as the image or a claim: the client's strategic
merge patch adds list entries but does not take away what the new spec lacks, and
such an edit, which the API server would accept, is left out, as is a 422 on create.

### ManagedAgent

`stored[r]` are the specs that registration `r` has had, reduced to what the
reconciliation reads: whether there is a `runtime`, its `activeReplicas`,
`suspend`. All managed registrations name one Deployment, which has an
annotation (`owner`), `replicas`, and may be missing; `serving` says that its
pods run. `pc[r][c]` and `body[r][c]` are the two callers of
`reconcile_agent_registration`, kopf's handler and its timer: `Call` reads the
body, `Read` reads and judges the Deployment, `Scale` patches the scale,
`Finish` writes the status. `Missing` is a TemporaryError and is tried again,
`Invalid` a PermanentError, which the handler does not retry while the timer
comes again at its next interval; an API error writes no status. The
timer's body is kopf's live view of the object, so the generation it reports
may be newer than the spec it used (`Observable`). `linked` is a history
variable.

`AgentStart`, `Execute`, `AgentCommit`, `ThreadDies` and `AgentStops` are the
worker thread of the operations agent, which lives in a pod of that Deployment:
when a publication fails the thread ends and the pod stays healthy, so nothing
starts it again. A task comes from the supervisor or from another producer of
the topic. The parameters that the supervisor sends hold no action, and `_control`
refuses them (`Supervised`): only another producer (`ForeignTask`) and the
agent's own endpoint (`ExecuteNow`, which needs no thread) make it do anything.
`Register` is a card that reaches the registry; the five attempts of the agent
are any number of them. Tasks of the agent for inference services and training
runs are the same `apply` and are left out; so are results, which `AgentTask`
follows.

### PodTemplate

A sequential procedure with one action per step: `pc` names the next step of
`_init_containers`, `_apply_datasets`, `gpu_memory_requirement`, `gpu_class`,
`_apply_accelerator` and `_apply_gpu_product_affinity`, in the order of
the code, and each step goes on or refuses (`InvalidSpec`). `spec` is what the CRD
admits: `products` is absent or has an entry (`minItems: 1`), so that the check of
an empty list never bites, while a GPU request in the container's resources may be any
number, an explicit 0 included. `pod` and `container` are what the steps read and write: selector,
affinity, volumes, GPU request, mounts, names in the environment. A node is a
function of its labels, and `MayRunOn` is what Kubernetes makes of a selector
and a required affinity. Memory is in whole GiB. The formula of the fit plan is a
fraction of naturals; the code computes it with floats and rounds up, so
`Calculated` allows one more GiB where the exact product is whole and the margin
is not zero (50 GiB with a margin of 10 % give 56, not 55). The text
of messages, labels and annotations is left out.

### QuotaRequests

`cmd[r]` is the Slack message that thread `r` handles, `pc[r]` the call that it makes
next. `Handle` is the gate of `handle`: grammar, allow-list, the final `confirm`, whether
quota requests are enabled, the region. `GetQuota`, `ListHistory` and
`RequestIncrease` are `_request_aws`, `GetPreference` and `PatchPreference`
`_request_gcp`; `CallFails` ends any of them, `RequestIsLost` and `PatchIsLost` are
writes whose answer is lost, which boto3 may try again; `Crash` ends the Slack pod.
`AwsDecides` and `GcpSettles` are the providers. Histories, which only the properties
read: `seen` is the providers as they were when a message came, `preferred` the value of
every revision of the preference, `landed` and `lost` the messages that changed a provider
and those among them whose answer was lost. AWS is
modelled as accepting a second request for one quota, the harder case; the
history is taken to fit its first page, which is all that the code reads.

## 3. The runs

Deadlock is not checked: the bounds end every behaviour, and the system may
also be idle.

| Run | Question | Distinct states |
|---|---|---|
| `MCCommandWorker_deliver` | what Slack calls queued is in the topic; nothing unconfirmed lands; replays keep the order of the topic; no commit without an outcome, true events; progress up to the first poison; the refinement of `CommandDelivery`; two workers, with crashes and a partition that moves | 1.0 M |
| `MCAgentTask_deliver` | the Go SDK commits no task before its result; committed results are on their objects and the last one counts; tasks and results are worked off while the threads live; both runtimes | 1.2 M |
| `MCInferenceReconciler_converge` | the children of an observed generation, Invalid, stable sleep; the refinement of `Reconciliation`; edits are observed, phase follows suspend, a woken service comes up | 1.4 M |
| `MCTrainingReconciler_converge` | cancellation, the Job of the spec, Dataset versions, no repetition of a Job that is kept; the refinement of `Reconciliation`; pausing, cancelling and reporting come to an end | 933 k |
| `MCManagedAgent_settle` | only what the Deployment has named scales it; replicas and status settle; an agent that is awake works off its tasks | 645 k |
| `MCPodTemplate_build` | the devices hold the plan, the class is the smallest, placement is exact, mounts are unambiguous, every refusal has a cause | 78 k |
| `MCQuotaRequests_repeat` | only confirmed requests get through, repeating one does no harm, answers are true, whatever other messages do meanwhile | 3.3 M |

The type invariants and the inductive invariants of all modules are proved (section 4),
so no run repeats them.

Five runs show where the program differs from what its documents or its
comments say; TLC's trace is the explanation:

| Run | What happens |
|---|---|
| `MCCommandWorker_reported` | attempt 1 fails with a server error, attempt 2 applies the patch; `terminal_error` still holds the first error, so the applied command is dead-lettered as rejected and gets no `applied` event |
| `MCCommandWorker_poison` | `wake training ns/name` is accepted by Slack and by `validate_command`; `apply` raises KeyError; every worker that polls it ends and the partition stands still |
| `MCAgentTask_overwritten` | the result is recorded before `submit` patches the phase: the task goes from completed back to routed |
| `MCAgentTask_unanswered` | the broker refuses a result; the Python worker's flush returns 0 and the task is committed |
| `MCTrainingReconciler_repeated` | a finished Job is removed by its time to live; the next resume or retry creates it again and trains once more |

Bounds and why they are enough. Two messages, each from Slack or from another
producer, give two commands of one resource, in both orders, with poison before
or after; two attempts give a failure and a success, and both ways of running
out; one fault is one crash, failed publication, lost answer or rebalance at any
point, including a replay of everything that is not committed and two workers in the
middle of the same message. Combinations of several faults are left to the
theorems, which hold for any number. Two tasks and two faults give a replayed
task next to a fresh one and a result thread that dies between patch and commit;
a foreign message is only ever the first fault, which leaves one more for what
it meets. Two edits after the first spec give three generations, so a handler
can be two behind; one error and one decision of KEDA can fall between any two
calls. A repeated command and a change of the registry count as edits, because
each only matters next to the spec it falls on. For training, two Dataset
versions give a Dataset that is replaced between resolution and upsert, or a
missing one. A Job needs one completion and has no retries: it is fresh, active,
suspended or finished, and the states that more pods would add are unfinished
to the reconciler just the same. For managed agents two events (and the free
restarts of pods and operator) give a link and a command, a deletion and a
crash, a sleep and a wake in any order; of the other registration only the timer is a
caller, which may come at any time, as its handler could. For the pod builder
the memory of the plans lies just below, at and above each class, for
one and several devices; affinities have up to two alternatives; two datasets are what
it takes to clash. For quotas three messages are a request, one that overlaps it
and one that repeats it; two values that AWS does not grant yet are lower and higher.
More of each repeats these cases.

Fairness. Weak fairness only, and only of what the deployment guarantees: the
producer's background thread delivers, the group gives an unowned partition to
a member, a Deployment restarts a stopped pod, a running loop goes on, kopf
calls handlers and timers, controllers reconcile. Not of people, faults,
rebalances, installation of KEDA, registration of Datasets, the end of a
training, or the restart of a thread that is dead in a healthy pod (the result
thread of the supervisor, the loop of an agent), which nothing restarts. The conditions of the liveness properties say so:
`HeadOfLineProgress` is of messages before which no poison stands,
`SpecIsObserved` unless KEDA is never installed, `PublishedIsAnswered` unless
the agent's loop has died, `AnsweredIsRecorded` unless the
result thread has died or the other supervisor takes the result, `PauseStops` unless the spec of the pause is refused or its Dataset is missing,
`BacklogIsWorkedOff` unless the thread has died or the agent is put to sleep
again and again. Handler and timer of a registration have fairness of their own,
since kopf runs them concurrently.

Every property of a passing run has a mutant, a named variant of one definition
as a plausible bug would make it (a lost guard, a skipped commit, the latest
generation in place of the snapshot's), under which TLC finds it violated.
Mutants are defined next to what they vary and marked in a comment.

Behaviour the models have that no run lists as a finding, for a reader to
know:

* *Commands.* With a moving partition an old worker may apply an older command
  after a newer one, so `IntentFollowsLog` is checked without rebalances.
* *Inference.* Between the Deployment's patch to zero and the deletion of the
  ScaledObject KEDA may scale up, and nothing sets the suspended service back
  (`SleepIsStable` starts from zero); waking a service without autoscaling whose
  `replicas` is 0 leaves it at 0; each repeated command resets the replicas that
  KEDA chose.
* *Agent tasks.* A task the broker refuses is reported as routed. A result that the
  supervisor of another namespace takes from the shared group is lost
  (`elsewhere`). A task or result that does not validate ends the loop that reads
  it, in a pod that stays healthy, and is read again by the next.
* *Training.* A run whose Dataset has been deleted cannot be paused.
* *Managed agents.* Between the reading of a Deployment and the patch of its
  scale someone may link it to another registration, so the old one scales it
  once more (`OwnerGoverns` says that the new owner sets this right). A task that
  puts the operations agent to sleep and is not committed before its pod goes is
  executed again when someone wakes the agent, which puts it to sleep again.
* *Pod builder.* An empty term of an author's affinity matches no node; with
  products it is filled and then matches theirs (`PlacementIsExact` leaves such
  specs out). A volume of the author's that bears the hashed name of a dataset's is
  mounted in its place, whatever it holds (`MountsAssumption` leaves such specs out).
* *Quotas.* Two AWS messages that overlap are both filed, since each reads the
  history before the other writes. A GCP request may lower a preference that has
  settled. A NaN is not `<= 0` and passes as a desired value. Only the first page
  of AWS's history is read. An error of a provider library that is no
  QuotaError ends the thread without an answer.

## 4. What is proved

TLAPS checks, for every value of the constants that satisfies the named
assumptions of the modules:

`CommandWorkerProofs`
* `DeliveryCorrect`: `Spec => []DeliveryInv`. `CommittedHasOutcome` and
  `EventMeansLanded` are not inductive. They are carried by what a worker knows
  while it holds a message: every message before it has an outcome
  (`HolderIsNext`), it commits only when its own has one
  (`CommitterHasOutcome`), reports only what has landed (`ReporterHasLanded`),
  and is at most one message ahead (`ConsumedHasOutcome`); so outcomes exist for
  exactly a prefix of the log (`Outcomes`). A rebalance, which drops another
  worker on the same message, keeps all of it because it resumes at the
  committed offset.
* `TypeCorrect`, `CommitCoversOutcome`, `EventsAreTrue`: its parts.
* `UnconfirmedNeverLands`: on top of it, from the facts that a worker only handles
  what `validate_command` let through (`HandlesValid`) and that the log only grows
  (`LogGrows`).
* `QueuedMeansDurable`: `QueuedIsDurable`. No guard of Slack's reads the topic. What
  carries it is an account of every message (`Accounted`): the producer holds it, or
  a report of its error waits, or the error is in its list, or it is in the topic.
  Serving a report of another thread's message keeps the account; a flush that left
  nothing over leaves only the last two, and an empty list only the last
  (`AnswerInv`).
* `IntentIsOrdered`: `IntentFollowsLog`. While the partition has not moved, only the
  owner holds a message, the one after the committed offset, so everything that has
  landed is at most that one (`OrderInv`): a patch that lands is the last there is,
  and a replay is a replay of the last (`LandingDecides`).
* `DeliveryImplemented`: `Spec => Delivery!DSpec`, with the set of offsets that have an
  event or a dead letter as `outcomes`. A publication is `Settle`, because everything
  before the message a worker holds has an outcome, or, after a replay, a stutter
  (`SettleStep`); for the same reason a commit is at an offset without a gap before it.

`InferenceReconcilerProofs`
* `ReconcilerCorrect`: `Spec => []ReconcilerInv`. `ObservedIsApplied` is carried
  by `HandlerInOrder`: what has been written so far is what the snapshot asks
  for, and the handler's generation is never older than the observed one.
* `TypeCorrect`, `ObservedMeansApplied`, `InvalidMeansInvalid`: its parts.
* `SleepLasts`: the action property `SleepIsStable`, from the same invariant.
* `ReconciliationImplemented`: `Spec => Promised!RSpec`. The end of the handler is
  `RObserve`, because what `HandlerInOrder` says at that point makes its
  generation met (`EndMeets`), be it the newest or not; an edit is `REdit`
  (`StoreIsEdit`); every other step leaves specs and observation alone and is
  `RWork`, because `ObservedIsApplied` holds after it.

`TrainingReconcilerProofs`
* `TrainingCorrect`: `Spec => []TrainingInv`. `CancelIsFinal` and `JobFollowsSpec` speak
  of the newest generation once it is handled; they are carried by what the
  handler knows of its own, at each point (`HandlerInv`), and by its never
  working for an older generation than one that was handled: while the newest
  is handled, whoever is still at work works for it. `PodInv` says that only what
  has not finished has a pod, so no finished Job turns unfinished. `KeptInv`
  strengthens `KeptIsNotRepeated`: without a time to live and a cancellation,
  in any generation, no Job is being deleted and a finished one stays, so the
  upsert always finds it.
* `TypeCorrect`, `CancelLasts`, `JobIsOfSpec`, `DatasetIsExpected`, `KeptNotRepeated`: its
  parts.
* `ReconciliationImplemented`: the same refinement, with the same three cases.

`AgentTaskProofs`
* `TaskCorrect`: `Spec => []TaskInv`. `CommittedIsRecorded` is carried by the fact that
  whoever reads of a task, in either topic, finds its object (`ObjectInv`: it is
  created before anything is produced) and by what the result thread has polled,
  not only committed (`SettledInv`, `OffsetInv`). `LastResultWins` needs that a
  verdict on an object comes from the recorded result with the highest offset
  (`LastInv`), which a replay from the committed offset keeps because it goes no
  further back than the last recorded result.
* `TypeCorrect`, `CommitMeansRecorded`, `LastCounts`: its parts.
* `GoAnswersBeforeCommit`: `GoAnswersFirst`, the promise that `MCAgentTask_unanswered`
  shows broken for the Python runtime. `GoInv` adds that what counts as delivered is
  an answer to the polled task.

`ManagedAgentProofs`
* `LinkPrevents`: `Spec => []OnlyLinkedScales`, for any number of registrations
  that claim the Deployment. That the annotation names the caller is only known
  when the Deployment is read; by the time it is scaled it may name another. The
  invariant `LinkInv` therefore relates the program counters to every
  annotation there has been, which always includes the present one.
* `TypeCorrect`: types, and that an executed task is not yet committed (`TaskLoop`).

`PodTemplateProofs`, for every set of specs and of nodes
* `FitCorrect`, `ClassCorrect`: the devices hold the plan with its margin, and the
  automatic class is the smallest that does. `FitInv` carries from step to step
  what `required` covers (`MemoryCovers`: the rounding never goes below the
  fraction, `CalculatedCovers`), and what is known of the class (`ClassKnown`).
* `PlacementCorrect`: the finished pod runs exactly where its author, the class and
  the products allow. `PlaceInv` says how far selector and affinity have been
  narrowed; `SelectorNarrows`, `TermNarrows` and `AffinityNarrows` say what a
  narrowing does to the nodes that match: no alternative lets the pod out.
* `MountsCorrect`: `MountsAreRight`. What the author mounts is sound by assumption, and
  `DatasetsMounted` says that the refusals keep it so for any number of datasets.
* `RefusalsCorrect`: `RefusedForCause`. `CauseInv` carries to the choice of the class why
  the memory is what it is (`MemoryNeeded`): by `CalculatedNeeded` the rounding
  exceeds the formula by less than a GiB and one more.
* `TypeCorrect`: types, from both invariants.

`QuotaRequestsProofs`, for any number of messages and faults
* `QuotaCorrect`: `Spec => []QuotaInv`. The properties speak of the providers as
  they were when a message came, the code of what a thread read last. The
  invariant relates both to the present: providers only grow, requests are only
  closed, and a preference of the same revision is the same or settled
  (`SeenInv`, from `Monotone`); and what a thread has read still holds of the
  requests that were there when it began (`AskInv`). What the answers say needs two
  more parts: a thread has changed nothing before its last call, and repeats that
  call only when an answer was lost (`GateInv`); and the last revision of a
  preference has its value (`LastPreferred`).
* `TypeCorrect`, `ConfirmedOnly`, `TruthTold`: its parts.
* `RepeatIsHarmless`, `PendingStays`: the action properties `NotAskedTwice` and
  `PendingIsKept`, from the same invariant.

The assumptions are the named ones of each module: natural bounds, at least one
attempt, manifests that the CRD admits, well-formed specs of pods and quota
commands. `SpecsAssumption` includes that the memory of a plan is positive, as
the CRD demands (`minimum: 0, exclusiveMinimum: true`). `MountsAssumption` is what the API server
and the immutability of Datasets give: the author's own mounts have no path and
no volume name twice, and a Dataset that is listed twice has one claim; it
leaves out an author's volume with a hashed name. `NoneAssumption` and
`NoJobAssumption` only say that the value for an absent affinity is not itself an
affinity, nor that for an absent Job a Job. The bounds on faults and edits are
constants, so the theorems hold for any number of them. Every assumption is
evaluated by the run of its module.

Each inductive invariant was checked by TLC on the instance of its run before it
was proved. Every invariant and every safety property of the passing runs, both
refinements included, is stated by a theorem. Only model-checked: liveness,
which rests on fairness and is out of this prover's reach; and what the runs
refute.

## 5. Not modelled

The gateway is a stateless proxy; the cost report, Grafana, tracing, metrics and
tokens keep no state beyond counters. Charts and infrastructure are manifests.
Status lines and the home view of Slack only read; so do the list, the search
and the status skill of agents. Of what keeps state, these are left out: cards
whose names collide in the registry, the overlap of two operators during a rolling
update, the choice of a skill and the synchronous HTTP transport of the supervisor.

## 6. Plan

Done: all modules of section 2, their runs, and the theorems of section 4, the
refinements of `CommandDelivery` and of `Reconciliation` included.

What is left: two operators that overlap during a rolling update, for the
reconcilers, with the properties that then still hold; the choice of a skill and
the synchronous HTTP transport of the supervisor.
