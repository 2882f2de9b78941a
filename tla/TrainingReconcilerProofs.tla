----------------------- MODULE TrainingReconcilerProofs ----------------------
(***************************************************************************)
(* Theorems about TrainingReconciler, for any number of edits, of Datasets *)
(* and of faults: a cancelled run loses its Job, a Job is that of its spec *)
(* and of the Dataset it expects, and what is kept is not repeated.        *)
(***************************************************************************)
EXTENDS TrainingReconciler, SequenceTheorems, TLAPS

Gone           == job = NoJob \/ job.deleting
Follows(s)     == job # NoJob => job.suspend = s.suspend /\ job.template.image = s.image
VersionOf(d)   == IF d = NoDataset THEN 0 ELSE d.version
Underway       == pc \notin {"down", "idle"}

\* What the handler knows of its generation at each point, and has done for it;
\* it never works for an older generation than one that is handled.
HandlerInv ==
    /\ Underway => handled <= body
    /\ pc \in {"upsert", "applied", "refused", "invalid"} => ~BodySpec.cancelled
    /\ pc \in {"delete", "cancelled"} => BodySpec.cancelled
    /\ pc = "upsert" => BodySpec.expects = VersionOf(resolved)
    /\ pc = "applied" => Follows(BodySpec)
    /\ pc = "cancelled" => Gone

\* Only what has not finished has a pod.
PodInv == job # NoJob /\ job.active => ~Finished(job)

\* Without a time to live and a cancellation, a Job that has finished stays.
Keeping == \A g \in 1..Generation : ~stored[g].ttl /\ ~stored[g].cancelled
KeptInv ==
    Keeping => /\ job # NoJob => ~job.ttl /\ ~job.deleting
               /\ finished => job # NoJob /\ Finished(job)

TrainingInv == /\ TypeOK /\ HandlerInv /\ PodInv /\ KeptInv
               /\ CancelIsFinal /\ JobFollowsSpec /\ DatasetAsExpected

-----------------------------------------------------------------------------
LEMMA StoredType ==
    ASSUME TypeOK
    PROVE  /\ Generation \in Nat \ {0} /\ Current \in RunSpec
           /\ \A g \in 1..Generation : stored[g] \in RunSpec
           /\ body \in Nat /\ handled \in Nat
           /\ Underway => body \in 1..Generation /\ BodySpec \in RunSpec
  <1>1. stored \in Seq(RunSpec) /\ Len(stored) \in Nat /\ Len(stored) > 0
    BY LenProperties DEF TypeOK, Generation
  <1>2. \A g \in 1..Len(stored) : stored[g] \in RunSpec
    BY <1>1, ElementOfSeq
  <1>3. Underway => body \in 1..Generation
    BY <1>1 DEF TypeOK, Underway, Generation
  <1> QED BY <1>1, <1>2, <1>3 DEF TypeOK, Generation, Current, BodySpec

\* Another spec is stored after those there are, and nothing else changes.
Stores(s) ==
    /\ stored' = Append(stored, s) /\ Generation + registry <= MaxEdits
    /\ UNCHANGED <<status, dataset, cluster, handlers, timer, registry, faults>>

LEMMA StoreStep ==
    ASSUME TypeOK, NEW s \in RunSpec, Stores(s)
    PROVE  /\ stored' \in Seq(RunSpec) /\ Generation' = Generation + 1
           /\ \A g \in 1..Generation : stored'[g] = stored[g]
           /\ stored'[Generation + 1] = s
  BY AppendProperties DEF TypeOK, Stores, Generation

LEMMA EditStores ==
    ASSUME TypeOK, Edit \/ \E verb \in {"pause", "resume", "cancel"} : Command(verb)
    PROVE  \E s \in RunSpec : Stores(s)
  <1>1. CASE Edit
    BY <1>1, ConstantsAssumption DEF Edit, Store, Stores
  <1>2. ASSUME NEW verb \in {"pause", "resume", "cancel"}, Command(verb)
        PROVE  \E s \in RunSpec : Stores(s)
    <2> DEFINE c == [verb |-> verb, kind |-> "training", name |-> "t", confirmed |-> TRUE]
    <2>1. CASE verb = "cancel"
      <3>1. "cancelled" \in DOMAIN Fields(c)
        BY <2>1 DEF Fields
      <3>2. Store([Current EXCEPT !.cancelled = TRUE])
        BY <1>2, <3>1 DEF Command
      <3>3. [Current EXCEPT !.cancelled = TRUE] \in RunSpec
        BY StoredType DEF RunSpec
      <3> QED BY <3>2, <3>3 DEF Store, Stores
    <2>2. CASE verb # "cancel"
      <3>1. "cancelled" \notin DOMAIN Fields(c) /\ Fields(c)["suspend"] = (verb = "pause")
        BY <2>2 DEF Fields
      <3>2. Store([Current EXCEPT !.suspend = (verb = "pause")])
        BY <1>2, <3>1 DEF Command
      <3>3. [Current EXCEPT !.suspend = (verb = "pause")] \in RunSpec
        BY StoredType DEF RunSpec
      <3> QED BY <3>2, <3>3 DEF Store, Stores
    <2> QED BY <2>1, <2>2
  <1> QED BY <1>1, <1>2

\* The writes of the handler: what Create and Patch make is a Job of the body.
LEMMA UpsertType ==
    ASSUME TypeOK, pc = "upsert", Create \/ Patch
    PROVE  /\ job' \in Job /\ finished' = finished
           /\ job'.suspend = BodySpec.suspend /\ job'.template = TemplateOf(BodySpec)
           /\ job'.ttl => BodySpec.ttl \/ (job # NoJob /\ job.ttl)
           /\ IF job = NoJob
              THEN ~job'.deleting /\ ~job'.active /\ job'.succeeded = 0 /\ job'.failed = 0
              ELSE /\ job'.deleting = job.deleting /\ job'.active = job.active
                   /\ job'.succeeded = job.succeeded /\ job'.failed = job.failed
  <1>1. BodySpec \in RunSpec
    BY StoredType DEF Underway
  <1>2. TemplateOf(BodySpec) \in Template
    BY <1>1 DEF TypeOK, TemplateOf, Template, RunSpec
  <1>3. 0 \in 0..Completions /\ 0 \in 0..BackoffLimit + 1
    BY ConstantsAssumption
  <1>4. CASE Create
    BY <1>1, <1>2, <1>3, <1>4 DEF Create, Absent, Job, RunSpec
  <1>5. CASE Patch
    <2>1. job \in Job /\ job # NoJob
      BY <1>5 DEF Patch, Absent, TypeOK
    <2> QED BY <1>1, <1>5, <2>1 DEF Patch, Patched, Job, RunSpec
  <1> QED BY <1>4, <1>5

LEMMA RemoveType ==
    ASSUME TypeOK, Remove
    PROVE  /\ finished' = finished
           /\ job = NoJob => job' = NoJob
           /\ job # NoJob => /\ job' \in Job /\ job'.deleting
                             /\ job'.suspend = job.suspend /\ job'.template = job.template
                             /\ job'.ttl = job.ttl /\ job'.active = job.active
                             /\ job'.succeeded = job.succeeded /\ job'.failed = job.failed
  BY DEF Remove, Absent, TypeOK, Job

\* A step of the Job or TTL controller: the Job goes, or keeps what the
\* handler has written; the pod of one that has not finished starts or ends.
LEMMA ClusterType ==
    ASSUME TypeOK, PodInv, Cluster
    PROVE  /\ job \in Job /\ job # NoJob /\ finished \in BOOLEAN /\ finished' \in BOOLEAN
           /\ UNCHANGED <<stored, status, dataset, handlers, timer, registry, faults>>
           /\ \/ /\ job' = NoJob /\ finished' = finished
                 /\ job.deleting \/ job.ttl
              \/ /\ job' \in Job /\ finished' = (finished \/ Finished(job'))
                 /\ job'.suspend = job.suspend /\ job'.template = job.template
                 /\ job'.ttl = job.ttl /\ job'.deleting = job.deleting
                 /\ ~Finished(job) /\ (job'.active => ~Finished(job'))
  <1>1. job \in Job /\ job # NoJob /\ finished \in BOOLEAN
    BY DEF TypeOK, Cluster, PodStarts, PodSucceeds, PodFails, PodStops, JobGoes, TtlExpires
  <1>2. UNCHANGED <<stored, status, dataset, handlers, timer, registry, faults>>
    BY DEF Cluster, PodStarts, PodSucceeds, PodFails, PodStops, JobGoes, TtlExpires, JobStep
  <1>3. CASE JobGoes \/ TtlExpires
    BY <1>1, <1>2, <1>3 DEF JobGoes, TtlExpires, JobStep
  <1>4. CASE PodStarts \/ PodSucceeds \/ PodFails \/ PodStops
    <2>1. ~Finished(job)
      BY <1>1, <1>4 DEF PodStarts, PodSucceeds, PodFails, PodStops, PodInv
    <2>2. PICK j \in {[job EXCEPT !.active = TRUE], [job EXCEPT !.active = FALSE],
                      [job EXCEPT !.active = FALSE, !.succeeded = @ + 1],
                      [job EXCEPT !.active = FALSE, !.failed = @ + 1]} : JobStep(j)
      BY <1>4 DEF PodStarts, PodSucceeds, PodFails, PodStops
    <2>3. /\ job.succeeded \in 0..Completions /\ job.succeeded # Completions
          /\ job.failed \in 0..BackoffLimit + 1 /\ ~(job.failed > BackoffLimit)
          /\ Completions \in Nat \ {0} /\ BackoffLimit \in Nat
      BY <1>1, <2>1, ConstantsAssumption DEF Finished, Job
    <2>4. /\ job.succeeded + 1 \in 0..Completions
          /\ job.failed + 1 \in 0..BackoffLimit + 1
      BY <2>3
    <2>5. /\ j \in Job /\ j.suspend = job.suspend /\ j.template = job.template
          /\ j.ttl = job.ttl /\ j.deleting = job.deleting
          /\ j.active => j.succeeded = job.succeeded /\ j.failed = job.failed
      BY <1>1, <2>2, <2>4 DEF Job
    <2>6. j # NoJob
      BY <2>5, NoJobAssumption
    <2>7. job' = j /\ finished' = (finished \/ Finished(j))
      BY <2>2, <2>6 DEF JobStep
    <2>8. j.active => ~Finished(j)
      BY <2>1, <2>5 DEF Finished
    <2>9. finished' \in BOOLEAN
      BY <2>7
    <2> QED BY <1>1, <1>2, <2>1, <2>5, <2>7, <2>8, <2>9
  <1> QED BY <1>3, <1>4 DEF Cluster

\* The steps by what they do: a spec is stored, the handler or a controller
\* moves, or neither the run nor its Job changes.
Quiet == /\ UNCHANGED <<stored, handled, outcome, cluster>>
         /\ \/ UNCHANGED <<pc, body, resolved>>
            \/ pc' \in {"down", "idle"} /\ UNCHANGED <<body, resolved>>
            \/ Pickup \/ Unprocessable

Upserts == pc = "upsert" /\ (Create \/ Patch) /\ (pc' = "applied" \/ pc' = "idle")
Removes == pc = "delete" /\ Remove /\ (pc' = "cancelled" \/ pc' = "idle")
Writes  == (Upserts \/ Removes) /\ UNCHANGED <<stored, handled, outcome, body, resolved>>

LEMMA StepKinds ==
    ASSUME TypeOK, [Next]_vars
    PROVE  \/ \E s \in RunSpec : Stores(s)
           \/ Resolve \/ Finish \/ Writes \/ Cluster \/ Quiet
  <1>1. CASE Edit \/ \E verb \in {"pause", "resume", "cancel"} : Command(verb)
    BY <1>1, EditStores
  <1>2. CASE Upsert \/ Delete
    BY <1>2 DEF Upsert, Delete, Writes, Upserts, Removes, status
  <1>3. CASE ApiError
    BY <1>3 DEF ApiError, Retry, Writes, Upserts, Removes, Quiet, status
  <1>4. CASE Pickup \/ Unprocessable
    BY <1>4 DEF Pickup, Unprocessable, Quiet, status
  <1>5. CASE Start \/ Crash \/ AwaitDataset
    BY <1>5 DEF Start, Crash, AwaitDataset, Retry, Quiet, status
  <1>6. CASE Refresh \/ (\E d \in Datasets \cup {NoDataset} : Register(d)) \/ UNCHANGED vars
    BY <1>6 DEF Refresh, TimerLook, TimerRead, TimerPatch, Register, vars, Quiet, status, handlers
  <1> QED BY <1>1, <1>2, <1>3, <1>4, <1>5, <1>6 DEF Next, Operator, Handle

LEMMA TypeInit == Init => TypeOK
  <1> SUFFICES ASSUME Init PROVE TypeOK
    OBVIOUS
  <1>1. PICK m \in Manifests : stored = <<m>>
    BY DEF Init
  <1>2. m \in RunSpec
    BY ConstantsAssumption
  <1>3. stored \in Seq(RunSpec) /\ Generation = 1
    BY <1>1, <1>2 DEF Generation
  <1>4. 0 \in 0..MaxEdits /\ 0 \in 0..MaxFaults
    BY ConstantsAssumption
  <1>5. /\ handled = 0 /\ outcome = "none" /\ phase = "none" /\ job = NoJob /\ finished = FALSE
        /\ dataset \in Datasets \cup {NoDataset} /\ resolved = NoDataset
        /\ pc = "down" /\ body = 0 /\ due = FALSE /\ timer = "idle" /\ registry = 0 /\ faults = 0
    BY DEF Init
  <1>6. 0 \in 0..Generation /\ Generation > 0
    BY <1>3
  <1> HIDE DEF Init
  <1> QED BY <1>3, <1>4, <1>5, <1>6 DEF TypeOK, Phases, Outcomes, Labels

LEMMA TypeStep == TypeOK /\ PodInv /\ [Next]_vars => TypeOK'
  <1> SUFFICES ASSUME TypeOK, PodInv, [Next]_vars PROVE TypeOK'
    OBVIOUS
  <1>a. /\ Generation \in Nat \ {0} /\ body \in 0..Generation /\ handled \in 0..Generation
        /\ registry \in 0..MaxEdits /\ faults \in 0..MaxFaults
        /\ MaxEdits \in Nat /\ MaxFaults \in Nat
    BY StoredType, ConstantsAssumption DEF TypeOK
  <1>f. ASSUME Fault \/ UNCHANGED faults PROVE faults' \in 0..MaxFaults
    BY <1>a, <1>f DEF Fault
  <1>g. ASSUME UNCHANGED stored PROVE Generation' = Generation
    BY <1>g DEF Generation
  <1> USE DEF Phases, Outcomes, Labels
  <1>1. ASSUME NEW s \in RunSpec, Stores(s) PROVE TypeOK'
    <2>1. 0..Generation \subseteq 0..Generation' /\ Generation' > 0
      BY <1>1, <1>a, StoreStep
    <2> QED BY <1>1, <2>1, <1>a, StoreStep DEF Stores, status, cluster, handlers, TypeOK
  <1>2. ASSUME NEW d \in Datasets \cup {NoDataset}, Register(d) PROVE TypeOK'
    <2>1. registry + 1 \in 0..MaxEdits
      BY <1>2, <1>a DEF Register
    <2> QED BY <1>2, <2>1, <1>g DEF Register, status, cluster, handlers, TypeOK
  <1>3. CASE Start \/ Crash \/ Pickup
    <2>1. /\ UNCHANGED <<stored, status, dataset, cluster, resolved, registry>>
          /\ Fault \/ UNCHANGED faults
          /\ pc' \in {"down", "idle", "resolve"} /\ due' \in BOOLEAN /\ timer' \in {"idle", timer}
          /\ \/ body' = body /\ pc' \in {"down", "idle"}
             \/ body' = Generation
      BY <1>3 DEF Start, Crash, Pickup
    <2>2. body' \in 0..Generation /\ (pc' \notin {"down", "idle"} => body' > 0)
      BY <2>1, <1>a
    <2> QED BY <2>1, <2>2, <1>f, <1>g DEF status, cluster, TypeOK
  <1>4. CASE Resolve \/ Unprocessable \/ AwaitDataset
    <2>1. /\ UNCHANGED <<stored, status, dataset, cluster, body, timer, registry, faults>>
          /\ pc' \in {"idle", "upsert", "delete", "invalid", "refused"} /\ due' \in BOOLEAN
          /\ body > 0 /\ resolved' \in Datasets \cup {NoDataset}
      BY <1>4 DEF Resolve, Unprocessable, AwaitDataset, Retry, TypeOK
    <2> QED BY <2>1, <1>a, <1>g DEF status, cluster, TypeOK
  <1>5. CASE Upsert \/ Delete \/ ApiError
    <2>1. job' \in Job \cup {NoJob} /\ finished' \in BOOLEAN
      BY <1>5, UpsertType, RemoveType
         DEF Upsert, Delete, ApiError, cluster, TypeOK
    <2>2. /\ pc' \in {"idle", "applied", "cancelled"} /\ body > 0
          /\ UNCHANGED <<stored, status, dataset, body, resolved, timer, registry>>
          /\ due' \in BOOLEAN /\ (Fault \/ UNCHANGED faults)
      BY <1>5 DEF Upsert, Delete, ApiError, Retry, TypeOK
    <2> QED BY <2>1, <2>2, <1>a, <1>f, <1>g DEF status, TypeOK
  <1>6. CASE Finish
    <2>1. /\ handled' \in 0..Generation /\ outcome' \in Outcomes /\ pc' = "idle"
          /\ UNCHANGED <<stored, dataset, cluster, body, resolved, due, timer, registry, faults>>
      BY <1>6, <1>a DEF Finish, Handles
    <2>2. phase' \in Phases
      BY <1>6 DEF Finish, TypeOK
    <2> QED BY <2>1, <2>2, <1>a, <1>g DEF cluster, TypeOK
  <1>7. CASE Refresh
    <2>1. timer' \in Phases \cup {"idle", "reading"} /\ phase' \in Phases
      BY <1>7 DEF Refresh, TimerLook, TimerRead, TimerPatch, PhaseOf, status, TypeOK
    <2>2. UNCHANGED <<stored, handled, outcome, dataset, cluster, handlers, registry, faults>>
      BY <1>7 DEF Refresh, TimerLook, TimerRead, TimerPatch, status
    <2> QED BY <2>1, <2>2, <1>g DEF cluster, handlers, TypeOK
  <1>8. CASE Cluster
    BY <1>8, <1>g, ClusterType DEF status, handlers, TypeOK
  <1>9. CASE UNCHANGED vars
    BY <1>9, <1>g DEF vars, status, cluster, handlers, TypeOK
  <1>10. CASE Edit \/ \E verb \in {"pause", "resume", "cancel"} : Command(verb)
    BY <1>1, <1>10, EditStores
  <1> QED BY <1>2, <1>3, <1>4, <1>5, <1>6, <1>7, <1>8, <1>9, <1>10 DEF Next, Operator, Handle

\* Storing a spec changes neither those before it nor, so, that of the handler.
LEMMA StoreKeeps ==
    ASSUME TypeOK, NEW s \in RunSpec, Stores(s)
    PROVE  /\ handled' # Generation' /\ (Underway => BodySpec' = BodySpec)
           /\ 1..Generation \subseteq 1..Generation'
           /\ \A g \in 1..Generation : stored'[g] = stored[g]
           /\ UNCHANGED <<handled, outcome, job, finished, pc, body, resolved>>
  <1>1. UNCHANGED <<handled, outcome, job, finished, pc, body, resolved>>
    BY DEF Stores, status, cluster, handlers
  <1>2. /\ Generation \in Nat /\ handled \in 0..Generation /\ Generation' = Generation + 1
        /\ \A g \in 1..Generation : stored'[g] = stored[g]
        /\ Underway => body \in 1..Generation
    BY StoredType, StoreStep DEF TypeOK
  <1>3. Generation \in Nat /\ Generation' = Generation + 1 => 1..Generation \subseteq 1..Generation'
    OBVIOUS
  <1> QED BY <1>1, <1>2, <1>3 DEF BodySpec

\* In the other steps the spec stays, and a write of the Job is that of the
\* latest generation when the latest is handled already.
LEMMA SpecKept ==
    ASSUME TypeOK, Resolve \/ Finish \/ Writes \/ Quiet
    PROVE  UNCHANGED <<stored, Generation, Current>>
  BY DEF Resolve, Finish, Writes, Quiet, Generation, Current

LEMMA LatestBody ==
    ASSUME TypeOK, HandlerInv, Underway, handled = Generation
    PROVE  body = Generation /\ BodySpec = Current
  <1>1. Generation \in Nat /\ body \in 0..Generation /\ handled <= body
    BY StoredType DEF TypeOK, HandlerInv
  <1> QED BY <1>1 DEF BodySpec, Current

LEMMA PodStep ==
    ASSUME TypeOK, PodInv, [Next]_vars
    PROVE  PodInv'
  <1>1. ASSUME NEW s \in RunSpec, Stores(s) PROVE PodInv'
    BY <1>1 DEF Stores, cluster, PodInv, Finished
  <1>2. CASE Resolve \/ Finish \/ Quiet
    BY <1>2 DEF Resolve, Finish, Quiet, cluster, PodInv, Finished
  <1>3. CASE Writes
    BY <1>3, UpsertType, RemoveType, ConstantsAssumption
       DEF Writes, Upserts, Removes, PodInv, Finished
  <1>4. CASE Cluster
    BY <1>4, ClusterType DEF PodInv
  <1> QED BY <1>1, <1>2, <1>3, <1>4, StepKinds

LEMMA HandlerStep ==
    ASSUME TypeOK, PodInv, HandlerInv, [Next]_vars
    PROVE  HandlerInv'
  <1>1. ASSUME NEW s \in RunSpec, Stores(s) PROVE HandlerInv'
    BY <1>1, StoreKeeps DEF HandlerInv, Underway, Follows, Gone, VersionOf
  <1>2. CASE Resolve
    <2>1. /\ UNCHANGED <<stored, handled, body>> /\ BodySpec' = BodySpec
          /\ pc = "resolve" /\ pc' \in {"invalid", "delete", "upsert"}
          /\ pc' \in {"invalid", "upsert"} => ~BodySpec.cancelled
          /\ pc' = "delete" => BodySpec.cancelled
      BY <1>2 DEF Resolve, status, BodySpec, NeedsDataset
    <2>2. pc' = "upsert" => BodySpec.expects = VersionOf(resolved')
      BY <1>2 DEF Resolve, NeedsDataset, Mismatch, VersionOf
    <2> QED BY <2>1, <2>2 DEF HandlerInv, Underway, VersionOf
  <1>3. CASE Finish
    BY <1>3 DEF Finish, HandlerInv, Underway
  <1>4. CASE Writes
    <2>1. UNCHANGED <<handled, body, BodySpec>>
      BY <1>4 DEF Writes, BodySpec
    <2>2. CASE Upserts
      <3>1. job'.suspend = BodySpec.suspend /\ job'.template.image = BodySpec.image
        BY <2>2, UpsertType DEF Upserts, TemplateOf
      <3> QED BY <2>1, <2>2, <3>1 DEF Upserts, HandlerInv, Underway, Follows
    <2>3. CASE Removes
      <3>1. Gone'
        BY <2>3, RemoveType DEF Removes, Gone
      <3> QED BY <2>1, <2>3, <3>1 DEF Removes, HandlerInv, Underway
    <2> QED BY <1>4, <2>2, <2>3 DEF Writes
  <1>5. CASE Cluster
    <2>1. UNCHANGED <<handled, pc, body, resolved, BodySpec>>
      BY <1>5, ClusterType DEF status, handlers, BodySpec
    <2>2. (Gone => Gone') /\ (Follows(BodySpec) => Follows(BodySpec)')
      BY <1>5, <2>1, ClusterType DEF Gone, Follows
    <2> QED BY <2>1, <2>2 DEF HandlerInv, Underway, VersionOf
  <1>6. CASE Quiet
    <2>1. UNCHANGED <<stored, handled, job>>
      BY <1>6 DEF Quiet, cluster
    <2>2. CASE UNCHANGED <<pc, body, resolved>>
      BY <2>1, <2>2 DEF HandlerInv, Underway, BodySpec, VersionOf, Follows, Gone
    <2>3. CASE pc' \in {"down", "idle"}
      BY <2>3 DEF HandlerInv, Underway
    <2>4. CASE Pickup
      <3>1. handled <= Generation
        BY StoredType DEF TypeOK
      <3> QED BY <2>1, <2>4, <3>1 DEF Pickup, HandlerInv, Underway
    <2>5. CASE Unprocessable
      BY <2>1, <2>5 DEF Unprocessable, HandlerInv, Underway, BodySpec
    <2> QED BY <1>6, <2>2, <2>3, <2>4, <2>5 DEF Quiet
  <1> QED BY <1>1, <1>2, <1>3, <1>4, <1>5, <1>6, StepKinds

LEMMA CancelStep ==
    ASSUME TypeOK, PodInv, HandlerInv, CancelIsFinal, [Next]_vars
    PROVE  CancelIsFinal'
  <1> USE DEF CancelIsFinal
  <1>1. ASSUME NEW s \in RunSpec, Stores(s) PROVE CancelIsFinal'
    BY <1>1, StoreKeeps
  <1>2. CASE Resolve \/ Quiet
    BY <1>2, SpecKept DEF Resolve, Quiet, status, cluster
  <1>3. CASE Finish
    <2>1. /\ UNCHANGED <<Generation, Current, job>>
          /\ pc \in Outcomes /\ Underway /\ handled' = body
      BY <1>3, SpecKept DEF Finish, Handles, cluster, Outcomes, Underway
    <2>2. ASSUME handled' = Generation', Current'.cancelled
          PROVE  Gone
      <3>1. BodySpec.cancelled
        BY <2>1, <2>2 DEF BodySpec, Current
      <3> QED BY <2>1, <3>1 DEF HandlerInv, Outcomes
    <2> QED BY <2>1, <2>2 DEF Gone
  <1>4. CASE Writes
    <2>1. UNCHANGED <<Generation, Current, handled>>
      BY <1>4, SpecKept DEF Writes
    <2>2. CASE Upserts
      BY <2>1, <2>2, LatestBody DEF Upserts, HandlerInv, Underway
    <2>3. CASE Removes
      BY <2>3, RemoveType DEF Removes
    <2> QED BY <1>4, <2>2, <2>3 DEF Writes
  <1>5. CASE Cluster
    BY <1>5, ClusterType DEF status, Generation, Current
  <1> QED BY <1>1, <1>2, <1>3, <1>4, <1>5, StepKinds

LEMMA FollowsStep ==
    ASSUME TypeOK, PodInv, HandlerInv, JobFollowsSpec, [Next]_vars
    PROVE  JobFollowsSpec'
  <1> USE DEF JobFollowsSpec
  <1>1. ASSUME NEW s \in RunSpec, Stores(s) PROVE JobFollowsSpec'
    BY <1>1, StoreKeeps
  <1>2. CASE Resolve \/ Quiet
    BY <1>2, SpecKept DEF Resolve, Quiet, status, cluster
  <1>3. CASE Finish
    <2>1. /\ UNCHANGED <<Generation, Current, job>>
          /\ handled' = body /\ outcome' = pc
      BY <1>3, SpecKept DEF Finish, Handles, cluster
    <2>2. ASSUME handled' = Generation', outcome' = "applied"
          PROVE  Follows(Current)
      BY <2>1, <2>2 DEF HandlerInv, BodySpec, Current
    <2> QED BY <2>1, <2>2 DEF Follows
  <1>4. CASE Writes
    <2>1. UNCHANGED <<Generation, Current, handled, outcome>>
      BY <1>4, SpecKept DEF Writes
    <2>2. CASE Upserts
      <3>1. job'.suspend = BodySpec.suspend /\ job'.template.image = BodySpec.image
        BY <2>2, UpsertType DEF Upserts, TemplateOf
      <3> QED BY <2>1, <2>2, <3>1, LatestBody DEF Upserts, Underway
    <2>3. CASE Removes
      BY <2>1, <2>3, RemoveType DEF Removes
    <2> QED BY <1>4, <2>2, <2>3 DEF Writes
  <1>5. CASE Cluster
    BY <1>5, ClusterType DEF status, Generation, Current
  <1> QED BY <1>1, <1>2, <1>3, <1>4, <1>5, StepKinds

LEMMA DatasetStep ==
    ASSUME TypeOK, PodInv, HandlerInv, DatasetAsExpected, [Next]_vars
    PROVE  DatasetAsExpected'
  <1> USE DEF DatasetAsExpected
  <1>1. ASSUME NEW s \in RunSpec, Stores(s) PROVE DatasetAsExpected'
    BY <1>1, StoreKeeps
  <1>2. CASE Resolve \/ Quiet \/ Finish
    BY <1>2, SpecKept DEF Resolve, Quiet, Finish, cluster
  <1>3. CASE Writes
    <2>1. UNCHANGED <<Generation, stored>>
      BY <1>3, SpecKept
    <2>2. CASE Upserts
      <3>1. body \in 1..Generation
        BY <2>2, StoredType DEF Upserts, Underway
      <3>2. /\ stored[body].image = job'.template.image
            /\ stored[body].expects = VersionOf(job'.template.data)
        BY <2>2, UpsertType DEF Upserts, TemplateOf, HandlerInv, BodySpec
      <3> QED BY <2>1, <3>1, <3>2 DEF VersionOf
    <2>3. CASE Removes
      BY <2>1, <2>3, RemoveType DEF Removes
    <2> QED BY <1>3, <2>2, <2>3 DEF Writes
  <1>4. CASE Cluster
    BY <1>4, ClusterType DEF Generation
  <1> QED BY <1>1, <1>2, <1>3, <1>4, StepKinds

LEMMA KeptStep ==
    ASSUME TypeOK, PodInv, HandlerInv, KeptInv, [Next]_vars
    PROVE  KeptInv'
  <1>1. ASSUME NEW s \in RunSpec, Stores(s) PROVE KeptInv'
    BY <1>1, StoreKeeps DEF KeptInv, Keeping, Finished
  <1>2. CASE Resolve \/ Quiet \/ Finish
    BY <1>2, SpecKept DEF Resolve, Quiet, Finish, cluster, KeptInv, Keeping, Finished
  <1>3. CASE Writes
    <2>1. Keeping' = Keeping
      BY <1>3, SpecKept DEF Keeping
    <2>2. Underway => body \in 1..Generation
      BY StoredType
    <2>3. CASE Upserts
      <3>1. ASSUME Keeping PROVE ~BodySpec.ttl
        BY <2>2, <2>3, <3>1 DEF Upserts, Underway, Keeping, BodySpec
      <3>2. job' \in Job /\ job' # NoJob
        BY <2>3, UpsertType, NoJobAssumption DEF Upserts
      <3>3. ASSUME Keeping PROVE ~job'.ttl /\ ~job'.deleting
        BY <2>3, <3>1, <3>3, UpsertType DEF Upserts, KeptInv
      <3>4. ASSUME Keeping, finished' PROVE Finished(job')
        BY <2>3, <3>4, UpsertType DEF Upserts, KeptInv, Finished
      <3> QED BY <2>1, <3>2, <3>3, <3>4 DEF KeptInv, Finished
    <2>4. CASE Removes
      BY <2>1, <2>2, <2>4 DEF Removes, HandlerInv, Underway, Keeping, BodySpec, KeptInv
    <2> QED BY <1>3, <2>3, <2>4 DEF Writes
  <1>4. CASE Cluster
    <2>1. Keeping' = Keeping
      BY <1>4, ClusterType DEF Keeping, Generation
    <2>2. ASSUME Keeping
          PROVE  /\ job' \in Job /\ job' # NoJob /\ ~job'.ttl /\ ~job'.deleting
                 /\ finished' => Finished(job')
      BY <1>4, <2>2, ClusterType, NoJobAssumption DEF KeptInv
    <2> QED BY <2>1, <2>2 DEF KeptInv, Finished
  <1> QED BY <1>1, <1>2, <1>3, <1>4, StepKinds

LEMMA TrainingInit == Init => TrainingInv
  <1> SUFFICES ASSUME Init PROVE TrainingInv
    OBVIOUS
  <1>1. TypeOK
    BY TypeInit
  <1>2. Generation # handled /\ job = NoJob /\ finished = FALSE /\ pc = "down"
    BY <1>1 DEF Init, TypeOK
  <1> QED BY <1>1, <1>2 DEF TrainingInv, HandlerInv, Underway, PodInv, KeptInv, CancelIsFinal,
                            JobFollowsSpec, DatasetAsExpected

-----------------------------------------------------------------------------
\* What holds of a TrainingRun at every step of reconcile_training, of the timer
\* and of the controllers, for any edits, Datasets, crashes and API errors: the
\* invariant that the theorems below are read from.
THEOREM TrainingCorrect == Spec => []TrainingInv
  <1>1. TrainingInv /\ [Next]_vars => TrainingInv'
    BY TypeStep, PodStep, HandlerStep, CancelStep, FollowsStep, DatasetStep, KeptStep
       DEF TrainingInv
  <1> QED BY TrainingInit, <1>1, PTL DEF Spec

\* The run, its Job, its handler and its timer keep their types: the Job
\* controller never counts more completions or failures than the Job allows,
\* and the handler only works for a generation that has been stored.
THEOREM TypeCorrect == Spec => []TypeOK
  BY TrainingCorrect, PTL DEF TrainingInv

\* Once a cancelled run has been handled its Job is gone or going: neither a
\* retry nor a crash, nor the handling of an older generation, creates it again.
THEOREM CancelLasts == Spec => []CancelIsFinal
  BY TrainingCorrect, PTL DEF TrainingInv

\* A run that reconcile_training has applied has a Job of its own image,
\* suspended exactly when the run is, or no Job any more.
THEOREM JobIsOfSpec == Spec => []JobFollowsSpec
  BY TrainingCorrect, PTL DEF TrainingInv

\* resolve_training_datasets never lets a Job be created for another version of
\* the Dataset than one the run expects, whenever Datasets come and go between
\* its read of the Dataset and the creation of the Job.
THEOREM DatasetIsExpected == Spec => []DatasetAsExpected
  BY TrainingCorrect, PTL DEF TrainingInv

\* A run that has finished, was never cancelled and never asked for the deletion
\* of its Job is not run again by create_or_update_job, whatever retries,
\* restarts, pauses and edits follow.
THEOREM KeptNotRepeated == Spec => []KeptIsNotRepeated
  <1>1. TrainingInv => KeptIsNotRepeated
    BY DEF TrainingInv, KeptInv, Keeping, KeptIsNotRepeated, FinishedIsNotRepeated
  <1> QED BY TrainingCorrect, <1>1, PTL

-----------------------------------------------------------------------------
(* The refinement of Reconciliation.                                       *)

\* Met may only gain the new generation.
LEMMA OneMore ==
    ASSUME NEW n \in Nat, NEW M \in SUBSET (1..n), NEW N \in SUBSET (1..(n + 1)),
           \A g \in 1..n : g \in N <=> g \in M
    PROVE  N \in {M, M \cup {n + 1}}
  <1>1. \A g : g \in 1..(n + 1) <=> g \in 1..n \/ g = n + 1
    OBVIOUS
  <1>2. CASE n + 1 \in N
    BY <1>1, <1>2
  <1>3. CASE n + 1 \notin N
    BY <1>1, <1>3
  <1> QED BY <1>2, <1>3

LEMMA StoreIsEdit ==
    ASSUME TypeOK, NEW s \in RunSpec, Stores(s)
    PROVE  Promised!REdit
  <1>1. /\ Generation \in Nat /\ Generation' = Generation + 1
        /\ \A g \in 1..Generation : stored'[g] = stored[g]
        /\ UNCHANGED <<handled, outcome, job>>
    BY StoredType, StoreStep, StoreKeeps
  <1>2. \A r : Meets(r)' = Meets(r)
    BY <1>1 DEF Meets
  <1>3. \A g \in 1..Generation : g \in Met' <=> g \in Met
    BY <1>1, <1>2 DEF Met
  <1>4. Met \subseteq 1..Generation /\ Met' \subseteq 1..(Generation + 1)
    BY <1>1 DEF Met
  <1>5. Met' \in {Met, Met \cup {Generation + 1}}
    BY <1>1, <1>3, <1>4, OneMore
  <1> QED BY <1>1, <1>5 DEF Promised!REdit

\* What the handler has done when it ends meets its generation.
LEMMA FinishObserves ==
    ASSUME TypeOK, HandlerInv, Finish
    PROVE  Promised!RObserve
  <1>1. /\ pc \in Outcomes /\ Underway /\ handled' = body /\ outcome' = pc
        /\ UNCHANGED <<stored, Generation, job>>
    BY SpecKept DEF Finish, Handles, cluster, Outcomes, Underway
  <1>2. body \in 1..Generation /\ handled <= body
    BY <1>1, StoredType DEF HandlerInv
  <1>3. CASE BodySpec.cancelled
    <2>1. job' = NoJob \/ job'.deleting
      BY <1>1, <1>3 DEF HandlerInv, Outcomes, Gone
    <2> QED BY <1>1, <1>2, <1>3, <2>1 DEF Promised!RObserve, Met, Meets, BodySpec
  <1>4. CASE ~BodySpec.cancelled
    <2>1. outcome' = "applied" /\ job' # NoJob =>
             job'.suspend = BodySpec.suspend /\ job'.template.image = BodySpec.image
      BY <1>1 DEF HandlerInv, Follows
    <2> QED BY <1>1, <1>2, <1>4, <2>1 DEF Promised!RObserve, Met, Meets, BodySpec
  <1> QED BY <1>3, <1>4

\* While the newest generation is observed it stays met.
LEMMA WorkKeepsMet ==
    ASSUME TypeOK, CancelIsFinal', JobFollowsSpec', UNCHANGED <<stored, handled>>
    PROVE  Promised!RWork
  <1>1. Generation \in Nat \ {0} /\ Generation' = Generation /\ Current' = Current
    BY StoredType DEF Generation, Current
  <1>2. Met' \subseteq 1..Generation
    BY <1>1 DEF Met
  <1>3. handled = Generation => Meets(Current)'
    BY <1>1 DEF CancelIsFinal, JobFollowsSpec, Meets
  <1>4. handled = Generation => Generation \in Met'
    BY <1>1, <1>3 DEF Met, Meets, Current
  <1> QED BY <1>1, <1>2, <1>4 DEF Promised!RWork

\* reconcile_training keeps the promise of Reconciliation, whatever edits,
\* Datasets, crashes, failing calls and controllers interleave with it.
THEOREM ReconciliationImplemented == Spec => ImplementsReconciliation
  <1>1. Init => Promised!RInit
    BY DEF Init, Promised!RInit, Generation, Met
  <1>2. TrainingInv /\ TrainingInv' /\ [Next]_vars => [Promised!RNext]_(Promised!rvars)
    <2> SUFFICES ASSUME TrainingInv, TrainingInv', [Next]_vars PROVE Promised!RNext
      OBVIOUS
    <2> USE DEF TrainingInv, Promised!RNext
    <2>1. ASSUME NEW s \in RunSpec, Stores(s) PROVE Promised!REdit
      BY <2>1, StoreIsEdit
    <2>2. CASE Finish
      BY <2>2, FinishObserves
    <2>3. CASE Resolve \/ Writes \/ Cluster \/ Quiet
      <3>1. UNCHANGED <<stored, handled>>
        BY <2>3, ClusterType DEF Resolve, Writes, Quiet, status
      <3> QED BY <3>1, WorkKeepsMet
    <2> QED BY <2>1, <2>2, <2>3, StepKinds
  <1> QED BY <1>1, <1>2, TrainingCorrect, PTL DEF Spec, ImplementsReconciliation, Promised!RSpec
=============================================================================
