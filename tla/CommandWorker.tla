--------------------------- MODULE CommandWorker ---------------------------
(***************************************************************************)
(* The durable command path: Slack enqueues a command (slack.py, kafka.py) *)
(* to a partition of the command topic, and the workers of a consumer      *)
(* group (command_worker.py) apply it to the Kubernetes custom resources,  *)
(* publish an event or a dead letter, and commit.                          *)
(*                                                                         *)
(* One partition is modelled: every command of a resource has the same key *)
(* and so lands in one partition, and resources that share a partition are *)
(* the hard case.  Offsets count from 1.  The broker, the group            *)
(* coordinator and the API server are external: they are modelled by the   *)
(* answers the code can get from them.                                     *)
(***************************************************************************)
EXTENDS FleetCommand, Sequences, FiniteSets, FiniteSetsExt

CONSTANTS Workers,         \* the pods of the command worker
          NoWorker,        \* nobody owns the partition
          Commands,        \* the commands people ask for
          MaxAttempts,     \* KAFKA_MAX_ATTEMPTS
          MaxMessages,     \* bound: requests in Slack and foreign messages
          MaxFaults        \* bound: crashes, time-outs, failed publications, rebalances

ASSUME ConstantsAssumption ==
    /\ NoWorker \notin Workers
    /\ MaxAttempts \in Nat \ {0}
    /\ MaxMessages \in Nat /\ MaxFaults \in Nat

VARIABLES
    answers,       \* answers[i]: what Slack has said of request i
    outbox,        \* the Slack pod's producer queue, not yet at the broker
    reports,       \* its delivery reports that no thread has served: [id, error]
    errors,        \* the requests whose own list `errors` is not empty
    log,           \* the partition: a sequence of [id, cmd]; id 0 is foreign
    committed,     \* the group's committed offset
    owner,         \* the worker the group has given the partition to
    pc,            \* pc[w]: where w is in its loop
    position,      \* position[w]: the last offset w's consumer has returned
    current,       \* current[w]: the offset of the message w holds
    attempt,       \* attempt[w]: the loop variable of the retries
    failed,        \* failed[w]: terminal_error is not empty
    spec,          \* spec[r]: the spec fields of the custom resource r
    landed,        \* the offsets whose patch has reached a resource (history)
    events,        \* the offsets with an `applied` event
    deadLetters,   \* the offsets with a dead letter
    faults,        \* how many faults have happened (bound)
    rebalances     \* how many rebalances have happened (bound)

slackVars  == <<answers, outbox, reports, errors>>
groupVars  == <<committed, owner, position, rebalances>>
loopVars   == <<pc, current, attempt, failed>>
effectVars == <<spec, landed, events, deadLetters>>
vars == <<slackVars, log, groupVars, loopVars, effectVars, faults>>

Answers == {"waiting", "flushed", "queued", "failed"}
Labels  == {"stopped", "idle", "handling", "report", "deadLetter", "committing"}
Unusable == {Malformed, NotAnObject}
Message == [id : Nat, cmd : Commands \cup Unusable]
Report  == [id : Nat, error : BOOLEAN]
Resources == {Key(c) : c \in Commands}

Reported == events \cup deadLetters
Foreign  == {o \in 1..Len(log) : log[o].id = 0}
MayFail  == faults + rebalances < MaxFaults
Busy(w)  == pc[w] \in {"handling", "report", "deadLetter", "committing"}

Init ==
    /\ answers = <<>> /\ outbox = <<>> /\ reports = <<>> /\ errors = {}
    /\ log = <<>>
    /\ committed = 0 /\ owner = NoWorker
    /\ pc = [w \in Workers |-> "stopped"]
    /\ position = [w \in Workers |-> 0]
    /\ current = [w \in Workers |-> 0]
    /\ attempt = [w \in Workers |-> 0]
    /\ failed = [w \in Workers |-> FALSE]
    /\ spec = [r \in Resources |-> [f \in FieldNames |-> FALSE]]
    /\ landed = {} /\ events = {} /\ deadLetters = {}
    /\ faults = 0 /\ rebalances = 0

(***************************************************************************)
(* Slack: FleetClient.execute, Publisher.enqueue and Publisher.send.       *)
(* Requests are handled by threads that share one producer.  Each produces *)
(* with a callback of its own and then flushes, which waits for what all   *)
(* of them have produced and runs the callbacks of all of them.            *)
(***************************************************************************)
Submit(c) ==
    /\ Len(answers) + Cardinality(Foreign) < MaxMessages
    /\ SlackAccepts(c) /\ Valid(c)
    /\ answers' = Append(answers, "waiting")
    /\ outbox' = Append(outbox, [id |-> Len(answers) + 1, cmd |-> c])
    /\ UNCHANGED <<reports, errors, log, groupVars, loopVars, effectVars, faults>>

\* The producer takes its first message off its queue and reports what became
\* of it; the report waits for a thread that serves it.
TakeOff(error) ==
    /\ outbox # <<>>
    /\ outbox' = Tail(outbox)
    /\ reports' = Append(reports, [id |-> Head(outbox).id, error |-> error])
    /\ UNCHANGED <<answers, errors, groupVars, loopVars, effectVars>>

\* The producer delivers in the order it was given, while flush waits for it
\* and after a flush has given up.
Deliver ==
    /\ TakeOff(FALSE)
    /\ log' = Append(log, Head(outbox))
    /\ UNCHANGED faults

\* The producer gives a message up, which may be in the topic all the same.
Drop ==
    /\ MayFail /\ TakeOff(TRUE)
    /\ log' = log \/ log' = Append(log, Head(outbox))
    /\ faults' = faults + 1

\* A thread in flush serves the next report, of its own message or of another's:
\* the callback `delivered` puts an error into the list of the send it is of.
Serve ==
    /\ reports # <<>> /\ \E i \in DOMAIN answers : answers[i] = "waiting"
    /\ reports' = Tail(reports)
    /\ errors' = IF Head(reports).error THEN errors \cup {Head(reports).id} ELSE errors
    /\ UNCHANGED <<answers, outbox, log, groupVars, loopVars, effectVars, faults>>

\* What flush counts: the messages of all threads that are not delivered, and
\* those whose report is not served.
Remaining == Len(outbox) + Len(reports)

\* flush returns 0 to one thread; others may produce before it goes on.
Flushed(i) ==
    /\ answers[i] = "waiting" /\ Remaining = 0
    /\ answers' = [answers EXCEPT ![i] = "flushed"]
    /\ UNCHANGED <<outbox, reports, errors, log, groupVars, loopVars, effectVars, faults>>

\* Mutant: send looks at what flush returns but not at the delivery errors.
ConfirmedByFlush(i) == answers[i] = "flushed"

\* send returns: nothing remained, and its own list of errors is empty.
Confirmed(i) == answers[i] = "flushed" /\ i \notin errors

Acknowledge(i) ==
    /\ Confirmed(i)
    /\ answers' = [answers EXCEPT ![i] = "queued"]
    /\ UNCHANGED <<outbox, reports, errors, log, groupVars, loopVars, effectVars, faults>>

\* flush returns what remains after 15 seconds, be it of another thread: send
\* raises, and the message may still be delivered.
TimesOut(i) ==
    /\ answers[i] = "waiting" /\ Remaining > 0 /\ MayFail
    /\ answers' = [answers EXCEPT ![i] = "failed"]
    /\ faults' = faults + 1
    /\ UNCHANGED <<outbox, reports, errors, log, groupVars, loopVars, effectVars>>

\* send raises the error that its own message was given.
GiveUp(i) ==
    /\ answers[i] = "flushed" /\ ~Confirmed(i)
    /\ answers' = [answers EXCEPT ![i] = "failed"]
    /\ UNCHANGED <<outbox, reports, errors, log, groupVars, loopVars, effectVars, faults>>

\* Another producer writes to the topic: a replayed dead letter, or a message
\* that is no command at all.
ForeignProduce ==
    /\ Len(answers) + Cardinality(Foreign) < MaxMessages
    /\ \E c \in Commands \cup Unusable :
          log' = Append(log, [id |-> 0, cmd |-> c])
    /\ UNCHANGED <<slackVars, groupVars, loopVars, effectVars, faults>>

(***************************************************************************)
(* The consumer group.                                                     *)
(***************************************************************************)
\* Mutant: the group's offset is ignored and the topic is read from its start.
ResumeFromStart == 0

\* Mutant: a group without a committed offset starts at the end of the topic.
ResumeFromLatest == IF committed = 0 THEN Len(log) ELSE committed

\* A worker that gets the partition resumes after the committed offset.
ResumeFrom == committed

Assign(w) ==
    /\ owner = NoWorker /\ pc[w] # "stopped"
    /\ owner' = w
    /\ position' = [position EXCEPT ![w] = ResumeFrom]
    /\ UNCHANGED <<slackVars, log, committed, rebalances, loopVars, effectVars, faults>>

\* The group moves the partition to w although v runs: workers were added, or
\* v stayed too long between two polls.  No callback tells v, which goes on
\* with the message it holds.
Rebalance(w) ==
    /\ owner \notin {NoWorker, w} /\ pc[w] # "stopped"
    /\ MayFail
    /\ owner' = w
    /\ position' = [position EXCEPT ![w] = ResumeFrom]
    /\ rebalances' = rebalances + 1
    /\ UNCHANGED <<slackVars, log, committed, loopVars, effectVars, faults>>

(***************************************************************************)
(* The worker: command_worker.main.                                        *)
(***************************************************************************)
Start(w) ==
    /\ pc[w] = "stopped"
    /\ pc' = [pc EXCEPT ![w] = "idle"]
    /\ UNCHANGED <<slackVars, log, groupVars, current, attempt, failed, effectVars, faults>>

\* The process ends, by an exception that main does not catch or by a signal:
\* its memory is lost and it leaves the group.
Leave(w) ==
    /\ pc' = [pc EXCEPT ![w] = "stopped"]
    /\ owner' = IF owner = w THEN NoWorker ELSE owner
    /\ position' = [position EXCEPT ![w] = 0]
    /\ current' = [current EXCEPT ![w] = 0]
    /\ attempt' = [attempt EXCEPT ![w] = 0]
    /\ failed' = [failed EXCEPT ![w] = FALSE]

Crash(w) ==
    /\ pc[w] # "stopped" /\ MayFail
    /\ faults' = faults + 1
    /\ Leave(w)
    /\ UNCHANGED <<slackVars, log, committed, rebalances, effectVars>>

\* Mutant: a refused message is passed over.
VerdictSkips(c) == IF Valid(c) THEN "handling" ELSE "idle"

\* After validate_command: a refused message is dead-lettered.
Verdict(c) == IF Valid(c) THEN "handling" ELSE "deadLetter"

\* poll returns the next message of the partition; the worker decodes and
\* validates it and enters the retry loop, or the dead-letter branch.
Poll(w) ==
    /\ pc[w] = "idle" /\ owner = w
    /\ position[w] < Len(log) /\ log[position[w] + 1].cmd # NotAnObject
    /\ position' = [position EXCEPT ![w] = @ + 1]
    /\ current' = [current EXCEPT ![w] = position[w] + 1]
    /\ attempt' = [attempt EXCEPT ![w] = 1]
    /\ failed' = [failed EXCEPT ![w] = FALSE]
    /\ pc' = [pc EXCEPT ![w] = Verdict(log[position[w] + 1].cmd)]
    /\ UNCHANGED <<slackVars, log, committed, owner, rebalances, effectVars, faults>>

\* validate_command raises AttributeError on what is not an object; only
\* ValueError and TypeError are caught, and the process ends.
PollChokes(w) ==
    /\ pc[w] = "idle" /\ owner = w
    /\ position[w] < Len(log) /\ log[position[w] + 1].cmd = NotAnObject
    /\ Leave(w)
    /\ UNCHANGED <<slackVars, log, committed, rebalances, effectVars, faults>>

Land(o) ==
    LET c == log[o].cmd
    IN  /\ spec' = [spec EXCEPT ![Key(c)] = Merge(@, Fields(c))]
        /\ landed' = landed \cup {o}
        /\ UNCHANGED <<events, deadLetters>>

\* Mutant: the branch after the retries forgets the error.
AfterRetriesAlways(error) == "report"

\* The branch after the retry loop: any error it has seen is terminal.
AfterRetries(error) == IF error THEN "deadLetter" ELSE "report"

\* process returns: the patch is in.  terminal_error keeps what an earlier
\* attempt has left in it.
Applied(w) ==
    /\ pc[w] = "handling" /\ Applicable(log[current[w]].cmd)
    /\ Land(current[w])
    /\ pc' = [pc EXCEPT ![w] = AfterRetries(failed[w])]
    /\ UNCHANGED <<slackVars, log, groupVars, current, attempt, failed, faults>>

LastAttempt(w) == attempt[w] = MaxAttempts

\* process raises ApiException.  The statuses 400, 403, 404 and 422 end the
\* loop, as the last attempt does; a server error may have applied the patch.
Rejected(w) ==
    /\ pc[w] = "handling" /\ Applicable(log[current[w]].cmd)
    /\ failed' = [failed EXCEPT ![w] = TRUE]
    /\ \E clientError \in BOOLEAN, done \in BOOLEAN :
          /\ clientError => ~done
          /\ IF done THEN Land(current[w]) /\ MayFail /\ faults' = faults + 1
                     ELSE UNCHANGED <<effectVars, faults>>
          /\ IF clientError \/ LastAttempt(w)
                THEN pc' = [pc EXCEPT ![w] = AfterRetries(TRUE)] /\ UNCHANGED attempt
                ELSE attempt' = [attempt EXCEPT ![w] = @ + 1] /\ UNCHANGED pc
    /\ UNCHANGED <<slackVars, log, groupVars, current>>

\* FleetClient.apply has no fields for the command: KeyError ends the process.
Choke(w) ==
    /\ pc[w] = "handling" /\ ~Applicable(log[current[w]].cmd)
    /\ Leave(w)
    /\ UNCHANGED <<slackVars, log, committed, rebalances, effectVars, faults>>

Record(w) ==
    /\ events' = IF pc[w] = "report" THEN events \cup {current[w]} ELSE events
    /\ deadLetters' = IF pc[w] = "deadLetter" THEN deadLetters \cup {current[w]}
                                              ELSE deadLetters
    /\ UNCHANGED <<spec, landed>>

\* Every branch commits after its publication.
AfterPublish(w) == "committing"

\* Publisher.send returns: the event or the dead letter is durable.
Publish(w) ==
    /\ pc[w] \in {"report", "deadLetter"}
    /\ Record(w)
    /\ pc' = [pc EXCEPT ![w] = AfterPublish(w)]
    /\ UNCHANGED <<slackVars, log, groupVars, current, attempt, failed, faults>>

\* Publisher.send raises, which ends the process; the message may be durable.
PublishFails(w) ==
    /\ pc[w] \in {"report", "deadLetter"} /\ MayFail
    /\ faults' = faults + 1
    /\ Record(w) \/ UNCHANGED effectVars
    /\ Leave(w)
    /\ UNCHANGED <<slackVars, log, committed, rebalances>>

\* Mutant: the offset is committed without waiting for the publication.
MayCommitEarly(w) == pc[w] \in {"report", "deadLetter", "committing"}

\* The commit follows the publication in the loop.
MayCommit(w) == pc[w] = "committing"

\* A commit of a worker that has lost the partition but is still a member of
\* the group is accepted, and may take the offset back.  The variables
\* of the loop body end with the message.
Commit(w) ==
    /\ MayCommit(w)
    /\ committed' = current[w]
    /\ pc' = [pc EXCEPT ![w] = "idle"]
    /\ current' = [current EXCEPT ![w] = 0]
    /\ attempt' = [attempt EXCEPT ![w] = 0]
    /\ failed' = [failed EXCEPT ![w] = FALSE]
    /\ UNCHANGED <<slackVars, log, owner, position, rebalances, effectVars, faults>>

\* A commit is refused when the group has put the worker out.
CommitFails(w) ==
    /\ MayCommit(w) /\ owner # w
    /\ Leave(w)
    /\ UNCHANGED <<slackVars, log, committed, rebalances, effectVars, faults>>

Slack == \/ \E c \in Commands : Submit(c)
         \/ \E i \in 1..Len(answers) : \/ Flushed(i) \/ TimesOut(i)
                                        \/ Acknowledge(i) \/ GiveUp(i)
         \/ Deliver \/ Drop \/ Serve

Group == \E w \in Workers : Assign(w) \/ Rebalance(w)

Loop(w) == \/ Poll(w) \/ PollChokes(w) \/ Applied(w) \/ Rejected(w) \/ Choke(w)
           \/ Publish(w) \/ Commit(w)

Worker(w) == Start(w) \/ Loop(w) \/ PublishFails(w) \/ CommitFails(w) \/ Crash(w)

Next == Slack \/ ForeignProduce \/ Group \/ \E w \in Workers : Worker(w)

Spec == Init /\ [][Next]_vars

(***************************************************************************)
(* Fairness: the producer's background thread delivers what it holds, the  *)
(* coordinator gives an unowned partition to a member, the Deployment      *)
(* restarts a stopped pod, and a running worker runs its loop.  Nothing is *)
(* assumed of the people who ask, of faults and of rebalances.             *)
(***************************************************************************)
Fairness ==
    /\ WF_vars(Deliver)
    /\ WF_vars(\E w \in Workers : Assign(w))
    /\ \A w \in Workers : WF_vars(Start(w)) /\ WF_vars(Loop(w))

FairSpec == Spec /\ Fairness

-----------------------------------------------------------------------------
(***************************************************************************)
(* Properties.                                                             *)
(***************************************************************************)
\* Every variable keeps its type; positions and offsets stay within the log.
TypeOK ==
    /\ answers \in Seq(Answers)
    /\ outbox \in Seq(Message) /\ log \in Seq(Message)
    /\ reports \in Seq(Report) /\ errors \subseteq Nat
    /\ committed \in 0..Len(log)
    /\ owner \in Workers \cup {NoWorker}
    /\ pc \in [Workers -> Labels]
    /\ position \in [Workers -> 0..Len(log)]
    /\ current \in [Workers -> 0..Len(log)]
    /\ attempt \in [Workers -> 0..MaxAttempts]
    /\ failed \in [Workers -> BOOLEAN]
    /\ spec \in [Resources -> [FieldNames -> BOOLEAN]]
    /\ landed \subseteq 1..Len(log)
    /\ events \subseteq 1..Len(log)
    /\ deadLetters \subseteq 1..Len(log)
    /\ faults \in 0..MaxFaults /\ rebalances \in 0..MaxFaults

\* No message is committed away: every offset up to the committed one has an
\* event or a dead letter, whatever crashes, replays and rebalances happened
\* (the comment on the commit in command_worker.main).
CommittedHasOutcome == \A o \in 1..committed : o \in Reported

\* An `applied` event is only ever published of a command whose patch is in.
EventMeansLanded == events \subseteq landed

\* The two parts above are not inductive: what carries them is that a worker
\* only holds a message whose predecessors all have an outcome, and reaches
\* the commit only with an outcome of its own.
HolderIsNext ==
    \A w \in Workers : Busy(w) =>
        /\ current[w] \in 1..Len(log)
        /\ \A o \in 1..(current[w] - 1) : o \in Reported

CommitterHasOutcome ==
    \A w \in Workers : pc[w] = "committing" => current[w] \in Reported

ReporterHasLanded ==
    \A w \in Workers : pc[w] = "report" => current[w] \in landed

ConsumedHasOutcome ==
    \A w \in Workers : \A o \in 1..position[w] :
        o \in Reported \/ (Busy(w) /\ o = current[w])

Outcomes == \E n \in 0..Len(log) : Reported = 1..n

\* The inductive invariant: an outcome exists for exactly a prefix of the log
\* and every worker is at most one message ahead of what it has reported.
DeliveryInv ==
    /\ TypeOK
    /\ CommittedHasOutcome /\ EventMeansLanded
    /\ HolderIsNext /\ CommitterHasOutcome /\ ReporterHasLanded
    /\ ConsumedHasOutcome /\ Outcomes

Durable(i) == \E o \in 1..Len(log) : log[o].id = i

\* A request that Slack has answered with "Queued" is in the topic.  What Slack
\* knows is that a flush, which waits for the messages of other threads and runs
\* their callbacks, left nothing over, and that its own callback, which any
\* thread may have run, had no error (Publisher.send).
QueuedIsDurable == \A i \in DOMAIN answers : answers[i] = "queued" => Durable(i)

\* Whatever was put into the topic, no unconfirmed sleep or cancel is applied.
OnlyConfirmedLands ==
    \A o \in landed : log[o].cmd.verb \in Destructive => log[o].cmd.confirmed

\* The order of the topic decides: each field of a resource has the value that
\* the last applied command which sets it gave it, whatever was replayed.  Only
\* when the partition moves under a running worker may an older patch come late.
LastSetter(r, f) ==
    {o \in landed : Key(log[o].cmd) = r /\ f \in DOMAIN Fields(log[o].cmd)}

IntentFollowsLog ==
    rebalances = 0 => \A r \in Resources, f \in FieldNames :
        LET setters == LastSetter(r, f)
        IN  spec[r][f] = IF setters = {} THEN FALSE
                         ELSE Fields(log[Max(setters)].cmd)[f]

\* A command that was applied and then committed has its `applied` event.
AppliedIsReported == \A o \in 1..committed : o \in landed => o \in events

\* Every message before which no poison stands eventually has its outcome.  (Not
\* its commit: a worker that has lost the partition may take the offset back.)
HeadOfLineProgress ==
    \A o \in 1..MaxMessages :
        (o <= Len(log) /\ \A p \in 1..o : ~Poison(log[p].cmd)) ~> (o \in Reported)

\* Every message that reaches the topic eventually has an outcome.
EveryCommandIsSettled ==
    \A o \in 1..MaxMessages : (o <= Len(log)) ~> (o \in Reported)

\* The topic keeps its promise: at least once, outcomes in the order of the
\* commands, none taken back, and no commit past an outcome.
Delivery == INSTANCE CommandDelivery WITH
                accepted <- Len(log), outcomes <- Reported

ImplementsDelivery == Delivery!DSpec
=============================================================================
