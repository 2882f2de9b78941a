------------------------ MODULE CommandWorkerProofs ------------------------
(***************************************************************************)
(* Theorems about CommandWorker, for every set of workers and commands and *)
(* every value of the bounds.                                              *)
(***************************************************************************)
EXTENDS CommandWorker, TLAPS

(* The values that a command writes are Booleans, so a merge patch keeps   *)
(* the type of a resource's spec (FleetClient.apply).                      *)
LEMMA MergeType ==
    ASSUME NEW c, NEW old \in [FieldNames -> BOOLEAN]
    PROVE  Merge(old, Fields(c)) \in [FieldNames -> BOOLEAN]
<1>1. ASSUME NEW f \in DOMAIN Fields(c) PROVE Fields(c)[f] \in BOOLEAN
  <2>1. CASE c.kind = "training" /\ c.verb = "cancel"
    BY <2>1, <1>1 DEF Fields
  <2>2. CASE c.kind = "training" /\ c.verb # "cancel"
    BY <2>2, <1>1 DEF Fields
  <2>3. CASE c.kind = "agent"
    BY <2>3, <1>1 DEF Fields
  <2>4. CASE c.kind # "training" /\ c.kind # "agent"
    <3>1. Fields(c) = [f1 \in {"suspend", "forceActive"} |->
                          IF f1 = "suspend" THEN c.verb = "sleep" ELSE c.verb = "wake"]
      BY <2>4 DEF Fields
    <3> QED BY <3>1, <1>1
  <2> QED BY <2>1, <2>2, <2>3, <2>4
<1> QED BY <1>1 DEF Merge

(* What landing a patch does to the types.                                 *)
LEMMA LandType ==
    ASSUME TypeOK, NEW o \in 1..Len(log), Land(o)
    PROVE  /\ spec' \in [Resources -> [FieldNames -> BOOLEAN]]
           /\ landed' \subseteq 1..Len(log)
<1> DEFINE c == log[o].cmd
<1>1. spec' = [spec EXCEPT ![Key(c)] = Merge(spec[Key(c)], Fields(c))]
  BY DEF Land
<1>2. Key(c) \in Resources => spec[Key(c)] \in [FieldNames -> BOOLEAN]
  BY DEF TypeOK
<1>3. Key(c) \in Resources => Merge(spec[Key(c)], Fields(c)) \in [FieldNames -> BOOLEAN]
  BY <1>2, MergeType
<1>4. spec' \in [Resources -> [FieldNames -> BOOLEAN]]
  BY <1>1, <1>3 DEF TypeOK
<1>5. landed' \subseteq 1..Len(log)
  BY DEF Land, TypeOK
<1> QED BY <1>4, <1>5

(* Queues: what appending and taking off do to the elements.               *)
LEMMA AppendFacts ==
    ASSUME NEW S, NEW s \in Seq(S), NEW e \in S
    PROVE  /\ Append(s, e) \in Seq(S) /\ Len(s) \in Nat
           /\ Len(Append(s, e)) = Len(s) + 1 /\ Append(s, e)[Len(s) + 1] = e
           /\ \A i \in 1..Len(s) : Append(s, e)[i] = s[i]
OBVIOUS

LEMMA TailFacts ==
    ASSUME NEW S, NEW s \in Seq(S), s # <<>>
    PROVE  /\ Head(s) = s[1] /\ Head(s) \in S /\ Tail(s) \in Seq(S) /\ Len(s) \in Nat
           /\ Len(Tail(s)) = Len(s) - 1
           /\ \A i \in 2..Len(s) : i - 1 \in 1..Len(Tail(s)) /\ Tail(s)[i - 1] = s[i]
OBVIOUS

(* A thread of Slack goes on.                                              *)
Answering(i) == Flushed(i) \/ TimesOut(i) \/ Acknowledge(i) \/ GiveUp(i)

(* What the producer takes off its queue becomes a report.                 *)
LEMMA TakeOffType ==
    ASSUME TypeOK, NEW error \in BOOLEAN, TakeOff(error)
    PROVE  /\ Head(outbox) \in Message /\ outbox' \in Seq(Message)
           /\ reports' \in Seq(Report)
<1>1. outbox \in Seq(Message) /\ outbox # <<>> /\ outbox' = Tail(outbox)
  BY DEF TakeOff, TypeOK
<1>2. Head(outbox) \in Message /\ Tail(outbox) \in Seq(Message)
  BY <1>1
<1>3. [id |-> Head(outbox).id, error |-> error] \in Report
  BY <1>2 DEF Message, Report
<1> QED BY <1>1, <1>2, <1>3 DEF TakeOff, TypeOK

(* Every step keeps the types, given that a busy worker holds an offset of *)
(* the log: the history sets only ever get offsets that a worker holds.    *)
LEMMA TypeStep == TypeOK /\ HolderIsNext /\ [Next]_vars => TypeOK'
<1> SUFFICES ASSUME TypeOK, HolderIsNext, [Next]_vars PROVE TypeOK'
  OBVIOUS
<1> USE ConstantsAssumption
<1>1. ASSUME NEW c \in Commands, Submit(c) PROVE TypeOK'
  <2>1. [id |-> Len(answers) + 1, cmd |-> c] \in Message
    BY DEF TypeOK, Message
  <2>2. answers' \in Seq(Answers) /\ outbox' \in Seq(Message)
    BY <1>1, <2>1, AppendFacts DEF Submit, TypeOK, Answers
  <2>3. UNCHANGED <<reports, errors, log, groupVars, loopVars, effectVars, faults>>
    BY <1>1 DEF Submit
  <2> QED BY <2>2, <2>3 DEF TypeOK, groupVars, loopVars, effectVars
<1>2. CASE Deliver \/ Drop
  <2>1. PICK error \in BOOLEAN : TakeOff(error)
    BY <1>2 DEF Deliver, Drop
  <2>2. /\ Head(outbox) \in Message /\ outbox' \in Seq(Message)
        /\ reports' \in Seq(Report)
    BY <2>1, TakeOffType
  <2>3. /\ log' \in Seq(Message) /\ Len(log) \in Nat /\ Len(log') \in Nat
        /\ Len(log) <= Len(log')
    <3>1. log \in Seq(Message) /\ (log' = log \/ log' = Append(log, Head(outbox)))
      BY <1>2 DEF Deliver, Drop, TypeOK
    <3>2. CASE log' = log
      BY <3>1, <3>2
    <3>3. CASE log' = Append(log, Head(outbox))
      BY <2>2, <3>1, <3>3, AppendFacts
    <3> QED BY <3>1, <3>2, <3>3
  <2>4. UNCHANGED <<answers, errors, groupVars, loopVars, effectVars>>
    BY <2>1 DEF TakeOff
  <2>5. /\ position' \in [Workers -> 0..Len(log')] /\ current' \in [Workers -> 0..Len(log')]
        /\ committed' \in 0..Len(log') /\ landed' \subseteq 1..Len(log')
        /\ events' \subseteq 1..Len(log') /\ deadLetters' \subseteq 1..Len(log')
    <3>1. 0..Len(log) \subseteq 0..Len(log') /\ 1..Len(log) \subseteq 1..Len(log')
      BY <2>3
    <3> QED BY <2>4, <3>1 DEF TypeOK, groupVars, loopVars, effectVars
  <2>6. faults' \in 0..MaxFaults
    <3>1. faults' = faults \/ (MayFail /\ faults' = faults + 1)
      BY <1>2 DEF Deliver, Drop
    <3>2. faults \in 0..MaxFaults /\ rebalances \in 0..MaxFaults
      BY DEF TypeOK
    <3> QED BY <3>1, <3>2 DEF MayFail
  <2> QED BY <2>2, <2>3, <2>4, <2>5, <2>6 DEF TypeOK, groupVars, loopVars, effectVars
<1>3. CASE Serve
  <2>1. reports' \in Seq(Report) /\ errors' \subseteq Nat
    <3>1. reports \in Seq(Report) /\ reports # <<>> /\ errors \subseteq Nat
      BY <1>3 DEF Serve, TypeOK
    <3>2. Head(reports) \in Report /\ Tail(reports) \in Seq(Report)
      BY <3>1, TailFacts
    <3>3. Head(reports).id \in Nat
      BY <3>2 DEF Report
    <3>4. errors' \in {errors, errors \cup {Head(reports).id}} /\ reports' = Tail(reports)
      BY <1>3 DEF Serve
    <3> QED BY <3>1, <3>2, <3>3, <3>4
  <2> QED BY <1>3, <2>1 DEF Serve, TypeOK, groupVars, loopVars, effectVars
<1>4. ASSUME NEW i \in 1..Len(answers), Answering(i) PROVE TypeOK'
  <2>1. PICK a \in Answers : answers' = [answers EXCEPT ![i] = a]
    BY <1>4 DEF Answering, Flushed, TimesOut, Acknowledge, GiveUp, Answers
  <2>2. answers' \in Seq(Answers)
    BY <2>1 DEF TypeOK
  <2>3. faults' \in 0..MaxFaults
    BY <1>4 DEF Answering, Flushed, TimesOut, Acknowledge, GiveUp, MayFail, TypeOK
  <2>4. UNCHANGED <<outbox, reports, errors, log, groupVars, loopVars, effectVars>>
    BY <1>4 DEF Answering, Flushed, TimesOut, Acknowledge, GiveUp
  <2> QED
    BY <2>2, <2>3, <2>4 DEF TypeOK, groupVars, loopVars, effectVars
<1>5. CASE ForeignProduce
  <2>1. PICK c \in Commands \cup Unusable : log' = Append(log, [id |-> 0, cmd |-> c])
    BY <1>5 DEF ForeignProduce
  <2>2. [id |-> 0, cmd |-> c] \in Message
    BY DEF Message
  <2>3. log' \in Seq(Message) /\ Len(log') = Len(log) + 1
    BY <2>1, <2>2 DEF TypeOK
  <2> QED BY <1>5, <2>3 DEF ForeignProduce, TypeOK, slackVars, groupVars, loopVars, effectVars
<1>6. ASSUME NEW w \in Workers, Assign(w) \/ Rebalance(w) PROVE TypeOK'
  <2>1. /\ position' \in [Workers -> 0..Len(log)]
        /\ owner' \in Workers \cup {NoWorker}
        /\ rebalances' \in 0..MaxFaults
    <3>1. /\ position' = [position EXCEPT ![w] = committed] /\ owner' = w
          /\ \/ rebalances' = rebalances
             \/ MayFail /\ rebalances' = rebalances + 1
      BY <1>6 DEF Assign, Rebalance, ResumeFrom
    <3> QED BY <3>1 DEF TypeOK, MayFail
  <2>2. UNCHANGED <<slackVars, log, committed, loopVars, effectVars, faults>>
    BY <1>6 DEF Assign, Rebalance
  <2> QED BY <2>1, <2>2 DEF TypeOK, slackVars, loopVars, effectVars
<1>7. ASSUME NEW w \in Workers, Worker(w) PROVE TypeOK'
  <2>1. ASSUME Leave(w)
        PROVE  /\ pc' \in [Workers -> Labels] /\ owner' \in Workers \cup {NoWorker}
               /\ position' \in [Workers -> 0..Len(log)]
               /\ current' \in [Workers -> 0..Len(log)]
               /\ attempt' \in [Workers -> 0..MaxAttempts]
               /\ failed' \in [Workers -> BOOLEAN]
    BY <2>1 DEF Leave, TypeOK, Labels
  <2>2. CASE Start(w)
    BY <2>2 DEF Start, TypeOK, Labels, slackVars, groupVars, effectVars
  <2>3. CASE Crash(w)
    <3>1. Leave(w) /\ faults' \in 0..MaxFaults
      BY <2>3 DEF Crash, MayFail, TypeOK
    <3>2. UNCHANGED <<slackVars, log, committed, rebalances, effectVars>>
      BY <2>3 DEF Crash
    <3> QED BY <2>1, <3>1, <3>2 DEF TypeOK, slackVars, effectVars
  <2>4. CASE Choke(w)
    BY <2>4, <2>1 DEF Choke, TypeOK, slackVars, effectVars
  <2>5. CASE CommitFails(w) \/ PollChokes(w)
    BY <2>5, <2>1 DEF CommitFails, PollChokes, TypeOK, slackVars, effectVars
  <2>6. CASE Poll(w)
    <3>1. position[w] + 1 \in 0..Len(log)
      BY <2>6 DEF Poll, TypeOK
    <3>2. Verdict(log[position[w] + 1].cmd) \in Labels
      BY DEF Verdict, Labels
    <3>3. /\ position' \in [Workers -> 0..Len(log)] /\ current' \in [Workers -> 0..Len(log)]
          /\ attempt' \in [Workers -> 0..MaxAttempts] /\ failed' \in [Workers -> BOOLEAN]
          /\ pc' \in [Workers -> Labels]
      BY <2>6, <3>1, <3>2 DEF Poll, TypeOK
    <3>4. UNCHANGED <<slackVars, log, committed, owner, rebalances, effectVars, faults>>
      BY <2>6 DEF Poll
    <3> QED BY <3>3, <3>4 DEF TypeOK, slackVars, effectVars
  <2>7. CASE Applied(w)
    <3>1. current[w] \in 1..Len(log)
      BY <2>7 DEF Applied, HolderIsNext, Busy
    <3>2. /\ spec' \in [Resources -> [FieldNames -> BOOLEAN]]
          /\ landed' \subseteq 1..Len(log)
      BY <2>7, <3>1, LandType DEF Applied
    <3>3. pc' \in [Workers -> Labels]
      BY <2>7 DEF Applied, AfterRetries, Labels, TypeOK
    <3> QED BY <2>7, <3>2, <3>3 DEF Applied, Land, TypeOK, slackVars, groupVars
  <2>8. CASE Rejected(w)
    <3>1. current[w] \in 1..Len(log)
      BY <2>8 DEF Rejected, HolderIsNext, Busy
    <3>4. /\ spec' \in [Resources -> [FieldNames -> BOOLEAN]]
          /\ landed' \subseteq 1..Len(log)
          /\ UNCHANGED <<events, deadLetters>>
          /\ faults' \in 0..MaxFaults
      <4>1. \/ UNCHANGED <<effectVars, faults>>
            \/ Land(current[w]) /\ MayFail /\ faults' = faults + 1
        BY <2>8 DEF Rejected
      <4>2. CASE UNCHANGED <<effectVars, faults>>
        BY <4>2 DEF TypeOK, effectVars
      <4>3. CASE Land(current[w]) /\ MayFail /\ faults' = faults + 1
        <5>1. faults' \in 0..MaxFaults /\ UNCHANGED <<events, deadLetters>>
          BY <4>3 DEF TypeOK, Land, MayFail
        <5> QED BY <4>3, <5>1, <3>1, LandType
      <4> QED BY <4>1, <4>2, <4>3
    <3>5. /\ pc' \in [Workers -> Labels]
          /\ attempt' \in [Workers -> 0..MaxAttempts]
      <4>1. \/ pc' = [pc EXCEPT ![w] = AfterRetries(TRUE)] /\ UNCHANGED attempt
            \/ /\ attempt[w] # MaxAttempts /\ UNCHANGED pc
               /\ attempt' = [attempt EXCEPT ![w] = attempt[w] + 1]
        BY <2>8 DEF Rejected, LastAttempt
      <4>2. AfterRetries(TRUE) \in Labels
        BY DEF AfterRetries, Labels
      <4>3. attempt[w] # MaxAttempts => attempt[w] + 1 \in 0..MaxAttempts
        BY DEF TypeOK
      <4>4. pc' \in [Workers -> Labels]
        BY <4>1, <4>2 DEF TypeOK
      <4>5. attempt' \in [Workers -> 0..MaxAttempts]
        <5>1. CASE UNCHANGED attempt
          BY <5>1 DEF TypeOK
        <5>2. CASE /\ attempt[w] # MaxAttempts
                   /\ attempt' = [attempt EXCEPT ![w] = attempt[w] + 1]
          BY <5>2, <4>3 DEF TypeOK
        <5> QED BY <4>1, <5>1, <5>2
      <4> QED BY <4>4, <4>5
    <3>6. failed' \in [Workers -> BOOLEAN]
      BY <2>8 DEF Rejected, TypeOK
    <3>7. UNCHANGED <<slackVars, log, groupVars, current>>
      BY <2>8 DEF Rejected
    <3> QED BY <3>4, <3>5, <3>6, <3>7 DEF TypeOK, slackVars, groupVars
  <2>9. CASE Publish(w) \/ PublishFails(w)
    <3>1. current[w] \in 1..Len(log)
      BY <2>9 DEF Publish, PublishFails, HolderIsNext, Busy
    <3>2. /\ events' \subseteq 1..Len(log) /\ deadLetters' \subseteq 1..Len(log)
          /\ UNCHANGED <<spec, landed>>
      BY <2>9, <3>1 DEF Publish, PublishFails, Record, TypeOK, effectVars
    <3>3. CASE Publish(w)
      BY <3>3, <3>2 DEF Publish, AfterPublish, TypeOK, Labels, slackVars, groupVars
    <3>4. CASE PublishFails(w)
      <4>1. Leave(w) /\ faults' \in 0..MaxFaults
        BY <3>4 DEF PublishFails, MayFail, TypeOK
      <4>2. UNCHANGED <<slackVars, log, committed, rebalances>>
        BY <3>4 DEF PublishFails
      <4> QED BY <2>1, <3>2, <4>1, <4>2 DEF TypeOK, slackVars
    <3> QED BY <2>9, <3>3, <3>4
  <2>10. CASE Commit(w)
    <3>1. /\ committed' \in 0..Len(log) /\ current' \in [Workers -> 0..Len(log)]
          /\ attempt' \in [Workers -> 0..MaxAttempts] /\ failed' \in [Workers -> BOOLEAN]
          /\ pc' \in [Workers -> Labels]
      BY <2>10 DEF Commit, TypeOK, Labels
    <3>2. UNCHANGED <<slackVars, log, owner, position, rebalances, effectVars, faults>>
      BY <2>10 DEF Commit
    <3> QED BY <3>1, <3>2 DEF TypeOK, slackVars, effectVars
  <2> QED
    BY <1>7, <2>2, <2>3, <2>4, <2>5, <2>6, <2>7, <2>8, <2>9, <2>10 DEF Worker, Loop
<1>8. CASE UNCHANGED vars
  BY <1>8 DEF vars, TypeOK, slackVars, groupVars, loopVars, effectVars
<1> QED
  BY <1>1, <1>2, <1>3, <1>4, <1>5, <1>6, <1>7, <1>8 DEF Next, Slack, Answering, Group

-----------------------------------------------------------------------------
(* What DeliveryInv says of one worker.                                    *)
WorkerInv(w) ==
    /\ Busy(w) => /\ current[w] \in 1..Len(log)
                  /\ \A o \in 1..(current[w] - 1) : o \in Reported
    /\ pc[w] = "committing" => current[w] \in Reported
    /\ pc[w] = "report" => current[w] \in landed
    /\ \A o \in 1..position[w] : o \in Reported \/ (Busy(w) /\ o = current[w])

LEMMA WorkerParts ==
    DeliveryInv <=> /\ TypeOK /\ CommittedHasOutcome /\ EventMeansLanded /\ Outcomes
                    /\ \A w \in Workers : WorkerInv(w)
BY DEF DeliveryInv, WorkerInv, HolderIsNext, CommitterHasOutcome, ReporterHasLanded,
       ConsumedHasOutcome

(* The logs and the outcomes only grow, so what holds of a worker goes on  *)
(* to hold while the worker itself does not move.                          *)
Grows ==
    /\ Len(log) \in Nat /\ Len(log') \in Nat /\ Len(log) <= Len(log')
    /\ events \subseteq events' /\ deadLetters \subseteq deadLetters'
    /\ landed \subseteq landed'

LEMMA Unmoved ==
    ASSUME NEW w, WorkerInv(w), Grows,
           pc'[w] = pc[w], current'[w] = current[w], position'[w] = position[w]
    PROVE  WorkerInv(w)'
BY DEF WorkerInv, Grows, Busy, Reported

(* A process that has ended promises nothing.                              *)
LEMMA Left ==
    ASSUME TypeOK, NEW w \in Workers, Leave(w), Grows, \A v \in Workers : WorkerInv(v)
    PROVE  \A v \in Workers : WorkerInv(v)'
<1> SUFFICES ASSUME NEW v \in Workers PROVE WorkerInv(v)'
  OBVIOUS
<1>1. CASE v = w
  <2>1. pc'[v] = "stopped" /\ position'[v] = 0
    BY <1>1 DEF Leave, TypeOK
  <2> QED BY <2>1 DEF WorkerInv, Busy
<1>2. CASE v # w
  <2>1. pc'[v] = pc[v] /\ current'[v] = current[v] /\ position'[v] = position[v]
    BY <1>2 DEF Leave, TypeOK
  <2> QED BY <2>1, Unmoved
<1> QED BY <1>1, <1>2

(* One more outcome, of a message whose predecessors all have one, keeps   *)
(* the outcomes a prefix of the log.                                       *)
LEMMA OutcomesGrow ==
    ASSUME Outcomes, NEW o \in 1..Len(log), \A p \in 1..(o - 1) : p \in Reported,
           Len(log) \in Nat, log' = log, Reported' = Reported \cup {o}
    PROVE  Outcomes'
<1>1. PICK n \in 0..Len(log) : Reported = 1..n
  BY DEF Outcomes
<1>2. CASE o <= n
  BY <1>1, <1>2 DEF Outcomes
<1>3. CASE o > n
  <2>1. o = n + 1
    <3>1. n + 1 \notin Reported
      BY <1>1
    <3> QED BY <1>3, <3>1, <1>1
  <2>2. Reported' = 1..o
    BY <1>1, <2>1
  <2> QED BY <2>2 DEF Outcomes
<1> QED BY <1>1, <1>2, <1>3

(* Steps that change neither the workers nor the outcomes.                 *)
LEMMA QuietStep ==
    ASSUME DeliveryInv, TypeOK', UNCHANGED <<committed, position, pc, current, effectVars>>,
           Len(log) \in Nat, Len(log') \in Nat, Len(log) <= Len(log')
    PROVE  DeliveryInv'
<1>1. Grows /\ UNCHANGED Reported
  BY DEF Grows, effectVars, Reported
<1>2. ASSUME NEW w \in Workers PROVE WorkerInv(w)'
  BY <1>1, Unmoved, WorkerParts
<1>3. CommittedHasOutcome' /\ EventMeansLanded'
  BY <1>1 DEF DeliveryInv, CommittedHasOutcome, EventMeansLanded, effectVars
<1>4. Outcomes'
  BY <1>1 DEF DeliveryInv, Outcomes
<1> QED BY <1>2, <1>3, <1>4, WorkerParts DEF DeliveryInv, WorkerInv, HolderIsNext,
           CommitterHasOutcome, ReporterHasLanded, ConsumedHasOutcome

(* A step of a worker: what is left to show when the outcomes that the     *)
(* step adds are sound and the moved worker keeps its part.                *)
LEMMA LoopStep ==
    ASSUME DeliveryInv, TypeOK', NEW w \in Workers, Grows,
           CommittedHasOutcome', EventMeansLanded', Outcomes', WorkerInv(w)',
           \A v \in Workers \ {w} :
              pc'[v] = pc[v] /\ current'[v] = current[v] /\ position'[v] = position[v]
    PROVE  DeliveryInv'
<1>1. ASSUME NEW v \in Workers PROVE WorkerInv(v)'
  <2>1. CASE v = w
    BY <2>1
  <2>2. CASE v # w
    BY <2>2, Unmoved, WorkerParts
  <2> QED BY <2>1, <2>2
<1> QED BY <1>1 DEF DeliveryInv, WorkerInv, HolderIsNext,
           CommitterHasOutcome, ReporterHasLanded, ConsumedHasOutcome

LEMMA DeliveryStep == DeliveryInv /\ [Next]_vars => DeliveryInv'
<1> SUFFICES ASSUME DeliveryInv, [Next]_vars PROVE DeliveryInv'
  OBVIOUS
<1> USE ConstantsAssumption
<1>a. TypeOK /\ TypeOK' /\ (\A v \in Workers : WorkerInv(v))
  BY TypeStep, WorkerParts DEF DeliveryInv
<1>b. Len(log) \in Nat
  BY <1>a DEF TypeOK
<1>1. ASSUME NEW c \in Commands, Submit(c) PROVE DeliveryInv'
  BY <1>1, <1>a, <1>b, QuietStep DEF Submit, groupVars, loopVars
<1>2. CASE Deliver \/ Drop
  <2>1. Len(log') \in Nat /\ Len(log) <= Len(log')
    <3>1. log \in Seq(Message) /\ (log' = log \/ log' = Append(log, Head(outbox)))
      BY <1>2, <1>a DEF Deliver, Drop, TypeOK
    <3> QED BY <3>1
  <2>2. UNCHANGED <<committed, position, pc, current, effectVars>>
    BY <1>2 DEF Deliver, Drop, TakeOff, groupVars, loopVars
  <2> QED BY <1>a, <1>b, <2>1, <2>2, QuietStep
<1>3. CASE Serve
  BY <1>3, <1>a, <1>b, QuietStep DEF Serve, groupVars, loopVars
<1>4. ASSUME NEW i \in 1..Len(answers), Answering(i) PROVE DeliveryInv'
  <2>1. UNCHANGED <<log, committed, position, pc, current, effectVars>>
    BY <1>4 DEF Answering, Flushed, TimesOut, Acknowledge, GiveUp, groupVars, loopVars
  <2> QED BY <1>a, <1>b, <2>1, QuietStep
<1>5. CASE ForeignProduce
  <2>1. Len(log') = Len(log) + 1
    BY <1>5, <1>a DEF ForeignProduce, TypeOK
  <2> QED BY <1>5, <1>a, <1>b, <2>1, QuietStep DEF ForeignProduce, groupVars, loopVars
<1>6. ASSUME NEW w \in Workers, Assign(w) \/ Rebalance(w) PROVE DeliveryInv'
  <2>1. /\ position' = [position EXCEPT ![w] = committed]
        /\ UNCHANGED <<log, committed, pc, current, effectVars>>
    BY <1>6 DEF Assign, Rebalance, ResumeFrom, loopVars
  <2>2. Grows /\ UNCHANGED <<Reported, events, landed>>
    BY <2>1, <1>b DEF Grows, effectVars, Reported
  <2>3. CommittedHasOutcome' /\ EventMeansLanded' /\ Outcomes'
    BY <2>1, <2>2 DEF DeliveryInv, CommittedHasOutcome, EventMeansLanded, Outcomes
  <2>4. WorkerInv(w)'
    <3>1. position'[w] = committed
      BY <2>1, <1>a DEF TypeOK
    <3>2. \A o \in 1..committed : o \in Reported
      BY DEF DeliveryInv, CommittedHasOutcome
    <3> QED BY <1>a, <2>1, <2>2, <3>1, <3>2 DEF WorkerInv, Busy
  <2>5. \A v \in Workers \ {w} : position'[v] = position[v]
    BY <2>1, <1>a DEF TypeOK
  <2> QED BY <1>a, <2>1, <2>2, <2>3, <2>4, <2>5, LoopStep
<1>7. ASSUME NEW w \in Workers, Worker(w) PROVE DeliveryInv'
  <2> DEFINE Still == /\ UNCHANGED <<log, committed, effectVars>>
  <2>1. ASSUME Still PROVE Grows /\ UNCHANGED Reported /\ CommittedHasOutcome'
                           /\ EventMeansLanded' /\ Outcomes'
    BY <2>1, <1>b DEF Grows, Reported, effectVars, DeliveryInv,
                      CommittedHasOutcome, EventMeansLanded, Outcomes
  <2>2. ASSUME Still, Leave(w) PROVE DeliveryInv'
    <3>1. \A v \in Workers : WorkerInv(v)'
      BY <2>1, <2>2, <1>a, Left
    <3> QED BY <2>1, <2>2, <3>1, <1>a DEF DeliveryInv, WorkerInv, HolderIsNext,
               CommitterHasOutcome, ReporterHasLanded, ConsumedHasOutcome
  <2>3. CASE Start(w)
    <3>1. Still /\ UNCHANGED <<position, current>> /\ pc' = [pc EXCEPT ![w] = "idle"]
      BY <2>3 DEF Start, groupVars
    <3>2. WorkerInv(w)'
      <4>1. pc'[w] = "idle" /\ pc[w] = "stopped"
        BY <2>3, <3>1, <1>a DEF Start, TypeOK
      <4> QED BY <4>1, <3>1, <1>a, <2>1 DEF WorkerInv, Busy
    <3> QED BY <2>1, <3>1, <3>2, <1>a, LoopStep DEF TypeOK
  <2>4. CASE Crash(w) \/ Choke(w) \/ PollChokes(w) \/ CommitFails(w)
    BY <2>4, <2>2 DEF Crash, Choke, PollChokes, CommitFails
  <2>5. CASE Poll(w)
    <3>1. /\ Still /\ current'[w] = position[w] + 1 /\ position'[w] = position[w] + 1
          /\ position[w] + 1 \in 1..Len(log) /\ ~Busy(w)
          /\ pc'[w] \in {"handling", "deadLetter"}
      BY <2>5, <1>a DEF Poll, TypeOK, Verdict, Busy
    <3>2. \A o \in 1..position[w] : o \in Reported
      BY <3>1, <1>a DEF WorkerInv
    <3>3. WorkerInv(w)'
      <4>1. position[w] \in Nat /\ UNCHANGED <<Reported, log>> /\ Busy(w)'
        BY <3>1, <2>1, <1>a DEF TypeOK, Busy
      <4> QED BY <4>1, <3>1, <3>2 DEF WorkerInv
    <3> QED BY <2>5, <2>1, <3>1, <3>3, <1>a, LoopStep DEF Poll, TypeOK
  <2>6. CASE Applied(w) \/ Rejected(w)
    <3>1. /\ UNCHANGED <<log, committed, position, current, events, deadLetters>>
          /\ landed' \in {landed, landed \cup {current[w]}} /\ pc[w] = "handling"
      BY <2>6 DEF Applied, Rejected, Land, groupVars, effectVars
    <3>2. \/ pc'[w] \in {"handling", "deadLetter"}
          \/ pc'[w] = "report" /\ current[w] \in landed'
      BY <2>6, <1>a DEF Applied, Rejected, Land, AfterRetries, TypeOK
    <3>3. \A v \in Workers \ {w} : pc'[v] = pc[v]
      BY <2>6, <1>a DEF Applied, Rejected, TypeOK
    <3>4. Grows /\ UNCHANGED Reported
      BY <3>1, <1>b DEF Grows, Reported
    <3>5. CommittedHasOutcome' /\ EventMeansLanded' /\ Outcomes'
      BY <3>1, <3>4 DEF DeliveryInv, CommittedHasOutcome, EventMeansLanded, Outcomes
    <3>6. WorkerInv(w)'
      BY <3>1, <3>2, <3>4, <1>a DEF WorkerInv, Busy
    <3> QED BY <3>1, <3>3, <3>4, <3>5, <3>6, <1>a, LoopStep
  <2>7. ASSUME pc[w] \in {"report", "deadLetter"}, Record(w),
               UNCHANGED <<log, committed>>
        PROVE  /\ Grows /\ Reported' = Reported \cup {current[w]}
               /\ CommittedHasOutcome' /\ EventMeansLanded' /\ Outcomes'
    <3>1. /\ current[w] \in 1..Len(log)
          /\ \A o \in 1..(current[w] - 1) : o \in Reported
          /\ pc[w] = "report" => current[w] \in landed
      BY <2>7, <1>a DEF WorkerInv, Busy
    <3>2. Grows /\ Reported' = Reported \cup {current[w]}
      BY <2>7, <1>b DEF Record, Grows, Reported
    <3>3. CommittedHasOutcome' /\ EventMeansLanded'
      BY <2>7, <3>1, <3>2 DEF Record, DeliveryInv, CommittedHasOutcome, EventMeansLanded
    <3>4. Outcomes'
      BY <2>7, <3>1, <3>2, <1>b, OutcomesGrow DEF DeliveryInv
    <3> QED BY <3>2, <3>3, <3>4
  <2>8. CASE Publish(w)
    <3>1. /\ pc[w] \in {"report", "deadLetter"} /\ Record(w)
          /\ pc' = [pc EXCEPT ![w] = "committing"]
          /\ UNCHANGED <<log, committed, position, current>>
      BY <2>8 DEF Publish, AfterPublish, groupVars
    <3>2. pc'[w] = "committing" /\ \A v \in Workers \ {w} : pc'[v] = pc[v]
      BY <3>1, <1>a DEF TypeOK
    <3>3. WorkerInv(w)'
      BY <3>1, <3>2, <2>7, <1>a DEF WorkerInv, Busy
    <3> QED BY <3>1, <3>2, <3>3, <2>7, <1>a, LoopStep
  <2>9. CASE PublishFails(w)
    <3>1. CASE UNCHANGED effectVars
      BY <3>1, <2>9, <2>2 DEF PublishFails
    <3>2. CASE Record(w)
      <4>1. /\ Grows /\ CommittedHasOutcome' /\ EventMeansLanded' /\ Outcomes'
        BY <3>2, <2>7, <2>9 DEF PublishFails
      <4>2. \A v \in Workers : WorkerInv(v)'
        BY <4>1, <2>9, <1>a, Left DEF PublishFails
      <4> QED BY <4>1, <4>2, <1>a DEF DeliveryInv, WorkerInv, HolderIsNext,
                 CommitterHasOutcome, ReporterHasLanded, ConsumedHasOutcome
    <3> QED BY <2>9, <3>1, <3>2 DEF PublishFails
  <2>10. CASE Commit(w)
    <3>1. /\ pc[w] = "committing" /\ committed' = current[w]
          /\ pc' = [pc EXCEPT ![w] = "idle"]
          /\ current' = [current EXCEPT ![w] = 0]
          /\ UNCHANGED <<log, position, effectVars>>
      BY <2>10 DEF Commit, MayCommit
    <3>2. Grows /\ UNCHANGED <<Reported, events, landed>>
      BY <3>1, <1>b DEF Grows, effectVars, Reported
    <3>3. pc'[w] = "idle" /\ \A v \in Workers \ {w} : pc'[v] = pc[v] /\ current'[v] = current[v]
      BY <3>1, <1>a DEF TypeOK
    <3>4. /\ current[w] \in 1..Len(log) /\ current[w] \in Reported
          /\ \A o \in 1..(current[w] - 1) : o \in Reported
      BY <3>1, <1>a DEF WorkerInv, Busy
    <3>5. CommittedHasOutcome' /\ EventMeansLanded' /\ Outcomes'
      BY <3>1, <3>2, <3>4, <1>b DEF DeliveryInv, CommittedHasOutcome, EventMeansLanded, Outcomes
    <3>6. WorkerInv(w)'
      BY <3>1, <3>2, <3>3, <3>4, <1>a DEF WorkerInv, Busy
    <3> QED BY <3>1, <3>2, <3>3, <3>5, <3>6, <1>a, LoopStep
  <2> QED
    BY <1>7, <2>3, <2>4, <2>5, <2>6, <2>8, <2>9, <2>10 DEF Worker, Loop
<1>8. CASE UNCHANGED vars
  BY <1>8, <1>a, <1>b, QuietStep DEF vars, groupVars, loopVars
<1> QED
  BY <1>1, <1>2, <1>3, <1>4, <1>5, <1>6, <1>7, <1>8 DEF Next, Slack, Answering, Group

-----------------------------------------------------------------------------
LEMMA DeliveryInit == Init => DeliveryInv
<1> SUFFICES ASSUME Init PROVE DeliveryInv
  OBVIOUS
<1>1. TypeOK
  BY ConstantsAssumption DEF Init, TypeOK, Labels, Resources
<1>2. Outcomes
  BY DEF Init, Outcomes, Reported
<1> QED BY <1>1, <1>2 DEF Init, DeliveryInv, CommittedHasOutcome, EventMeansLanded,
           HolderIsNext, CommitterHasOutcome, ReporterHasLanded, ConsumedHasOutcome, Busy

(* The delivery invariant holds in every reachable state.                  *)
THEOREM DeliveryCorrect == Spec => []DeliveryInv
BY DeliveryInit, DeliveryStep, PTL DEF Spec

(* Types: every variable keeps its type.                                   *)
THEOREM TypeCorrect == Spec => []TypeOK
<1>1. DeliveryInv => TypeOK
  BY DEF DeliveryInv
<1> QED BY <1>1, DeliveryCorrect, PTL

(* No command is committed away: every offset up to the committed one has  *)
(* an `applied` event or a dead letter (the comment on consumer.commit).   *)
THEOREM CommitCoversOutcome == Spec => []CommittedHasOutcome
<1>1. DeliveryInv => CommittedHasOutcome
  BY DEF DeliveryInv
<1> QED BY <1>1, DeliveryCorrect, PTL

(* No `applied` event is published of a command whose patch is not in.     *)
THEOREM EventsAreTrue == Spec => []EventMeansLanded
<1>1. DeliveryInv => EventMeansLanded
  BY DEF DeliveryInv
<1> QED BY <1>1, DeliveryCorrect, PTL

-----------------------------------------------------------------------------
(* A step that adds at most one outcome, in order, settles or stutters.    *)
LEMMA SettleStep ==
    ASSUME NEW o \in 1..Len(log), \A p \in 1..(o - 1) : p \in Reported,
           log' = log, committed' = committed, Reported' = Reported \cup {o}
    PROVE  [Delivery!DNext]_(Delivery!dvars)
<1>1. CASE o \in Reported
  <2>1. Reported' = Reported
    BY <1>1
  <2> QED BY <2>1 DEF Delivery!dvars
<1>2. CASE o \notin Reported
  BY <1>2 DEF Delivery!DNext, Delivery!Settle
<1> QED BY <1>1, <1>2

(* What Slack does is no business of the group, of the workers and of the  *)
(* resources; only its producer writes to the log.                         *)
LEMMA SlackQuiet ==
    ASSUME Slack
    PROVE  /\ UNCHANGED <<groupVars, loopVars, effectVars>>
           /\ log' = log \/ \E m : log' = Append(log, m)
<1>1. CASE Deliver \/ Drop
  BY <1>1 DEF Deliver, Drop, TakeOff
<1>2. CASE Serve
  BY <1>2 DEF Serve
<1>3. ASSUME NEW c \in Commands, Submit(c)
      PROVE  UNCHANGED <<groupVars, loopVars, effectVars, log>>
  BY <1>3 DEF Submit
<1>4. ASSUME NEW i \in 1..Len(answers), Answering(i)
      PROVE  UNCHANGED <<groupVars, loopVars, effectVars, log>>
  BY <1>4 DEF Answering, Flushed, TimesOut, Acknowledge, GiveUp
<1> QED BY <1>1, <1>2, <1>3, <1>4 DEF Slack, Answering

(* Every step of the workers, of Slack and of the group is a step of       *)
(* CommandDelivery or leaves its variables alone.                          *)
LEMMA DeliveryRefines ==
    DeliveryInv /\ [Next]_vars => [Delivery!DNext]_(Delivery!dvars)
<1> SUFFICES ASSUME DeliveryInv, [Next]_vars
             PROVE  [Delivery!DNext]_(Delivery!dvars)
  OBVIOUS
<1>a. TypeOK /\ (\A v \in Workers : WorkerInv(v)) /\ Len(log) \in Nat
  BY WorkerParts DEF TypeOK
<1>1. CASE UNCHANGED <<log, committed, events, deadLetters>>
  BY <1>1 DEF Delivery!dvars, Reported
<1>2. CASE Slack \/ ForeignProduce
  <2>1. UNCHANGED <<committed, events, deadLetters>>
    BY <1>2, SlackQuiet DEF ForeignProduce, groupVars, effectVars
  <2>2. CASE log' = log
    BY <2>1, <2>2, <1>1
  <2>3. CASE \E m : log' = Append(log, m)
    <3>1. log \in Seq(Message)
      BY <1>a DEF TypeOK
    <3>2. Len(log') = Len(log) + 1
      BY <2>3, <3>1
    <3> QED BY <2>1, <3>2 DEF Delivery!DNext, Delivery!Accept, Reported
  <2> QED BY <1>2, <2>2, <2>3, SlackQuiet DEF ForeignProduce
<1>3. ASSUME NEW w \in Workers, Publish(w) \/ PublishFails(w)
      PROVE  [Delivery!DNext]_(Delivery!dvars)
  <2>1. CASE Record(w)
    <3>1. UNCHANGED <<log, committed>> /\ pc[w] \in {"report", "deadLetter"}
      BY <1>3 DEF Publish, PublishFails, groupVars
    <3>2. Reported' = Reported \cup {current[w]}
      BY <2>1, <3>1 DEF Record, Reported
    <3>3. /\ current[w] \in 1..Len(log)
          /\ \A o \in 1..(current[w] - 1) : o \in Reported
      BY <3>1, <1>a DEF WorkerInv, Busy
    <3> QED BY <3>1, <3>2, <3>3, <1>a, SettleStep
  <2>2. CASE UNCHANGED effectVars
    BY <2>2, <1>3, <1>1 DEF Publish, PublishFails, groupVars, effectVars
  <2> QED BY <1>3, <2>1, <2>2 DEF Publish, PublishFails
<1>4. ASSUME NEW w \in Workers, Commit(w)
      PROVE  [Delivery!DNext]_(Delivery!dvars)
  <2>1. /\ committed' = current[w] /\ UNCHANGED <<log, Reported>>
        /\ current[w] \in 1..Len(log) /\ current[w] \in Reported
        /\ \A o \in 1..(current[w] - 1) : o \in Reported
    BY <1>4, <1>a DEF Commit, MayCommit, effectVars, Reported, WorkerInv, Busy
  <2>2. 1..current[w] \subseteq Reported
    BY <2>1
  <2> QED BY <2>1, <2>2 DEF Delivery!DNext, Delivery!Commit
<1>5. ASSUME NEW w \in Workers, Worker(w), ~Publish(w), ~PublishFails(w), ~Commit(w)
      PROVE  UNCHANGED <<log, committed, events, deadLetters>>
  BY <1>5 DEF Worker, Loop, Start, Poll, Applied, Rejected, Choke, PollChokes, CommitFails, Crash,
              Land, groupVars, effectVars
<1>6. ASSUME Group \/ UNCHANGED vars
      PROVE  UNCHANGED <<log, committed, events, deadLetters>>
  BY <1>6 DEF Group, Assign, Rebalance, vars, groupVars, effectVars
<1> QED
  BY <1>1, <1>2, <1>3, <1>4, <1>5, <1>6 DEF Next

(* The command path implements the promise of the topic: the commands get  *)
(* their outcomes in its order, each once for all, and no commit passes a  *)
(* command without one (docs/KAFKA_COMMANDS.md).                           *)
THEOREM DeliveryImplemented == Spec => ImplementsDelivery
<1>1. Init => Delivery!DInit
  BY DEF Init, Reported, Delivery!DInit
<1>2. DeliveryInv /\ [Next]_vars => [Delivery!DNext]_(Delivery!dvars)
  BY DeliveryRefines
<1> QED BY <1>1, <1>2, DeliveryCorrect, PTL DEF Spec, ImplementsDelivery, Delivery!DSpec

-----------------------------------------------------------------------------
(* The log is immutable: it only grows at its end.                         *)
LEMMA LogGrows ==
    ASSUME TypeOK, [Next]_vars
    PROVE  /\ Len(log) \in Nat /\ Len(log') \in Nat /\ Len(log) <= Len(log')
           /\ \A o \in 1..Len(log) : log'[o] = log[o]
<1>1. log \in Seq(Message)
  BY DEF TypeOK
<1>2. CASE Slack \/ ForeignProduce
  <2>1. log' = log \/ \E m : log' = Append(log, m)
    BY <1>2, SlackQuiet DEF ForeignProduce
  <2> QED BY <1>1, <2>1
<1>3. ASSUME NEW w \in Workers, Worker(w) PROVE UNCHANGED log
  BY <1>3 DEF Worker, Loop, Start, Poll, PollChokes, Applied, Rejected, Choke, Publish,
              PublishFails, Commit, CommitFails, Crash
<1>4. ASSUME Group \/ UNCHANGED vars PROVE UNCHANGED log
  BY <1>4 DEF Group, Assign, Rebalance, vars
<1> QED BY <1>1, <1>2, <1>3, <1>4 DEF Next

(* A worker applies only what validate_command has let through.            *)
HandlesValid == \A w \in Workers : pc[w] = "handling" => Valid(log[current[w]].cmd)

IntentInv == OnlyConfirmedLands /\ HandlesValid

LEMMA IntentStep == DeliveryInv /\ IntentInv /\ [Next]_vars => IntentInv'
<1> SUFFICES ASSUME DeliveryInv, IntentInv, [Next]_vars PROVE IntentInv'
  OBVIOUS
<1>a. TypeOK /\ \A w \in Workers : pc[w] = "handling" => current[w] \in 1..Len(log)
  BY DEF DeliveryInv, HolderIsNext, Busy
<1>b. landed \subseteq 1..Len(log)
  BY <1>a DEF TypeOK
<1>1. ASSUME NEW o \in landed', o \notin landed
      PROVE  \E w \in Workers : pc[w] = "handling" /\ o = current[w] /\ UNCHANGED log
  <2>1. ASSUME NEW w \in Workers, Applied(w) \/ Rejected(w)
        PROVE  /\ pc[w] = "handling" /\ UNCHANGED log
               /\ landed' \in {landed, landed \cup {current[w]}}
    BY <2>1 DEF Applied, Rejected, Land, effectVars
  <2>2. ASSUME NEW w \in Workers, Worker(w), ~Applied(w), ~Rejected(w) PROVE UNCHANGED landed
    BY <2>2 DEF Worker, Loop, Start, Poll, PollChokes, Choke, Publish, PublishFails, Record,
                Commit, CommitFails, Crash, effectVars
  <2>3. CASE Slack \/ Group \/ ForeignProduce \/ UNCHANGED vars
    BY <1>1, <2>3, SlackQuiet DEF Group, Assign, Rebalance, ForeignProduce, vars, effectVars
  <2> QED BY <1>1, <2>1, <2>2, <2>3 DEF Next
<1>2. OnlyConfirmedLands'
  <2> SUFFICES ASSUME NEW o \in landed'
               PROVE  log'[o].cmd.verb \in Destructive => log'[o].cmd.confirmed
    BY DEF OnlyConfirmedLands
  <2>1. CASE o \in landed
    BY <1>a, <1>b, <2>1, LogGrows DEF IntentInv, OnlyConfirmedLands
  <2>2. CASE o \notin landed
    BY <1>1, <2>2 DEF IntentInv, HandlesValid, Valid
  <2> QED BY <2>1, <2>2
<1>3. HandlesValid'
  <2> SUFFICES ASSUME NEW w \in Workers, pc'[w] = "handling"
               PROVE  Valid(log'[current'[w]].cmd)
    BY DEF HandlesValid
  <2>1. CASE Poll(w)
    <3>1. /\ UNCHANGED log /\ current'[w] = position[w] + 1
          /\ pc'[w] = Verdict(log[position[w] + 1].cmd)
      BY <1>a, <2>1 DEF Poll, TypeOK
    <3> QED BY <3>1 DEF Verdict
  <2>2. CASE pc[w] = "handling" /\ current'[w] = current[w]
    BY <1>a, <2>2, LogGrows DEF IntentInv, HandlesValid
  <2>3. ASSUME NEW v \in Workers, Worker(v), v # w
        PROVE  pc'[w] = pc[w] /\ current'[w] = current[w]
    BY <1>a, <2>3 DEF Worker, Loop, Start, Poll, PollChokes, Applied, Rejected, Choke, Publish,
              PublishFails, Commit, CommitFails, Crash, Leave, TypeOK
  <2>4. ASSUME Worker(w), ~Poll(w) PROVE pc[w] = "handling" /\ current'[w] = current[w]
    <3>1. ASSUME Leave(w) PROVE pc'[w] = "stopped"
      BY <1>a, <3>1 DEF Leave, TypeOK
    <3>2. ~Start(w) /\ ~Publish(w) /\ ~Commit(w)
      BY <1>a DEF Start, Publish, AfterPublish, Commit, TypeOK
    <3>3. ~PollChokes(w) /\ ~Choke(w) /\ ~PublishFails(w) /\ ~CommitFails(w) /\ ~Crash(w)
      BY <3>1 DEF PollChokes, Choke, PublishFails, CommitFails, Crash
    <3>4. CASE Applied(w) \/ Rejected(w)
      BY <1>a, <3>4 DEF Applied, Rejected, TypeOK
    <3> QED BY <2>4, <3>2, <3>3, <3>4 DEF Worker, Loop
  <2>5. CASE Slack \/ Group \/ ForeignProduce \/ UNCHANGED vars
    <3>1. UNCHANGED <<pc, current>>
      BY <2>5, SlackQuiet DEF Group, Assign, Rebalance, ForeignProduce, vars, loopVars
    <3> QED BY <2>2, <3>1
  <2> QED BY <2>1, <2>2, <2>3, <2>4, <2>5 DEF Next
<1> QED BY <1>2, <1>3 DEF IntentInv

LEMMA IntentCorrect == Spec => []IntentInv
<1>1. Init => IntentInv
  BY DEF Init, IntentInv, OnlyConfirmedLands, HandlesValid
<1> QED BY <1>1, IntentStep, DeliveryCorrect, PTL DEF Spec

(* Whatever is in the topic, no unconfirmed sleep or cancel is applied     *)
(* (validate_command).                                                     *)
THEOREM UnconfirmedNeverLands == Spec => []OnlyConfirmedLands
<1>1. IntentInv => OnlyConfirmedLands
  BY DEF IntentInv
<1> QED BY <1>1, IntentCorrect, PTL

-----------------------------------------------------------------------------
(* What became of a request's message: the producer holds it, or its error *)
(* waits to be served, or is in its list, or the message is in the topic.  *)
Held(i)     == \E k \in 1..Len(outbox) : outbox[k].id = i
Erring(i)   == \E k \in 1..Len(reports) : reports[k].id = i /\ reports[k].error
Accounted(i) == Held(i) \/ Erring(i) \/ i \in errors \/ Durable(i)

(* That is all a flush that left nothing over, or a send that returned,    *)
(* has to go by.                                                           *)
RequestInv(i) ==
    /\ Accounted(i)
    /\ answers[i] = "flushed" => i \in errors \/ Durable(i)
    /\ answers[i] = "queued" => Durable(i)

AnswerInv == \A i \in 1..Len(answers) : RequestInv(i)

(* A step that answers nobody keeps the invariant if it keeps the account  *)
(* of every message; what is in the topic or in a list stays there.        *)
LEMMA AccountKept ==
    ASSUME NEW i \in 1..Len(answers), RequestInv(i), answers'[i] = answers[i],
           Accounted(i)', errors \subseteq errors', Durable(i) => Durable(i)'
    PROVE  RequestInv(i)'
BY DEF RequestInv

LEMMA AnswerStep == TypeOK /\ AnswerInv /\ [Next]_vars => AnswerInv'
<1> SUFFICES ASSUME TypeOK, AnswerInv, [Next]_vars PROVE AnswerInv'
  OBVIOUS
<1>a. /\ answers \in Seq(Answers) /\ outbox \in Seq(Message)
      /\ reports \in Seq(Report) /\ log \in Seq(Message)
  BY DEF TypeOK
<1>b. ASSUME NEW i PROVE Durable(i) => Durable(i)'
  BY LogGrows DEF Durable
<1>c. ASSUME UNCHANGED answers, errors \subseteq errors',
             \A i \in 1..Len(answers) : Accounted(i)'
      PROVE  AnswerInv'
  BY <1>b, <1>c, AccountKept DEF AnswerInv
<1>1. ASSUME NEW c \in Commands, Submit(c) PROVE AnswerInv'
  <2>1. /\ answers' = Append(answers, "waiting")
        /\ outbox' = Append(outbox, [id |-> Len(answers) + 1, cmd |-> c])
        /\ UNCHANGED <<reports, errors>>
    BY <1>1 DEF Submit
  <2>2. ASSUME NEW i \in 1..Len(answers) PROVE RequestInv(i)'
    <3>1. answers'[i] = answers[i]
      BY <1>a, <2>1
    <3>2. Held(i) => Held(i)'
      BY <1>a, <2>1 DEF Held
    <3>3. Accounted(i)'
      BY <1>b, <2>1, <3>2 DEF AnswerInv, RequestInv, Accounted, Erring
    <3> QED BY <1>b, <2>1, <3>1, <3>3, AccountKept DEF AnswerInv
  <2>3. PICK n \in Nat : n = Len(answers) + 1
    BY <1>a
  <2>4. RequestInv(n)'
    <3>1. [id |-> n, cmd |-> c] \in Message
      BY DEF Message
    <3>2. /\ Len(outbox) \in Nat /\ Len(outbox') = Len(outbox) + 1
          /\ outbox'[Len(outbox) + 1] = [id |-> n, cmd |-> c]
      BY <1>a, <2>1, <2>3, <3>1, AppendFacts
    <3>3. Len(outbox) + 1 \in 1..Len(outbox') /\ outbox'[Len(outbox) + 1].id = n
      BY <3>2
    <3>4. Held(n)'
      BY <3>3 DEF Held
    <3>5. answers'[n] = "waiting"
      BY <1>a, <2>1, <2>3
    <3> QED BY <3>4, <3>5 DEF RequestInv, Accounted
  <2>5. \A i \in 1..Len(answers') : i \in 1..Len(answers) \/ i = n
    <3>1. Len(answers') = Len(answers) + 1 /\ Len(answers) \in Nat
      BY <1>a, <2>1
    <3> QED BY <2>3, <3>1
  <2> QED BY <2>2, <2>4, <2>5 DEF AnswerInv
<1>2. ASSUME NEW error \in BOOLEAN, TakeOff(error),
             error \/ log' = Append(log, Head(outbox))
      PROVE  AnswerInv'
  <2>1. /\ outbox # <<>> /\ outbox' = Tail(outbox)
        /\ reports' = Append(reports, [id |-> Head(outbox).id, error |-> error])
        /\ UNCHANGED <<answers, errors>>
    BY <1>2 DEF TakeOff
  <2>2. PICK h \in Message : h = Head(outbox) /\ h = outbox[1]
    BY <1>a, <2>1, TailFacts
  <2>3. ASSUME NEW i, Held(i) PROVE i = h.id \/ Held(i)'
    <3>1. PICK k \in 1..Len(outbox) : outbox[k].id = i
      BY <2>3 DEF Held
    <3>2. CASE k = 1
      BY <2>2, <3>1, <3>2
    <3>3. CASE k # 1
      <4>1. k \in 2..Len(outbox)
        BY <1>a, <3>1, <3>3
      <4>2. k - 1 \in 1..Len(outbox') /\ outbox'[k - 1] = outbox[k]
        BY <1>a, <2>1, <4>1, TailFacts
      <4> QED BY <3>1, <4>2 DEF Held
    <3> QED BY <3>2, <3>3
  <2>4. [id |-> h.id, error |-> error] \in Report
    BY DEF Message, Report
  <2>5. /\ Len(reports) \in Nat /\ Len(reports') = Len(reports) + 1
        /\ reports'[Len(reports) + 1] = [id |-> h.id, error |-> error]
        /\ \A k \in 1..Len(reports) : reports'[k] = reports[k]
    BY <1>a, <2>1, <2>2, <2>4, AppendFacts
  <2>6. ASSUME NEW i, Erring(i) PROVE Erring(i)'
    <3>1. PICK k \in 1..Len(reports) : reports[k].id = i /\ reports[k].error
      BY <2>6 DEF Erring
    <3>2. k \in 1..Len(reports') /\ reports'[k] = reports[k]
      BY <2>5
    <3> QED BY <3>1, <3>2 DEF Erring
  <2>7. Erring(h.id)' \/ Durable(h.id)'
    <3>1. CASE error
      <4>1. /\ Len(reports) + 1 \in 1..Len(reports')
            /\ reports'[Len(reports) + 1].id = h.id /\ reports'[Len(reports) + 1].error
        BY <2>5, <3>1
      <4> QED BY <4>1 DEF Erring
    <3>2. CASE log' = Append(log, h)
      <4>1. /\ Len(log') = Len(log) + 1 /\ Len(log) \in Nat
            /\ log'[Len(log) + 1] = h
        BY <1>a, <3>2, AppendFacts
      <4>2. Len(log) + 1 \in 1..Len(log')
        BY <4>1
      <4> QED BY <4>1, <4>2 DEF Durable
    <3> QED BY <1>2, <2>2, <3>1, <3>2
  <2>8. ASSUME NEW i \in 1..Len(answers) PROVE Accounted(i)'
    <3>1. Held(i) \/ Erring(i) \/ i \in errors \/ Durable(i)
      BY DEF AnswerInv, RequestInv, Accounted
    <3>2. Held(i)' \/ Erring(i)' \/ i \in errors' \/ Durable(i)'
      BY <1>b, <2>1, <2>3, <2>6, <2>7, <3>1
    <3> QED BY <3>2 DEF Accounted
  <2> QED BY <1>c, <2>1, <2>8
<1>3. CASE Serve
  <2>1. /\ reports # <<>> /\ reports' = Tail(reports) /\ UNCHANGED <<answers, outbox>>
        /\ errors' = IF Head(reports).error THEN errors \cup {Head(reports).id} ELSE errors
    BY <1>3 DEF Serve
  <2>2. ASSUME NEW i, Erring(i) PROVE i \in errors' \/ Erring(i)'
    <3>1. PICK k \in 1..Len(reports) : reports[k].id = i /\ reports[k].error
      BY <2>2 DEF Erring
    <3>2. CASE k = 1
      <4>1. Head(reports) = reports[1]
        BY <1>a, <2>1, TailFacts
      <4> QED BY <2>1, <3>1, <3>2, <4>1
    <3>3. CASE k # 1
      <4>1. k \in 2..Len(reports)
        BY <1>a, <3>1, <3>3
      <4>2. k - 1 \in 1..Len(reports') /\ reports'[k - 1] = reports[k]
        BY <1>a, <2>1, <4>1, TailFacts
      <4> QED BY <3>1, <4>2 DEF Erring
    <3> QED BY <3>2, <3>3
  <2>3. ASSUME NEW i \in 1..Len(answers) PROVE Accounted(i)'
    <3>1. Held(i) => Held(i)'
      BY <2>1 DEF Held
    <3> QED BY <1>b, <2>1, <2>2, <3>1 DEF AnswerInv, RequestInv, Accounted
  <2> QED BY <1>c, <2>1, <2>3
<1>4. ASSUME NEW j \in 1..Len(answers), Answering(j) PROVE AnswerInv'
  <2>1. PICK a \in Answers : answers' = [answers EXCEPT ![j] = a]
    BY <1>4 DEF Answering, Flushed, TimesOut, Acknowledge, GiveUp, Answers
  <2>2. UNCHANGED <<outbox, reports, errors, log>>
    BY <1>4 DEF Answering, Flushed, TimesOut, Acknowledge, GiveUp
  <2>3. ASSUME NEW i \in 1..Len(answers) PROVE Accounted(i)' /\ (Durable(i)' <=> Durable(i))
    BY <2>2 DEF AnswerInv, RequestInv, Accounted, Held, Erring, Durable
  <2>4. RequestInv(j)'
    <3>1. CASE Flushed(j)
      <4>1. answers'[j] = "flushed" /\ outbox = <<>> /\ reports = <<>>
        BY <1>a, <3>1 DEF Flushed, Remaining
      <4>2. j \in errors \/ Durable(j)
        BY <4>1 DEF AnswerInv, RequestInv, Accounted, Held, Erring
      <4> QED BY <2>2, <2>3, <4>1, <4>2 DEF RequestInv
    <3>2. CASE Acknowledge(j)
      <4>1. answers'[j] = "queued" /\ answers[j] = "flushed" /\ j \notin errors
        BY <1>a, <3>2 DEF Acknowledge, Confirmed
      <4>2. Durable(j)
        BY <4>1 DEF AnswerInv, RequestInv
      <4> QED BY <2>3, <4>1, <4>2 DEF RequestInv
    <3>3. CASE TimesOut(j) \/ GiveUp(j)
      <4>1. answers'[j] = "failed"
        BY <1>a, <3>3 DEF TimesOut, GiveUp
      <4> QED BY <2>3, <4>1 DEF RequestInv
    <3> QED BY <1>4, <3>1, <3>2, <3>3 DEF Answering
  <2>5. ASSUME NEW i \in 1..Len(answers), i # j PROVE RequestInv(i)'
    <3>1. answers'[i] = answers[i]
      BY <2>1, <2>5
    <3> QED BY <2>2, <2>3, <2>5, <3>1, AccountKept DEF AnswerInv
  <2>6. Len(answers') = Len(answers)
    BY <1>a, <2>1
  <2> QED BY <2>4, <2>5, <2>6 DEF AnswerInv
<1>5. CASE Group \/ ForeignProduce \/ UNCHANGED vars \/ \E w \in Workers : Worker(w)
  <2>1. UNCHANGED slackVars
    BY <1>5 DEF ForeignProduce, Group, Assign, Rebalance, vars, Worker, Loop, Start, Poll,
                PollChokes, Applied, Rejected, Choke, Publish, PublishFails, Commit,
                CommitFails, Crash
  <2>2. ASSUME NEW i \in 1..Len(answers) PROVE Accounted(i)'
    <3>1. (Held(i) => Held(i)') /\ (Erring(i) => Erring(i)')
      BY <2>1 DEF Held, Erring, slackVars
    <3> QED BY <1>b, <2>1, <3>1 DEF AnswerInv, RequestInv, Accounted, slackVars
  <2> QED BY <1>c, <2>1, <2>2 DEF slackVars
<1>6. CASE Deliver \/ Drop
  BY <1>2, <1>6 DEF Deliver, Drop
<1> QED BY <1>1, <1>3, <1>4, <1>5, <1>6 DEF Next, Slack, Answering

(* What Slack has called queued is in the topic.  The send that said so    *)
(* knows of a flush that left nothing over and of its own list of errors   *)
(* (Publisher.send): the account of every message is what carries it, over *)
(* other threads' messages and whichever thread served the report.         *)
THEOREM QueuedMeansDurable == Spec => []QueuedIsDurable
<1>1. Init => AnswerInv
  BY DEF Init, AnswerInv
<1>2. TypeOK /\ AnswerInv => QueuedIsDurable
  <2> SUFFICES ASSUME TypeOK, AnswerInv, NEW i \in DOMAIN answers, answers[i] = "queued"
               PROVE  Durable(i)
    BY DEF QueuedIsDurable
  <2>1. i \in 1..Len(answers)
    BY DEF TypeOK
  <2> QED BY <2>1 DEF AnswerInv, RequestInv
<1> QED BY <1>1, <1>2, AnswerStep, TypeCorrect, PTL DEF Spec
-----------------------------------------------------------------------------
(* The order of the topic, as long as the partition stays with a worker    *)
(* that runs: only its owner holds a message, the one after the committed  *)
(* offset, and no later one has ever been applied.                         *)
Holds(w) ==
    /\ Busy(w) => owner = w /\ position[w] = committed + 1 /\ current[w] = position[w]
    /\ owner = w /\ ~Busy(w) => position[w] = committed

LastDecides(r, f) ==
    \/ LastSetter(r, f) = {} /\ spec[r][f] = FALSE
    \/ \E m \in LastSetter(r, f) : /\ \A o \in LastSetter(r, f) : o <= m
                                   /\ spec[r][f] = Fields(log[m].cmd)[f]

LastSettersDecide == \A r \in Resources, f \in FieldNames : LastDecides(r, f)

OrderInv ==
    rebalances = 0 => /\ \A w \in Workers : Holds(w)
                      /\ landed \subseteq 1..(committed + 1)
                      /\ LastSettersDecide

(* A step that applies nothing leaves the last setters as they were.       *)
LEMMA SettersKept ==
    ASSUME TypeOK, LastSettersDecide, UNCHANGED <<spec, landed>>,
           \A o \in landed : log'[o] = log[o]
    PROVE  LastSettersDecide'
<1> SUFFICES ASSUME NEW r \in Resources, NEW f \in FieldNames PROVE LastDecides(r, f)'
  BY DEF LastSettersDecide
<1>1. LastSetter(r, f)' = LastSetter(r, f) /\ LastSetter(r, f) \subseteq landed
  BY DEF LastSetter
<1>2. LastDecides(r, f)
  BY DEF LastSettersDecide
<1> QED BY <1>1, <1>2 DEF LastDecides

(* A patch that comes after every patch there is decides the fields it     *)
(* sets, and no other.                                                     *)
LEMMA LandingDecides ==
    ASSUME TypeOK, LastSettersDecide, UNCHANGED log,
           NEW o \in 1..Len(log), landed \subseteq 1..o, Land(o)
    PROVE  LastSettersDecide'
<1> DEFINE c == log[o].cmd
<1>1. /\ landed' = landed \cup {o} /\ landed' \subseteq 1..o
      /\ spec' = [spec EXCEPT ![Key(c)] = Merge(spec[Key(c)], Fields(c))]
      /\ DOMAIN spec = Resources
  BY DEF Land, TypeOK
<1> SUFFICES ASSUME NEW r \in Resources, NEW f \in FieldNames PROVE LastDecides(r, f)'
  BY DEF LastSettersDecide
<1>2. CASE Key(c) = r /\ f \in DOMAIN Fields(c)
  <2>1. o \in LastSetter(r, f)' /\ \A p \in LastSetter(r, f)' : p <= o
    BY <1>1, <1>2 DEF LastSetter
  <2>2. spec'[r][f] = Fields(c)[f]
    BY <1>1, <1>2 DEF Merge
  <2> QED BY <2>1, <2>2 DEF LastDecides
<1>3. CASE ~(Key(c) = r /\ f \in DOMAIN Fields(c))
  <2>1. LastSetter(r, f)' = LastSetter(r, f)
    BY <1>1, <1>3 DEF LastSetter
  <2>2. spec'[r][f] = spec[r][f]
    <3>1. CASE Key(c) # r
      BY <1>1, <3>1
    <3>2. CASE Key(c) = r
      BY <1>1, <1>3, <3>2 DEF Merge
    <3> QED BY <3>1, <3>2
  <2>3. LastDecides(r, f)
    BY DEF LastSettersDecide
  <2> QED BY <2>1, <2>2, <2>3 DEF LastDecides
<1> QED BY <1>2, <1>3

(* Nobody forgets a rebalance.                                             *)
LEMMA RebalancesGrow ==
    ASSUME TypeOK, [Next]_vars, rebalances' = 0
    PROVE  rebalances = 0
<1>1. ASSUME NEW w \in Workers, Worker(w) PROVE rebalances' = rebalances
  BY <1>1 DEF Worker, Loop, Start, Poll, PollChokes, Applied, Rejected, Choke, Publish,
              PublishFails, Commit, CommitFails, Crash, groupVars
<1>2. CASE Slack \/ ForeignProduce \/ UNCHANGED vars
  BY <1>2, SlackQuiet DEF ForeignProduce, vars, groupVars
<1>3. CASE Group
  BY <1>3 DEF Group, Assign, Rebalance, TypeOK
<1> QED BY <1>1, <1>2, <1>3 DEF Next

LEMMA OrderStep == DeliveryInv /\ OrderInv /\ [Next]_vars => OrderInv'
<1> SUFFICES ASSUME DeliveryInv, OrderInv, [Next]_vars, rebalances' = 0
             PROVE  OrderInv'
  BY DEF OrderInv
<1>a. /\ TypeOK /\ committed \in Nat /\ NoWorker \notin Workers
      /\ landed \subseteq 1..Len(log)
      /\ \A w \in Workers : Busy(w) => current[w] \in 1..Len(log)
      /\ \A w \in Workers : position[w] \in Nat
  BY ConstantsAssumption DEF DeliveryInv, TypeOK, HolderIsNext
<1>b. rebalances = 0
  BY <1>a, RebalancesGrow
<1>c. /\ \A w \in Workers : Holds(w)
      /\ landed \subseteq 1..(committed + 1) /\ LastSettersDecide
  BY <1>b DEF OrderInv
<1>d. \A o \in landed : log'[o] = log[o]
  BY <1>a, LogGrows
<1>1. ASSUME UNCHANGED <<committed, owner, position, pc, current, spec, landed>> PROVE OrderInv'
  <2>1. LastSettersDecide'
    BY <1>1, <1>a, <1>c, <1>d, SettersKept
  <2> QED BY <1>1, <1>c, <2>1 DEF OrderInv, Holds, Busy
<1>2. CASE Slack \/ ForeignProduce \/ UNCHANGED vars
  BY <1>1, <1>2, SlackQuiet DEF ForeignProduce, vars, groupVars, loopVars, effectVars
<1>3. ASSUME NEW w \in Workers, Assign(w) PROVE OrderInv'
  <2>1. /\ owner = NoWorker /\ owner' = w /\ position' = [position EXCEPT ![w] = committed]
        /\ UNCHANGED <<log, committed, pc, current, spec, landed>>
    BY <1>3 DEF Assign, ResumeFrom, loopVars, effectVars
  <2>2. ASSUME NEW v \in Workers PROVE Holds(v)'
    <3>1. ~Busy(v) /\ (owner' = v => position'[v] = committed)
      BY <1>a, <1>c, <2>1 DEF Holds, TypeOK
    <3> QED BY <2>1, <3>1 DEF Holds, Busy
  <2>3. LastSettersDecide'
    BY <1>a, <1>c, <1>d, <2>1, SettersKept
  <2> QED BY <1>c, <2>1, <2>2, <2>3 DEF OrderInv
<1>4. ASSUME NEW w \in Workers, Rebalance(w) PROVE FALSE
  BY <1>b, <1>4 DEF Rebalance
<1>5. ASSUME NEW w \in Workers, Leave(w), UNCHANGED <<committed, spec, landed>> PROVE OrderInv'
  <2>1. ASSUME NEW v \in Workers PROVE Holds(v)'
    <3>1. CASE v = w
      <4>1. pc'[v] = "stopped" /\ owner' # v
        BY <1>5, <1>a, <3>1 DEF Leave, TypeOK
      <4> QED BY <4>1 DEF Holds, Busy
    <3>2. CASE v # w
      <4>1. /\ pc'[v] = pc[v] /\ current'[v] = current[v] /\ position'[v] = position[v]
            /\ (owner' = v) <=> (owner = v)
        BY <1>5, <1>a, <1>c, <3>2 DEF Leave, TypeOK
      <4> QED BY <1>5, <1>c, <4>1 DEF Holds, Busy
    <3> QED BY <3>1, <3>2
  <2>2. LastSettersDecide'
    BY <1>5, <1>a, <1>c, <1>d, SettersKept
  <2> QED BY <1>5, <1>c, <2>1, <2>2 DEF OrderInv
<1>6. ASSUME NEW w \in Workers,
             Crash(w) \/ PollChokes(w) \/ Choke(w) \/ PublishFails(w) \/ CommitFails(w)
      PROVE  OrderInv'
  <2>1. Leave(w) /\ UNCHANGED <<committed, spec, landed>>
    BY <1>6 DEF Crash, PollChokes, Choke, PublishFails, CommitFails, Record, effectVars
  <2> QED BY <1>5, <2>1
<1>7. ASSUME NEW w \in Workers, UNCHANGED <<committed, owner>>, \A v \in Workers \ {w} :
                pc'[v] = pc[v] /\ current'[v] = current[v] /\ position'[v] = position[v],
             Holds(w)', landed' \subseteq 1..(committed + 1), LastSettersDecide'
      PROVE  OrderInv'
  <2>1. ASSUME NEW v \in Workers \ {w} PROVE Holds(v)'
    BY <1>7, <1>c, <2>1 DEF Holds, Busy
  <2> QED BY <1>7, <2>1 DEF OrderInv
<1>8. ASSUME NEW w \in Workers, Start(w) \/ Publish(w) PROVE OrderInv'
  <2>1. /\ UNCHANGED <<log, committed, owner, position, current, spec, landed>>
        /\ Busy(w)' <=> Busy(w)
        /\ \A v \in Workers \ {w} : pc'[v] = pc[v]
    BY <1>8, <1>a DEF Start, Publish, AfterPublish, Record, groupVars, effectVars, Busy, TypeOK
  <2>2. Holds(w)'
    BY <1>c, <2>1 DEF Holds
  <2>3. LastSettersDecide'
    BY <1>a, <1>c, <1>d, <2>1, SettersKept
  <2> QED BY <1>7, <1>c, <2>1, <2>2, <2>3
<1>9. ASSUME NEW w \in Workers, Poll(w) PROVE OrderInv'
  <2>1. /\ UNCHANGED <<log, committed, owner, spec, landed>> /\ owner = w
        /\ ~Busy(w) /\ position'[w] = position[w] + 1 /\ current'[w] = position[w] + 1
        /\ \A v \in Workers \ {w} :
              pc'[v] = pc[v] /\ current'[v] = current[v] /\ position'[v] = position[v]
    BY <1>9, <1>a DEF Poll, Busy, effectVars, TypeOK
  <2>2. Busy(w)'
    BY <1>9, <1>a DEF Poll, Busy, Verdict, TypeOK
  <2>3. Holds(w)'
    BY <1>c, <2>1, <2>2 DEF Holds
  <2>4. LastSettersDecide'
    BY <1>a, <1>c, <1>d, <2>1, SettersKept
  <2> QED BY <1>7, <1>c, <2>1, <2>3, <2>4
<1>10. ASSUME NEW w \in Workers, Applied(w) \/ Rejected(w) PROVE OrderInv'
  <2>1. /\ pc[w] = "handling" /\ UNCHANGED <<log, committed, owner, position, current>>
        /\ pc'[w] \in {"handling", "report", "deadLetter"}
        /\ \A v \in Workers \ {w} : pc'[v] = pc[v]
        /\ Land(current[w]) \/ UNCHANGED <<spec, landed>>
    BY <1>10, <1>a DEF Applied, Rejected, AfterRetries, groupVars, effectVars, TypeOK
  <2>2. Holds(w)' /\ current[w] = committed + 1 /\ current[w] \in 1..Len(log)
    BY <1>a, <1>c, <2>1 DEF Holds, Busy
  <2>3. landed' \subseteq 1..(committed + 1)
    <3>1. landed' \subseteq landed \cup {committed + 1}
      BY <2>1, <2>2 DEF Land
    <3> QED BY <1>a, <1>c, <3>1
  <2>4. LastSettersDecide'
    BY <1>a, <1>c, <1>d, <2>1, <2>2, LandingDecides, SettersKept
  <2> QED BY <1>7, <2>1, <2>2, <2>3, <2>4
<1>11. ASSUME NEW w \in Workers, Commit(w) PROVE OrderInv'
  <2>1. /\ pc[w] = "committing" /\ committed' = current[w] /\ pc'[w] = "idle"
        /\ UNCHANGED <<log, owner, position, spec, landed>>
        /\ \A v \in Workers \ {w} : pc'[v] = pc[v]
    BY <1>11, <1>a DEF Commit, MayCommit, effectVars, TypeOK
  <2>2. owner = w /\ position[w] = committed + 1 /\ committed' = committed + 1
        /\ committed' = position[w]
    BY <1>c, <2>1 DEF Holds, Busy
  <2>3. ASSUME NEW v \in Workers PROVE Holds(v)'
    <3>1. CASE v = w
      BY <2>1, <2>2, <3>1 DEF Holds, Busy
    <3>2. CASE v # w
      <4>1. ~Busy(v) /\ owner # v
        BY <1>c, <2>2, <3>2 DEF Holds
      <4> QED BY <2>1, <3>2, <4>1 DEF Holds, Busy
    <3> QED BY <3>1, <3>2
  <2>4. landed' \subseteq 1..(committed' + 1)
    BY <1>a, <1>c, <2>1, <2>2
  <2>5. LastSettersDecide'
    BY <1>a, <1>c, <1>d, <2>1, SettersKept
  <2> QED BY <2>3, <2>4, <2>5 DEF OrderInv
<1> QED
  BY <1>2, <1>3, <1>4, <1>6, <1>8, <1>9, <1>10, <1>11 DEF Next, Group, Worker, Loop

LEMMA OrderCorrect == Spec => []OrderInv
<1>1. Init => OrderInv
  <2> SUFFICES ASSUME Init PROVE OrderInv
    OBVIOUS
  <2>1. \A w \in Workers : ~Busy(w) /\ owner # w
    BY ConstantsAssumption DEF Init, Busy
  <2>2. LastSettersDecide
    BY DEF Init, LastSettersDecide, LastDecides, LastSetter
  <2> QED BY <2>1, <2>2 DEF Init, OrderInv, Holds
<1> QED BY <1>1, OrderStep, DeliveryCorrect, PTL DEF Spec

(* What the invariant calls the last setter is the maximum of the setters. *)
LEMMA MaxIsLast ==
    ASSUME NEW S \in SUBSET Nat, NEW m \in S, \A x \in S : x <= m
    PROVE  Max(S) = m
<1>1. \A y \in S : m >= y
  OBVIOUS
<1>2. Max(S) \in S /\ \A y \in S : Max(S) >= y
  BY <1>1 DEF Max
<1>3. Max(S) >= m /\ m >= Max(S) /\ Max(S) \in Nat /\ m \in Nat
  BY <1>1, <1>2
<1> QED BY <1>3

LEMMA DecidedByMax ==
    ASSUME TypeOK, NEW r, NEW f, LastDecides(r, f)
    PROVE  LET setters == LastSetter(r, f)
           IN  spec[r][f] = IF setters = {} THEN FALSE ELSE Fields(log[Max(setters)].cmd)[f]
<1>1. LastSetter(r, f) \in SUBSET Nat
  <2>1. landed \subseteq 1..Len(log) /\ Len(log) \in Nat
    BY DEF TypeOK
  <2>2. landed \subseteq Nat
    BY <2>1
  <2> QED BY <2>2 DEF LastSetter
<1>2. CASE LastSetter(r, f) = {}
  BY <1>2 DEF LastDecides
<1>3. CASE LastSetter(r, f) # {}
  <2>1. PICK m \in LastSetter(r, f) : /\ \A o \in LastSetter(r, f) : o <= m
                                     /\ spec[r][f] = Fields(log[m].cmd)[f]
    BY <1>3 DEF LastDecides
  <2>2. Max(LastSetter(r, f)) = m
    BY <1>1, <2>1, MaxIsLast
  <2> QED BY <1>3, <2>1, <2>2
<1> QED BY <1>2, <1>3

(* The order of the topic decides: whatever crashes and replays, each      *)
(* field of a resource has the value that the last applied command gave it, *)
(* unless the partition was moved under a worker that still ran.           *)
THEOREM IntentIsOrdered == Spec => []IntentFollowsLog
<1>1. DeliveryInv /\ OrderInv => IntentFollowsLog
  BY DecidedByMax DEF DeliveryInv, OrderInv, LastSettersDecide, IntentFollowsLog
<1> QED BY <1>1, OrderCorrect, DeliveryCorrect, PTL
=============================================================================
