--------------------------- MODULE AgentTaskProofs ---------------------------
(***************************************************************************)
(* Theorems about AgentTask, for any number of submissions and of faults:  *)
(* a committed result is on its object, and the last recorded one counts.  *)
(***************************************************************************)
EXTENDS AgentTask, SequenceTheorems, TLAPS

\* The agent publishes a result exactly while it has one, of a task in the topic.
FlightInv ==
    /\ agent = "publishing" <=> flight # "none"
    /\ agent = "publishing" => taskCommitted < Len(taskLog)

\* The result thread is at most one result ahead of what its group has committed.
OffsetInv ==
    /\ resPos = IF recorder = "recorded" THEN resCommitted + 1 ELSE resCommitted
    /\ recorded \subseteq 1..(resCommitted + 1)
    /\ elsewhere \subseteq 1..resCommitted
    /\ \A o \in recorded : results[o].task \in Tasks

\* Whoever reads of t finds its object, unless that is in another namespace.
HasObject(t) == phase[t] # "absent" \/ stage[t] = "foreign"

\* How far submit is says what there is of an object and of a message.
ObjectInv ==
    /\ \A t \in Tasks :
          /\ stage[t] \in {"none", "foreign"} => phase[t] = "absent" /\ sent[t] = "none"
          /\ stage[t] \in {"created", "flushing", "patching", "routed"} => phase[t] # "absent"
          /\ sent[t] # "none" => phase[t] # "absent"
          /\ phase[t] = "routed" => stage[t] \in {"routed", "error"}
    /\ \A o \in 1..Len(taskLog) : taskLog[o] \in Tasks => HasObject(taskLog[o])
    /\ \A o \in 1..Len(results) : results[o].task \in Tasks => HasObject(results[o].task)

\* What has become of a task whose result was polled.
Settled(t) == \/ phase[t] \in Verdicts
              \/ phase[t] = "absent" /\ stage[t] = "foreign"
              \/ phase[t] = "routed" /\ stage[t] \in {"routed", "error"}

\* Results up to the polled one, not only to the committed one, are settled.
SettledInv ==
    \A o \in 1..resPos \ elsewhere :
        results[o].task \in Tasks => Settled(results[o].task)

\* A verdict on an object is that of a result after which no other of its task
\* was recorded.
LastInv ==
    \A t \in Tasks : phase[t] \in Verdicts =>
        \E o \in recorded :
            /\ results[o].task = t /\ phase[t] = results[o].verdict
            /\ \A p \in recorded : results[p].task = t => p <= o

TaskInv == TypeOK /\ FlightInv /\ OffsetInv /\ ObjectInv /\ SettledInv /\ LastInv

-----------------------------------------------------------------------------
Messages == Tasks \cup {"garbage"}
Result   == [task : Tasks \cup Others, verdict : Verdicts]

\* The steps of one submission, and those that publish a result of the agent.
Submits(t) == \/ Submission(t) \/ DeliverTask(t) \/ LoseTask(t)
              \/ SubmitFails(t) \/ SubmitCrash(t) \/ SubmitElsewhere(t)
Answers    == DeliverResult \/ AgentFails \/ AgentCrash

LEMMA AppendOne ==
    ASSUME NEW S, NEW s \in Seq(S), NEW e \in S
    PROVE  /\ Append(s, e) \in Seq(S) /\ Len(Append(s, e)) = Len(s) + 1
           /\ \A i \in 1..Len(s) : Append(s, e)[i] = s[i]
           /\ Append(s, e)[Len(s) + 1] = e
  BY AppendProperties

LEMMA UpToGrows ==
    \A m, n \in Nat : m <= n => 1..m \subseteq 1..n /\ 1..(m + 1) \subseteq 1..(n + 1)
  OBVIOUS

\* What the agent appends is an answer to the task it has polled.
LEMMA AnswerIsOfTask ==
    ASSUME TypeOK, FlightInv, agent = "publishing", Answered
    PROVE  \E r \in Result :
              /\ results' = Append(results, r)
              /\ r.task \in Tasks => \E o \in 1..Len(taskLog) : r.task = taskLog[o]
  <1> DEFINE o == taskCommitted + 1
  <1>1. o \in 1..Len(taskLog) /\ taskLog[o] \in Messages
    BY DEF TypeOK, FlightInv, Messages
  <1>2. PICK v \in Verdicts : results' = Append(results, Answer(v))
    BY DEF Answered
  <1>3. Answer(v) = IF taskLog[o] = "garbage" THEN [task |-> "unnamed", verdict |-> "failed"]
                                              ELSE [task |-> taskLog[o], verdict |-> v]
    BY DEF Answer, NextTask
  <1> HIDE DEF o
  <1>4. Answer(v) \in Result
    BY <1>1, <1>3 DEF Result, Messages, Others, Verdicts
  <1>5. Answer(v).task \in Tasks => Answer(v).task = taskLog[o]
    BY <1>1, <1>3, ConstantsAssumption DEF Others
  <1> QED BY <1>1, <1>2, <1>4, <1>5

\* No step changes what is in a topic; a result that is new is an answer to a
\* task, and a task that is new is one that its submission has sent.
LEMMA TopicsGrow ==
    ASSUME TypeOK, FlightInv, [Next]_vars
    PROVE  /\ \/ UNCHANGED taskLog
              \/ \E m \in Messages :
                    /\ taskLog' = Append(taskLog, m)
                    /\ m \in Tasks => \/ sent[m] = "inflight" /\ UNCHANGED phase
                                      \/ stage'[m] = "foreign"
           /\ \/ UNCHANGED results
              \/ \E r \in Result :
                    /\ results' = Append(results, r)
                    /\ r.task \in Tasks => \E o \in 1..Len(taskLog) : r.task = taskLog[o]
  <1>1. ASSUME NEW t \in Tasks, Submits(t)
        PROVE  /\ UNCHANGED results
               /\ \/ UNCHANGED taskLog
                  \/ /\ taskLog' = Append(taskLog, t)
                     /\ (sent[t] = "inflight" /\ UNCHANGED phase) \/ stage'[t] = "foreign"
    BY <1>1 DEF Submits, Submission, Create, Produce, Flushed, FlushTimesOut, MarkRouted,
                DeliverTask, LoseTask, SubmitFails, SubmitCrash, SubmitElsewhere, TypeOK
  <1>2. CASE ForeignMessage
    <2>1. [task |-> "garbage", verdict |-> "completed"] \in Result
      BY DEF Result, Others, Verdicts
    <2>2. "garbage" \notin Tasks
      BY ConstantsAssumption DEF Others
    <2>3. CASE UNCHANGED results
      BY <1>2, <2>2, <2>3 DEF ForeignMessage, Messages
    <2>4. CASE UNCHANGED taskLog
      BY <1>2, <2>1, <2>2, <2>4 DEF ForeignMessage
    <2> QED BY <1>2, <2>3, <2>4 DEF ForeignMessage
  <1>3. CASE Answers
    <2>1. UNCHANGED taskLog
      BY <1>3 DEF Answers, DeliverResult, AgentFails, AgentCrash, AgentEnds
    <2>2. UNCHANGED results \/ (flight = "inflight" /\ Answered)
      BY <1>3 DEF Answers, DeliverResult, AgentFails, AgentCrash, AgentEnds
    <2> QED BY <2>1, <2>2, AnswerIsOfTask DEF FlightInv
  <1>4. CASE \/ AgentStart \/ Execute \/ Chokes \/ AgentCommit \/ LoseResult
             \/ Recorder \/ RecorderDies \/ ConsumedElsewhere \/ PodRestart \/ UNCHANGED vars
    BY <1>4 DEF AgentStart, Execute, Chokes, AgentCommit, LoseResult, Recorder, Record,
                RecordChokes, RecorderCommit, RecorderDies, ConsumedElsewhere, PodRestart, vars
  <1> QED BY <1>1, <1>2, <1>3, <1>4 DEF Next, Agent, Submits, Answers, Messages

LEMMA TopicsKept ==
    ASSUME TypeOK, FlightInv, [Next]_vars
    PROVE  /\ taskLog' \in Seq(Messages) /\ Len(taskLog) <= Len(taskLog')
           /\ \A o \in 1..Len(taskLog) : taskLog'[o] = taskLog[o]
           /\ results' \in Seq(Result) /\ Len(results) <= Len(results')
           /\ \A o \in 1..Len(results) : results'[o] = results[o]
           /\ Len(taskLog) \in Nat /\ Len(results) \in Nat
           /\ Len(taskLog') \in Nat /\ Len(results') \in Nat
  <1>1. taskLog \in Seq(Messages) /\ results \in Seq(Result)
    BY DEF TypeOK, Messages, Result
  <1>2. /\ taskLog' \in Seq(Messages) /\ Len(taskLog) <= Len(taskLog')
        /\ \A o \in 1..Len(taskLog) : taskLog'[o] = taskLog[o]
    <2>1. CASE UNCHANGED taskLog
      BY <1>1, <2>1
    <2>2. ASSUME NEW m \in Messages, taskLog' = Append(taskLog, m) PROVE <1>2
      BY <1>1, <2>2, AppendOne
    <2> QED BY <2>1, <2>2, TopicsGrow
  <1>3. /\ results' \in Seq(Result) /\ Len(results) <= Len(results')
        /\ \A o \in 1..Len(results) : results'[o] = results[o]
    <2>1. CASE UNCHANGED results
      BY <1>1, <2>1
    <2>2. ASSUME NEW r \in Result, results' = Append(results, r) PROVE <1>3
      BY <1>1, <2>2, AppendOne
    <2> QED BY <2>1, <2>2, TopicsGrow
  <1> QED BY <1>1, <1>2, <1>3, LenProperties

-----------------------------------------------------------------------------
(* The types, and where the two loops are.                                 *)
Typed == TypeOK /\ FlightInv /\ OffsetInv

LEMMA TypedInit == Init => Typed
  <1> SUFFICES ASSUME Init PROVE Typed
    OBVIOUS
  <1>1. taskLog \in Seq(Messages) /\ Len(taskLog) = 0 /\ results \in Seq(Result) /\ Len(results) = 0
    BY DEF Init
  <1>2. 0 \in 0..MaxFaults
    BY ConstantsAssumption
  <1>3. TypeOK
    BY <1>1, <1>2 DEF Init, TypeOK, Stages, Phases, Messages, Result
  <1>4. FlightInv /\ OffsetInv
    BY <1>1 DEF Init, FlightInv, OffsetInv
  <1> QED BY <1>3, <1>4 DEF Typed

LEMMA TypedStep == Typed /\ [Next]_vars => Typed'
  <1> SUFFICES ASSUME TypeOK, FlightInv, OffsetInv, [Next]_vars PROVE Typed'
    BY DEF Typed
  <1>k. /\ taskLog' \in Seq(Messages) /\ Len(taskLog) <= Len(taskLog')
        /\ results' \in Seq(Result) /\ Len(results) <= Len(results')
        /\ \A o \in 1..Len(results) : results'[o] = results[o]
        /\ Len(taskLog) \in Nat /\ Len(results) \in Nat
        /\ Len(taskLog') \in Nat /\ Len(results') \in Nat
        /\ runtime' = runtime
    <2>1. runtime' = runtime
      BY DEF Next, Submission, Create, Produce, Flushed, FlushTimesOut, MarkRouted, DeliverTask,
             LoseTask, SubmitFails, SubmitCrash, SubmitElsewhere, ForeignMessage, Agent,
             AgentStart, Execute, Chokes, DeliverResult, AgentCommit, AgentFails, AgentEnds,
             LoseResult, AgentCrash, Recorder, Record, RecordChokes, RecorderCommit,
             RecorderDies, ConsumedElsewhere, PodRestart, agentVars, vars
    <2> QED BY <2>1, TopicsKept
  <1>c. MaxFaults \in Nat
    BY ConstantsAssumption
  <1>f. ASSUME Fault PROVE faults' \in 0..MaxFaults
    BY <1>c, <1>f DEF Fault, TypeOK
  \* What each part of the system changes, and what it leaves alone.
  <1> DEFINE SubmitTypes == /\ stage' \in [Tasks -> Stages]
                            /\ sent' \in [Tasks -> {"none", "inflight", "gone"}]
             AgentTypes  == /\ taskCommitted' \in 0..Len(taskLog')
                            /\ agent' \in {"down", "idle", "publishing", "dead"}
                            /\ flight' \in {"none", "inflight", "delivered", "lost"}
             RecorderTypes == /\ resCommitted' \in 0..Len(results') /\ resPos' \in 0..Len(results')
                              /\ recorded' \cup elsewhere' \subseteq 1..Len(results')
                              /\ recorder' \in {"dead", "idle", "recorded"}
  <1>u1. ASSUME UNCHANGED agentVars PROVE AgentTypes /\ FlightInv'
    BY <1>u1, <1>k DEF agentVars, TypeOK, FlightInv
  <1>u2. ASSUME UNCHANGED recVars PROVE RecorderTypes /\ OffsetInv'
    <2>1. /\ resCommitted' = resCommitted /\ recorder' = recorder /\ resPos' = resPos
          /\ recorded' = recorded /\ elsewhere' = elsewhere
      BY <1>u2 DEF recVars
    <2>2. \A o \in recorded : o \in 1..Len(results) /\ results[o].task \in Tasks
      BY DEF TypeOK, OffsetInv
    <2>3. OffsetInv'
      BY <2>1, <2>2, <1>k DEF OffsetInv
    <2> QED BY <2>1, <2>3, <1>k DEF TypeOK
  <1>u3. ASSUME UNCHANGED submitVars PROVE SubmitTypes
    BY <1>u3 DEF submitVars, TypeOK
  <1>u4. ASSUME UNCHANGED phase PROVE phase' \in [Tasks -> Phases]
    BY <1>u4 DEF TypeOK
  <1>u5. ASSUME UNCHANGED faults PROVE faults' \in 0..MaxFaults
    BY <1>u5 DEF TypeOK
  <1>q. ASSUME SubmitTypes, AgentTypes, RecorderTypes, phase' \in [Tasks -> Phases],
               faults' \in 0..MaxFaults, FlightInv', OffsetInv'
        PROVE  Typed'
    BY <1>q, <1>k DEF Typed, TypeOK, Messages, Result
  <1>1. ASSUME NEW t \in Tasks, Submits(t) PROVE Typed'
    <2>1. SubmitTypes /\ phase' \in [Tasks -> Phases] /\ faults' \in 0..MaxFaults
      BY <1>1, <1>f, <1>u5
         DEF Submits, Submission, Create, Produce, Flushed, FlushTimesOut, MarkRouted,
             DeliverTask, LoseTask, SubmitFails, SubmitCrash, SubmitElsewhere,
             TypeOK, Stages, Phases
    <2>2. UNCHANGED <<agentVars, recVars>>
      BY <1>1 DEF Submits, Submission, Create, Produce, Flushed, FlushTimesOut, MarkRouted,
                  DeliverTask, LoseTask, SubmitFails, SubmitCrash, SubmitElsewhere
    <2> QED BY <1>q, <1>u1, <1>u2, <2>1, <2>2
  <1>2. CASE ForeignMessage \/ UNCHANGED vars
    <2>1. UNCHANGED <<submitVars, phase, agentVars, recVars>>
      BY <1>2 DEF ForeignMessage, vars
    <2>2. faults' \in 0..MaxFaults
      BY <1>2, <1>f, <1>u5 DEF ForeignMessage, vars
    <2> QED BY <1>q, <1>u1, <1>u2, <1>u3, <1>u4, <2>1, <2>2
  <1>3. CASE Agent \/ LoseResult \/ AgentCrash
    <2>1. UNCHANGED <<submitVars, phase, recVars>>
      BY <1>3 DEF Agent, AgentStart, Execute, Chokes, DeliverResult, AgentCommit, AgentFails,
                  AgentEnds, LoseResult, AgentCrash
    <2>2. faults' \in 0..MaxFaults
      BY <1>3, <1>f, <1>u5 DEF Agent, AgentStart, Execute, Chokes, DeliverResult, AgentCommit,
                  AgentFails, AgentEnds, LoseResult, AgentCrash
    <2>3. AgentTypes /\ FlightInv'
      <3>1. CASE Execute
        BY <3>1, <1>k DEF Execute, Polls, TypeOK, FlightInv
      <3>2. CASE DeliverResult \/ LoseResult
        BY <3>2, <1>k DEF DeliverResult, LoseResult, TypeOK, FlightInv
      <3>3. CASE AgentCommit
        BY <3>3, <1>k DEF AgentCommit, TypeOK, FlightInv
      <3>4. CASE AgentStart \/ Chokes \/ AgentFails \/ AgentCrash
        BY <3>4, <1>k DEF AgentStart, Chokes, AgentFails, AgentCrash, AgentEnds, Polls,
                          TypeOK, FlightInv
      <3> QED BY <1>3, <3>1, <3>2, <3>3, <3>4 DEF Agent
    <2> QED BY <1>q, <1>u2, <1>u3, <1>u4, <2>1, <2>2, <2>3
  <1>4. CASE Recorder \/ RecorderDies \/ ConsumedElsewhere \/ PodRestart
    <2>1. UNCHANGED <<submitVars, agentVars, results>>
      BY <1>4 DEF Recorder, Record, RecordChokes, RecorderCommit, RecorderDies,
                  ConsumedElsewhere, PodRestart
    <2>2. faults' \in 0..MaxFaults
      BY <1>4, <1>f, <1>u5 DEF Recorder, Record, RecordChokes, RecorderCommit, RecorderDies,
                  ConsumedElsewhere, PodRestart
    <2>4. /\ resPos < Len(results) => resPos + 1 \in 1..Len(results)
          /\ resPos \in Nat /\ resCommitted \in Nat
          /\ \A o \in 1..Len(results) : results[o] \in Result
      <3>1. results \in Seq(Result)
        BY DEF TypeOK, Result
      <3>2. \A o \in 1..Len(results) : results[o] \in Result
        BY <3>1, ElementOfSeq
      <3>3. /\ resPos < Len(results) => resPos + 1 \in 1..Len(results)
            /\ resPos \in Nat /\ resCommitted \in Nat
        BY <1>k DEF TypeOK
      <3> QED BY <3>2, <3>3
    <2>3. ASSUME resPos < Len(results), NextResult.task \in Tasks, ApplyResult(resPos + 1)
          PROVE  /\ phase' \in [Tasks -> Phases] /\ recorded' = recorded \cup {resPos + 1}
                 /\ results[resPos + 1].task \in Tasks
      <3>1. results[resPos + 1].verdict \in Phases
        BY <2>3, <2>4 DEF Result, Phases
      <3> QED BY <2>3, <3>1 DEF ApplyResult, NextResult, TypeOK
    <2>o. ASSUME resPos < Len(results), results[resPos + 1].task \in Tasks,
                 recorded' = recorded \cup {resPos + 1}, resPos = resCommitted,
                 resCommitted' = resCommitted, elsewhere' = elsewhere
          PROVE  /\ recorded' \subseteq 1..(resCommitted' + 1)
                 /\ recorded' \cup elsewhere' \subseteq 1..Len(results')
                 /\ elsewhere' \subseteq 1..resCommitted'
                 /\ \A o \in recorded' : results'[o].task \in Tasks
      BY <2>o, <2>1, <2>4 DEF TypeOK, OffsetInv
    <2>v. ASSUME recorded' = recorded, elsewhere' = elsewhere, resCommitted <= resCommitted',
                 resCommitted' \in Nat
          PROVE  /\ recorded' \subseteq 1..(resCommitted' + 1)
                 /\ recorded' \cup elsewhere' \subseteq 1..Len(results')
                 /\ elsewhere' \subseteq 1..resCommitted'
                 /\ \A o \in recorded' : results'[o].task \in Tasks
      <3>1. 1..(resCommitted + 1) \subseteq 1..(resCommitted' + 1)
            /\ 1..resCommitted \subseteq 1..resCommitted'
        <4>1. resCommitted \in Nat /\ resCommitted' \in Nat /\ resCommitted <= resCommitted'
          BY <2>v, <2>4
        <4> QED BY <4>1, UpToGrows
      <3>2. \A o \in recorded : results[o].task \in Tasks
        BY DEF OffsetInv
      <3> QED BY <2>v, <2>1, <3>1, <3>2 DEF TypeOK, OffsetInv
    <2>5. phase' \in [Tasks -> Phases] /\ RecorderTypes /\ OffsetInv'
      <3>1. CASE Record
        <4>1. NextResult.task # "unnamed" => NextResult.task \in Tasks
          BY <3>1, <2>4 DEF Record, NextResult, Result, Others
        <4>2. CASE NextResult.task = "unnamed"
          <5>1. /\ UNCHANGED <<phase, recorded, elsewhere, resCommitted>> /\ resPos < Len(results)
                /\ recorder = "idle" /\ recorder' = "recorded" /\ resPos' = resPos + 1
            BY <3>1, <4>2 DEF Record
          <5>2. resPos = resCommitted
            BY <5>1 DEF OffsetInv
          <5> QED BY <5>1, <5>2, <2>1, <2>4, <2>v, <1>u4 DEF TypeOK, OffsetInv
        <4>3. CASE NextResult.task # "unnamed"
          <5>1. /\ ApplyResult(resPos + 1) /\ UNCHANGED <<elsewhere, resCommitted>>
                /\ resPos < Len(results)
                /\ recorder = "idle" /\ recorder' = "recorded" /\ resPos' = resPos + 1
            BY <3>1, <4>3 DEF Record
          <5>2. resPos = resCommitted
            BY <5>1 DEF OffsetInv
          <5> QED BY <5>1, <5>2, <4>1, <4>3, <2>1, <2>3, <2>4, <2>o DEF TypeOK, OffsetInv
        <4> QED BY <4>2, <4>3
      <3>2. CASE RecordChokes \/ RecorderCommit \/ PodRestart
        <4>1. /\ UNCHANGED <<phase, recorded, elsewhere>> /\ recorder' \in {"dead", "idle"}
              /\ resCommitted' \in {resCommitted, resPos} /\ resPos' = resCommitted'
          BY <3>2 DEF RecordChokes, RecorderCommit, PodRestart, ResumeFrom, OffsetInv
        <4>2. resCommitted <= resCommitted' /\ resCommitted' \in Nat
          BY <4>1, <2>4 DEF OffsetInv
        <4> QED BY <4>1, <4>2, <2>1, <2>4, <2>v, <1>u4 DEF TypeOK, OffsetInv
      <3>3. CASE RecorderDies
        <4>1. CASE UNCHANGED <<phase, recorded>>
          BY <3>3, <4>1, <2>1, <2>4, <2>v, <1>u4 DEF RecorderDies, TypeOK, OffsetInv
        <4>2. CASE ~UNCHANGED <<phase, recorded>>
          <5>1. /\ recorder = "idle" /\ resPos < Len(results) /\ NextResult.task \in Tasks
                /\ ApplyResult(resPos + 1)
            BY <3>3, <4>2 DEF RecorderDies
          <5>2. /\ UNCHANGED <<elsewhere, resCommitted>> /\ resPos = resCommitted
                /\ recorder' = "dead" /\ resPos' = resCommitted
            BY <3>3, <5>1 DEF RecorderDies, OffsetInv
          <5> QED BY <5>1, <5>2, <2>1, <2>3, <2>4, <2>o DEF TypeOK, OffsetInv
        <4> QED BY <4>1, <4>2
      <3>4. CASE ConsumedElsewhere
        <4>1. PICK o \in resCommitted + 1..Len(results) :
                 /\ resCommitted' = o
                 /\ elsewhere' = elsewhere \cup resCommitted + 1..o
          BY <3>4 DEF ConsumedElsewhere
        <4>2. o \in Nat /\ o > resCommitted /\ o <= Len(results)
          BY <4>1, <2>4, <1>k
        <4>3. /\ UNCHANGED <<phase, recorder, recorded>> /\ resPos' = o
              /\ recorder # "recorded"
          BY <3>4, <4>1 DEF ConsumedElsewhere
        <4>4. /\ elsewhere' \subseteq 1..o /\ 1..o \subseteq 1..Len(results)
              /\ 1..(resCommitted + 1) \subseteq 1..(o + 1)
          BY <4>1, <4>2, <2>4, <1>k DEF OffsetInv
        <4>5. RecorderTypes
          BY <4>1, <4>2, <4>3, <4>4, <2>1 DEF TypeOK
        <4>6. OffsetInv'
          BY <4>1, <4>3, <4>4, <2>1 DEF OffsetInv
        <4> QED BY <4>3, <4>5, <4>6, <1>u4
      <3> QED BY <1>4, <3>1, <3>2, <3>3, <3>4 DEF Recorder
    <2> QED BY <1>q, <1>u1, <1>u3, <2>1, <2>2, <2>5
  <1> QED BY <1>1, <1>2, <1>3, <1>4 DEF Next, Submits

-----------------------------------------------------------------------------
(* What a step may do to objects: one submission moves, or one result is   *)
(* applied, or they stay as they are.                                      *)
Applies == /\ recorder = "idle" /\ resPos < Len(results)
           /\ NextResult.task \in Tasks /\ ApplyResult(resPos + 1)
           /\ UNCHANGED submitVars

LEMMA NextResultType ==
    ASSUME TypeOK, resPos < Len(results)
    PROVE  resPos + 1 \in 1..Len(results) /\ NextResult \in Result
  <1>1. results \in Seq(Result) /\ Len(results) \in Nat /\ resPos + 1 \in 1..Len(results)
    BY LenProperties DEF TypeOK, Result
  <1> QED BY <1>1, ElementOfSeq DEF NextResult

LEMMA RecordApplies ==
    ASSUME TypeOK, Record
    PROVE  \/ Applies
           \/ UNCHANGED <<phase, recorded>> /\ results[resPos + 1].task \notin Tasks
  <1>1. NextResult \in Result /\ NextResult = results[resPos + 1]
    BY NextResultType DEF Record, NextResult
  <1>2. NextResult.task \in Tasks <=> NextResult.task # "unnamed"
    BY <1>1, ConstantsAssumption DEF Record, Result, Others
  <1> QED BY <1>1, <1>2 DEF Record, Applies

LEMMA ObjectSteps ==
    ASSUME TypeOK, [Next]_vars
    PROVE  \/ \E t \in Tasks : Submits(t) /\ UNCHANGED <<results, recVars>>
           \/ Applies
           \/ UNCHANGED <<submitVars, phase, recorded>>
  <1>1. ASSUME NEW t \in Tasks, Submits(t) PROVE UNCHANGED <<results, recVars>>
    BY <1>1 DEF Submits, Submission, Create, Produce, Flushed, FlushTimesOut, MarkRouted,
                DeliverTask, LoseTask, SubmitFails, SubmitCrash, SubmitElsewhere
  <1>2. CASE ForeignMessage \/ Agent \/ LoseResult \/ AgentCrash \/ UNCHANGED vars
    BY <1>2 DEF ForeignMessage, Agent, AgentStart, Execute, Chokes, DeliverResult, AgentCommit,
                AgentFails, AgentEnds, LoseResult, AgentCrash, recVars, vars
  <1>3. CASE Record
    BY <1>3, RecordApplies DEF Record
  <1>4. CASE RecordChokes \/ RecorderCommit \/ ConsumedElsewhere \/ PodRestart
    BY <1>4 DEF RecordChokes, RecorderCommit, ConsumedElsewhere, PodRestart
  <1>5. CASE RecorderDies
    BY <1>5 DEF RecorderDies, Applies
  <1> QED BY <1>1, <1>2, <1>3, <1>4, <1>5 DEF Next, Recorder, Submits

\* A result that counts as polled was so before, or is applied in this step.
LEMMA PolledSteps ==
    ASSUME Typed, [Next]_vars, NEW o \in 1..resPos' \ elsewhere'
    PROVE  \/ o \in 1..resPos \ elsewhere
           \/ o = resPos + 1 /\ resPos < Len(results)
              /\ (Applies \/ results[o].task \notin Tasks)
  <1> USE DEF Typed
  <1>1. resPos \in Nat /\ resCommitted \in Nat /\ resCommitted <= resPos
    BY LenProperties DEF TypeOK, OffsetInv
  <1>2. 1..resCommitted \subseteq 1..resPos
    BY <1>1, UpToGrows
  <1>3. CASE UNCHANGED recVars
    BY <1>3 DEF recVars
  <1>4. CASE Record
    <2>1. resPos' = resPos + 1 /\ elsewhere' = elsewhere /\ resPos < Len(results)
      BY <1>4 DEF Record
    <2>2. o \in 1..resPos \/ o = resPos + 1
      BY <2>1, <1>1
    <2> QED BY <1>4, <2>1, <2>2, RecordApplies
  <1>5. CASE RecordChokes \/ RecorderCommit \/ PodRestart \/ RecorderDies
    <2>1. elsewhere' = elsewhere /\ resPos' \in {resCommitted, resPos}
      BY <1>5 DEF RecordChokes, RecorderCommit, PodRestart, RecorderDies, ResumeFrom
    <2> QED BY <2>1, <1>2
  <1>6. CASE ConsumedElsewhere
    <2>1. PICK c \in resCommitted + 1..Len(results) :
             resCommitted' = c /\ elsewhere' = elsewhere \cup resCommitted + 1..c
      BY <1>6 DEF ConsumedElsewhere
    <2>2. resPos' = c /\ resPos = resCommitted
      BY <1>6, <2>1 DEF ConsumedElsewhere, OffsetInv
    <2>3. o \in 1..c /\ o \notin resCommitted + 1..c /\ o \notin elsewhere /\ c \in Nat
      BY <2>1, <2>2, <1>1
    <2>4. o \in 1..resCommitted
      BY <2>3, <1>1
    <2> QED BY <2>2, <2>3, <2>4
  <1>7. ASSUME NEW t \in Tasks, Submits(t) PROVE UNCHANGED recVars
    BY <1>7 DEF Submits, Submission, Create, Produce, Flushed, FlushTimesOut, MarkRouted,
                DeliverTask, LoseTask, SubmitFails, SubmitCrash, SubmitElsewhere
  <1>8. CASE ForeignMessage \/ Agent \/ LoseResult \/ AgentCrash \/ UNCHANGED vars
    <2>1. UNCHANGED recVars
      BY <1>8 DEF ForeignMessage, Agent, AgentStart, Execute, Chokes, DeliverResult, AgentCommit,
                  AgentFails, AgentEnds, LoseResult, AgentCrash, vars, recVars
    <2> QED BY <2>1, <1>3
  <1> QED BY <1>3, <1>4, <1>5, <1>6, <1>7, <1>8 DEF Next, Recorder, Submits

-----------------------------------------------------------------------------
(* Objects: what submit does to its own, and that no object ever goes.     *)
ObjectOf(t) ==
    /\ stage[t] \in {"none", "foreign"} => phase[t] = "absent" /\ sent[t] = "none"
    /\ stage[t] \in {"created", "flushing", "patching", "routed"} => phase[t] # "absent"
    /\ sent[t] # "none" => phase[t] # "absent"
    /\ phase[t] = "routed" => stage[t] \in {"routed", "error"}

LEMMA SubmitStep ==
    ASSUME TypeOK, NEW t \in Tasks, Submits(t), ObjectOf(t)
    PROVE  /\ ObjectOf(t)'
           /\ HasObject(t) => HasObject(t)'
           /\ Settled(t) => Settled(t)'
           /\ phase'[t] \in Verdicts => phase'[t] = phase[t]
           /\ \A u \in Tasks \ {t} : /\ stage'[u] = stage[u] /\ sent'[u] = sent[u]
                                     /\ phase'[u] = phase[u]
  <1> USE DEF TypeOK, Stages, Phases, Verdicts, ObjectOf, HasObject, Settled
  <1>1. CASE Create(t) \/ Produce(t) \/ Flushed(t) \/ FlushTimesOut(t)
    BY <1>1 DEF Create, Produce, MayProduce, Flushed, FlushTimesOut
  <1>2. CASE MarkRouted(t) \/ DeliverTask(t) \/ LoseTask(t)
    BY <1>2 DEF MarkRouted, DeliverTask, LoseTask
  <1>3. CASE SubmitFails(t)
    BY <1>3 DEF SubmitFails
  <1>4. CASE SubmitCrash(t) \/ SubmitElsewhere(t)
    BY <1>4 DEF SubmitCrash, SubmitElsewhere
  <1> QED BY <1>1, <1>2, <1>3, <1>4 DEF Submits, Submission

LEMMA ApplyStep ==
    ASSUME TypeOK, Applies
    PROVE  LET o == resPos + 1
               t == results[o].task
           IN  /\ o \in 1..Len(results) /\ t \in Tasks /\ results[o].verdict \in Verdicts
               /\ phase'[t] = IF phase[t] = "absent" THEN "absent" ELSE results[o].verdict
               /\ \A u \in Tasks \ {t} : phase'[u] = phase[u]
               /\ recorded' = recorded \cup {o}
  <1>1. /\ resPos + 1 \in 1..Len(results) /\ results[resPos + 1] \in Result
        /\ results[resPos + 1].task \in Tasks
    BY NextResultType DEF Applies, NextResult
  <1> QED BY <1>1 DEF Applies, ApplyResult, TypeOK, Result

LEMMA ObjectStep ==
    ASSUME Typed, ObjectInv, [Next]_vars
    PROVE  /\ ObjectInv'
           /\ \A t \in Tasks : HasObject(t) => HasObject(t)'
  <1> USE DEF Typed
  <1>0. \A t \in Tasks : ObjectOf(t)
    BY DEF ObjectInv, ObjectOf
  <1>1. \A t \in Tasks : ObjectOf(t)' /\ (HasObject(t) => HasObject(t)')
    <2>1. ASSUME NEW t \in Tasks, Submits(t) PROVE <1>1
      BY <2>1, <1>0, SubmitStep DEF ObjectOf, HasObject
    <2>2. CASE Applies
      BY <2>2, <1>0, ApplyStep DEF Applies, submitVars, ObjectOf, HasObject, Verdicts
    <2>3. CASE UNCHANGED <<submitVars, phase, recorded>>
      BY <2>3, <1>0 DEF submitVars, ObjectOf, HasObject
    <2> QED BY <2>1, <2>2, <2>3, ObjectSteps
  <1>2. ASSUME NEW t \in Tasks, NEW o \in 1..Len(taskLog), taskLog[o] = t
        PROVE  HasObject(t)'
    BY <1>1, <1>2 DEF ObjectInv
  <1>3. ASSUME NEW t \in Tasks, NEW o \in 1..Len(taskLog'), taskLog'[o] = t
        PROVE  HasObject(t)'
    <2>1. CASE UNCHANGED taskLog
      BY <2>1, <1>2, <1>3
    <2>2. ASSUME NEW m \in Messages, taskLog' = Append(taskLog, m),
                 m \in Tasks => \/ sent[m] = "inflight" /\ UNCHANGED phase
                                \/ stage'[m] = "foreign"
          PROVE  HasObject(t)'
      <3>1. taskLog \in Seq(Messages)
        BY DEF TypeOK, Messages
      <3>2. CASE t = m
        BY <2>2, <3>2, <1>0 DEF HasObject, ObjectOf
      <3>3. \/ o \in 1..Len(taskLog) /\ taskLog'[o] = taskLog[o]
            \/ taskLog'[o] = m
        BY <2>2, <3>1, <1>3, AppendOne, LenProperties
      <3> QED BY <1>2, <1>3, <3>2, <3>3
    <2> QED BY <2>1, <2>2, TopicsGrow
  <1>4. ASSUME NEW t \in Tasks, NEW o \in 1..Len(results'), results'[o].task = t
        PROVE  HasObject(t)'
    <2>0. ASSUME NEW p \in 1..Len(results), results[p].task = t PROVE HasObject(t)'
      BY <1>1, <2>0 DEF ObjectInv
    <2>1. CASE UNCHANGED results
      BY <2>0, <2>1, <1>4
    <2>2. ASSUME NEW r \in Result, results' = Append(results, r),
                 r.task \in Tasks => \E p \in 1..Len(taskLog) : r.task = taskLog[p]
          PROVE  HasObject(t)'
      <3>1. results \in Seq(Result)
        BY DEF TypeOK, Result
      <3>2. CASE r.task = t
        BY <2>2, <3>2, <1>2
      <3>3. \/ o \in 1..Len(results) /\ results'[o] = results[o]
            \/ results'[o] = r
        BY <2>2, <3>1, <1>4, AppendOne, LenProperties
      <3> QED BY <2>0, <1>4, <3>2, <3>3
    <2> QED BY <2>1, <2>2, TopicsGrow
  <1> QED BY <1>1, <1>3, <1>4 DEF ObjectInv, ObjectOf

-----------------------------------------------------------------------------
(* What has been polled is settled, and stays so.                          *)
LEMMA SettledStep ==
    ASSUME Typed, ObjectInv, SettledInv, [Next]_vars
    PROVE  SettledInv'
  <1> USE DEF Typed
  <1>0. \A t \in Tasks : ObjectOf(t)
    BY DEF ObjectInv, ObjectOf
  <1>1. \A t \in Tasks : Settled(t) => Settled(t)'
    <2>1. ASSUME NEW t \in Tasks, Submits(t) PROVE <1>1
      BY <2>1, <1>0, SubmitStep DEF Settled
    <2>2. CASE Applies
      BY <2>2, ApplyStep DEF Applies, submitVars, Settled, Verdicts
    <2>3. CASE UNCHANGED <<submitVars, phase, recorded>>
      BY <2>3 DEF submitVars, Settled
    <2> QED BY <2>1, <2>2, <2>3, ObjectSteps
  <1>2. /\ \A o \in 1..Len(results) : results'[o] = results[o]
        /\ resPos \in 0..Len(results) /\ Len(results) \in Nat
    BY TopicsKept DEF TypeOK
  <1>3. ASSUME NEW t \in Tasks, NEW o \in 1..resPos' \ elsewhere', results'[o].task = t
        PROVE  Settled(t)'
    <2>1. CASE o \in 1..resPos \ elsewhere
      <3>1. results'[o] = results[o]
        BY <2>1, <1>2
      <3> QED BY <2>1, <3>1, <1>1, <1>3 DEF SettledInv
    <2>2. CASE o = resPos + 1 /\ resPos < Len(results)
               /\ (Applies \/ results[o].task \notin Tasks)
      <3>1. o \in 1..Len(results) /\ results'[o] = results[o]
        BY <2>2, <1>2
      <3>2. Applies /\ results[o].task = t
        BY <2>2, <3>1, <1>3
      <3>3. /\ phase'[t] = IF phase[t] = "absent" THEN "absent" ELSE results[o].verdict
            /\ results[o].verdict \in Verdicts
        BY <2>2, <3>2, ApplyStep
      <3>4. phase[t] # "absent" \/ stage'[t] = "foreign"
        BY <3>1, <3>2 DEF ObjectInv, HasObject, Applies, submitVars
      <3> QED BY <3>3, <3>4 DEF Settled
    <2> QED BY <2>1, <2>2, PolledSteps
  <1> QED BY <1>3 DEF SettledInv

\* A result that is applied is later than all that were recorded before.
LEMMA LastStep ==
    ASSUME Typed, ObjectInv, LastInv, [Next]_vars
    PROVE  LastInv'
  <1> USE DEF Typed
  <1>0. \A t \in Tasks : ObjectOf(t)
    BY DEF ObjectInv, ObjectOf
  <1>1. \A o \in recorded : o \in 1..Len(results) /\ results'[o] = results[o]
    BY TopicsKept DEF TypeOK
  <1>2. ASSUME UNCHANGED recorded, NEW t \in Tasks, phase'[t] \in Verdicts, phase'[t] = phase[t]
        PROVE  \E o \in recorded' :
                  /\ results'[o].task = t /\ phase'[t] = results'[o].verdict
                  /\ \A p \in recorded' : results'[p].task = t => p <= o
    BY <1>1, <1>2 DEF LastInv
  <1>3. CASE Applies
    <2> DEFINE n == resPos + 1
    <2>1. /\ n \in 1..Len(results) /\ recorded' = recorded \cup {n}
          /\ phase'[results[n].task] = IF phase[results[n].task] = "absent" THEN "absent"
                                       ELSE results[n].verdict
          /\ \A u \in Tasks \ {results[n].task} : phase'[u] = phase[u]
      BY <1>3, ApplyStep
    <2>2. results'[n] = results[n]
      BY <2>1, TopicsKept
    <2>3. \A p \in recorded' : p <= n
      <3>1. resPos = resCommitted /\ resPos \in Nat
        BY <1>3, LenProperties DEF Applies, OffsetInv, TypeOK
      <3>2. n \in Nat /\ n \in 1..n /\ recorded \subseteq 1..n
        BY <3>1 DEF OffsetInv
      <3> QED BY <2>1, <3>2
    <2> HIDE DEF n
    <2>4. ASSUME NEW t \in Tasks, phase'[t] \in Verdicts
          PROVE  \E o \in recorded' :
                    /\ results'[o].task = t /\ phase'[t] = results'[o].verdict
                    /\ \A p \in recorded' : results'[p].task = t => p <= o
      <3>1. CASE t = results[n].task
        BY <2>1, <2>2, <2>3, <2>4, <3>1 DEF Verdicts
      <3>2. CASE t # results[n].task
        <4>1. PICK o \in recorded : /\ results[o].task = t /\ phase[t] = results[o].verdict
                                    /\ \A p \in recorded : results[p].task = t => p <= o
          BY <2>1, <2>4, <3>2 DEF LastInv
        <4>2. \A p \in recorded' : results'[p].task = t => p \in recorded
          BY <2>1, <2>2, <3>2
        <4> QED BY <1>1, <2>1, <2>4, <3>2, <4>1, <4>2
      <3> QED BY <3>1, <3>2
    <2> QED BY <2>4 DEF LastInv
  <1>4. ASSUME NEW s \in Tasks, Submits(s), UNCHANGED recVars PROVE LastInv'
    <2>1. UNCHANGED recorded
      BY <1>4 DEF recVars
    <2>2. \A t \in Tasks : phase'[t] \in Verdicts => phase'[t] = phase[t]
      BY <1>4, <1>0, SubmitStep
    <2> QED BY <1>2, <2>1, <2>2 DEF LastInv
  <1>5. CASE UNCHANGED <<submitVars, phase, recorded>>
    BY <1>2, <1>5 DEF LastInv
  <1> QED BY <1>3, <1>4, <1>5, ObjectSteps

-----------------------------------------------------------------------------
LEMMA TaskInit == Init => TaskInv
  <1> SUFFICES ASSUME Init PROVE TaskInv
    OBVIOUS
  <1>1. Len(taskLog) = 0 /\ Len(results) = 0
    BY DEF Init
  <1>2. ObjectInv /\ SettledInv /\ LastInv
    BY <1>1 DEF Init, ObjectInv, SettledInv, LastInv, Verdicts
  <1> QED BY <1>2, TypedInit DEF TaskInv, Typed

\* The invariant that carries the properties: where submit, the agent and the
\* result thread are, and what that says of objects and offsets.
THEOREM TaskCorrect == Spec => []TaskInv
  <1>1. TaskInv /\ [Next]_vars => TaskInv'
    BY TypedStep, ObjectStep, SettledStep, LastStep DEF TaskInv, Typed
  <1> QED BY <1>1, TaskInit, PTL DEF Spec

\* Every variable of AgentTask keeps its type, and no offset runs past its topic.
THEOREM TypeCorrect == Spec => []TypeOK
  <1>1. TaskInv => TypeOK
    BY DEF TaskInv
  <1> QED BY <1>1, TaskCorrect, PTL

\* What the result thread has committed is on the object of its task
\* (consume_results), whatever submissions, crashes and replays come between.
THEOREM CommitMeansRecorded == Spec => []CommittedIsRecorded
  <1>1. TaskInv => CommittedIsRecorded
    <2> SUFFICES ASSUME TaskInv PROVE CommittedIsRecorded
      OBVIOUS
    <2>1. resCommitted \in Nat /\ resPos \in Nat /\ resCommitted <= resPos
      BY LenProperties DEF TaskInv, TypeOK, OffsetInv
    <2>2. 1..resCommitted \subseteq 1..resPos
      BY <2>1, UpToGrows
    <2> QED BY <2>2 DEF TaskInv, SettledInv, Settled, CommittedIsRecorded
  <1> QED BY <1>1, TaskCorrect, PTL

LEMMA MaxIs ==
    ASSUME NEW S \in SUBSET Nat, NEW m \in S, \A n \in S : n <= m
    PROVE  Max(S) = m
  <1>1. \A n \in S : m >= n
    OBVIOUS
  <1>2. Max(S) \in S /\ \A n \in S : Max(S) >= n
    BY <1>1 DEF Max
  <1>3. Max(S) \in Nat /\ m \in Nat /\ Max(S) <= m /\ Max(S) >= m
    BY <1>2
  <1> QED BY <1>3

\* The verdict on an object is that of the last result that was recorded for
\* its task (apply_result), although results are delivered more than once.
THEOREM LastCounts == Spec => []LastResultWins
  <1>1. TaskInv => LastResultWins
    <2> SUFFICES ASSUME TaskInv, NEW t \in Tasks, phase[t] \in Verdicts
                 PROVE  LET own == {o \in recorded : results[o].task = t}
                        IN  own # {} /\ phase[t] = results[Max(own)].verdict
      BY DEF LastResultWins
    <2> DEFINE own == {o \in recorded : results[o].task = t}
    <2>1. PICK o \in own : phase[t] = results[o].verdict /\ \A p \in own : p <= o
      BY DEF TaskInv, LastInv
    <2>2. own \in SUBSET Nat
      BY DEF TaskInv, TypeOK
    <2>3. Max(own) = o
      BY <2>1, <2>2, MaxIs
    <2> QED BY <2>1, <2>3
  <1> QED BY <1>1, TaskCorrect, PTL

-----------------------------------------------------------------------------
(* The Go SDK keeps the promise that the Python runtime breaks when the    *)
(* broker refuses a result: what is delivered answers the polled task.     *)
GoInv ==
    runtime = "go" =>
        /\ AnswerBeforeCommit
        /\ flight = "delivered" /\ NextTask \in Tasks => HasResult(NextTask)

LEMMA ResultStays ==
    ASSUME Typed, [Next]_vars, NEW t, HasResult(t)
    PROVE  HasResult(t)'
  <1>1. PICK o \in 1..Len(results) : results[o].task = t
    BY DEF HasResult
  <1>2. o \in 1..Len(results') /\ results'[o].task = t
    BY <1>1, TopicsKept DEF Typed
  <1> QED BY <1>2 DEF HasResult

LEMMA GoStep == Typed /\ GoInv /\ [Next]_vars => GoInv'
  <1> SUFFICES ASSUME Typed, GoInv, [Next]_vars, runtime' = "go" PROVE
           /\ AnswerBeforeCommit'
           /\ (flight = "delivered" /\ NextTask \in Tasks => HasResult(NextTask))'
    BY DEF GoInv
  <1> USE DEF Typed
  <1>0. /\ \A o \in 1..Len(taskLog) : taskLog'[o] = taskLog[o]
        /\ Len(taskLog) \in Nat /\ taskCommitted \in 0..Len(taskLog)
    BY TopicsKept DEF TypeOK
  <1>1. /\ runtime = "go" /\ taskCommitted' \in {taskCommitted, taskCommitted + 1}
        /\ taskCommitted' # taskCommitted =>
              /\ flight = "delivered" /\ flight' = "none" /\ agent = "publishing"
        /\ flight' = "delivered" =>
              /\ UNCHANGED <<taskCommitted, agent>>
              /\ flight = "delivered" \/ (flight = "inflight" /\ DeliverResult)
    <2>1. CASE AgentStart \/ Execute \/ Chokes \/ LoseResult \/ AgentFails \/ AgentCrash
      BY <2>1 DEF AgentStart, Execute, Chokes, Polls, LoseResult, AgentFails, AgentCrash,
                  AgentEnds, FlightInv
    <2>2. CASE DeliverResult
      BY <2>2 DEF DeliverResult
    <2>3. CASE AgentCommit
      BY <2>3 DEF AgentCommit, Published
    <2>4. CASE UNCHANGED agentVars
      BY <2>4 DEF agentVars
    <2>5. ASSUME NEW t \in Tasks, Submits(t) PROVE UNCHANGED agentVars
      BY <2>5 DEF Submits, Submission, Create, Produce, Flushed, FlushTimesOut, MarkRouted,
                  DeliverTask, LoseTask, SubmitFails, SubmitCrash, SubmitElsewhere
    <2>6. CASE \/ ForeignMessage \/ Recorder \/ RecorderDies \/ ConsumedElsewhere \/ PodRestart
               \/ UNCHANGED vars
      <3>1. UNCHANGED agentVars
        BY <2>6 DEF ForeignMessage, Recorder, Record, RecordChokes, RecorderCommit,
                    RecorderDies, ConsumedElsewhere, PodRestart, vars
      <3> QED BY <3>1, <2>4
    <2> QED BY <2>1, <2>2, <2>3, <2>4, <2>5, <2>6 DEF Next, Agent, Submits
  <1>2. ASSUME NEW o \in 1..taskCommitted', taskLog'[o] \in Tasks
        PROVE  HasResult(taskLog[o]) /\ taskLog'[o] = taskLog[o]
    <2>1. CASE o \in 1..taskCommitted
      <3>1. taskLog'[o] = taskLog[o]
        BY <2>1, <1>0
      <3> QED BY <2>1, <3>1, <1>1, <1>2 DEF GoInv, AnswerBeforeCommit
    <2>2. CASE o \notin 1..taskCommitted
      <3>1. o = taskCommitted + 1 /\ taskCommitted' # taskCommitted
        BY <2>2, <1>0, <1>1
      <3>2. o \in 1..Len(taskLog)
        BY <3>1, <1>0, <1>1 DEF FlightInv
      <3> QED BY <3>1, <3>2, <1>0, <1>1, <1>2 DEF GoInv, NextTask
    <2> QED BY <2>1, <2>2
  <1>3. AnswerBeforeCommit'
    <2> SUFFICES ASSUME NEW t \in Tasks, NEW o \in 1..taskCommitted', taskLog'[o] = t
                 PROVE  HasResult(t)'
      BY DEF AnswerBeforeCommit
    <2> QED BY <1>2, ResultStays
  <1>4. ASSUME flight' = "delivered", NEW t \in Tasks, NextTask' = t PROVE HasResult(t)'
    <2>1. agent' = agent /\ flight # "none" /\ NextTask = t
      <3>1. agent' = agent /\ flight # "none" /\ taskCommitted' = taskCommitted
        BY <1>1, <1>4
      <3>2. taskCommitted + 1 \in 1..Len(taskLog)
        BY <3>1, <1>0 DEF FlightInv
      <3> QED BY <3>1, <3>2, <1>0, <1>4 DEF NextTask
    <2>2. CASE flight = "delivered"
      BY <2>1, <2>2, <1>1, ResultStays DEF GoInv
    <2>3. CASE DeliverResult
      <3>1. PICK v \in Verdicts : results' = Append(results, Answer(v))
        BY <2>3 DEF DeliverResult, Answered
      <3>2. t # "garbage"
        BY ConstantsAssumption DEF Others
      <3>3. Answer(v) = [task |-> t, verdict |-> v]
        BY <2>1, <3>2 DEF Answer
      <3>4. Answer(v) \in Result /\ Answer(v).task = t /\ results \in Seq(Result)
        BY <3>3 DEF Result, TypeOK
      <3> HIDE DEF Answer
      <3>5. /\ Len(results) + 1 \in 1..Len(results')
            /\ results'[Len(results) + 1] = Answer(v)
        BY <3>1, <3>4, AppendOne, LenProperties
      <3> QED BY <3>4, <3>5 DEF HasResult
    <2> QED BY <1>1, <1>4, <2>2, <2>3
  <1> QED BY <1>3, <1>4

\* An agent of the Go SDK commits a task only after its result is in the topic
\* (Worker.Run of sdk/go/agent/agent.go), whatever is refused, replayed or lost.
THEOREM GoAnswersBeforeCommit == Spec => []GoAnswersFirst
  <1>1. Init => GoInv
    BY DEF Init, GoInv, AnswerBeforeCommit
  <1>2. TaskInv => Typed
    BY DEF TaskInv, Typed
  <1>3. GoInv => GoAnswersFirst
    BY DEF GoInv, GoAnswersFirst
  <1> QED BY <1>1, <1>2, <1>3, GoStep, TaskCorrect, PTL DEF Spec
=============================================================================
