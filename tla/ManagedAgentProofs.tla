-------------------------- MODULE ManagedAgentProofs -------------------------
(***************************************************************************)
(* That no registration scales a Deployment which has never named it, for  *)
(* any number of registrations, edits, links and crashes.  What a call has *)
(* read of the annotation may be out of date when it scales: the invariant *)
(* is about all that the annotation has ever been.  And type correctness:  *)
(* no status and no call names a generation that was never stored.         *)
(***************************************************************************)
EXTENDS ManagedAgent, SequenceTheorems, TLAPS

Both == {"handler", "timer"}

LinkInv ==
    /\ pc \in [Registrations -> [Both -> Labels]]
    /\ owner \in linked
    /\ \A r \in Registrations : \A c \in Both : pc[r][c] = "scale" => r \in linked

LEMMA CallersAreTwo == \A r \in Registrations : Callers(r) \subseteq Both
  BY ConstantsAssumption DEF Callers, Both

\* A step that moves one call, and to "scale" only with its registration linked.
LEMMA OneCallMoves ==
    ASSUME LinkInv, NEW r \in Registrations, NEW c \in Both, NEW l \in Labels,
           pc' = [pc EXCEPT ![r][c] = l], UNCHANGED <<owner, linked>>,
           l = "scale" => r \in linked
    PROVE  LinkInv'
  <1>1. pc' \in [Registrations -> [Both -> Labels]]
    BY DEF LinkInv
  <1>2. ASSUME NEW s \in Registrations, NEW d \in Both, pc'[s][d] = "scale"
        PROVE  s \in linked'
    <2>1. CASE s = r /\ d = c
      BY <1>2, <2>1 DEF LinkInv
    <2>2. CASE ~(s = r /\ d = c)
      <3>1. pc'[s][d] = pc[s][d]
        BY <2>2 DEF LinkInv
      <3>2. QED
        BY <1>2, <3>1 DEF LinkInv
    <2>3. QED
      BY <2>1, <2>2
  <1>3. QED
    BY <1>1, <1>2 DEF LinkInv

\* A step that moves no call, and forgets no link.
LEMMA NoCallMoves ==
    ASSUME LinkInv, pc' = pc, linked \subseteq linked', owner' \in linked'
    PROVE  LinkInv'
  BY DEF LinkInv

LEMMA LinkInit == Init => LinkInv
  BY DEF Init, LinkInv, Both, Labels

LEMMA LinkStep == LinkInv /\ [Next]_vars => LinkInv'
  <1> SUFFICES ASSUME LinkInv, [Next]_vars PROVE LinkInv'
    OBVIOUS
  <1>1. ASSUME NEW r \in Registrations, NEW c \in Callers(r), Reconcile(r, c) \/ ApiError(r, c)
        PROVE  LinkInv'
    <2>1. c \in Both
      BY CallersAreTwo
    <2>2. CASE Call(r, c)
      <3>1. \E l \in {"read", "Registered"} : pc' = [pc EXCEPT ![r][c] = l]
        BY <2>2 DEF Call
      <3>2. UNCHANGED <<owner, linked>>
        BY <2>2 DEF Call, runtime
      <3>3. QED
        BY <2>1, <3>1, <3>2, OneCallMoves DEF Labels, Outcomes
    <2>3. CASE Read(r, c)
      <3> DEFINE l == CASE ~deployed -> "Missing"
                        [] deployed /\ ~LinkedTo(r) -> "Invalid"
                        [] OTHER -> IF replicas # Desired(BodySpec(r, c)) THEN "scale" ELSE "applied"
      <3>1. pc' = [pc EXCEPT ![r][c] = l] /\ UNCHANGED <<owner, linked>>
        BY <2>3 DEF Read, runtime
      <3>2. l \in Labels /\ (l = "scale" => owner = r)
        BY DEF Labels, Outcomes, LinkedTo
      <3>3. l = "scale" => r \in linked
        BY <3>2 DEF LinkInv
      <3> HIDE DEF l
      <3>4. QED
        BY <2>1, <3>1, <3>2, <3>3, OneCallMoves
    <2>4. CASE Scale(r, c)
      <3>1. pc' = [pc EXCEPT ![r][c] = "applied"] /\ UNCHANGED <<owner, linked>>
        BY <2>4 DEF Scale, ScaleTo
      <3>2. QED
        BY <2>1, <3>1, OneCallMoves DEF Labels, Outcomes
    <2>5. CASE ScaleMissing(r, c) \/ Finish(r, c) \/ ApiError(r, c)
      <3>1. pc' = [pc EXCEPT ![r][c] = "idle"] /\ UNCHANGED <<owner, linked>>
        BY <2>5 DEF ScaleMissing, Finish, ApiError, Abandon, Return, ScaleTo, runtime
      <3>2. QED
        BY <2>1, <3>1, OneCallMoves DEF Labels
    <2>6. QED
      BY <1>1, <2>2, <2>3, <2>4, <2>5 DEF Reconcile
  <1>2. CASE Crash
    BY <1>2 DEF Crash, LinkInv, Both, Labels, runtime
  <1>3. ASSUME NEW o \in Registrations \cup {NoOwner}, Link(o) PROVE LinkInv'
    BY <1>3, NoCallMoves DEF Link, callVars
  <1>4. CASE \/ \E r \in Registrations :
                   Edit(r) \/ Register(r) \/ \E verb \in {"wake", "sleep"} : Command(r, verb)
             \/ \E n \in 0..MaxActive : ScaleByHand(n)
             \/ Redeploy
             \/ SubmitTask \/ \E c \in TaskCommands : ForeignTask(c) \/ ExecuteNow(c)
             \/ Start \/ PodsFollow \/ AgentLoop \/ ThreadDies \/ AgentStops
             \/ UNCHANGED vars
    <2>1. UNCHANGED <<pc, owner, linked>>
      BY <1>4 DEF Edit, Register, Command, ScaleByHand, Redeploy, SubmitTask, ForeignTask, Produce, ExecuteNow, Start, PodsFollow,
                  AgentLoop, AgentStart, Execute, AgentCommit, ThreadDies, AgentStops,
                  agentEffects, callVars, runtime, vars
    <2>2. QED
      BY <2>1, NoCallMoves DEF LinkInv
  <1>5. QED
    BY <1>1, <1>2, <1>3, <1>4 DEF Next

\* Only a registration that the Deployment has named scales it.
THEOREM LinkPrevents == Spec => []OnlyLinkedScales
  <1>1. LinkInv => OnlyLinkedScales
    BY CallersAreTwo DEF LinkInv, OnlyLinkedScales
  <1>2. QED
    BY <1>1, LinkInit, LinkStep, PTL DEF Spec

-----------------------------------------------------------------------------
(* Types.  What is stored only grows, so what a call or a status names     *)
(* stays there.                                                            *)
StoreType ==
    /\ stored \in [Registrations -> Seq(AgentSpec)] /\ due \in [Registrations -> BOOLEAN]

CallType ==
    /\ pc \in [Registrations -> [Both -> Labels]]
    /\ phase \in [Registrations -> Phases]
    /\ up \in BOOLEAN
    /\ \A r \in Registrations :
          /\ observed[r] \in 0..Generation(r)
          /\ \A c \in Both : /\ body[r][c] \in 0..Generation(r)
                             /\ pc[r][c] = "idle" <=> body[r][c] = 0

ClusterType ==
    /\ deployed \in BOOLEAN /\ serving \in BOOLEAN
    /\ owner \in Registrations \cup {NoOwner} /\ replicas \in 0..MaxActive
    /\ linked \subseteq Registrations \cup {NoOwner}

TaskType ==
    /\ tasks \in Seq(TaskCommands \cup {Supervised}) /\ committed \in 0..Len(tasks)
    /\ agent \in {"down", "idle", "executed", "dead"}

\* A task that is executed is one of the topic that is not committed yet.
TaskLoop == TaskType /\ (agent = "executed" => committed < Len(tasks))

\* That observed and body are functions of registrations and callers.
ShapeInv ==
    /\ observed \in [Registrations -> Nat]
    /\ body \in [Registrations -> [Both -> Nat]]

TypeInv == TypeOK /\ ShapeInv /\ TaskLoop

LEMMA TypeParts ==
    TypeOK <=> StoreType /\ CallType /\ ClusterType /\ TaskType /\ events \in 0..MaxEvents
  BY DEF TypeOK, StoreType, CallType, ClusterType, TaskType, Both

LEMMA TypeInit == Init => TypeInv
  <1> SUFFICES ASSUME Init PROVE TypeInv
    OBVIOUS
  <1> USE ConstantsAssumption
  <1>1. StoreType
    <2>1. <<>> \in Seq(AgentSpec) /\ \A m \in Manifests : <<m>> \in Seq(AgentSpec)
      <3>1. \A m \in AgentSpec : <<m>> \in Seq(AgentSpec)
        OBVIOUS
      <3> QED BY <3>1, EmptySeq
    <2>2. {<<>>} \cup {<<m>> : m \in Manifests} \subseteq Seq(AgentSpec)
      BY <2>1
    <2> QED BY <2>2 DEF Init, StoreType
  <1>2. \A r \in Registrations : Generation(r) \in Nat
    BY <1>1, LenProperties DEF StoreType, Generation
  <1>3. CallType /\ ShapeInv
    <2>1. /\ pc = [r \in Registrations |-> [c \in Both |-> "idle"]]
          /\ body = [r \in Registrations |-> [c \in Both |-> 0]]
          /\ phase = [r \in Registrations |-> "none"]
          /\ observed = [r \in Registrations |-> 0] /\ up = FALSE
      BY DEF Init, Both
    <2>2. /\ pc \in [Registrations -> [Both -> Labels]] /\ phase \in [Registrations -> Phases]
          /\ up \in BOOLEAN /\ ShapeInv
      BY <2>1 DEF ShapeInv, Labels, Phases
    <2>3. ASSUME NEW r \in Registrations, NEW c \in Both
          PROVE  observed[r] = 0 /\ body[r][c] = 0 /\ pc[r][c] = "idle" /\ 0 \in 0..Generation(r)
      BY <1>2, <2>1
    <2>4. ASSUME NEW r \in Registrations
          PROVE  observed[r] = 0 /\ 0 \in 0..Generation(r)
      BY <1>2, <2>1
    <2> QED BY <2>2, <2>3, <2>4 DEF CallType
  <1>4. ClusterType /\ TaskType /\ events \in 0..MaxEvents
    <2>1. <<>> \in Seq(TaskCommands \cup {Supervised}) /\ Len(<<>>) = 0
      BY EmptySeq
    <2>2. ClusterType
      <3>1. owner = Self /\ linked = {owner} /\ replicas = 1 /\ deployed = TRUE /\ serving = FALSE
        BY DEF Init
      <3>2. 1 \in 0..MaxActive /\ Self \in Registrations
        OBVIOUS
      <3> QED BY <3>1, <3>2 DEF ClusterType
    <2>3. TaskType
      BY <2>1 DEF Init, TaskType
    <2>4. events \in 0..MaxEvents
      BY DEF Init
    <2> QED BY <2>2, <2>3, <2>4
  <1>5. TaskLoop
    BY <1>4 DEF Init, TaskLoop
  <1> QED BY <1>1, <1>3, <1>4, <1>5, TypeParts DEF TypeInv

LEMMA PutType ==
    ASSUME TypeInv, NEW r \in Registrations, NEW s \in AgentSpec, Put(r, s)
    PROVE  /\ StoreType'
           /\ \A q \in Registrations : Generation(q) <= Generation(q)'
  <1>1. /\ stored \in [Registrations -> Seq(AgentSpec)] /\ due \in [Registrations -> BOOLEAN]
    BY DEF TypeInv, TypeOK
  <1>2. /\ Append(stored[r], s) \in Seq(AgentSpec)
        /\ Len(Append(stored[r], s)) = Len(stored[r]) + 1
    BY <1>1, AppendProperties
  <1>3. \A q \in Registrations : stored'[q] = stored[q] \/ (q = r /\ stored'[q] = Append(stored[q], s))
    BY <1>1 DEF Put
  <1>4. stored' \in [Registrations -> Seq(AgentSpec)]
    BY <1>1, <1>2 DEF Put
  <1>5. \A q \in Registrations : Len(stored[q]) \in Nat
    BY <1>1, LenProperties
  <1> QED BY <1>1, <1>2, <1>3, <1>4, <1>5 DEF Put, StoreType, Generation

\* What is stored grows, and no call moves: calls and status keep their types.
LEMMA CallsKept ==
    ASSUME TypeInv, UNCHANGED <<statusVars, up, callVars>>, StoreType',
           \A q \in Registrations : Generation(q) <= Generation(q)'
    PROVE  CallType' /\ ShapeInv'
  <1>1. \A q \in Registrations : Generation(q) \in Nat /\ Generation(q)' \in Nat
    BY LenProperties DEF TypeInv, TypeOK, StoreType, Generation
  <1>2. /\ pc' = pc /\ body' = body /\ observed' = observed /\ phase' = phase /\ up' = up
        /\ CallType /\ ShapeInv
    BY TypeParts DEF TypeInv, statusVars, callVars
  <1>3. ASSUME NEW q \in Registrations
        PROVE  /\ observed'[q] \in 0..Generation(q)'
               /\ \A c \in Both : /\ body'[q][c] \in 0..Generation(q)'
                                  /\ pc'[q][c] = "idle" <=> body'[q][c] = 0
    <2>1. 0..Generation(q) \subseteq 0..Generation(q)'
      BY <1>1
    <2> QED BY <1>2, <2>1 DEF CallType
  <1> QED BY <1>2, <1>3 DEF CallType, ShapeInv

LEMMA CurrentType ==
    ASSUME TypeInv, NEW r \in Registrations, Exists(r)
    PROVE  Generation(r) \in Nat \ {0} /\ Current(r) \in AgentSpec
  <1>1. stored[r] \in Seq(AgentSpec) /\ stored[r] # <<>>
    BY DEF TypeInv, TypeOK, Exists
  <1>2. Len(stored[r]) \in Nat \ {0}
    BY <1>1, EmptySeq
  <1> QED BY <1>1, <1>2, ElementOfSeq DEF Generation, Current

LEMMA CommandedType ==
    ASSUME TypeInv, NEW r \in Registrations, NEW verb, Exists(r)
    PROVE  Commanded(r, verb) \in AgentSpec
  <1>1. Fields([verb |-> verb, kind |-> "agent", name |-> r, confirmed |-> TRUE])["suspend"]
           = (verb = "sleep")
    BY DEF Fields
  <1> QED BY <1>1, CurrentType DEF Commanded, AgentSpec

LEMMA TypeStep == TypeInv /\ [Next]_vars => TypeInv'
  <1> SUFFICES ASSUME TypeInv, [Next]_vars PROVE TypeInv'
    OBVIOUS
  <1>a. StoreType /\ CallType /\ ClusterType /\ TaskLoop /\ events \in 0..MaxEvents /\ ShapeInv
    BY TypeParts DEF TypeInv
  <1>q. ASSUME StoreType', CallType', ClusterType', TaskLoop', events' \in 0..MaxEvents, ShapeInv'
        PROVE  TypeInv'
    BY <1>q DEF TypeInv, TypeOK, StoreType, CallType, ClusterType, TaskLoop, TaskType, Both
  <1>c. /\ MaxActive \in Nat \ {0} /\ MaxEvents \in Nat /\ Manifests \subseteq AgentSpec
        /\ Self \in Registrations /\ \A c \in TaskCommands : c.name \in Registrations
    BY ConstantsAssumption
  <1>e. ASSUME Event \/ UNCHANGED events PROVE events' \in 0..MaxEvents
    BY <1>a, <1>c, <1>e DEF Event
  <1>u1. ASSUME UNCHANGED <<stored, due>>
         PROVE  StoreType' /\ \A q \in Registrations : Generation(q) <= Generation(q)'
    <2>1. \A q \in Registrations : Generation(q) \in Nat
      BY <1>a, LenProperties DEF StoreType, Generation
    <2> QED BY <1>a, <1>u1, <2>1 DEF StoreType, Generation
  <1>u2. ASSUME UNCHANGED runtime PROVE ClusterType'
    BY <1>a, <1>u2 DEF ClusterType, runtime
  <1>u3. ASSUME UNCHANGED agentVars PROVE TaskLoop'
    BY <1>a, <1>u3 DEF TaskLoop, TaskType, agentVars
  \* Someone stores a spec.
  <1>1. ASSUME NEW r \in Registrations, NEW s \in AgentSpec, Put(r, s),
               UNCHANGED <<statusVars, up, callVars, runtime>>, TaskLoop',
               Event \/ UNCHANGED events
        PROVE  TypeInv'
    BY <1>1, <1>q, <1>e, <1>u2, PutType, CallsKept
  <1>2. ASSUME NEW r \in Registrations, Edit(r) \/ \E verb \in {"wake", "sleep"} : Command(r, verb)
        PROVE  TypeInv'
    <2>1. CASE Edit(r)
      BY <2>1, <1>1, <1>c, <1>u3 DEF Edit
    <2>2. ASSUME NEW verb \in {"wake", "sleep"}, Command(r, verb) PROVE TypeInv'
      BY <2>2, <1>1, <1>u3, CommandedType DEF Command
    <2> QED BY <1>2, <2>1, <2>2
  <1>3. ASSUME NEW r \in Registrations, Register(r) PROVE TypeInv'
    <2> DEFINE s == IF Exists(r) THEN Current(r)
                    ELSE [managed |-> FALSE, active |-> 1, suspend |-> FALSE]
    <2>1. s \in AgentSpec
      BY <1>c, CurrentType DEF AgentSpec
    <2>2. stored' = [stored EXCEPT ![r] = Append(@, s)] /\ due' = [due EXCEPT ![r] = TRUE]
      BY <1>3 DEF Register
    <2> HIDE DEF s
    <2>3. /\ Append(stored[r], s) \in Seq(AgentSpec)
          /\ Len(Append(stored[r], s)) = Len(stored[r]) + 1
      BY <1>a, <2>1, AppendProperties DEF StoreType
    <2>4. \A q \in Registrations : Len(stored[q]) \in Nat
      BY <1>a, LenProperties DEF StoreType
    <2>5. StoreType' /\ \A q \in Registrations : Generation(q) <= Generation(q)'
      BY <1>a, <2>2, <2>3, <2>4 DEF StoreType, Generation
    <2> QED BY <1>3, <2>5, <1>q, <1>e, <1>u2, <1>u3, CallsKept DEF Register
  <1>4. CASE \/ \E o \in Registrations \cup {NoOwner} : Link(o)
             \/ \E n \in 0..MaxActive : ScaleByHand(n)
             \/ Redeploy \/ PodsFollow
    <2>1. /\ UNCHANGED <<stored, due, statusVars, up, callVars, agentVars>>
          /\ Event \/ UNCHANGED events
      BY <1>4 DEF Link, ScaleByHand, Redeploy, PodsFollow
    <2>2. ClusterType'
      <3>1. ASSUME NEW o \in Registrations \cup {NoOwner}, Link(o) PROVE ClusterType'
        BY <3>1, <1>a DEF Link, ClusterType
      <3>2. ASSUME NEW n \in 0..MaxActive, ScaleByHand(n) PROVE ClusterType'
        BY <3>2, <1>a DEF ScaleByHand, ClusterType
      <3>3. CASE Redeploy
        BY <3>3, <1>a, <1>c DEF Redeploy, ClusterType
      <3>4. CASE PodsFollow
        BY <3>4, <1>a DEF PodsFollow, ClusterType
      <3> QED BY <1>4, <3>1, <3>2, <3>3, <3>4
    <2> QED BY <2>1, <2>2, <1>q, <1>e, <1>u1, <1>u3, CallsKept
  <1>5. CASE SubmitTask \/ \E c \in TaskCommands : ForeignTask(c)
    <2>1. PICK c \in TaskCommands \cup {Supervised} : Produce(c)
      BY <1>5 DEF SubmitTask, ForeignTask
    <2>2. TaskLoop'
      BY <2>1, <1>a, AppendProperties, LenProperties DEF Produce, TaskLoop, TaskType
    <2>3. Event /\ UNCHANGED <<stored, due, statusVars, up, callVars, runtime>>
      BY <2>1 DEF Produce
    <2> QED BY <2>2, <2>3, <1>q, <1>e, <1>u1, <1>u2, CallsKept
  <1>6. CASE AgentStart \/ AgentCommit \/ ThreadDies \/ AgentStops
    <2>1. UNCHANGED <<stored, due, statusVars, up, callVars, runtime>> /\ (Event \/ UNCHANGED events)
      BY <1>6 DEF AgentStart, AgentCommit, ThreadDies, AgentStops, agentEffects
    <2>2. TaskLoop'
      BY <1>6, <1>a DEF AgentStart, AgentCommit, ThreadDies, AgentStops, agentEffects, TaskLoop, TaskType
    <2> QED BY <2>1, <2>2, <1>q, <1>e, <1>u1, <1>u2, CallsKept
  <1>7. ASSUME NEW t \in TaskCommands \cup {Supervised}, Permitted(t), Exists(t.name)
        PROVE  t.name \in Registrations /\ Commanded(t.name, t.verb) \in AgentSpec
    BY <1>7, <1>c, CommandedType DEF Permitted, Supervised
  <1>8. CASE Execute
    <2> DEFINE t == tasks[committed + 1]
    <2>1. /\ agent = "idle" /\ committed < Len(tasks)
          /\ UNCHANGED <<statusVars, up, callVars, runtime, tasks, committed, events>>
          /\ agent' = "executed"
      BY <1>8 DEF Execute, AfterExecute, agentEffects
    <2>2. \/ Permitted(t) /\ Exists(t.name) /\ Put(t.name, Commanded(t.name, t.verb))
          \/ UNCHANGED <<stored, due>>
      BY <1>8 DEF Execute
    <2>3. committed + 1 \in 1..Len(tasks) /\ tasks \in Seq(TaskCommands \cup {Supervised})
      BY <2>1, <1>a, LenProperties DEF TaskLoop, TaskType
    <2>4. t \in TaskCommands \cup {Supervised}
      BY <2>3, ElementOfSeq
    <2>5. TaskLoop'
      BY <2>1, <1>a DEF TaskLoop, TaskType
    <2> HIDE DEF t
    <2>6. CASE UNCHANGED <<stored, due>>
      BY <2>1, <2>5, <2>6, <1>a, <1>q, <1>e, <1>u1, <1>u2, CallsKept
    <2>7. CASE Permitted(t) /\ Exists(t.name) /\ Put(t.name, Commanded(t.name, t.verb))
      BY <2>1, <2>4, <2>5, <2>7, <1>1, <1>7
    <2> QED BY <2>2, <2>6, <2>7
  <1>9. ASSUME NEW t \in TaskCommands, ExecuteNow(t) PROVE TypeInv'
    <2>1. /\ Event /\ UNCHANGED <<statusVars, up, callVars, runtime, agentVars>>
          /\ Permitted(t) /\ Exists(t.name) /\ Put(t.name, Commanded(t.name, t.verb))
      BY <1>9 DEF ExecuteNow
    <2> QED BY <2>1, <1>1, <1>7, <1>u3
  \* The operator stops and starts, and calls its handlers.
  <1>10. ASSUME NEW r \in Registrations, NEW c \in Callers(r), Reconcile(r, c) \/ ApiError(r, c)
         PROVE  TypeInv'
    <2>1. c \in Both
      BY CallersAreTwo
    <2>2. \A q \in Registrations : Generation(q) \in Nat
      BY <1>a, LenProperties DEF StoreType, Generation
    <2>3. stored' = stored /\ \A q \in Registrations : Generation(q)' = Generation(q)
      BY <1>10 DEF Reconcile, Call, Read, Scale, ScaleMissing, Finish, ApiError, Abandon, Generation
    <2>4. due' \in [Registrations -> BOOLEAN]
      BY <1>10, <1>a DEF Reconcile, Call, Read, Scale, ScaleMissing, Finish, ApiError, Abandon,
                         StoreType
    <2>5. StoreType'
      BY <2>3, <2>4, <1>a DEF StoreType
    <2>6. TaskLoop'
      <3>1. UNCHANGED agentVars
        BY <1>10 DEF Reconcile, Call, Read, Scale, ScaleMissing, Finish, ApiError, Abandon
      <3> QED BY <3>1, <1>u3
    <2>7. events' \in 0..MaxEvents
      BY <1>10, <1>e DEF Reconcile, Call, Read, Scale, ScaleMissing, Finish, ApiError
    \* A call moves to a label, with a body that fits it.
    <2>8. ASSUME NEW l \in Labels, NEW b \in 0..Generation(r), l = "idle" <=> b = 0,
                 pc' = [pc EXCEPT ![r][c] = l], body' = [body EXCEPT ![r][c] = b],
                 phase' \in [Registrations -> Phases], up' = up,
                 observed' \in [Registrations -> Nat],
                 \A q \in Registrations : observed'[q] \in 0..Generation(q)
          PROVE  CallType' /\ ShapeInv'
      <3>1. /\ pc \in [Registrations -> [Both -> Labels]] /\ body \in [Registrations -> [Both -> Nat]]
            /\ b \in Nat
        BY <2>2, <1>a DEF CallType, ShapeInv
      <3>2. /\ pc' \in [Registrations -> [Both -> Labels]]
            /\ body' \in [Registrations -> [Both -> Nat]]
        BY <2>1, <2>8, <3>1
      <3>3. ASSUME NEW q \in Registrations, NEW d \in Both
            PROVE  body'[q][d] \in 0..Generation(q) /\ (pc'[q][d] = "idle" <=> body'[q][d] = 0)
        <4>1. CASE q = r /\ d = c
          <5>1. pc'[r][c] = l /\ body'[r][c] = b
            BY <2>1, <2>8, <3>1
          <5> QED BY <4>1, <5>1, <2>8
        <4>2. CASE ~(q = r /\ d = c)
          <5>1. pc'[q][d] = pc[q][d] /\ body'[q][d] = body[q][d]
            BY <2>1, <2>8, <3>1, <4>2
          <5> QED BY <5>1, <1>a DEF CallType
        <4> QED BY <4>1, <4>2
      <3>4. ShapeInv'
        BY <2>8, <3>2 DEF ShapeInv
      <3>5. up' \in BOOLEAN
        BY <2>8, <1>a DEF CallType
      <3> QED BY <2>3, <2>8, <3>2, <3>3, <3>4, <3>5 DEF CallType
    <2>9. /\ pc[r][c] = "idle" <=> body[r][c] = 0
          /\ body[r][c] \in 0..Generation(r) /\ phase \in [Registrations -> Phases]
          /\ observed \in [Registrations -> Nat]
          /\ \A q \in Registrations : observed[q] \in 0..Generation(q)
      BY <2>1, <1>a DEF CallType, ShapeInv
    <2>10. body[r][c] # 0 => BodySpec(r, c) \in AgentSpec
      <3>1. stored[r] \in Seq(AgentSpec) /\ (body[r][c] # 0 => body[r][c] \in 1..Len(stored[r]))
        BY <2>2, <2>9, <1>a DEF StoreType, Generation
      <3> QED BY <3>1, ElementOfSeq DEF BodySpec
    <2>11. ASSUME pc[r][c] = "scale", ScaleTo(r, c) PROVE ClusterType'
      <3>1. BodySpec(r, c) \in AgentSpec
        BY <2>9, <2>10, <2>11
      <3>2. Desired(BodySpec(r, c)) \in 0..MaxActive
        BY <3>1, <1>c DEF Desired, AgentSpec
      <3> QED BY <3>2, <2>11, <1>a DEF ScaleTo, ClusterType
    <2>12. ASSUME CallType', ShapeInv', ClusterType' PROVE TypeInv'
      BY <2>12, <2>5, <2>6, <2>7, <1>q
    <2>s. body = [body EXCEPT ![r][c] = body[r][c]]
      BY <2>1, <1>a DEF ShapeInv
    <2>13. CASE Call(r, c)
      <3> DEFINE l == IF Current(r).managed THEN "read" ELSE "Registered"
      <3>1. /\ pc' = [pc EXCEPT ![r][c] = l] /\ body' = [body EXCEPT ![r][c] = Generation(r)]
            /\ UNCHANGED <<phase, observed, up, runtime>> /\ Exists(r)
        BY <2>13 DEF Call, statusVars
      <3>2. l \in Labels /\ l # "idle"
        BY DEF Labels, Outcomes
      <3> HIDE DEF l
      <3>3. Generation(r) \in 0..Generation(r) /\ Generation(r) # 0
        BY <2>2, <3>1, CurrentType
      <3>4. CallType' /\ ShapeInv'
        BY <3>1, <3>2, <3>3, <2>8, <2>9
      <3> QED BY <3>1, <3>4, <2>12, <1>u2
    <2>14. CASE Read(r, c)
      <3>1. PICK l \in Labels \ {"idle"} : pc' = [pc EXCEPT ![r][c] = l]
        BY <2>14 DEF Read, Labels, Outcomes
      <3>2. UNCHANGED <<phase, observed, up, runtime, body>> /\ pc[r][c] = "read"
        BY <2>14 DEF Read, statusVars
      <3>3. CallType' /\ ShapeInv'
        BY <3>1, <3>2, <2>s, <2>8, <2>9
      <3> QED BY <3>2, <3>3, <2>12, <1>u2
    <2>15. CASE Scale(r, c)
      <3>1. /\ pc' = [pc EXCEPT ![r][c] = "applied"] /\ pc[r][c] = "scale" /\ ScaleTo(r, c)
            /\ UNCHANGED <<phase, observed, up, body>>
        BY <2>15 DEF Scale, statusVars
      <3>2. CallType' /\ ShapeInv'
        BY <3>1, <2>s, <2>8, <2>9 DEF Labels, Outcomes
      <3> QED BY <3>1, <3>2, <2>11, <2>12
    <2>16. CASE ScaleMissing(r, c) \/ ApiError(r, c)
      <3>1. /\ pc' = [pc EXCEPT ![r][c] = "idle"] /\ body' = [body EXCEPT ![r][c] = 0]
            /\ UNCHANGED <<phase, observed, up>>
            /\ UNCHANGED runtime \/ (pc[r][c] = "scale" /\ ScaleTo(r, c))
        BY <2>16 DEF ScaleMissing, ApiError, Abandon, Return, statusVars
      <3>2. 0 \in 0..Generation(r)
        BY <2>2
      <3>3. CallType' /\ ShapeInv'
        BY <3>1, <3>2, <2>8, <2>9 DEF Labels
      <3> QED BY <3>1, <3>3, <2>11, <2>12, <1>u2
    <2>17. CASE Finish(r, c)
      <3>1. PICK g \in Observable(r, c) : observed' = [observed EXCEPT ![r] = g]
        BY <2>17 DEF Finish
      <3>2. g \in 0..Generation(r)
        BY <3>1, <2>2, <2>9 DEF Observable
      <3>3. PhaseOf(r, c) \in Phases
        BY <2>17 DEF Finish, PhaseOf, Outcomes, Phases
      <3>4. /\ pc' = [pc EXCEPT ![r][c] = "idle"] /\ body' = [body EXCEPT ![r][c] = 0]
            /\ phase' = [phase EXCEPT ![r] = PhaseOf(r, c)] /\ up' = up /\ UNCHANGED runtime
        BY <2>17 DEF Finish, Return
      <3>5. 0 \in 0..Generation(r) /\ g \in Nat
        BY <2>2, <3>2
      <3>6. phase' \in [Registrations -> Phases]
        BY <2>9, <3>3, <3>4
      <3>7. /\ observed' \in [Registrations -> Nat]
            /\ \A q \in Registrations : observed'[q] \in 0..Generation(q)
        BY <2>9, <3>1, <3>2, <3>5
      <3>8. CallType' /\ ShapeInv'
        BY <3>4, <3>5, <3>6, <3>7, <2>8 DEF Labels
      <3> QED BY <3>4, <3>8, <2>12, <1>u2
    <2> QED BY <1>10, <2>13, <2>14, <2>15, <2>16, <2>17 DEF Reconcile
  <1>11. CASE Start \/ Crash
    <2>1. /\ UNCHANGED <<stored, statusVars, runtime, agentVars>> /\ (Event \/ UNCHANGED events)
          /\ up' \in BOOLEAN
          /\ due' = due \/ due' = [r \in Registrations |-> TRUE]
          /\ \/ UNCHANGED callVars
             \/ /\ pc' = [r \in Registrations |-> [c \in Both |-> "idle"]]
                /\ body' = [r \in Registrations |-> [c \in Both |-> 0]]
      BY <1>11 DEF Start, Crash, Both
    <2>2. \A q \in Registrations : Generation(q) \in Nat /\ Generation(q)' = Generation(q)
      BY <2>1, <1>a, LenProperties DEF StoreType, Generation
    <2>3. StoreType'
      BY <2>1, <1>a DEF StoreType
    <2>4. CASE UNCHANGED callVars
      BY <2>1, <2>2, <2>3, <2>4, <1>a, <1>q, <1>e, <1>u2, <1>u3
         DEF CallType, ShapeInv, callVars, statusVars
    <2>5. CASE /\ pc' = [r \in Registrations |-> [c \in Both |-> "idle"]]
               /\ body' = [r \in Registrations |-> [c \in Both |-> 0]]
      <3>1. /\ pc' \in [Registrations -> [Both -> Labels]]
            /\ body' \in [Registrations -> [Both -> Nat]]
            /\ \A r \in Registrations : \A c \in Both : pc'[r][c] = "idle" /\ body'[r][c] = 0
        BY <2>5 DEF Labels
      <3>2. CallType' /\ ShapeInv'
        BY <2>1, <2>2, <3>1, <1>a DEF CallType, ShapeInv, statusVars
      <3> QED BY <2>1, <2>3, <3>2, <1>q, <1>e, <1>u2, <1>u3
    <2> QED BY <2>1, <2>4, <2>5
  <1>12. CASE UNCHANGED vars
    <2>1. UNCHANGED <<stored, due, statusVars, up, callVars, runtime, agentVars, events>>
      BY <1>12 DEF vars
    <2> QED BY <2>1, <1>q, <1>e, <1>u1, <1>u2, <1>u3, CallsKept
  <1> QED BY <1>2, <1>3, <1>4, <1>5, <1>6, <1>8, <1>9, <1>10, <1>11, <1>12 DEF Next, AgentLoop

\* Every variable of ManagedAgent keeps its type: no call works from, and no
\* status names, a generation that the API server has not stored.
THEOREM TypeCorrect == Spec => []TypeOK
  <1>1. TypeInv => TypeOK
    BY DEF TypeInv
  <1> QED BY <1>1, TypeInit, TypeStep, PTL DEF Spec
=============================================================================
