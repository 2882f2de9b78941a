------------------------ MODULE QuotaRequestsProofs ------------------------
(***************************************************************************)
(* Theorems about QuotaRequests, for any number of messages and of faults. *)
(***************************************************************************)
EXTENDS QuotaRequests, TLAPS

\* The thread of r is past the gate and not at its end.
Asking(r) == pc[r] \notin {"new", "done"}

(* What a thread may know of its command: it has passed the gate, goes the *)
(* way of its provider, and has not changed it before its last call; if it *)
(* makes that call once more, the answer to the first was lost.            *)
GateInv ==
    \A r \in Requests :
        /\ pc[r] = "new" => answer[r] = "none" /\ r \notin landed
        /\ Asking(r) => Passes(cmd[r]) /\ answer[r] = "none"
        /\ r \in landed => Passes(cmd[r])
        /\ pc[r] \in {"awsQuota", "awsHistory", "awsSubmit"} => cmd[r].provider = "aws"
        /\ pc[r] \in {"gcpGet", "gcpPatch"} => cmd[r].provider = "gcp"
        /\ pc[r] \in {"awsQuota", "awsHistory", "gcpGet", "gcpPatch"} => r \notin landed
        /\ pc[r] = "awsSubmit" /\ r \in landed => r \in lost

(* How the providers may differ from what they were when r began.          *)
SeenInv ==
    \A r \in Requests :
        /\ seen[r].quota <= awsQuota
        /\ seen[r].count <= Len(awsRequests)
        /\ seen[r].open \subseteq 1..seen[r].count
        /\ \A i \in 1..seen[r].count : awsRequests[i].open => i \in seen[r].open
        /\ seen[r].preference.revision <= preference.revision
        /\ seen[r].preference.revision = preference.revision =>
              /\ preference.value = seen[r].preference.value
              /\ preference.reconciling => seen[r].preference.reconciling

(* The last revision has the value of the preference.                      *)
LastPreferred ==
    preference.revision > 0 => preferred[preference.revision] = preference.value

(* What a thread has read still holds of the requests that it saw.         *)
AskInv ==
    \A r \in Requests :
        /\ pc[r] \in {"awsHistory", "awsSubmit"} => seen[r].quota < cmd[r].value
        /\ pc[r] = "awsSubmit" => \A i \in seen[r].open :
              awsRequests[i].open => awsRequests[i].value < cmd[r].value
        /\ pc[r] = "gcpPatch" /\ preference.revision = seen[r].preference.revision =>
              ~Pending(preference, cmd[r].value)

QuotaInv == TypeOK /\ GateInv /\ SeenInv /\ LastPreferred /\ AskInv /\ AnswersAreTrue

LEMMA ValueType ==
    ASSUME TypeOK, NEW r \in Requests
    PROVE  cmd[r].value \in Nat
BY QuotaAssumption DEF TypeOK, NoCommand

(* The two writes.                                                         *)
LEMMA FileType ==
    ASSUME TypeOK, GateInv, NEW r \in Requests, pc[r] = "awsSubmit", File(r)
    PROVE  /\ awsRequests' \in Seq(Increase)
           /\ Len(awsRequests') = Len(awsRequests) + 1
           /\ awsRequests'[Len(awsRequests) + 1] =
                 [value |-> cmd[r].value, open |-> TRUE, by |-> r]
           /\ \A i \in 1..Len(awsRequests) : awsRequests'[i] = awsRequests[i]
           /\ landed' = landed \cup {r} /\ UNCHANGED <<awsQuota, preference, preferred>>
<1>1. cmd[r].value \in Nat \ {0}
  BY ValueType DEF GateInv, Asking, Passes, Parses
<1>2. [value |-> cmd[r].value, open |-> TRUE, by |-> r] \in Increase
  BY <1>1 DEF Increase
<1> QED BY <1>2 DEF File, TypeOK

LEMMA PreferType ==
    ASSUME TypeOK, GateInv, NEW r \in Requests, pc[r] = "gcpPatch", Prefer(r)
    PROVE  /\ preference' \in Preference
           /\ preference'.value = cmd[r].value /\ preference'.value # 0
           /\ preference'.revision = preference.revision + 1
           /\ preference'.by = r
           /\ preferred' \in Seq(Nat) /\ Len(preferred') = preference.revision + 1
           /\ preferred'[preference.revision + 1] = cmd[r].value
           /\ \A n \in 1..preference.revision : preferred'[n] = preferred[n]
           /\ landed' = landed \cup {r} /\ UNCHANGED <<awsQuota, awsRequests>>
<1>1. cmd[r].value \in Nat \ {0}
  BY ValueType DEF GateInv, Asking, Passes, Parses
<1>2. preference.revision \in Nat
  BY DEF TypeOK, Preference
<1>3. /\ preferred \in Seq(Nat) /\ Len(preferred) = preference.revision
      /\ preferred' = Append(preferred, cmd[r].value)
  BY DEF TypeOK, Prefer
<1>4. /\ preferred' \in Seq(Nat) /\ Len(preferred') = preference.revision + 1
      /\ preferred'[preference.revision + 1] = cmd[r].value
      /\ \A n \in 1..preference.revision : preferred'[n] = preferred[n]
  BY <1>1, <1>3
<1> QED BY <1>1, <1>2, <1>4 DEF Prefer, Preference

-----------------------------------------------------------------------------
LEMMA QuotaInit == Init => QuotaInv
<1> SUFFICES ASSUME Init PROVE QuotaInv
  OBVIOUS
<1> USE QuotaAssumption DEF Init
<1>1. awsRequests \in Seq(Increase) /\ Len(awsRequests) = 0 /\ DOMAIN awsRequests = {}
  OBVIOUS
<1>2. preference \in Preference
  BY DEF Preference
<1>3. Snapshot = [quota |-> awsQuota, open |-> {}, count |-> 0, preference |-> preference]
  BY <1>1 DEF Snapshot, Open
<1>4. preference.value = 0 /\ preference.revision = 0 /\ preference.reconciling = FALSE
  OBVIOUS
<1>5. \A r \in Requests : seen[r] = [quota |-> awsQuota, open |-> {}, count |-> 0,
                                   preference |-> preference]
  BY <1>3
<1>6. TypeOK
  <2>1. [quota |-> awsQuota, open |-> {}, count |-> 0, preference |-> preference]
           \in [quota : Nat, open : SUBSET Nat, count : Nat, preference : Preference]
    BY <1>2
  <2>2. seen \in [Requests -> [quota : Nat, open : SUBSET Nat, count : Nat,
                               preference : Preference]]
    BY <1>3, <2>1
  <2>3. awsQuota >= FirstQuota /\ faults \in 0..MaxFaults
    OBVIOUS
  <2> HIDE DEF Init
  <2>4. /\ enabled \in BOOLEAN /\ landed \subseteq Requests /\ lost \subseteq Requests
        /\ preferred \in Seq(Nat) /\ Len(preferred) = 0
        /\ cmd \in [Requests -> Commands \cup {NoCommand}] /\ awsQuota \in Nat
        /\ pc \in [Requests -> Labels] /\ answer \in [Requests -> Answers]
    BY DEF Init, Labels, Answers
  <2> QED BY <1>1, <1>2, <1>4, <2>2, <2>3, <2>4 DEF TypeOK
<1>7. GateInv
  BY DEF GateInv, Asking
<1>8. SeenInv
  <2> SUFFICES ASSUME NEW r \in Requests
               PROVE  /\ seen[r].quota <= awsQuota /\ seen[r].count <= Len(awsRequests)
                      /\ seen[r].open = {} /\ 1..seen[r].count = {}
                      /\ seen[r].preference.revision <= preference.revision
                      /\ preference.value = seen[r].preference.value
                      /\ preference.reconciling = FALSE
    BY DEF SeenInv
  <2> QED BY <1>1, <1>4, <1>5
<1>9. AskInv /\ AnswersAreTrue /\ LastPreferred
  BY <1>4 DEF AskInv, AnswersAreTrue, LastPreferred
<1> QED BY <1>6, <1>7, <1>8, <1>9 DEF QuotaInv

(* Every action keeps the types.                                           *)
LEMMA TypeStep == TypeOK /\ GateInv /\ [Next]_vars => TypeOK'
<1> SUFFICES ASSUME TypeOK, GateInv, [Next]_vars PROVE TypeOK'
  OBVIOUS
<1> USE QuotaAssumption DEF providers
<1>1. ASSUME NEW r \in Requests, Handle(r) PROVE TypeOK'
  <2>1. PICK c \in Commands :
           /\ cmd' = [cmd EXCEPT ![r] = c]
           /\ pc' = [pc EXCEPT ![r] = IF Passes(c) THEN FirstCall(c) ELSE "done"]
           /\ answer' = [answer EXCEPT ![r] =
                 IF ~Passes(c) \/ FirstCall(c) = "done" THEN "refused" ELSE "none"]
    BY <1>1 DEF Handle
  <2>2. FirstCall(c) \in Labels
    BY DEF FirstCall, Labels
  <2>3. Snapshot \in [quota : Nat, open : SUBSET Nat, count : Nat, preference : Preference]
    BY DEF Snapshot, Open, TypeOK
  <2> QED BY <1>1, <2>1, <2>2, <2>3 DEF Handle, TypeOK, Labels, Answers
<1>2. ASSUME NEW r \in Requests, CallFails(r) \/ GetQuota(r) \/ ListHistory(r) \/ GetPreference(r)
      PROVE  TypeOK'
  BY <1>2 DEF CallFails, GetQuota, ListHistory, GetPreference, Say, Goto, TypeOK, Labels, Answers
<1>3. ASSUME NEW r \in Requests, RequestIncrease(r) \/ RequestIsLost(r) PROVE TypeOK'
  <2>1. pc[r] = "awsSubmit" /\ File(r)
    BY <1>3 DEF RequestIncrease, RequestIsLost
  <2>2. pc' \in [Requests -> Labels] /\ answer' \in [Requests -> Answers]
    BY <1>3 DEF RequestIncrease, RequestIsLost, Say, Goto, TypeOK, Labels, Answers
  <2>3. faults' \in 0..MaxFaults /\ lost' \subseteq Requests /\ UNCHANGED <<enabled, cmd, seen>>
    BY <1>3 DEF RequestIncrease, RequestIsLost, TypeOK
  <2> QED BY <2>1, <2>2, <2>3, FileType DEF TypeOK
<1>4. ASSUME NEW r \in Requests, PatchPreference(r) \/ PatchIsLost(r) PROVE TypeOK'
  <2>1. pc[r] = "gcpPatch" /\ Prefer(r)
    BY <1>4 DEF PatchPreference, PatchIsLost
  <2>2. pc' \in [Requests -> Labels] /\ answer' \in [Requests -> Answers]
    BY <1>4 DEF PatchPreference, PatchIsLost, Say, TypeOK, Labels, Answers
  <2>3. faults' \in 0..MaxFaults /\ lost' \subseteq Requests /\ UNCHANGED <<enabled, cmd, seen>>
    BY <1>4 DEF PatchPreference, PatchIsLost, TypeOK
  <2>4. preference.revision + 1 # 0
    BY DEF TypeOK, Preference
  <2> QED BY <2>1, <2>2, <2>3, <2>4, PreferType DEF TypeOK
<1>5. ASSUME NEW i \in DOMAIN awsRequests, AwsDecides(i) PROVE TypeOK'
  <2>1. i \in 1..Len(awsRequests) /\ awsRequests[i] \in Increase
    BY DEF TypeOK
  <2>2. [awsRequests[i] EXCEPT !.open = FALSE] \in Increase
    BY <2>1 DEF Increase
  <2>3. awsRequests' \in Seq(Increase)
    BY <1>5, <2>1, <2>2 DEF AwsDecides, TypeOK
  <2>4. awsQuota' \in Nat /\ awsQuota' >= FirstQuota
    BY <1>5, <2>1 DEF AwsDecides, TypeOK, Increase
  <2> QED BY <1>5, <2>3, <2>4 DEF AwsDecides, TypeOK
<1>6. CASE GcpSettles
  BY <1>6 DEF GcpSettles, TypeOK, Preference
<1>7. CASE Crash
  BY <1>7 DEF Crash, TypeOK, Labels
<1>8. CASE UNCHANGED vars
  BY <1>8 DEF vars, TypeOK
<1> QED BY <1>1, <1>2, <1>3, <1>4, <1>5, <1>6, <1>7, <1>8 DEF Next, RequestAws, RequestGcp

(* What no step takes back: the providers only grow, and a thread keeps    *)
(* its command and what it has seen.                                       *)
LEMMA Monotone ==
    ASSUME TypeOK, GateInv, [Next]_vars
    PROVE  /\ enabled' = enabled
           /\ awsQuota <= awsQuota'
           /\ Len(awsRequests) <= Len(awsRequests')
           /\ \A i \in 1..Len(awsRequests) :
                 /\ awsRequests'[i].value = awsRequests[i].value
                 /\ awsRequests'[i].open => awsRequests[i].open
           /\ preference.revision <= preference'.revision
           /\ preference'.revision = preference.revision =>
                 /\ preference'.value = preference.value
                 /\ preference'.reconciling => preference.reconciling
           /\ \A n \in 1..preference.revision : preferred'[n] = preferred[n]
           /\ landed \subseteq landed' /\ lost \subseteq lost'
<1> USE DEF providers
<1>0. /\ awsQuota \in Nat /\ Len(awsRequests) \in Nat /\ preference.revision \in Nat
  BY DEF TypeOK, Preference
<1>1. ASSUME NEW r \in Requests, RequestIncrease(r) \/ RequestIsLost(r)
      PROVE  /\ pc[r] = "awsSubmit" /\ File(r) /\ enabled' = enabled /\ lost \subseteq lost'
  BY <1>1 DEF RequestIncrease, RequestIsLost
<1>2. ASSUME NEW r \in Requests, PatchPreference(r) \/ PatchIsLost(r)
      PROVE  /\ pc[r] = "gcpPatch" /\ Prefer(r) /\ enabled' = enabled /\ lost \subseteq lost'
  BY <1>2 DEF PatchPreference, PatchIsLost
<1>3. ASSUME NEW r \in Requests, Handle(r) \/ CallFails(r) \/ GetQuota(r) \/ ListHistory(r)
                                \/ GetPreference(r)
      PROVE  UNCHANGED <<enabled, providers, landed, lost>>
  BY <1>3 DEF Handle, CallFails, GetQuota, ListHistory, GetPreference
<1>4. ASSUME NEW i \in DOMAIN awsRequests, AwsDecides(i)
      PROVE  /\ UNCHANGED <<enabled, preference, preferred, landed, lost>> /\ awsQuota <= awsQuota'
             /\ Len(awsRequests') = Len(awsRequests)
             /\ \A j \in 1..Len(awsRequests) :
                   /\ awsRequests'[j].value = awsRequests[j].value
                   /\ awsRequests'[j].open => awsRequests[j].open
  <2>1. i \in 1..Len(awsRequests) /\ \A j \in 1..Len(awsRequests) : awsRequests[j] \in Increase
    BY DEF TypeOK
  <2>2. awsRequests' = [awsRequests EXCEPT ![i] = [awsRequests[i] EXCEPT !.open = FALSE]]
    BY <1>4 DEF AwsDecides
  <2>3. awsQuota <= awsQuota'
    BY <1>0, <1>4, <2>1 DEF AwsDecides, Increase
  <2>4. /\ [awsRequests[i] EXCEPT !.open = FALSE].value = awsRequests[i].value
        /\ [awsRequests[i] EXCEPT !.open = FALSE].open = FALSE
    BY <2>1 DEF Increase
  <2>5. /\ Len(awsRequests') = Len(awsRequests)
        /\ \A j \in 1..Len(awsRequests) : awsRequests'[j] =
              IF j = i THEN [awsRequests[i] EXCEPT !.open = FALSE] ELSE awsRequests[j]
    BY <2>1, <2>2 DEF TypeOK
  <2> QED BY <1>4, <2>3, <2>4, <2>5 DEF AwsDecides
<1>5. CASE GcpSettles
  <2>1. UNCHANGED <<enabled, awsQuota, awsRequests, preferred, landed, lost>>
    BY <1>5 DEF GcpSettles
  <2>2. /\ preference'.value = preference.value /\ preference'.revision = preference.revision
        /\ preference'.reconciling = FALSE
    BY <1>5 DEF GcpSettles, TypeOK, Preference
  <2> QED BY <1>0, <2>1, <2>2
<1>6. CASE Crash \/ UNCHANGED vars
  <2>1. UNCHANGED <<enabled, providers, landed, lost>>
    BY <1>6 DEF Crash, vars
  <2> QED BY <1>0, <2>1
<1>7. ASSUME NEW r \in Requests, pc[r] = "awsSubmit", File(r)
      PROVE  /\ UNCHANGED <<awsQuota, preference, preferred>> /\ landed \subseteq landed'
             /\ Len(awsRequests') = Len(awsRequests) + 1
             /\ \A i \in 1..Len(awsRequests) : awsRequests'[i] = awsRequests[i]
  BY <1>7, FileType
<1>8. ASSUME NEW r \in Requests, pc[r] = "gcpPatch", Prefer(r)
      PROVE  /\ UNCHANGED <<awsQuota, awsRequests>> /\ landed \subseteq landed'
             /\ preference'.revision = preference.revision + 1
             /\ \A n \in 1..preference.revision : preferred'[n] = preferred[n]
  BY <1>8, PreferType
<1>9. CASE \E r \in Requests : RequestIncrease(r) \/ RequestIsLost(r)
  BY <1>0, <1>1, <1>7, <1>9
<1>10. CASE \E r \in Requests : PatchPreference(r) \/ PatchIsLost(r)
  BY <1>0, <1>2, <1>8, <1>10
<1>11. CASE \E r \in Requests : Handle(r) \/ CallFails(r) \/ GetQuota(r) \/ ListHistory(r)
                                \/ GetPreference(r)
  BY <1>0, <1>3, <1>11
<1>12. CASE \E i \in DOMAIN awsRequests : AwsDecides(i)
  BY <1>0, <1>4, <1>12
<1> QED BY <1>5, <1>6, <1>9, <1>10, <1>11, <1>12 DEF Next, RequestAws, RequestGcp

(* What a step may do to a thread: nothing, or it begins, makes its next   *)
(* call, or ends with an answer that it has cause for.                     *)
GoesOn(r) ==
    \/ pc[r] = "awsQuota" /\ pc'[r] = "awsHistory" /\ awsQuota < cmd[r].value
    \/ /\ pc[r] = "awsHistory" /\ pc'[r] = "awsSubmit" /\ UNCHANGED providers
       /\ \A i \in DOMAIN awsRequests : ~Covers(awsRequests[i], cmd[r].value)
    \/ pc[r] = "awsSubmit" /\ pc'[r] = "awsSubmit"
    \/ /\ pc[r] = "gcpGet" /\ pc'[r] = "gcpPatch" /\ UNCHANGED providers
       /\ ~Pending(preference, cmd[r].value)

Ends(r) ==
    \/ UNCHANGED answer[r]
    \/ answer'[r] = "rejected" /\ (UNCHANGED <<landed, lost>> \/ r \in lost')
    \/ /\ answer'[r] = "alreadyHigh" /\ UNCHANGED landed /\ pc[r] = "awsQuota"
       /\ cmd[r].value <= awsQuota
    \/ /\ answer'[r] = "pending" /\ UNCHANGED <<providers, landed>> /\ pc[r] = "awsHistory"
       /\ \E i \in DOMAIN awsRequests : Covers(awsRequests[i], cmd[r].value)
    \/ /\ answer'[r] = "pending" /\ UNCHANGED <<providers, landed>> /\ pc[r] = "gcpGet"
       /\ Pending(preference, cmd[r].value)
    \/ answer'[r] = "submitted" /\ r \in landed'

LEMMA Thread ==
    ASSUME TypeOK, [Next]_vars, NEW r \in Requests
    PROVE  \/ UNCHANGED <<cmd[r], pc[r], answer[r], seen[r]>>
           \/ Handle(r)
           \/ /\ Asking(r) /\ UNCHANGED <<cmd[r], seen[r]>>
              /\ (GoesOn(r) /\ UNCHANGED answer[r]) \/ (pc'[r] = "done" /\ Ends(r))
<1>1. ASSUME NEW q \in Requests, Handle(q), q # r
      PROVE  UNCHANGED <<cmd[r], pc[r], answer[r], seen[r]>>
  BY <1>1 DEF Handle, TypeOK
<1>2. ASSUME NEW q \in Requests, RequestAws(q) \/ RequestGcp(q) \/ CallFails(q), q # r
      PROVE  UNCHANGED <<cmd[r], pc[r], answer[r], seen[r]>>
  BY <1>2 DEF RequestAws, GetQuota, ListHistory, RequestIncrease, RequestIsLost,
     RequestGcp, GetPreference, PatchPreference, PatchIsLost, CallFails, Say, Goto, TypeOK
<1>3. ASSUME RequestAws(r) \/ RequestGcp(r) \/ CallFails(r)
      PROVE  /\ Asking(r) /\ UNCHANGED <<cmd[r], seen[r]>>
             /\ (GoesOn(r) /\ UNCHANGED answer[r]) \/ (pc'[r] = "done" /\ Ends(r))
  <2>0. awsQuota \in Nat /\ cmd[r].value \in Nat
    BY ValueType DEF TypeOK
  <2> USE DEF Say, Goto, TypeOK, Asking
  <2>1. CASE GetQuota(r)
    BY <2>0, <2>1 DEF GetQuota, GoesOn, Ends
  <2>2. CASE ListHistory(r)
    BY <2>2 DEF ListHistory, GoesOn, Ends
  <2>3. CASE RequestIncrease(r) \/ RequestIsLost(r)
    <3>1. /\ pc[r] = "awsSubmit" /\ r \in landed' /\ UNCHANGED <<cmd, seen>>
          /\ \/ Say(r, "submitted")
             \/ Say(r, "rejected") /\ r \in lost'
             \/ Goto(r, "awsSubmit")
      BY <2>3 DEF RequestIncrease, RequestIsLost, File
    <3>2. CASE Say(r, "submitted")
      BY <3>1, <3>2 DEF Ends
    <3>3. CASE Say(r, "rejected") /\ r \in lost'
      BY <3>1, <3>3 DEF Ends
    <3>4. CASE Goto(r, "awsSubmit")
      BY <3>1, <3>4 DEF GoesOn
    <3> QED BY <3>1, <3>2, <3>3, <3>4
  <2>4. CASE GetPreference(r)
    BY <2>4 DEF GetPreference, GoesOn, Ends
  <2>5. CASE PatchPreference(r) \/ PatchIsLost(r)
    BY <2>5 DEF PatchPreference, PatchIsLost, Prefer, Ends
  <2>6. CASE CallFails(r)
    BY <2>6 DEF CallFails, Ends
  <2> QED BY <1>3, <2>1, <2>2, <2>3, <2>4, <2>5, <2>6 DEF RequestAws, RequestGcp
<1>4. CASE Crash
  <2>1. UNCHANGED <<cmd, answer, seen>>
    BY <1>4 DEF Crash
  <2>2. pc'[r] = IF pc[r] = "new" THEN "new" ELSE "done"
    BY <1>4 DEF Crash
  <2> QED BY <2>1, <2>2 DEF Asking, Ends
<1>5. ASSUME UNCHANGED vars \/ GcpSettles \/ \E i \in DOMAIN awsRequests : AwsDecides(i)
      PROVE  UNCHANGED <<cmd[r], pc[r], answer[r], seen[r]>>
  BY <1>5 DEF vars, GcpSettles, AwsDecides
<1> QED BY <1>1, <1>2, <1>3, <1>4, <1>5 DEF Next

(* Only a thread at a write changes a provider in its name.                *)
LEMMA Landing ==
    ASSUME TypeOK, [Next]_vars, NEW r \in landed', r \notin landed
    PROVE  /\ r \in Requests /\ pc[r] \in {"awsSubmit", "gcpPatch"} /\ ~Handle(r)
           /\ pc'[r] = "done" \/ (pc[r] = "awsSubmit" /\ r \in lost')
<1>1. ASSUME NEW q \in Requests, RequestIncrease(q) \/ RequestIsLost(q)
      PROVE  /\ pc[q] = "awsSubmit" /\ landed' = landed \cup {q}
             /\ pc'[q] = "done" \/ (pc[q] = "awsSubmit" /\ q \in lost')
  BY <1>1 DEF RequestIncrease, RequestIsLost, File, Say, TypeOK
<1>2. ASSUME NEW q \in Requests, PatchPreference(q) \/ PatchIsLost(q)
      PROVE  pc[q] = "gcpPatch" /\ landed' = landed \cup {q} /\ pc'[q] = "done"
  BY <1>2 DEF PatchPreference, PatchIsLost, Prefer, Say, TypeOK
<1>3. ASSUME NEW q \in Requests, Handle(q) \/ CallFails(q) \/ GetQuota(q) \/ ListHistory(q)
                                \/ GetPreference(q)
      PROVE  UNCHANGED landed
  BY <1>3 DEF Handle, CallFails, GetQuota, ListHistory, GetPreference
<1>4. CASE UNCHANGED vars \/ GcpSettles \/ Crash \/ \E i \in DOMAIN awsRequests : AwsDecides(i)
  BY <1>4 DEF vars, GcpSettles, Crash, AwsDecides
<1>5. CASE \E q \in Requests : \/ RequestIncrease(q) \/ RequestIsLost(q)
                              \/ PatchPreference(q) \/ PatchIsLost(q)
  <2>1. PICK q \in Requests :
           /\ landed' = landed \cup {q} /\ pc[q] \in {"awsSubmit", "gcpPatch"}
           /\ pc'[q] = "done" \/ (pc[q] = "awsSubmit" /\ q \in lost')
    BY <1>1, <1>2, <1>5
  <2> QED BY <2>1 DEF Handle
<1>6. CASE \E q \in Requests : Handle(q) \/ CallFails(q) \/ GetQuota(q) \/ ListHistory(q)
                                \/ GetPreference(q)
  BY <1>3, <1>6
<1> QED BY <1>4, <1>5, <1>6 DEF Next, RequestAws, RequestGcp

-----------------------------------------------------------------------------
LEMMA GateStep == TypeOK /\ GateInv /\ [Next]_vars => GateInv'
<1> SUFFICES ASSUME TypeOK, GateInv, [Next]_vars, NEW r \in Requests
             PROVE  /\ pc'[r] = "new" => answer'[r] = "none" /\ r \notin landed'
                    /\ Asking(r)' => Passes(cmd[r])' /\ answer'[r] = "none"
                    /\ r \in landed' => Passes(cmd[r])'
                    /\ pc'[r] \in {"awsQuota", "awsHistory", "awsSubmit"} =>
                          cmd'[r].provider = "aws"
                    /\ pc'[r] \in {"gcpGet", "gcpPatch"} => cmd'[r].provider = "gcp"
                    /\ pc'[r] \in {"awsQuota", "awsHistory", "gcpGet", "gcpPatch"} =>
                          r \notin landed'
                    /\ pc'[r] = "awsSubmit" /\ r \in landed' => r \in lost'
  BY DEF GateInv
<1>1. enabled' = enabled
  BY Monotone
<1>2. CASE Handle(r)
  <2>1. PICK c \in Commands :
           /\ cmd'[r] = c
           /\ pc'[r] = IF Passes(c) THEN FirstCall(c) ELSE "done"
           /\ answer'[r] = IF ~Passes(c) \/ FirstCall(c) = "done" THEN "refused" ELSE "none"
    BY <1>2 DEF Handle, TypeOK
  <2>2. r \notin landed'
    BY <1>2 DEF Handle, GateInv
  <2>3. Passes(c) => /\ c.provider \in {"aws", "gcp"}
                     /\ FirstCall(c) \in {"awsQuota", "gcpGet", "done"}
                     /\ FirstCall(c) = "awsQuota" => c.provider = "aws"
                     /\ FirstCall(c) = "gcpGet" => c.provider = "gcp"
    BY DEF Passes, Parses, FirstCall
  <2>4. (Passes(cmd[r]))' <=> Passes(c)
    BY <1>1, <2>1 DEF Passes
  <2> QED BY <2>1, <2>2, <2>3, <2>4 DEF Asking
<1>3. CASE ~Handle(r)
  <2>1. cmd'[r] = cmd[r] /\ (Passes(cmd[r])' <=> Passes(cmd[r]))
    BY <1>1, <1>3, Thread DEF Passes
  <2>2. r \in landed' => \/ r \in landed
                          \/ /\ pc[r] \in {"awsSubmit", "gcpPatch"}
                             /\ pc'[r] = "done" \/ (pc[r] = "awsSubmit" /\ r \in lost')
    BY Landing
  <2>7. lost \subseteq lost'
    BY Monotone
  <2>3. r \in landed' => Passes(cmd[r])
    BY <2>2 DEF GateInv, Asking
  <2>4. CASE UNCHANGED <<cmd[r], pc[r], answer[r], seen[r]>>
    <3>1. pc'[r] = "new" => r \notin landed'
      BY <2>2, <2>4 DEF GateInv
    <3> QED BY <2>1, <2>2, <2>3, <2>4, <2>7, <3>1 DEF GateInv, Asking
  <2>5. CASE Asking(r) /\ GoesOn(r) /\ UNCHANGED answer[r]
    BY <2>1, <2>2, <2>3, <2>5, <2>7 DEF GateInv, GoesOn, Asking
  <2>6. CASE pc'[r] = "done"
    BY <2>1, <2>3, <2>6 DEF Asking
  <2> QED BY <1>3, <2>4, <2>5, <2>6, Thread
<1> QED BY <1>2, <1>3

LEMMA SeenStep == TypeOK /\ GateInv /\ SeenInv /\ [Next]_vars => SeenInv'
<1> SUFFICES ASSUME TypeOK, GateInv, SeenInv, [Next]_vars, TypeOK', NEW r \in Requests
             PROVE  /\ seen'[r].quota <= awsQuota'
                    /\ seen'[r].count <= Len(awsRequests')
                    /\ seen'[r].open \subseteq 1..seen'[r].count
                    /\ \A i \in 1..seen'[r].count :
                          awsRequests'[i].open => i \in seen'[r].open
                    /\ seen'[r].preference.revision <= preference'.revision
                    /\ seen'[r].preference.revision = preference'.revision =>
                          /\ preference'.value = seen'[r].preference.value
                          /\ preference'.reconciling => seen'[r].preference.reconciling
  BY TypeStep DEF SeenInv
<1>1. CASE Handle(r)
  <2>1. seen'[r] = Snapshot /\ UNCHANGED providers
    BY <1>1 DEF Handle, TypeOK
  <2>2. /\ seen'[r].quota = awsQuota /\ seen'[r].count = Len(awsRequests)
        /\ seen'[r].open = {i \in DOMAIN awsRequests : awsRequests[i].open}
        /\ seen'[r].preference = preference
    BY <2>1 DEF Snapshot, Open
  <2>3. DOMAIN awsRequests = 1..Len(awsRequests)
    BY DEF TypeOK
  <2>4. awsQuota \in Nat /\ Len(awsRequests) \in Nat /\ preference.revision \in Nat
    BY DEF TypeOK, Preference
  <2> QED BY <2>1, <2>2, <2>3, <2>4 DEF providers
<1>2. CASE ~Handle(r)
  <2>1. seen'[r] = seen[r]
    BY <1>2, Thread
  <2>2. /\ awsQuota \in Nat /\ awsQuota' \in Nat /\ seen[r].quota \in Nat
        /\ seen[r].count \in Nat /\ Len(awsRequests) \in Nat /\ Len(awsRequests') \in Nat
        /\ preference.revision \in Nat /\ preference'.revision \in Nat
        /\ seen[r].preference.revision \in Nat
    BY DEF TypeOK, Preference
  <2>3. /\ seen[r].quota <= awsQuota /\ seen[r].count <= Len(awsRequests)
        /\ seen[r].open \subseteq 1..seen[r].count
        /\ \A i \in 1..seen[r].count : awsRequests[i].open => i \in seen[r].open
        /\ seen[r].preference.revision <= preference.revision
        /\ seen[r].preference.revision = preference.revision =>
              /\ preference.value = seen[r].preference.value
              /\ preference.reconciling => seen[r].preference.reconciling
    BY DEF SeenInv
  <2>4. \A i \in 1..seen[r].count : awsRequests'[i].open => i \in seen[r].open
    BY <2>2, <2>3, Monotone
  <2>5. /\ seen[r].quota <= awsQuota' /\ seen[r].count <= Len(awsRequests')
        /\ seen[r].preference.revision <= preference'.revision
    BY <2>2, <2>3, Monotone
  <2>6. seen[r].preference.revision = preference'.revision =>
           /\ preference'.value = seen[r].preference.value
           /\ preference'.reconciling => seen[r].preference.reconciling
    BY <2>2, <2>3, Monotone
  <2> QED BY <2>1, <2>3, <2>4, <2>5, <2>6
<1> QED BY <1>1, <1>2

LEMMA LastStep == TypeOK /\ GateInv /\ LastPreferred /\ [Next]_vars => LastPreferred'
<1> SUFFICES ASSUME TypeOK, GateInv, LastPreferred, [Next]_vars PROVE LastPreferred'
  OBVIOUS
<1>1. ASSUME NEW r \in Requests, PatchPreference(r) \/ PatchIsLost(r) PROVE LastPreferred'
  <2>1. pc[r] = "gcpPatch" /\ Prefer(r)
    BY <1>1 DEF PatchPreference, PatchIsLost
  <2> QED BY <2>1, PreferType DEF LastPreferred
<1>2. ASSUME UNCHANGED <<preference, preferred>> PROVE LastPreferred'
  BY <1>2 DEF LastPreferred
<1>3. ASSUME NEW r \in Requests,
             Handle(r) \/ CallFails(r) \/ RequestAws(r) \/ GetPreference(r)
      PROVE  UNCHANGED <<preference, preferred>>
  BY <1>3 DEF Handle, CallFails, GetPreference, RequestAws, GetQuota, ListHistory,
     RequestIncrease, RequestIsLost, File, providers
<1>4. CASE Crash \/ UNCHANGED vars \/ \E i \in DOMAIN awsRequests : AwsDecides(i)
  BY <1>2, <1>4 DEF AwsDecides, Crash, vars, providers
<1>5. CASE GcpSettles
  <2>1. /\ preference'.revision = preference.revision /\ preference'.value = preference.value
        /\ UNCHANGED preferred
    BY <1>5 DEF GcpSettles, TypeOK, Preference
  <2> QED BY <2>1 DEF LastPreferred
<1> QED BY <1>1, <1>2, <1>3, <1>4, <1>5 DEF Next, RequestGcp

LEMMA AskStep == TypeOK /\ GateInv /\ SeenInv /\ AskInv /\ [Next]_vars => AskInv'
<1> SUFFICES ASSUME TypeOK, GateInv, SeenInv, AskInv, [Next]_vars, TypeOK', NEW r \in Requests
             PROVE  /\ pc'[r] \in {"awsHistory", "awsSubmit"} => seen'[r].quota < cmd'[r].value
                    /\ pc'[r] = "awsSubmit" => \A i \in seen'[r].open :
                          awsRequests'[i].open => awsRequests'[i].value < cmd'[r].value
                    /\ pc'[r] = "gcpPatch"
                          /\ preference'.revision = seen'[r].preference.revision =>
                          ~(preference'.reconciling /\ preference'.value >= cmd'[r].value)
  BY TypeStep DEF AskInv, Pending
<1>1. CASE Handle(r)
  <2>1. PICK c : pc'[r] = IF Passes(c) THEN FirstCall(c) ELSE "done"
    BY <1>1 DEF Handle, TypeOK
  <2> QED BY <2>1 DEF FirstCall
<1>2. CASE pc'[r] = "done"
  BY <1>2
<1>3. CASE /\ UNCHANGED <<cmd[r], seen[r]>>
           /\ pc'[r] = pc[r] \/ GoesOn(r)
  <2>1. /\ awsQuota \in Nat /\ seen[r].quota \in Nat /\ cmd[r].value \in Nat
        /\ seen[r].count \in Nat /\ Len(awsRequests) \in Nat
        /\ preference.revision \in Nat /\ preference'.revision \in Nat
        /\ seen[r].preference.revision \in Nat
    BY ValueType DEF TypeOK, Preference
  <2>2. \A i \in seen[r].open : i \in 1..Len(awsRequests)
    BY <2>1 DEF SeenInv
  <2>3. \A i \in seen[r].open : /\ awsRequests'[i].value = awsRequests[i].value
                                /\ awsRequests'[i].open => awsRequests[i].open
    BY <2>2, Monotone
  <2>4. pc'[r] \in {"awsHistory", "awsSubmit"} => seen[r].quota < cmd[r].value
    BY <1>3, <2>1 DEF GoesOn, AskInv, SeenInv
  <2>5. ASSUME pc'[r] = "awsSubmit", NEW i \in seen[r].open, awsRequests[i].open
        PROVE  awsRequests[i].value < cmd[r].value
    <3>1. CASE pc[r] = "awsSubmit"
      BY <2>5, <3>1 DEF AskInv
    <3>2. CASE \A j \in DOMAIN awsRequests : ~Covers(awsRequests[j], cmd[r].value)
      <4>1. i \in DOMAIN awsRequests
        BY <2>2, <2>5 DEF TypeOK
      <4>2. awsRequests[i] \in Increase
        BY <4>1 DEF TypeOK
      <4>3. awsRequests[i].value \in Nat
        BY <4>2 DEF Increase
      <4> QED BY <2>1, <2>5, <3>2, <4>1, <4>3 DEF Covers
    <3> QED BY <1>3, <2>5, <3>1, <3>2 DEF GoesOn
  <2>6. ASSUME pc'[r] = "gcpPatch", preference'.revision = seen[r].preference.revision
        PROVE  ~(preference'.reconciling /\ preference'.value >= cmd[r].value)
    <3>1. preference.revision = seen[r].preference.revision
      BY <2>1, <2>6, Monotone DEF SeenInv
    <3>2. ~Pending(preference, cmd[r].value)
      BY <1>3, <2>6, <3>1 DEF AskInv, GoesOn
    <3> QED BY <2>6, <3>1, <3>2, Monotone DEF Pending
  <2> QED BY <1>3, <2>3, <2>4, <2>5, <2>6
<1> QED BY <1>1, <1>2, <1>3, Thread

(* What is pending at a provider stays so for the answer that tells of it. *)
LEMMA PendingKept ==
    ASSUME TypeOK, TypeOK', GateInv, SeenInv, [Next]_vars, NEW r \in Requests, NEW v,
           UNCHANGED seen[r]
    PROVE  /\ PendingAtAws(r, v) => PendingAtAws(r, v)'
           /\ PendingAtGcp(r, v) => PendingAtGcp(r, v)'
<1>1. /\ Len(awsRequests) \in Nat /\ Len(awsRequests') \in Nat
      /\ DOMAIN awsRequests = 1..Len(awsRequests) /\ DOMAIN awsRequests' = 1..Len(awsRequests')
      /\ preference.revision \in Nat /\ preference'.revision \in Nat
      /\ seen[r].preference.revision \in Nat
  BY DEF TypeOK, Preference
<1>2. ASSUME PendingAtAws(r, v) PROVE PendingAtAws(r, v)'
  <2>1. PICK i \in DOMAIN awsRequests : /\ awsRequests[i].value >= v
                                        /\ i \in seen[r].open \/ i > seen[r].count
    BY <1>2 DEF PendingAtAws
  <2>2. i \in DOMAIN awsRequests' /\ awsRequests'[i].value = awsRequests[i].value
    BY <1>1, Monotone
  <2> QED BY <2>1, <2>2 DEF PendingAtAws
<1>3. ASSUME PendingAtGcp(r, v) PROVE PendingAtGcp(r, v)'
  <2>1. CASE seen[r].preference.reconciling /\ seen[r].preference.value >= v
    BY <2>1 DEF PendingAtGcp
  <2>2. ASSUME NEW n \in (seen[r].preference.revision + 1)..preference.revision,
               preferred[n] >= v
        PROVE  PendingAtGcp(r, v)'
    <3>1. /\ n \in 1..preference.revision
          /\ n \in (seen[r].preference.revision + 1)..preference'.revision
      BY <1>1, Monotone
    <3>2. preferred'[n] = preferred[n]
      BY <3>1, Monotone
    <3> QED BY <2>2, <3>1, <3>2 DEF PendingAtGcp
  <2> QED BY <1>3, <2>1, <2>2 DEF PendingAtGcp
<1> QED BY <1>2, <1>3

LEMMA AnswerStep ==
    TypeOK /\ GateInv /\ SeenInv /\ LastPreferred /\ AnswersAreTrue /\ [Next]_vars
       => AnswersAreTrue'
<1> SUFFICES ASSUME TypeOK, GateInv, SeenInv, LastPreferred, AnswersAreTrue, [Next]_vars,
                    TypeOK', NEW r \in Requests
             PROVE  /\ answer'[r] = "submitted" => r \in landed'
                    /\ answer'[r] = "alreadyHigh" => cmd'[r].value <= awsQuota'
                    /\ answer'[r] = "pending" /\ cmd'[r].provider = "aws" =>
                          PendingAtAws(r, cmd[r].value)'
                    /\ answer'[r] = "pending" /\ cmd'[r].provider = "gcp" =>
                          PendingAtGcp(r, cmd[r].value)'
                    /\ answer'[r] \in {"refused", "alreadyHigh", "pending"} => r \notin landed'
                    /\ answer'[r] = "rejected" /\ r \in landed' => r \in lost'
  BY TypeStep DEF AnswersAreTrue
<1>1. /\ awsQuota \in Nat /\ awsQuota' \in Nat /\ cmd[r].value \in Nat
      /\ preference.revision \in Nat /\ seen[r].preference.revision \in Nat
      /\ seen[r].count \in Nat /\ DOMAIN awsRequests = 1..Len(awsRequests)
      /\ Len(awsRequests) \in Nat
  BY ValueType DEF TypeOK, Preference
<1>2. CASE Handle(r)
  <2>1. PICK c : answer'[r] = IF ~Passes(c) \/ FirstCall(c) = "done" THEN "refused" ELSE "none"
    BY <1>2 DEF Handle, TypeOK
  <2>2. r \notin landed'
    BY <1>2 DEF Handle, GateInv
  <2> QED BY <2>1, <2>2
<1>3. CASE UNCHANGED <<cmd[r], seen[r], answer[r]>>
  <2>1. answer[r] = "submitted" => r \in landed'
    BY Monotone DEF AnswersAreTrue
  <2>2. answer[r] = "alreadyHigh" => cmd[r].value <= awsQuota'
    BY <1>1, Monotone DEF AnswersAreTrue
  <2>3. /\ answer[r] = "pending" /\ cmd[r].provider = "aws" => PendingAtAws(r, cmd[r].value)
        /\ answer[r] = "pending" /\ cmd[r].provider = "gcp" => PendingAtGcp(r, cmd[r].value)
    BY DEF AnswersAreTrue
  <2>4. PICK v : v = cmd[r].value
    OBVIOUS
  <2>5. /\ PendingAtAws(r, v) => PendingAtAws(r, v)'
        /\ PendingAtGcp(r, v) => PendingAtGcp(r, v)'
    BY <1>3, PendingKept
  <2>6. /\ PendingAtAws(r, v)' => PendingAtAws(r, cmd[r].value)'
        /\ PendingAtGcp(r, v)' => PendingAtGcp(r, cmd[r].value)'
    BY <1>3, <2>4
  <2>7. r \in landed' => r \in landed \/ answer[r] = "none"
    BY Landing DEF GateInv, Asking
  <2>8. /\ answer[r] \in {"refused", "alreadyHigh", "pending"} => r \notin landed'
        /\ answer[r] = "rejected" /\ r \in landed' => r \in lost'
    BY <2>7, Monotone DEF AnswersAreTrue
  <2> QED BY <1>3, <2>1, <2>2, <2>3, <2>4, <2>5, <2>6, <2>8
<1>4. CASE Asking(r) /\ UNCHANGED <<cmd[r], seen[r]>> /\ Ends(r)
  <2>1. CASE UNCHANGED answer[r]
    BY <1>3, <1>4, <2>1
  <2>2. CASE answer'[r] = "rejected" /\ (UNCHANGED <<landed, lost>> \/ r \in lost')
    <3>1. r \in landed => r \in lost
      BY <1>4 DEF GateInv, Asking, TypeOK, Labels
    <3> QED BY <2>2, <3>1
  <2>3. CASE /\ answer'[r] = "alreadyHigh" /\ UNCHANGED landed /\ pc[r] = "awsQuota"
             /\ cmd[r].value <= awsQuota
    <3>1. r \notin landed' /\ cmd'[r].value <= awsQuota'
      BY <1>1, <1>4, <2>3, Monotone DEF GateInv
    <3> QED BY <2>3, <3>1
  <2>4. CASE /\ answer'[r] = "pending" /\ UNCHANGED <<providers, landed>>
             /\ pc[r] = "awsHistory"
             /\ \E i \in DOMAIN awsRequests : Covers(awsRequests[i], cmd[r].value)
    <3>1. cmd[r].provider = "aws" /\ r \notin landed
      BY <2>4 DEF GateInv
    <3>2. PICK i \in DOMAIN awsRequests : Covers(awsRequests[i], cmd[r].value)
      BY <2>4
    <3>3. i \in seen[r].open \/ i > seen[r].count
      BY <1>1, <3>2 DEF Covers, SeenInv
    <3>4. PendingAtAws(r, cmd[r].value)'
      BY <1>4, <2>4, <3>2, <3>3 DEF Covers, providers, PendingAtAws
    <3> QED BY <1>4, <2>4, <3>1, <3>4
  <2>5. CASE /\ answer'[r] = "pending" /\ UNCHANGED <<providers, landed>>
             /\ pc[r] = "gcpGet" /\ Pending(preference, cmd[r].value)
    <3>1. cmd[r].provider = "gcp" /\ r \notin landed
      BY <2>5 DEF GateInv
    <3>2. PendingAtGcp(r, cmd[r].value)
      <4>1. CASE preference.revision = seen[r].preference.revision
        BY <2>5, <4>1 DEF Pending, SeenInv, PendingAtGcp
      <4>2. CASE preference.revision > seen[r].preference.revision
        <5>1. /\ preference.revision
                     \in (seen[r].preference.revision + 1)..preference.revision
              /\ preferred[preference.revision] = preference.value
          BY <1>1, <4>2 DEF LastPreferred
        <5> QED BY <2>5, <5>1 DEF Pending, PendingAtGcp
      <4> QED BY <1>1, <4>1, <4>2 DEF SeenInv
    <3>3. PendingAtGcp(r, cmd[r].value)'
      BY <1>4, <2>5, <3>2 DEF providers, PendingAtGcp
    <3> QED BY <1>4, <2>5, <3>1, <3>3
  <2>6. CASE answer'[r] = "submitted" /\ r \in landed'
    BY <2>6
  <2> QED BY <1>4, <2>1, <2>2, <2>3, <2>4, <2>5, <2>6 DEF Ends
<1> QED BY <1>2, <1>3, <1>4, Thread

-----------------------------------------------------------------------------
(* The inductive invariant.                                                *)
THEOREM QuotaCorrect == Spec => []QuotaInv
<1>1. QuotaInv /\ [Next]_vars => QuotaInv'
  BY TypeStep, GateStep, SeenStep, LastStep, AskStep, AnswerStep DEF QuotaInv
<1> QED BY <1>1, QuotaInit, PTL DEF Spec

(* Every variable keeps its type; no provider is asked for nothing.        *)
THEOREM TypeCorrect == Spec => []TypeOK
<1>1. QuotaInv => TypeOK
  BY DEF QuotaInv
<1> QED BY <1>1, QuotaCorrect, PTL

(* No unconfirmed request reaches a provider, nor one of a user who is not *)
(* in the allow-list (slack.py handle).                                    *)
THEOREM ConfirmedOnly == Spec => []OnlyConfirmedLand
<1>1. QuotaInv => OnlyConfirmedLand
  BY DEF QuotaInv, GateInv, OnlyConfirmedLand, Passes, TypeOK
<1> QED BY <1>1, QuotaCorrect, PTL

(* What Slack is told of a request is true, however many threads and the   *)
(* providers interleave (cloud_quotas.py).                                 *)
THEOREM TruthTold == Spec => []AnswersAreTrue
<1>1. QuotaInv => AnswersAreTrue
  BY DEF QuotaInv
<1> QED BY <1>1, QuotaCorrect, PTL

(* A command that is repeated files nothing that its first run has filed   *)
(* and that is still open (_request_aws).                                  *)
THEOREM RepeatIsHarmless == Spec => NotAskedTwice
<1> DEFINE Filed == Len(awsRequests') > Len(awsRequests) =>
             LET filed == awsRequests'[Len(awsRequests')]
             IN  /\ filed.value > seen[filed.by].quota
                 /\ \A i \in seen[filed.by].open :
                       awsRequests[i].open => awsRequests[i].value < filed.value
<1>1. ASSUME QuotaInv, [Next]_vars, Len(awsRequests') > Len(awsRequests)
      PROVE  Filed
  <2>1. Len(awsRequests) \in Nat
    BY <1>1 DEF QuotaInv, TypeOK
  <2>2. PICK r \in Requests : RequestIncrease(r) \/ RequestIsLost(r)
    <3>1. ASSUME NEW r \in Requests, Handle(r) \/ CallFails(r) \/ GetQuota(r) \/ ListHistory(r)
                                     \/ RequestGcp(r)
          PROVE  UNCHANGED awsRequests
      BY <3>1 DEF Handle, CallFails, GetQuota, ListHistory, RequestGcp, GetPreference,
         PatchPreference, PatchIsLost, Prefer, providers
    <3>2. ASSUME NEW i \in DOMAIN awsRequests, AwsDecides(i)
          PROVE  Len(awsRequests') = Len(awsRequests)
      BY <1>1, <3>2 DEF AwsDecides, QuotaInv, TypeOK
    <3>3. CASE GcpSettles \/ Crash \/ UNCHANGED vars
      BY <1>1, <2>1, <3>3 DEF GcpSettles, Crash, vars, providers
    <3> QED BY <1>1, <2>1, <3>1, <3>2, <3>3 DEF Next, RequestAws
  <2>3. pc[r] = "awsSubmit" /\ File(r)
    BY <2>2 DEF RequestIncrease, RequestIsLost
  <2>4. /\ Len(awsRequests') = Len(awsRequests) + 1
        /\ awsRequests'[Len(awsRequests')] = [value |-> cmd[r].value, open |-> TRUE, by |-> r]
    BY <1>1, <2>1, <2>3, FileType DEF QuotaInv
  <2>5. /\ seen[r].quota < cmd[r].value
        /\ \A i \in seen[r].open : awsRequests[i].open => awsRequests[i].value < cmd[r].value
    BY <1>1, <2>3 DEF QuotaInv, AskInv
  <2>6. seen[r].quota \in Nat /\ cmd[r].value \in Nat
    BY <1>1, ValueType DEF QuotaInv, TypeOK
  <2> QED BY <2>4, <2>5, <2>6
<1>2. QuotaInv /\ [Next]_vars => [Filed]_vars
  BY <1>1
<1> QED BY <1>2, QuotaCorrect, PTL DEF Spec, NotAskedTwice

(* A pending preference gives way to no smaller one, unless it was made    *)
(* while the request was under way (_request_gcp).                         *)
THEOREM PendingStays == Spec => PendingIsKept
<1> DEFINE Replaced == preference'.revision > preference.revision =>
             LET r == preference'.by
             IN  preference = seen[r].preference =>
                    ~(preference.reconciling /\ preference.value >= preference'.value)
<1>1. ASSUME QuotaInv, [Next]_vars, preference'.revision > preference.revision
      PROVE  Replaced
  <2>1. preference.revision \in Nat
    BY <1>1 DEF QuotaInv, TypeOK, Preference
  <2>2. PICK r \in Requests : PatchPreference(r) \/ PatchIsLost(r)
    <3>1. ASSUME NEW r \in Requests, Handle(r) \/ CallFails(r) \/ RequestAws(r) \/ GetPreference(r)
          PROVE  UNCHANGED preference
      BY <3>1 DEF Handle, CallFails, GetPreference, RequestAws, GetQuota, ListHistory,
         RequestIncrease, RequestIsLost, File, providers
    <3>2. CASE Crash \/ UNCHANGED vars \/ \E i \in DOMAIN awsRequests : AwsDecides(i)
      BY <1>1, <2>1, <3>2 DEF AwsDecides, Crash, vars, providers
    <3>3. CASE GcpSettles
      BY <1>1, <2>1, <3>3 DEF GcpSettles, QuotaInv, TypeOK, Preference
    <3> QED BY <1>1, <2>1, <3>1, <3>2, <3>3 DEF Next, RequestGcp
  <2>3. pc[r] = "gcpPatch" /\ Prefer(r)
    BY <2>2 DEF PatchPreference, PatchIsLost
  <2>4. preference'.by = r /\ preference'.value = cmd[r].value
    BY <1>1, <2>3, PreferType DEF QuotaInv
  <2>5. preference = seen[r].preference => ~Pending(preference, cmd[r].value)
    BY <1>1, <2>3 DEF QuotaInv, AskInv
  <2> QED BY <2>4, <2>5 DEF Pending
<1>2. QuotaInv /\ [Next]_vars => [Replaced]_vars
  BY <1>1
<1> QED BY <1>2, QuotaCorrect, PTL DEF Spec, PendingIsKept
=============================================================================
