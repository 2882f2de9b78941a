--------------------------- MODULE QuotaRequests ---------------------------
(***************************************************************************)
(* Quota requests from Slack (slack.py handle, cloud_quotas.py).  Every    *)
(* Slack event has a thread of its own: it passes the gate of handle and   *)
(* then reads the state of the provider and writes to it, in separate      *)
(* calls, while other threads do the same and the provider decides on what *)
(* it has.  A call may fail, and what failed may have been done.           *)
(*                                                                         *)
(* One AWS quota and one GCP preference are modelled: requests for others  *)
(* share nothing with them.  The providers are external; AWS is modelled   *)
(* as accepting a second request for a quota, which is the harder case.    *)
(***************************************************************************)
EXTENDS Naturals, Sequences

CONSTANTS Requests,       \* the Slack messages, each with its thread
          Commands,       \* what they may say
          FirstQuota,     \* the AWS quota at the start
          MaxFaults       \* bound: calls whose answer is lost, crashes

ASSUME QuotaAssumption ==
    /\ FirstQuota \in Nat /\ MaxFaults \in Nat
    /\ \A c \in Commands : c.value \in Nat

VARIABLES
    enabled,       \* SLACK_QUOTA_REQUESTS_ENABLED: is there a quota_manager
    cmd,           \* cmd[r]: what message r says
    pc,            \* pc[r]: the call its thread makes next
    answer,        \* answer[r]: what Slack has been told
    awsQuota,      \* the value of the AWS quota
    awsRequests,   \* the increases asked of AWS: [value, open, by]
    preference,    \* the GCP preference; revision 0 is none at all
    preferred,     \* preferred[n]: the value of revision n of it (history)
    seen,          \* seen[r]: the providers as they were when r began (history)
    landed,        \* the messages that have changed a provider (history)
    lost,          \* those whose call did so and whose answer was lost (history)
    faults

providers == <<awsQuota, awsRequests, preference, preferred>>
vars == <<enabled, cmd, pc, answer, providers, seen, landed, lost, faults>>

NoCommand == [provider |-> "none", value |-> 0, operator |-> FALSE,
              confirmed |-> FALSE, region |-> FALSE]
NoOne     == "nobody"
Labels    == {"new", "awsQuota", "awsHistory", "awsSubmit", "gcpGet", "gcpPatch", "done"}
Answers   == {"none", "refused", "alreadyHigh", "pending", "submitted", "rejected"}
Increase   == [value : Nat \ {0}, open : BOOLEAN, by : Requests]
Preference == [value : Nat, reconciling : BOOLEAN, revision : Nat,
               by : Requests \cup {NoOne}]

Open(requests) == {i \in DOMAIN requests : requests[i].open}
Snapshot == [quota |-> awsQuota, open |-> Open(awsRequests),
             count |-> Len(awsRequests), preference |-> preference]

Init ==
    /\ enabled \in BOOLEAN
    /\ cmd = [r \in Requests |-> NoCommand]
    /\ pc = [r \in Requests |-> "new"]
    /\ answer = [r \in Requests |-> "none"]
    /\ awsQuota = FirstQuota /\ awsRequests = <<>>
    /\ preference = [value |-> 0, reconciling |-> FALSE, revision |-> 0, by |-> NoOne]
    /\ preferred = <<>> /\ seen = [r \in Requests |-> Snapshot]
    /\ landed = {} /\ lost = {} /\ faults = 0

(***************************************************************************)
(* The gate of handle, up to quota_manager.request.                        *)
(***************************************************************************)
\* parse_quota_command: a provider and a positive value.
Parses(c) == c.provider \in {"aws", "gcp"} /\ c.value > 0

\* Mutant: handle does not ask for the final word.
PassesUnconfirmed(c) == Parses(c) /\ c.operator /\ enabled

\* operator: the channel is enabled and the user is in the allow-list, which
\* must not be empty.
Passes(c) == Parses(c) /\ c.operator /\ c.confirmed /\ enabled

\* The first call of request: _request_aws refuses without a region.
FirstCall(c) ==
    IF c.provider = "gcp" THEN "gcpGet"
    ELSE IF c.region THEN "awsQuota" ELSE "done"

Handle(r) ==
    /\ pc[r] = "new"
    /\ \E c \in Commands :
          /\ cmd' = [cmd EXCEPT ![r] = c]
          /\ pc' = [pc EXCEPT ![r] = IF Passes(c) THEN FirstCall(c) ELSE "done"]
          /\ answer' = [answer EXCEPT ![r] =
                IF ~Passes(c) \/ FirstCall(c) = "done" THEN "refused" ELSE "none"]
    /\ seen' = [seen EXCEPT ![r] = Snapshot]
    /\ UNCHANGED <<enabled, providers, landed, lost, faults>>

(***************************************************************************)
(* The calls.                                                              *)
(***************************************************************************)
Goto(r, label) == pc' = [pc EXCEPT ![r] = label] /\ UNCHANGED answer

Say(r, what) ==
    /\ pc' = [pc EXCEPT ![r] = "done"]
    /\ answer' = [answer EXCEPT ![r] = what]

\* Any call raises: QuotaError, and the message of the provider.
CallFails(r) ==
    /\ pc[r] \notin {"new", "done"}
    /\ Say(r, "rejected")
    /\ UNCHANGED <<enabled, cmd, providers, seen, landed, lost, faults>>

GetQuota(r) ==
    /\ pc[r] = "awsQuota"
    /\ IF cmd[r].value <= awsQuota THEN Say(r, "alreadyHigh")
                                    ELSE Goto(r, "awsHistory")
    /\ UNCHANGED <<enabled, cmd, providers, seen, landed, lost, faults>>

\* Mutant: a request for exactly this value is not recognised.
CoversMore(increase, v) == increase.open /\ increase.value > v

\* Status PENDING or CASE_OPENED, and DesiredValue high enough.
Covers(increase, v) == increase.open /\ increase.value >= v

ListHistory(r) ==
    /\ pc[r] = "awsHistory"
    /\ IF \E i \in DOMAIN awsRequests : Covers(awsRequests[i], cmd[r].value)
          THEN Say(r, "pending") ELSE Goto(r, "awsSubmit")
    /\ UNCHANGED <<enabled, cmd, providers, seen, landed, lost, faults>>

File(r) ==
    /\ awsRequests' = Append(awsRequests, [value |-> cmd[r].value, open |-> TRUE, by |-> r])
    /\ landed' = landed \cup {r}
    /\ UNCHANGED <<awsQuota, preference, preferred>>

RequestIncrease(r) ==
    /\ pc[r] = "awsSubmit"
    /\ File(r) /\ Say(r, "submitted")
    /\ UNCHANGED <<enabled, cmd, seen, lost, faults>>

\* The answer is lost: boto3 tries again, or gives up.
RequestIsLost(r) ==
    /\ pc[r] = "awsSubmit" /\ faults < MaxFaults
    /\ File(r)
    /\ Say(r, "rejected") \/ Goto(r, "awsSubmit")
    /\ lost' = lost \cup {r} /\ faults' = faults + 1
    /\ UNCHANGED <<enabled, cmd, seen>>

\* Mutants: a preference that is reconciling counts only if it is higher; it
\* counts whatever it asks for.
PendingAbove(p, v)    == p.reconciling /\ p.value > v
PendingWhatever(p, v) == p.reconciling

Pending(p, v) == p.reconciling /\ p.value >= v

\* 200 or 404; a preference that is pending is left alone.
GetPreference(r) ==
    /\ pc[r] = "gcpGet"
    /\ IF Pending(preference, cmd[r].value) THEN Say(r, "pending")
                                            ELSE Goto(r, "gcpPatch")
    /\ UNCHANGED <<enabled, cmd, providers, seen, landed, lost, faults>>

\* patch with allowMissing: the preferred value becomes the command's.
Prefer(r) ==
    /\ preference' = [value |-> cmd[r].value, reconciling |-> TRUE,
                      revision |-> preference.revision + 1, by |-> r]
    /\ preferred' = Append(preferred, cmd[r].value)
    /\ landed' = landed \cup {r}
    /\ UNCHANGED <<awsQuota, awsRequests>>

PatchPreference(r) ==
    /\ pc[r] = "gcpPatch"
    /\ Prefer(r) /\ Say(r, "submitted")
    /\ UNCHANGED <<enabled, cmd, seen, lost, faults>>

PatchIsLost(r) ==
    /\ pc[r] = "gcpPatch" /\ faults < MaxFaults
    /\ Prefer(r) /\ Say(r, "rejected")
    /\ lost' = lost \cup {r} /\ faults' = faults + 1
    /\ UNCHANGED <<enabled, cmd, seen>>

\* The Slack pod ends: the threads under way are gone, unanswered.
Crash ==
    /\ faults < MaxFaults /\ \E r \in Requests : pc[r] \notin {"new", "done"}
    /\ pc' = [r \in Requests |-> IF pc[r] = "new" THEN "new" ELSE "done"]
    /\ faults' = faults + 1
    /\ UNCHANGED <<enabled, cmd, answer, providers, seen, landed, lost>>

(***************************************************************************)
(* The providers decide.                                                   *)
(***************************************************************************)
AwsDecides(i) ==
    /\ awsRequests[i].open
    /\ awsRequests' = [awsRequests EXCEPT ![i].open = FALSE]
    /\ awsQuota' \in {awsQuota, IF awsRequests[i].value > awsQuota
                                   THEN awsRequests[i].value ELSE awsQuota}
    /\ UNCHANGED <<enabled, cmd, pc, answer, preference, preferred, seen, landed, lost, faults>>

GcpSettles ==
    /\ preference.reconciling
    /\ preference' = [preference EXCEPT !.reconciling = FALSE]
    /\ UNCHANGED <<enabled, cmd, pc, answer, awsQuota, awsRequests, preferred, seen, landed,
                   lost, faults>>

RequestAws(r) == \/ GetQuota(r) \/ ListHistory(r) \/ RequestIncrease(r) \/ RequestIsLost(r)

RequestGcp(r) == GetPreference(r) \/ PatchPreference(r) \/ PatchIsLost(r)

Next == \/ \E r \in Requests : Handle(r) \/ RequestAws(r) \/ RequestGcp(r) \/ CallFails(r)
        \/ \E i \in DOMAIN awsRequests : AwsDecides(i)
        \/ GcpSettles \/ Crash

Spec == Init /\ [][Next]_vars

-----------------------------------------------------------------------------
\* Every variable keeps its type; what a provider is asked for is never zero.
TypeOK ==
    /\ enabled \in BOOLEAN
    /\ cmd \in [Requests -> Commands \cup {NoCommand}]
    /\ pc \in [Requests -> Labels] /\ answer \in [Requests -> Answers]
    /\ awsQuota \in Nat /\ awsQuota >= FirstQuota
    /\ awsRequests \in Seq(Increase) /\ preference \in Preference
    /\ preference.value = 0 <=> preference.revision = 0
    /\ preferred \in Seq(Nat) /\ Len(preferred) = preference.revision
    /\ seen \in [Requests -> [quota : Nat, open : SUBSET Nat, count : Nat,
                              preference : Preference]]
    /\ landed \subseteq Requests /\ lost \subseteq Requests /\ faults \in 0..MaxFaults

\* What reaches a provider was confirmed by an allowed user of a deployment that
\* has quota requests enabled (README: "Every quota request requires an
\* allowlisted user and the final word `confirm`").
OnlyConfirmedLand ==
    \A r \in landed : enabled /\ cmd[r].operator /\ cmd[r].confirmed

\* Nothing is asked of AWS twice: what a message files is not covered by a request
\* that was open when the message came and still is, nor by the quota of then.
\* So an operator may repeat a command whose answer was lost.  (Two messages
\* that overlap are both filed: the history is read before the request is made.)
NotAskedTwice ==
    [][ Len(awsRequests') > Len(awsRequests) =>
          LET filed == awsRequests'[Len(awsRequests')]
          IN  /\ filed.value > seen[filed.by].quota
              /\ \A i \in seen[filed.by].open :
                    awsRequests[i].open => awsRequests[i].value < filed.value ]_vars

\* A pending preference is not replaced by one it covers, unless it was made
\* after the message came that replaces it.
PendingIsKept ==
    [][ preference'.revision > preference.revision =>
          LET r == preference'.by
          IN  preference = seen[r].preference =>
                 ~(preference.reconciling /\ preference.value >= preference'.value) ]_vars

\* What Slack may be told of a request for the value v.
PendingAtAws(r, v) ==
    \E i \in DOMAIN awsRequests :
        awsRequests[i].value >= v /\ (i \in seen[r].open \/ i > seen[r].count)

PendingAtGcp(r, v) ==
    LET before == seen[r].preference
    IN  \/ before.reconciling /\ before.value >= v
        \/ \E n \in (before.revision + 1)..preference.revision : preferred[n] >= v

\* Slack is told the truth, however the messages overlap: "submitted" only of what
\* the provider has got; "already" only of a quota that is as high; "pending" only
\* when a request for as much was pending when the message came or was made since;
\* a refusal, "already" or "pending" never of a request that was filed; and "rejected"
\* of a filed one only when the provider's answer was lost.
AnswersAreTrue ==
    \A r \in Requests :
        LET v == cmd[r].value
        IN  /\ answer[r] = "submitted" => r \in landed
            /\ answer[r] = "alreadyHigh" => v <= awsQuota
            /\ answer[r] = "pending" /\ cmd[r].provider = "aws" => PendingAtAws(r, v)
            /\ answer[r] = "pending" /\ cmd[r].provider = "gcp" => PendingAtGcp(r, v)
            /\ answer[r] \in {"refused", "alreadyHigh", "pending"} => r \notin landed
            /\ answer[r] = "rejected" /\ r \in landed => r \in lost
=============================================================================
