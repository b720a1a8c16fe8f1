----------------------------- MODULE HealthPoller -----------------------------
(***************************************************************************)
(* The workload health poller (internal/instance/health.go): one goroutine *)
(* that lists the instances, asks the plugin of every running one and      *)
(* keeps the answers in a cache the API reads.  Instances come and go, and *)
(* the plugin registry changes, while a poll waits for an answer.  The     *)
(* lifecycle itself is InstanceManager's; every instance here has a        *)
(* workload.                                                               *)
(***************************************************************************)
EXTENDS PluginManager, Naturals

CONSTANTS
    Names,
    PluginOf,    \* WorkloadPlugin of every instance
    Threshold,   \* health_failure_threshold
    None

ASSUME ThresholdAssumption == Threshold \in Nat \ {0}
ASSUME PluginOfAssumption == PluginOf \in [Names -> Plugins]
ASSUME NoneAssumption == None \notin Names

VARIABLES
    status,   \* status of every instance as List reports it
    probe,    \* what the plugin's health handler finds of its workload
    cache,    \* HealthCache.entries
    poll      \* the poll in progress

vars == <<disk, plugins, reload, status, probe, cache, poll>>

Statuses == {"absent", "stopped", "running"}

\* The handler returns a response or an error; one that is killed at its
\* timeout counts with the latter.
Outcomes == {"healthy", "unhealthy", "fails"}

\* A HealthEntry.  ConsecutiveFails saturates at Threshold: nothing compares it
\* with anything else.
HealthEntry == [cached : BOOLEAN, fails : 0 .. Threshold, healthy : BOOLEAN]
NoHealth == [cached |-> FALSE, fails |-> 0, healthy |-> FALSE]

Poll == [at : {"idle", "loop", "answer"}, listed : [Names -> Statuses],
         todo : SUBSET Names, name : Names \cup {None}, answer : BOOLEAN]
NoPoll == [at |-> "idle", listed |-> [n \in Names |-> "absent"],
           todo |-> {}, name |-> None, answer |-> FALSE]

Init ==
    /\ PluginInit
    /\ status = [n \in Names |-> "absent"]
    /\ probe = [n \in Names |-> "unhealthy"]
    /\ cache = [n \in Names |-> NoHealth]
    /\ poll = NoPoll

-----------------------------------------------------------------------------
(* The answer to one health command *)

\* The SDK's runHealth: the body and the exit code.
RunHealth(outcome) ==
    [healthy |-> outcome = "healthy", exit |-> IF outcome = "fails" THEN 1 ELSE 0]

\* Manager.Run: the bodies it parses, none of a plugin that cannot be used and
\* none of a command that failed.  The workload of an instance that is not up
\* is not healthy.
Run(n) ==
    LET outcome == IF status[n] = "running" THEN probe[n] ELSE "unhealthy" IN
    {resp \in {RunHealth(outcome)} : Ready(PluginOf[n]) /\ resp.exit = 0}

\* CallHealth: no body counts as unhealthy.
Healthy(n) == \E resp \in Run(n) : resp.healthy

\* What the API says (getWorkloadHealth): the cached entry if there is one.
GetWorkloadHealth(n, fresh) ==
    IF ~fresh /\ cache[n].cached THEN cache[n].healthy ELSE Healthy(n)

-----------------------------------------------------------------------------
(* poll and pollOne *)

List ==
    /\ poll.at = "idle"
    /\ poll' = [NoPoll EXCEPT !.at = "loop", !.listed = status,
                              !.todo = {n \in Names : status[n] # "absent"}]
    /\ UNCHANGED <<pluginVars, status, probe, cache>>

SkipStopped(n) ==
    /\ poll.at = "loop" /\ n \in poll.todo /\ poll.listed[n] # "running"
    /\ cache' = [cache EXCEPT ![n] = NoHealth]
    /\ poll' = [poll EXCEPT !.todo = @ \ {n}]
    /\ UNCHANGED <<pluginVars, status, probe>>

CallHealth(n) ==
    /\ poll.at = "loop" /\ n \in poll.todo /\ poll.listed[n] = "running"
    /\ poll' = [poll EXCEPT !.at = "answer", !.name = n, !.todo = @ \ {n},
                            !.answer = Healthy(n)]
    /\ UNCHANGED <<pluginVars, status, probe, cache>>

\* Mutant: the failures before this poll are forgotten.
ForgetfulNoted(e, answer) ==
    LET fails == IF answer THEN 0 ELSE 1 IN
    [cached |-> TRUE, fails |-> fails, healthy |-> fails < Threshold]

\* Mutant: a healthy answer does not reset the count.
StickyNoted(e, answer) ==
    LET fails == IF answer \/ e.fails = Threshold THEN e.fails ELSE e.fails + 1 IN
    [cached |-> TRUE, fails |-> fails, healthy |-> fails < Threshold]

\* The entry after one more answer.
Noted(e, answer) ==
    LET fails == IF answer THEN 0 ELSE IF e.fails = Threshold THEN Threshold ELSE e.fails + 1 IN
    [cached |-> TRUE, fails |-> fails, healthy |-> fails < Threshold]

Record ==
    /\ poll.at = "answer"
    /\ cache' = [cache EXCEPT ![poll.name] = Noted(@, poll.answer)]
    /\ poll' = [poll EXCEPT !.at = "loop", !.name = None, !.answer = FALSE]
    /\ UNCHANGED <<pluginVars, status, probe>>

\* Mutant: entries of deleted instances are kept.
HoardingFinish ==
    /\ poll.at = "loop" /\ poll.todo = {}
    /\ poll' = NoPoll
    /\ UNCHANGED <<pluginVars, status, probe, cache>>

\* Entries of instances the list did not have are dropped; one that was
\* deleted during the poll is on the list.
Finish ==
    /\ poll.at = "loop" /\ poll.todo = {}
    /\ cache' = [n \in Names |-> IF poll.listed[n] = "absent" THEN NoHealth ELSE cache[n]]
    /\ poll' = NoPoll
    /\ UNCHANGED <<pluginVars, status, probe>>

PollStep == List \/ Record \/ Finish \/ \E n \in Names : SkipStopped(n) \/ CallHealth(n)

-----------------------------------------------------------------------------
(* The instances and their workloads *)

ChangeStatus(n) ==
    /\ \E s \in Statuses \ {status[n]} :
          /\ s = "stopped" => status[n] = "running"
          /\ status' = [status EXCEPT ![n] = s]
    /\ UNCHANGED <<pluginVars, probe, cache, poll>>

ChangeHealth(n) ==
    /\ \E outcome \in Outcomes \ {probe[n]} : probe' = [probe EXCEPT ![n] = outcome]
    /\ UNCHANGED <<pluginVars, status, cache, poll>>

Next ==
    \/ PollStep
    \/ \E n \in Names : ChangeStatus(n) \/ ChangeHealth(n)
    \/ PluginNext /\ UNCHANGED <<status, probe, cache, poll>>

Spec == Init /\ [][Next]_vars

\* The poller ticks, and its plugin commands have a timeout.
FairSpec == Spec /\ WF_vars(PollStep)

-----------------------------------------------------------------------------
(* Properties *)

TypeOK ==
    /\ PluginTypeOK
    /\ status \in [Names -> Statuses]
    /\ probe \in [Names -> Outcomes]
    /\ cache \in [Names -> HealthEntry]
    /\ poll \in Poll

\* The entry of an instance that stays deleted or stopped goes away, although
\* an answer that was on its way may have put it there after the fact.
StaleEntriesGo ==
    \A n \in Names :
        status[n] # "running" ~> ~cache[n].cached \/ status[n] = "running"

\* A workload that stays broken, or whose handler does, is reported in the end
\* and from then on, by a cached and by a fresh answer: the failures of
\* successive polls add up.
SicknessShows ==
    \A n \in Names :
        <>[](status[n] = "running" /\ probe[n] # "healthy") =>
            <>[](cache[n].cached /\ \A fresh \in BOOLEAN : ~GetWorkloadHealth(n, fresh))

\* A workload that stays well, under a plugin that stays usable, is reported
\* well in the end, whatever was counted against it before.
RecoveryShows ==
    \A n \in Names :
        <>[](status[n] = "running" /\ probe[n] = "healthy" /\ Ready(PluginOf[n])) =>
            <>[](cache[n].cached /\ \A fresh \in BOOLEAN : GetWorkloadHealth(n, fresh))
=============================================================================
