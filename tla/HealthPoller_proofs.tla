-------------------------- MODULE HealthPoller_proofs --------------------------
(***************************************************************************)
(* The plugin registry under the health poller, for any number of files,   *)
(* programs and overlapping reloads.  An entry's "of" is what its file was *)
(* at each command it was run with; Sound says what its status tells of    *)
(* that, of the entries of the map and of those a reload is still making.  *)
(***************************************************************************)
EXTENDS HealthPoller, TLAPS

\* An entry that can be used, or soon will be, was good at each step.
Sound(e) == e.status \in {"loading", "ready"} => e.of # {} /\ e.of \subseteq Good

\* A reload that is not cancelled disables no plugin that was good at each step.
Fair(e) == e.of # {} /\ e.of \subseteq Good => e.status \in {"loading", "ready"}

RegistryInv ==
    /\ PluginTypeOK
    /\ \A p \in Plugins : Sound(plugins[p])
    /\ \A r \in Reloaders, p \in Plugins :
          /\ Sound(reload[r].next[p])
          /\ reload[r].cancelled \/ Fair(reload[r].next[p])

HealthTypeOK ==
    /\ status \in [Names -> Statuses]
    /\ probe \in [Names -> Outcomes]
    /\ cache \in [Names -> HealthEntry]
    /\ poll \in Poll

-----------------------------------------------------------------------------
(* The registry *)

LEMMA EmptyTypes ==
  /\ NoEntry \in Entry /\ Sound(NoEntry) /\ Fair(NoEntry)
  /\ Empty \in Registry /\ NoReload \in Reload
  /\ \A p \in Plugins : Empty[p] = NoEntry
  /\ NoReload.next = Empty /\ NoReload.at = "idle"
<1>1. NoEntry \in Entry /\ Sound(NoEntry) /\ Fair(NoEntry)
  BY DEF NoEntry, Entry, Sound, Fair
<1>2. Empty \in Registry /\ \A p \in Plugins : Empty[p] = NoEntry
  BY <1>1 DEF Empty, Registry
<1>3. NoReload \in Reload /\ NoReload.next = Empty /\ NoReload.at = "idle"
  BY <1>2 DEF NoReload, Reload
<1> QED
  BY <1>1, <1>2, <1>3

LEMMA RegistryInit == PluginInit => RegistryInv
BY EmptyTypes DEF PluginInit, RegistryInv, PluginTypeOK

\* A step of one reload, which leaves the map alone.
LEMMA OneReload ==
  ASSUME RegistryInv, UNCHANGED <<disk, plugins>>, NEW r \in Reloaders, NEW v \in Reload,
         reload' = [reload EXCEPT ![r] = v],
         \A p \in Plugins : Sound(v.next[p]) /\ (v.cancelled \/ Fair(v.next[p]))
  PROVE  RegistryInv'
<1>1. PluginTypeOK'
  BY DEF RegistryInv, PluginTypeOK
<1>2. \A q \in Reloaders : reload'[q] = IF q = r THEN v ELSE reload[q]
  BY DEF RegistryInv, PluginTypeOK
<1> QED
  BY <1>1, <1>2 DEF RegistryInv

\* A command that loads one plugin: the entry it makes says what it found.
LEMMA OneEntry ==
  ASSUME RegistryInv, UNCHANGED <<disk, plugins>>, NEW r \in Reloaders, NEW p \in Plugins,
         NEW todo \in SUBSET Plugins, NEW e \in Entry, Sound(e), reload[r].cancelled \/ Fair(e),
         reload' = [reload EXCEPT ![r] = [reload[r] EXCEPT !.todo = todo,
                                                          !.next = [@ EXCEPT ![p] = e]]]
  PROVE  RegistryInv'
<1>1. reload[r] \in Reload /\ reload[r].next \in Registry
  BY DEF RegistryInv, PluginTypeOK, Reload
<1> DEFINE next == [reload[r].next EXCEPT ![p] = e]
           v == [reload[r] EXCEPT !.todo = todo, !.next = next]
<1>2. next \in Registry /\ \A q \in Plugins : next[q] = IF q = p THEN e ELSE reload[r].next[q]
  BY <1>1 DEF Registry
<1> HIDE DEF next
<1>3. v \in Reload /\ v.next = next /\ v.cancelled = reload[r].cancelled
  BY <1>1, <1>2 DEF Reload
<1>4. reload' = [reload EXCEPT ![r] = v]
  BY DEF next
<1> HIDE DEF v
<1>5. \A q \in Plugins : Sound(v.next[q]) /\ (v.cancelled \/ Fair(v.next[q]))
  BY <1>2, <1>3 DEF RegistryInv
<1> QED
  BY <1>3, <1>4, <1>5, OneReload

\* The schema makes an entry of what the file is now.
LEMMA SchemaStep ==
  ASSUME RegistryInv, NEW r \in Reloaders, NEW p \in Plugins, RunSchema(r, p)
  PROVE  RegistryInv'
<1> DEFINE new == [status |-> IF Runs(r, p) THEN "loading" ELSE "disabled", of |-> {disk[p]}]
<1>1. disk[p] \in Programs /\ reload[r] \in Reload
  BY DEF RegistryInv, PluginTypeOK
<1>2. PICK e \in {new} \cup (IF disk[p] = "absent" THEN {NoEntry} ELSE {}) :
         reload' = [reload EXCEPT ![r].todo = @ \ {p}, ![r].next[p] = e]
  BY DEF RunSchema
<1>3. new \in Entry /\ Sound(new) /\ (reload[r].cancelled \/ Fair(new))
  BY <1>1 DEF Entry, Sound, Fair, Runs
<1>4. e \in Entry /\ Sound(e) /\ (reload[r].cancelled \/ Fair(e))
  BY <1>2, <1>3, EmptyTypes
<1>5. UNCHANGED <<disk, plugins>> /\ reload[r].todo \ {p} \in SUBSET Plugins
  BY <1>1 DEF RunSchema, Reload
<1>6. reload' = [reload EXCEPT ![r] = [reload[r] EXCEPT !.todo = reload[r].todo \ {p},
                                                        !.next = [@ EXCEPT ![p] = e]]]
  BY <1>2
<1> HIDE DEF new
<1> QED
  BY <1>4, <1>5, <1>6, OneEntry

\* ... and init adds what it is by then.
LEMMA InitStep ==
  ASSUME RegistryInv, NEW r \in Reloaders, NEW p \in Plugins, RunInit(r, p)
  PROVE  RegistryInv'
<1> DEFINE old == reload[r].next[p]
           e == [status |-> IF Runs(r, p) THEN "ready" ELSE "disabled", of |-> old.of \cup {disk[p]}]
<1>1. disk[p] \in Programs /\ reload[r] \in Reload /\ old \in Entry /\ Sound(old)
  BY DEF RegistryInv, PluginTypeOK, Reload, Registry
<1>2. old.status = "loading" /\ UNCHANGED <<disk, plugins>>
  BY DEF RunInit, Loading
<1>3. e \in Entry /\ Sound(e) /\ (reload[r].cancelled \/ Fair(e))
  BY <1>1, <1>2 DEF Entry, Sound, Fair, Runs
<1>4. reload' = [reload EXCEPT ![r] = [reload[r] EXCEPT !.todo = reload[r].todo,
                                                        !.next = [@ EXCEPT ![p] = e]]]
  BY <1>1 DEF RunInit, Reload
<1>5. reload[r].todo \in SUBSET Plugins
  BY <1>1 DEF Reload
<1> HIDE DEF e
<1> QED
  BY <1>2, <1>3, <1>4, <1>5, OneEntry

LEMMA RegistryStep ==
  ASSUME RegistryInv, [PluginNext]_pluginVars
  PROVE  RegistryInv'
<1>1. ASSUME NEW r \in Reloaders, Discover(r)
      PROVE  RegistryInv'
  <2> DEFINE todo == {p \in Plugins : disk[p] # "absent"}
             v == [NoReload EXCEPT !.at = "scan", !.todo = todo]
  <2>1. reload' = [reload EXCEPT ![r] = v] /\ UNCHANGED <<disk, plugins>>
    BY <1>1 DEF Discover
  <2>2. v \in Reload /\ v.next = Empty
    BY EmptyTypes DEF Reload
  <2> HIDE DEF v
  <2> QED
    BY <2>1, <2>2, EmptyTypes, OneReload
<1>2. ASSUME NEW r \in Reloaders, Cancel(r)
      PROVE  RegistryInv'
  <2> DEFINE v == [reload[r] EXCEPT !.cancelled = TRUE]
  <2>1. reload' = [reload EXCEPT ![r] = v] /\ UNCHANGED <<disk, plugins>>
    BY <1>2 DEF Cancel
  <2>2. v \in Reload /\ v.next = reload[r].next /\ v.cancelled
    BY DEF RegistryInv, PluginTypeOK, Reload
  <2> HIDE DEF v
  <2> QED
    BY <2>1, <2>2, OneReload DEF RegistryInv
<1>3. ASSUME NEW r \in Reloaders, Install(r)
      PROVE  RegistryInv'
  <2>1. plugins' = reload[r].next /\ reload' = [reload EXCEPT ![r] = NoReload] /\ UNCHANGED disk
    BY <1>3 DEF Install
  <2>2. reload[r].next \in Registry
    BY DEF RegistryInv, PluginTypeOK, Reload
  <2>3. \A q \in Reloaders : reload'[q] = IF q = r THEN NoReload ELSE reload[q]
    BY <2>1 DEF RegistryInv, PluginTypeOK
  <2>4. PluginTypeOK'
    BY <2>1, <2>2, EmptyTypes DEF RegistryInv, PluginTypeOK
  <2> QED
    BY <2>1, <2>3, <2>4, EmptyTypes DEF RegistryInv
<1>4. ASSUME NEW p \in Plugins, ChangeFile(p)
      PROVE  RegistryInv'
  BY <1>4 DEF ChangeFile, RegistryInv, PluginTypeOK
<1>5. CASE UNCHANGED pluginVars
  BY <1>5 DEF pluginVars, RegistryInv, PluginTypeOK
<1> QED
  BY <1>1, <1>2, <1>3, <1>4, <1>5, SchemaStep, InitStep DEF PluginNext, PluginStep

\* Only Install writes the map, and what it installs of a plugin that was good
\* all the time it can use.
LEMMA InstallKeepsReady ==
  ASSUME RegistryInv, [PluginNext]_pluginVars, NEW p \in Plugins,
         Ready(p), plugins[p].of = {disk[p]}, UNCHANGED disk,
         \A r \in Reloaders : ~Misinformed(r, p)
  PROVE  Ready(p)'
<1>1. ASSUME NEW r \in Reloaders, Install(r)
      PROVE  Ready(p)'
  <2>1. {disk[p]} \subseteq Good
    BY DEF RegistryInv, Sound, Ready
  <2>2. reload[r].at = "scan" /\ p \notin reload[r].todo /\ plugins' = reload[r].next
    BY <1>1 DEF Install
  <2>3. ~reload[r].cancelled /\ reload[r].next[p].of = {disk[p]}
    BY <2>2 DEF Misinformed
  <2>4. reload[r].next[p].status \in {"loading", "ready"}
    BY <2>1, <2>3 DEF RegistryInv, Fair
  <2>5. reload[r].next[p].status # "loading"
    BY <1>1 DEF Install, Loading
  <2> QED
    BY <2>2, <2>4, <2>5 DEF Ready
<1>2. CASE UNCHANGED plugins
  BY <1>2 DEF Ready
<1>3. UNCHANGED plugins \/ \E r \in Reloaders : Install(r)
  BY DEF PluginNext, PluginStep, Discover, Cancel, RunSchema, RunInit, ChangeFile, pluginVars
<1> QED
  BY <1>1, <1>2, <1>3

-----------------------------------------------------------------------------
(* The poller *)

LEMMA RegistryMoves == [Next]_vars => [PluginNext]_pluginVars
BY DEF Next, vars, pluginVars, PollStep, List, SkipStopped, CallHealth, Record, Finish,
       ChangeStatus, ChangeHealth

LEMMA HealthyType == ASSUME NEW n PROVE Healthy(n) \in BOOLEAN
BY DEF Healthy

\* The count of failures stays within its type: it saturates.
LEMMA NotedType ==
  ASSUME NEW e \in HealthEntry, NEW answer \in BOOLEAN
  PROVE  Noted(e, answer) \in HealthEntry
<1> DEFINE fails == IF answer THEN 0 ELSE IF e.fails = Threshold THEN Threshold ELSE e.fails + 1
<1>1. e.fails \in 0 .. Threshold
  BY DEF HealthEntry
<1>2. fails \in 0 .. Threshold
  BY <1>1, ThresholdAssumption
<1>3. (fails < Threshold) \in BOOLEAN
  OBVIOUS
<1> HIDE DEF fails
<1> QED
  BY <1>2, <1>3 DEF Noted, HealthEntry, fails

LEMMA PollerInit == Init => HealthTypeOK
<1>1. NoHealth \in HealthEntry
  BY ThresholdAssumption DEF NoHealth, HealthEntry
<1>2. NoPoll \in Poll
  <2>1. [n \in Names |-> "absent"] \in [Names -> Statuses]
    BY DEF Statuses
  <2> QED
    BY <2>1 DEF NoPoll, Poll
<1> QED
  BY <1>1, <1>2 DEF Init, HealthTypeOK, Statuses, Outcomes

LEMMA PollerStep ==
  ASSUME HealthTypeOK, [Next]_vars
  PROVE  HealthTypeOK'
<1>1. NoHealth \in HealthEntry /\ NoPoll \in Poll
  <2>1. [n \in Names |-> "absent"] \in [Names -> Statuses]
    BY DEF Statuses
  <2> QED
    BY <2>1, ThresholdAssumption DEF NoHealth, HealthEntry, NoPoll, Poll
<1>2. poll \in Poll /\ poll.todo \subseteq Names /\ status \in [Names -> Statuses]
  BY DEF HealthTypeOK, Poll
<1>3. CASE List
  <2>1. {n \in Names : status[n] # "absent"} \in SUBSET Names
    OBVIOUS
  <2>2. poll' \in Poll
    BY <1>1, <1>2, <1>3, <2>1 DEF List, Poll
  <2> QED
    BY <1>3, <2>2 DEF List, HealthTypeOK
<1>4. ASSUME NEW n \in Names, SkipStopped(n)
      PROVE  HealthTypeOK'
  <2>1. poll' \in Poll
    BY <1>2, <1>4 DEF SkipStopped, Poll
  <2> QED
    BY <1>1, <1>4, <2>1 DEF SkipStopped, HealthTypeOK
<1>5. ASSUME NEW n \in Names, CallHealth(n)
      PROVE  HealthTypeOK'
  <2>1. poll' \in Poll
    BY <1>2, <1>5, HealthyType DEF CallHealth, Poll
  <2> QED
    BY <1>5, <2>1 DEF CallHealth, HealthTypeOK
<1>6. CASE Record
  <2>1. poll' \in Poll
    BY <1>2, <1>6 DEF Record, Poll
  <2>2. poll.answer \in BOOLEAN
    BY <1>2 DEF Poll
  <2>3. cache' \in [Names -> HealthEntry]
    BY <1>6, <2>2, NotedType DEF Record, HealthTypeOK
  <2> QED
    BY <1>6, <2>1, <2>3 DEF Record, HealthTypeOK
<1>7. CASE Finish
  BY <1>1, <1>7 DEF Finish, HealthTypeOK
<1>8. ASSUME NEW n \in Names, ChangeStatus(n)
      PROVE  HealthTypeOK'
  BY <1>8 DEF ChangeStatus, HealthTypeOK
<1>9. ASSUME NEW n \in Names, ChangeHealth(n)
      PROVE  HealthTypeOK'
  BY <1>9 DEF ChangeHealth, HealthTypeOK
<1>10. CASE UNCHANGED <<status, probe, cache, poll>>
  BY <1>10 DEF HealthTypeOK
<1>11. CASE UNCHANGED vars
  BY <1>11 DEF vars, HealthTypeOK
<1> QED
  BY <1>3, <1>4, <1>5, <1>6, <1>7, <1>8, <1>9, <1>10, <1>11 DEF Next, PollStep

LEMMA RegistryInvariance == Spec => []RegistryInv
<1>1. Init => RegistryInv
  BY RegistryInit DEF Init
<1>2. RegistryInv /\ [Next]_vars => RegistryInv'
  BY RegistryStep, RegistryMoves
<1> QED
  BY <1>1, <1>2, PTL DEF Spec

\* Every variable keeps its type: the poller's count of failures (Record)
\* stays within its bound for every threshold and however many polls fail.
THEOREM TypeCorrect == Spec => []TypeOK
<1>1. HealthTypeOK /\ [Next]_vars => HealthTypeOK'
  BY PollerStep
<1>2. RegistryInv /\ HealthTypeOK => TypeOK
  BY DEF RegistryInv, HealthTypeOK, TypeOK
<1> QED
  BY <1>1, <1>2, PollerInit, RegistryInvariance, PTL DEF Spec

\* A plugin the daemon runs commands with has answered schema and init with
\* a good program each (loadOne), for any number of reloads that overlap, are
\* cancelled, and find the file changed between the two commands.
THEOREM UsableMeansGood == Spec => []ReadyIsGood
<1>1. RegistryInv => ReadyIsGood
  BY DEF RegistryInv, Sound, ReadyIsGood, Ready
<1> QED
  BY <1>1, RegistryInvariance, PTL

\* A good plugin whose file is left alone never drops out of the map while
\* any number of reloads run and install their results one over the other
\* (Discover replaces the map as a whole): only one that was cancelled, or has
\* read another version of the file, may take it away.
THEOREM ReloadsKeepGoodPlugins == Spec => GoodStaysReady
<1>1. RegistryInv /\ [Next]_vars =>
        [\A p \in Plugins :
            /\ Ready(p) /\ plugins[p].of = {disk[p]} /\ UNCHANGED disk
            /\ \A r \in Reloaders : ~Misinformed(r, p)
            => Ready(p)']_pluginVars
  BY RegistryMoves, InstallKeepsReady
<1> QED
  BY <1>1, RegistryInvariance, PTL DEF Spec, GoodStaysReady
=============================================================================
