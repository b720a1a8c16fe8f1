---------------------------- MODULE PortForwarding ----------------------------
(***************************************************************************)
(* The port proxy (internal/proxy): a map of TCP listeners on the host,    *)
(* filled by scans of the containers' published ports.  Scans run in API   *)
(* requests (start, refresh), in the polling watcher and in one event      *)
(* listener per instance; they hold the map's mutex only while a single    *)
(* port is added, so scans of one instance overlap each other and the      *)
(* StopInstance of a stop.                                                 *)
(*                                                                         *)
(* Docker is external: which dockerds are up, and the ports their running  *)
(* containers publish.  The port dialled inside the namespace is the port  *)
(* docker published; the host port is the same one, or a free one the      *)
(* kernel picks when it is taken.                                          *)
(***************************************************************************)
EXTENDS Naturals, FiniteSets

CONSTANTS
    Names,        \* instances; also the names of their event listeners
    Ports,        \* ports containers publish
    HostPorts,    \* ports the host can listen on
    Taken,        \* host ports other processes hold
    Requests,     \* API request goroutines
    Watcher,      \* the polling watcher
    None,
    MaxFailures,  \* maxConsecutiveFailures of watchEvents
    MaxPublished  \* bound on the ports an instance publishes at a time

ASSUME PortsAssumption == Ports \cup Taken \subseteq HostPorts
ASSUME ScannersAssumption ==
    /\ Watcher \notin Names \cup Requests /\ Names \cap Requests = {}
    /\ None \notin Names \cup HostPorts
ASSUME FailuresAssumption == MaxFailures \in Nat /\ MaxPublished \in Nat

VARIABLES
    up,        \* instances whose dockerd is up
    pub,       \* the ports their containers publish
    fwd,       \* Manager.instances: the listeners of every instance
    late,      \* the ports cancelled event listeners are just adding
    scan,      \* the ScanAndForward calls in progress
    stopping,  \* the instance a request is stopping
    queue,     \* instances the watcher has still to look at in this tick
    seen,      \* the running instances syncWatchers has listed
    watch      \* EventListener.watchers and the state of each goroutine

vars == <<up, pub, fwd, late, scan, stopping, queue, seen, watch>>

Scanners == Requests \cup {Watcher} \cup Names

Listener == [host : HostPorts, dial : Ports]
Scan == [at : {"idle", "list", "inspect", "forward"}, name : Names \cup {None},
         todo : SUBSET Ports, port : Ports \cup {None}]
NoScan == [at |-> "idle", name |-> None, todo |-> {}, port |-> None]

\* A watchEvents goroutine: "connect" runs docker events, "broken" is a stream
\* that has been cut off, "dead" has given up; "none" is no map entry.
Watch == [st : {"none", "connect", "listening", "broken", "dead"},
          event : BOOLEAN, got : BOOLEAN, failures : 0 .. MaxFailures]
NoWatch == [st |-> "none", event |-> FALSE, got |-> FALSE, failures |-> 0]

Init ==
    /\ up = {} /\ pub = [n \in Names |-> {}] /\ fwd = [n \in Names |-> {}] /\ late = {}
    /\ scan = [s \in Scanners |-> NoScan]
    /\ stopping = [r \in Requests |-> None]
    /\ queue = {} /\ seen = None
    /\ watch = [n \in Names |-> NoWatch]

-----------------------------------------------------------------------------
(* The listeners *)

Bound == Taken \cup {l.host : l \in UNION {fwd[n] : n \in Names}}
Dials(n) == {l.dial : l \in fwd[n]}

Listen(n, p, hosts) ==
    \E h \in hosts : fwd' = [fwd EXCEPT ![n] = @ \cup {[host |-> h, dial |-> p]}]

\* Mutant: a listener that fell back to another host port is not recognised.
CarelessForward(n, p) ==
    LET free == HostPorts \ Bound
        known == \E l \in fwd[n] : l.host = p
    IN  IF known \/ free = {} THEN UNCHANGED fwd
        ELSE Listen(n, p, IF p \in free THEN {p} ELSE free)

\* ForwardWithMetadata with hostPort = dialPort = p: the same port on the host
\* if it can be had, else one the kernel picks; an error changes nothing.
Forward(n, p) ==
    LET free == HostPorts \ Bound
        known == \E l \in fwd[n] : l.host = p \/ l.dial = p
    IN  IF known \/ free = {} THEN UNCHANGED fwd
        ELSE Listen(n, p, IF p \in free THEN {p} ELSE free)

StopInstance(n) == fwd' = [fwd EXCEPT ![n] = {}]

-----------------------------------------------------------------------------
(* ScanAndForward *)

BeginScan(s, n) ==
    scan' = [scan EXCEPT ![s] = [NoScan EXCEPT !.at = "list", !.name = n]]

\* The rest of a scan, once the ports todo are left.
Continue(s, todo) ==
    scan' = [scan EXCEPT ![s] =
                IF todo = {} THEN NoScan
                ELSE [@ EXCEPT !.at = "inspect", !.todo = todo, !.port = None]]

\* docker ps; an error ends the scan without one.
ListContainers(s) ==
    /\ scan[s].at = "list"
    /\ Continue(s, IF scan[s].name \in up THEN pub[scan[s].name] ELSE {})
    /\ UNCHANGED <<up, pub, fwd, late, stopping, queue, seen, watch>>

\* docker inspect; a container that has gone is skipped.
Inspect(s) ==
    LET n == scan[s].name IN
    /\ scan[s].at = "inspect"
    /\ \E p \in scan[s].todo :
          IF n \in up /\ p \in pub[n]
          THEN scan' = [scan EXCEPT ![s].at = "forward", ![s].port = p, ![s].todo = @ \ {p}]
          ELSE Continue(s, scan[s].todo \ {p})
    /\ UNCHANGED <<up, pub, fwd, late, stopping, queue, seen, watch>>

ForwardPort(s) ==
    /\ scan[s].at = "forward"
    /\ Forward(scan[s].name, scan[s].port)
    /\ Continue(s, scan[s].todo)
    /\ UNCHANGED <<up, pub, late, stopping, queue, seen, watch>>

\* The request's context ends: its docker commands fail from then on.
CancelScan(r) ==
    /\ scan[r].at \in {"list", "inspect"}
    /\ scan' = [scan EXCEPT ![r] = NoScan]
    /\ UNCHANGED <<up, pub, fwd, late, stopping, queue, seen, watch>>

ScanStep(s) == ListContainers(s) \/ Inspect(s) \/ ForwardPort(s)

-----------------------------------------------------------------------------
(* API requests: start and stop as in InstanceManager, refresh.             *)

Free(r) == scan[r] = NoScan /\ stopping[r] = None

Start(r, n) ==
    /\ Free(r) /\ n \notin up
    /\ up' = up \cup {n}
    /\ BeginScan(r, n)
    /\ UNCHANGED <<pub, fwd, late, stopping, queue, seen, watch>>

RefreshPorts(r, n) ==
    /\ Free(r) /\ n \in up
    /\ StopInstance(n)
    /\ BeginScan(r, n)
    /\ UNCHANGED <<up, pub, late, stopping, queue, seen, watch>>

\* The forwards go first, then the dockerd, which takes its time.
StopForwards(r, n) ==
    /\ Free(r) /\ n \in up
    /\ StopInstance(n)
    /\ stopping' = [stopping EXCEPT ![r] = n]
    /\ UNCHANGED <<up, pub, late, scan, queue, seen, watch>>

\* A dockerd goes: its containers stop and its event stream breaks.
Down(n) ==
    /\ up' = up \ {n}
    /\ pub' = [pub EXCEPT ![n] = {}]
    /\ watch' = [watch EXCEPT ![n].st = IF @ = "listening" THEN "broken" ELSE @]

StopDockerd(r) ==
    /\ stopping[r] # None
    /\ Down(stopping[r])
    /\ stopping' = [stopping EXCEPT ![r] = None]
    /\ UNCHANGED <<fwd, late, scan, queue, seen>>

-----------------------------------------------------------------------------
(* The polling watcher *)

Tick ==
    /\ scan[Watcher] = NoScan /\ queue = {}
    /\ queue' = up
    /\ UNCHANGED <<up, pub, fwd, late, scan, stopping, seen, watch>>

\* Mutant: the test for existing forwards is inverted.
InvertedWatcherNext(n) ==
    /\ scan[Watcher] = NoScan /\ n \in queue
    /\ queue' = queue \ {n}
    /\ IF fwd[n] = {} THEN UNCHANGED scan ELSE BeginScan(Watcher, n)
    /\ UNCHANGED <<up, pub, fwd, late, stopping, seen, watch>>

\* An instance that has any forward is not scanned.
WatcherNext(n) ==
    /\ scan[Watcher] = NoScan /\ n \in queue
    /\ queue' = queue \ {n}
    /\ IF fwd[n] # {} THEN UNCHANGED scan ELSE BeginScan(Watcher, n)
    /\ UNCHANGED <<up, pub, fwd, late, stopping, seen, watch>>

-----------------------------------------------------------------------------
(* The event listeners *)

SyncRead ==
    /\ seen = None
    /\ seen' = up
    /\ UNCHANGED <<up, pub, fwd, late, scan, stopping, queue, watch>>

\* Mutant: watchers of stopped instances are not removed.
LaxSyncApply ==
    /\ seen # None
    /\ watch' = [n \in Names |-> IF n \in seen /\ watch[n].st = "none"
                                 THEN [NoWatch EXCEPT !.st = "connect"] ELSE watch[n]]
    /\ seen' = None
    /\ UNCHANGED <<up, pub, fwd, late, scan, stopping, queue>>

\* A watcher of an instance that was not in the list is cancelled: its docker
\* commands fail from then on, but a port it is just adding is added, while the
\* goroutine that a later list starts may be at work already.
SyncApply ==
    /\ seen # None
    /\ watch' = [n \in Names |->
                    IF n \notin seen THEN NoWatch
                    ELSE IF watch[n].st = "none" THEN [NoWatch EXCEPT !.st = "connect"]
                    ELSE watch[n]]
    /\ scan' = [s \in Scanners |-> IF s \in Names \ seen THEN NoScan ELSE scan[s]]
    /\ late' = late \cup {<<n, scan[n].port>> : n \in {m \in Names \ seen : scan[m].at = "forward"}}
    /\ seen' = None
    /\ UNCHANGED <<up, pub, fwd, stopping, queue>>

\* The last port of a cancelled event listener.
LateForward(n, p) ==
    /\ <<n, p>> \in late
    /\ Forward(n, p)
    /\ late' = late \ {<<n, p>>}
    /\ UNCHANGED <<up, pub, scan, stopping, queue, seen, watch>>

\* docker events is started; it exits at once if there is no dockerd, and may
\* do so for other reasons.  Too many exits without an event are the end.
Connect(n) ==
    /\ watch[n].st = "connect"
    /\ \/ /\ watch[n].failures >= MaxFailures
          /\ watch' = [watch EXCEPT ![n].st = "dead"]
       \/ /\ watch[n].failures < MaxFailures
          /\ \/ /\ n \in up
                /\ watch' = [watch EXCEPT ![n].st = "listening"]
             \/ watch' = [watch EXCEPT ![n].failures = @ + 1]
    /\ UNCHANGED <<up, pub, fwd, late, scan, stopping, queue, seen>>

\* A container start: the whole instance is scanned.
HandleEvent(n) ==
    /\ watch[n].st \in {"listening", "broken"} /\ watch[n].event /\ scan[n] = NoScan
    /\ watch' = [watch EXCEPT ![n].event = FALSE, ![n].got = TRUE]
    /\ BeginScan(n, n)
    /\ UNCHANGED <<up, pub, fwd, late, stopping, queue, seen>>

\* docker events ends although its dockerd is up.
StreamBreaks(n) ==
    /\ watch[n].st = "listening"
    /\ watch' = [watch EXCEPT ![n].st = "broken"]
    /\ UNCHANGED <<up, pub, fwd, late, scan, stopping, queue, seen>>

\* The broken stream ends after its last event.
Disconnect(n) ==
    /\ watch[n].st = "broken" /\ ~watch[n].event /\ scan[n] = NoScan
    /\ watch' = [watch EXCEPT ![n] = [NoWatch EXCEPT !.st = "connect",
                                      !.failures = IF watch[n].got THEN 0 ELSE watch[n].failures + 1]]
    /\ UNCHANGED <<up, pub, fwd, late, scan, stopping, queue, seen>>

-----------------------------------------------------------------------------
(* Docker *)

ContainerStarts(n, p) ==
    /\ n \in up /\ p \notin pub[n] /\ Cardinality(pub[n]) < MaxPublished
    /\ pub' = [pub EXCEPT ![n] = @ \cup {p}]
    /\ watch' = [watch EXCEPT ![n].event = @ \/ watch[n].st = "listening"]
    /\ UNCHANGED <<up, fwd, late, scan, stopping, queue, seen>>

ContainerStops(n, p) ==
    /\ p \in pub[n]
    /\ pub' = [pub EXCEPT ![n] = @ \ {p}]
    /\ UNCHANGED <<up, fwd, late, scan, stopping, queue, seen, watch>>

DockerdDies(n) ==
    /\ n \in up
    /\ Down(n)
    /\ UNCHANGED <<fwd, late, scan, stopping, queue, seen>>

-----------------------------------------------------------------------------
Next ==
    \/ \E s \in Scanners : ScanStep(s)
    \/ \E r \in Requests :
          \/ StopDockerd(r) \/ CancelScan(r)
          \/ \E n \in Names : Start(r, n) \/ RefreshPorts(r, n) \/ StopForwards(r, n)
    \/ Tick \/ SyncRead \/ SyncApply
    \/ \E n \in Names :
          \/ WatcherNext(n) \/ Connect(n) \/ HandleEvent(n) \/ Disconnect(n) \/ StreamBreaks(n)
          \/ DockerdDies(n)
          \/ \E p \in Ports : ContainerStarts(n, p) \/ ContainerStops(n, p) \/ LateForward(n, p)

Spec == Init /\ [][Next]_vars

WatcherStep == Tick \/ (\E n \in Names : WatcherNext(n)) \/ ScanStep(Watcher)

\* The tickers tick and what they start goes on; docker, requests, event streams
\* and the scans these start may do nothing for as long as they like.
FairSpec == Spec /\ WF_vars(WatcherStep) /\ WF_vars(SyncRead \/ SyncApply)

-----------------------------------------------------------------------------
(* Properties *)

TypeOK ==
    /\ up \subseteq Names
    /\ pub \in [Names -> SUBSET Ports]
    /\ fwd \in [Names -> SUBSET Listener]
    /\ late \subseteq Names \X Ports
    /\ scan \in [Scanners -> Scan]
    /\ stopping \in [Requests -> Names \cup {None}]
    /\ queue \subseteq Names
    /\ seen \in (SUBSET Names) \cup {None}
    /\ watch \in [Names -> Watch]

\* However scans of the same instance overlap and collide with other holders
\* of the port, an instance has at most one listener for each port it
\* publishes: rescans find the listener that fell back to another host port.
OneListenerPerTarget ==
    \A n \in Names : \A l, m \in fwd[n] : l.dial = m.dial => l = m

\* Polling finds an instance without forwards: a port that stays published is
\* not left without any listener of its instance, though no event arrives.
FirstPortFound ==
    \A n \in Names, p \in Ports :
        p \in pub[n] ~> fwd[n] # {} \/ p \notin pub[n]

\* An instance that stays up gets an event listener and one that stays down
\* loses it, so that a listener that gave up is replaced after a restart:
\* neither mismatch lasts.
WatchersFollow ==
    \A n \in Names : []<>(n \in up <=> watch[n].st # "none")
=============================================================================
