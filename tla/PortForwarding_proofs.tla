------------------------ MODULE PortForwarding_proofs ------------------------
(***************************************************************************)
(* However many instances, ports and scans there are, no port of an        *)
(* instance has two listeners.  Only Forward adds a listener, under the    *)
(* mutex, so the argument needs nothing but the listeners themselves.      *)
(***************************************************************************)
EXTENDS PortForwarding, TLAPS

FwdInv ==
    /\ fwd = [n \in Names |-> fwd[n]]
    /\ OneListenerPerTarget

\* A new listener has a target no listener of the instance has.
LEMMA ForwardKeeps ==
  ASSUME FwdInv, NEW n, NEW p, Forward(n, p)
  PROVE  FwdInv'
<1>1. CASE UNCHANGED fwd
  BY <1>1 DEF FwdInv, OneListenerPerTarget
<1>2. CASE fwd' # fwd
  <2>1. PICK h :
           fwd' = [fwd EXCEPT ![n] = @ \cup {[host |-> h, dial |-> p]}]
    BY <1>2 DEF Forward, Listen
  <2>2. ~\E l \in fwd[n] : l.dial = p
    BY <1>2 DEF Forward
  <2>3. CASE n \in Names
    <3> DEFINE new == [host |-> h, dial |-> p]
    <3>1. /\ fwd'[n] = fwd[n] \cup {new} /\ \A m \in Names \ {n} : fwd'[m] = fwd[m]
          /\ fwd' = [m \in Names |-> fwd'[m]]
      BY <2>1, <2>3 DEF FwdInv
    <3>2. new.host = h /\ new.dial = p
      OBVIOUS
    <3> HIDE DEF new
    <3>4. OneListenerPerTarget'
      BY <2>2, <3>1, <3>2 DEF FwdInv, OneListenerPerTarget
    <3> QED
      BY <3>1, <3>4 DEF FwdInv
  <2>4. CASE n \notin Names
    <3>1. fwd' = fwd
      BY <2>1, <2>4 DEF FwdInv
    <3> QED
      BY <1>2, <3>1
  <2> QED
    BY <2>3, <2>4
<1> QED
  BY <1>1, <1>2

LEMMA StopKeeps ==
  ASSUME FwdInv, NEW n \in Names, StopInstance(n)
  PROVE  FwdInv'
<1>1. fwd'[n] = {} /\ \A m \in Names \ {n} : fwd'[m] = fwd[m]
  BY DEF FwdInv, StopInstance
<1>2. fwd' = [m \in Names |-> fwd'[m]]
  BY DEF FwdInv, StopInstance
<1>3. OneListenerPerTarget'
  BY <1>1 DEF FwdInv, OneListenerPerTarget
<1> QED
  BY <1>2, <1>3 DEF FwdInv

LEMMA Invariance == Spec => []FwdInv
<1>1. Init => FwdInv
  BY DEF Init, FwdInv, OneListenerPerTarget
<1>2. FwdInv /\ [Next]_vars => FwdInv'
  <2> SUFFICES ASSUME FwdInv, [Next]_vars PROVE FwdInv'
    OBVIOUS
  <2>1. CASE UNCHANGED fwd
    BY <2>1 DEF FwdInv, OneListenerPerTarget
  <2>2. CASE UNCHANGED vars
    BY <2>1, <2>2 DEF vars
  <2>3. ASSUME NEW s \in Scanners, ScanStep(s) PROVE FwdInv'
    <3>1. CASE ListContainers(s)
      BY <2>1, <3>1 DEF ListContainers
    <3>2. CASE Inspect(s)
      BY <2>1, <3>2 DEF Inspect
    <3>3. CASE ForwardPort(s)
      BY <3>3, ForwardKeeps DEF ForwardPort
    <3> QED
      BY <2>3, <3>1, <3>2, <3>3 DEF ScanStep
  <2>4. ASSUME NEW r \in Requests, StopDockerd(r) \/ CancelScan(r) PROVE FwdInv'
    BY <2>1, <2>4 DEF StopDockerd, CancelScan
  <2>5. ASSUME NEW r \in Requests, NEW n \in Names,
               Start(r, n) \/ RefreshPorts(r, n) \/ StopForwards(r, n)
        PROVE  FwdInv'
    BY <2>1, <2>5, StopKeeps DEF Start, RefreshPorts, StopForwards
  <2>6. CASE Tick \/ SyncRead \/ SyncApply
    BY <2>1, <2>6 DEF Tick, SyncRead, SyncApply
  <2>7. ASSUME NEW n \in Names,
               \/ WatcherNext(n) \/ Connect(n) \/ HandleEvent(n) \/ Disconnect(n)
               \/ StreamBreaks(n) \/ DockerdDies(n)
        PROVE  FwdInv'
    BY <2>1, <2>7 DEF WatcherNext, Connect, HandleEvent, Disconnect, StreamBreaks, DockerdDies
  <2>8. ASSUME NEW n \in Names, NEW p \in Ports, ContainerStarts(n, p) \/ ContainerStops(n, p)
        PROVE  FwdInv'
    BY <2>1, <2>8 DEF ContainerStarts, ContainerStops
  <2>9. ASSUME NEW n \in Names, NEW p \in Ports, LateForward(n, p) PROVE FwdInv'
    BY <2>9, ForwardKeeps DEF LateForward
  <2> QED
    BY <2>2, <2>3, <2>4, <2>5, <2>6, <2>7, <2>8, <2>9 DEF Next
<1> QED
  BY <1>1, <1>2, PTL DEF Spec

\* Overlapping scans and colliding host ports never give a published port of
\* an instance a second listener (ForwardWithMetadata).
THEOREM OneListener == Spec => []OneListenerPerTarget
BY Invariance, PTL DEF FwdInv

-----------------------------------------------------------------------------
(* Types *)

\* A scan at work knows its instance and port, and an event listener that is
\* connected has not failed too often yet.
PortsInv ==
    /\ TypeOK
    /\ \A s \in Scanners :
          /\ scan[s].at # "idle" => scan[s].name \in Names
          /\ scan[s].at = "forward" => scan[s].port \in Ports
    /\ \A n \in Names : watch[n].st \in {"listening", "broken"} => watch[n].failures < MaxFailures

\* A step that changes one scan, into one that knows what it works on.
LEMMA OneScan ==
  ASSUME PortsInv, NEW s, NEW c \in Scan, scan' = [scan EXCEPT ![s] = c],
         c.at # "idle" => c.name \in Names, c.at = "forward" => c.port \in Ports
  PROVE  /\ scan' \in [Scanners -> Scan]
         /\ \A t \in Scanners : /\ scan'[t].at # "idle" => scan'[t].name \in Names
                                /\ scan'[t].at = "forward" => scan'[t].port \in Ports
<1>1. \A t \in Scanners : scan'[t] = IF t = s THEN c ELSE scan[t]
  BY DEF PortsInv, TypeOK
<1>2. scan' \in [Scanners -> Scan]
  BY DEF PortsInv, TypeOK
<1> QED
  BY <1>1, <1>2 DEF PortsInv

LEMMA BegunScan ==
  ASSUME PortsInv, NEW s, NEW n \in Names, BeginScan(s, n)
  PROVE  /\ scan' \in [Scanners -> Scan]
         /\ \A t \in Scanners : /\ scan'[t].at # "idle" => scan'[t].name \in Names
                                /\ scan'[t].at = "forward" => scan'[t].port \in Ports
<1> DEFINE c == [NoScan EXCEPT !.at = "list", !.name = n]
<1>1. c \in Scan /\ c.at = "list" /\ c.name = n
  BY DEF NoScan, Scan
<1> QED
  BY <1>1, OneScan DEF BeginScan

LEMMA ContinuedScan ==
  ASSUME PortsInv, NEW s \in Scanners, scan[s].at # "idle", NEW todo \in SUBSET Ports, Continue(s, todo)
  PROVE  /\ scan' \in [Scanners -> Scan]
         /\ \A t \in Scanners : /\ scan'[t].at # "idle" => scan'[t].name \in Names
                                /\ scan'[t].at = "forward" => scan'[t].port \in Ports
<1> DEFINE c == IF todo = {} THEN NoScan
                ELSE [scan[s] EXCEPT !.at = "inspect", !.todo = todo, !.port = None]
<1>1. scan[s] \in Scan /\ scan[s].name \in Names
  BY DEF PortsInv, TypeOK
<1>2. c \in Scan /\ (c.at # "idle" => c.name \in Names) /\ c.at # "forward"
  BY <1>1 DEF NoScan, Scan
<1>3. scan' = [scan EXCEPT ![s] = c]
  BY <1>1 DEF Continue, PortsInv, TypeOK
<1> HIDE DEF c
<1> QED
  BY <1>2, <1>3, OneScan

\* A listener added for a published port is one of the host's.
LEMMA ForwardType ==
  ASSUME PortsInv, NEW n \in Names, NEW p \in Ports, Forward(n, p)
  PROVE  fwd' \in [Names -> SUBSET Listener]
<1>1. CASE UNCHANGED fwd
  BY <1>1 DEF PortsInv, TypeOK
<1>2. CASE fwd' # fwd
  <2>1. PICK h \in HostPorts : fwd' = [fwd EXCEPT ![n] = @ \cup {[host |-> h, dial |-> p]}]
    BY <1>2, PortsAssumption DEF Forward, Listen
  <2>2. [host |-> h, dial |-> p] \in Listener
    BY <2>1 DEF Listener
  <2> QED
    BY <2>1, <2>2 DEF PortsInv, TypeOK
<1> QED
  BY <1>1, <1>2

\* A step that leaves the scans or the event listeners alone keeps the facts
\* about them.
LEMMA Kept ==
  ASSUME PortsInv
  PROVE  /\ UNCHANGED scan =>
              /\ scan' \in [Scanners -> Scan]
              /\ \A t \in Scanners : /\ scan'[t].at # "idle" => scan'[t].name \in Names
                                     /\ scan'[t].at = "forward" => scan'[t].port \in Ports
         /\ UNCHANGED watch =>
              /\ watch' \in [Names -> Watch]
              /\ \A n \in Names : watch'[n].st \in {"listening", "broken"} =>
                                     watch'[n].failures < MaxFailures
BY DEF PortsInv, TypeOK

\* A step that changes one event listener.
LEMMA OneWatch ==
  ASSUME PortsInv, NEW n \in Names, NEW w \in Watch, watch' = [watch EXCEPT ![n] = w],
         w.st \in {"listening", "broken"} => w.failures < MaxFailures
  PROVE  /\ watch' \in [Names -> Watch]
         /\ \A m \in Names : watch'[m].st \in {"listening", "broken"} => watch'[m].failures < MaxFailures
<1>1. \A m \in Names : watch'[m] = IF m = n THEN w ELSE watch[m]
  BY DEF PortsInv, TypeOK
<1>2. watch' \in [Names -> Watch]
  BY DEF PortsInv, TypeOK
<1> QED
  BY <1>1, <1>2 DEF PortsInv

LEMMA DownType ==
  ASSUME PortsInv, NEW n \in Names, Down(n)
  PROVE  /\ up' \subseteq Names /\ pub' \in [Names -> SUBSET Ports]
         /\ watch' \in [Names -> Watch]
         /\ \A m \in Names : watch'[m].st \in {"listening", "broken"} => watch'[m].failures < MaxFailures
<1> DEFINE w == [watch[n] EXCEPT !.st = IF @ = "listening" THEN "broken" ELSE @]
<1>1. watch[n] \in Watch /\ watch \in [Names -> Watch]
      /\ (watch[n].st \in {"listening", "broken"} => watch[n].failures < MaxFailures)
  BY DEF PortsInv, TypeOK
<1>2. w \in Watch /\ (w.st \in {"listening", "broken"} => w.failures < MaxFailures)
  BY <1>1 DEF Watch
<1>3. watch' = [watch EXCEPT ![n] = w]
  BY <1>1 DEF Down
<1> HIDE DEF w
<1>4. up' \subseteq Names /\ pub' \in [Names -> SUBSET Ports]
  BY DEF Down, PortsInv, TypeOK
<1> QED
  BY <1>2, <1>3, <1>4, OneWatch

LEMMA PortsInvStep == PortsInv /\ [Next]_vars => PortsInv'
<1> SUFFICES ASSUME PortsInv, [Next]_vars
             PROVE  PortsInv'
  OBVIOUS
<1>0. /\ up \subseteq Names /\ pub \in [Names -> SUBSET Ports] /\ fwd \in [Names -> SUBSET Listener]
      /\ late \subseteq Names \X Ports
      /\ scan \in [Scanners -> Scan] /\ stopping \in [Requests -> Names \cup {None}]
      /\ queue \subseteq Names /\ seen \in (SUBSET Names) \cup {None} /\ watch \in [Names -> Watch]
      /\ MaxFailures \in Nat
  BY FailuresAssumption DEF PortsInv, TypeOK
<1>1. ASSUME NEW s \in Scanners, ScanStep(s)
      PROVE  PortsInv'
  <2>1. scan[s] \in Scan /\ UNCHANGED <<up, pub, late, stopping, queue, seen, watch>>
    BY <1>0, <1>1 DEF ScanStep, ListContainers, Inspect, ForwardPort
  <2>2. CASE ListContainers(s)
    <3>1. PICK todo \in SUBSET Ports : Continue(s, todo) /\ UNCHANGED fwd /\ scan[s].at # "idle"
      BY <1>0, <2>2 DEF ListContainers, PortsInv
    <3> QED
      BY <1>0, <2>1, <3>1, ContinuedScan, Kept DEF PortsInv, TypeOK
  <2>3. CASE Inspect(s)
    <3>1. PICK p \in scan[s].todo :
             \/ scan' = [scan EXCEPT ![s].at = "forward", ![s].port = p, ![s].todo = @ \ {p}]
             \/ Continue(s, scan[s].todo \ {p})
      BY <2>3 DEF Inspect
    <3>2. p \in Ports /\ scan[s].todo \subseteq Ports /\ scan[s].at = "inspect" /\ UNCHANGED fwd
      BY <2>1, <2>3, <3>1 DEF Inspect, Scan
    <3>3. CASE scan' = [scan EXCEPT ![s].at = "forward", ![s].port = p, ![s].todo = @ \ {p}]
      <4> DEFINE c == [scan[s] EXCEPT !.at = "forward", !.port = p, !.todo = @ \ {p}]
      <4>1. c \in Scan /\ c.name = scan[s].name /\ c.port = p /\ scan[s].name \in Names
        BY <2>1, <3>2 DEF Scan, PortsInv
      <4>2. scan' = [scan EXCEPT ![s] = c]
        BY <1>0, <3>3
      <4> HIDE DEF c
      <4> QED
        BY <1>0, <2>1, <3>2, <4>1, <4>2, OneScan, Kept DEF PortsInv, TypeOK
    <3>4. CASE Continue(s, scan[s].todo \ {p})
      BY <1>0, <2>1, <3>2, <3>4, ContinuedScan, Kept DEF PortsInv, TypeOK
    <3> QED
      BY <3>1, <3>3, <3>4
  <2>4. CASE ForwardPort(s)
    <3>1. scan[s].name \in Names /\ scan[s].port \in Ports /\ scan[s].todo \in SUBSET Ports
      BY <2>1, <2>4 DEF ForwardPort, PortsInv, Scan
    <3>2. fwd' \in [Names -> SUBSET Listener]
      BY <2>4, <3>1, ForwardType DEF ForwardPort
    <3>3. Continue(s, scan[s].todo) /\ scan[s].at # "idle"
      BY <2>4 DEF ForwardPort
    <3> QED
      BY <1>0, <2>1, <3>1, <3>2, <3>3, ContinuedScan, Kept DEF PortsInv, TypeOK
  <2> QED
    BY <1>1, <2>2, <2>3, <2>4 DEF ScanStep
<1>2. ASSUME NEW r \in Requests, StopDockerd(r) \/ CancelScan(r)
      PROVE  PortsInv'
  <2>1. CASE StopDockerd(r)
    <3>1. stopping[r] \in Names /\ Down(stopping[r]) /\ UNCHANGED <<fwd, late, scan, queue, seen>>
          /\ stopping' \in [Requests -> Names \cup {None}]
      BY <1>0, <2>1 DEF StopDockerd
    <3> QED
      BY <1>0, <3>1, DownType, Kept DEF PortsInv, TypeOK
  <2>2. CASE CancelScan(r)
    <3>1. scan' = [scan EXCEPT ![r] = NoScan] /\ UNCHANGED <<up, pub, fwd, late, stopping, queue, seen, watch>>
      BY <2>2 DEF CancelScan
    <3>2. NoScan \in Scan /\ NoScan.at = "idle"
      BY DEF NoScan, Scan
    <3> QED
      BY <1>0, <3>1, <3>2, OneScan, Kept DEF PortsInv, TypeOK
  <2> QED
    BY <1>2, <2>1, <2>2
<1>3. ASSUME NEW r \in Requests, NEW n \in Names, Start(r, n) \/ RefreshPorts(r, n) \/ StopForwards(r, n)
      PROVE  PortsInv'
  <2>1. CASE Start(r, n) \/ RefreshPorts(r, n)
    <3>1. /\ BeginScan(r, n) /\ up' \subseteq Names /\ fwd' \in [Names -> SUBSET Listener]
          /\ UNCHANGED <<pub, late, stopping, queue, seen, watch>>
      BY <1>0, <2>1 DEF Start, RefreshPorts, StopInstance
    <3> QED
      BY <1>0, <3>1, BegunScan, Kept DEF PortsInv, TypeOK
  <2>2. CASE StopForwards(r, n)
    <3>1. /\ fwd' \in [Names -> SUBSET Listener] /\ stopping' \in [Requests -> Names \cup {None}]
          /\ UNCHANGED <<up, pub, late, scan, queue, seen, watch>>
      BY <1>0, <2>2 DEF StopForwards, StopInstance
    <3> QED
      BY <1>0, <3>1, Kept DEF PortsInv, TypeOK
  <2> QED
    BY <1>3, <2>1, <2>2
<1>4. CASE Tick \/ SyncRead
  BY <1>0, <1>4, Kept DEF Tick, SyncRead, PortsInv, TypeOK
<1>5. CASE SyncApply
  <2>0. UNCHANGED <<up, pub, fwd, stopping, queue>> /\ seen' = None
    BY <1>5 DEF SyncApply
  <2>1. watch' \in [Names -> Watch]
    <3>1. NoWatch \in Watch /\ [NoWatch EXCEPT !.st = "connect"] \in Watch
      <4>1. 0 \in 0 .. MaxFailures
        BY <1>0
      <4>2. NoWatch \in Watch
        BY <4>1 DEF NoWatch, Watch
      <4> QED
        BY <4>2 DEF Watch
    <3>2. watch' = [n \in Names |-> IF n \notin seen THEN NoWatch
                                  ELSE IF watch[n].st = "none" THEN [NoWatch EXCEPT !.st = "connect"]
                                  ELSE watch[n]]
      BY <1>5 DEF SyncApply
    <3> QED
      BY <1>0, <3>1, <3>2
  <2>4. scan' \in [Scanners -> Scan]
    <3>1. NoScan \in Scan
      BY DEF NoScan, Scan
    <3>2. scan' = [t \in Scanners |-> IF t \in Names \ seen THEN NoScan ELSE scan[t]]
      BY <1>5 DEF SyncApply
    <3> QED
      BY <1>0, <3>1, <3>2
  <2>6. late' \subseteq Names \X Ports
    <3>1. \A n \in Names : scan[n].at = "forward" => scan[n].port \in Ports
      BY DEF PortsInv, Scanners
    <3> QED
      BY <1>0, <1>5, <3>1 DEF SyncApply
  <2>2. \A n \in Names : watch'[n].st \in {"listening", "broken"} => watch'[n].failures < MaxFailures
    BY <1>0, <1>5 DEF SyncApply, NoWatch, PortsInv
  <2>3. \A t \in Scanners : /\ scan'[t].at # "idle" => scan'[t].name \in Names
                            /\ scan'[t].at = "forward" => scan'[t].port \in Ports
    <3> SUFFICES ASSUME NEW t \in Scanners
                 PROVE  /\ scan'[t].at # "idle" => scan'[t].name \in Names
                        /\ scan'[t].at = "forward" => scan'[t].port \in Ports
      OBVIOUS
    <3>1. scan'[t] = scan[t] \/ scan'[t] = NoScan
      BY <1>5 DEF SyncApply
    <3>2. scan[t] \in Scan
      BY <1>0
    <3> QED
      BY <3>1, <3>2 DEF NoScan, Scan, PortsInv
  <2>5. TypeOK'
    BY <1>0, <2>0, <2>1, <2>4, <2>6 DEF TypeOK
  <2> QED
    BY <2>2, <2>3, <2>5 DEF PortsInv
<1>6. ASSUME NEW n \in Names,
             \/ WatcherNext(n) \/ Connect(n) \/ HandleEvent(n) \/ Disconnect(n)
             \/ StreamBreaks(n) \/ DockerdDies(n)
      PROVE  PortsInv'
  <2>0. watch[n] \in Watch /\ (watch[n].st \in {"listening", "broken"} => watch[n].failures < MaxFailures)
    BY <1>0 DEF PortsInv
  <2>1. CASE WatcherNext(n)
    <3>1. UNCHANGED scan \/ BeginScan(Watcher, n)
      BY <2>1 DEF WatcherNext
    <3> QED
      BY <1>0, <2>1, <3>1, BegunScan, Kept DEF WatcherNext, PortsInv, TypeOK
  <2>2. CASE Connect(n)
    <3>1. PICK w \in Watch : /\ watch' = [watch EXCEPT ![n] = w]
                             /\ w.st \in {"listening", "broken"} => w.failures < MaxFailures
      <4> DEFINE dead == [watch[n] EXCEPT !.st = "dead"]
                 on == [watch[n] EXCEPT !.st = "listening"]
                 again == [watch[n] EXCEPT !.failures = @ + 1]
      <4>1. dead \in Watch /\ dead.st = "dead"
        BY <2>0 DEF Watch
      <4>2. on \in Watch /\ on.failures = watch[n].failures
        BY <2>0 DEF Watch
      <4>3. watch[n].failures < MaxFailures /\ watch[n].st = "connect" =>
               again \in Watch /\ again.st = "connect"
        BY <1>0, <2>0 DEF Watch
      <4>4. \/ watch' = [watch EXCEPT ![n] = dead]
            \/ watch' = [watch EXCEPT ![n] = on] /\ watch[n].failures < MaxFailures
            \/ watch' = [watch EXCEPT ![n] = again] /\ watch[n].failures < MaxFailures
        BY <1>0, <2>2 DEF Connect
      <4>5. watch[n].st = "connect"
        BY <2>2 DEF Connect
      <4> HIDE DEF dead, on, again
      <4> QED
        BY <4>1, <4>2, <4>3, <4>4, <4>5
    <3> QED
      BY <1>0, <2>2, <3>1, OneWatch, Kept DEF Connect, PortsInv, TypeOK
  <2>3. CASE HandleEvent(n)
    <3> DEFINE w == [watch[n] EXCEPT !.event = FALSE, !.got = TRUE]
    <3>1. w \in Watch /\ w.st = watch[n].st /\ w.failures = watch[n].failures
      BY <2>0 DEF Watch
    <3>2. watch' = [watch EXCEPT ![n] = w] /\ BeginScan(n, n)
          /\ UNCHANGED <<up, pub, fwd, late, stopping, queue, seen>>
      BY <1>0, <2>3 DEF HandleEvent
    <3> HIDE DEF w
    <3> QED
      BY <1>0, <2>0, <3>1, <3>2, OneWatch, BegunScan DEF PortsInv, TypeOK
  <2>4. CASE Disconnect(n)
    <3> DEFINE f == IF watch[n].got THEN 0 ELSE watch[n].failures + 1
               w == [NoWatch EXCEPT !.st = "connect", !.failures = f]
    <3>0. f \in 0 .. MaxFailures
      BY <1>0, <2>0, <2>4 DEF Watch, Disconnect
    <3>1. watch' = [watch EXCEPT ![n] = w] /\ UNCHANGED <<up, pub, fwd, late, scan, stopping, queue, seen>>
      BY <2>4 DEF Disconnect
    <3> HIDE DEF f
    <3>2. w \in Watch /\ w.st = "connect"
      BY <3>0 DEF Watch, NoWatch
    <3> HIDE DEF w
    <3> QED
      BY <1>0, <3>1, <3>2, OneWatch, Kept DEF PortsInv, TypeOK
  <2>5. CASE DockerdDies(n)
    BY <1>0, <2>5, DownType, Kept DEF DockerdDies, PortsInv, TypeOK
  <2>6. CASE StreamBreaks(n)
    <3> DEFINE w == [watch[n] EXCEPT !.st = "broken"]
    <3>1. w \in Watch /\ w.failures = watch[n].failures
      BY <2>0 DEF Watch
    <3>2. /\ watch' = [watch EXCEPT ![n] = w] /\ watch[n].st = "listening"
          /\ UNCHANGED <<up, pub, fwd, late, scan, stopping, queue, seen>>
      BY <1>0, <2>6 DEF StreamBreaks
    <3> HIDE DEF w
    <3> QED
      BY <1>0, <2>0, <3>1, <3>2, OneWatch, Kept DEF PortsInv, TypeOK
  <2> QED
    BY <1>6, <2>1, <2>2, <2>3, <2>4, <2>5, <2>6
<1>7. ASSUME NEW n \in Names, NEW p \in Ports, ContainerStarts(n, p) \/ ContainerStops(n, p)
      PROVE  PortsInv'
  <2>1. CASE ContainerStarts(n, p)
    <3> DEFINE w == [watch[n] EXCEPT !.event = @ \/ watch[n].st = "listening"]
    <3>0. watch[n] \in Watch /\ (watch[n].st \in {"listening", "broken"} => watch[n].failures < MaxFailures)
      BY <1>0 DEF PortsInv
    <3>1. w \in Watch /\ w.st = watch[n].st /\ w.failures = watch[n].failures
      BY <3>0 DEF Watch
    <3>2. watch' = [watch EXCEPT ![n] = w] /\ pub' \in [Names -> SUBSET Ports]
          /\ UNCHANGED <<up, fwd, late, scan, stopping, queue, seen>>
      BY <1>0, <2>1 DEF ContainerStarts
    <3> HIDE DEF w
    <3> QED
      BY <1>0, <3>0, <3>1, <3>2, OneWatch, Kept DEF PortsInv, TypeOK
  <2>2. CASE ContainerStops(n, p)
    BY <1>0, <2>2, Kept DEF ContainerStops, PortsInv, TypeOK
  <2> QED
    BY <1>7, <2>1, <2>2
<1>8. ASSUME NEW n \in Names, NEW p \in Ports, LateForward(n, p)
      PROVE  PortsInv'
  <2>1. fwd' \in [Names -> SUBSET Listener] /\ late' \subseteq Names \X Ports
        /\ UNCHANGED <<up, pub, scan, stopping, queue, seen, watch>>
    BY <1>0, <1>8, ForwardType DEF LateForward
  <2> QED
    BY <1>0, <2>1, Kept DEF PortsInv, TypeOK
<1>9. CASE UNCHANGED vars
  BY <1>0, <1>9, Kept DEF vars, PortsInv, TypeOK
<1> QED
  BY <1>1, <1>2, <1>3, <1>4, <1>5, <1>6, <1>7, <1>8, <1>9 DEF Next

\* Every variable keeps its type, for any number of instances, ports and scans:
\* the listeners ScanAndForward adds stay within the host's ports, and an event
\* listener (watchEvents) whose docker events has failed maxConsecutiveFailures
\* times in a row counts no further.
THEOREM PortTypesCorrect == Spec => []TypeOK
<1>1. Init => PortsInv
  <2> SUFFICES ASSUME Init
               PROVE  PortsInv
    OBVIOUS
  <2>1. NoScan \in Scan /\ NoScan.at = "idle" /\ NoWatch \in Watch /\ NoWatch.st = "none"
    BY FailuresAssumption DEF NoScan, Scan, NoWatch, Watch
  <2>2. TypeOK
    BY <2>1 DEF Init, TypeOK
  <2> QED
    BY <2>1, <2>2 DEF Init, PortsInv
<1>2. PortsInv => TypeOK
  BY DEF PortsInv
<1> QED
  BY <1>1, <1>2, PortsInvStep, PTL DEF Spec
=============================================================================
