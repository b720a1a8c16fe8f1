# A verification project for dockersnap

dockersnap runs many Docker daemons on one host, each on a ZFS dataset and in a
network namespace of its own, so that a whole environment can be snapshotted,
reverted and cloned. One Go daemon does it all: HTTP requests, background loops
and a restart procedure work on a JSON state file, on ZFS, on namespaces,
iptables and systemd units, most of the time without a lock.

This directory holds TLA+ modules that model the daemon, TLC configurations that
check them on small instances, and proofs that TLAPS checks for every size.

    tlc -config lifecycle.cfg MCInstanceManager.tla     a run (PROJECT.json lists them all)
    tlapm InstanceManager_proofs.tla                    a module's proofs

Paths below are relative to the root of the repository.

## 1. Inventory

### Components that keep state

| Component | State | Operations | Talks to |
|---|---|---|---|
| Instance manager, `internal/instance/manager.go`, `reconcile.go` | the locals of each request's goroutine, and what is on the host | Create, Clone, Delete, Snapshot, Revert, Start, Stop, List; Reconcile at start-up | state store (short atomic sections), ZFS, dockerd manager, proxy, plugins |
| State store, `internal/state/state.go` | `state.json`, `state.json.tmp`, a mutex | Update, View (Load, Save) | the file system |
| Subnet allocator, `internal/network/allocator.go` | none: functions of base, size and index | SubnetForIndexChecked, MetalLBIPForSubnet; `dockerd.DeriveNetnsIPs` continues them | called in Phase 1 of Create and Clone |
| ZFS driver, `internal/zfs` | datasets, snapshots, origins (in the kernel) | create, destroy -r, snapshot, rollback -r, clone | the zfs command |
| dockerd manager, `internal/dockerd` | network namespaces, veths, iptables rules, systemd units, sockets | Start, Stop, IsRunning | ip, iptables, systemd-run |
| Port proxy, `internal/proxy` | the map of listeners; one event goroutine per instance; a polling goroutine | ForwardWithMetadata, StopInstance, ScanAndForward, the connections | docker CLI, nsenter and socat |
| Health poller, `internal/instance/health.go` | a cache of the last answers | poll, pollOne; Get by the API | List, plugin manager |
| Plugin manager, `internal/plugin` | a map of plugins replaced as a whole | Discover, Reload, Get, Run, RunStream | plugin executables |
| API server, `internal/api` | none of its own; a progress channel per streamed request | one handler per operation, a five-minute timeout | all of the above |
| Daemon start-up, `cmd/serve.go` | the goroutines | Discover, Reconcile, the background loops, serve | all of the above |

Two more have state only while one request lasts, but sit at the ends of its
stream of events: the HTTP client (`internal/client`: the message of the last error event)
and the plugin SDK (`pkg/pluginsdk`: progress lines on stdout and an exit code).
Without state: the plugins `echo` and `kind`, the command line (`cmd`), the
configuration, the dashboard and the Ansible role in `deploy`.

### What is hard about each, and what makes it correct

* **Instance manager.** Every operation is a chain of external steps between two
  state updates, any of which may fail or be cut off by a crash, a timeout or a
  client that leaves. Correct means: a subnet and a name belong to one instance;
  nothing on the host is orphaned; a failed step leaves something that can be
  started or deleted; the snapshot labels are the snapshots ZFS has; ZFS works
  only on datasets no dockerd uses; placeholders do not stay.
* **State store.** Concurrent read-modify-write cycles and crashes inside a save.
  Correct means atomic and durable updates, and a mutex that is always released.
* **Subnet allocator.** Octet arithmetic with a carry. Correct means that different indexes
  give disjoint subnets and addresses and that nothing usable is refused.
* **dockerd manager.** Partial set-up; chains of iptables rules that all instances share,
  from which each deletes by the line numbers of an earlier listing. Correct
  means that a namespace is set up once and removed before its subnet is used again,
  that a running instance keeps its rules, whatever others tear down, and a teardown leaves none.
* **Port proxy.** Scans of the same instance in requests, watcher and event
  listener overlap each other and stops; host ports collide. Correct means one
  listener per published port, also when the kernel chose its host port, and ports that
  are found in the end although events get lost. A connection is a process and four goroutines
  that end in any order, while the listener comes and goes. Correct means that it
  leads into its own namespace or nowhere, that one direction never waits for the other, and
  that nothing of it stays.
* **Health poller.** The world changes while a plugin thinks. Correct means no
  entry outlives its instance for good, sickness shows after the threshold and
  not before it is real, and recovery shows.
* **Plugin manager.** Reloads overlap, are cancelled, and race with the operator's
  copying of files. Correct means that no request falls into a gap and that
  nothing untested is used.
* **API server, workload hooks, SDK and client.** One event passes a pipe, a bounded
  channel and a connection, each of which may be full, cut off or abandoned. A
  slow client must not block the operation, a client that believes in success must be
  right, and a plugin's last words must not get lost.

`PROJECT.json` lists the single hazards, each at its line, with the properties
that cover it.

## 2. Modules

| Module | What it models |
|---|---|
| `SubnetRegistry` | abstract: every instance gets the lowest free index and keeps it |
| `InstanceManager` | manager.go and reconcile.go, with the state file, ZFS, namespaces and units as they see them |
| `AtomicStore` | abstract: Update and View take effect at one moment |
| `StateStore` | state.go at the grain of system calls |
| `SubnetAllocator` | allocator.go and DeriveNetnsIPs over the leases of `SubnetRegistry` |
| `NetnsRules` | SetupNetns and TeardownNetns of netns.go, command by command, with the Start and Stop of dockerd.go around them |
| `PortForwarding` | the listeners of proxy.go, scan.go, watcher.go, eventlistener.go, and the requests that use them |
| `ProxyConnection` | the connections of one listener: serve, handleConn, dialViaNamespace and nsConn of proxy.go |
| `PluginManager` | Discover, loadOne and Get of plugin/manager.go |
| `HealthPoller` | health.go, and the answer to a health request from the SDK to the API; it composes `PluginManager` |
| `ProgressStream` | a request's events from the SDK through RunStream, the reporter and the HTTP handler to the client |
| `MC...` | instantiate a module for TLC: symmetry and constants |
| `..._proofs` | theorems |

`InstanceManager` is the centre: to it a namespace, a scan for ports or a plugin's
deploy is one step. `NetnsRules`, `PortForwarding`,
`ProxyConnection` and `ProgressStream` open up one of these steps each, with the
concurrency that is inside. `SubnetAllocator` instantiates the registry that
`InstanceManager` is shown to implement, so that its addresses are those of
instances as the manager really gives out indexes.

### InstanceManager

`known`, `inst` and `nextIndex` are the state file; `datasets`, `zsnaps` and
`origin` ZFS; `unit` the dockerds that run; `netns` the namespaces, with the
subnet index they were set up with; `stale` the datasets rolled back since the
page cache was last dropped. The listeners are not here: requests are not the only ones that add them, so
they are the state of `PortForwarding`, and `Unforward` and `Scan` are only steps of a request's
way. A goroutine is a program counter `pc` and a record `job` of its locals: the
copy of the entry a request took is in there, so that it can be stale.

A request starts with its first atomic section (`CreateReserve`, `DeleteView`
...), then makes one step per external command: `SetupNetns`, `StartUnit`,
`WaitForSocket`, `Scan`, `ZfsOp`, `DropCaches`, `Destroy`, and ends with `Commit`,
`Rollback` or `Forget`. A step that can fail does so by spending one of
`MaxFaults`, if its kind is in `Faults`; what the code does then (return,
restart dockerd, destroy and roll back, go on with a warning) is part of the
same action. `Cancel` ends a request's context: all its later commands fail,
but state updates, which take no context, do not. `Crash` forgets the daemon's
memory and starts `Reconcile` (`ReconcileLoad`, `ReconcilePick`, `ReconcileCommit`).

The code has no lock per instance. `Exclusive = TRUE` restricts the *clients* to
one request at a time per instance; requests on different instances always
overlap. Runs about data shared between instances set it to FALSE; runs about
the contract of a single request set it to TRUE, because with overlapping
requests on one instance the code promises little (see section 6).

### StateStore

Lock, load, callback, open, write, rename and return are steps of their own, any of
which may fail or be the last before a crash. The refinement mapping to
`AtomicStore` takes the state file for the state, and a call for done when the
step that ended it has released the mutex: rename for an Update, the callback for a View.

### SubnetAllocator

`Subnet(base, k, i)` is subnetForIndex where octet k counts. Octets have `Byte`
values, 256 in the code. Subnet sizes are whole octets, see section 6.

### NetnsRules

`netns`, `veth`, the two iptables chains as sequences of rules, `up`, and for each
instance its Start or Stop in progress. A step is one command, or several with the
same clean-up: `Configure` stands for the eight commands from the move of the peer to the default
route. `List` notes the matching line numbers of a chain as it is then,
`Delete` removes the line that has the highest of them by now. `Matches` is
strings.Contains on the comment: `Alike` says whose name begins with
whose. `Cancel` ends the context of a
call, after which its clean-up commands fail like all others. Calls for one instance do not
overlap, calls for different instances do, teardowns included. Two history variables, which no guard
reads, serve the properties: `shifted`, the chains in which another's deletion has
moved lines that a teardown has listed and still to delete, and `cut`, the instances that have lost a
rule to such a teardown, to one of a name alike, or to a failing command.

### PortForwarding

A scan is a record: which instance, which published ports it has still to look at,
which it is about to forward. `Forward` is ForwardWithMetadata, one step under
the map's mutex. Requests start, refresh and stop; `StopForwards` and `StopDockerd`
are the two halves of a stop, between which scans go on. Docker (containers, event
streams) is external. An event listener that syncWatchers cancels may be adding one last
port (`late`) while its successor is at work. Two abstractions: a container
publishes one port, and start events that come while one is still unread count
as one.

### ProxyConnection

`live` is the listener that accepts, `cancelled` the ones whose context is done; a stopped
port can be listened on again, with connections of the first listener still there.
A copying goroutine reads and writes in two steps, and ends in neither but for its own reason. A
connection has the program counter of handleConn, the end `peer` of
its dial, the state of socat, of its two copying goroutines and of the channel `done`,
and for each direction three counts of chunks: written, passed on, read at the other
end. `Room` chunks fit between two of them, so a reader that stalls blocks the
writer. `Wait` is cmd.Wait, which closes a pipe whether or not it was read
to its end. `ForkFails` lets the start of nsenter fail.

### PluginManager and HealthPoller

A reload reads the directory, runs schema and init of each file, and installs the
new map; files may change between any two of these steps, and two reloads
may be at work. A directory that cannot be read leaves the map as it is. The poller lists the instances, asks the plugin of each
running one and records the answer in a later step. The answer is computed along the code:
`RunHealth` (the SDK's body and exit code), `Run` (a body only from a usable plugin that
exits with 0), `Healthy` (CallHealth), and for the API `GetWorkloadHealth`, cached or
fresh. The failure count saturates at the threshold, since nothing else looks
at it. A poll whose List fails changes nothing.

### ProgressStream

One request: a create that validates, deploys and perhaps tears down, a delete, or one without
plugin; streamed or with a single answer (`op.stream`, `Respond`). The line
of goroutines and buffers: the plugin's process writes to `pipe`; the `scanner`
goroutine of RunStream reads it and emits to `ch`; the HTTP handler (`serving`)
writes to `wire`; the client reads, stalls, resumes or leaves. `helper` is a
process of the plugin's that has inherited its stdout. A line is one of five kinds,
by what it does to the readers: a step, an error, an error without message, one too
long for the client's scanner, one too long for RunStream's.
`wrote` and `passed` count a command's lines. Each phase of the manager emits
one event where the code emits several.

## 3. Runs

Every bound is a constant of the cfg. "Faults" are failing steps in a whole behaviour.

| Run | Instance | What it shows |
|---|---|---|
| `lifecycle` | 2 names, 2 labels, 2 requests, 2 subnets, 1 fault, every operation | TypeOK, NamespacesDisjoint, Restartable, Settled, SnapshotsAgree, NoStalePages |
| `lifecycle_crash` | 2 names, 2 labels, 1 request, 1 fault, 1 crash | HostOwned, SnapshotOrderAgrees (although the lists themselves differ), ZfsOpsOnlyWhenStopped, ReconcileReports |
| `subnets` | 2 names, 2 overlapping requests without Exclusive, fair goroutines, 1 fault of every kind create and delete meet, but for a state file that cannot be written | UniqueSubnets, IndexesBelowNext, the refinement RegistrySpec, ReservationsResolve |
| `state_store` | 2 names, 2 goroutines, fair | NeverTorn, CopyIsCurrent, AtomicSpec, CallsReturn |
| `subnet_addresses` | octets of 4 values, every base and size, 5 names, 17 indexes | SubnetsDisjoint, AddressesDistinct, AllUsable |
| `netns_rules` | 2 instances, one's name part of the other's, overlapping teardowns, 1 failing command or cancelled call | RunningHasRules, TeardownSweeps, OthersRulesStay |
| `ports` | 1 instance, 2 ports, one published at a time, 3 host ports of which one is taken, a request, fair loops | OneListenerPerTarget, FirstPortFound, WatchersFollow |
| `connections` | 1 connection, 2 listeners, 2 chunks each way, 1 Accept error, fair goroutines | OnlyOwnNamespace, ConnectionsEnd, DirectionsFlow |
| `health_polls` | 1 instance, 1 plugin, 2 reloads, threshold 2 | ReadyIsGood, GoodStaysReady, StaleEntriesGo, SicknessShows, RecoveryShows |
| `streams` | 3 kinds of request, a channel of 2, pipe and connection of 1 line, 2 plugin lines | HonestSuccess, LinesDelivered, OperationEnds, ReaderLearns |
| `claim_restart`, `claim_teardown` | 1 death and 1 crash; no fault | two disagreements, section 5 |

Why the bounds are enough for the questions asked. Interference in the manager
is between two instances (for a subnet or a ZFS origin) or two requests; with two names and two
subnets an index is reused after a delete, and the theorems of section 4
cover more names and exhaustion. Which kinds of step fail is
chosen per run so that the property is a promise of the code: section 6 says
what fails beyond that. Two labels let each of the two lists have a
snapshot the other lacks, one by the crash and one by the fault. Two
instances interleave three rules each in the shared chains, every start and stop of one against every step
of the other, so that both teardowns hold line numbers at once; one failure lets a
rule survive a teardown and be met by the next, and any number of instances and failures is
proved. In `ports` a taken host port is
held by somebody else (whether that is another instance makes no difference to the one
that asks), the fallback may take the port published next, and the watcher, a
request and event listeners, cancelled ones included, overlap. `MaxPublished = 1` lets an instance publish its ports one after
the other; listeners outlive their containers, so two can still be there. With two published at once
the run passes too, but takes 12 minutes; OneListenerPerTarget is proved for any number. One connection is enough: connections share
only the listener, and it has a second one to outlive. Room for one chunk, of
two, fills every pipe. The progress channel of two is full as soon as
the client stalls, while three or more events are still to come. Four-valued octets carry
twice within 17 indexes. One instance is enough for the poller, which treats them in turn;
a plugin file that has gone stands for every program that fails.

Deadlock is checked except in `connections` and `streams`, where everything may be
over: a finite number of connections, one request.

Each property has a mutant, a change to one definition such as a bug would make
(`PROJECT.json`); the mutated operators are in the modules, each with a comment "Mutant".

### Fairness

* `InstanceManager!FairSpec`: a goroutine that can take a step takes one. Every
  external command either returns or is ended by the context; nothing obliges a
  client to send, a step to fail or a context to end.
* `StateStore!FairSpec`: the same, and strong fairness for taking the mutex: a
  `sync.Mutex` is handed to a waiter that has starved for a millisecond.
* `PortForwarding!FairSpec`: the tickers of the watcher and of syncWatchers go on, and
  the watcher with the scan it has begun. Not the event streams, which may be silent for ever, nor
  the scans they or a request begin.
* `ProxyConnection!FairSpec`: the goroutines of the daemon: the pause after an Accept error ends,
  Accept, handleConn, each copying goroutine on its own, the kill on
  cancellation and cmd.Wait. Not clients, services or their reading.
* `ProgressStream!FairSpec`: the operation, the scanner goroutine, the kill and the HTTP handler;
  a command's deadline comes; a client that has not stalled reads. A plugin may hang and a
  helper live for ever, and a client may stall for ever.
* `HealthPoller!FairSpec`: the poller's ticker; its commands have a timeout.

## 4. Proofs

TLAPS checks the theorems of the `..._proofs` modules for every value of the constants
that the named assumptions allow: any number of instances, requests, labels, reloads,
connections, lines. Every invariant that a passing run checks, every action property and both
refinements are theorems. Where a theorem has hypotheses (ASSUME), they are
about constants of the model: which steps may fail, whether the daemon may crash, what clients do.

### InstanceManager

Without hypotheses: TypeCorrect, SubnetsUnique, AllocatorScansAll and ImplementsRegistry. The
inductive invariant is `IInv == TypeOK /\ JobOK /\ UniqueSubnets /\ IndexesBelowNext`.
UniqueSubnets alone is not inductive: NextFreeSubnetIndex looks for a gap only up to
NextSubnetIndex and returns that when there is none, so the index is new only because
every index in use is below it. TypeOK and JobOK are needed because Clone and Snapshot
write their locals into the entry. The refinement follows from the same invariant and the
fact that an entry's index never changes.

The other theorems relate the state file to the host. All assume `Exclusive`, one request at a
time per instance; any number of requests on different instances overlap.

| Theorem | Property | Excluded besides | Because it fails with |
|---|---|---|---|
| `SnapshotsInOrder` | SnapshotOrderAgrees | nothing | |
| `ZfsOnlyWhenStopped` | ZfsOpsOnlyWhenStopped | stop | stop |
| `ReconcileReportsAll` | ReconcileReports | death, save | each of them after a crash |
| `NothingOutlivesItsEntry` | HostOwned | destroy, stop, cancel | each of them; destroy and stop only as a second fault |
| `StalePagesNeverServed` | NoStalePages | crashes, stop, drop, cancel | each of them |
| `NoTwoNamespacesShareASubnet` | NamespacesDisjoint | crashes, unit, wait, stop, cancel, death | each of them; stop only as a second fault |
| `DownMeansRestartable` | Restartable | crashes, unit, wait, cancel, death | each of them |
| `RequestsSettle` | Settled | crashes, stop, cancel, death, save | each of them |
| `SnapshotListsAgree` | SnapshotsAgree | crashes, netns, unit, wait, stop, cancel, death, save | each of them |

The third column names kinds of step in `Faults` that must not fail (`cancel`: a request's
context ends; `death`: a dockerd dies by itself; `save`: a state Update is not written) and
crashes of the daemon; all other kinds may fail, and any number of times (MaxFaults is any number).
None of these hypotheses can be dropped: for each, TLC finds a
counterexample in the instance of `lifecycle` when that one fault, or a crash, is allowed
in addition (last column; section 6 tells what happens in some of them). For RequestsSettle and DownMeansRestartable
the theorem covers more failures than the run: a namespace or a dockerd that does not come
up (Settled), a kill that fails (Restartable).

The argument has three layers.

1. `AloneInv`: a goroutine's program counter fits its operation and its locals (OpsFit), the
   instance it works on is neither the instance nor the clone source of another (Apart) and
   keeps its entry meanwhile (Held); while Reconcile works, nothing else does. It follows that
   a step changes nothing of the instances other goroutines have in hand.
2. For each property an invariant with two parts: what is true of an instance nobody
   works on (a Rest), and how far the goroutine that works on it has taken it (a
   Stage). `DownForZfs`: dockerd is down at the steps "zfs" and "drop". `Accounted`: what
   Reconcile has not to do any more is up or on its list of errors. `DropPending`: a dataset
   that is stale has a Revert about to drop its pages. `OrderInv`, with the snapshot that is
   about to be committed. `OwnedInv`, with what a cleanup has still to destroy; it survives crashes,
   since a crash forgets the goroutines but an entry stays until its dataset has gone.
3. Where the daemon neither crashes nor has requests cancelled (`Quiet`), Reconcile finds an empty
   state file and every request runs to its end: `NetInv`, `DataInv`, `RestartInv` and
   `SteadyInv` say for each program counter which of namespace, dockerd, dataset and
   snapshot list are there. One lemma (OneInstance) says that a turn of one goroutine leaves the Rest
   and Stage of the others alone, so what is left for each is the case of the goroutine's own instance.

### The steps opened up

* `NetnsRules_proofs`: TeardownLeavesNoRule, RulesGoInThreeWays and
  RunningKeepsItsRules, without hypotheses: any number of starts and stops overlap, names may be part of
  others and every command may fail. Isolation itself is false of the code (`claim_teardown`, section 6), so the theorems
  say how far the damage goes: a rule goes in the teardown of its own instance, in one of a name
  alike, or in one whose lines another's deletion in that chain has moved since it listed them, and in no other step. The
  invariant is TeardownInv: unless a teardown is shifted in its chain, the line numbers it still holds are, at any
  moment, those of rules its listing matched, and all of its own rules are among them. It holds because set-ups only
  append and because lines are deleted from the highest down, so that the numbers
  left do not move. SetupInv says which rules exist at each step of a set-up, but for those in `cut`.
* `ProxyConnection_proofs`: NeverTheHostsNetwork, if nsenter can be started (`ForkFails = FALSE`).
  handleConn looks the namespace up in one section of the mutex and dials in a later step.
  LiveOrCancelled: every listener but the live one is cancelled, and the
  instance of the live one is known. Hence NamedOrCancelled: a connection without a
  namespace's name has a context that is done, and its dial fails.
* `HealthPoller_proofs`: UsableMeansGood and ReloadsKeepGoodPlugins, about `PluginManager` as the
  poller uses it, and TypeCorrect. An entry records what its file was at each
  command; Sound says that a usable entry was good at each, Fair that a reload which is not cancelled
  rejects only what was bad at one of them.
* `ProgressStream_proofs`: SuccessIsHonest and NoLineIsLost. PipeInv counts the lines that are
  written, in the pipe and passed on. EndInv follows the last event through channel and connection:
  nothing overtakes it, so a client that has read it has read the error before it.
* `PortForwarding_proofs`: OneListener: only Forward adds a
  listener, in one step under the mutex, and it looks at both ports of each listener. PortTypesCorrect needs a fact of its own: a listener of events that still
  listens has not used up its failures, or the next one would exceed maxConsecutiveFailures.
* `StateStore_proofs`: StateFileWhole, CopiesCurrent and StoreIsAtomic. CopyIsCurrent is
  the invariant that does the work: who is past the lock holds the mutex, and
  its copy is what the file says. NeverTorn then follows from what rename moves.
* `SubnetAllocator_proofs`: NetworksDisjoint, AddressesUnique and NoSubnetLost: two
  numbers with the same quotient and remainder are equal. NoSubnetLost is about the subnets of base's own /8 (section 6).

### Only model-checked

Liveness, which is out of TLAPS's reach together with ENABLED: ReservationsResolve,
CallsReturn, FirstPortFound, WatchersFollow, StaleEntriesGo, SicknessShows,
RecoveryShows, ConnectionsEnd, DirectionsFlow, OperationEnds and ReaderLearns. The two claims
that TLC refutes (section 5), and the counterexamples of section 6, are TLC's too.

## 5. Disagreements found

* **A dockerd that dies is not restarted at start-up** (`claim_restart`).
  `cmd/serve.go:64` says that Reconcile restarts "any instances that should be
  running". Start begins with `ip netns add`, which fails because the
  namespace, a bind mount, survived the death of dockerd; the instance is marked "error".
* **A teardown removes the rules of instances with a longer name** (`claim_teardown`).
  `netns.go:296` looks for its comment with strings.Contains, and "dockersnap-dev"
  is part of "dockersnap-dev-2": stopping `dev` cuts a running `dev-2` off. docs/DESIGN.md:370
  says "Isolation: Instances cannot interfere with each other".

## 6. What the code does not promise

Properties above hold under the conditions of their run. Beyond them (in
brackets, how to see it in the model):

Instance manager

* With overlapping requests on one instance, dockerd may be up at the ZFS step (a start
  or the restart of another request comes after this one's stop), and the rollback of a
  failed create, which deletes by name, may remove the entry of a newer instance
  [`Exclusive = FALSE` in `lifecycle`: ZfsOpsOnlyWhenStopped, HostOwned].
* A start that fails after SetupNetns leaves the namespace; a failed create leaks it
  [`Faults` with "unit" in `lifecycle`: Restartable, NamespacesDisjoint].
* A revert whose restart fails keeps the labels of snapshots that rollback -r has
  destroyed: the Update that trims them comes after restartDockerd (`manager.go:551`), while
  `tests/e2e/edge_test.go:58` speaks of dropping everything newer "from both ZFS and
  the state file" [`Faults = {"wait"}`: SnapshotsAgree].
* A crash between rollback and cache drop lets Reconcile start dockerd over pages
  that docs/SNAPSHOT-INTERNALS.md:293 says are always dropped [`MaxCrashes = 1`: NoStalePages].
* HostOwned does not survive a failing clean-up: when destroy itself fails
  after a failed clone, the entry goes and the dataset stays [`Faults = {"wait", "destroy"}` and
  `MaxFaults = 2`].
* A placeholder stays when the daemon dies in Phase 2 of a create or clone, and when the Update fails that
  rolls it back or completes it (`manager.go:242` only logs the former): Reconcile passes over an entry of status
  "error", so name and subnet are blocked until somebody deletes the instance
  [`Faults` with "save", or `MaxCrashes = 1`, in `subnets`: ReservationsResolve].
* A deploy may take ten minutes, the request only five (`server.go:83`); the teardown after a
  deploy cut off in this way runs under the same context and is cut off, too.

dockerd manager

* Two API requests that stop different instances run TeardownNetns at once (`netns.go:283`, no lock) and delete by line
  numbers that have moved: they remove rules of each other, or of a third, and leave rules of their own
  [`Alike = {}` in `claim_teardown`: Isolation]. That run's own trace shows the other way to
  the same damage, a name that is part of another; both contradict docs/DESIGN.md:370.
* A pid file left by a killed dockerd may name another process by the time
  IsRunning or stopByPid reads it (`dockerd.go:398`); pids are not modelled.

Port proxy

* A scan in flight adds listeners to an instance that is being, or has been, stopped: the watcher's (`watcher.go:68`), an
  event listener's (`eventlistener.go:218`) and a refresh's (`server.go:261`) read the list of running
  instances, or began, before the stop. So listeners of an instance whose dockerd is down are possible, and no property excludes them.
* `eventlistener.go:166` and `cmd/serve.go:82` call polling the fallback of a listener that
  gave up; but the watcher skips instances that have any port (`watcher.go:72`), so
  only the first port is found that way.
* A listener that fell back to host port p is taken for the instance's forward of
  p (`proxy.go:139`), which then gets none.
* The first direction of a connection to end closes both. A client that half-closes and waits
  for the answer may lose it, and even what it sent before, although `proxy.go:406`
  wants to let the destination "terminate cleanly" [invariant HalfCloseDelivers].
* cmd.Wait closes the pipe of a socat that has exited (`proxy.go:464`), so that the
  end of a reply may be lost.
* If nsenter cannot be started, the proxy dials the port on the host's own loopback
  (`proxy.go:444`) [`ForkFails = TRUE`: OnlyOwnNamespace]. The comment there speaks of
  a missing socat, but it is nsenter that is started, and that runs socat.
* A reader that stalls for ever keeps its connection's goroutines, even when the other
  end has gone, until the port is stopped; ConnectionsEnd exempts this case.

Subnets

* `allocator.go:44` and docs/DESIGN.md:202 promise an error when an index overflows
  into another /8. The code gives none: it carries into the first octet (`allocator.go:72`), and its test expects it to. From
  base 10.10 index 246 gets 11.0.0.0/16. AllUsable therefore demands nothing of the subnets outside base's own /8: it
  neither asks for the error the comment promises nor for the subnet the test expects. With a
  subnet_size that is not a whole number of octets, subnets overlap; with /24
  subnets, instances get the same veth addresses.

Plugins and health

* A cancelled reload disables the plugins it has not run yet; of two overlapping
  reloads the last to finish wins, whatever it read.
* The count of failed health checks survives a delete and re-create between two polls.
* The threshold holds for polls only: the fresh answer the API gives before the first
  poll has none, so that one instance can show unhealthy, then healthy, then unhealthy.

Progress

* Emit drops events when the channel is full, and the last one may be among them: a
  client that stalled and reads on may take a failure for success, while `client.go:339`
  promises an error [invariant FailureReported in `streams`]. For a create the look at the instance
  that follows still notices.
* The reverse: any error event counts, so a delete that succeeded after a failed
  teardown (`workload.go:127`) is reported as failed.
* A process that the plugin leaves behind with its stdout open keeps RunStream waiting beyond its
  timeout (`exec.go:109`); OperationEnds and ReaderLearns exempt this case.
* A plugin that emits Complete itself gives two "complete" events, since the SDK
  adds its own (`plugin.go:242`).
* The SDK exits with 1 when validate finds errors, and Run discards the body of a command that
  failed: the list of errors (`workload.go:84`) is lost for plugins that use the SDK.

## 7. Not modelled

Data that no property looks at: workload inputs and outputs, tags, the contents of
configuration files, log and progress texts, the JSON encoding, names (validate.go
is one regular expression). randomizeHostPorts, which rewrites container files
of a clone. The DNAT rule that a scan adds inside the namespace (`scan.go:108`), which dies with
it. StopAll and ScanFromHostConfig, which nothing calls. The hooks access and describe with
their tokens, which only read. ZFS, docker, iptables, systemd, socat and plugins are modelled
from the way the code uses them, as the external actions of the modules. A failure of the machine
itself: saveLocked does not sync, so what a power cut leaves is up to the file
system. Plugins, command line, configuration, dashboard and
deployment are listed in `PROJECT.json` with the reason.

The composition of `InstanceManager` with the modules that open up its steps is left
to reading: the product is out of TLC's reach (`lifecycle_crash` alone has 1.6
million states), and the steps meet in few variables. What each of these modules assumes of the manager
(one call per instance at a time in `NetnsRules`, the two halves of a stop in
`PortForwarding`) is said in its header.

## 8. Plan

Done: the manager and its registry, the store, the allocator, namespaces and their rules,
listeners and connections, poller and plugins, the stream of events; the theorems of section 4.

What is left, in this order:

1. `InstanceManager` under crashes: weaker forms of NamespacesDisjoint and SnapshotsAgree
   that a daemon which dies anywhere still keeps (after Reconcile, for the instances it
   brought up), first as properties for TLC.
2. The assumptions that link the modules, as lemmas: that a manager with `Exclusive` never has two
   calls of Start or Stop for one instance at work, as `NetnsRules` takes it, and that a
   stop closes the listeners before dockerd, as `PortForwarding` does.
3. `NetnsRules`: an invariant that relates namespaces and veths to the calls at work, so
   that what a failed set-up leaves is bounded; first as a property for TLC.
