--------------------------- MODULE InstanceManager ---------------------------
(***************************************************************************)
(* The instance manager of the dockersnap daemon (internal/instance):      *)
(* concurrent API requests create, clone, delete, snapshot, revert, start  *)
(* and stop instances.  Every request reads or updates the JSON state file *)
(* in short atomic sections (state.Store) and does the slow work -- ZFS,   *)
(* network namespaces, dockerd units, port forwards -- in between, without *)
(* any lock.  The daemon may crash between two steps; on restart Reconcile *)
(* runs before the API serves.                                             *)
(*                                                                         *)
(* A request that fails its precondition inside the first View or Update   *)
(* changes nothing and returns an error: it is a stuttering step and has   *)
(* no action.                                                              *)
(***************************************************************************)
EXTENDS Integers, Sequences, FiniteSets, Functions

CONSTANTS
    Names,          \* instance names
    Labels,         \* snapshot labels
    Requests,       \* API request goroutines
    Boot,           \* the daemon's start-up goroutine (Reconcile)
    None,           \* no name, no label, no index
    MaxSubnetIndex, \* last index SubnetForIndexChecked accepts
    Exclusive,      \* TRUE: clients send one request at a time per instance
    Offered,        \* the operations clients send
    Faults,         \* the kinds of external step that may fail
    MaxFaults,      \* bound on injected failures, cancellations and deaths
    MaxCrashes      \* bound on daemon crashes

FaultKinds == {"zfs", "destroy", "exists", "netns", "unit", "wait", "stop",
               "drop", "deploy", "save", "cancel", "death"}

Ops == {"none", "create", "clone", "delete", "snapshot", "revert", "start",
        "stop", "reconcile"}

ASSUME ActorsAssumption == Boot \notin Requests
ASSUME NoneAssumption == None \notin Names \cup Labels \cup Nat
ASSUME BoundsAssumption ==
    /\ MaxSubnetIndex \in Nat /\ MaxFaults \in Nat /\ MaxCrashes \in Nat
    /\ Exclusive \in BOOLEAN
    /\ Faults \subseteq FaultKinds
    /\ Offered \subseteq Ops

VARIABLES
    \* the state file
    known,      \* names with an entry in State.Instances
    inst,       \* the entries
    nextIndex,  \* State.NextSubnetIndex
    \* the host
    datasets,   \* instances whose ZFS dataset exists
    zsnaps,     \* the dataset's snapshots, oldest first
    origin,     \* the dataset a clone depends on, with the snapshot
    unit,       \* instances whose dockerd unit is active
    netns,      \* subnet index a network namespace was set up with
    stale,      \* datasets rolled back under page cache not dropped since
    \* the daemon's memory
    pc, job,    \* the step and the local variables of each goroutine
    cancelled,  \* requests whose context is done
    boot,       \* Reconcile's local variables
    \* bounds
    faults, crashes

storeVars == <<known, inst, nextIndex>>
zfsVars == <<datasets, zsnaps, origin>>
hostVars == <<zfsVars, unit, netns, stale>>
vars == <<storeVars, hostVars, pc, job, cancelled, boot, faults, crashes>>

Actors == Requests \cup {Boot}
Statuses == {"running", "stopped", "error"}

Entry == [idx : Nat, status : Statuses, snaps : Seq(Labels)]
Blank == [idx |-> 0, status |-> "error", snaps |-> <<>>]

\* Local variables of a request: the copy of the entry it took, and whether
\* the ZFS operation failed.
NoJob == [op |-> "none", name |-> None, src |-> None, label |-> None,
          idx |-> 0, failed |-> FALSE]
NoBoot == [todo |-> {}, up |-> {}, errs |-> {}]

PCs == {"idle", "validate", "dataset", "netns", "unit", "wait", "deploy",
        "scan", "commit", "unforward", "probe", "stop", "zfs", "drop",
        "destroy", "forget", "rollback", "load", "pick"}

-----------------------------------------------------------------------------
(* Helpers *)

\* The labels of s up to the first l, all of them if there is none: Revert's
\* loop over the labels, and what "zfs rollback -r" leaves.
UpTo(s, l) ==
    SubSeq(s, 1, Cardinality({i \in 1 .. Len(s) : \A j \in 1 .. i - 1 : s[j] # l}))

UsedIndexes == {inst[n].idx : n \in known}

\* Mutant: the index is the number of instances.
CountingIndex(i) == i = Cardinality(known)

\* i is what NextFreeSubnetIndex returns: the lowest index no entry uses, 0
\* for an empty state, and NextSubnetIndex if every lower one is taken.
IsNextFreeIndex(i) ==
    IF known = {} THEN i = 0
    ELSE \/ i \in 0 .. nextIndex /\ i \notin UsedIndexes /\ 0 .. i - 1 \subseteq UsedIndexes
         \/ i = nextIndex /\ 0 .. nextIndex \subseteq UsedIndexes

Serving == pc[Boot] = "idle"
InFlight(n) == \E a \in Requests : n \in {job[a].name, job[a].src}
Idle == \A a \in Actors : pc[a] = "idle"

\* A request for the instances S may start.
MayStart(a, op, S) ==
    /\ Serving /\ pc[a] = "idle" /\ op \in Offered
    /\ Exclusive => \A n \in S : ~InFlight(n)

Goto(a, p) == pc' = [pc EXCEPT ![a] = p]

\* Return to the client.
Return(a) ==
    /\ Goto(a, "idle")
    /\ job' = [job EXCEPT ![a] = NoJob]
    /\ cancelled' = cancelled \ {a}

\* An external command fails: its context is done, or an injected fault.
Fails(kind) == /\ kind \in Faults /\ faults < MaxFaults /\ faults' = faults + 1
CmdFails(a, kind) == \/ a \in cancelled /\ UNCHANGED faults
                     \/ a \notin cancelled /\ Fails(kind)
CmdWorks(a) == a \notin cancelled /\ UNCHANGED faults

\* The context ends while the command runs: it is killed and reported as
\* failed, but had already taken effect.
CmdKilled(a) == a \in cancelled /\ UNCHANGED faults

\* The request leaves the client and takes its first step.
Begin(a, p, j) ==
    /\ Goto(a, p)
    /\ job' = [job EXCEPT ![a] = j]
    /\ UNCHANGED <<hostVars, cancelled, boot, faults, crashes>>

Init ==
    /\ known = {} /\ inst = [n \in Names |-> Blank] /\ nextIndex = 0
    /\ datasets = {} /\ zsnaps = [n \in Names |-> <<>>]
    /\ origin = [n \in Names |-> None]
    /\ unit = {} /\ netns = [n \in Names |-> None] /\ stale = {}
    /\ pc = [a \in Actors |-> IF a = Boot THEN "load" ELSE "idle"]
    /\ job = [a \in Actors |-> NoJob]
    /\ cancelled = {} /\ boot = NoBoot /\ faults = 0 /\ crashes = 0

-----------------------------------------------------------------------------
(* Phase 1 of Create and Clone: reserve the name and a subnet index under   *)
(* the store lock.                                                          *)

\* Mutant: the existence check is missing.
UncheckedReserve(n, i) ==
    /\ IsNextFreeIndex(i) /\ i <= MaxSubnetIndex
    /\ known' = known \cup {n}
    /\ inst' = [inst EXCEPT ![n] = [idx |-> i, status |-> "error", snaps |-> <<>>]]
    /\ nextIndex' = IF i >= nextIndex THEN i + 1 ELSE nextIndex

\* Mutant: NextSubnetIndex is raised one index too late.
LateReserve(n, i) ==
    /\ n \notin known
    /\ IsNextFreeIndex(i) /\ i <= MaxSubnetIndex
    /\ known' = known \cup {n}
    /\ inst' = [inst EXCEPT ![n] = [idx |-> i, status |-> "error", snaps |-> <<>>]]
    /\ nextIndex' = IF i > nextIndex THEN i + 1 ELSE nextIndex

Reserve(n, i) ==
    /\ n \notin known
    /\ IsNextFreeIndex(i) /\ i <= MaxSubnetIndex
    /\ known' = known \cup {n}
    /\ inst' = [inst EXCEPT ![n] = [idx |-> i, status |-> "error", snaps |-> <<>>]]
    /\ nextIndex' = IF i >= nextIndex THEN i + 1 ELSE nextIndex

CreateReserve(a, n) ==
    \E i \in 0 .. MaxSubnetIndex :
        /\ MayStart(a, "create", {n})
        /\ Reserve(n, i)
        /\ Begin(a, "validate", [NoJob EXCEPT !.op = "create", !.name = n, !.idx = i])

CloneReserve(a, src, l, n) ==
    \E i \in 0 .. MaxSubnetIndex :
        /\ MayStart(a, "clone", {src, n})
        /\ src \in known /\ l \in Range(inst[src].snaps)
        /\ Reserve(n, i)
        /\ Begin(a, "dataset", [NoJob EXCEPT !.op = "clone", !.name = n, !.src = src,
                                            !.label = l, !.idx = i])

(* The other requests begin with a View that copies the entry. *)

View(a, n, op, l, p) ==
    /\ MayStart(a, op, {n})
    /\ n \in known
    /\ Begin(a, p, [NoJob EXCEPT !.op = op, !.name = n, !.label = l, !.idx = inst[n].idx])
    /\ UNCHANGED storeVars

DeleteView(a, n) == View(a, n, "delete", None, "unforward")
StartView(a, n) == View(a, n, "start", None, "probe")
StopView(a, n) == View(a, n, "stop", None, "probe")
SnapshotView(a, n, l) ==
    l \notin Range(inst[n].snaps) /\ View(a, n, "snapshot", l, "unforward")
RevertView(a, n, l) ==
    l \in Range(inst[n].snaps) /\ View(a, n, "revert", l, "unforward")

-----------------------------------------------------------------------------
(* Plugin hooks: only their outcome matters here. *)

\* An instance bound to a plugin is validated before any I/O; failure rolls
\* the reservation back.
Validate(a) ==
    /\ pc[a] = "validate"
    /\ \/ Goto(a, "dataset") /\ UNCHANGED faults
       \/ job[a].name \in known /\ CmdFails(a, "deploy") /\ Goto(a, "rollback")
    /\ UNCHANGED <<storeVars, hostVars, job, cancelled, boot, crashes>>

\* The deploy hook; without an entry in the state file it is skipped.
Deploy(a) ==
    /\ pc[a] = "deploy"
    /\ \/ Goto(a, "commit") /\ UNCHANGED faults
       \/ job[a].name \in known /\ CmdFails(a, "deploy") /\ Goto(a, "stop")
    /\ UNCHANGED <<storeVars, hostVars, job, cancelled, boot, crashes>>

-----------------------------------------------------------------------------
(* ZFS, as the zfs command behaves: create -p succeeds on an existing       *)
(* dataset, a dataset with dependent clones or one in use by dockerd cannot *)
(* be destroyed, rollback -r destroys the newer snapshots unless one of     *)
(* them has a clone.                                                        *)

HasClones(n, labels) ==
    \E m \in datasets : origin[m] # None /\ origin[m].name = n /\ origin[m].label \in labels

\* "zfs create -p" or "zfs clone" of a new instance's dataset.
MakeDataset(a) ==
    LET n == job[a].name
        source == [name |-> job[a].src, label |-> job[a].label]
        cloneable == /\ n \notin datasets /\ source.name \in datasets
                     /\ source.label \in Range(zsnaps[source.name])
    IN
    /\ pc[a] = "dataset"
    /\ \/ /\ job[a].op = "create" \/ cloneable
          /\ datasets' = datasets \cup {n}
          /\ origin' = IF job[a].op = "clone" THEN [origin EXCEPT ![n] = source] ELSE origin
          /\ \/ CmdWorks(a) /\ Goto(a, "netns")
             \/ CmdKilled(a) /\ Goto(a, "rollback")
       \/ /\ job[a].op = "clone" /\ ~cloneable /\ UNCHANGED faults
          /\ Goto(a, "rollback") /\ UNCHANGED <<datasets, origin>>
       \/ CmdFails(a, "zfs") /\ Goto(a, "rollback") /\ UNCHANGED <<datasets, origin>>
    /\ UNCHANGED <<storeVars, zsnaps, unit, netns, stale, job, cancelled, boot, crashes>>

\* Snapshot or Revert, between the stop and the restart of dockerd.  On
\* failure dockerd is restarted all the same.
ZfsOp(a) ==
    LET n == job[a].name
        l == job[a].label
        newer == Range(zsnaps[n]) \ Range(UpTo(zsnaps[n], l))
        snapshotable == n \in datasets /\ l \notin Range(zsnaps[n])
        revertible == n \in datasets /\ l \in Range(zsnaps[n]) /\ ~HasClones(n, newer)
        failed == Goto(a, "netns") /\ job' = [job EXCEPT ![a].failed = TRUE]
        then(p) == \/ CmdWorks(a) /\ Goto(a, p) /\ UNCHANGED job
                   \/ CmdKilled(a) /\ failed
    IN
    /\ pc[a] = "zfs"
    /\ \/ /\ job[a].op = "snapshot" /\ snapshotable /\ then("netns")
          /\ zsnaps' = [zsnaps EXCEPT ![n] = Append(@, l)]
          /\ UNCHANGED stale
       \/ /\ job[a].op = "revert" /\ revertible /\ then("drop")
          /\ zsnaps' = [zsnaps EXCEPT ![n] = UpTo(@, l)]
          /\ stale' = stale \cup {n}
       \/ /\ job[a].op = "snapshot" /\ ~snapshotable /\ UNCHANGED faults
          /\ failed /\ UNCHANGED <<zsnaps, stale>>
       \/ /\ job[a].op = "revert" /\ ~revertible /\ UNCHANGED faults
          /\ failed /\ UNCHANGED <<zsnaps, stale>>
       \/ CmdFails(a, "zfs") /\ failed /\ UNCHANGED <<zsnaps, stale>>
    /\ UNCHANGED <<storeVars, datasets, origin, unit, netns, cancelled, boot, crashes>>

\* Mutant: Revert does not ask for the drop (dropPage: false).
NoDropCaches(a) ==
    /\ pc[a] = "drop" /\ Goto(a, "netns")
    /\ UNCHANGED <<storeVars, hostVars, job, cancelled, boot, faults, crashes>>

\* Revert drops the kernel's page cache; a failure is only logged.
DropCaches(a) ==
    /\ pc[a] = "drop"
    /\ \/ CmdWorks(a) /\ stale' = {}
       \/ CmdFails(a, "drop") /\ UNCHANGED stale
    /\ Goto(a, "netns")
    /\ UNCHANGED <<storeVars, zfsVars, unit, netns, job, cancelled, boot, crashes>>

\* Mutant: every error of the destroy is only logged.
CarelessDestroy(a) ==
    LET n == job[a].name
        ok == n \in datasets /\ n \notin unit /\ ~HasClones(n, Labels)
    IN
    /\ pc[a] = "destroy"
    /\ datasets' = IF ok THEN datasets \ {n} ELSE datasets
    /\ zsnaps' = IF ok THEN [zsnaps EXCEPT ![n] = <<>>] ELSE zsnaps
    /\ origin' = IF ok THEN [origin EXCEPT ![n] = None] ELSE origin
    /\ Goto(a, IF job[a].op = "delete" THEN "forget" ELSE "rollback")
    /\ UNCHANGED <<storeVars, unit, netns, stale, job, cancelled, boot, faults, crashes>>

\* "zfs destroy -r", by Delete and by the cleanup of a failed Create or
\* Clone.  The cleanup only logs an error; Delete tolerates an absent
\* dataset and otherwise gives up, leaving the entry.
Destroy(a) ==
    LET n == job[a].name
        cleanup == job[a].op \in {"create", "clone"}
        blocked == n \in unit \/ HasClones(n, Labels)
        next == Goto(a, IF cleanup THEN "rollback" ELSE "forget") /\ UNCHANGED <<job, cancelled>>
        failed == IF cleanup THEN next ELSE Return(a)
    IN
    /\ pc[a] = "destroy"
    /\ \/ /\ n \in datasets /\ ~blocked
          /\ datasets' = datasets \ {n}
          /\ zsnaps' = [zsnaps EXCEPT ![n] = <<>>]
          /\ origin' = [origin EXCEPT ![n] = None]
          /\ \/ CmdWorks(a) /\ next
             \/ CmdKilled(a) /\ failed
       \/ n \notin datasets /\ CmdWorks(a) /\ next /\ UNCHANGED zfsVars
       \/ n \in datasets /\ blocked /\ UNCHANGED faults /\ failed /\ UNCHANGED zfsVars
       \/ CmdFails(a, "destroy") /\ failed /\ UNCHANGED zfsVars
    /\ UNCHANGED <<storeVars, unit, netns, stale, boot, crashes>>

-----------------------------------------------------------------------------
(* dockerd.Start: network namespace, systemd unit, wait for the socket.     *)

\* Mutant: Reconcile forgets to report the failure.
SilentStartFailed(a) ==
    /\ UNCHANGED boot
    /\ \/ job[a].op \in {"create", "clone"} /\ Goto(a, "destroy") /\ UNCHANGED <<job, cancelled>>
       \/ job[a].op \in {"start", "snapshot", "revert"} /\ Return(a)
       \/ /\ job[a].op = "reconcile" /\ Goto(a, "pick")
          /\ job' = [job EXCEPT ![a] = NoJob] /\ UNCHANGED cancelled

\* Start returned an error.  The namespace it set up is not removed.
StartFailed(a) ==
    \/ /\ job[a].op \in {"create", "clone"}
       /\ Goto(a, "destroy") /\ UNCHANGED <<job, cancelled, boot>>
    \/ /\ job[a].op \in {"start", "snapshot", "revert"}
       /\ Return(a) /\ UNCHANGED boot
    \/ /\ job[a].op = "reconcile"
       /\ Goto(a, "pick")
       /\ job' = [job EXCEPT ![a] = NoJob]
       /\ boot' = [boot EXCEPT !.errs = @ \cup {job[a].name}]
       /\ UNCHANGED cancelled

\* "ip netns add" fails if the namespace exists.  Errors later in SetupNetns
\* remove it again, unless the context is done and the removal fails too.
SetupNetns(a) ==
    LET n == job[a].name IN
    /\ pc[a] = "netns"
    /\ \/ /\ netns[n] = None /\ CmdWorks(a)
          /\ netns' = [netns EXCEPT ![n] = job[a].idx]
          /\ Goto(a, "unit") /\ UNCHANGED <<job, cancelled, boot>>
       \/ /\ netns[n] # None /\ UNCHANGED faults
          /\ UNCHANGED netns /\ StartFailed(a)
       \/ /\ CmdFails(a, "netns")
          /\ \/ UNCHANGED netns
             \/ /\ a \in cancelled /\ netns[n] = None
                /\ netns' = [netns EXCEPT ![n] = job[a].idx]
          /\ StartFailed(a)
    /\ UNCHANGED <<storeVars, zfsVars, unit, stale, crashes>>

\* systemd-run refuses a unit name that is active, and returns before dockerd
\* is up: without its namespace the unit dies at once.
StartUnit(a) ==
    LET n == job[a].name IN
    /\ pc[a] = "unit"
    /\ \/ /\ n \notin unit
          /\ unit' = IF netns[n] = None THEN unit ELSE unit \cup {n}
          /\ \/ CmdWorks(a) /\ Goto(a, "wait") /\ UNCHANGED <<job, cancelled, boot>>
             \/ CmdKilled(a) /\ StartFailed(a)
       \/ n \in unit /\ UNCHANGED <<faults, unit>> /\ StartFailed(a)
       \/ CmdFails(a, "unit") /\ UNCHANGED unit /\ StartFailed(a)
    /\ UNCHANGED <<storeVars, zfsVars, netns, stale, crashes>>

\* waitForSocket; on timeout or cancellation the unit is stopped (without the
\* request's context), the namespace stays.  That stop may fail as well.
WaitForSocket(a) ==
    LET n == job[a].name IN
    /\ pc[a] = "wait"
    /\ \/ /\ n \in unit /\ CmdWorks(a)
          /\ Goto(a, IF job[a].op = "create" THEN "deploy" ELSE "scan")
          /\ UNCHANGED <<unit, job, cancelled, boot>>
       \/ n \notin unit /\ UNCHANGED <<faults, unit>> /\ StartFailed(a)
       \/ /\ n \in unit /\ CmdFails(a, "wait") /\ StartFailed(a)
          /\ \/ unit' = unit \ {n}
             \/ "stop" \in Faults /\ UNCHANGED unit
    /\ UNCHANGED <<storeVars, zfsVars, netns, stale, crashes>>

\* Mutant: Stop leaves the network namespace.
LeakyStop(a) ==
    /\ pc[a] = "stop"
    /\ unit' = unit \ {job[a].name}
    /\ Goto(a, IF job[a].op \in {"create", "delete"} THEN "destroy"
               ELSE IF job[a].op = "stop" THEN "commit" ELSE "zfs")
    /\ UNCHANGED <<storeVars, zfsVars, netns, stale, job, cancelled, boot, faults, crashes>>

\* dockerd.Stop always reports success.  A fault: neither systemd nor the pid
\* file stopped dockerd.  When the context is done dockerd is killed by its
\* pid and the namespace is left behind.
StopDockerd(a) ==
    LET n == job[a].name
        next == IF job[a].op \in {"create", "delete"} THEN "destroy"
                ELSE IF job[a].op = "stop" THEN "commit" ELSE "zfs"
        down == unit' = unit \ {n}
        teardown == netns' = [netns EXCEPT ![n] = None]
    IN
    /\ pc[a] = "stop"
    /\ \/ CmdWorks(a) /\ down /\ teardown
       \/ a \in cancelled /\ down /\ UNCHANGED <<netns, faults>>
       \/ a \notin cancelled /\ Fails("stop") /\ UNCHANGED unit /\ teardown
       \/ a \in cancelled /\ Fails("stop") /\ UNCHANGED <<unit, netns>>
    /\ Goto(a, next)
    /\ UNCHANGED <<storeVars, zfsVars, stale, job, cancelled, boot, crashes>>

\* IsRunning decides: Delete skips the stop of a dockerd that is down, Start
\* refuses a running instance and Stop one that is not.
ProbeUnit(a) ==
    LET running == job[a].name \in unit
        leave == CASE job[a].op = "start" -> running
                   [] job[a].op = "stop" -> ~running
                   [] OTHER -> FALSE
        next == CASE job[a].op = "start" -> "netns"
                  [] job[a].op = "stop" -> "unforward"
                  [] OTHER -> IF running THEN "stop" ELSE "destroy"
    IN
    /\ pc[a] = "probe"
    /\ \/ leave /\ Return(a)
       \/ ~leave /\ Goto(a, next) /\ UNCHANGED <<job, cancelled>>
    /\ UNCHANGED <<storeVars, hostVars, boot, faults, crashes>>

-----------------------------------------------------------------------------
(* Port forwards.  The listeners are the state of module PortForwarding: the *)
(* watcher and the event listeners add to them beside the requests.  Here    *)
(* taking them down and putting them up are steps a request goes through.    *)

\* Mutant: Snapshot works on a live dockerd.
LiveUnforward(a) ==
    /\ pc[a] = "unforward"
    /\ Goto(a, CASE job[a].op = "delete" -> "probe"
                 [] job[a].op = "snapshot" -> "zfs"
                 [] OTHER -> "stop")
    /\ UNCHANGED <<storeVars, hostVars, job, cancelled, boot, faults, crashes>>

\* proxy.StopInstance
Unforward(a) ==
    /\ pc[a] = "unforward"
    /\ Goto(a, IF job[a].op = "delete" THEN "probe" ELSE "stop")
    /\ UNCHANGED <<storeVars, hostVars, job, cancelled, boot, faults, crashes>>

\* SetupPortForwarding, which cannot fail a request.  After the restart that
\* follows a failed ZFS operation the request ends here.
Scan(a) ==
    /\ pc[a] = "scan"
    /\ \/ /\ job[a].op = "reconcile"
          /\ Goto(a, "pick") /\ job' = [job EXCEPT ![a] = NoJob] /\ UNCHANGED cancelled
       \/ job[a].op # "reconcile" /\ job[a].failed /\ Return(a)
       \/ /\ job[a].op # "reconcile" /\ ~job[a].failed
          /\ Goto(a, "commit") /\ UNCHANGED <<job, cancelled>>
    /\ UNCHANGED <<storeVars, hostVars, boot, faults, crashes>>

-----------------------------------------------------------------------------
(* The Updates that end a request. *)

\* Mutant: Revert keeps the labels of the destroyed snapshots.
UntrimmedCommitted(e, j) ==
    CASE j.op = "stop" -> [e EXCEPT !.status = "stopped"]
      [] j.op = "snapshot" -> [e EXCEPT !.status = "running", !.snaps = Append(@, j.label)]
      [] OTHER -> [e EXCEPT !.status = "running"]

\* Mutant: Start writes a status that is none of the three.
StartingCommitted(e, j) ==
    CASE j.op = "stop" -> [e EXCEPT !.status = "stopped"]
      [] j.op = "start" -> [e EXCEPT !.status = "starting"]
      [] j.op = "snapshot" -> [e EXCEPT !.status = "running", !.snaps = Append(@, j.label)]
      [] OTHER -> [e EXCEPT !.status = "running", !.snaps = UpTo(@, j.label)]

\* Mutant: the newest label is put first.
NewestFirstCommitted(e, j) ==
    CASE j.op = "stop" -> [e EXCEPT !.status = "stopped"]
      [] j.op = "snapshot" -> [e EXCEPT !.status = "running", !.snaps = <<j.label>> \o @]
      [] OTHER -> [e EXCEPT !.status = "running"]

\* The entry as the final Update leaves it.
Committed(e, j) ==
    CASE j.op = "stop" -> [e EXCEPT !.status = "stopped"]
      [] j.op = "snapshot" -> [e EXCEPT !.status = "running", !.snaps = Append(@, j.label)]
      [] j.op = "revert" ->
            [e EXCEPT !.status = "running", !.snaps = UpTo(@, j.label)]
      [] OTHER -> [e EXCEPT !.status = "running"]

\* An entry that disappeared, or a state file that cannot be written, is an
\* error to the client; nothing is undone.
Commit(a) ==
    LET n == job[a].name IN
    /\ pc[a] = "commit"
    /\ \/ /\ n \in known /\ UNCHANGED faults
          /\ inst' = [inst EXCEPT ![n] = Committed(@, job[a])]
       \/ n \notin known /\ UNCHANGED <<faults, inst>>
       \/ Fails("save") /\ UNCHANGED inst
    /\ Return(a)
    /\ UNCHANGED <<known, nextIndex, hostVars, boot, crashes>>

\* delete(st.Instances, name): the rollback closure of Create and Clone, and
\* the end of Delete.  Neither looks at the entry it deletes.
DropEntry(a) ==
    LET n == job[a].name IN
    /\ \/ /\ UNCHANGED faults
          /\ known' = known \ {n}
          /\ inst' = [inst EXCEPT ![n] = Blank]
       \/ Fails("save") /\ UNCHANGED <<known, inst>>
    /\ Return(a)
    /\ UNCHANGED <<nextIndex, hostVars, boot, crashes>>

\* Mutant: the placeholder stays.
NoRollback(a) ==
    /\ pc[a] = "rollback" /\ Return(a)
    /\ UNCHANGED <<storeVars, hostVars, boot, faults, crashes>>

Rollback(a) == pc[a] = "rollback" /\ DropEntry(a)
Forget(a) == pc[a] = "forget" /\ DropEntry(a)

-----------------------------------------------------------------------------
(* Reconcile, on start-up, before the API serves. *)

ReconcileLoad ==
    /\ pc[Boot] = "load"
    /\ boot' = [todo |-> known, up |-> known \cap unit, errs |-> {}]
    /\ Goto(Boot, "pick")
    /\ UNCHANGED <<storeVars, hostVars, job, cancelled, faults, crashes>>

\* The next instance of the copied list: an absent dataset is an error, an
\* instance that should run is started or, if up, forwarded again.
ReconcilePick(n) ==
    LET handle(p) == /\ Goto(Boot, p)
                     /\ job' = [job EXCEPT ![Boot] = [NoJob EXCEPT !.op = "reconcile",
                                                      !.name = n, !.idx = inst[n].idx]]
        skip == UNCHANGED <<pc, job>>
    IN
    /\ pc[Boot] = "pick" /\ n \in boot.todo
    /\ \/ /\ n \in datasets /\ UNCHANGED faults
          /\ boot' = [boot EXCEPT !.todo = @ \ {n}]
          /\ IF inst[n].status # "running" THEN skip
             ELSE IF n \in boot.up THEN handle("scan") ELSE handle("netns")
       \/ /\ (n \notin datasets /\ UNCHANGED faults) \/ Fails("exists")
          /\ boot' = [boot EXCEPT !.todo = @ \ {n}, !.errs = @ \cup {n}]
          /\ skip
    /\ UNCHANGED <<storeVars, hostVars, cancelled, crashes>>

ReconcileCommit ==
    /\ pc[Boot] = "pick" /\ boot.todo = {}
    /\ \/ /\ UNCHANGED faults
          /\ inst' = [n \in Names |-> IF n \in boot.errs \cap known
                                      THEN [inst[n] EXCEPT !.status = "error"] ELSE inst[n]]
       \/ boot.errs # {} /\ Fails("save") /\ UNCHANGED inst
    /\ boot' = NoBoot
    /\ Goto(Boot, "idle")
    /\ UNCHANGED <<known, nextIndex, hostVars, job, cancelled, crashes>>

-----------------------------------------------------------------------------
(* The environment. *)

\* The client goes away or the API's timeout expires: r.Context() is done.
Cancel(a) ==
    /\ pc[a] # "idle" /\ a \notin cancelled
    /\ Fails("cancel")
    /\ cancelled' = cancelled \cup {a}
    /\ UNCHANGED <<storeVars, hostVars, pc, job, boot, crashes>>

\* A dockerd dies by itself; its namespace, a bind mount, survives it.
DockerdDies(n) ==
    /\ n \in unit /\ Fails("death")
    /\ unit' = unit \ {n}
    /\ UNCHANGED <<storeVars, zfsVars, netns, stale, pc, job, cancelled, boot, crashes>>

\* The daemon dies and systemd restarts it: its memory is lost, the state
\* file and the host stay, dockerd units included.
Crash ==
    /\ crashes < MaxCrashes
    /\ crashes' = crashes + 1
    /\ pc' = [a \in Actors |-> IF a = Boot THEN "load" ELSE "idle"]
    /\ job' = [a \in Actors |-> NoJob]
    /\ cancelled' = {} /\ boot' = NoBoot
    /\ UNCHANGED <<storeVars, zfsVars, unit, netns, stale, faults>>

-----------------------------------------------------------------------------
Submit(a) ==
    \E n \in Names :
        \/ CreateReserve(a, n)
        \/ DeleteView(a, n) \/ StartView(a, n) \/ StopView(a, n)
        \/ \E l \in Labels :
              \/ SnapshotView(a, n, l) \/ RevertView(a, n, l)
              \/ \E src \in Names : CloneReserve(a, src, l, n)

StartSteps(a) == SetupNetns(a) \/ StartUnit(a) \/ WaitForSocket(a) \/ Scan(a)

RequestStep(a) ==
    \/ Validate(a) \/ MakeDataset(a) \/ StartSteps(a) \/ Deploy(a)
    \/ Unforward(a) \/ ProbeUnit(a) \/ StopDockerd(a) \/ ZfsOp(a) \/ DropCaches(a)
    \/ Destroy(a) \/ Commit(a) \/ Rollback(a) \/ Forget(a)

ReconcileStep ==
    \/ ReconcileLoad \/ ReconcileCommit \/ StartSteps(Boot)
    \/ \E n \in Names : ReconcilePick(n)

Next ==
    \/ \E a \in Requests : Submit(a) \/ RequestStep(a) \/ Cancel(a)
    \/ ReconcileStep
    \/ \E n \in Names : DockerdDies(n)
    \/ Crash

Spec == Init /\ [][Next]_vars

\* A goroutine that can take a step does; nobody has to send requests, and
\* nothing has to fail.
FairSpec == Spec /\ WF_vars(ReconcileStep) /\ \A a \in Requests : WF_vars(RequestStep(a))

-----------------------------------------------------------------------------
(* Properties *)

StoreTypeOK ==
    /\ known \subseteq Names
    /\ inst \in [Names -> Entry]
    /\ nextIndex \in Nat

HostTypeOK ==
    /\ datasets \subseteq Names
    /\ zsnaps \in [Names -> Seq(Labels)]
    /\ origin \in [Names -> {None} \cup [name : Names, label : Labels]]
    /\ unit \subseteq Names /\ stale \subseteq Names
    /\ netns \in [Names -> Nat \cup {None}]

Job == [op : Ops, name : Names \cup {None}, src : Names \cup {None},
        label : Labels \cup {None}, idx : Nat, failed : BOOLEAN]

MemoryTypeOK ==
    /\ pc \in [Actors -> PCs]
    /\ job \in [Actors -> Job]
    /\ cancelled \subseteq Requests
    /\ boot \in [todo : SUBSET Names, up : SUBSET Names, errs : SUBSET Names]

\* The types of the state file, of the host's state and of the daemon's memory.
TypeOK == StoreTypeOK /\ HostTypeOK /\ MemoryTypeOK /\ faults \in Nat /\ crashes \in Nat

\* A goroutine at work has the arguments its operation needs.
JobOK ==
    \A a \in Actors :
        /\ pc[a] \notin {"idle", "load", "pick"} => job[a].name \in Names
        /\ job[a].op \in {"clone", "snapshot", "revert"} => job[a].label \in Labels
        /\ job[a].op = "clone" => job[a].src \in Names

\* Indexes in use are below NextSubnetIndex, where NextFreeSubnetIndex looks.
IndexesBelowNext == \A n \in known : inst[n].idx < nextIndex

\* No two entries of the state file hold the same subnet index, whatever
\* requests overlap, fail or are cut off by a crash: Phase 1 of Create and
\* Clone picks and records the index in one Update.
UniqueSubnets ==
    \A m, n \in known : m # n => inst[m].idx # inst[n].idx

\* The index given out is always the lowest free one, and an entry keeps its
\* index until it is deleted: the state file implements the registry, though
\* NextFreeSubnetIndex only looks below NextSubnetIndex.
Leases == [n \in Names |-> IF n \in known THEN inst[n].idx ELSE None]
Registry == INSTANCE SubnetRegistry WITH leases <- Leases
RegistrySpec == Registry!Spec

\* Whenever the daemon crashes, and when one command fails before or after,
\* no dataset and no dockerd unit outlives its entry: reservation comes first
\* and removal last, so that the instance can still be deleted by name.  Three
\* failures break it and are left out: a destroy failing in the clean-up of a
\* failed Create, a dockerd that cannot be stopped, and a context that ends.
HostOwned == datasets \cup unit \subseteq known

\* Two network namespaces never carry the same subnet, so their veth pairs
\* never carry the same addresses: a subnet is free for the next instance
\* only when its last namespace is gone.
NamespacesDisjoint ==
    \A m, n \in Names : m # n /\ netns[m] # None => netns[m] # netns[n]

\* An instance at rest with its dockerd down can be started: Start's
\* "ip netns add" will not find a namespace left by an earlier attempt.
Restartable ==
    \A n \in known : Serving /\ ~InFlight(n) /\ n \notin unit => netns[n] = None

\* With no request under way an instance has its dataset, is past its
\* placeholder status, and a dockerd that is up runs in the namespace of the
\* instance's own subnet: each multi-step request leaves the state file and the
\* host in agreement also when a ZFS command, a step of dockerd's start or a
\* plugin hook failed.  A dockerd that cannot be stopped, a state file that
\* cannot be written, a context that ends and a crash break it.
Settled ==
    \A n \in known : Serving /\ ~InFlight(n) =>
        /\ inst[n].status # "error" /\ n \in datasets
        /\ n \in unit => netns[n] = inst[n].idx

\* At rest the labels in the state file are the snapshots ZFS has, in order:
\* Snapshot, Revert and Clone keep both lists together.
SnapshotsAgree ==
    \A n \in known : Serving /\ ~InFlight(n) => inst[n].snaps = zsnaps[n]

\* Even after failures and crashes have let the two lists diverge, labels
\* present in both are in the same order, so that Revert's trim of the state
\* file never drops a snapshot that rollback -r kept.
SnapshotOrderAgrees ==
    \A n \in known \cap datasets :
        LET s == inst[n].snaps
            z == zsnaps[n]
        IN \A i, j \in 1 .. Len(s) : \A k, m \in 1 .. Len(z) :
              i < j /\ s[i] = z[k] /\ s[j] = z[m] => k < m

\* ZFS snapshots are taken and rolled back only while the instance's dockerd
\* is down (runStoppedZFSOp).
ZfsOpsOnlyWhenStopped ==
    [][\A n \in datasets \cap datasets' : zsnaps'[n] # zsnaps[n] => n \notin unit]_vars

\* No dockerd runs over a dataset that was rolled back under page cache not
\* dropped since.
NoStalePages == unit \cap stale = {}

\* When Reconcile is done, every entry that still says "running" has its
\* dockerd up; one it could not bring up says "error".
ReconcileReports ==
    [][pc[Boot] = "pick" /\ pc'[Boot] = "idle" =>
          \A n \in known : inst'[n].status = "running" => n \in unit]_vars

\* A placeholder does not stay: it becomes a running instance or its name and
\* subnet are free again, although ZFS, the network, the unit, dockerd, a plugin
\* hook or the clean-up may fail or the client leave.  It needs a daemon that
\* lives through Phase 2 and a state file that can be written when Create or
\* Clone ends: otherwise the placeholder stays, and Reconcile passes over it.
ReservationsResolve ==
    \A n \in Names :
        n \in known /\ inst[n].status = "error"
            ~> (n \in known => inst[n].status # "error")

\* The claim of cmd/serve.go, which the code does not meet (README): on startup
\* every instance that should be running and has its dataset is restarted.
ReconcileRestarts ==
    [][pc[Boot] = "pick" /\ pc'[Boot] = "idle" =>
          \A n \in known \cap datasets : inst[n].status = "running" => n \in unit]_vars
=============================================================================
