------------------------ MODULE InstanceManager_proofs ------------------------
(***************************************************************************)
(* What holds of InstanceManager for any number of names, labels and        *)
(* concurrent requests.                                                     *)
(*                                                                          *)
(* First, with no hypothesis on the constants: IInv is inductive, subnet    *)
(* indexes are unique, and the state file implements SubnetRegistry.        *)
(*                                                                          *)
(* Then, with one request at a time per instance (Exclusive): AloneInv is   *)
(* inductive, so that a step disturbs nothing of the instances other        *)
(* goroutines have in hand.  On top of the two, each property has an        *)
(* invariant of its own that says how far the goroutine at work on an       *)
(* instance has taken it (a Stage), and what is true of an instance at rest *)
(* (a Rest): DownForZfs, Accounted, DropPending, OrderInv, OwnedInv and,    *)
(* where the daemon neither crashes nor has requests cancelled (Quiet),     *)
(* NetInv, DataInv, RestartInv and SteadyInv.                               *)
(***************************************************************************)
EXTENDS InstanceManager, SequenceTheorems, FiniteSetTheorems, TLAPS

IInv == TypeOK /\ JobOK /\ UniqueSubnets /\ IndexesBelowNext

-----------------------------------------------------------------------------
(* Operators *)

LEMMA CountTo ==
  ASSUME NEW n \in Nat
  PROVE  IsFiniteSet(1 .. n) /\ Cardinality(1 .. n) = n
<1>1. 1 \in Int /\ n \in Int
  OBVIOUS
<1>2. IsFiniteSet(1 .. n) /\ Cardinality(1 .. n) = IF 1 > n THEN 0 ELSE n - 1 + 1
  BY ONLY <1>1, FS_Interval
<1> QED
  BY <1>2

\* The trimmed label list of a Revert is a list of labels.
LEMMA UpToType ==
  ASSUME NEW S, NEW s \in Seq(S), NEW l
  PROVE  UpTo(s, l) \in Seq(S)
<1> DEFINE T == {i \in 1 .. Len(s) : \A j \in 1 .. i - 1 : s[j] # l}
<1>1. Len(s) \in Nat
  BY LenProperties
<1>2. IsFiniteSet(1 .. Len(s)) /\ Cardinality(1 .. Len(s)) = Len(s)
  BY <1>1, CountTo
<1>a. T \subseteq 1 .. Len(s)
  OBVIOUS
<1> HIDE DEF T
<1>b. IsFiniteSet(T) /\ Cardinality(T) <= Cardinality(1 .. Len(s))
  BY <1>2, <1>a, FS_Subset
<1>3. Cardinality(T) \in Nat /\ Cardinality(T) <= Len(s)
  BY <1>2, <1>b, FS_CardinalityType
<1>4. \A j \in 1 .. Cardinality(T) : s[j] \in S
  BY <1>1, <1>3, ElementOfSeq
<1>5. SubSeq(s, 1, Cardinality(T)) \in Seq(S)
  BY <1>3, <1>4, SubSeqProperties
<1> QED
  BY <1>5 DEF UpTo, T

\* The final Update leaves an entry with the same index.
LEMMA CommittedType ==
  ASSUME NEW e \in Entry, NEW j,
         j.op = "snapshot" => j.label \in Labels
  PROVE  /\ Committed(e, j) \in Entry
         /\ Committed(e, j).idx = e.idx
<1>1. e.snaps \in Seq(Labels)
  BY DEF Entry
<1>2. UpTo(e.snaps, j.label) \in Seq(Labels)
  BY <1>1, UpToType
<1>3. j.op = "snapshot" => Append(e.snaps, j.label) \in Seq(Labels)
  BY <1>1, AppendProperties
<1>4. CASE j.op = "snapshot"
  BY <1>3, <1>4 DEF Committed, Entry, Statuses
<1>5. CASE j.op = "revert"
  BY <1>2, <1>5 DEF Committed, Entry, Statuses
<1>6. CASE j.op \notin {"snapshot", "revert"}
  BY <1>6 DEF Committed, Entry, Statuses
<1> QED
  BY <1>4, <1>5, <1>6

\* An index NextFreeSubnetIndex returns is used by no entry.
LEMMA NextFreeIndexIsFree ==
  ASSUME IInv, NEW i \in Nat, IsNextFreeIndex(i)
  PROVE  i \notin UsedIndexes
<1>1. CASE known = {}
  BY <1>1 DEF UsedIndexes
<1>2. CASE known # {} /\ i = nextIndex
  BY <1>2 DEF IInv, IndexesBelowNext, TypeOK, StoreTypeOK, UsedIndexes, Entry
<1> QED
  BY <1>1, <1>2 DEF IsNextFreeIndex, IInv, IndexesBelowNext, TypeOK, StoreTypeOK, UsedIndexes, Entry

-----------------------------------------------------------------------------
(* Steps that share a shape *)

\* A step that leaves the state file alone keeps the subnets unique.
LEMMA StoreKept ==
  ASSUME IInv, UNCHANGED storeVars
  PROVE  StoreTypeOK' /\ UniqueSubnets' /\ IndexesBelowNext'
BY DEF IInv, TypeOK, StoreTypeOK, UniqueSubnets, IndexesBelowNext, storeVars

\* A goroutine moves on with the arguments it has.
LEMMA GotoKeepsJob ==
  ASSUME IInv, NEW a \in Actors, NEW p \in PCs, Goto(a, p), job' = job,
         pc[a] \notin {"idle", "load", "pick"} \/ p \in {"idle", "load", "pick"}
  PROVE  pc' \in [Actors -> PCs] /\ job' \in [Actors -> Job] /\ JobOK'
BY DEF IInv, TypeOK, MemoryTypeOK, JobOK, Goto

\* A request ends.
LEMMA ReturnKeepsJob ==
  ASSUME IInv, NEW a \in Actors, Return(a)
  PROVE  /\ pc' \in [Actors -> PCs] /\ job' \in [Actors -> Job] /\ JobOK'
         /\ cancelled' \subseteq Requests
<1>1. NoJob \in Job /\ "idle" \in PCs
  BY DEF NoJob, Job, Ops, PCs
<1> QED
  BY <1>1 DEF IInv, TypeOK, MemoryTypeOK, JobOK, Return, Goto, NoJob

\* A request begins.
LEMMA BeginKeepsJob ==
  ASSUME IInv, NEW a \in Actors, NEW p \in PCs, NEW j \in Job, Begin(a, p, j),
         j.name \in Names,
         j.op \in {"clone", "snapshot", "revert"} => j.label \in Labels,
         j.op = "clone" => j.src \in Names
  PROVE  MemoryTypeOK' /\ HostTypeOK' /\ JobOK' /\ faults' \in Nat /\ crashes' \in Nat
BY DEF IInv, TypeOK, MemoryTypeOK, HostTypeOK, JobOK, Begin, Goto, hostVars, zfsVars

\* The failure path of dockerd.Start.
LEMMA StartFailedKeepsJob ==
  ASSUME IInv, NEW a \in Actors, pc[a] \in {"netns", "unit", "wait"}, StartFailed(a)
  PROVE  MemoryTypeOK' /\ JobOK'
<1>1. NoJob \in Job /\ {"idle", "destroy", "pick"} \subseteq PCs
  BY DEF NoJob, Job, Ops, PCs
<1>2. CASE job[a].op \in {"create", "clone"} /\ Goto(a, "destroy") /\ UNCHANGED <<job, cancelled, boot>>
  BY <1>1, <1>2, GotoKeepsJob DEF IInv, TypeOK, MemoryTypeOK
<1>3. CASE Return(a) /\ UNCHANGED boot
  BY <1>3, ReturnKeepsJob DEF IInv, TypeOK, MemoryTypeOK
<1>4. CASE /\ Goto(a, "pick")
           /\ job' = [job EXCEPT ![a] = NoJob]
           /\ boot' = [boot EXCEPT !.errs = @ \cup {job[a].name}]
           /\ UNCHANGED cancelled
  <2>1. job[a].name \in Names
    BY DEF IInv, JobOK
  <2> QED
    BY <1>1, <1>4, <2>1 DEF IInv, TypeOK, MemoryTypeOK, JobOK, Goto, NoJob
<1> QED
  BY <1>2, <1>3, <1>4 DEF StartFailed

LEMMA FaultCount ==
  ASSUME IInv, UNCHANGED faults \/ \E k \in FaultKinds : Fails(k)
  PROVE  faults' \in Nat
BY DEF IInv, TypeOK, Fails

\* Steps of a goroutine that only move it on, and the types they touch.
LEMMA HostKept ==
  ASSUME IInv, UNCHANGED hostVars
  PROVE  HostTypeOK'
BY DEF IInv, TypeOK, HostTypeOK, hostVars, zfsVars

LEMMA MovedOn ==
  ASSUME IInv, NEW a \in Actors, NEW p \in PCs, Goto(a, p), UNCHANGED <<job, cancelled, boot>>,
         pc[a] \notin {"idle", "load", "pick"} \/ p \in {"idle", "load", "pick"}
  PROVE  MemoryTypeOK' /\ JobOK'
BY GotoKeepsJob DEF IInv, TypeOK, MemoryTypeOK

LEMMA Returned ==
  ASSUME IInv, NEW a \in Actors, Return(a), UNCHANGED boot
  PROVE  MemoryTypeOK' /\ JobOK'
BY ReturnKeepsJob DEF IInv, TypeOK, MemoryTypeOK

\* The instance a goroutine works on.
LEMMA WorksOnName ==
  ASSUME IInv, NEW a \in Actors, pc[a] \notin {"idle", "load", "pick"}
  PROVE  /\ job[a].name \in Names /\ job[a].idx \in Nat
         /\ job[a].op = "clone" => job[a].src \in Names
         /\ job[a].op \in {"clone", "snapshot", "revert"} => job[a].label \in Labels
BY DEF IInv, TypeOK, MemoryTypeOK, JobOK, Job

-----------------------------------------------------------------------------
(* The requests' first steps *)

LEMMA ReserveKeepsStore ==
  ASSUME IInv, NEW n \in Names, NEW i \in Nat, Reserve(n, i)
  PROVE  StoreTypeOK' /\ UniqueSubnets' /\ IndexesBelowNext'
<1>1. i \notin UsedIndexes
  BY NextFreeIndexIsFree DEF Reserve
<1>2. [idx |-> i, status |-> "error", snaps |-> <<>>] \in Entry
  BY EmptySeq DEF Entry, Statuses
<1>3. StoreTypeOK'
  BY <1>2 DEF IInv, TypeOK, StoreTypeOK, Reserve
<1>4. UniqueSubnets'
  <2> SUFFICES ASSUME NEW m \in known', NEW k \in known', m # k
               PROVE  inst'[m].idx # inst'[k].idx
    BY DEF UniqueSubnets
  <2>1. \A x \in known : inst'[x] = inst[x] /\ inst[x].idx # i
    BY <1>1 DEF IInv, TypeOK, StoreTypeOK, Reserve, UsedIndexes
  <2>2. inst'[n].idx = i
    BY DEF IInv, TypeOK, StoreTypeOK, Reserve
  <2>3. known' = known \cup {n}
    BY DEF Reserve
  <2>4. CASE m \in known /\ k \in known
    BY <2>1, <2>4 DEF IInv, UniqueSubnets
  <2> QED
    BY <2>1, <2>2, <2>3, <2>4
<1>5. IndexesBelowNext'
  <2>1. \A x \in known : inst'[x] = inst[x] /\ inst[x].idx < nextIndex /\ inst[x].idx \in Nat
    BY DEF IInv, TypeOK, StoreTypeOK, Reserve, IndexesBelowNext, Entry
  <2>2. inst'[n].idx = i /\ known' = known \cup {n}
    BY DEF IInv, TypeOK, StoreTypeOK, Reserve
  <2>3. nextIndex \in Nat /\ nextIndex' = IF i >= nextIndex THEN i + 1 ELSE nextIndex
    BY DEF IInv, TypeOK, StoreTypeOK, Reserve
  <2> QED
    BY <2>1, <2>2, <2>3 DEF IndexesBelowNext
<1> QED
  BY <1>3, <1>4, <1>5

LEMMA SubmitStep ==
  ASSUME IInv, NEW a \in Requests, Submit(a)
  PROVE  IInv'
<1> USE DEF PCs
<1>0. a \in Actors
  BY DEF Actors
<1>1. ASSUME NEW n \in Names, CreateReserve(a, n)
      PROVE  IInv'
  <2> PICK i \in 0 .. MaxSubnetIndex :
        /\ Reserve(n, i)
        /\ Begin(a, "validate", [NoJob EXCEPT !.op = "create", !.name = n, !.idx = i])
    BY <1>1 DEF CreateReserve
  <2>1. i \in Nat
    BY BoundsAssumption
  <2>2. [NoJob EXCEPT !.op = "create", !.name = n, !.idx = i] \in Job
    BY <2>1 DEF NoJob, Job, Ops
  <2>3. MemoryTypeOK' /\ HostTypeOK' /\ JobOK' /\ faults' \in Nat /\ crashes' \in Nat
    BY <1>0, <2>2, BeginKeepsJob DEF NoJob
  <2> QED
    BY <2>1, <2>3, ReserveKeepsStore DEF IInv, TypeOK
<1>2. ASSUME NEW n \in Names, NEW src \in Names, NEW l \in Labels, CloneReserve(a, src, l, n)
      PROVE  IInv'
  <2> DEFINE J(i) == [NoJob EXCEPT !.op = "clone", !.name = n, !.src = src,
                                   !.label = l, !.idx = i]
  <2> PICK i \in 0 .. MaxSubnetIndex : Reserve(n, i) /\ Begin(a, "dataset", J(i))
    BY <1>2 DEF CloneReserve
  <2>1. i \in Nat
    BY BoundsAssumption
  <2>2. J(i) \in Job /\ J(i).name = n /\ J(i).label = l /\ J(i).src = src
    BY <2>1 DEF NoJob, Job, Ops
  <2> HIDE DEF J
  <2>3. MemoryTypeOK' /\ HostTypeOK' /\ JobOK' /\ faults' \in Nat /\ crashes' \in Nat
    BY <1>0, <2>2, BeginKeepsJob
  <2> QED
    BY <2>1, <2>3, ReserveKeepsStore DEF IInv, TypeOK
<1>3. ASSUME NEW n \in Names, NEW op \in Ops, NEW l \in Labels \cup {None}, NEW p \in PCs,
             op \in {"snapshot", "revert"} => l \in Labels,
             op # "clone",
             View(a, n, op, l, p)
      PROVE  IInv'
  <2> DEFINE j == [NoJob EXCEPT !.op = op, !.name = n, !.label = l, !.idx = inst[n].idx]
  <2>1. j \in Job /\ j.name = n /\ j.label = l /\ j.op = op
    BY DEF NoJob, Job, IInv, TypeOK, StoreTypeOK, Entry
  <2>2. Begin(a, p, j) /\ UNCHANGED storeVars
    BY <1>3 DEF View
  <2> HIDE DEF j
  <2>3. MemoryTypeOK' /\ HostTypeOK' /\ JobOK' /\ faults' \in Nat /\ crashes' \in Nat
    BY <1>0, <1>3, <2>1, <2>2, BeginKeepsJob
  <2> QED
    BY <2>2, <2>3, StoreKept DEF IInv, TypeOK
<1>4. ASSUME NEW n \in Names, DeleteView(a, n) \/ StartView(a, n) \/ StopView(a, n)
      PROVE  IInv'
  BY <1>3, <1>4 DEF DeleteView, StartView, StopView, Ops
<1>5. ASSUME NEW n \in Names, NEW l \in Labels, SnapshotView(a, n, l) \/ RevertView(a, n, l)
      PROVE  IInv'
  BY <1>3, <1>5 DEF SnapshotView, RevertView, Ops
<1> QED
  BY <1>1, <1>2, <1>4, <1>5 DEF Submit

-----------------------------------------------------------------------------
(* The slow steps: none of them writes the state file. *)

LEMMA CmdCount ==
  ASSUME IInv, NEW a, NEW k \in FaultKinds,
         CmdFails(a, k) \/ CmdWorks(a) \/ CmdKilled(a) \/ Fails(k) \/ UNCHANGED faults
  PROVE  faults' \in Nat
BY DEF IInv, TypeOK, CmdFails, CmdWorks, CmdKilled, Fails

\* What a slow step has to show.
LEMMA SlowStep ==
  ASSUME IInv, UNCHANGED <<storeVars, crashes>>,
         HostTypeOK', MemoryTypeOK', JobOK', faults' \in Nat
  PROVE  IInv'
BY StoreKept DEF IInv, TypeOK

LEMMA ValidateStep ==
  ASSUME IInv, NEW a \in Requests, Validate(a)
  PROVE  IInv'
<1>1. MemoryTypeOK' /\ JobOK'
  BY MovedOn DEF Validate, Actors, PCs
<1>2. faults' \in Nat
  BY CmdCount DEF Validate, FaultKinds
<1> QED
  BY <1>1, <1>2, HostKept, SlowStep DEF Validate

LEMMA DeployStep ==
  ASSUME IInv, NEW a \in Requests, Deploy(a)
  PROVE  IInv'
<1>1. MemoryTypeOK' /\ JobOK'
  BY MovedOn DEF Deploy, Actors, PCs
<1>2. faults' \in Nat
  BY CmdCount DEF Deploy, FaultKinds
<1> QED
  BY <1>1, <1>2, HostKept, SlowStep DEF Deploy

LEMMA MakeDatasetStep ==
  ASSUME IInv, NEW a \in Requests, MakeDataset(a)
  PROVE  IInv'
<1> DEFINE n == job[a].name
           source == [name |-> job[a].src, label |-> job[a].label]
<1>1. MemoryTypeOK' /\ JobOK'
  BY MovedOn DEF MakeDataset, Actors, PCs
<1>2. faults' \in Nat
  BY CmdCount DEF MakeDataset, FaultKinds
<1>3. n \in Names /\ (job[a].op = "clone" => source \in [name : Names, label : Labels])
  BY WorksOnName DEF MakeDataset, Actors
<1>4. HostTypeOK'
  <2> HIDE DEF n, source
  <2>1. /\ datasets' \in {datasets, datasets \cup {n}}
        /\ origin' = origin \/ (job[a].op = "clone" /\ origin' = [origin EXCEPT ![n] = source])
        /\ UNCHANGED <<zsnaps, unit, netns, stale>>
    BY DEF MakeDataset, n, source
  <2>2. origin' \in [Names -> {None} \cup [name : Names, label : Labels]]
    BY <1>3, <2>1 DEF IInv, TypeOK, HostTypeOK
  <2> QED
    BY <1>3, <2>1, <2>2 DEF IInv, TypeOK, HostTypeOK
<1> QED
  BY <1>1, <1>2, <1>4, SlowStep DEF MakeDataset

LEMMA ZfsOpStep ==
  ASSUME IInv, NEW a \in Requests, ZfsOp(a)
  PROVE  IInv'
<1> DEFINE n == job[a].name
           l == job[a].label
<1>0. a \in Actors /\ pc[a] = "zfs" /\ pc[a] \notin {"idle", "load", "pick"}
  BY DEF Actors, ZfsOp
<1>1. n \in Names /\ (job[a].op \in {"snapshot", "revert"} => l \in Labels)
  BY <1>0, WorksOnName
<1>2. MemoryTypeOK' /\ JobOK'
  <2>1. CASE UNCHANGED job
    BY <1>0, <2>1, MovedOn DEF ZfsOp, PCs
  <2>2. CASE Goto(a, "netns") /\ job' = [job EXCEPT ![a].failed = TRUE]
    <3>0. job \in [Actors -> Job] /\ job[a] \in Job
      BY <1>0 DEF IInv, TypeOK, MemoryTypeOK
    <3>f. [job[a] EXCEPT !.failed = TRUE] \in Job
      BY <3>0 DEF Job
    <3>1. job' \in [Actors -> Job]
      BY <2>2, <3>0, <3>f
    <3>2. pc' \in [Actors -> PCs] /\ pc' = [pc EXCEPT ![a] = "netns"] /\ UNCHANGED <<cancelled, boot>>
      BY <1>0, <2>2 DEF ZfsOp, Goto, PCs, IInv, TypeOK, MemoryTypeOK
    <3>3. \A b \in Actors : job'[b].op = job[b].op /\ job'[b].name = job[b].name
                            /\ job'[b].src = job[b].src /\ job'[b].label = job[b].label
      BY <2>2 DEF IInv, TypeOK, MemoryTypeOK, Job
    <3>4. JobOK'
      BY <1>0, <3>2, <3>3 DEF IInv, TypeOK, MemoryTypeOK, JobOK
    <3> QED
      BY <3>1, <3>2, <3>4 DEF IInv, TypeOK, MemoryTypeOK
  <2> QED
    BY <2>1, <2>2 DEF ZfsOp
<1>3. faults' \in Nat
  BY CmdCount DEF ZfsOp, FaultKinds
<1>4. HostTypeOK'
  <2>1. zsnaps[n] \in Seq(Labels)
    BY <1>1 DEF IInv, TypeOK, HostTypeOK
  <2>2. UpTo(zsnaps[n], l) \in Seq(Labels)
    BY <2>1, UpToType
  <2>3. job[a].op = "snapshot" => Append(zsnaps[n], l) \in Seq(Labels)
    BY <1>1, <2>1, AppendProperties
  <2> HIDE DEF n, l
  <2>4. /\ \/ UNCHANGED zsnaps
           \/ job[a].op = "snapshot" /\ zsnaps' = [zsnaps EXCEPT ![n] = Append(@, l)]
           \/ zsnaps' = [zsnaps EXCEPT ![n] = UpTo(@, l)]
        /\ stale' \in {stale, stale \cup {n}}
        /\ UNCHANGED <<datasets, origin, unit, netns>>
    BY DEF ZfsOp, n, l
  <2>5. zsnaps' \in [Names -> Seq(Labels)]
    BY <1>1, <2>2, <2>3, <2>4 DEF IInv, TypeOK, HostTypeOK
  <2> QED
    BY <1>1, <2>4, <2>5 DEF IInv, TypeOK, HostTypeOK
<1> QED
  BY <1>2, <1>3, <1>4, SlowStep DEF ZfsOp

LEMMA DropCachesStep ==
  ASSUME IInv, NEW a \in Requests, DropCaches(a)
  PROVE  IInv'
<1>1. MemoryTypeOK' /\ JobOK'
  BY MovedOn DEF DropCaches, Actors, PCs
<1>2. faults' \in Nat
  BY CmdCount DEF DropCaches, FaultKinds
<1>3. HostTypeOK'
  BY DEF DropCaches, IInv, TypeOK, HostTypeOK, zfsVars
<1> QED
  BY <1>1, <1>2, <1>3, SlowStep DEF DropCaches

LEMMA DestroyStep ==
  ASSUME IInv, NEW a \in Requests, Destroy(a)
  PROVE  IInv'
<1>0. a \in Actors /\ pc[a] = "destroy"
  BY DEF Actors, Destroy
<1>1. MemoryTypeOK' /\ JobOK'
  <2>1. CASE \E p \in {"rollback", "forget"} : Goto(a, p) /\ UNCHANGED <<job, cancelled>>
    BY <1>0, <2>1, MovedOn DEF Destroy, PCs
  <2>2. CASE Return(a)
    BY <1>0, <2>2, Returned DEF Destroy
  <2> QED
    BY <2>1, <2>2 DEF Destroy
<1>2. faults' \in Nat
  BY CmdCount DEF Destroy, FaultKinds
<1>3. job[a].name \in Names /\ <<>> \in Seq(Labels)
  BY <1>0, WorksOnName, EmptySeq
<1>4. /\ UNCHANGED <<unit, netns, stale>>
      /\ \/ UNCHANGED zfsVars
         \/ /\ datasets' = datasets \ {job[a].name}
            /\ zsnaps' = [zsnaps EXCEPT ![job[a].name] = <<>>]
            /\ origin' = [origin EXCEPT ![job[a].name] = None]
  BY DEF Destroy
<1>5. HostTypeOK'
  <2>1. datasets' \subseteq Names
    BY <1>4 DEF IInv, TypeOK, HostTypeOK, zfsVars
  <2>2. zsnaps' \in [Names -> Seq(Labels)]
    BY <1>3, <1>4 DEF IInv, TypeOK, HostTypeOK, zfsVars
  <2>3. origin' \in [Names -> {None} \cup [name : Names, label : Labels]]
    BY <1>4 DEF IInv, TypeOK, HostTypeOK, zfsVars
  <2> QED
    BY <1>4, <2>1, <2>2, <2>3 DEF IInv, TypeOK, HostTypeOK
<1> QED
  BY <1>1, <1>2, <1>5, SlowStep DEF Destroy

-----------------------------------------------------------------------------
(* dockerd *)

LEMMA SetupNetnsStep ==
  ASSUME IInv, NEW a \in Actors, SetupNetns(a)
  PROVE  IInv'
<1>1. MemoryTypeOK' /\ JobOK'
  <2>1. CASE Goto(a, "unit") /\ UNCHANGED <<job, cancelled, boot>>
    BY <2>1, MovedOn DEF SetupNetns, PCs
  <2>2. CASE StartFailed(a)
    BY <2>2, StartFailedKeepsJob DEF SetupNetns
  <2> QED
    BY <2>1, <2>2 DEF SetupNetns
<1>2. faults' \in Nat
  BY CmdCount DEF SetupNetns, FaultKinds
<1>3. job[a].name \in Names /\ job[a].idx \in Nat
  BY WorksOnName DEF SetupNetns
<1>4. HostTypeOK'
  BY <1>3 DEF SetupNetns, IInv, TypeOK, HostTypeOK, zfsVars
<1> QED
  BY <1>1, <1>2, <1>4, SlowStep DEF SetupNetns

LEMMA StartUnitStep ==
  ASSUME IInv, NEW a \in Actors, StartUnit(a)
  PROVE  IInv'
<1>1. MemoryTypeOK' /\ JobOK'
  <2>1. CASE Goto(a, "wait") /\ UNCHANGED <<job, cancelled, boot>>
    BY <2>1, MovedOn DEF StartUnit, PCs
  <2>2. CASE StartFailed(a)
    BY <2>2, StartFailedKeepsJob DEF StartUnit
  <2> QED
    BY <2>1, <2>2 DEF StartUnit
<1>2. faults' \in Nat
  BY CmdCount DEF StartUnit, FaultKinds
<1>3. job[a].name \in Names
  BY WorksOnName DEF StartUnit
<1>4. HostTypeOK'
  BY <1>3 DEF StartUnit, IInv, TypeOK, HostTypeOK, zfsVars
<1> QED
  BY <1>1, <1>2, <1>4, SlowStep DEF StartUnit

LEMMA WaitForSocketStep ==
  ASSUME IInv, NEW a \in Actors, WaitForSocket(a)
  PROVE  IInv'
<1>1. MemoryTypeOK' /\ JobOK'
  <2>1. CASE /\ \E p \in {"deploy", "scan"} : Goto(a, p)
             /\ UNCHANGED <<job, cancelled, boot>>
    BY <2>1, MovedOn DEF WaitForSocket, PCs
  <2>2. CASE StartFailed(a)
    BY <2>2, StartFailedKeepsJob DEF WaitForSocket
  <2> QED
    BY <2>1, <2>2 DEF WaitForSocket
<1>2. faults' \in Nat
  BY CmdCount DEF WaitForSocket, FaultKinds
<1>3. HostTypeOK'
  BY DEF WaitForSocket, IInv, TypeOK, HostTypeOK, zfsVars
<1> QED
  BY <1>1, <1>2, <1>3, SlowStep DEF WaitForSocket

LEMMA StopDockerdStep ==
  ASSUME IInv, NEW a \in Requests, StopDockerd(a)
  PROVE  IInv'
<1>0. a \in Actors /\ pc[a] = "stop"
  BY DEF Actors, StopDockerd
<1>1. MemoryTypeOK' /\ JobOK'
  <2>1. \E p \in {"destroy", "commit", "zfs"} : Goto(a, p)
    BY DEF StopDockerd
  <2> QED
    BY <1>0, <2>1, MovedOn DEF StopDockerd, PCs
<1>2. faults' \in Nat
  BY CmdCount DEF StopDockerd, FaultKinds
<1>3. job[a].name \in Names
  BY <1>0, WorksOnName
<1>4. HostTypeOK'
  BY <1>3 DEF StopDockerd, IInv, TypeOK, HostTypeOK, zfsVars
<1> QED
  BY <1>1, <1>2, <1>4, SlowStep DEF StopDockerd

LEMMA ProbeUnitStep ==
  ASSUME IInv, NEW a \in Requests, ProbeUnit(a)
  PROVE  IInv'
<1>0. a \in Actors /\ pc[a] = "probe"
  BY DEF Actors, ProbeUnit
<1>1. MemoryTypeOK' /\ JobOK'
  <2>1. CASE Return(a)
    BY <1>0, <2>1, Returned DEF ProbeUnit
  <2>2. CASE /\ \E p \in {"netns", "unforward", "stop", "destroy"} : Goto(a, p)
             /\ UNCHANGED <<job, cancelled>>
    BY <1>0, <2>2, MovedOn DEF ProbeUnit, PCs
  <2> QED
    BY <2>1, <2>2 DEF ProbeUnit
<1>2. faults' \in Nat
  BY DEF ProbeUnit, IInv, TypeOK
<1> QED
  BY <1>1, <1>2, HostKept, SlowStep DEF ProbeUnit

LEMMA UnforwardStep ==
  ASSUME IInv, NEW a \in Requests, Unforward(a)
  PROVE  IInv'
<1>1. MemoryTypeOK' /\ JobOK'
  BY MovedOn DEF Unforward, PCs, Actors
<1>2. HostTypeOK' /\ faults' \in Nat
  BY DEF Unforward, IInv, TypeOK, HostTypeOK, hostVars, zfsVars
<1> QED
  BY <1>1, <1>2, SlowStep DEF Unforward

LEMMA ScanStep ==
  ASSUME IInv, NEW a \in Actors, Scan(a)
  PROVE  IInv'
<1>0. NoJob \in Job /\ pc[a] = "scan" /\ {"pick", "commit"} \subseteq PCs
  BY DEF NoJob, Job, Ops, Scan, PCs
<1>1. MemoryTypeOK' /\ JobOK'
  <2>1. CASE Goto(a, "pick") /\ job' = [job EXCEPT ![a] = NoJob] /\ UNCHANGED cancelled
    BY <1>0, <2>1 DEF Scan, IInv, TypeOK, MemoryTypeOK, JobOK, Goto, NoJob
  <2>2. CASE Return(a)
    BY <1>0, <2>2, Returned DEF Scan
  <2>3. CASE Goto(a, "commit") /\ UNCHANGED <<job, cancelled>>
    BY <1>0, <2>3, MovedOn DEF Scan, PCs
  <2> QED
    BY <2>1, <2>2, <2>3 DEF Scan
<1>2. job[a].name \in Names
  BY <1>0, WorksOnName
<1>3. HostTypeOK' /\ faults' \in Nat
  BY <1>2 DEF Scan, IInv, TypeOK, HostTypeOK, hostVars, zfsVars
<1> QED
  BY <1>1, <1>3, SlowStep DEF Scan

-----------------------------------------------------------------------------
(* The Updates that end a request *)

\* Writing back an entry with the same index, or removing one.
LEMMA EntryRewritten ==
  ASSUME IInv, inst' \in [Names -> Entry], UNCHANGED <<known, nextIndex>>,
         \A n \in known : inst'[n].idx = inst[n].idx
  PROVE  StoreTypeOK' /\ UniqueSubnets' /\ IndexesBelowNext'
BY DEF IInv, TypeOK, StoreTypeOK, UniqueSubnets, IndexesBelowNext

LEMMA EntryRemoved ==
  ASSUME IInv, NEW n \in Names, known' = known \ {n},
         inst' = [inst EXCEPT ![n] = Blank], UNCHANGED nextIndex
  PROVE  StoreTypeOK' /\ UniqueSubnets' /\ IndexesBelowNext'
<1>1. Blank \in Entry
  BY EmptySeq DEF Blank, Entry, Statuses
<1>2. \A m \in known' : inst'[m] = inst[m] /\ m \in known
  BY DEF IInv, TypeOK, StoreTypeOK
<1> QED
  BY <1>1, <1>2 DEF IInv, TypeOK, StoreTypeOK, UniqueSubnets, IndexesBelowNext

\* What the final Update does to the entries.
LEMMA CommitKeepsIndexes ==
  ASSUME IInv, NEW a \in Requests, Commit(a)
  PROVE  /\ inst' \in [Names -> Entry] /\ UNCHANGED <<known, nextIndex>>
         /\ \A n \in known : inst'[n].idx = inst[n].idx
<1> DEFINE n == job[a].name
           e == Committed(inst[n], job[a])
<1>1. n \in Names /\ (job[a].op = "snapshot" => job[a].label \in Labels)
  BY WorksOnName DEF Commit, Actors
<1>2. inst[n] \in Entry
  BY <1>1 DEF IInv, TypeOK, StoreTypeOK
<1>3. e \in Entry /\ e.idx = inst[n].idx
  BY <1>1, <1>2, CommittedType
<1> HIDE DEF e
<1>4. UNCHANGED inst \/ inst' = [inst EXCEPT ![n] = e]
  BY DEF Commit, e
<1> HIDE DEF n
<1>5. inst \in [Names -> Entry] /\ known \subseteq Names
  BY DEF IInv, TypeOK, StoreTypeOK
<1>6. inst' \in [Names -> Entry] /\ \A m \in Names : inst'[m].idx = inst[m].idx
  BY <1>1, <1>3, <1>4, <1>5
<1> QED
  BY <1>5, <1>6 DEF Commit

LEMMA CommitStep ==
  ASSUME IInv, NEW a \in Requests, Commit(a)
  PROVE  IInv'
<1>1. StoreTypeOK' /\ UniqueSubnets' /\ IndexesBelowNext'
  BY CommitKeepsIndexes, EntryRewritten
<1>2. MemoryTypeOK' /\ JobOK'
  BY Returned DEF Commit, Actors
<1>3. faults' \in Nat /\ crashes' \in Nat
  BY DEF Commit, Fails, IInv, TypeOK
<1> QED
  BY <1>1, <1>2, <1>3, HostKept DEF Commit, IInv, TypeOK

LEMMA DropEntryStep ==
  ASSUME IInv, NEW a \in Requests, Rollback(a) \/ Forget(a)
  PROVE  IInv'
<1> DEFINE n == job[a].name
<1>0. DropEntry(a) /\ pc[a] \notin {"idle", "load", "pick"} /\ a \in Actors
  BY DEF Rollback, Forget, Actors
<1>1. n \in Names
  BY <1>0, WorksOnName
<1>2. \/ UNCHANGED storeVars
      \/ known' = known \ {n} /\ inst' = [inst EXCEPT ![n] = Blank] /\ UNCHANGED nextIndex
  BY <1>0 DEF DropEntry, storeVars
<1>3. StoreTypeOK' /\ UniqueSubnets' /\ IndexesBelowNext'
  BY <1>1, <1>2, EntryRemoved, StoreKept
<1>4. MemoryTypeOK' /\ JobOK'
  BY <1>0, Returned DEF DropEntry
<1>5. faults' \in Nat /\ crashes' \in Nat
  BY <1>0 DEF DropEntry, Fails, IInv, TypeOK
<1> QED
  BY <1>0, <1>3, <1>4, <1>5, HostKept DEF DropEntry, IInv, TypeOK

-----------------------------------------------------------------------------
(* Reconcile and the environment *)

LEMMA ReconcileLoadStep ==
  ASSUME IInv, ReconcileLoad
  PROVE  IInv'
<1>1. Boot \in Actors /\ "pick" \in PCs
  BY DEF Actors, PCs
<1>2. MemoryTypeOK' /\ JobOK'
  BY <1>1 DEF ReconcileLoad, IInv, TypeOK, StoreTypeOK, MemoryTypeOK, JobOK, Goto
<1>3. faults' \in Nat
  BY DEF ReconcileLoad, IInv, TypeOK
<1> QED
  BY <1>2, <1>3, HostKept, SlowStep DEF ReconcileLoad

LEMMA ReconcilePickStep ==
  ASSUME IInv, NEW n \in Names, ReconcilePick(n)
  PROVE  IInv'
<1> DEFINE j == [NoJob EXCEPT !.op = "reconcile", !.name = n, !.idx = inst[n].idx]
<1>1. Boot \in Actors /\ {"scan", "netns"} \subseteq PCs
  BY DEF Actors, PCs
<1>2. j \in Job /\ j.op = "reconcile" /\ j.name = n
  BY DEF NoJob, Job, Ops, IInv, TypeOK, StoreTypeOK, Entry
<1> HIDE DEF j
<1>3. boot' \in [todo : SUBSET Names, up : SUBSET Names, errs : SUBSET Names]
  <2>1. \/ boot' = [boot EXCEPT !.todo = boot.todo \ {n}]
        \/ boot' = [boot EXCEPT !.todo = boot.todo \ {n}, !.errs = boot.errs \cup {n}]
    BY DEF ReconcilePick
  <2>2. boot \in [todo : SUBSET Names, up : SUBSET Names, errs : SUBSET Names]
    BY DEF IInv, TypeOK, MemoryTypeOK
  <2> QED
    BY <2>1, <2>2
<1>4. UNCHANGED cancelled
  BY DEF ReconcilePick
<1>5. CASE UNCHANGED <<pc, job>>
  BY <1>3, <1>4, <1>5, HostKept, SlowStep, CmdCount
  DEF ReconcilePick, IInv, TypeOK, MemoryTypeOK, JobOK, FaultKinds
<1>6. CASE \E p \in {"scan", "netns"} : Goto(Boot, p) /\ job' = [job EXCEPT ![Boot] = j]
  <2>1. MemoryTypeOK' /\ JobOK'
    BY <1>1, <1>2, <1>3, <1>4, <1>6 DEF IInv, TypeOK, MemoryTypeOK, JobOK, Goto
  <2>2. faults' \in Nat
    BY CmdCount DEF ReconcilePick, FaultKinds
  <2> QED
    BY <2>1, <2>2, HostKept, SlowStep DEF ReconcilePick
<1>7. \/ UNCHANGED <<pc, job>>
      \/ \E p \in {"scan", "netns"} : Goto(Boot, p) /\ job' = [job EXCEPT ![Boot] = j]
  BY DEF ReconcilePick, j
<1> QED
  BY <1>5, <1>6, <1>7

\* Reconcile's Update only changes statuses.
LEMMA ReconcileKeepsIndexes ==
  ASSUME IInv, ReconcileCommit
  PROVE  /\ inst' \in [Names -> Entry] /\ UNCHANGED <<known, nextIndex>>
         /\ \A n \in known : inst'[n].idx = inst[n].idx
<1>1. inst \in [Names -> Entry] /\ known \subseteq Names
  BY DEF IInv, TypeOK, StoreTypeOK
<1>2. \A e \in Entry : /\ [e EXCEPT !.status = "error"] \in Entry
                       /\ [e EXCEPT !.status = "error"].idx = e.idx
  BY DEF Entry, Statuses
<1>3. UNCHANGED <<known, nextIndex>>
  BY DEF ReconcileCommit
<1>4. CASE UNCHANGED inst
  BY <1>1, <1>3, <1>4
<1>5. CASE inst' = [n \in Names |-> IF n \in boot.errs \cap known
                                   THEN [inst[n] EXCEPT !.status = "error"] ELSE inst[n]]
  BY <1>1, <1>2, <1>3, <1>5
<1> QED
  BY <1>4, <1>5 DEF ReconcileCommit

LEMMA ReconcileCommitStep ==
  ASSUME IInv, ReconcileCommit
  PROVE  IInv'
<1>1. StoreTypeOK' /\ UniqueSubnets' /\ IndexesBelowNext'
  BY ReconcileKeepsIndexes, EntryRewritten
<1>2. NoBoot \in [todo : SUBSET Names, up : SUBSET Names, errs : SUBSET Names]
      /\ Boot \in Actors /\ "idle" \in PCs
  BY DEF NoBoot, Actors, PCs
<1>3. MemoryTypeOK' /\ JobOK'
  BY <1>2 DEF ReconcileCommit, IInv, TypeOK, MemoryTypeOK, JobOK, Goto
<1>4. faults' \in Nat /\ crashes' \in Nat
  BY DEF ReconcileCommit, Fails, IInv, TypeOK
<1> QED
  BY <1>1, <1>3, <1>4, HostKept DEF ReconcileCommit, IInv, TypeOK

LEMMA CancelStep ==
  ASSUME IInv, NEW a \in Requests, Cancel(a)
  PROVE  IInv'
<1>1. MemoryTypeOK' /\ JobOK'
  BY DEF Cancel, IInv, TypeOK, MemoryTypeOK, JobOK
<1>2. faults' \in Nat
  BY DEF Cancel, Fails, IInv, TypeOK
<1> QED
  BY <1>1, <1>2, HostKept, SlowStep DEF Cancel

LEMMA DockerdDiesStep ==
  ASSUME IInv, NEW n \in Names, DockerdDies(n)
  PROVE  IInv'
<1>1. MemoryTypeOK' /\ JobOK'
  BY DEF DockerdDies, IInv, TypeOK, MemoryTypeOK, JobOK
<1>2. HostTypeOK' /\ faults' \in Nat
  BY DEF DockerdDies, Fails, IInv, TypeOK, HostTypeOK, zfsVars
<1> QED
  BY <1>1, <1>2, SlowStep DEF DockerdDies

\* The memory a daemon starts with, at first and after a crash.
LEMMA FreshMemory ==
  /\ NoJob \in Job
  /\ NoBoot \in [todo : SUBSET Names, up : SUBSET Names, errs : SUBSET Names]
  /\ {"idle", "load"} \subseteq PCs
BY DEF NoJob, Job, Ops, NoBoot, PCs

LEMMA CrashStep ==
  ASSUME IInv, Crash
  PROVE  IInv'
<1>1. MemoryTypeOK'
  BY FreshMemory DEF Crash, MemoryTypeOK
<1>2. JobOK'
  BY DEF Crash, JobOK, NoJob
<1>3. HostTypeOK' /\ crashes' \in Nat
  BY DEF Crash, IInv, TypeOK, HostTypeOK, zfsVars
<1>4. StoreTypeOK' /\ UniqueSubnets' /\ IndexesBelowNext'
  BY StoreKept DEF Crash
<1>5. faults' \in Nat
  BY DEF Crash, IInv, TypeOK
<1> QED
  BY <1>1, <1>2, <1>3, <1>4, <1>5 DEF IInv, TypeOK

-----------------------------------------------------------------------------
(* The inductive invariant *)

LEMMA IInvInit == Init => IInv
<1> SUFFICES ASSUME Init PROVE IInv
  OBVIOUS
<1>1. Blank \in Entry /\ <<>> \in Seq(Labels)
  BY EmptySeq DEF Blank, Entry, Statuses
<1>2. StoreTypeOK /\ HostTypeOK
  BY <1>1 DEF Init, StoreTypeOK, HostTypeOK
<1>3. MemoryTypeOK
  BY FreshMemory DEF Init, MemoryTypeOK
<1>4. JobOK
  BY DEF Init, JobOK, NoJob
<1> QED
  BY <1>2, <1>3, <1>4 DEF Init, IInv, TypeOK, UniqueSubnets, IndexesBelowNext

LEMMA IInvStep == IInv /\ [Next]_vars => IInv'
<1> SUFFICES ASSUME IInv, [Next]_vars PROVE IInv'
  OBVIOUS
<1>1. ASSUME NEW a \in Requests, Submit(a)
      PROVE  IInv'
  BY <1>1, SubmitStep
<1>2. ASSUME NEW a \in Actors, StartSteps(a)
      PROVE  IInv'
  BY <1>2, SetupNetnsStep, StartUnitStep, WaitForSocketStep, ScanStep DEF StartSteps
<1>3. ASSUME NEW a \in Requests, RequestStep(a)
      PROVE  IInv'
  BY <1>2, <1>3, ValidateStep, MakeDatasetStep, DeployStep, UnforwardStep, ProbeUnitStep,
     StopDockerdStep, ZfsOpStep, DropCachesStep, DestroyStep, CommitStep, DropEntryStep
  DEF RequestStep, Actors
<1>4. CASE ReconcileStep
  BY <1>2, <1>4, ReconcileLoadStep, ReconcilePickStep, ReconcileCommitStep
  DEF ReconcileStep, Actors
<1>5. ASSUME NEW a \in Requests, Cancel(a)
      PROVE  IInv'
  BY <1>5, CancelStep
<1>6. ASSUME NEW n \in Names, DockerdDies(n)
      PROVE  IInv'
  BY <1>6, DockerdDiesStep
<1>7. CASE Crash
  BY <1>7, CrashStep
<1>8. CASE UNCHANGED vars
  BY <1>8 DEF vars, storeVars, hostVars, zfsVars, IInv, TypeOK, StoreTypeOK, HostTypeOK,
              MemoryTypeOK, JobOK, UniqueSubnets, IndexesBelowNext
<1> QED
  BY <1>1, <1>3, <1>4, <1>5, <1>6, <1>7, <1>8 DEF Next

LEMMA Invariance == Spec => []IInv
BY IInvInit, IInvStep, PTL DEF Spec

\* Every variable keeps its type in every execution: in particular no step
\* reads a snapshot label, a source or a name its request does not have.
THEOREM TypeCorrect == Spec => []TypeOK
BY Invariance, PTL DEF IInv

\* No two entries of the state file ever hold the same subnet index, for any
\* number of instances and concurrent requests: Phase 1 of Create and Clone.
THEOREM SubnetsUnique == Spec => []UniqueSubnets
BY Invariance, PTL DEF IInv

\* No index in use ever reaches nextIndex, so the scan of NextFreeSubnetIndex,
\* which looks below NextSubnetIndex, misses none in use: what a crash, a
\* rollback or a deletion frees is found and used again.
THEOREM AllocatorScansAll == Spec => []IndexesBelowNext
BY Invariance, PTL DEF IInv

-----------------------------------------------------------------------------
(* The state file implements the registry of subnets *)

\* Only these actions write the state file.
LEMMA StoreWriters ==
  ASSUME [Next]_vars
  PROVE  \/ UNCHANGED storeVars
         \/ \E n \in Names : \E i \in 0 .. MaxSubnetIndex : Reserve(n, i)
         \/ \E a \in Requests : Commit(a) \/ Rollback(a) \/ Forget(a)
         \/ ReconcileCommit
<1>1. ASSUME NEW a \in Requests, Submit(a)
      PROVE  \/ UNCHANGED storeVars
             \/ \E n \in Names : \E i \in 0 .. MaxSubnetIndex : Reserve(n, i)
  BY <1>1 DEF Submit, CreateReserve, CloneReserve, DeleteView, StartView, StopView,
              SnapshotView, RevertView, View
<1>2. ASSUME NEW a, StartSteps(a)
      PROVE  UNCHANGED storeVars
  BY <1>2 DEF StartSteps, SetupNetns, StartUnit, WaitForSocket, Scan
<1>3. ASSUME NEW a \in Requests, RequestStep(a)
      PROVE  UNCHANGED storeVars \/ Commit(a) \/ Rollback(a) \/ Forget(a)
  <2>1. CASE StartSteps(a)
    BY <1>2, <2>1
  <2>2. CASE Validate(a) \/ MakeDataset(a) \/ Deploy(a) \/ Unforward(a) \/ ProbeUnit(a)
    BY <2>2 DEF Validate, MakeDataset, Deploy, Unforward, ProbeUnit
  <2>3. CASE StopDockerd(a) \/ ZfsOp(a) \/ DropCaches(a) \/ Destroy(a)
    BY <2>3 DEF StopDockerd, ZfsOp, DropCaches, Destroy
  <2> QED
    BY <1>3, <2>1, <2>2, <2>3 DEF RequestStep
<1>4. ReconcileStep => UNCHANGED storeVars \/ ReconcileCommit
  BY <1>2 DEF ReconcileStep, ReconcileLoad, ReconcilePick
<1>5. ASSUME NEW a \in Requests, Cancel(a)
      PROVE  UNCHANGED storeVars
  BY <1>5 DEF Cancel
<1>6. ASSUME NEW n \in Names, DockerdDies(n)
      PROVE  UNCHANGED storeVars
  BY <1>6 DEF DockerdDies
<1>7. Crash \/ UNCHANGED vars => UNCHANGED storeVars
  BY DEF Crash, vars
<1> QED
  BY <1>1, <1>3, <1>4, <1>5, <1>6, <1>7 DEF Next

\* The indexes leased are the indexes in use.
LEMMA LeasedUsed ==
  ASSUME IInv
  PROVE  Registry!Leased = UsedIndexes
<1>1. \A n \in known : inst[n].idx \in Nat /\ inst[n].idx # None /\ n \in Names
  BY NoneAssumption DEF IInv, TypeOK, StoreTypeOK, Entry
<1>2. \A n \in Names : Leases[n] = IF n \in known THEN inst[n].idx ELSE None
  BY DEF Leases
<1> QED
  BY <1>1, <1>2 DEF Registry!Leased, UsedIndexes

LEMMA ReserveAcquires ==
  ASSUME IInv, NEW n \in Names, NEW i \in 0 .. MaxSubnetIndex, Reserve(n, i)
  PROVE  Registry!Acquire(n, i)
<1>1. i \in Nat /\ i \notin UsedIndexes /\ nextIndex \in Nat
  BY BoundsAssumption, NextFreeIndexIsFree DEF Reserve, IInv, TypeOK, StoreTypeOK
<1>2. 0 .. i - 1 \subseteq UsedIndexes
  <2>1. CASE known = {}
    BY <1>1, <2>1 DEF Reserve, IsNextFreeIndex
  <2>2. CASE known # {}
    BY <1>1, <2>2 DEF Reserve, IsNextFreeIndex
  <2> QED
    BY <2>1, <2>2
<1>3. Leases[n] = None
  BY DEF Leases, Reserve
<1>4. Leases' = [Leases EXCEPT ![n] = i]
  <2>1. \A m \in Names : Leases'[m] = [Leases EXCEPT ![n] = i][m]
    BY DEF Leases, Reserve, IInv, TypeOK, StoreTypeOK
  <2> QED
    BY <2>1 DEF Leases
<1> QED
  BY <1>1, <1>2, <1>3, <1>4, LeasedUsed DEF Registry!Acquire

LEMMA DropEntryReleases ==
  ASSUME IInv, NEW a \in Requests, Rollback(a) \/ Forget(a)
  PROVE  Leases' = Leases \/ \E n \in Names : Registry!Release(n)
<1> DEFINE n == job[a].name
<1>0. DropEntry(a) /\ n \in Names
  BY WorksOnName DEF Rollback, Forget, Actors
<1>1. \/ UNCHANGED storeVars
      \/ known' = known \ {n} /\ inst' = [inst EXCEPT ![n] = Blank]
  BY <1>0 DEF DropEntry, storeVars
<1> HIDE DEF n
<1>2. CASE UNCHANGED storeVars
  BY <1>2 DEF storeVars, Leases
<1>3. CASE known' = known \ {n} /\ inst' = [inst EXCEPT ![n] = Blank]
  <2>1. inst \in [Names -> Entry]
    BY DEF IInv, TypeOK, StoreTypeOK
  <2>2. \A m \in Names : Leases'[m] = [Leases EXCEPT ![n] = None][m]
    BY <1>0, <1>3, <2>1 DEF Leases
  <2>3. Leases' = [Leases EXCEPT ![n] = None]
    BY <2>2 DEF Leases
  <2>4. CASE n \in known
    <3>1. Leases[n] # None
      BY <1>0, <2>1, <2>4, NoneAssumption DEF Leases, Entry
    <3> QED
      BY <1>0, <2>3, <3>1 DEF Registry!Release
  <2>5. CASE n \notin known
    <3>1. Leases[n] = None
      BY <1>0, <2>5 DEF Leases
    <3> QED
      BY <2>3, <3>1 DEF Leases
  <2> QED
    BY <2>4, <2>5
<1> QED
  BY <1>1, <1>2, <1>3

LEMMA RegistryStep ==
  ASSUME IInv, [Next]_vars
  PROVE  [Registry!Next]_Leases
<1>1. CASE UNCHANGED storeVars
  BY <1>1 DEF storeVars, Leases
<1>2. ASSUME NEW n \in Names, NEW i \in 0 .. MaxSubnetIndex, Reserve(n, i)
      PROVE  Registry!Next
  BY <1>2, ReserveAcquires DEF Registry!Next
<1>3. ASSUME UNCHANGED known, \A n \in known : inst'[n].idx = inst[n].idx
      PROVE  UNCHANGED Leases
  BY <1>3 DEF Leases
<1>4. ASSUME NEW a \in Requests, Commit(a)
      PROVE  UNCHANGED Leases
  BY <1>3, <1>4, CommitKeepsIndexes
<1>5. ASSUME NEW a \in Requests, Rollback(a) \/ Forget(a)
      PROVE  [Registry!Next]_Leases
  BY <1>5, DropEntryReleases DEF Registry!Next
<1>6. CASE ReconcileCommit
  BY <1>3, <1>6, ReconcileKeepsIndexes
<1> QED
  BY <1>1, <1>2, <1>4, <1>5, <1>6, StoreWriters

LEMMA RegistryInit == Init => Registry!Init
BY DEF Init, Registry!Init, Leases

\* The state file implements SubnetRegistry: a new instance always gets the
\* lowest index nobody holds, keeps it through snapshots, reverts, failures
\* and crashes, and only its removal gives the index back.
THEOREM ImplementsRegistry == Spec => RegistrySpec
<1>1. IInv /\ [Next]_vars => [Registry!Next]_Leases
  BY RegistryStep
<1> QED
  BY <1>1, RegistryInit, Invariance, PTL DEF Spec, RegistrySpec, Registry!Spec

-----------------------------------------------------------------------------
(* A goroutine at work, and where its operation may have taken it *)

Busy(a) == pc[a] \notin {"idle", "load", "pick"}

Starting == {"netns", "unit", "wait", "scan"}

\* A goroutine at step p may have the local variables j.
Fits(p, j) ==
    /\ p \in {"idle", "load", "pick"} <=> j = NoJob
    /\ j.op = "none" => j = NoJob
    /\ j.op = "create" => p \in {"validate", "dataset", "netns", "unit", "wait", "deploy",
                                 "commit", "stop", "destroy", "rollback"}
    /\ j.op = "clone" => p \in {"dataset", "commit", "destroy", "rollback"} \cup Starting
    /\ j.op = "delete" => p \in {"unforward", "probe", "stop", "destroy", "forget"}
    /\ j.op = "start" => p \in {"probe", "commit"} \cup Starting
    /\ j.op = "stop" => p \in {"probe", "unforward", "stop", "commit"}
    /\ j.op = "snapshot" => p \in {"unforward", "stop", "zfs", "commit"} \cup Starting
    /\ j.op = "revert" => p \in {"unforward", "stop", "zfs", "drop", "commit"} \cup Starting
    /\ j.op = "reconcile" => p \in Starting
    /\ j.failed => j.op \in {"snapshot", "revert"}
    /\ j.op # "clone" => j.src = None

\* Only Reconcile loads and picks, and requests do everything else.
Whose(a, p, j) ==
    IF a = Boot THEN j.op \in {"none", "reconcile"}
    ELSE j.op # "reconcile" /\ p \notin {"load", "pick"}

OpsFit == \A a \in Actors : Fits(pc[a], job[a]) /\ Whose(a, pc[a], job[a])

\* Reconcile is done before the API serves.
BootAlone == ~Serving => \A a \in Requests : pc[a] = "idle"

\* One request at a time per instance: the instance a goroutine works on is
\* neither the instance nor the source of another, and nobody clones the
\* source of another clone.
Apart ==
    \A a, b \in Actors :
        /\ job[a].name # None => /\ job[a].src # job[a].name
                                 /\ a # b => job[a].name \notin {job[b].name, job[b].src}
        /\ job[a].src # None /\ a # b => job[a].src # job[b].src

\* An instance worked on keeps its entry and its index.
Held ==
    \A a \in Actors : Busy(a) =>
        /\ job[a].name \in known /\ job[a].idx = inst[job[a].name].idx
        /\ job[a].op = "clone" => job[a].src \in known

\* What Reconcile has in hand, and only while it works.
BootList ==
    /\ boot.todo \subseteq known /\ boot.errs \subseteq known
    /\ pc[Boot] \in {"idle", "load"} => boot = NoBoot

AloneInv == OpsFit /\ BootAlone /\ Apart /\ Held /\ BootList

-----------------------------------------------------------------------------
(* What a step leaves alone *)

SameEntry(n) == (n \in known' <=> n \in known) /\ inst'[n] = inst[n]

SameHost(n) ==
    /\ n \in datasets' <=> n \in datasets
    /\ zsnaps'[n] = zsnaps[n] /\ origin'[n] = origin[n]
    /\ n \in unit' <=> n \in unit
    /\ netns'[n] = netns[n]
    /\ n \in stale' => n \in stale

\* The step of a goroutine that goes on working, and that of one whose
\* operation ends.
Continues(a) ==
    \E p \in PCs : \E f \in BOOLEAN :
        /\ pc' = [pc EXCEPT ![a] = p]
        /\ job' = [job EXCEPT ![a].failed = f]
        /\ p \notin {"idle", "load", "pick"} /\ Fits(p, [job[a] EXCEPT !.failed = f])
        /\ UNCHANGED <<storeVars, boot, cancelled>>

Ends(a) ==
    /\ pc' = [pc EXCEPT ![a] = IF a = Boot THEN "pick" ELSE "idle"]
    /\ job' = [job EXCEPT ![a] = NoJob]
    /\ cancelled' = cancelled \ {a}
    /\ \/ UNCHANGED boot
       \/ a = Boot /\ boot' = [boot EXCEPT !.errs = @ \cup {job[a].name}]

LEMMA GoesOn ==
  ASSUME IInv, NEW a \in Actors, NEW p \in PCs, Goto(a, p), Fits(p, job[a]),
         p \notin {"idle", "load", "pick"},
         UNCHANGED <<storeVars, job, boot, cancelled>>
  PROVE  Continues(a)
<1>1. job \in [Actors -> Job] /\ job[a] \in Job
  BY DEF IInv, TypeOK, MemoryTypeOK
<1>2. [job[a] EXCEPT !.failed = job[a].failed] = job[a] /\ job[a].failed \in BOOLEAN
  BY <1>1 DEF Job
<1>3. job' = [job EXCEPT ![a].failed = job[a].failed]
  BY <1>1, <1>2
<1>4. pc' = [pc EXCEPT ![a] = p]
  BY DEF Goto
<1> QED
  BY <1>2, <1>3, <1>4 DEF Continues

LEMMA Finishes ==
  ASSUME NEW a \in Requests, Return(a), UNCHANGED boot
  PROVE  Ends(a)
BY ActorsAssumption DEF Ends, Return, Goto

\* What Fits says of a goroutine whose step is known.
LEMMA FitNow ==
  ASSUME OpsFit, NEW a \in Actors
  PROVE  Fits(pc[a], job[a]) /\ Whose(a, pc[a], job[a])
BY DEF OpsFit

LEMMA FitsAt ==
  ASSUME NEW j \in Job
  PROVE  /\ Fits("validate", j) => Fits("dataset", j) /\ Fits("rollback", j)
         /\ Fits("dataset", j) => Fits("netns", j) /\ Fits("rollback", j)
         /\ Fits("deploy", j) => Fits("commit", j) /\ Fits("stop", j)
         /\ Fits("netns", j) => Fits("unit", j)
         /\ Fits("unit", j) => Fits("wait", j)
         /\ Fits("wait", j) => Fits(IF j.op = "create" THEN "deploy" ELSE "scan", j)
         /\ Fits("unforward", j) => Fits(IF j.op = "delete" THEN "probe" ELSE "stop", j)
         /\ Fits("drop", j) => Fits("netns", j)
BY DEF Fits, Starting, NoJob, Job, Ops

\* The failure path of dockerd.Start.
LEMMA FailedStart ==
  ASSUME IInv, OpsFit, NEW a \in Actors, pc[a] \in {"netns", "unit", "wait"}, StartFailed(a),
         UNCHANGED storeVars
  PROVE  Continues(a) \/ Ends(a)
<1>0. Fits(pc[a], job[a]) /\ Whose(a, pc[a], job[a]) /\ job[a] \in Job
  BY FitNow DEF IInv, TypeOK, MemoryTypeOK
<1>1. CASE job[a].op \in {"create", "clone"} /\ Goto(a, "destroy") /\ UNCHANGED <<job, cancelled, boot>>
  <2>1. Fits("destroy", job[a])
    BY <1>0, <1>1 DEF Fits
  <2> QED
    BY <1>1, <2>1, GoesOn DEF PCs
<1>2. CASE job[a].op \in {"start", "snapshot", "revert"} /\ Return(a) /\ UNCHANGED boot
  <2>1. a \in Requests
    BY <1>0, <1>2 DEF Whose, Actors
  <2> QED
    BY <1>2, <2>1, Finishes
<1>3. CASE /\ job[a].op = "reconcile" /\ Goto(a, "pick")
           /\ job' = [job EXCEPT ![a] = NoJob]
           /\ boot' = [boot EXCEPT !.errs = @ \cup {job[a].name}]
           /\ UNCHANGED cancelled
  <2>1. a = Boot
    BY <1>0, <1>3 DEF Whose
  <2>2. cancelled' = cancelled \ {a}
    BY <1>3, <2>1, ActorsAssumption DEF IInv, TypeOK, MemoryTypeOK
  <2> QED
    BY <1>3, <2>1, <2>2 DEF Ends, Goto
<1> QED
  BY <1>1, <1>2, <1>3 DEF StartFailed

LEMMA StartStepsShape ==
  ASSUME IInv, OpsFit, NEW a \in Actors, StartSteps(a)
  PROVE  UNCHANGED storeVars /\ (Continues(a) \/ Ends(a))
<1>0. Fits(pc[a], job[a]) /\ Whose(a, pc[a], job[a]) /\ job[a] \in Job
  BY FitNow DEF IInv, TypeOK, MemoryTypeOK
<1>1. CASE SetupNetns(a)
  <2>1. UNCHANGED storeVars /\ pc[a] = "netns"
    BY <1>1 DEF SetupNetns
  <2>2. StartFailed(a) \/ (Goto(a, "unit") /\ UNCHANGED <<job, cancelled, boot>>)
    BY <1>1 DEF SetupNetns
  <2>3. Fits("unit", job[a])
    BY <1>0, <2>1, FitsAt
  <2>4. CASE StartFailed(a)
    BY <2>1, <2>4, FailedStart
  <2>5. CASE Goto(a, "unit") /\ UNCHANGED <<job, cancelled, boot>>
    BY <2>1, <2>3, <2>5, GoesOn DEF PCs
  <2> QED
    BY <2>1, <2>2, <2>4, <2>5
<1>2. CASE StartUnit(a)
  <2>1. UNCHANGED storeVars /\ pc[a] = "unit"
    BY <1>2 DEF StartUnit
  <2>2. StartFailed(a) \/ (Goto(a, "wait") /\ UNCHANGED <<job, cancelled, boot>>)
    BY <1>2 DEF StartUnit
  <2>3. Fits("wait", job[a])
    BY <1>0, <2>1, FitsAt
  <2>4. CASE StartFailed(a)
    BY <2>1, <2>4, FailedStart
  <2>5. CASE Goto(a, "wait") /\ UNCHANGED <<job, cancelled, boot>>
    BY <2>1, <2>3, <2>5, GoesOn DEF PCs
  <2> QED
    BY <2>1, <2>2, <2>4, <2>5
<1>3. CASE WaitForSocket(a)
  <2> DEFINE p == IF job[a].op = "create" THEN "deploy" ELSE "scan"
  <2>1. UNCHANGED storeVars /\ pc[a] = "wait"
    BY <1>3 DEF WaitForSocket
  <2>2. StartFailed(a) \/ (Goto(a, p) /\ UNCHANGED <<job, cancelled, boot>>)
    BY <1>3 DEF WaitForSocket
  <2>3. Fits(p, job[a]) /\ p \in PCs /\ p \notin {"idle", "load", "pick"}
    BY <1>0, <2>1, FitsAt DEF PCs
  <2> HIDE DEF p
  <2>4. CASE StartFailed(a)
    BY <2>1, <2>4, FailedStart
  <2>5. CASE Goto(a, p) /\ UNCHANGED <<job, cancelled, boot>>
    BY <2>1, <2>3, <2>5, GoesOn
  <2> QED
    BY <2>1, <2>2, <2>4, <2>5
<1>4. CASE Scan(a)
  <2>1. UNCHANGED <<storeVars, boot>> /\ pc[a] = "scan"
    BY <1>4 DEF Scan
  <2>2. CASE job[a].op = "reconcile" /\ Goto(a, "pick") /\ job' = [job EXCEPT ![a] = NoJob]
             /\ UNCHANGED cancelled
    <3>1. a = Boot
      BY <1>0, <2>2 DEF Whose
    <3>2. cancelled' = cancelled \ {a}
      BY <2>2, <3>1, ActorsAssumption DEF IInv, TypeOK, MemoryTypeOK
    <3> QED
      BY <2>1, <2>2, <3>1, <3>2 DEF Ends, Goto
  <2>3. CASE job[a].op # "reconcile" /\ Return(a)
    <3>1. a \in Requests
      BY <1>0, <2>1, <2>3 DEF Whose, Fits, Actors, NoJob
    <3> QED
      BY <2>1, <2>3, <3>1, Finishes
  <2>4. CASE job[a].op # "reconcile" /\ Goto(a, "commit") /\ UNCHANGED <<job, cancelled>>
    <3>1. Fits("commit", job[a])
      BY <1>0, <2>1, <2>4 DEF Fits, Starting
    <3> QED
      BY <2>1, <2>4, <3>1, GoesOn DEF PCs
  <2> QED
    BY <1>4, <2>1, <2>2, <2>3, <2>4 DEF Scan
<1> QED
  BY <1>1, <1>2, <1>3, <1>4 DEF StartSteps

\* Requests' own steps.
LEMMA RequestStepShape ==
  ASSUME IInv, OpsFit, NEW a \in Requests, RequestStep(a)
  PROVE  /\ Continues(a) \/ Ends(a)
         /\ \/ UNCHANGED storeVars
            \/ Ends(a) /\ \A n \in Names : n # job[a].name => SameEntry(n)
<1>0. /\ a \in Actors /\ Fits(pc[a], job[a]) /\ Whose(a, pc[a], job[a]) /\ job[a] \in Job
      /\ a # Boot
  BY FitNow, ActorsAssumption DEF IInv, TypeOK, MemoryTypeOK, Actors
<1>1. CASE StartSteps(a)
  BY <1>0, <1>1, StartStepsShape
<1>2. CASE Validate(a)
  <2>1. Fits("dataset", job[a]) /\ Fits("rollback", job[a])
    BY <1>0, <1>2, FitsAt DEF Validate
  <2> QED
    BY <1>0, <1>2, <2>1, GoesOn DEF Validate, PCs
<1>3. CASE MakeDataset(a)
  <2>1. Fits("netns", job[a]) /\ Fits("rollback", job[a])
    BY <1>0, <1>3, FitsAt DEF MakeDataset
  <2> QED
    BY <1>0, <1>3, <2>1, GoesOn DEF MakeDataset, PCs
<1>4. CASE Deploy(a)
  <2>1. Fits("commit", job[a]) /\ Fits("stop", job[a])
    BY <1>0, <1>4, FitsAt DEF Deploy
  <2> QED
    BY <1>0, <1>4, <2>1, GoesOn DEF Deploy, PCs
<1>5. CASE Unforward(a)
  <2> DEFINE p == IF job[a].op = "delete" THEN "probe" ELSE "stop"
  <2>1. Fits(p, job[a]) /\ p \in PCs /\ p \notin {"idle", "load", "pick"}
    BY <1>0, <1>5, FitsAt DEF Unforward, PCs
  <2>2. Goto(a, p) /\ UNCHANGED <<storeVars, job, boot, cancelled>>
    BY <1>5 DEF Unforward
  <2> HIDE DEF p
  <2> QED
    BY <1>0, <2>1, <2>2, GoesOn
<1>6. CASE ProbeUnit(a)
  <2>1. UNCHANGED <<storeVars, boot>> /\ pc[a] = "probe"
    BY <1>6 DEF ProbeUnit
  <2>2. job[a].op \in {"start", "stop", "delete"}
    BY <1>0, <2>1 DEF Fits, Job, Ops, NoJob, Starting
  <2>3. CASE Return(a)
    BY <2>1, <2>3, Finishes
  <2>4. CASE UNCHANGED <<job, cancelled>> /\ ~Return(a)
    <3> DEFINE p == CASE job[a].op = "start" -> "netns"
                      [] job[a].op = "stop" -> "unforward"
                      [] OTHER -> IF job[a].name \in unit THEN "stop" ELSE "destroy"
    <3>1. Goto(a, p)
      BY <1>6, <2>4 DEF ProbeUnit
    <3>2. Fits(p, job[a]) /\ p \in PCs /\ p \notin {"idle", "load", "pick"}
      BY <1>0, <2>1, <2>2 DEF Fits, Starting, PCs, NoJob
    <3> HIDE DEF p
    <3> QED
      BY <1>0, <2>1, <2>4, <3>1, <3>2, GoesOn
  <2> QED
    BY <1>6, <2>1, <2>3, <2>4 DEF ProbeUnit
<1>7. CASE StopDockerd(a)
  <2> DEFINE p == IF job[a].op \in {"create", "delete"} THEN "destroy"
                  ELSE IF job[a].op = "stop" THEN "commit" ELSE "zfs"
  <2>1. pc[a] = "stop" /\ Goto(a, p) /\ UNCHANGED <<storeVars, job, boot, cancelled>>
    BY <1>7 DEF StopDockerd
  <2>2. Fits(p, job[a]) /\ p \in PCs /\ p \notin {"idle", "load", "pick"}
    BY <1>0, <2>1 DEF Fits, Starting, PCs, NoJob, Job, Ops
  <2> HIDE DEF p
  <2> QED
    BY <1>0, <2>1, <2>2, GoesOn
<1>8. CASE ZfsOp(a)
  <2>1. pc[a] = "zfs" /\ UNCHANGED <<storeVars, boot, cancelled>>
    BY <1>8 DEF ZfsOp
  <2>2. job[a].op \in {"snapshot", "revert"}
    BY <1>0, <2>1 DEF Fits, Job, Ops, NoJob, Starting
  <2>3. ASSUME NEW p \in {"netns", "drop"}, p = "drop" <=> job[a].op = "revert",
               Goto(a, p), UNCHANGED job
        PROVE  Continues(a)
    <3>1. Fits(p, job[a])
      BY <1>0, <2>1, <2>2, <2>3 DEF Fits, Starting, NoJob
    <3> QED
      BY <1>0, <2>1, <2>3, <3>1, GoesOn DEF PCs
  <2>4. CASE Goto(a, "netns") /\ job' = [job EXCEPT ![a].failed = TRUE]
    <3>1. Fits("netns", [job[a] EXCEPT !.failed = TRUE])
      BY <1>0, <2>1, <2>2 DEF Fits, Starting, NoJob, Job
    <3>2. "netns" \in PCs /\ TRUE \in BOOLEAN /\ pc' = [pc EXCEPT ![a] = "netns"]
      BY <2>4 DEF PCs, Goto
    <3>3. Continues(a)
      BY <2>1, <2>4, <3>1, <3>2 DEF Continues
    <3> QED
      BY <2>1, <3>3
  <2>5. \/ \E p \in {"netns", "drop"} : /\ p = "drop" <=> job[a].op = "revert"
                                       /\ Goto(a, p) /\ UNCHANGED job
        \/ Goto(a, "netns") /\ job' = [job EXCEPT ![a].failed = TRUE]
    BY <1>8 DEF ZfsOp
  <2> QED
    BY <2>1, <2>3, <2>4, <2>5
<1>9. CASE DropCaches(a)
  <2>1. Fits("netns", job[a])
    BY <1>0, <1>9, FitsAt DEF DropCaches
  <2> QED
    BY <1>0, <1>9, <2>1, GoesOn DEF DropCaches, PCs
<1>10. CASE Destroy(a)
  <2>1. UNCHANGED <<storeVars, boot>> /\ pc[a] = "destroy"
    BY <1>10 DEF Destroy
  <2>2. CASE Return(a)
    BY <2>1, <2>2, Finishes
  <2>3. CASE /\ Goto(a, IF job[a].op \in {"create", "clone"} THEN "rollback" ELSE "forget")
             /\ UNCHANGED <<job, cancelled>>
    <3>1. Fits(IF job[a].op \in {"create", "clone"} THEN "rollback" ELSE "forget", job[a])
      BY <1>0, <2>1 DEF Fits, Starting, NoJob, Job, Ops
    <3> QED
      BY <1>0, <2>1, <2>3, <3>1, GoesOn DEF PCs
  <2> QED
    BY <1>10, <2>1, <2>2, <2>3 DEF Destroy
<1>11. CASE Commit(a)
  <2>1. Ends(a) /\ UNCHANGED known
    BY <1>11, Finishes DEF Commit
  <2>2. \A n \in Names : n # job[a].name => inst'[n] = inst[n]
    BY <1>11 DEF Commit, IInv, TypeOK, StoreTypeOK
  <2> QED
    BY <2>1, <2>2 DEF SameEntry
<1>12. CASE Rollback(a) \/ Forget(a)
  <2>1. Ends(a) /\ DropEntry(a)
    BY <1>12, Finishes DEF Rollback, Forget, DropEntry
  <2>2. \A n \in Names : n # job[a].name => SameEntry(n)
    BY <2>1 DEF DropEntry, SameEntry, IInv, TypeOK, StoreTypeOK
  <2> QED
    BY <2>1, <2>2
<1> QED
  BY <1>1, <1>2, <1>3, <1>4, <1>5, <1>6, <1>7, <1>8, <1>9, <1>10, <1>11, <1>12 DEF RequestStep

-----------------------------------------------------------------------------
(* One request at a time per instance *)

\* Facts about goroutines that the steps below keep using.
LEMMA AtWork ==
  ASSUME IInv, AloneInv, NEW a \in Actors
  PROVE  /\ pc[a] \in PCs /\ job[a] \in Job
         /\ Busy(a) <=> job[a] # NoJob
         /\ Busy(a) => job[a].name \in Names /\ job[a].name # None
         /\ job[a].op = "clone" <=> job[a].src # None
         /\ a \in Requests /\ Busy(a) => Serving /\ boot = NoBoot /\ pc[Boot] = "idle"
         /\ a \in Requests => a # Boot /\ pc[a] \notin {"load", "pick"}
<1>1. pc[a] \in PCs /\ job[a] \in Job
  BY DEF IInv, TypeOK, MemoryTypeOK
<1>2. Fits(pc[a], job[a]) /\ Whose(a, pc[a], job[a])
  BY FitNow DEF AloneInv
<1>3. Busy(a) <=> job[a] # NoJob
  BY <1>2 DEF Fits, Busy
<1>4. Busy(a) => job[a].name \in Names /\ job[a].name # None
  BY NoneAssumption DEF IInv, JobOK, Busy
<1>5. job[a].op = "clone" <=> job[a].src # None
  BY <1>2, NoneAssumption DEF Fits, IInv, JobOK
<1>6. a \in Requests => a # Boot /\ pc[a] \notin {"load", "pick"}
  BY <1>2, ActorsAssumption DEF Whose
<1>7. a \in Requests /\ Busy(a) => Serving /\ boot = NoBoot
  BY DEF AloneInv, BootAlone, BootList, Busy, Serving
<1> QED
  BY <1>1, <1>3, <1>4, <1>5, <1>6, <1>7 DEF Serving

LEMMA ContinuesKeeps ==
  ASSUME IInv, AloneInv, NEW a \in Actors, Busy(a), Continues(a)
  PROVE  AloneInv'
<1>1. PICK p \in PCs, f \in BOOLEAN :
        /\ pc' = [pc EXCEPT ![a] = p]
        /\ job' = [job EXCEPT ![a].failed = f]
        /\ p \notin {"idle", "load", "pick"} /\ Fits(p, [job[a] EXCEPT !.failed = f])
        /\ UNCHANGED <<storeVars, boot>>
  BY DEF Continues
<1>2. pc \in [Actors -> PCs] /\ job \in [Actors -> Job] /\ job[a] \in Job
  BY DEF IInv, TypeOK, MemoryTypeOK
<1>3. \A b \in Actors : b # a => pc'[b] = pc[b] /\ job'[b] = job[b]
  BY <1>1, <1>2
<1>4. pc'[a] = p /\ job'[a] = [job[a] EXCEPT !.failed = f]
  BY <1>1, <1>2
<1>5. \A b \in Actors : /\ job'[b].name = job[b].name /\ job'[b].src = job[b].src
                        /\ job'[b].idx = job[b].idx /\ job'[b].op = job[b].op
                        /\ Busy(b)' <=> Busy(b)
  BY <1>1, <1>2, <1>3, <1>4 DEF Job, Busy
<1>6. OpsFit'
  <2>1. Whose(a, pc[a], job[a])
    BY FitNow DEF AloneInv
  <2>2. Whose(a, p, job'[a])
    BY <1>1, <1>5, <2>1 DEF Whose
  <2> QED
    BY <1>1, <1>3, <1>4, <2>2 DEF OpsFit, AloneInv
<1>7. BootAlone'
  BY <1>1, <1>3, <1>4, ActorsAssumption DEF BootAlone, AloneInv, Serving, Actors, Busy
<1>8. Apart'
  BY <1>5 DEF Apart, AloneInv
<1>9. Held'
  BY <1>1, <1>5 DEF Held, AloneInv, storeVars
<1>10. BootList'
  BY <1>1, <1>3, <1>4 DEF BootList, AloneInv, storeVars, Actors, Busy
<1> QED
  BY <1>6, <1>7, <1>8, <1>9, <1>10 DEF AloneInv

\* A goroutine without a job fits every step it may rest at.
LEMMA Jobless ==
  /\ NoJob.op = "none" /\ NoJob.name = None /\ NoJob.src = None /\ ~NoJob.failed
  /\ \A p \in {"idle", "load", "pick"} : Fits(p, NoJob)
BY DEF NoJob, Fits

LEMMA EndsKeeps ==
  ASSUME IInv, AloneInv, NEW a \in Actors, Busy(a), Ends(a),
         \A n \in Names : n # job[a].name => SameEntry(n),
         a = Boot => UNCHANGED storeVars
  PROVE  AloneInv'
<1> DEFINE p == IF a = Boot THEN "pick" ELSE "idle"
<1>2. pc \in [Actors -> PCs] /\ job \in [Actors -> Job] /\ job[a] \in Job
  BY DEF IInv, TypeOK, MemoryTypeOK
<1>3. \A b \in Actors : b # a => pc'[b] = pc[b] /\ job'[b] = job[b]
  BY <1>2 DEF Ends
<1>4. pc'[a] = p /\ job'[a] = NoJob /\ ~Busy(a)'
  BY <1>2 DEF Ends, Busy
<1> HIDE DEF p
<1>6. OpsFit'
  BY <1>3, <1>4, Jobless DEF OpsFit, AloneInv, p, Whose
<1>7. BootAlone'
  BY <1>3, <1>4, ActorsAssumption DEF BootAlone, AloneInv, Serving, Actors, Busy, p
<1>8. Apart'
  BY <1>3, <1>4, Jobless DEF Apart, AloneInv
<1>9. Held'
  <2> SUFFICES ASSUME NEW b \in Actors, Busy(b)', b # a
               PROVE  /\ job[b].name \in known' /\ job[b].idx = inst'[job[b].name].idx
                      /\ job[b].op = "clone" => job[b].src \in known'
    BY <1>3, <1>4 DEF Held
  <2>1. Busy(b)
    BY <1>3 DEF Busy
  <2>2. /\ job[a].name \notin {job[b].name, job[b].src}
        /\ job[b].name \in Names /\ (job[b].op = "clone" => job[b].src \in Names)
    BY <2>1, AtWork DEF AloneInv, Apart, IInv, JobOK
  <2>3. SameEntry(job[b].name) /\ (job[b].op = "clone" => SameEntry(job[b].src))
    BY <2>2
  <2> QED
    BY <2>1, <2>3 DEF AloneInv, Held, SameEntry
<1>10. BootList'
  <2>1. CASE a = Boot
    <3>1. job[a].name \in known /\ UNCHANGED known /\ pc'[Boot] = "pick"
      BY <1>4, <2>1 DEF AloneInv, Held, storeVars, p
    <3>2. boot.todo \subseteq known /\ boot.errs \subseteq known
          /\ boot \in [todo : SUBSET Names, up : SUBSET Names, errs : SUBSET Names]
      BY DEF AloneInv, BootList, IInv, TypeOK, MemoryTypeOK
    <3>3. boot'.todo = boot.todo /\ boot'.errs \subseteq boot.errs \cup {job[a].name}
      BY <3>2 DEF Ends
    <3> QED
      BY <3>1, <3>2, <3>3 DEF BootList
  <2>2. CASE a # Boot
    <3>1. boot = NoBoot /\ boot' = boot /\ pc'[Boot] = pc[Boot]
      BY <1>3, <2>2, AtWork DEF Ends, Actors
    <3> QED
      BY <3>1 DEF BootList, NoBoot
  <2> QED
    BY <2>1, <2>2
<1> QED
  BY <1>6, <1>7, <1>8, <1>9, <1>10 DEF AloneInv

LEMMA WorksKeeps ==
  ASSUME IInv, AloneInv, NEW a \in Actors, StartSteps(a) \/ (a \in Requests /\ RequestStep(a))
  PROVE  AloneInv'
<1>1. Busy(a)
  <2>1. StartSteps(a) => Busy(a)
    BY DEF StartSteps, SetupNetns, StartUnit, WaitForSocket, Scan, Busy
  <2>2. Validate(a) \/ MakeDataset(a) \/ Deploy(a) \/ Unforward(a) \/ ProbeUnit(a) => Busy(a)
    BY DEF Validate, MakeDataset, Deploy, Unforward, ProbeUnit, Busy
  <2>3. StopDockerd(a) \/ ZfsOp(a) \/ DropCaches(a) \/ Destroy(a) => Busy(a)
    BY DEF StopDockerd, ZfsOp, DropCaches, Destroy, Busy
  <2>4. Commit(a) \/ Rollback(a) \/ Forget(a) => Busy(a)
    BY DEF Commit, Rollback, Forget, Busy
  <2> QED
    BY <2>1, <2>2, <2>3, <2>4 DEF RequestStep
<1>2. /\ Continues(a) \/ Ends(a)
      /\ \/ UNCHANGED storeVars
         \/ a \in Requests /\ Ends(a) /\ \A n \in Names : n # job[a].name => SameEntry(n)
  BY StartStepsShape, RequestStepShape DEF AloneInv
<1>3. CASE Continues(a)
  BY <1>1, <1>3, ContinuesKeeps
<1>4. CASE Ends(a)
  <2>1. \A n \in Names : n # job[a].name => SameEntry(n)
    BY <1>2 DEF SameEntry, storeVars
  <2>2. a = Boot => UNCHANGED storeVars
    BY <1>2, ActorsAssumption
  <2> QED
    BY <1>1, <1>4, <2>1, <2>2, EndsKeeps
<1> QED
  BY <1>2, <1>3, <1>4

\* A request begins: the instances it is about are nobody's.
LEMMA BeginKeeps ==
  ASSUME IInv, AloneInv, Serving, NEW a \in Requests, NEW p \in PCs, NEW j \in Job, pc[a] = "idle",
         Begin(a, p, j), Fits(p, j), j.op \notin {"none", "reconcile"},
         p \notin {"idle", "load", "pick"},
         NEW n \in Names, NEW src \in Names \cup {None},
         j.name = n, j.src = src, src # n, j.op = "clone" => src # None,
         ~InFlight(n), src # None => ~InFlight(src) /\ src \in known',
         n \in known', j.idx = inst'[n].idx,
         known \subseteq known', \A m \in Names : m # n => SameEntry(m)
  PROVE  AloneInv'
<1>0. a \in Actors /\ Boot \in Actors /\ a # Boot /\ boot = NoBoot /\ pc[Boot] = "idle"
  BY ActorsAssumption DEF Actors, AloneInv, BootList, Serving
<1>1. pc \in [Actors -> PCs] /\ job \in [Actors -> Job]
  BY DEF IInv, TypeOK, MemoryTypeOK
<1>2. \A b \in Actors : b # a => pc'[b] = pc[b] /\ job'[b] = job[b]
  BY <1>0, <1>1 DEF Begin, Goto
<1>3. pc'[a] = p /\ job'[a] = j
  BY <1>0, <1>1 DEF Begin, Goto
<1>4. ASSUME NEW b \in Actors, b # a
      PROVE  /\ job[b].name # n /\ job[b].src # n
             /\ src # None => job[b].name # src /\ job[b].src # src
  <2>1. CASE b = Boot
    <3>1. job[b] = NoJob
      BY <1>0, <2>1, AtWork DEF Busy
    <3> QED
      BY <3>1, Jobless, NoneAssumption
  <2>2. CASE b \in Requests
    BY <2>2 DEF InFlight
  <2> QED
    BY <1>4, <2>1, <2>2 DEF Actors
<1>5. OpsFit'
  <2>1. Fits(pc'[a], job'[a]) /\ Whose(a, pc'[a], job'[a])
    BY <1>0, <1>3 DEF Whose
  <2>2. \A b \in Actors : b # a => Fits(pc'[b], job'[b]) /\ Whose(b, pc'[b], job'[b])
    BY <1>2 DEF OpsFit, AloneInv
  <2> QED
    BY <2>1, <2>2 DEF OpsFit
<1>6. BootAlone'
  <2>1. pc'[Boot] = "idle"
    BY <1>0, <1>2
  <2> QED
    BY <2>1 DEF BootAlone, Serving
<1>7. Apart'
  <2>1. ASSUME NEW b \in Actors, b # a
        PROVE  job'[b].name = job[b].name /\ job'[b].src = job[b].src
    BY <1>2, <2>1
  <2>2. job'[a].name = n /\ job'[a].src = src
    BY <1>3
  <2>3. ASSUME NEW x \in Actors, NEW y \in Actors, x # a, y # a
        PROVE  /\ job'[x].name # None =>
                     /\ job'[x].src # job'[x].name
                     /\ x # y => job'[x].name \notin {job'[y].name, job'[y].src}
               /\ job'[x].src # None /\ x # y => job'[x].src # job'[y].src
    BY <2>1, <2>3 DEF Apart, AloneInv
  <2>4. ASSUME NEW y \in Actors, y # a
        PROVE  /\ n \notin {job'[y].name, job'[y].src} /\ job'[y].name # n
               /\ job'[y].name # None => job'[y].name # src
               /\ src # None => src # job'[y].src /\ job'[y].src # src
               /\ job'[y].src # None => job'[y].src # src
    BY <1>4, <2>1, <2>4
  <2> QED
    BY <1>0, <2>2, <2>3, <2>4 DEF Apart
<1>8. Held'
  <2> SUFFICES ASSUME NEW b \in Actors, Busy(b)', b # a
               PROVE  /\ job[b].name \in known' /\ job[b].idx = inst'[job[b].name].idx
                      /\ job[b].op = "clone" => job[b].src \in known'
    <3>1. /\ job'[a].name \in known' /\ job'[a].idx = inst'[job'[a].name].idx
          /\ job'[a].op = "clone" => job'[a].src \in known'
      BY <1>3
    <3> QED
      BY <1>2, <3>1 DEF Held
  <2>1. Busy(b)
    BY <1>2 DEF Busy
  <2>2. job[b].name \in Names /\ job[b].name # n
    BY <1>4, <2>1, AtWork
  <2> QED
    BY <2>1, <2>2 DEF AloneInv, Held, SameEntry
<1>9. BootList'
  BY <1>0, <1>2 DEF BootList, Begin, NoBoot
<1> QED
  BY <1>5, <1>6, <1>7, <1>8, <1>9 DEF AloneInv

\* The first step of a request other than Create and Clone.
LEMMA ViewKeeps ==
  ASSUME IInv, AloneInv, Exclusive, NEW a \in Requests, NEW n \in Names, NEW op, NEW l, NEW p,
         View(a, n, op, l, p), l \in Labels \cup {None}, op \in {"snapshot", "revert"} => l \in Labels,
         \/ p = "unforward" /\ op \in {"delete", "snapshot", "revert"}
         \/ p = "probe" /\ op \in {"start", "stop"}
  PROVE  AloneInv'
<1> DEFINE j == [NoJob EXCEPT !.op = op, !.name = n, !.label = l, !.idx = inst[n].idx]
<1>1. /\ j \in Job /\ j.name = n /\ j.op = op /\ j.src = None /\ j.idx = inst[n].idx
      /\ p \in PCs /\ p \notin {"idle", "load", "pick"} /\ Fits(p, j)
  <2>1. inst[n].idx \in Nat
    BY DEF IInv, TypeOK, StoreTypeOK, Entry
  <2> QED
    BY <2>1 DEF NoJob, Job, Ops, PCs, Fits, Starting
<1>2. /\ Begin(a, p, j) /\ UNCHANGED storeVars /\ Serving /\ pc[a] = "idle" /\ n \in known
      /\ ~InFlight(n)
  BY DEF View, MayStart
<1> HIDE DEF j
<1>3. n # None /\ None \in Names \cup {None}
  BY NoneAssumption
<1>4. n \in known' /\ j.idx = inst'[n].idx /\ known \subseteq known' /\ \A m \in Names : SameEntry(m)
  BY <1>1, <1>2 DEF storeVars, SameEntry
<1> QED
  BY <1>1, <1>2, <1>3, <1>4, BeginKeeps

LEMMA ReserveKeeps ==
  ASSUME IInv, AloneInv, Exclusive, NEW a \in Requests, NEW n \in Names, NEW i \in Nat,
         NEW j \in Job, NEW p \in PCs, Reserve(n, i), Begin(a, p, j), MayStart(a, j.op, {n}),
         NEW src \in Names \cup {None}, src # None => src \in known /\ ~InFlight(src),
         j.name = n, j.src = src, j.idx = i,
         \/ j.op = "create" /\ p = "validate" /\ src = None
         \/ j.op = "clone" /\ p = "dataset" /\ src # None,
         ~j.failed
  PROVE  AloneInv'
<1>1. n \notin known /\ known' = known \cup {n}
      /\ inst' = [inst EXCEPT ![n] = [idx |-> i, status |-> "error", snaps |-> <<>>]]
  BY DEF Reserve
<1>2. Serving /\ pc[a] = "idle" /\ ~InFlight(n)
  BY DEF MayStart
<1>3. Fits(p, j) /\ p \notin {"idle", "load", "pick"} /\ j.op \notin {"none", "reconcile"}
  BY DEF Fits, NoJob, Starting
<1>4. src # n /\ (src # None => src \in known')
  BY <1>1, NoneAssumption
<1>5. /\ n \in known' /\ j.idx = inst'[n].idx /\ known \subseteq known'
      /\ \A m \in Names : m # n => SameEntry(m)
  BY <1>1 DEF IInv, TypeOK, StoreTypeOK, SameEntry
<1> QED
  BY <1>2, <1>3, <1>4, <1>5, BeginKeeps

LEMMA SubmitKeeps ==
  ASSUME IInv, AloneInv, Exclusive, NEW a \in Requests, Submit(a)
  PROVE  AloneInv'
<1>1. ASSUME NEW n \in Names, CreateReserve(a, n)
      PROVE  AloneInv'
  <2> DEFINE J(i) == [NoJob EXCEPT !.op = "create", !.name = n, !.idx = i]
  <2> PICK i \in 0 .. MaxSubnetIndex : /\ MayStart(a, "create", {n}) /\ Reserve(n, i)
                                       /\ Begin(a, "validate", J(i))
    BY <1>1 DEF CreateReserve
  <2>1. i \in Nat /\ "validate" \in PCs /\ None \in Names \cup {None}
    BY BoundsAssumption DEF PCs
  <2>2. /\ J(i) \in Job /\ J(i).name = n /\ J(i).src = None /\ J(i).idx = i /\ J(i).op = "create"
        /\ ~J(i).failed
    BY <2>1 DEF NoJob, Job, Ops
  <2> HIDE DEF J
  <2> QED
    BY <2>1, <2>2, ReserveKeeps
<1>2. ASSUME NEW n \in Names, NEW src \in Names, NEW l \in Labels, CloneReserve(a, src, l, n)
      PROVE  AloneInv'
  <2> DEFINE J(i) == [NoJob EXCEPT !.op = "clone", !.name = n, !.src = src,
                                   !.label = l, !.idx = i]
  <2> PICK i \in 0 .. MaxSubnetIndex : /\ MayStart(a, "clone", {src, n}) /\ Reserve(n, i)
                                       /\ src \in known /\ Begin(a, "dataset", J(i))
    BY <1>2 DEF CloneReserve
  <2>1. i \in Nat /\ "dataset" \in PCs /\ src # None /\ src \in Names \cup {None}
    BY BoundsAssumption, NoneAssumption DEF PCs
  <2>2. /\ J(i) \in Job /\ J(i).name = n /\ J(i).src = src /\ J(i).idx = i /\ J(i).op = "clone"
        /\ ~J(i).failed
    BY <2>1 DEF NoJob, Job, Ops
  <2>3. MayStart(a, "clone", {n}) /\ ~InFlight(src)
    BY DEF MayStart
  <2> HIDE DEF J
  <2> QED
    BY <2>1, <2>2, <2>3, ReserveKeeps
<1>4. ASSUME NEW n \in Names, DeleteView(a, n) \/ StartView(a, n) \/ StopView(a, n)
      PROVE  AloneInv'
  BY <1>4, ViewKeeps DEF DeleteView, StartView, StopView
<1>5. ASSUME NEW n \in Names, NEW l \in Labels, SnapshotView(a, n, l) \/ RevertView(a, n, l)
      PROVE  AloneInv'
  BY <1>5, ViewKeeps DEF SnapshotView, RevertView
<1> QED
  BY <1>1, <1>2, <1>4, <1>5 DEF Submit

\* Reconcile's own steps: no request is under way.
LEMMA ReconcileLoadKeeps ==
  ASSUME IInv, AloneInv, ReconcileLoad
  PROVE  AloneInv'
<1>1. pc[Boot] = "load" /\ pc' = [pc EXCEPT ![Boot] = "pick"] /\ UNCHANGED <<storeVars, job>>
      /\ boot' = [todo |-> known, up |-> known \cap unit, errs |-> {}]
  BY DEF ReconcileLoad, Goto
<1>2. pc'[Boot] = "pick" /\ \A b \in Actors : b # Boot => pc'[b] = pc[b]
  BY <1>1 DEF IInv, TypeOK, MemoryTypeOK, Actors
<1>3. job[Boot] = NoJob
  BY <1>1, AtWork DEF Busy, Actors
<1>4. OpsFit'
  BY <1>1, <1>2, <1>3, Jobless DEF OpsFit, AloneInv, Whose
<1>5. BootAlone' /\ BootList'
  BY <1>1, <1>2, ActorsAssumption DEF BootAlone, BootList, AloneInv, Serving, Actors, storeVars
<1>6. Apart' /\ Held'
  BY <1>1, <1>2 DEF Apart, Held, AloneInv, storeVars, Busy
<1> QED
  BY <1>4, <1>5, <1>6 DEF AloneInv

LEMMA ReconcilePickKeeps ==
  ASSUME IInv, AloneInv, NEW n \in Names, ReconcilePick(n)
  PROVE  AloneInv'
<1> DEFINE j == [NoJob EXCEPT !.op = "reconcile", !.name = n, !.idx = inst[n].idx]
<1>1. pc[Boot] = "pick" /\ n \in boot.todo /\ UNCHANGED <<storeVars, cancelled>>
  BY DEF ReconcilePick
<1>2. n \in known /\ boot'.todo \subseteq known /\ boot'.errs \subseteq known
  BY <1>1 DEF ReconcilePick, AloneInv, BootList, IInv, TypeOK, MemoryTypeOK
<1>3. \A a \in Requests : pc[a] = "idle" /\ job[a] = NoJob /\ a # Boot
  BY <1>1, AtWork DEF AloneInv, BootAlone, Serving, Busy, Actors
<1>4. \/ UNCHANGED <<pc, job>>
      \/ \E p \in {"scan", "netns"} : Goto(Boot, p) /\ job' = [job EXCEPT ![Boot] = j]
  BY DEF ReconcilePick
<1>5. j.op = "reconcile" /\ j.name = n /\ j.src = None /\ j.idx = inst[n].idx
      /\ \A p \in {"scan", "netns"} : Fits(p, j)
  BY DEF NoJob, Fits, Starting
<1> HIDE DEF j
<1>6. CASE UNCHANGED <<pc, job>>
  BY <1>1, <1>2, <1>6 DEF AloneInv, OpsFit, BootAlone, Apart, Held, BootList, Serving, storeVars, Busy
<1>7. ASSUME NEW p \in {"scan", "netns"}, Goto(Boot, p), job' = [job EXCEPT ![Boot] = j]
      PROVE  AloneInv'
  <2>1. pc'[Boot] = p /\ job'[Boot] = j
    BY <1>7 DEF Goto, IInv, TypeOK, MemoryTypeOK, Actors
  <2>2. \A a \in Requests : pc'[a] = "idle" /\ job'[a] = NoJob
    BY <1>3, <1>7 DEF Goto, IInv, TypeOK, MemoryTypeOK, Actors
  <2>3. OpsFit'
    BY <1>5, <2>1, <2>2, Jobless, ActorsAssumption DEF OpsFit, Whose, Actors
  <2>4. BootAlone' /\ BootList'
    BY <1>1, <1>2, <2>1, <2>2 DEF BootAlone, BootList, storeVars
  <2>5. Apart'
    <3>1. n # None
      BY NoneAssumption
    <3> QED
      BY <1>5, <2>1, <2>2, <3>1, Jobless DEF Apart, Actors
  <2>6. Held'
    BY <1>1, <1>2, <1>5, <2>1, <2>2 DEF Held, Busy, Actors, storeVars
  <2> QED
    BY <2>3, <2>4, <2>5, <2>6 DEF AloneInv
<1> QED
  BY <1>4, <1>6, <1>7

LEMMA ReconcileCommitKeeps ==
  ASSUME IInv, AloneInv, ReconcileCommit
  PROVE  AloneInv'
<1>1. pc[Boot] = "pick" /\ pc' = [pc EXCEPT ![Boot] = "idle"] /\ UNCHANGED <<known, job>>
      /\ boot' = NoBoot
  BY DEF ReconcileCommit, Goto
<1>2. pc'[Boot] = "idle" /\ \A b \in Actors : b # Boot => pc'[b] = pc[b]
  BY <1>1 DEF IInv, TypeOK, MemoryTypeOK, Actors
<1>3. job[Boot] = NoJob
  BY <1>1, AtWork DEF Busy, Actors
<1>4. OpsFit'
  BY <1>1, <1>2, <1>3, Jobless DEF OpsFit, AloneInv, Whose
<1>5. BootAlone' /\ BootList'
  BY <1>1, <1>2 DEF BootAlone, BootList, Serving, NoBoot
<1>6. Apart'
  BY <1>1 DEF Apart, AloneInv
<1>7. Held'
  BY <1>1, <1>2, ReconcileKeepsIndexes DEF Held, AloneInv, Busy
<1> QED
  BY <1>4, <1>5, <1>6, <1>7 DEF AloneInv

\* The daemon's memory is new, at first and after a crash.
LEMMA FreshAlone ==
  ASSUME pc = [a \in Actors |-> IF a = Boot THEN "load" ELSE "idle"],
         job = [a \in Actors |-> NoJob], boot = NoBoot
  PROVE  AloneInv
<1>1. OpsFit
  BY Jobless DEF OpsFit, Whose
<1>2. BootAlone /\ BootList
  BY ActorsAssumption DEF BootAlone, BootList, Serving, Actors, NoBoot
<1>3. Apart /\ Held
  BY Jobless DEF Apart, Held, Busy
<1> QED
  BY <1>1, <1>2, <1>3 DEF AloneInv

LEMMA CrashKeeps ==
  ASSUME Crash
  PROVE  AloneInv'
<1>1. /\ pc' = [a \in Actors |-> IF a = Boot THEN "load" ELSE "idle"]
      /\ job' = [a \in Actors |-> NoJob] /\ boot' = NoBoot
  BY DEF Crash
<1>2. OpsFit'
  BY <1>1, Jobless DEF OpsFit, Whose
<1>3. BootAlone' /\ BootList'
  BY <1>1, ActorsAssumption DEF BootAlone, BootList, Serving, Actors, NoBoot
<1>4. Apart' /\ Held'
  BY <1>1, Jobless DEF Apart, Held, Busy
<1> QED
  BY <1>2, <1>3, <1>4 DEF AloneInv

LEMMA AloneStep ==
  ASSUME IInv, AloneInv, Exclusive, [Next]_vars
  PROVE  AloneInv'
<1>1. ASSUME NEW a \in Requests, Submit(a) \/ RequestStep(a)
      PROVE  AloneInv'
  BY <1>1, SubmitKeeps, WorksKeeps DEF Actors
<1>2. CASE ReconcileStep
  BY <1>2, ReconcileLoadKeeps, ReconcilePickKeeps, ReconcileCommitKeeps, WorksKeeps
  DEF ReconcileStep, Actors
<1>3. CASE UNCHANGED <<storeVars, pc, job, boot>>
  BY <1>3 DEF AloneInv, OpsFit, BootAlone, Apart, Held, BootList, Serving, storeVars, Busy
<1>4. ASSUME NEW a \in Requests, Cancel(a)
      PROVE  AloneInv'
  BY <1>3, <1>4 DEF Cancel
<1>5. ASSUME NEW n \in Names, DockerdDies(n)
      PROVE  AloneInv'
  BY <1>3, <1>5 DEF DockerdDies
<1>6. CASE Crash
  BY <1>6, CrashKeeps
<1>7. CASE UNCHANGED vars
  BY <1>3, <1>7 DEF vars
<1> QED
  BY <1>1, <1>2, <1>4, <1>5, <1>6, <1>7 DEF Next

LEMMA AloneInvariance ==
  ASSUME Exclusive
  PROVE  Spec => [](IInv /\ AloneInv)
<1>1. Init => AloneInv
  BY FreshAlone DEF Init
<1>2. IInv /\ AloneInv /\ [Next]_vars => AloneInv'
  BY AloneStep
<1> QED
  BY <1>1, <1>2, IInvInit, IInvStep, PTL DEF Spec

-----------------------------------------------------------------------------
(* A step of one goroutine, and what it leaves to the others *)

Turn(a) == StartSteps(a) \/ (a \in Requests /\ RequestStep(a))

LEMMA TurnTaken ==
  ASSUME NEW a \in Actors, Turn(a)
  PROVE  /\ Busy(a)
         /\ UNCHANGED crashes
<1>1. StartSteps(a) => Busy(a) /\ UNCHANGED crashes
  BY DEF StartSteps, SetupNetns, StartUnit, WaitForSocket, Scan, Busy
<1>2. Validate(a) \/ MakeDataset(a) \/ Deploy(a) \/ Unforward(a) \/ ProbeUnit(a)
        => Busy(a) /\ UNCHANGED crashes
  BY DEF Validate, MakeDataset, Deploy, Unforward, ProbeUnit, Busy
<1>3. StopDockerd(a) \/ ZfsOp(a) \/ DropCaches(a) \/ Destroy(a) => Busy(a) /\ UNCHANGED crashes
  BY DEF StopDockerd, ZfsOp, DropCaches, Destroy, Busy
<1>4. Commit(a) \/ Rollback(a) \/ Forget(a) => Busy(a) /\ UNCHANGED crashes
  BY DEF Commit, Rollback, Forget, DropEntry, Busy
<1> QED
  BY <1>1, <1>2, <1>3, <1>4 DEF Turn, RequestStep

\* The other goroutines stay where they are.
LEMMA OthersWait ==
  ASSUME IInv, AloneInv, NEW a \in Actors, Turn(a)
  PROVE  /\ \A b \in Actors : b # a => pc'[b] = pc[b] /\ job'[b] = job[b]
         /\ cancelled' \subseteq cancelled
<1>1. Continues(a) \/ Ends(a)
  BY StartStepsShape, RequestStepShape DEF AloneInv, Turn
<1>2. pc \in [Actors -> PCs] /\ job \in [Actors -> Job]
  BY DEF IInv, TypeOK, MemoryTypeOK
<1>3. CASE Continues(a)
  BY <1>2, <1>3 DEF Continues
<1>4. CASE Ends(a)
  BY <1>2, <1>4 DEF Ends
<1> QED
  BY <1>1, <1>3, <1>4

\* The other instances keep their entry, dataset, dockerd and namespace.
LEMMA OthersKept ==
  ASSUME IInv, AloneInv, NEW a \in Actors, Turn(a)
  PROVE  \A n \in Names : n # job[a].name => SameEntry(n) /\ SameHost(n)
<1>0. job[a].name \in Names
  BY TurnTaken, AtWork
<1>1. \A n \in Names : n # job[a].name => SameEntry(n)
  BY StartStepsShape, RequestStepShape DEF AloneInv, Turn, SameEntry, storeVars
<1> SUFFICES ASSUME NEW n \in Names, n # job[a].name
             PROVE  SameHost(n)
  BY <1>1
<1>2. CASE SetupNetns(a)
  <2>1. netns'[n] = netns[n]
    BY <1>0, <1>2 DEF SetupNetns, IInv, TypeOK, HostTypeOK
  <2> QED
    BY <1>2, <2>1 DEF SetupNetns, SameHost, zfsVars
<1>3. CASE StartUnit(a)
  BY <1>3 DEF StartUnit, SameHost, zfsVars
<1>4. CASE WaitForSocket(a) \/ Scan(a)
  BY <1>4 DEF WaitForSocket, Scan, SameHost, hostVars, zfsVars
<1>5. CASE Validate(a) \/ Deploy(a) \/ ProbeUnit(a) \/ Commit(a) \/ Rollback(a) \/ Forget(a)
  <2>1. UNCHANGED hostVars
    BY <1>5 DEF Validate, Deploy, ProbeUnit, Commit, Rollback, Forget, DropEntry
  <2> QED
    BY <2>1 DEF hostVars, zfsVars, SameHost
<1>6. CASE MakeDataset(a)
  <2> DEFINE source == [name |-> job[a].src, label |-> job[a].label]
  <2>1. /\ datasets' \in {datasets, datasets \cup {job[a].name}}
        /\ origin' = origin \/ origin' = [origin EXCEPT ![job[a].name] = source]
        /\ UNCHANGED <<zsnaps, unit, netns, stale>>
    BY <1>6 DEF MakeDataset
  <2>2. origin'[n] = origin[n]
    BY <2>1 DEF IInv, TypeOK, HostTypeOK
  <2> QED
    BY <2>1, <2>2 DEF SameHost
<1>7. CASE Unforward(a)
  BY <1>7 DEF Unforward, SameHost, hostVars, zfsVars
<1>8. CASE StopDockerd(a)
  <2>1. netns'[n] = netns[n]
    BY <1>0, <1>8 DEF StopDockerd, IInv, TypeOK, HostTypeOK
  <2> QED
    BY <1>8, <2>1 DEF StopDockerd, SameHost, zfsVars
<1>9. CASE ZfsOp(a)
  <2>1. /\ \/ UNCHANGED zsnaps
           \/ zsnaps' = [zsnaps EXCEPT ![job[a].name] = Append(@, job[a].label)]
           \/ zsnaps' = [zsnaps EXCEPT ![job[a].name] = UpTo(@, job[a].label)]
        /\ stale' \in {stale, stale \cup {job[a].name}}
        /\ UNCHANGED <<datasets, origin, unit, netns>>
    BY <1>9 DEF ZfsOp
  <2>2. zsnaps'[n] = zsnaps[n]
    BY <2>1 DEF IInv, TypeOK, HostTypeOK
  <2> QED
    BY <2>1, <2>2 DEF SameHost
<1>10. CASE DropCaches(a)
  BY <1>10 DEF DropCaches, SameHost, zfsVars
<1>11. CASE Destroy(a)
  <2>1. /\ UNCHANGED <<unit, netns, stale>>
        /\ \/ UNCHANGED zfsVars
           \/ /\ datasets' = datasets \ {job[a].name}
              /\ zsnaps' = [zsnaps EXCEPT ![job[a].name] = <<>>]
              /\ origin' = [origin EXCEPT ![job[a].name] = None]
    BY <1>11 DEF Destroy
  <2>2. zsnaps'[n] = zsnaps[n] /\ origin'[n] = origin[n]
    BY <2>1 DEF IInv, TypeOK, HostTypeOK, zfsVars
  <2> QED
    BY <2>1, <2>2 DEF SameHost, zfsVars
<1> QED
  BY <1>2, <1>3, <1>4, <1>5, <1>6, <1>7, <1>8, <1>9, <1>10, <1>11 DEF Turn, StartSteps, RequestStep

\* The first step of request a: it changes nothing but its reservation.
Submitted(a) ==
    /\ UNCHANGED <<hostVars, cancelled, boot, faults, crashes>>
    /\ Serving /\ pc[a] = "idle" /\ pc[Boot] = "idle" /\ pc'[Boot] = "idle"
    /\ pc'[a] \in {"validate", "dataset", "unforward", "probe"}
    /\ job'[a].name \in Names /\ ~job'[a].failed
    /\ Exclusive => ~InFlight(job'[a].name)
    /\ \A b \in Actors : b # a => pc'[b] = pc[b] /\ job'[b] = job[b]
    /\ \A m \in Names : m # job'[a].name => SameEntry(m)
    /\ \/ /\ pc'[a] \in {"validate", "dataset"} /\ job'[a].op \in {"create", "clone"}
          /\ (pc'[a] = "validate" <=> job'[a].op = "create")
          /\ job'[a].name \notin known
          /\ \E i \in 0 .. MaxSubnetIndex : Reserve(job'[a].name, i)
       \/ /\ pc'[a] = IF job'[a].op \in {"start", "stop"} THEN "probe" ELSE "unforward"
          /\ job'[a].op \in {"delete", "start", "stop", "snapshot", "revert"}
          /\ job'[a].name \in known /\ UNCHANGED storeVars
          /\ job'[a].op = "snapshot" => job'[a].label \notin Range(inst[job'[a].name].snaps)

LEMMA SubmitFrame ==
  ASSUME IInv, AloneInv, NEW a \in Requests, Submit(a)
  PROVE  Submitted(a)
<1>0. pc \in [Actors -> PCs] /\ job \in [Actors -> Job] /\ a \in Actors /\ Boot \in Actors /\ a # Boot
  BY ActorsAssumption DEF IInv, TypeOK, MemoryTypeOK, Actors
<1>1. ASSUME NEW p, NEW j, Begin(a, p, j), Serving
      PROVE  /\ UNCHANGED <<hostVars, cancelled, boot, faults, crashes>>
             /\ pc'[a] = p /\ job'[a] = j /\ pc[Boot] = "idle" /\ pc'[Boot] = "idle"
             /\ \A b \in Actors : b # a => pc'[b] = pc[b] /\ job'[b] = job[b]
  <2>1. /\ UNCHANGED <<hostVars, cancelled, boot, faults, crashes>>
        /\ pc' = [pc EXCEPT ![a] = p] /\ job' = [job EXCEPT ![a] = j] /\ pc[Boot] = "idle"
    BY <1>1 DEF Begin, Goto, Serving
  <2> QED
    BY <1>0, <2>1
<1>2. ASSUME NEW n \in Names, NEW i \in 0 .. MaxSubnetIndex, Reserve(n, i)
      PROVE  n \notin known /\ \A m \in Names : m # n => SameEntry(m)
  BY <1>2 DEF Reserve, SameEntry, IInv, TypeOK, StoreTypeOK
<1>3. ASSUME NEW n \in Names, NEW i \in 0 .. MaxSubnetIndex, NEW j, NEW p, NEW S,
             MayStart(a, j.op, S), n \in S, Reserve(n, i), Begin(a, p, j), j.name = n, ~j.failed,
             \/ j.op = "create" /\ p = "validate"
             \/ j.op = "clone" /\ p = "dataset"
      PROVE  Submitted(a)
  <2>1. Serving /\ pc[a] = "idle" /\ (Exclusive => ~InFlight(n))
    BY <1>3 DEF MayStart
  <2>2. n \notin known /\ \A m \in Names : m # n => SameEntry(m)
    BY <1>2, <1>3
  <2>3. /\ UNCHANGED <<hostVars, cancelled, boot, faults, crashes>>
        /\ pc'[a] = p /\ job'[a] = j /\ pc[Boot] = "idle" /\ pc'[Boot] = "idle"
        /\ \A b \in Actors : b # a => pc'[b] = pc[b] /\ job'[b] = job[b]
    BY <1>1, <1>3, <2>1
  <2> QED
    BY <1>3, <2>1, <2>2, <2>3 DEF Submitted
<1>5. ASSUME NEW n \in Names, CreateReserve(a, n)
      PROVE  Submitted(a)
  <2> DEFINE J(i) == [NoJob EXCEPT !.op = "create", !.name = n, !.idx = i]
  <2> PICK i \in 0 .. MaxSubnetIndex : /\ MayStart(a, "create", {n}) /\ Reserve(n, i)
                                       /\ Begin(a, "validate", J(i))
    BY <1>5 DEF CreateReserve
  <2>1. /\ J(i).name = n /\ J(i).op = "create" /\ ~J(i).failed
        /\ MayStart(a, J(i).op, {n})
    BY DEF NoJob
  <2> HIDE DEF J
  <2> QED
    BY <1>3, <2>1
<1>6. ASSUME NEW n \in Names, NEW src \in Names, NEW l \in Labels, CloneReserve(a, src, l, n)
      PROVE  Submitted(a)
  <2> DEFINE J(i) == [NoJob EXCEPT !.op = "clone", !.name = n, !.src = src,
                                   !.label = l, !.idx = i]
  <2> PICK i \in 0 .. MaxSubnetIndex : /\ MayStart(a, "clone", {src, n}) /\ Reserve(n, i)
                                       /\ Begin(a, "dataset", J(i))
    BY <1>6 DEF CloneReserve
  <2>1. /\ J(i).name = n /\ J(i).op = "clone" /\ ~J(i).failed
        /\ MayStart(a, J(i).op, {src, n})
    BY DEF NoJob
  <2> HIDE DEF J
  <2> QED
    BY <1>3, <2>1
<1>7. ASSUME NEW n \in Names, NEW op \in {"delete", "start", "stop", "snapshot", "revert"}, NEW l,
             View(a, n, op, l, IF op \in {"start", "stop"} THEN "probe" ELSE "unforward"),
             op = "snapshot" => l \notin Range(inst[n].snaps)
      PROVE  Submitted(a)
  <2> DEFINE j == [NoJob EXCEPT !.op = op, !.name = n, !.label = l, !.idx = inst[n].idx]
             p == IF op \in {"start", "stop"} THEN "probe" ELSE "unforward"
  <2>1. j.name = n /\ j.op = op /\ j.label = l /\ ~j.failed
    BY DEF NoJob
  <2>2. /\ Begin(a, p, j) /\ UNCHANGED storeVars /\ Serving /\ pc[a] = "idle" /\ n \in known
        /\ (Exclusive => ~InFlight(n))
    BY <1>7 DEF View, MayStart
  <2>3. p \in {"unforward", "probe"} /\ p = IF op \in {"start", "stop"} THEN "probe" ELSE "unforward"
    OBVIOUS
  <2> HIDE DEF j, p
  <2>4. \A m \in Names : SameEntry(m)
    BY <2>2 DEF SameEntry, storeVars
  <2>5. /\ UNCHANGED <<hostVars, cancelled, boot, faults, crashes>>
        /\ pc'[a] = p /\ job'[a] = j /\ pc[Boot] = "idle" /\ pc'[Boot] = "idle"
        /\ \A b \in Actors : b # a => pc'[b] = pc[b] /\ job'[b] = job[b]
    BY <1>1, <2>2
  <2> QED
    BY <1>7, <2>1, <2>2, <2>3, <2>4, <2>5 DEF Submitted
<1>8. ASSUME NEW n \in Names, DeleteView(a, n) \/ StartView(a, n) \/ StopView(a, n)
      PROVE  Submitted(a)
  BY <1>7, <1>8 DEF DeleteView, StartView, StopView
<1>9. ASSUME NEW n \in Names, NEW l \in Labels, SnapshotView(a, n, l) \/ RevertView(a, n, l)
      PROVE  Submitted(a)
  BY <1>7, <1>9 DEF SnapshotView, RevertView
<1> QED
  BY <1>5, <1>6, <1>8, <1>9 DEF Submit

-----------------------------------------------------------------------------
\* Reconcile's own steps.
Reconciles == ReconcileLoad \/ ReconcileCommit \/ \E n \in Names : ReconcilePick(n)

LEMMA ReconcileFrame ==
  ASSUME IInv, AloneInv, Reconciles
  PROVE  /\ UNCHANGED <<known, hostVars, cancelled, crashes>>
         /\ \A a \in Requests : pc[a] = "idle"
         /\ \A b \in Actors : b # Boot => pc'[b] = pc[b] /\ job'[b] = job[b]
         /\ pc[Boot] \in {"load", "pick"} /\ pc'[Boot] \in {"idle", "pick", "scan", "netns"}
         /\ \A n \in Names : inst'[n].idx = inst[n].idx /\ inst'[n].snaps = inst[n].snaps
<1>0. pc \in [Actors -> PCs] /\ job \in [Actors -> Job] /\ Boot \in Actors
  BY DEF IInv, TypeOK, MemoryTypeOK, Actors
<1>1. pc[Boot] \in {"load", "pick"}
  BY DEF Reconciles, ReconcileLoad, ReconcilePick, ReconcileCommit
<1>2. \A a \in Requests : pc[a] = "idle"
  BY <1>1 DEF AloneInv, BootAlone, Serving
<1>3. CASE ReconcileLoad
  BY <1>0, <1>1, <1>2, <1>3 DEF ReconcileLoad, Goto, storeVars
<1>4. ASSUME NEW n \in Names, ReconcilePick(n)
      PROVE  /\ UNCHANGED <<storeVars, hostVars, cancelled, crashes>>
             /\ \A b \in Actors : b # Boot => pc'[b] = pc[b] /\ job'[b] = job[b]
             /\ pc'[Boot] \in {"pick", "scan", "netns"}
  <2> DEFINE j == [NoJob EXCEPT !.op = "reconcile", !.name = n, !.idx = inst[n].idx]
  <2>1. UNCHANGED <<storeVars, hostVars, cancelled, crashes>> /\ pc[Boot] = "pick"
    BY <1>4 DEF ReconcilePick
  <2>2. \/ UNCHANGED <<pc, job>>
        \/ \E p \in {"scan", "netns"} : Goto(Boot, p) /\ job' = [job EXCEPT ![Boot] = j]
    BY <1>4 DEF ReconcilePick
  <2> HIDE DEF j
  <2> QED
    BY <1>0, <2>1, <2>2 DEF Goto
<1>5. CASE ReconcileCommit
  <2>1. /\ UNCHANGED <<known, hostVars, cancelled, crashes, job>>
        /\ pc' = [pc EXCEPT ![Boot] = "idle"]
    BY <1>5 DEF ReconcileCommit, Goto
  <2>2. inst \in [Names -> Entry]
    BY DEF IInv, TypeOK, StoreTypeOK
  <2>3. \A n \in Names : inst'[n].idx = inst[n].idx /\ inst'[n].snaps = inst[n].snaps
    BY <1>5, <2>2 DEF ReconcileCommit, Entry
  <2> QED
    BY <1>0, <1>1, <1>2, <2>1, <2>3
<1>6. CASE \E n \in Names : ReconcilePick(n)
  BY <1>1, <1>2, <1>4, <1>6 DEF storeVars
<1> QED
  BY <1>3, <1>5, <1>6 DEF Reconciles

\* Every step is the turn of a goroutine, the beginning of a request, a step of
\* Reconcile itself, something of the environment, or a crash.
LEMMA Steps ==
  ASSUME [Next]_vars
  PROVE  \/ \E a \in Actors : Turn(a)
         \/ \E a \in Requests : Submit(a)
         \/ Reconciles
         \/ \E a \in Requests : Cancel(a)
         \/ \E n \in Names : DockerdDies(n)
         \/ Crash
         \/ UNCHANGED vars
BY DEF Next, Turn, Actors, ReconcileStep, Reconciles

\* What goes on between steps of goroutines.
LEMMA EnvironmentFrame ==
  ASSUME (\E a \in Requests : Cancel(a)) \/ (\E n \in Names : DockerdDies(n)) \/ UNCHANGED vars
  PROVE  /\ UNCHANGED <<storeVars, zfsVars, netns, stale, pc, job, boot, crashes>>
         /\ unit' \subseteq unit
         /\ "cancel" \notin Faults => UNCHANGED cancelled
         /\ "death" \notin Faults => UNCHANGED unit
<1>1. ASSUME NEW a \in Requests, Cancel(a)
      PROVE  /\ UNCHANGED <<storeVars, hostVars, pc, job, boot, crashes>> /\ "cancel" \in Faults
  BY <1>1 DEF Cancel, Fails
<1>2. ASSUME NEW n \in Names, DockerdDies(n)
      PROVE  /\ UNCHANGED <<storeVars, zfsVars, netns, stale, pc, job, cancelled, boot, crashes>>
             /\ unit' \subseteq unit /\ "death" \in Faults
  BY <1>2 DEF DockerdDies, Fails
<1> QED
  BY <1>1, <1>2 DEF vars, hostVars

-----------------------------------------------------------------------------
(* ZFS works on a dataset only while its dockerd is down *)

DownForZfs == \A a \in Actors : pc[a] \in {"zfs", "drop"} => job[a].name \notin unit

\* Only a stop leads to the ZFS operation, and only that one to the drop.
LEMMA ZfsEntered ==
  ASSUME IInv, AloneInv, NEW a \in Actors, Turn(a), pc'[a] \in {"zfs", "drop"}
  PROVE  /\ a \in Requests /\ job'[a].name = job[a].name
         /\ StopDockerd(a) \/ (ZfsOp(a) /\ pc[a] = "zfs")
<1>0. pc \in [Actors -> PCs] /\ job \in [Actors -> Job]
  BY DEF IInv, TypeOK, MemoryTypeOK
<1>1. ASSUME NEW p, Goto(a, p)
      PROVE  p \in {"zfs", "drop"}
  BY <1>0, <1>1 DEF Goto
<1>2. ~Return(a)
  BY <1>1 DEF Return
<1>3. ~StartFailed(a)
  BY <1>1, <1>2 DEF StartFailed
<1>4. ~StartSteps(a)
  BY <1>1, <1>2, <1>3 DEF StartSteps, SetupNetns, StartUnit, WaitForSocket, Scan
<1>5. ~Validate(a) /\ ~MakeDataset(a) /\ ~Deploy(a) /\ ~Unforward(a) /\ ~DropCaches(a)
  BY <1>1 DEF Validate, MakeDataset, Deploy, Unforward, DropCaches
<1>6. ~ProbeUnit(a)
  <2>1. ASSUME ProbeUnit(a), ~Return(a)
        PROVE  \E p \in {"netns", "unforward", "stop", "destroy"} : Goto(a, p)
    BY <2>1 DEF ProbeUnit
  <2> QED
    BY <1>1, <1>2, <2>1
<1>7. ~Destroy(a) /\ ~Commit(a) /\ ~Rollback(a) /\ ~Forget(a)
  BY <1>1, <1>2 DEF Destroy, Commit, Rollback, Forget, DropEntry
<1>8. a \in Requests /\ (StopDockerd(a) \/ ZfsOp(a))
  BY <1>4, <1>5, <1>6, <1>7 DEF Turn, RequestStep
<1>9. job'[a].name = job[a].name
  <2>1. StopDockerd(a) => UNCHANGED job
    BY DEF StopDockerd
  <2>2. ZfsOp(a) => UNCHANGED job \/ job' = [job EXCEPT ![a].failed = TRUE]
    BY DEF ZfsOp
  <2> QED
    BY <1>0, <1>8, <2>1, <2>2 DEF Job
<1> QED
  BY <1>4, <1>8, <1>9 DEF ZfsOp, Turn

LEMMA DownForZfsStep ==
  ASSUME IInv, AloneInv, DownForZfs, "stop" \notin Faults, [Next]_vars
  PROVE  DownForZfs'
<1>1. ASSUME NEW a \in Actors, Turn(a)
      PROVE  DownForZfs'
  <2> SUFFICES ASSUME NEW b \in Actors, pc'[b] \in {"zfs", "drop"}
               PROVE  job'[b].name \notin unit'
    BY DEF DownForZfs
  <2>1. CASE b = a
    <3>1. a \in Requests /\ job'[a].name = job[a].name
          /\ (StopDockerd(a) \/ (ZfsOp(a) /\ pc[a] = "zfs"))
      BY <1>1, <2>1, ZfsEntered
    <3>2. CASE StopDockerd(a)
      BY <2>1, <3>1, <3>2 DEF StopDockerd, Fails
    <3>3. CASE ZfsOp(a) /\ pc[a] = "zfs"
      BY <2>1, <3>1, <3>3 DEF ZfsOp, DownForZfs
    <3> QED
      BY <3>1, <3>2, <3>3
  <2>2. CASE b # a
    <3>1. pc[b] \in {"zfs", "drop"} /\ job'[b] = job[b]
      BY <1>1, <2>2, OthersWait
    <3>2. job[b].name \in Names /\ job[b].name # job[a].name
      BY <2>2, <3>1, AtWork DEF Busy, AloneInv, Apart
    <3> QED
      BY <1>1, <3>1, <3>2, OthersKept DEF SameHost, DownForZfs
  <2> QED
    BY <2>1, <2>2
<1>2. ASSUME NEW a \in Requests, Submit(a)
      PROVE  DownForZfs'
  BY <1>2, SubmitFrame DEF Submitted, DownForZfs, hostVars
<1>3. CASE Reconciles
  BY <1>3, ReconcileFrame DEF DownForZfs, hostVars
<1>4. CASE (\E a \in Requests : Cancel(a)) \/ (\E n \in Names : DockerdDies(n)) \/ UNCHANGED vars
  BY <1>4, EnvironmentFrame DEF DownForZfs
<1>5. CASE Crash
  BY <1>5 DEF Crash, DownForZfs
<1> QED
  BY <1>1, <1>2, <1>3, <1>4, <1>5, Steps

LEMMA DownForZfsInvariance ==
  ASSUME Exclusive, "stop" \notin Faults
  PROVE  Spec => [](IInv /\ AloneInv /\ DownForZfs)
<1>1. Init => DownForZfs
  BY DEF Init, DownForZfs
<1>2. IInv /\ AloneInv /\ DownForZfs /\ [Next]_vars => DownForZfs'
  BY DownForZfsStep
<1>3. Spec => [](IInv /\ AloneInv)
  BY AloneInvariance
<1> QED
  BY <1>1, <1>2, <1>3, PTL DEF Spec

\* Who changes the snapshots of a dataset that stays.
LEMMA SnapshotWriters ==
  ASSUME IInv, AloneInv, [Next]_vars, NEW n \in datasets \cap datasets', zsnaps'[n] # zsnaps[n]
  PROVE  \E a \in Requests : ZfsOp(a) /\ n = job[a].name /\ pc[a] = "zfs"
<1>0. n \in Names
  BY DEF IInv, TypeOK, HostTypeOK
<1>1. PICK a \in Actors : Turn(a)
  <2>1. ASSUME UNCHANGED zsnaps
        PROVE  FALSE
    BY <2>1
  <2>2. Crash => UNCHANGED zsnaps
    BY DEF Crash, zfsVars
  <2> QED
    BY <2>1, <2>2, Steps, SubmitFrame, ReconcileFrame, EnvironmentFrame DEF Submitted, hostVars, zfsVars
<1>2. n = job[a].name
  BY <1>0, <1>1, OthersKept DEF SameHost
<1>3. ~StartSteps(a)
  BY DEF StartSteps, SetupNetns, StartUnit, WaitForSocket, Scan, hostVars, zfsVars
<1>4. ~Validate(a) /\ ~MakeDataset(a) /\ ~Deploy(a) /\ ~Unforward(a) /\ ~ProbeUnit(a)
  BY DEF Validate, MakeDataset, Deploy, Unforward, ProbeUnit, hostVars, zfsVars
<1>5. ~StopDockerd(a) /\ ~DropCaches(a) /\ ~Commit(a) /\ ~Rollback(a) /\ ~Forget(a)
  BY DEF StopDockerd, DropCaches, Commit, Rollback, Forget, DropEntry, hostVars, zfsVars
<1>6. ~Destroy(a)
  <2>1. Destroy(a) => UNCHANGED zfsVars \/ datasets' = datasets \ {job[a].name}
    BY DEF Destroy
  <2> QED
    BY <1>2, <2>1 DEF zfsVars
<1> QED
  BY <1>1, <1>2, <1>3, <1>4, <1>5, <1>6 DEF Turn, RequestStep, ZfsOp

\* With one request at a time per instance, ZFS never snapshots or rolls back
\* a dataset under a live dockerd (runStoppedZFSOp), whatever is cancelled,
\* crashes or fails, so long as a stop that reports success has stopped it.
THEOREM ZfsOnlyWhenStopped ==
  ASSUME Exclusive, "stop" \notin Faults
  PROVE  Spec => ZfsOpsOnlyWhenStopped
<1>1. IInv /\ AloneInv /\ DownForZfs /\ [Next]_vars =>
        [\A n \in datasets \cap datasets' : zsnaps'[n] # zsnaps[n] => n \notin unit]_vars
  <2> SUFFICES ASSUME IInv, AloneInv, DownForZfs, [Next]_vars,
                      NEW n \in datasets \cap datasets', zsnaps'[n] # zsnaps[n]
               PROVE  n \notin unit
    OBVIOUS
  <2> QED
    BY SnapshotWriters DEF DownForZfs, Actors
<1> QED
  BY <1>1, DownForZfsInvariance, PTL DEF Spec, ZfsOpsOnlyWhenStopped

-----------------------------------------------------------------------------
(* Reconcile reports what it could not bring up *)

\* While Reconcile works, every entry that says "running" is still to be
\* handled, in its list of errors, or up.
Accounted ==
    pc[Boot] \notin {"idle", "load"} =>
        /\ boot.up \subseteq unit
        /\ pc[Boot] \in {"netns", "unit", "wait"} => job[Boot].name \notin boot.up
        /\ pc[Boot] = "scan" => job[Boot].name \in unit
        /\ \A n \in known : inst[n].status = "running" =>
              \/ n \in boot.todo \cup boot.errs \cup unit
              \/ Busy(Boot) /\ n = job[Boot].name

LEMMA BootTurnAccounted ==
  ASSUME IInv, AloneInv, Accounted, StartSteps(Boot)
  PROVE  Accounted'
<1> DEFINE n == job[Boot].name
<1>0. /\ Boot \in Actors /\ Busy(Boot) /\ Turn(Boot)
      /\ pc \in [Actors -> PCs] /\ job \in [Actors -> Job]
      /\ boot \in [todo : SUBSET Names, up : SUBSET Names, errs : SUBSET Names]
  BY TurnTaken DEF IInv, TypeOK, MemoryTypeOK, Actors, Turn
<1>1. job[Boot].op = "reconcile"
  <2>1. Fits(pc[Boot], job[Boot]) /\ Whose(Boot, pc[Boot], job[Boot])
    BY <1>0, FitNow DEF AloneInv
  <2> QED
    BY <1>0, <2>1 DEF Fits, Whose, Busy
<1>2. UNCHANGED storeVars
  BY <1>0, StartStepsShape DEF AloneInv
<1>3. /\ boot.up \subseteq unit
      /\ pc[Boot] \in {"netns", "unit", "wait"} => n \notin boot.up
      /\ pc[Boot] = "scan" => n \in unit
      /\ \A m \in known : inst[m].status = "running" => m \in boot.todo \cup boot.errs \cup unit \cup {n}
  BY <1>0 DEF Accounted, Busy
<1>4. ASSUME StartFailed(Boot)
      PROVE  /\ pc'[Boot] = "pick" /\ boot'.up = boot.up /\ boot'.todo = boot.todo
             /\ boot'.errs = boot.errs \cup {n}
  BY <1>0, <1>1, <1>4 DEF StartFailed, Goto
<1>5. ASSUME NEW p, Goto(Boot, p), UNCHANGED <<job, boot>>
      PROVE  pc'[Boot] = p /\ job'[Boot].name = n /\ boot' = boot
  BY <1>0, <1>5 DEF Goto
<1> HIDE DEF n
<1>6. CASE StartFailed(Boot) /\ unit \ {n} \subseteq unit' /\ (n \notin unit' => n \notin boot.up)
  BY <1>2, <1>3, <1>4, <1>6 DEF Accounted, storeVars
<1>7. ASSUME NEW p \in {"unit", "wait"}, Goto(Boot, p), UNCHANGED <<job, boot>>, unit \subseteq unit',
             pc[Boot] \in {"netns", "unit"}
      PROVE  Accounted'
  BY <1>2, <1>3, <1>5, <1>7 DEF Accounted, storeVars, Busy
<1>8. CASE SetupNetns(Boot)
  <2>1. UNCHANGED unit /\ pc[Boot] = "netns"
        /\ (StartFailed(Boot) \/ (Goto(Boot, "unit") /\ UNCHANGED <<job, boot>>))
    BY <1>8 DEF SetupNetns
  <2> QED
    BY <1>3, <1>6, <1>7, <2>1
<1>9. CASE StartUnit(Boot)
  <2>1. unit \subseteq unit' /\ pc[Boot] = "unit"
        /\ (StartFailed(Boot) \/ (Goto(Boot, "wait") /\ UNCHANGED <<job, boot>>))
    BY <1>9 DEF StartUnit
  <2> QED
    BY <1>3, <1>6, <1>7, <2>1
<1>10. CASE WaitForSocket(Boot)
  <2>1. /\ pc[Boot] = "wait"
        /\ \/ StartFailed(Boot) /\ unit' \in {unit, unit \ {n}}
           \/ n \in unit /\ UNCHANGED <<unit, job, boot>> /\ Goto(Boot, "scan")
    BY <1>1, <1>10 DEF WaitForSocket, n
  <2>2. CASE n \in unit /\ UNCHANGED <<unit, job, boot>> /\ Goto(Boot, "scan")
    BY <1>2, <1>3, <1>5, <2>2 DEF Accounted, storeVars, Busy
  <2> QED
    BY <1>3, <1>6, <2>1, <2>2
<1>11. CASE Scan(Boot)
  <2>1. UNCHANGED <<unit, boot>> /\ pc[Boot] = "scan" /\ pc'[Boot] = "pick"
    BY <1>0, <1>1, <1>11 DEF Scan, Goto, hostVars
  <2> QED
    BY <1>2, <1>3, <2>1 DEF Accounted, storeVars
<1> QED
  BY <1>8, <1>9, <1>10, <1>11 DEF StartSteps

LEMMA PickAccounted ==
  ASSUME IInv, AloneInv, Accounted, NEW n \in Names, ReconcilePick(n)
  PROVE  Accounted'
<1> DEFINE j == [NoJob EXCEPT !.op = "reconcile", !.name = n, !.idx = inst[n].idx]
<1>0. /\ pc[Boot] = "pick" /\ n \in boot.todo /\ UNCHANGED <<storeVars, unit>> /\ ~Busy(Boot)
      /\ pc \in [Actors -> PCs] /\ job \in [Actors -> Job] /\ Boot \in Actors
      /\ boot \in [todo : SUBSET Names, up : SUBSET Names, errs : SUBSET Names]
  BY DEF ReconcilePick, hostVars, Busy, IInv, TypeOK, MemoryTypeOK, Actors
<1>1. /\ boot.up \subseteq unit
      /\ \A m \in known : inst[m].status = "running" => m \in boot.todo \cup boot.errs \cup unit
  BY <1>0 DEF Accounted
<1>2. j.name = n
  BY DEF NoJob
<1>3. ASSUME NEW p \in {"scan", "netns"}, Goto(Boot, p), job' = [job EXCEPT ![Boot] = j]
      PROVE  pc'[Boot] = p /\ job'[Boot].name = n /\ Busy(Boot)'
  BY <1>0, <1>2, <1>3 DEF Goto, Busy
<1>4. /\ boot'.up = boot.up /\ boot'.todo = boot.todo \ {n}
      /\ \/ boot'.errs = boot.errs /\ inst[n].status # "running" /\ UNCHANGED pc
         \/ boot'.errs = boot.errs /\ n \in boot.up /\ Goto(Boot, "scan") /\ job' = [job EXCEPT ![Boot] = j]
         \/ boot'.errs = boot.errs /\ n \notin boot.up /\ Goto(Boot, "netns") /\ job' = [job EXCEPT ![Boot] = j]
         \/ boot'.errs = boot.errs \cup {n} /\ UNCHANGED pc
  BY <1>0 DEF ReconcilePick
<1> HIDE DEF j
<1>5. CASE inst[n].status # "running" /\ boot'.errs = boot.errs /\ UNCHANGED pc
  BY <1>0, <1>1, <1>4, <1>5 DEF Accounted, storeVars
<1>6. CASE boot'.errs = boot.errs \cup {n} /\ UNCHANGED pc
  BY <1>0, <1>1, <1>4, <1>6 DEF Accounted, storeVars
<1>7. ASSUME NEW p \in {"scan", "netns"}, Goto(Boot, p), job' = [job EXCEPT ![Boot] = j],
             boot'.errs = boot.errs, p = "scan" => n \in boot.up, p = "netns" => n \notin boot.up
      PROVE  Accounted'
  BY <1>0, <1>1, <1>3, <1>4, <1>7 DEF Accounted, storeVars
<1> QED
  BY <1>4, <1>5, <1>6, <1>7

LEMMA AccountedStep ==
  ASSUME IInv, AloneInv, Accounted, "death" \notin Faults, [Next]_vars
  PROVE  Accounted'
<1>1. ASSUME NEW a \in Requests, Turn(a) \/ Submit(a)
      PROVE  Accounted'
  <2>1. pc[Boot] = "idle" /\ pc'[Boot] = "idle"
    BY <1>1, TurnTaken, AtWork, OthersWait, SubmitFrame, ActorsAssumption DEF Submitted, Actors
  <2> QED
    BY <2>1 DEF Accounted
<1>2. CASE Turn(Boot)
  BY <1>2, BootTurnAccounted, ActorsAssumption DEF Turn
<1>3. CASE ReconcileLoad
  <2>1. /\ UNCHANGED <<storeVars, unit>> /\ pc'[Boot] = "pick"
        /\ boot' = [todo |-> known, up |-> known \cap unit, errs |-> {}]
    BY <1>3 DEF ReconcileLoad, Goto, hostVars, IInv, TypeOK, MemoryTypeOK, Actors
  <2> QED
    BY <2>1 DEF Accounted, storeVars
<1>4. ASSUME NEW n \in Names, ReconcilePick(n)
      PROVE  Accounted'
  BY <1>4, PickAccounted
<1>5. CASE ReconcileCommit \/ Crash
  <2>1. pc'[Boot] \in {"idle", "load"}
    BY <1>5 DEF ReconcileCommit, Crash, Goto, IInv, TypeOK, MemoryTypeOK, Actors
  <2> QED
    BY <2>1 DEF Accounted
<1>6. CASE (\E a \in Requests : Cancel(a)) \/ (\E n \in Names : DockerdDies(n)) \/ UNCHANGED vars
  BY <1>6, EnvironmentFrame DEF Accounted, storeVars, Busy
<1> QED
  BY <1>1, <1>2, <1>3, <1>4, <1>5, <1>6, Steps DEF Actors, Reconciles

\* When Reconcile is done, every entry that still says "running" has its
\* dockerd up, and one it could not bring up says "error": for any number of
\* instances, whatever else fails and wherever earlier daemons died, so long
\* as no dockerd dies meanwhile and the last Update is written.
THEOREM ReconcileReportsAll ==
  ASSUME Exclusive, "death" \notin Faults, "save" \notin Faults
  PROVE  Spec => ReconcileReports
<1>1. Init => Accounted
  BY DEF Init, Accounted, Actors
<1>2. IInv /\ AloneInv /\ Accounted /\ [Next]_vars => Accounted'
  BY AccountedStep
<1>3. IInv /\ AloneInv /\ Accounted /\ [Next]_vars =>
        [pc[Boot] = "pick" /\ pc'[Boot] = "idle" =>
           \A n \in known : inst'[n].status = "running" => n \in unit]_vars
  <2> SUFFICES ASSUME IInv, AloneInv, Accounted, [Next]_vars, pc[Boot] = "pick", pc'[Boot] = "idle",
                      NEW n \in known, inst'[n].status = "running"
               PROVE  n \in unit
    OBVIOUS
  <2>0. Boot \in Actors /\ ~Busy(Boot) /\ n \in Names /\ inst \in [Names -> Entry]
    BY DEF Actors, Busy, IInv, TypeOK, StoreTypeOK
  <2>1. ReconcileCommit
    <3>1. ASSUME NEW a \in Actors, Turn(a)
          PROVE  FALSE
      <4>1. a # Boot
        BY <2>0, <3>1, TurnTaken
      <4> QED
        BY <2>0, <3>1, <4>1, OthersWait
    <3>2. ~Crash /\ ~ReconcileLoad /\ ~\E m \in Names : ReconcilePick(m)
      <4>1. ~Crash /\ ~ReconcileLoad
        BY <2>0 DEF Crash, ReconcileLoad
      <4>2. ASSUME NEW m \in Names, ReconcilePick(m)
            PROVE  FALSE
        <5>1. UNCHANGED pc \/ \E p \in {"scan", "netns"} : Goto(Boot, p)
          BY <4>2 DEF ReconcilePick
        <5> QED
          BY <2>0, <5>1 DEF Goto, IInv, TypeOK, MemoryTypeOK
      <4> QED
        BY <4>1, <4>2
    <3>3. ~\E a \in Requests : Submit(a)
      BY SubmitFrame DEF Submitted
    <3>4. UNCHANGED pc => FALSE
      OBVIOUS
    <3> QED
      BY <3>1, <3>2, <3>3, <3>4, Steps, EnvironmentFrame DEF Reconciles
  <2>2. boot.todo = {} /\ inst' = [m \in Names |-> IF m \in boot.errs \cap known
                                   THEN [inst[m] EXCEPT !.status = "error"] ELSE inst[m]]
    BY <2>1 DEF ReconcileCommit, Fails
  <2>3. n \notin boot.errs /\ inst[n].status = "running"
    BY <2>0, <2>2 DEF Entry
  <2> QED
    BY <2>0, <2>2, <2>3 DEF Accounted
<1>4. Spec => [](IInv /\ AloneInv)
  BY AloneInvariance
<1> QED
  BY <1>1, <1>2, <1>3, <1>4, PTL DEF Spec, ReconcileReports

-----------------------------------------------------------------------------
(* No dockerd over stale pages *)

\* A dataset rolled back under page cache is in the hands of a request that is
\* about to drop the cache.
DropPending ==
    /\ cancelled = {}
    /\ \A n \in stale : \E a \in Requests : pc[a] = "drop" /\ job[a].name = n

LEMMA DropPendingStep ==
  ASSUME IInv, AloneInv, DropPending, MaxCrashes = 0,
         "drop" \notin Faults, "cancel" \notin Faults, [Next]_vars
  PROVE  DropPending'
<1>1. ASSUME NEW a \in Actors, Turn(a)
      PROVE  DropPending'
  <2>0. cancelled' = {} /\ job[a].name \in Names /\ stale' \subseteq Names
        /\ pc \in [Actors -> PCs] /\ job \in [Actors -> Job]
    BY <1>1, OthersWait, TurnTaken, AtWork, IInvStep
    DEF DropPending, IInv, TypeOK, MemoryTypeOK, HostTypeOK
  <2> SUFFICES ASSUME NEW n \in stale'
               PROVE  \E b \in Requests : pc'[b] = "drop" /\ job'[b].name = n
    BY <2>0 DEF DropPending
  <2>1. CASE n \in stale /\ \E b \in Requests : b # a /\ pc[b] = "drop" /\ job[b].name = n
    BY <1>1, <2>1, OthersWait DEF Actors
  <2>2. CASE n \in stale /\ a \in Requests /\ pc[a] = "drop" /\ job[a].name = n
    <3>1. ~StartSteps(a) /\ ~Validate(a) /\ ~MakeDataset(a) /\ ~Deploy(a) /\ ~Unforward(a)
      BY <2>2 DEF StartSteps, SetupNetns, StartUnit, WaitForSocket, Scan, Validate, MakeDataset,
                  Deploy, Unforward
    <3>2. ~ProbeUnit(a) /\ ~StopDockerd(a) /\ ~ZfsOp(a) /\ ~Destroy(a) /\ ~Commit(a)
          /\ ~Rollback(a) /\ ~Forget(a)
      BY <2>2 DEF ProbeUnit, StopDockerd, ZfsOp, Destroy, Commit, Rollback, Forget
    <3>3. DropCaches(a)
      BY <1>1, <3>1, <3>2 DEF Turn, RequestStep
    <3>4. stale' = {}
      BY <3>3 DEF DropCaches, CmdFails, Fails, DropPending
    <3> QED
      BY <3>4
  <2>3. CASE n \notin stale
    <3>1. n = job[a].name
      BY <1>1, <2>0, <2>3, OthersKept DEF SameHost
    <3>2. ~StartSteps(a) /\ ~Validate(a) /\ ~MakeDataset(a) /\ ~Deploy(a) /\ ~Unforward(a)
      BY <2>3 DEF StartSteps, SetupNetns, StartUnit, WaitForSocket, Scan, Validate, MakeDataset,
                  Deploy, Unforward, hostVars, zfsVars
    <3>3. ~ProbeUnit(a) /\ ~StopDockerd(a) /\ ~Destroy(a) /\ ~Commit(a) /\ ~Rollback(a)
          /\ ~Forget(a) /\ ~DropCaches(a)
      BY <2>3 DEF ProbeUnit, StopDockerd, Destroy, Commit, Rollback, Forget, DropEntry, DropCaches,
                  hostVars, zfsVars
    <3>4. ZfsOp(a) /\ a \in Requests
      BY <1>1, <3>2, <3>3 DEF Turn, RequestStep
    <3>5. Goto(a, "drop") /\ UNCHANGED job
      BY <2>3, <3>4 DEF ZfsOp, CmdKilled, DropPending
    <3> QED
      BY <2>0, <3>1, <3>4, <3>5 DEF Goto
  <2> QED
    BY <2>1, <2>2, <2>3 DEF DropPending
<1>2. ASSUME NEW a \in Requests, Submit(a)
      PROVE  DropPending'
  <2>1. /\ UNCHANGED <<hostVars, cancelled>> /\ pc[a] = "idle"
        /\ \A b \in Requests : b # a => pc'[b] = pc[b] /\ job'[b] = job[b]
    BY <1>2, SubmitFrame DEF Submitted, Actors
  <2> QED
    BY <2>1 DEF DropPending, hostVars
<1>3. CASE Reconciles
  <2>1. /\ UNCHANGED <<hostVars, cancelled>>
        /\ \A b \in Requests : pc'[b] = pc[b] /\ job'[b] = job[b]
    BY <1>3, ReconcileFrame, ActorsAssumption DEF Actors
  <2> QED
    BY <2>1 DEF DropPending, hostVars
<1>4. CASE (\E a \in Requests : Cancel(a)) \/ (\E n \in Names : DockerdDies(n)) \/ UNCHANGED vars
  BY <1>4, EnvironmentFrame DEF DropPending
<1>5. ~Crash
  BY DEF Crash, IInv, TypeOK
<1> QED
  BY <1>1, <1>2, <1>3, <1>4, <1>5, Steps

\* No dockerd ever runs over a dataset that was rolled back under page cache
\* not dropped since (Revert's dropPage), so long as the daemon does not die
\* between the rollback and the drop and neither the drop nor the stop before
\* it fails: the daemon only logs both failures.
THEOREM StalePagesNeverServed ==
  ASSUME Exclusive, MaxCrashes = 0, Faults \cap {"stop", "drop", "cancel"} = {}
  PROVE  Spec => []NoStalePages
<1>1. Init => DropPending
  BY DEF Init, DropPending
<1>2. IInv /\ AloneInv /\ DropPending /\ [Next]_vars => DropPending'
  BY DropPendingStep
<1>3. DownForZfs /\ DropPending => NoStalePages
  BY DEF DownForZfs, DropPending, NoStalePages, Actors
<1>4. Spec => [](IInv /\ AloneInv /\ DownForZfs)
  BY DownForZfsInvariance
<1> QED
  BY <1>1, <1>2, <1>3, <1>4, PTL DEF Spec

-----------------------------------------------------------------------------
(* The order of the snapshots *)

\* Labels that s and z share are in the same order in both.
SameOrder(s, z) ==
    \A i, j \in 1 .. Len(s) : \A k, m \in 1 .. Len(z) :
        i < j /\ s[i] = z[k] /\ s[j] = z[m] => k < m

\* A list trimmed by Revert or by "rollback -r" is a beginning of the list.
LEMMA UpToPrefix ==
  ASSUME NEW S, NEW s \in Seq(S), NEW l
  PROVE  /\ Len(UpTo(s, l)) \in Nat /\ Len(UpTo(s, l)) <= Len(s)
         /\ \A i \in 1 .. Len(UpTo(s, l)) : UpTo(s, l)[i] = s[i]
<1> DEFINE T == {i \in 1 .. Len(s) : \A j \in 1 .. i - 1 : s[j] # l}
           c == Cardinality(T)
<1>1. Len(s) \in Nat
  BY LenProperties
<1>2. IsFiniteSet(1 .. Len(s)) /\ Cardinality(1 .. Len(s)) = Len(s)
  BY <1>1, CountTo
<1>3. T \subseteq 1 .. Len(s)
  OBVIOUS
<1> HIDE DEF T
<1>4. IsFiniteSet(T) /\ Cardinality(T) <= Cardinality(1 .. Len(s))
  BY <1>2, <1>3, FS_Subset
<1>5. c \in Nat /\ c <= Len(s)
  BY <1>2, <1>4, FS_CardinalityType
<1>6. UpTo(s, l) = SubSeq(s, 1, c)
  BY DEF UpTo, T
<1> HIDE DEF c
<1>7. \A i \in 1 .. c : s[i] \in S
  BY <1>1, <1>5, ElementOfSeq
<1>8. /\ Len(SubSeq(s, 1, c)) = c
      /\ \A i \in 1 .. c : SubSeq(s, 1, c)[i] = s[i]
  BY <1>1, <1>5, <1>7, SubSeqProperties
<1> QED
  BY <1>5, <1>6, <1>8

LEMMA OrderOfPrefixes ==
  ASSUME NEW S, NEW s \in Seq(S), NEW z \in Seq(S), NEW l, SameOrder(s, z)
  PROVE  SameOrder(UpTo(s, l), z) /\ SameOrder(s, UpTo(z, l))
<1>1. /\ Len(s) \in Nat /\ Len(z) \in Nat
      /\ Len(UpTo(s, l)) \in Nat /\ Len(UpTo(s, l)) <= Len(s)
      /\ \A i \in 1 .. Len(UpTo(s, l)) : UpTo(s, l)[i] = s[i]
      /\ Len(UpTo(z, l)) \in Nat /\ Len(UpTo(z, l)) <= Len(z)
      /\ \A i \in 1 .. Len(UpTo(z, l)) : UpTo(z, l)[i] = z[i]
  BY UpToPrefix, LenProperties
<1> DEFINE u == UpTo(s, l)
           v == UpTo(z, l)
<1>2. SameOrder(u, z)
  <2> HIDE DEF u
  <2> SUFFICES ASSUME NEW i \in 1 .. Len(u), NEW j \in 1 .. Len(u),
                      NEW k \in 1 .. Len(z), NEW m \in 1 .. Len(z),
                      i < j, u[i] = z[k], u[j] = z[m]
               PROVE  k < m
    BY DEF SameOrder
  <2>1. i \in 1 .. Len(s) /\ j \in 1 .. Len(s) /\ s[i] = z[k] /\ s[j] = z[m]
    BY <1>1 DEF u
  <2> QED
    BY <2>1 DEF SameOrder
<1>3. SameOrder(s, v)
  <2> HIDE DEF v
  <2> SUFFICES ASSUME NEW i \in 1 .. Len(s), NEW j \in 1 .. Len(s),
                      NEW k \in 1 .. Len(v), NEW m \in 1 .. Len(v),
                      i < j, s[i] = v[k], s[j] = v[m]
               PROVE  k < m
    BY DEF SameOrder
  <2>1. k \in 1 .. Len(z) /\ m \in 1 .. Len(z) /\ s[i] = z[k] /\ s[j] = z[m]
    BY <1>1 DEF v
  <2> QED
    BY <2>1 DEF SameOrder
<1> QED
  BY <1>2, <1>3

LEMMA OrderOfEmpty ==
  ASSUME NEW s
  PROVE  SameOrder(s, <<>>) /\ SameOrder(<<>>, s)
BY EmptySeq DEF SameOrder

\* A snapshot whose label the state file does not have yet.
LEMMA OrderAfterSnapshot ==
  ASSUME NEW S, NEW s \in Seq(S), NEW z \in Seq(S), NEW l \in S, SameOrder(s, z), l \notin Range(s)
  PROVE  SameOrder(s, Append(z, l))
<1>1. /\ Len(z) \in Nat /\ Len(Append(z, l)) = Len(z) + 1
      /\ \A k \in 1 .. Len(z) : Append(z, l)[k] = z[k]
      /\ Append(z, l)[Len(z) + 1] = l
  BY LenProperties, AppendProperties
<1>2. \A i \in 1 .. Len(s) : s[i] # l
  BY LenProperties DEF Range
<1> DEFINE t == Append(z, l)
<1> SUFFICES ASSUME NEW i \in 1 .. Len(s), NEW j \in 1 .. Len(s),
                    NEW k \in 1 .. Len(t), NEW m \in 1 .. Len(t),
                    i < j, s[i] = t[k], s[j] = t[m]
             PROVE  k < m
  BY DEF SameOrder
<1> HIDE DEF t
<1>3. k # Len(z) + 1 /\ m # Len(z) + 1
  BY <1>1, <1>2 DEF t
<1>4. k \in 1 .. Len(z) /\ m \in 1 .. Len(z)
  BY <1>1, <1>3 DEF t
<1>5. s[i] = z[k] /\ s[j] = z[m]
  BY <1>1, <1>4 DEF t
<1> QED
  BY <1>4, <1>5 DEF SameOrder

\* The state file gets the label of the newest snapshot.
LEMMA OrderAfterCommit ==
  ASSUME NEW S, NEW s \in Seq(S), NEW z \in Seq(S), NEW l \in S, SameOrder(s, z), l \notin Range(s),
         Len(z) > 0, z[Len(z)] = l, \A k \in 1 .. Len(z) : z[k] = l => k = Len(z)
  PROVE  SameOrder(Append(s, l), z)
<1> DEFINE t == Append(s, l)
<1>1. /\ Len(s) \in Nat /\ Len(z) \in Nat /\ Len(t) = Len(s) + 1
      /\ \A i \in 1 .. Len(s) : t[i] = s[i]
      /\ t[Len(s) + 1] = l
  BY LenProperties, AppendProperties
<1>2. \A i \in 1 .. Len(s) : s[i] # l
  BY LenProperties DEF Range
<1> HIDE DEF t
<1> SUFFICES ASSUME NEW i \in 1 .. Len(t), NEW j \in 1 .. Len(t),
                    NEW k \in 1 .. Len(z), NEW m \in 1 .. Len(z),
                    i < j, t[i] = z[k], t[j] = z[m]
             PROVE  k < m
  BY DEF SameOrder, t
<1>3. i \in 1 .. Len(s) /\ t[i] = s[i] /\ z[k] # l
  BY <1>1, <1>2
<1>4. CASE j \in 1 .. Len(s)
  <2>1. s[i] = z[k] /\ s[j] = z[m]
    BY <1>1, <1>3, <1>4
  <2> QED
    BY <1>3, <1>4, <2>1 DEF SameOrder
<1>5. CASE j = Len(s) + 1
  <2>1. m = Len(z) /\ k # Len(z)
    BY <1>1, <1>3, <1>5
  <2> QED
    BY <1>1, <2>1
<1>6. j \in 1 .. Len(s) \/ j = Len(s) + 1
  <2>1. Len(s) \in Nat /\ Len(t) = Len(s) + 1
    BY <1>1
  <2> QED
    BY <2>1
<1> QED
  BY <1>4, <1>5, <1>6

\* A snapshot under way has a label the state file does not have; once ZFS has
\* taken it, it is the newest one and the only one of that label.
Taken(a) ==
    LET z == zsnaps[job[a].name]
        l == job[a].label
    IN job[a].op = "snapshot" =>
         /\ l \notin Range(inst[job[a].name].snaps)
         /\ pc[a] = "commit" => ~job[a].failed
         /\ pc[a] \in Starting \cup {"commit"} /\ ~job[a].failed =>
              /\ Len(z) > 0 /\ z[Len(z)] = l
              /\ \A k \in 1 .. Len(z) : z[k] = l => k = Len(z)

OrderInv ==
    /\ \A n \in Names : SameOrder(inst[n].snaps, zsnaps[n])
    /\ \A a \in Requests : Taken(a)

\* The labels and snapshots a turn works on.
LEMMA TurnOnSnapshots ==
  ASSUME IInv, AloneInv, NEW a \in Actors, Turn(a)
  PROVE  LET n == job[a].name IN
         \/ inst'[n].snaps = inst[n].snaps /\ UNCHANGED zsnaps
         \/ ZfsOp(a) /\ a \in Requests /\ inst'[n].snaps = inst[n].snaps
         \/ inst'[n].snaps = inst[n].snaps /\ zsnaps'[n] = <<>> /\ ~Busy(a)'
         \/ inst'[n].snaps = inst[n].snaps /\ zsnaps'[n] = <<>> /\ pc'[a] \in {"rollback", "forget"}
         \/ Commit(a) /\ a \in Requests /\ n \in known /\ inst' = [inst EXCEPT ![n] = Committed(@, job[a])]
            /\ UNCHANGED zsnaps
         \/ inst'[n].snaps = <<>> /\ UNCHANGED zsnaps /\ ~Busy(a)'
<1> DEFINE n == job[a].name
<1>0. n \in Names /\ pc \in [Actors -> PCs] /\ inst \in [Names -> Entry] /\ zsnaps \in [Names -> Seq(Labels)]
  BY TurnTaken, AtWork DEF IInv, TypeOK, MemoryTypeOK, StoreTypeOK, HostTypeOK
<1>1. CASE StartSteps(a)
  BY <1>1 DEF StartSteps, SetupNetns, StartUnit, WaitForSocket, Scan, storeVars, hostVars, zfsVars
<1>2. CASE Validate(a) \/ MakeDataset(a) \/ Deploy(a) \/ Unforward(a) \/ ProbeUnit(a)
  BY <1>2 DEF Validate, MakeDataset, Deploy, Unforward, ProbeUnit, storeVars, hostVars, zfsVars
<1>3. CASE StopDockerd(a) \/ DropCaches(a)
  BY <1>3 DEF StopDockerd, DropCaches, storeVars, zfsVars
<1>4. CASE ZfsOp(a) /\ a \in Requests
  BY <1>4 DEF ZfsOp, storeVars
<1>5. CASE Destroy(a)
  <2>1. UNCHANGED inst
    BY <1>5 DEF Destroy, storeVars
  <2>2. CASE UNCHANGED zfsVars
    BY <2>1, <2>2 DEF zfsVars
  <2>3. CASE ~UNCHANGED zfsVars
    <3>1. zsnaps' = [zsnaps EXCEPT ![n] = <<>>]
      BY <1>5, <2>3 DEF Destroy
    <3>2. Return(a) \/ \E p \in {"rollback", "forget"} : Goto(a, p)
      BY <1>5 DEF Destroy
    <3> QED
      BY <1>0, <2>1, <3>1, <3>2 DEF Return, Goto, Busy
  <2> QED
    BY <2>2, <2>3
<1>6. CASE Commit(a) /\ a \in Requests
  BY <1>6 DEF Commit, hostVars, zfsVars
<1>7. CASE Rollback(a) \/ Forget(a)
  <2>1. /\ UNCHANGED zsnaps /\ Return(a)
        /\ inst' = [inst EXCEPT ![n] = Blank] \/ UNCHANGED inst
    BY <1>7 DEF Rollback, Forget, DropEntry, hostVars, zfsVars
  <2> QED
    BY <1>0, <2>1 DEF Blank, Return, Goto, Busy
<1> QED
  BY <1>1, <1>2, <1>3, <1>4, <1>5, <1>6, <1>7 DEF Turn, RequestStep

\* Which action a goroutine takes is known from the step it is at.
LEMMA TurnAt ==
  ASSUME NEW a \in Actors, Turn(a)
  PROVE  /\ pc[a] = "validate" => Validate(a)
         /\ pc[a] = "dataset" => MakeDataset(a)
         /\ pc[a] = "netns" => SetupNetns(a)
         /\ pc[a] = "unit" => StartUnit(a)
         /\ pc[a] = "wait" => WaitForSocket(a)
         /\ pc[a] = "deploy" => Deploy(a)
         /\ pc[a] = "scan" => Scan(a)
         /\ pc[a] = "commit" => Commit(a)
         /\ pc[a] = "unforward" => Unforward(a)
         /\ pc[a] = "probe" => ProbeUnit(a)
         /\ pc[a] = "stop" => StopDockerd(a)
         /\ pc[a] = "zfs" => ZfsOp(a)
         /\ pc[a] = "drop" => DropCaches(a)
         /\ pc[a] = "destroy" => Destroy(a)
         /\ pc[a] = "forget" => Forget(a)
         /\ pc[a] = "rollback" => Rollback(a)
         /\ pc[a] \notin {"netns", "unit", "wait", "scan"} => a \in Requests
<1>1. /\ SetupNetns(a) => pc[a] = "netns"
      /\ StartUnit(a) => pc[a] = "unit"
      /\ WaitForSocket(a) => pc[a] = "wait"
      /\ Scan(a) => pc[a] = "scan"
  BY DEF SetupNetns, StartUnit, WaitForSocket, Scan
<1>2. /\ Validate(a) => pc[a] = "validate"
      /\ MakeDataset(a) => pc[a] = "dataset"
      /\ Deploy(a) => pc[a] = "deploy"
      /\ Unforward(a) => pc[a] = "unforward"
      /\ ProbeUnit(a) => pc[a] = "probe"
  BY DEF Validate, MakeDataset, Deploy, Unforward, ProbeUnit
<1>3. /\ StopDockerd(a) => pc[a] = "stop"
      /\ ZfsOp(a) => pc[a] = "zfs"
      /\ DropCaches(a) => pc[a] = "drop"
      /\ Destroy(a) => pc[a] = "destroy"
  BY DEF StopDockerd, ZfsOp, DropCaches, Destroy
<1>4. /\ Commit(a) => pc[a] = "commit"
      /\ Rollback(a) => pc[a] = "rollback"
      /\ Forget(a) => pc[a] = "forget"
  BY DEF Commit, Rollback, Forget
<1> QED
  BY <1>1, <1>2, <1>3, <1>4 DEF Turn, RequestStep, StartSteps

\* A goroutine whose turn leaves it with a job had that job before.
LEMMA JobKept ==
  ASSUME IInv, AloneInv, NEW a \in Actors, Turn(a), job'[a].op # "none"
  PROVE  /\ Continues(a) /\ Busy(a)'
         /\ job'[a].name = job[a].name /\ job'[a].op = job[a].op /\ job'[a].label = job[a].label
         /\ job[a].failed => job'[a].failed
         /\ ~ZfsOp(a) => job' = job
<1>0. pc \in [Actors -> PCs] /\ job \in [Actors -> Job] /\ job[a] \in Job
  BY DEF IInv, TypeOK, MemoryTypeOK
<1>1. ~Ends(a)
  BY <1>0, Jobless DEF Ends
<1>2. Continues(a)
  BY <1>1, StartStepsShape, RequestStepShape DEF AloneInv, Turn
<1>3. PICK p \in PCs, f \in BOOLEAN :
        /\ pc' = [pc EXCEPT ![a] = p] /\ job' = [job EXCEPT ![a].failed = f]
        /\ p \notin {"idle", "load", "pick"}
  BY <1>2 DEF Continues
<1>4. pc'[a] = p /\ job'[a] = [job[a] EXCEPT !.failed = f]
  BY <1>0, <1>3
<1>5. Busy(a)' /\ job'[a].name = job[a].name /\ job'[a].op = job[a].op /\ job'[a].label = job[a].label
  BY <1>0, <1>3, <1>4 DEF Busy, Job
<1>6. ~Return(a)
  BY <1>0, Jobless DEF Return
<1>7. ~ZfsOp(a) => job' = job
  <2>1. StartFailed(a) => job' = job
    <3>1. CASE job' = [job EXCEPT ![a] = NoJob]
      BY <1>0, <3>1, Jobless
    <3> QED
      BY <1>6, <3>1 DEF StartFailed
  <2>2. StartSteps(a) => job' = job
    <3>1. CASE job' = [job EXCEPT ![a] = NoJob]
      BY <1>0, <3>1, Jobless
    <3> QED
      BY <1>6, <2>1, <3>1 DEF StartSteps, SetupNetns, StartUnit, WaitForSocket, Scan
  <2>3. Validate(a) \/ MakeDataset(a) \/ Deploy(a) \/ Unforward(a) \/ ProbeUnit(a) => job' = job
    BY <1>6 DEF Validate, MakeDataset, Deploy, Unforward, ProbeUnit
  <2>4. StopDockerd(a) \/ DropCaches(a) \/ Destroy(a) => job' = job
    BY <1>6 DEF StopDockerd, DropCaches, Destroy
  <2>5. ~Commit(a) /\ ~Rollback(a) /\ ~Forget(a)
    BY <1>6 DEF Commit, Rollback, Forget, DropEntry
  <2> QED
    BY <2>2, <2>3, <2>4, <2>5 DEF Turn, RequestStep
<1>8. job[a].failed => job'[a].failed
  <2>1. ZfsOp(a) => job' = job \/ job' = [job EXCEPT ![a].failed = TRUE]
    BY DEF ZfsOp
  <2> QED
    BY <1>0, <1>7, <2>1 DEF Job
<1> QED
  BY <1>2, <1>5, <1>7, <1>8

\* Only the ZFS operation leads a snapshot to the restart, and only a restart
\* that follows a success leads it to the commit.
LEMMA SnapshotRestarts ==
  ASSUME IInv, AloneInv, NEW a \in Actors, Turn(a), job'[a].op = "snapshot", ~ZfsOp(a),
         pc'[a] \in Starting \cup {"commit"}
  PROVE  pc[a] \in Starting /\ (pc'[a] = "commit" => ~job[a].failed)
<1>0. pc \in [Actors -> PCs] /\ job[a].op = "snapshot" /\ ~Return(a)
  <2>1. ~Return(a)
    BY Jobless DEF Return, IInv, TypeOK, MemoryTypeOK
  <2> QED
    BY <2>1, JobKept DEF IInv, TypeOK, MemoryTypeOK
<1>1. pc[a] \in {"unforward", "stop", "zfs", "commit"} \cup Starting
  BY <1>0, FitNow DEF AloneInv, Fits
<1>2. pc[a] # "unforward"
  BY <1>0, TurnAt DEF Unforward, Goto, Starting
<1>3. pc[a] # "stop"
  BY <1>0, TurnAt DEF StopDockerd, Goto, Starting
<1>4. pc[a] # "zfs" /\ pc[a] # "commit"
  BY <1>0, TurnAt DEF Commit
<1>5. pc'[a] = "commit" => ~job[a].failed
  <2>1. pc[a] \in {"netns", "unit", "wait"} => pc'[a] # "commit"
    <3>1. ~StartFailed(a)
      BY <1>0 DEF StartFailed
    <3> QED
      BY <1>0, <3>1, TurnAt DEF SetupNetns, StartUnit, WaitForSocket, Goto
  <2>2. pc[a] = "scan" => ~job[a].failed
    BY <1>0, TurnAt DEF Scan
  <2> QED
    BY <1>1, <1>2, <1>3, <1>4, <2>1, <2>2 DEF Starting
<1> QED
  BY <1>1, <1>2, <1>3, <1>4, <1>5

\* A new label at the end of the list.
LEMMA NewestLabel ==
  ASSUME NEW S, NEW z \in Seq(S), NEW l \in S, l \notin Range(z)
  PROVE  LET y == Append(z, l) IN
         /\ Len(y) > 0 /\ y[Len(y)] = l
         /\ \A k \in 1 .. Len(y) : y[k] = l => k = Len(y)
<1>1. /\ Len(z) \in Nat /\ Len(Append(z, l)) = Len(z) + 1
      /\ \A k \in 1 .. Len(z) : Append(z, l)[k] = z[k]
      /\ Append(z, l)[Len(z) + 1] = l
  BY LenProperties, AppendProperties
<1>2. \A k \in 1 .. Len(z) : z[k] # l
  BY LenProperties DEF Range
<1> QED
  BY <1>1, <1>2

\* What the ZFS operation does to the list of snapshots.
LEMMA ZfsOpOnSnapshots ==
  ASSUME NEW a, ZfsOp(a)
  PROVE  LET n == job[a].name
             l == job[a].label
         IN \/ /\ job[a].op = "snapshot" /\ l \notin Range(zsnaps[n])
               /\ zsnaps' = [zsnaps EXCEPT ![n] = Append(@, l)]
            \/ /\ job[a].op = "revert"
               /\ zsnaps' = [zsnaps EXCEPT ![n] = UpTo(@, l)]
            \/ UNCHANGED zsnaps /\ job' = [job EXCEPT ![a].failed = TRUE]
BY DEF ZfsOp

LEMMA TurnKeepsOrder ==
  ASSUME IInv, AloneInv, OrderInv, NEW a \in Actors, Turn(a)
  PROVE  OrderInv'
<1> DEFINE n == job[a].name
           l == job[a].label
           s == inst[n].snaps
           z == zsnaps[n]
<1>0. /\ n \in Names /\ pc \in [Actors -> PCs] /\ job \in [Actors -> Job]
      /\ inst \in [Names -> Entry] /\ zsnaps \in [Names -> Seq(Labels)]
      /\ s \in Seq(Labels) /\ z \in Seq(Labels)
  BY TurnTaken, AtWork DEF IInv, TypeOK, MemoryTypeOK, StoreTypeOK, HostTypeOK, Entry
<1>1. SameOrder(s, z)
  BY <1>0 DEF OrderInv
<1>2. a \in Requests => Taken(a)
  BY DEF OrderInv
<1>3. job[a].op \in {"snapshot", "revert"} => l \in Labels
  BY DEF IInv, JobOK
<1>4. \A m \in Names : m # n => SameOrder(inst'[m].snaps, zsnaps'[m])
  BY OthersKept DEF OrderInv, SameEntry, SameHost
<1>5. ASSUME NEW b \in Requests, b # a
      PROVE  Taken(b)'
  <2>1. pc'[b] = pc[b] /\ job'[b] = job[b]
    BY <1>5, OthersWait DEF Actors
  <2>2. CASE job[b].op = "snapshot"
    <3>1. b \in Actors /\ Busy(b)
      BY <2>2, AtWork, Jobless DEF Actors
    <3>2. job[b].name \in Names /\ job[b].name # n
      BY <1>5, <3>1, AtWork DEF AloneInv, Apart
    <3>3. inst'[job[b].name] = inst[job[b].name] /\ zsnaps'[job[b].name] = zsnaps[job[b].name]
      BY <3>2, OthersKept DEF SameEntry, SameHost
    <3> QED
      BY <2>1, <3>3 DEF OrderInv, Taken
  <2> QED
    BY <2>1, <2>2 DEF Taken
<1>6. CASE ZfsOp(a) /\ a \in Requests
  <2>1. UNCHANGED inst /\ ~Return(a) /\ pc[a] = "zfs" /\ pc'[a] \in {"netns", "drop"}
    <3>1. ZfsOp(a) => UNCHANGED inst /\ pc[a] = "zfs" /\ \E p \in {"netns", "drop"} : Goto(a, p)
      BY DEF ZfsOp, storeVars
    <3> QED
      BY <1>0, <1>6, <3>1 DEF Return, Goto
  <2>2. job'[a].op = job[a].op /\ job'[a].name = n /\ job'[a].label = l
    <3>1. ZfsOp(a) => job' = job \/ job' = [job EXCEPT ![a].failed = TRUE]
      BY DEF ZfsOp
    <3> QED
      BY <1>0, <1>6, <3>1 DEF Job
  <2>3. CASE /\ job[a].op = "snapshot" /\ l \notin Range(z)
             /\ zsnaps' = [zsnaps EXCEPT ![n] = Append(z, l)]
    <3>1. zsnaps'[n] = Append(z, l) /\ l \notin Range(s) /\ l \in Labels
      BY <1>0, <1>2, <1>3, <1>6, <2>3 DEF Taken
    <3>2. SameOrder(s, Append(z, l))
      BY <1>0, <1>1, <3>1, OrderAfterSnapshot
    <3>3. LET y == zsnaps'[n] IN
          /\ Len(y) > 0 /\ y[Len(y)] = l
          /\ \A k \in 1 .. Len(y) : y[k] = l => k = Len(y)
      BY <1>0, <2>3, <3>1, NewestLabel
    <3>a. pc'[a] # "commit"
      BY <2>1
    <3>b. Taken(a)'
      BY <2>1, <2>2, <3>1, <3>3, <3>a DEF Taken
    <3> QED
      BY <1>0, <1>4, <1>5, <2>1, <3>1, <3>2, <3>b DEF OrderInv
  <2>4. CASE job[a].op = "revert" /\ zsnaps' = [zsnaps EXCEPT ![n] = UpTo(z, l)]
    <3>1. zsnaps'[n] = UpTo(z, l)
      BY <1>0, <2>4
    <3>2. SameOrder(s, UpTo(z, l))
      BY <1>0, <1>1, OrderOfPrefixes
    <3>3. Taken(a)'
      BY <2>2, <2>4 DEF Taken
    <3> QED
      BY <1>0, <1>4, <1>5, <2>1, <3>1, <3>2, <3>3 DEF OrderInv
  <2>5. CASE UNCHANGED zsnaps /\ job' = [job EXCEPT ![a].failed = TRUE]
    <3>1. job'[a].failed
      BY <1>0, <2>5 DEF Job
    <3>2. Taken(a)'
      BY <1>2, <1>6, <2>1, <2>2, <2>5, <3>1 DEF Taken
    <3> QED
      BY <1>0, <1>1, <1>4, <1>5, <2>1, <2>5, <3>2 DEF OrderInv
  <2> QED
    BY <1>6, <2>3, <2>4, <2>5, ZfsOpOnSnapshots
<1>7. CASE ~(ZfsOp(a) /\ a \in Requests)
  <2>0. ~ZfsOp(a)
    BY <1>7, TurnAt DEF ZfsOp
  <2>1. SameOrder(inst'[n].snaps, zsnaps'[n])
    <3>1. CASE inst'[n].snaps = s /\ UNCHANGED zsnaps
      BY <1>1, <3>1
    <3>2. CASE zsnaps'[n] = <<>> \/ inst'[n].snaps = <<>>
      BY <3>2, OrderOfEmpty
    <3>3. CASE /\ Commit(a) /\ a \in Requests /\ n \in known /\ UNCHANGED zsnaps
               /\ inst' = [inst EXCEPT ![n] = Committed(@, job[a])]
      <4>1. inst'[n] = Committed(inst[n], job[a]) /\ inst[n] \in Entry
        BY <1>0, <3>3
      <4>2. CASE job[a].op = "snapshot"
        <5>1. inst'[n].snaps = Append(s, l)
          BY <4>1, <4>2 DEF Committed, Entry
        <5>2. pc[a] = "commit"
          BY <3>3 DEF Commit
        <5>3. /\ l \in Labels /\ l \notin Range(s) /\ Len(z) > 0 /\ z[Len(z)] = l
              /\ \A k \in 1 .. Len(z) : z[k] = l => k = Len(z)
          BY <1>2, <1>3, <3>3, <4>2, <5>2 DEF Taken
        <5> HIDE DEF s, z
        <5>4. SameOrder(Append(s, l), z)
          BY <1>0, <1>1, <5>3, OrderAfterCommit
        <5> QED
          BY <3>3, <5>1, <5>4 DEF z
      <4>3. CASE job[a].op = "revert"
        <5>1. inst'[n].snaps = UpTo(s, l)
          BY <4>1, <4>3 DEF Committed, Entry
        <5> QED
          BY <1>0, <1>1, <3>3, <5>1, OrderOfPrefixes
      <4>4. CASE job[a].op \notin {"snapshot", "revert"}
        <5>1. inst'[n].snaps = s
          BY <4>1, <4>4 DEF Committed, Entry
        <5> QED
          BY <1>1, <3>3, <5>1
      <4> QED
        BY <4>2, <4>3, <4>4
    <3> QED
      BY <2>0, <3>1, <3>2, <3>3, TurnOnSnapshots
  <2>2. a \in Requests => Taken(a)'
    <3> SUFFICES ASSUME a \in Requests, job'[a].op = "snapshot"
                 PROVE  Taken(a)'
      BY DEF Taken
    <3>1. job' = job /\ Busy(a)'
      BY <2>0, JobKept
    <3>2. pc'[a] \in Starting \cup {"commit"} =>
            pc[a] \in Starting /\ (pc'[a] = "commit" => ~job[a].failed)
      BY <2>0, SnapshotRestarts
    <3>3. ~Commit(a)
      <4>1. Commit(a) => Return(a)
        BY DEF Commit
      <4> QED
        BY <1>0, <3>1, <4>1 DEF Return, Goto, Busy
    <3>4. CASE inst'[n].snaps = s /\ UNCHANGED zsnaps
      BY <1>2, <3>1, <3>2, <3>4 DEF Taken
    <3>5. CASE inst'[n].snaps = s /\ pc'[a] \in {"rollback", "forget"}
      BY <1>2, <3>1, <3>2, <3>5 DEF Taken, Starting
    <3> QED
      BY <2>0, <3>1, <3>3, <3>4, <3>5, TurnOnSnapshots
  <2> QED
    BY <1>4, <1>5, <2>1, <2>2 DEF OrderInv
<1> QED
  BY <1>6, <1>7

LEMMA OrderStep ==
  ASSUME IInv, AloneInv, OrderInv, Exclusive, [Next]_vars
  PROVE  OrderInv'
<1>1. ASSUME NEW a \in Actors, Turn(a)
      PROVE  OrderInv'
  BY <1>1, TurnKeepsOrder
<1>2. ASSUME NEW a \in Requests, Submit(a)
      PROVE  OrderInv'
  <2> DEFINE n == job'[a].name
  <2>1. /\ Submitted(a) /\ UNCHANGED zsnaps /\ n \in Names /\ ~InFlight(n)
        /\ inst \in [Names -> Entry]
    BY <1>2, SubmitFrame DEF Submitted, hostVars, zfsVars, IInv, TypeOK, StoreTypeOK
  <2>2. \A m \in Names : inst'[m].snaps = inst[m].snaps \/ inst'[m].snaps = <<>>
    <3>1. CASE UNCHANGED storeVars
      BY <3>1 DEF storeVars
    <3>2. ASSUME NEW i \in 0 .. MaxSubnetIndex, Reserve(n, i)
          PROVE  \A m \in Names : inst'[m].snaps = inst[m].snaps \/ inst'[m].snaps = <<>>
      BY <2>1, <3>2 DEF Reserve
    <3> QED
      BY <2>1, <3>1, <3>2 DEF Submitted
  <2>3. \A m \in Names : SameOrder(inst'[m].snaps, zsnaps'[m])
    BY <2>1, <2>2, OrderOfEmpty DEF OrderInv
  <2>4. ASSUME NEW b \in Requests, b # a
        PROVE  Taken(b)'
    <3>1. pc'[b] = pc[b] /\ job'[b] = job[b] /\ job[b].name # n /\ b \in Actors
      BY <2>1, <2>4 DEF Submitted, InFlight, Actors
    <3>2. CASE job[b].op = "snapshot"
      <4>1. job[b].name \in Names
        BY <3>1, <3>2, AtWork, Jobless
      <4>2. inst'[job[b].name] = inst[job[b].name]
        BY <2>1, <3>1, <4>1 DEF Submitted, SameEntry
      <4> QED
        BY <2>1, <3>1, <4>2 DEF OrderInv, Taken
    <3> QED
      BY <3>1, <3>2 DEF Taken
  <2>5. Taken(a)'
    <3> SUFFICES ASSUME job'[a].op = "snapshot"
                 PROVE  Taken(a)'
      BY DEF Taken
    <3>1. /\ pc'[a] = "unforward" /\ UNCHANGED storeVars
          /\ job'[a].label \notin Range(inst[n].snaps)
      BY <2>1 DEF Submitted
    <3> QED
      BY <3>1 DEF Taken, storeVars, Starting
  <2> QED
    BY <2>3, <2>4, <2>5 DEF OrderInv
<1>3. CASE Reconciles
  <2>1. /\ UNCHANGED zsnaps /\ \A n \in Names : inst'[n].snaps = inst[n].snaps
        /\ \A b \in Requests : pc[b] = "idle" /\ pc'[b] = pc[b] /\ job'[b] = job[b]
    BY <1>3, ReconcileFrame, ActorsAssumption DEF hostVars, zfsVars, Actors
  <2>2. \A b \in Requests : job[b] = NoJob
    BY <2>1, AtWork DEF Busy, Actors
  <2> QED
    BY <2>1, <2>2, Jobless DEF OrderInv, Taken
<1>4. CASE (\E a \in Requests : Cancel(a)) \/ (\E n \in Names : DockerdDies(n)) \/ UNCHANGED vars
  BY <1>4, EnvironmentFrame DEF OrderInv, Taken, storeVars, zfsVars
<1>5. CASE Crash
  <2>1. UNCHANGED <<storeVars, zfsVars>> /\ \A a \in Requests : job'[a] = NoJob
    BY <1>5 DEF Crash, Actors
  <2> QED
    BY <2>1, Jobless DEF OrderInv, Taken, storeVars, zfsVars
<1> QED
  BY <1>1, <1>2, <1>3, <1>4, <1>5, Steps

\* Labels that the state file and ZFS share are in the same order in both,
\* whatever fails, is cancelled or crashes (Snapshot appends to both lists,
\* Revert and "rollback -r" cut both): Revert's trim of the state file drops
\* no label whose snapshot rollback kept.
THEOREM SnapshotsInOrder ==
  ASSUME Exclusive
  PROVE  Spec => []SnapshotOrderAgrees
<1>1. Init => OrderInv
  <2>1. Init => \A n \in Names : SameOrder(inst[n].snaps, zsnaps[n])
    BY OrderOfEmpty DEF Init, Blank
  <2>2. Init => \A a \in Requests : Taken(a)
    BY Jobless DEF Init, Taken, Actors
  <2> QED
    BY <2>1, <2>2 DEF OrderInv
<1>2. IInv /\ AloneInv /\ OrderInv /\ [Next]_vars => OrderInv'
  BY OrderStep
<1>3. IInv /\ OrderInv => SnapshotOrderAgrees
  BY DEF OrderInv, SameOrder, SnapshotOrderAgrees, IInv, TypeOK, StoreTypeOK
<1>4. Spec => [](IInv /\ AloneInv)
  BY AloneInvariance
<1> QED
  BY <1>1, <1>2, <1>3, <1>4, PTL DEF Spec

-----------------------------------------------------------------------------
(* Nothing outlives its entry *)

Fresh(a) == job[a].op \in {"create", "clone"}

\* How far a new or a doomed instance is from its dataset and its dockerd.
HostStage(a) ==
    LET n == job[a].name IN
    /\ Fresh(a) => zsnaps[n] = <<>>
    /\ pc[a] \in {"validate", "dataset", "rollback", "forget"} => n \notin datasets
    /\ pc[a] \in {"validate", "dataset", "rollback", "forget", "destroy"} => n \notin unit
    /\ Fresh(a) /\ pc[a] \in {"netns", "unit"} => n \notin unit

\* ZFS keeps a snapshot a clone depends on, and nothing of a dataset it destroyed.
ClonesKept ==
    /\ \A n \in Names : n \notin datasets => zsnaps[n] = <<>> /\ origin[n] = None
    /\ \A m \in datasets : origin[m] # None =>
          origin[m].label \in Range(zsnaps[origin[m].name])

OwnedInv ==
    /\ HostOwned /\ cancelled = {} /\ ClonesKept
    /\ \A a \in Actors : HostStage(a)

\* Only these steps of a goroutine change datasets and snapshots.
LEMMA ZfsWriters ==
  ASSUME NEW a \in Actors, Turn(a)
  PROVE  UNCHANGED zfsVars \/ MakeDataset(a) \/ ZfsOp(a) \/ Destroy(a)
<1>1. StartSteps(a) => UNCHANGED zfsVars
  BY DEF StartSteps, SetupNetns, StartUnit, WaitForSocket, Scan, hostVars
<1>2. Validate(a) \/ Deploy(a) \/ Unforward(a) \/ ProbeUnit(a) => UNCHANGED zfsVars
  BY DEF Validate, Deploy, Unforward, ProbeUnit, hostVars
<1>3. StopDockerd(a) \/ DropCaches(a) => UNCHANGED zfsVars
  BY DEF StopDockerd, DropCaches
<1>4. Commit(a) \/ Rollback(a) \/ Forget(a) => UNCHANGED zfsVars
  BY DEF Commit, Rollback, Forget, DropEntry, hostVars
<1> QED
  BY <1>1, <1>2, <1>3, <1>4 DEF Turn, RequestStep

\* A dataset without snapshots has no clones.
LEMMA NoSnapshotsNoClones ==
  ASSUME ClonesKept, NEW n \in Names, zsnaps[n] = <<>>, NEW L
  PROVE  ~HasClones(n, L)
BY EmptySeq DEF ClonesKept, HasClones, Range

LEMMA TurnKeepsClones ==
  ASSUME IInv, AloneInv, ClonesKept, NEW a \in Actors, Turn(a), HostStage(a)
  PROVE  ClonesKept'
<1> DEFINE n == job[a].name
           z == zsnaps[n]
           l == job[a].label
<1>0. /\ n \in Names /\ pc \in [Actors -> PCs] /\ job \in [Actors -> Job]
      /\ datasets \subseteq Names /\ zsnaps \in [Names -> Seq(Labels)] /\ z \in Seq(Labels)
      /\ origin \in [Names -> {None} \cup [name : Names, label : Labels]]
  BY TurnTaken, AtWork DEF IInv, TypeOK, MemoryTypeOK, HostTypeOK
<1>1. CASE UNCHANGED zfsVars
  BY <1>1 DEF ClonesKept, zfsVars
<1>2. CASE MakeDataset(a) /\ ~UNCHANGED zfsVars
  <2> DEFINE source == [name |-> job[a].src, label |-> l]
  <2>1. /\ datasets' = datasets \cup {n} /\ UNCHANGED zsnaps /\ n \notin datasets
        /\ \/ /\ origin' = [origin EXCEPT ![n] = source]
              /\ source.label \in Range(zsnaps[source.name])
           \/ UNCHANGED origin
    BY <1>2 DEF MakeDataset, HostStage, zfsVars
  <2>2. origin[n] = None
    BY <1>0, <2>1 DEF ClonesKept
  <2> HIDE DEF source
  <2>3. \A m \in Names : m \notin datasets' => zsnaps'[m] = <<>> /\ origin'[m] = None
    BY <1>0, <2>1 DEF ClonesKept
  <2>4. ASSUME NEW m \in datasets', origin'[m] # None
        PROVE  origin'[m].label \in Range(zsnaps'[origin'[m].name])
    <3>1. CASE m = n
      BY <1>0, <2>1, <2>2, <2>4, <3>1
    <3>2. CASE m # n
      BY <1>0, <2>1, <2>4, <3>2 DEF ClonesKept
    <3> QED
      BY <3>1, <3>2
  <2> QED
    BY <2>3, <2>4 DEF ClonesKept
<1>3. CASE ZfsOp(a) /\ ~UNCHANGED zfsVars
  <2>1. /\ UNCHANGED <<datasets, origin>> /\ n \in datasets
        /\ \/ zsnaps' = [zsnaps EXCEPT ![n] = Append(z, l)] /\ l \in Labels
           \/ /\ zsnaps' = [zsnaps EXCEPT ![n] = UpTo(z, l)] /\ l \in Range(z)
              /\ ~HasClones(n, Range(z) \ Range(UpTo(z, l)))
    BY <1>3 DEF ZfsOp, zfsVars, IInv, JobOK
  <2>2. \A m \in Names : m \notin datasets' => zsnaps'[m] = <<>> /\ origin'[m] = None
    BY <1>0, <2>1 DEF ClonesKept
  <2>3. ASSUME NEW m \in datasets, origin[m] # None
        PROVE  origin[m].label \in Range(zsnaps'[origin[m].name])
    <3>1. origin[m].label \in Range(zsnaps[origin[m].name]) /\ origin[m].name \in Names
      BY <1>0, <2>3 DEF ClonesKept
    <3>2. CASE origin[m].name # n
      BY <1>0, <2>1, <3>1, <3>2
    <3>3. CASE origin[m].name = n /\ zsnaps' = [zsnaps EXCEPT ![n] = Append(z, l)]
      <4>1. Range(z) \subseteq Range(Append(z, l))
        <5>1. /\ Len(z) \in Nat /\ Len(Append(z, l)) = Len(z) + 1
              /\ \A k \in 1 .. Len(z) : Append(z, l)[k] = z[k]
          BY <1>0, <2>1, <3>3, AppendProperties, LenProperties
        <5>2. DOMAIN z = 1 .. Len(z) /\ DOMAIN Append(z, l) = 1 .. Len(Append(z, l))
          BY <1>0, LenProperties, AppendProperties
        <5> QED
          BY <5>1, <5>2 DEF Range
      <4> QED
        BY <1>0, <3>1, <3>3, <4>1
    <3>4. CASE origin[m].name = n /\ zsnaps' = [zsnaps EXCEPT ![n] = UpTo(z, l)]
               /\ ~HasClones(n, Range(z) \ Range(UpTo(z, l)))
      BY <1>0, <2>3, <3>1, <3>4 DEF HasClones
    <3> QED
      BY <2>1, <3>2, <3>3, <3>4
  <2> QED
    BY <2>1, <2>2, <2>3 DEF ClonesKept
<1>4. CASE Destroy(a) /\ ~UNCHANGED zfsVars
  <2>1. /\ datasets' = datasets \ {n} /\ zsnaps' = [zsnaps EXCEPT ![n] = <<>>]
        /\ origin' = [origin EXCEPT ![n] = None] /\ ~HasClones(n, Labels)
    BY <1>4 DEF Destroy
  <2>2. \A m \in Names : m \notin datasets' => zsnaps'[m] = <<>> /\ origin'[m] = None
    BY <1>0, <2>1 DEF ClonesKept
  <2>3. ASSUME NEW m \in datasets', origin'[m] # None
        PROVE  origin'[m].label \in Range(zsnaps'[origin'[m].name])
    <3>1. m \in datasets /\ origin'[m] = origin[m]
          /\ origin[m].name \in Names /\ origin[m].label \in Labels
      BY <1>0, <2>1, <2>3
    <3>2. origin[m].name # n
      BY <2>1, <2>3, <3>1 DEF HasClones
    <3> QED
      BY <1>0, <2>1, <2>3, <3>1, <3>2 DEF ClonesKept
  <2> QED
    BY <2>2, <2>3 DEF ClonesKept
<1> QED
  BY <1>1, <1>2, <1>3, <1>4, ZfsWriters

\* Where the failure of dockerd.Start leads.
LEMMA StartFailedGoes ==
  ASSUME IInv, NEW a \in Actors, StartFailed(a)
  PROVE  \/ /\ Fresh(a) /\ pc'[a] = "destroy" /\ UNCHANGED <<job, cancelled, boot>>
         \/ /\ ~Fresh(a) /\ job[a].op # "none" /\ pc'[a] \in {"idle", "pick"} /\ job'[a] = NoJob
            /\ cancelled' = cancelled \/ cancelled' = cancelled \ {a}
<1>0. pc \in [Actors -> PCs] /\ job \in [Actors -> Job]
  BY DEF IInv, TypeOK, MemoryTypeOK
<1>1. CASE job[a].op \in {"create", "clone"} /\ Goto(a, "destroy") /\ UNCHANGED <<job, cancelled, boot>>
  BY <1>0, <1>1 DEF Goto, Fresh
<1>2. CASE job[a].op \in {"start", "snapshot", "revert"} /\ Return(a) /\ UNCHANGED boot
  BY <1>0, <1>2 DEF Goto, Return, Fresh
<1>3. CASE /\ job[a].op = "reconcile" /\ Goto(a, "pick")
           /\ job' = [job EXCEPT ![a] = NoJob] /\ UNCHANGED cancelled
  BY <1>0, <1>3 DEF Goto, Fresh
<1> QED
  BY <1>1, <1>2, <1>3 DEF StartFailed

LEMMA RestedStage ==
  ASSUME NEW a, pc'[a] \in {"idle", "load", "pick"}, job'[a] = NoJob
  PROVE  HostStage(a)'
BY Jobless DEF HostStage, Fresh

LEMMA TurnKeepsStage ==
  ASSUME IInv, AloneInv, OwnedInv, NEW a \in Actors, Turn(a), "stop" \notin Faults, "destroy" \notin Faults
  PROVE  HostStage(a)'
<1> DEFINE n == job[a].name
<1>0. /\ n \in Names /\ pc \in [Actors -> PCs] /\ job \in [Actors -> Job] /\ job[a] \in Job
      /\ pc[a] \in PCs /\ zsnaps \in [Names -> Seq(Labels)]
      /\ HostStage(a) /\ cancelled = {} /\ Fits(pc[a], job[a]) /\ Busy(a)
  BY TurnTaken, AtWork, FitNow DEF AloneInv, OwnedInv, IInv, TypeOK, MemoryTypeOK, HostTypeOK
<1>a. ASSUME Return(a)
      PROVE  HostStage(a)'
  <2>1. pc'[a] = "idle" /\ job'[a] = NoJob
    BY <1>0, <1>a DEF Return, Goto
  <2> QED
    BY <2>1, RestedStage
<1>b. ASSUME StartFailed(a), n \notin unit', UNCHANGED zfsVars
      PROVE  HostStage(a)'
  <2>1. CASE Fresh(a) /\ pc'[a] = "destroy" /\ UNCHANGED job
    BY <1>0, <1>b, <2>1 DEF HostStage, Fresh, zfsVars
  <2>2. CASE pc'[a] \in {"idle", "pick"} /\ job'[a] = NoJob
    BY <2>2, RestedStage
  <2> QED
    BY <1>b, <2>1, <2>2, StartFailedGoes
<1>c. ASSUME StartFailed(a), ~Fresh(a)
      PROVE  HostStage(a)'
  BY <1>c, StartFailedGoes, RestedStage
<1>1. CASE pc[a] \in {"validate", "deploy"}
  BY <1>0, <1>1, TurnAt DEF Validate, Deploy, Goto, HostStage, Fresh, hostVars, zfsVars
<1>2. CASE pc[a] = "dataset"
  <2>1. /\ UNCHANGED <<job, unit, zsnaps>>
        /\ pc'[a] = "netns" \/ (pc'[a] = "rollback" /\ UNCHANGED datasets)
    BY <1>0, <1>2, TurnAt DEF MakeDataset, CmdKilled, Goto
  <2> QED
    BY <1>0, <1>2, <2>1 DEF HostStage, Fresh
<1>3. CASE pc[a] = "netns"
  <2>1. UNCHANGED <<unit, zfsVars>> /\ (StartFailed(a) \/ (Goto(a, "unit") /\ UNCHANGED job))
    BY <1>3, TurnAt DEF SetupNetns
  <2>2. Fresh(a) => n \notin unit
    BY <1>0, <1>3 DEF HostStage
  <2>3. CASE Goto(a, "unit") /\ UNCHANGED job
    BY <1>0, <2>1, <2>2, <2>3 DEF HostStage, Goto, Fresh, zfsVars
  <2> QED
    BY <1>b, <1>c, <2>1, <2>2, <2>3
<1>4. CASE pc[a] = "unit"
  <2>1. UNCHANGED zfsVars /\ ((StartFailed(a) /\ UNCHANGED unit) \/ (Goto(a, "wait") /\ UNCHANGED job))
    BY <1>0, <1>4, TurnAt DEF StartUnit, CmdKilled
  <2>2. Fresh(a) => n \notin unit
    BY <1>0, <1>4 DEF HostStage
  <2>3. CASE Goto(a, "wait") /\ UNCHANGED job
    BY <1>0, <2>1, <2>3 DEF HostStage, Goto, Fresh, zfsVars
  <2> QED
    BY <1>b, <1>c, <2>1, <2>2, <2>3
<1>5. CASE pc[a] = "wait"
  <2>1. /\ UNCHANGED zfsVars
        /\ \/ StartFailed(a) /\ n \notin unit'
           \/ Goto(a, IF job[a].op = "create" THEN "deploy" ELSE "scan") /\ UNCHANGED job
    BY <1>5, TurnAt DEF WaitForSocket
  <2>2. CASE Goto(a, IF job[a].op = "create" THEN "deploy" ELSE "scan") /\ UNCHANGED job
    BY <1>0, <2>1, <2>2 DEF HostStage, Goto, Fresh, zfsVars
  <2> QED
    BY <1>b, <2>1, <2>2
<1>6. CASE pc[a] = "scan"
  <2>1. /\ UNCHANGED zfsVars
        /\ \/ Goto(a, "pick") /\ job' = [job EXCEPT ![a] = NoJob]
           \/ Return(a)
           \/ Goto(a, "commit") /\ UNCHANGED job
    BY <1>6, TurnAt DEF Scan, hostVars
  <2>2. CASE Goto(a, "pick") /\ job' = [job EXCEPT ![a] = NoJob]
    BY <1>0, <2>2, RestedStage DEF Goto
  <2>3. CASE Goto(a, "commit") /\ UNCHANGED job
    BY <1>0, <2>1, <2>3 DEF HostStage, Goto, Fresh, zfsVars
  <2> QED
    BY <1>a, <2>1, <2>2, <2>3
<1>7. CASE pc[a] = "unforward"
  BY <1>0, <1>7, TurnAt DEF Unforward, Goto, HostStage, Fresh, hostVars, zfsVars
<1>8. CASE pc[a] = "probe"
  <2>1. ~Fresh(a) /\ job[a].op \in {"delete", "start", "stop"}
    BY <1>0, <1>8 DEF Fits, Starting, Fresh, Job, Ops, NoJob
  <2>2. /\ UNCHANGED hostVars
        /\ \/ Return(a)
           \/ /\ UNCHANGED job
              /\ \/ \E p \in {"netns", "unforward", "stop"} : Goto(a, p)
                 \/ Goto(a, "destroy") /\ n \notin unit
    BY <1>8, <2>1, TurnAt DEF ProbeUnit
  <2>3. CASE UNCHANGED job /\ \E p \in {"netns", "unforward", "stop"} : Goto(a, p)
    BY <1>0, <2>1, <2>3 DEF HostStage, Goto, Fresh
  <2>4. CASE UNCHANGED job /\ Goto(a, "destroy") /\ n \notin unit
    BY <1>0, <2>1, <2>2, <2>4 DEF HostStage, Goto, Fresh, hostVars
  <2> QED
    BY <1>a, <2>2, <2>3, <2>4
<1>9. CASE pc[a] = "stop"
  <2>1. UNCHANGED <<zfsVars, job>> /\ unit' = unit \ {n} /\ pc'[a] \in {"destroy", "commit", "zfs"}
    BY <1>0, <1>9, TurnAt DEF StopDockerd, Fails, Goto
  <2> QED
    BY <1>0, <1>9, <2>1 DEF HostStage, Fresh, zfsVars
<1>10. CASE pc[a] \in {"zfs", "drop"}
  <2>1. job[a].op \in {"snapshot", "revert"}
    BY <1>0, <1>10 DEF Fits, Starting, Job, Ops, NoJob
  <2>2. pc'[a] \in {"netns", "drop"} /\ job'[a].op = job[a].op
    <3>1. \/ \E p \in {"netns", "drop"} : Goto(a, p)
      BY <1>10, TurnAt DEF ZfsOp, DropCaches
    <3>2. job' = job \/ job' = [job EXCEPT ![a].failed = TRUE]
      BY <1>10, TurnAt DEF ZfsOp, DropCaches
    <3> QED
      BY <1>0, <3>1, <3>2 DEF Goto, Job
  <2> QED
    BY <2>1, <2>2 DEF HostStage, Fresh
<1>11. CASE pc[a] = "destroy"
  <2>1. UNCHANGED unit /\ n \notin unit
    BY <1>0, <1>11, TurnAt DEF Destroy, HostStage
  <2>2. Fresh(a) => ~HasClones(n, Labels)
    BY <1>0, NoSnapshotsNoClones DEF HostStage, OwnedInv
  <2>3. \/ Return(a)
        \/ /\ UNCHANGED job /\ n \notin datasets' /\ pc'[a] \in {"rollback", "forget"}
           /\ zsnaps' = zsnaps \/ zsnaps' = [zsnaps EXCEPT ![n] = <<>>]
    BY <1>0, <1>11, <2>1, <2>2, TurnAt DEF Destroy, CmdFails, Fails, CmdKilled, Goto, Fresh, zfsVars
  <2>4. CASE /\ UNCHANGED job /\ n \notin datasets' /\ pc'[a] \in {"rollback", "forget"}
             /\ zsnaps' = zsnaps \/ zsnaps' = [zsnaps EXCEPT ![n] = <<>>]
    BY <1>0, <2>1, <2>4 DEF HostStage, Fresh
  <2> QED
    BY <1>a, <2>3, <2>4
<1>12. CASE pc[a] \in {"commit", "rollback", "forget"}
  BY <1>a, <1>12, TurnAt DEF Commit, Rollback, Forget, DropEntry
<1> QED
  BY <1>0, <1>1, <1>2, <1>3, <1>4, <1>5, <1>6, <1>7, <1>8, <1>9, <1>10, <1>11, <1>12 DEF PCs, Busy

LEMMA TurnKeepsOwned ==
  ASSUME IInv, AloneInv, OwnedInv, NEW a \in Actors, Turn(a), "stop" \notin Faults, "destroy" \notin Faults
  PROVE  OwnedInv'
<1> DEFINE n == job[a].name
<1>0. n \in Names /\ n \in known /\ HostStage(a) /\ datasets' \subseteq Names /\ unit' \subseteq Names
  <2>1. Next
    BY DEF Next, Turn, Actors, ReconcileStep, RequestStep
  <2>2. IInv'
    BY <2>1, IInvStep
  <2>3. n \in Names /\ n \in known /\ HostStage(a)
    BY TurnTaken, AtWork DEF OwnedInv, AloneInv, Held
  <2> QED
    BY <2>2, <2>3 DEF IInv, TypeOK, HostTypeOK
<1>1. cancelled' = {}
  BY OthersWait DEF OwnedInv
<1>2. HostOwned'
  <2>1. \A m \in Names : m # n /\ m \in datasets' \cup unit' => m \in known'
    BY OthersKept DEF SameEntry, SameHost, OwnedInv, HostOwned
  <2>2. n \in datasets' \cup unit' => n \in known'
    <3>1. CASE UNCHANGED known
      BY <1>0, <3>1
    <3>2. CASE Rollback(a) \/ Forget(a)
      <4>1. n \notin datasets /\ n \notin unit
        BY <1>0, <3>2 DEF Rollback, Forget, HostStage
      <4>2. UNCHANGED <<datasets, unit>>
        BY <3>2 DEF Rollback, Forget, DropEntry, hostVars, zfsVars
      <4> QED
        BY <4>1, <4>2
    <3>3. UNCHANGED known \/ Rollback(a) \/ Forget(a)
      <4>1. StartSteps(a) => UNCHANGED known
        BY StartStepsShape DEF AloneInv, storeVars
      <4>2. Validate(a) \/ MakeDataset(a) \/ Deploy(a) \/ Unforward(a) \/ ProbeUnit(a) => UNCHANGED known
        BY DEF Validate, MakeDataset, Deploy, Unforward, ProbeUnit, storeVars
      <4>3. StopDockerd(a) \/ ZfsOp(a) \/ DropCaches(a) \/ Destroy(a) \/ Commit(a) => UNCHANGED known
        BY DEF StopDockerd, ZfsOp, DropCaches, Destroy, Commit, storeVars
      <4> QED
        BY <4>1, <4>2, <4>3 DEF Turn, RequestStep
    <3> QED
      BY <3>1, <3>2, <3>3
  <2> QED
    BY <1>0, <2>1, <2>2 DEF HostOwned
<1>3. ClonesKept'
  BY <1>0, TurnKeepsClones DEF OwnedInv
<1>4. ASSUME NEW b \in Actors, b # a
      PROVE  HostStage(b)'
  <2>1. pc'[b] = pc[b] /\ job'[b] = job[b]
    BY <1>4, OthersWait
  <2>2. CASE Busy(b)
    <3>1. job[b].name \in Names /\ job[b].name # n
      BY <1>4, <2>2, AtWork DEF AloneInv, Apart
    <3>2. SameHost(job[b].name)
      BY <3>1, OthersKept
    <3> QED
      BY <2>1, <3>2 DEF OwnedInv, HostStage, Fresh, SameHost
  <2>3. CASE ~Busy(b)
    BY <2>1, <2>3, AtWork, RestedStage DEF Busy
  <2> QED
    BY <2>2, <2>3
<1>5. HostStage(a)'
  BY TurnKeepsStage
<1> QED
  BY <1>1, <1>2, <1>3, <1>4, <1>5 DEF OwnedInv

LEMMA OwnedStep ==
  ASSUME IInv, AloneInv, OwnedInv, Exclusive, [Next]_vars,
         Faults \cap {"destroy", "stop", "cancel"} = {}
  PROVE  OwnedInv'
<1>1. ASSUME NEW a \in Actors, Turn(a)
      PROVE  OwnedInv'
  BY <1>1, TurnKeepsOwned
<1>2. ASSUME NEW a \in Requests, Submit(a)
      PROVE  OwnedInv'
  <2> DEFINE n == job'[a].name
  <2>1. Submitted(a) /\ UNCHANGED <<hostVars, cancelled>> /\ n \in Names
    BY <1>2, SubmitFrame DEF Submitted
  <2>2. known \subseteq known'
    BY <2>1 DEF Submitted, Reserve, storeVars
  <2>3. HostStage(a)'
    <3>1. CASE n \in known /\ job'[a].op \notin {"create", "clone"} /\ pc'[a] \in {"probe", "unforward"}
      BY <3>1 DEF HostStage, Fresh
    <3>2. CASE n \notin known
      BY <2>1, <3>2 DEF HostStage, Fresh, OwnedInv, HostOwned, ClonesKept, hostVars, zfsVars
    <3> QED
      BY <2>1, <3>1, <3>2 DEF Submitted
  <2>4. \A b \in Actors : b # a => HostStage(b)'
    BY <2>1 DEF Submitted, OwnedInv, HostStage, Fresh, hostVars, zfsVars
  <2> QED
    BY <2>1, <2>2, <2>3, <2>4 DEF OwnedInv, HostOwned, ClonesKept, hostVars, zfsVars
<1>3. CASE Reconciles
  <2>1. /\ UNCHANGED <<known, hostVars, cancelled>>
        /\ \A b \in Actors : b # Boot => pc'[b] = pc[b] /\ job'[b] = job[b]
        /\ pc'[Boot] \in {"idle", "pick", "scan", "netns"}
    BY <1>3, ReconcileFrame
  <2>2. ~Fresh(Boot)'
    <3>1. AloneInv'
      BY AloneStep
    <3> QED
      BY <3>1 DEF AloneInv, OpsFit, Whose, Fresh, Actors
  <2> QED
    BY <2>1, <2>2 DEF OwnedInv, HostOwned, ClonesKept, HostStage, Fresh, hostVars, zfsVars
<1>4. CASE (\E a \in Requests : Cancel(a)) \/ (\E n \in Names : DockerdDies(n)) \/ UNCHANGED vars
  BY <1>4, EnvironmentFrame DEF OwnedInv, HostOwned, ClonesKept, HostStage, Fresh, storeVars, zfsVars
<1>5. CASE Crash
  <2>1. UNCHANGED <<storeVars, zfsVars, unit>> /\ cancelled' = {}
        /\ \A a \in Actors : job'[a] = NoJob /\ pc'[a] \in {"idle", "load"}
    BY <1>5 DEF Crash
  <2> QED
    BY <2>1, RestedStage DEF OwnedInv, HostOwned, ClonesKept, storeVars, zfsVars
<1> QED
  BY <1>1, <1>2, <1>3, <1>4, <1>5, Steps

\* No dataset and no dockerd unit outlives its entry (Create reserves first,
\* Delete removes the entry last, and the rollback of a failed Create or Clone
\* comes after its cleanup), wherever the daemon dies and whatever else fails:
\* every step of the cleanup but "zfs destroy" and the kill of dockerd, whose
\* failure the daemon only logs.
THEOREM NothingOutlivesItsEntry ==
  ASSUME Exclusive, Faults \cap {"destroy", "stop", "cancel"} = {}
  PROVE  Spec => []HostOwned
<1>1. Init => OwnedInv
  <2>1. Init => HostOwned /\ cancelled = {} /\ ClonesKept
    BY DEF Init, HostOwned, ClonesKept
  <2>2. Init => \A a \in Actors : HostStage(a)
    BY Jobless DEF Init, HostStage, Fresh
  <2> QED
    BY <2>1, <2>2 DEF OwnedInv
<1>2. IInv /\ AloneInv /\ OwnedInv /\ [Next]_vars => OwnedInv'
  BY OwnedStep
<1>3. OwnedInv => HostOwned
  BY DEF OwnedInv
<1>4. Spec => [](IInv /\ AloneInv)
  BY AloneInvariance
<1> QED
  BY <1>1, <1>2, <1>3, <1>4, PTL DEF Spec

-----------------------------------------------------------------------------
(* A daemon that neither crashes nor has its requests cancelled *)

\* An instance nobody works on.
Resting(n) == \A a \in Actors : job[a].name # n

\* Reconcile finds an empty state file, and no context ends.
Quiet ==
    /\ ~Serving => known = {} /\ boot.todo = {} /\ ~Busy(Boot)
    /\ cancelled = {}

\* What a step of goroutine a on instance n leaves alone.
Alone(a, n) ==
    /\ \A m \in Names : m # n => SameEntry(m) /\ SameHost(m) /\ (Resting(m)' => Resting(m))
    /\ \A b \in Requests : b # a /\ Busy(b)' =>
          /\ Busy(b) /\ pc'[b] = pc[b] /\ job'[b] = job[b]
          /\ job[b].name \in Names /\ job[b].name # n

\* A step that concerns no instance.
Idles ==
    /\ \A m \in Names : SameEntry(m) /\ SameHost(m) /\ (Resting(m)' => Resting(m))
    /\ \A b \in Requests : Busy(b)' => Busy(b) /\ pc'[b] = pc[b] /\ job'[b] = job[b]
                                       /\ job[b].name \in Names

LEMMA OneInstance ==
  ASSUME IInv, AloneInv, Quiet, Exclusive, MaxCrashes = 0, [Next]_vars,
         Faults \cap {"cancel", "death"} = {}
  PROVE  /\ Quiet'
         /\ \/ \E a \in Requests, n \in Names : Turn(a) /\ n = job[a].name /\ Alone(a, n)
            \/ \E a \in Requests, n \in Names :
                  Submitted(a) /\ n = job'[a].name /\ Resting(n) /\ Alone(a, n)
            \/ Idles
<1>1. ASSUME NEW a \in Actors, Turn(a)
      PROVE  Quiet' /\ a \in Requests /\ \E n \in Names : n = job[a].name /\ Alone(a, n)
  <2>1. Busy(a) /\ job[a].name \in Names
    BY <1>1, TurnTaken, AtWork
  <2>2. a \in Requests /\ a # Boot /\ Serving /\ Boot \in Actors
    <3>1. a # Boot
      BY <2>1 DEF Quiet, Serving, Busy
    <3> QED
      BY <2>1, <3>1, AtWork DEF Actors
  <2>3. pc'[Boot] = "idle" /\ cancelled' = {}
    BY <1>1, <2>2, OthersWait DEF Quiet, Serving
  <2>4. Quiet'
    BY <2>3 DEF Quiet, Serving
  <2>5. ASSUME NEW m \in Names, m # job[a].name
        PROVE  SameEntry(m) /\ SameHost(m) /\ (Resting(m)' => Resting(m))
    BY <1>1, <2>5, OthersKept, OthersWait DEF Resting
  <2>6. ASSUME NEW b \in Requests, b # a, Busy(b)'
        PROVE  /\ Busy(b) /\ pc'[b] = pc[b] /\ job'[b] = job[b]
               /\ job[b].name \in Names /\ job[b].name # job[a].name
    <3>1. pc'[b] = pc[b] /\ job'[b] = job[b] /\ b \in Actors /\ Busy(b)
      BY <1>1, <2>6, OthersWait DEF Actors, Busy
    <3>2. job[b].name \in Names
      BY <3>1, AtWork
    <3>3. job[b].name # job[a].name
      BY <2>1, <2>6, <3>1, NoneAssumption DEF AloneInv, Apart
    <3> QED
      BY <3>1, <3>2, <3>3
  <2> QED
    BY <2>1, <2>2, <2>4, <2>5, <2>6 DEF Alone
<1>2. ASSUME NEW a \in Requests, Submit(a)
      PROVE  /\ Quiet' /\ Submitted(a)
             /\ \E n \in Names : n = job'[a].name /\ Resting(n) /\ Alone(a, n)
  <2>1. Submitted(a)
    BY <1>2, SubmitFrame
  <2>2. PICK n \in Names : n = job'[a].name
    BY <2>1 DEF Submitted
  <2>3. Serving /\ pc'[Boot] = "idle" /\ pc[a] = "idle" /\ cancelled' = cancelled /\ UNCHANGED hostVars
    BY <2>1 DEF Submitted
  <2>4. Resting(n)
    <3>1. \A b \in Requests : job[b].name # n
      BY <2>1, <2>2 DEF Submitted, InFlight
    <3>2. job[Boot] = NoJob
      BY <2>3, AtWork DEF Serving, Busy, Actors
    <3> QED
      BY <3>1, <3>2, Jobless, NoneAssumption DEF Resting, Actors
  <2>5. ASSUME NEW m \in Names, m # n
        PROVE  SameEntry(m) /\ SameHost(m) /\ (Resting(m)' => Resting(m))
    <3>1. SameEntry(m) /\ SameHost(m)
      BY <2>1, <2>2, <2>3, <2>5 DEF Submitted, SameHost, hostVars, zfsVars
    <3>2. Resting(m)' => Resting(m)
      <4>1. job[a] = NoJob
        BY <2>3, AtWork DEF Busy, Actors
      <4> QED
        BY <2>1, <4>1, Jobless, NoneAssumption DEF Resting, Submitted
    <3> QED
      BY <3>1, <3>2
  <2>6. ASSUME NEW b \in Requests, b # a, Busy(b)'
        PROVE  /\ Busy(b) /\ pc'[b] = pc[b] /\ job'[b] = job[b]
               /\ job[b].name \in Names /\ job[b].name # n
    <3>1. pc'[b] = pc[b] /\ job'[b] = job[b] /\ Busy(b) /\ b \in Actors
      BY <2>1, <2>6 DEF Submitted, Busy, Actors
    <3> QED
      BY <2>4, <3>1, AtWork DEF Resting
  <2>7. Quiet'
    BY <2>3 DEF Quiet, Serving
  <2> QED
    BY <2>1, <2>2, <2>4, <2>5, <2>6, <2>7 DEF Alone
<1>3. CASE Reconciles
  <2>1. /\ UNCHANGED <<known, hostVars, cancelled>>
        /\ \A b \in Requests : pc[b] = "idle" /\ pc'[b] = pc[b]
        /\ pc[Boot] \in {"load", "pick"} /\ pc \in [Actors -> PCs]
        /\ inst \in [Names -> Entry]
    BY <1>3, ReconcileFrame, ActorsAssumption DEF Actors, IInv, TypeOK, MemoryTypeOK, StoreTypeOK
  <2>2. known = {} /\ boot.todo = {} /\ ~Busy(Boot) /\ cancelled = {}
    BY <2>1 DEF Quiet, Serving
  <2>3. ReconcileLoad \/ ReconcileCommit
    BY <1>3, <2>2 DEF Reconciles, ReconcilePick
  <2>4. boot'.todo = {} /\ pc'[Boot] \in {"idle", "pick"} /\ UNCHANGED job
    BY <2>1, <2>2, <2>3 DEF ReconcileLoad, ReconcileCommit, Goto, NoBoot, Actors
  <2>5. \A m \in Names : inst'[m] = inst[m]
    BY <2>1, <2>2, <2>3 DEF ReconcileLoad, ReconcileCommit, storeVars
  <2>6. Quiet'
    BY <2>1, <2>2, <2>4 DEF Quiet, Busy
  <2>7. Idles
    BY <2>1, <2>4, <2>5 DEF Idles, SameEntry, SameHost, hostVars, zfsVars, Resting, Busy
  <2> QED
    BY <2>6, <2>7
<1>4. CASE (\E a \in Requests : Cancel(a)) \/ (\E n \in Names : DockerdDies(n)) \/ UNCHANGED vars
  <2>1. UNCHANGED <<storeVars, zfsVars, unit, netns, stale, pc, job, boot, cancelled>>
    BY <1>4, EnvironmentFrame
  <2>2. Quiet'
    BY <2>1 DEF Quiet, Serving, Busy, storeVars
  <2>3. Idles
    BY <2>1, AtWork DEF Idles, SameEntry, SameHost, storeVars, zfsVars, Resting, Busy, Actors
  <2> QED
    BY <2>2, <2>3
<1>5. ~Crash
  BY DEF Crash, IInv, TypeOK
<1> QED
  BY <1>1, <1>2, <1>3, <1>4, <1>5, Steps

LEMMA QuietInit == Init => Quiet /\ \A a \in Actors : ~Busy(a)
BY DEF Init, Quiet, NoBoot, Busy, Actors

\* An instance no request is about, while the API serves.
LEMMA AtRest ==
  ASSUME IInv, AloneInv, NEW n \in known, Serving, ~InFlight(n)
  PROVE  n \in Names /\ Resting(n)
<1>1. n \in Names
  BY DEF IInv, TypeOK, StoreTypeOK
<1>2. job[Boot] = NoJob
  BY AtWork DEF Serving, Busy, Actors
<1>3. Resting(n)
  BY <1>1, <1>2, Jobless, NoneAssumption DEF Resting, InFlight, Actors
<1> QED
  BY <1>1, <1>3

-----------------------------------------------------------------------------
(* Network namespaces *)

\* An instance at rest has a namespace exactly while its dockerd is up,
\* with the subnet of its entry.
NetRest(n) ==
    /\ netns[n] = IF n \in unit THEN inst[n].idx ELSE None
    /\ n \in unit => n \in known

\* How far the instance n of goroutine a is from that.
NetStage(a, n) ==
    /\ pc[a] \in {"validate", "dataset", "netns", "unit", "zfs", "drop", "destroy",
                  "rollback", "forget"} => n \notin unit
    /\ pc[a] \in {"wait", "deploy", "scan"} => n \in unit
    /\ pc[a] = "commit" => (n \in unit <=> job[a].op # "stop")
    /\ netns[n] = IF n \in unit \/ pc[a] = "unit" THEN inst[n].idx ELSE None

NetInv ==
    /\ Quiet
    /\ \A a \in Requests : Busy(a) => NetStage(a, job[a].name)
    /\ \A n \in Names : Resting(n) => NetRest(n)

\* The step that ends a request leaves its instance at rest.
LEMMA TurnKeepsNet ==
  ASSUME IInv, AloneInv, NetInv, NEW a \in Requests, Turn(a), NEW n \in Names, n = job[a].name,
         Faults \cap {"unit", "wait", "stop"} = {}
  PROVE  \/ Busy(a)' /\ job'[a].name = n /\ NetStage(a, n)'
         \/ ~Busy(a)' /\ job'[a] = NoJob /\ NetRest(n)'
<1>0. /\ a \in Actors /\ pc \in [Actors -> PCs] /\ job \in [Actors -> Job] /\ job[a] \in Job
      /\ pc[a] \in PCs /\ netns \in [Names -> Nat \cup {None}] /\ inst \in [Names -> Entry]
      /\ Fits(pc[a], job[a]) /\ Busy(a)
  BY TurnTaken, AtWork, FitNow
  DEF Actors, AloneInv, IInv, TypeOK, MemoryTypeOK, HostTypeOK, StoreTypeOK
<1>1. /\ cancelled = {} /\ NetStage(a, n) /\ n \in known
      /\ inst[n].idx \in Nat /\ inst[n].idx # None /\ job[a].idx = inst[n].idx
  <2>1. inst[n].idx \in Nat
    BY <1>0 DEF Entry
  <2> QED
    BY <1>0, <2>1, NoneAssumption DEF NetInv, Quiet, AloneInv, Held
<1> DEFINE Rests == ~Busy(a)' /\ job'[a] = NoJob /\ NetRest(n)'
           GoesOnAt == Busy(a)' /\ job'[a].name = n /\ NetStage(a, n)'
<1>a. ASSUME Return(a), UNCHANGED <<known, unit, netns>>, inst'[n].idx = inst[n].idx,
             pc[a] # "unit"
      PROVE  Rests
  <2>1. ~Busy(a)' /\ job'[a] = NoJob
    BY <1>0, <1>a DEF Return, Goto, Busy
  <2> QED
    BY <1>1, <1>a, <2>1 DEF NetRest, NetStage
<1>b. ASSUME NEW p \in PCs, Goto(a, p), p \notin {"idle", "load", "pick"},
             UNCHANGED job \/ job' = [job EXCEPT ![a].failed = TRUE]
      PROVE  Busy(a)' /\ pc'[a] = p /\ job'[a].name = n /\ job'[a].op = job[a].op
  BY <1>0, <1>b DEF Goto, Busy, Job
<1>1a. CASE pc[a] \in {"validate", "deploy"}
  <2>1. UNCHANGED <<inst, unit, netns, job>>
    BY <1>0, <1>1a, TurnAt DEF Validate, Deploy, hostVars, storeVars
  <2>2. \/ pc[a] = "validate" /\ \E p \in {"dataset", "rollback"} : Goto(a, p)
        \/ pc[a] = "deploy" /\ \E p \in {"commit", "stop"} : Goto(a, p)
    BY <1>0, <1>1a, TurnAt DEF Validate, Deploy
  <2>3. GoesOnAt
    BY <1>0, <1>1, <1>b, <2>1, <2>2 DEF NetStage, PCs, Fits
  <2> QED
    BY <2>3
<1>2. CASE pc[a] = "dataset"
  <2>1. UNCHANGED <<inst, unit, netns, job>> /\ \E p \in {"netns", "rollback"} : Goto(a, p)
    BY <1>0, <1>2, TurnAt DEF MakeDataset, storeVars
  <2>2. GoesOnAt
    BY <1>0, <1>1, <1>2, <1>b, <2>1 DEF NetStage, PCs
  <2> QED
    BY <2>2
<1>3. CASE pc[a] = "netns"
  <2>1. UNCHANGED <<known, inst, unit>> /\ netns[n] = None
    BY <1>0, <1>1, <1>3, TurnAt DEF SetupNetns, storeVars, NetStage
  <2>2. \/ netns' = [netns EXCEPT ![n] = inst[n].idx] /\ Goto(a, "unit") /\ UNCHANGED job
        \/ UNCHANGED netns /\ StartFailed(a)
    BY <1>0, <1>1, <1>3, <2>1, TurnAt DEF SetupNetns
  <2>3. CASE netns' = [netns EXCEPT ![n] = inst[n].idx] /\ Goto(a, "unit") /\ UNCHANGED job
    <3>1. GoesOnAt
      BY <1>0, <1>1, <1>3, <1>b, <2>1, <2>3 DEF NetStage, PCs
    <3> QED
      BY <3>1
  <2>4. CASE UNCHANGED netns /\ StartFailed(a)
    <3>1. CASE pc'[a] = "destroy" /\ UNCHANGED job
      <4>1. GoesOnAt
        BY <1>0, <1>1, <1>3, <2>1, <2>4, <3>1 DEF NetStage, Busy
      <4> QED
        BY <4>1
    <3>2. CASE pc'[a] \in {"idle", "pick"} /\ job'[a] = NoJob
      <4>1. Rests
        BY <1>1, <1>3, <2>1, <2>4, <3>2 DEF NetStage, NetRest, Busy
      <4> QED
        BY <4>1
    <3> QED
      BY <1>0, <2>4, <3>1, <3>2, StartFailedGoes
  <2> QED
    BY <2>2, <2>3, <2>4
<1>4. CASE pc[a] = "unit"
  <2>1. /\ UNCHANGED <<inst, netns, job>> /\ unit' = unit \cup {n} /\ Goto(a, "wait")
    BY <1>0, <1>1, <1>4, TurnAt DEF StartUnit, CmdFails, CmdKilled, Fails, NetStage, storeVars
  <2>2. GoesOnAt
    BY <1>0, <1>1, <1>4, <1>b, <2>1 DEF NetStage, PCs
  <2> QED
    BY <2>2
<1>5. CASE pc[a] = "wait"
  <2>1. /\ UNCHANGED <<inst, netns, job, unit>>
        /\ \E p \in {"deploy", "scan"} : Goto(a, p)
    BY <1>0, <1>1, <1>5, TurnAt DEF WaitForSocket, CmdFails, Fails, NetStage, storeVars
  <2>2. GoesOnAt
    BY <1>0, <1>1, <1>5, <1>b, <2>1 DEF NetStage, PCs
  <2> QED
    BY <2>2
<1>6. CASE pc[a] = "scan"
  <2>0. /\ job[a].op \notin {"reconcile", "stop"} /\ n \in unit
    BY <1>0, <1>1, <1>6, FitNow, ActorsAssumption DEF AloneInv, Whose, Fits, Starting, NetStage
  <2>1. /\ UNCHANGED <<known, inst, netns, unit>>
        /\ Return(a) \/ (Goto(a, "commit") /\ UNCHANGED job)
    BY <1>0, <1>1, <1>6, <2>0, TurnAt DEF Scan, storeVars, hostVars
  <2>2. CASE Return(a)
    <3>1. Rests
      BY <1>0, <1>1, <1>6, <2>0, <2>1, <2>2 DEF Return, Goto, Busy, NetRest, NetStage
    <3> QED
      BY <3>1
  <2>3. CASE Goto(a, "commit") /\ UNCHANGED job
    <3>1. GoesOnAt
      BY <1>0, <1>1, <1>6, <1>b, <2>0, <2>1, <2>3 DEF NetStage, PCs
    <3> QED
      BY <3>1
  <2> QED
    BY <2>1, <2>2, <2>3
<1>7. CASE pc[a] = "unforward"
  <2>1. /\ UNCHANGED <<inst, netns, unit, job>>
        /\ \E p \in {"probe", "stop"} : Goto(a, p)
    BY <1>0, <1>7, TurnAt DEF Unforward, storeVars, hostVars
  <2>2. GoesOnAt
    BY <1>0, <1>1, <1>7, <1>b, <2>1 DEF NetStage, PCs
  <2> QED
    BY <2>2
<1>8. CASE pc[a] = "probe"
  <2>0. job[a].op \in {"delete", "start", "stop"}
    BY <1>0, <1>8 DEF Fits, Starting, Job, Ops, NoJob
  <2>1. /\ UNCHANGED <<known, inst, netns, unit>>
        /\ \/ Return(a)
           \/ /\ UNCHANGED job
              /\ \/ Goto(a, "netns") /\ n \notin unit
                 \/ Goto(a, "unforward")
                 \/ Goto(a, "stop") /\ job[a].op = "delete"
                 \/ Goto(a, "destroy") /\ n \notin unit
    BY <1>0, <1>8, <2>0, TurnAt DEF ProbeUnit, storeVars, hostVars
  <2>2. CASE Return(a)
    BY <1>8, <1>a, <2>1, <2>2
  <2>3. ASSUME NEW p \in {"netns", "unforward", "stop", "destroy"}, Goto(a, p), UNCHANGED job,
               p \in {"netns", "destroy"} => n \notin unit, p = "stop" => job[a].op = "delete"
        PROVE  GoesOnAt
    BY <1>0, <1>1, <1>8, <1>b, <2>1, <2>3 DEF NetStage, PCs
  <2> QED
    BY <2>1, <2>2, <2>3
<1>9. CASE pc[a] = "stop"
  <2>1. /\ UNCHANGED <<inst, job>> /\ unit' = unit \ {n} /\ netns' = [netns EXCEPT ![n] = None]
        /\ \/ \E p \in {"destroy", "zfs"} : Goto(a, p)
           \/ Goto(a, "commit") /\ job[a].op = "stop"
    BY <1>0, <1>1, <1>9, TurnAt DEF StopDockerd, Fails, storeVars
  <2>2. ASSUME NEW p \in {"destroy", "zfs", "commit"}, Goto(a, p), p = "commit" => job[a].op = "stop"
        PROVE  GoesOnAt
    BY <1>0, <1>1, <1>9, <1>b, <2>1, <2>2 DEF NetStage, PCs
  <2> QED
    BY <2>1, <2>2
<1>10. CASE pc[a] \in {"zfs", "drop"}
  <2>1. /\ UNCHANGED <<inst, unit, netns>> /\ \E p \in {"netns", "drop"} : Goto(a, p)
        /\ UNCHANGED job \/ job' = [job EXCEPT ![a].failed = TRUE]
    BY <1>0, <1>10, TurnAt DEF ZfsOp, DropCaches, storeVars
  <2>2. GoesOnAt
    BY <1>0, <1>1, <1>10, <1>b, <2>1 DEF NetStage, PCs
  <2> QED
    BY <2>2
<1>11. CASE pc[a] = "destroy"
  <2>1. /\ UNCHANGED <<known, inst, unit, netns>>
        /\ Return(a) \/ (UNCHANGED job /\ \E p \in {"rollback", "forget"} : Goto(a, p))
    BY <1>0, <1>11, TurnAt DEF Destroy, storeVars
  <2>2. CASE UNCHANGED job /\ \E p \in {"rollback", "forget"} : Goto(a, p)
    <3>1. GoesOnAt
      BY <1>0, <1>1, <1>11, <1>b, <2>1, <2>2 DEF NetStage, PCs
    <3> QED
      BY <3>1
  <2> QED
    BY <1>11, <1>a, <2>1, <2>2
<1>12. CASE pc[a] = "commit"
  <2>1. Return(a) /\ UNCHANGED <<known, unit, netns>>
    BY <1>0, <1>12, TurnAt DEF Commit, hostVars
  <2>2. inst'[n].idx = inst[n].idx
    <3>1. job[a].op = "snapshot" => job[a].label \in Labels
      BY <1>0 DEF IInv, JobOK
    <3>2. Committed(inst[n], job[a]).idx = inst[n].idx
      BY <1>0, <3>1, CommittedType
    <3>3. inst' = inst \/ inst' = [inst EXCEPT ![n] = Committed(@, job[a])]
      BY <1>0, <1>12, TurnAt DEF Commit
    <3> QED
      BY <1>0, <3>2, <3>3
  <2> QED
    BY <1>12, <1>a, <2>1, <2>2
<1>13. CASE pc[a] \in {"rollback", "forget"}
  <2>1. Return(a) /\ UNCHANGED <<unit, netns>>
    BY <1>0, <1>13, TurnAt DEF Rollback, Forget, DropEntry, hostVars
  <2>2. Rests
    BY <1>0, <1>1, <1>13, <2>1 DEF Return, Goto, Busy, NetRest, NetStage
  <2> QED
    BY <2>2
<1> QED
  BY <1>0, <1>1a, <1>2, <1>3, <1>4, <1>5, <1>6, <1>7, <1>8, <1>9, <1>10, <1>11, <1>12, <1>13 DEF PCs, Busy

LEMMA NetStep ==
  ASSUME IInv, AloneInv, NetInv, Exclusive, MaxCrashes = 0, [Next]_vars,
         Faults \cap {"unit", "wait", "stop", "cancel", "death"} = {}
  PROVE  NetInv'
<1>1. ASSUME NEW a \in Requests, NEW n \in Names, Alone(a, n),
             \/ Busy(a)' /\ job'[a].name = n /\ NetStage(a, n)'
             \/ ~Busy(a)' /\ NetRest(n)'
      PROVE  /\ \A b \in Requests : Busy(b)' => NetStage(b, job[b].name)'
             /\ \A m \in Names : Resting(m)' => NetRest(m)'
  <2>1. ASSUME NEW b \in Requests, Busy(b)', b # a
        PROVE  NetStage(b, job[b].name)'
    <3>1. PICK m \in Names : /\ m = job[b].name /\ m # n /\ Busy(b)
                             /\ pc'[b] = pc[b] /\ job'[b] = job[b]
      BY <1>1, <2>1 DEF Alone
    <3>2. SameEntry(m) /\ SameHost(m) /\ NetStage(b, m)
      BY <1>1, <3>1 DEF Alone, NetInv
    <3>3. NetStage(b, m)'
      BY <3>1, <3>2 DEF NetStage, SameEntry, SameHost
    <3> QED
      BY <3>1, <3>3
  <2>2. ASSUME NEW m \in Names, Resting(m)', m # n
        PROVE  NetRest(m)'
    BY <1>1, <2>2 DEF Alone, NetInv, NetRest, SameEntry, SameHost
  <2>3. Resting(n)' => NetRest(n)'
    BY <1>1 DEF Resting, Actors
  <2> QED
    BY <1>1, <2>1, <2>2, <2>3
<1>2. ASSUME NEW a \in Requests, NEW n \in Names, Turn(a), n = job[a].name, Alone(a, n)
      PROVE  /\ \A b \in Requests : Busy(b)' => NetStage(b, job[b].name)'
             /\ \A m \in Names : Resting(m)' => NetRest(m)'
  BY <1>1, <1>2, TurnKeepsNet
<1>3. ASSUME NEW a \in Requests, NEW n \in Names, Submitted(a), n = job'[a].name, Resting(n), Alone(a, n)
      PROVE  /\ \A b \in Requests : Busy(b)' => NetStage(b, job[b].name)'
             /\ \A m \in Names : Resting(m)' => NetRest(m)'
  <2>1. Busy(a)' /\ job'[a].name = n /\ UNCHANGED hostVars /\ pc'[a] # "unit" /\ NetRest(n)
    <3>1. Busy(a)' /\ job'[a].name = n /\ UNCHANGED hostVars /\ pc'[a] # "unit"
      BY <1>3 DEF Submitted, Busy
    <3> QED
      BY <1>3, <3>1 DEF NetInv
  <2>2. NetStage(a, n)'
    <3>1. CASE n \notin known /\ pc'[a] \in {"validate", "dataset"}
      BY <2>1, <3>1 DEF NetRest, NetStage, hostVars
    <3>2. CASE n \in known /\ UNCHANGED storeVars
               /\ pc'[a] = IF job'[a].op \in {"start", "stop"} THEN "probe" ELSE "unforward"
      BY <2>1, <3>2 DEF NetRest, NetStage, hostVars, storeVars
    <3> QED
      BY <1>3, <3>1, <3>2 DEF Submitted
  <2> QED
    BY <1>1, <1>3, <2>1, <2>2
<1>4. ASSUME Idles
      PROVE  /\ \A b \in Requests : Busy(b)' => NetStage(b, job[b].name)'
             /\ \A m \in Names : Resting(m)' => NetRest(m)'
  <2>1. ASSUME NEW b \in Requests, Busy(b)'
        PROVE  NetStage(b, job[b].name)'
    <3>1. PICK m \in Names : m = job[b].name /\ Busy(b) /\ pc'[b] = pc[b] /\ job'[b] = job[b]
      BY <1>4, <2>1 DEF Idles
    <3>2. SameEntry(m) /\ SameHost(m) /\ NetStage(b, m)
      BY <1>4, <3>1 DEF Idles, NetInv
    <3>3. NetStage(b, m)'
      BY <3>1, <3>2 DEF NetStage, SameEntry, SameHost
    <3> QED
      BY <3>1, <3>3
  <2>2. ASSUME NEW m \in Names, Resting(m)'
        PROVE  NetRest(m)'
    BY <1>4, <2>2 DEF Idles, NetInv, NetRest, SameEntry, SameHost
  <2> QED
    BY <2>1, <2>2
<1> QED
  BY <1>2, <1>3, <1>4, OneInstance DEF NetInv

LEMMA NetInvariance ==
  ASSUME Exclusive, MaxCrashes = 0, Faults \cap {"unit", "wait", "stop", "cancel", "death"} = {}
  PROVE  Spec => [](IInv /\ AloneInv /\ NetInv)
<1>1. Init => NetInv
  BY QuietInit DEF Init, NetInv, NetRest, Actors
<1>2. IInv /\ AloneInv /\ NetInv /\ [Next]_vars => NetInv'
  BY NetStep
<1>3. Spec => [](IInv /\ AloneInv)
  BY AloneInvariance
<1> QED
  BY <1>1, <1>2, <1>3, PTL DEF Spec

\* A namespace carries the subnet of an entry that exists.
LEMMA NamespaceOwner ==
  ASSUME IInv, AloneInv, NetInv, NEW n \in Names, netns[n] # None
  PROVE  n \in known /\ netns[n] = inst[n].idx
<1>1. CASE Resting(n)
  BY <1>1 DEF NetInv, NetRest
<1>2. ASSUME NEW a \in Actors, job[a].name = n
      PROVE  n \in known /\ netns[n] = inst[n].idx
  <2>1. Busy(a)
    BY <1>2, AtWork, Jobless, NoneAssumption
  <2>2. a \in Requests
    BY <2>1 DEF NetInv, Quiet, Serving, Busy, Actors
  <2>3. NetStage(a, n) /\ n \in known
    BY <1>2, <2>1, <2>2 DEF NetInv, AloneInv, Held
  <2> QED
    BY <2>3 DEF NetStage
<1> QED
  BY <1>1, <1>2 DEF Resting

\* Two network namespaces never carry the same subnet (SetupNetns uses the
\* entry's index, Delete and the failure paths of Create tear the namespace
\* down before the index is free): for any number of instances and concurrent
\* requests, whatever fails of ZFS, the state file, the plugins, the page cache
\* or "ip netns", so long as no dockerd fails to start or to die.
THEOREM NoTwoNamespacesShareASubnet ==
  ASSUME Exclusive, MaxCrashes = 0, Faults \cap {"unit", "wait", "stop", "cancel", "death"} = {}
  PROVE  Spec => []NamespacesDisjoint
<1>1. IInv /\ AloneInv /\ NetInv => NamespacesDisjoint
  BY NamespaceOwner DEF NamespacesDisjoint, IInv, UniqueSubnets
<1> QED
  BY <1>1, NetInvariance, PTL

-----------------------------------------------------------------------------
(* The state file agrees with ZFS *)

\* An instance at rest has its dataset and exactly the snapshots of its entry;
\* a free name has no snapshots.
DataRest(n) ==
    IF n \in known
    THEN n \in datasets /\ zsnaps[n] = inst[n].snaps
    ELSE zsnaps[n] = <<>>

\* The ZFS operation is done and the entry does not show it yet.
Ahead(a) ==
    pc[a] \in {"drop", "netns", "unit", "wait", "scan", "commit"} /\ ~job[a].failed

\* How far the instance n of goroutine a is from that.
DataStage(a, n) ==
    IF Fresh(a)
    THEN /\ zsnaps[n] = <<>> /\ inst[n].snaps = <<>>
         /\ pc[a] \notin {"validate", "dataset", "destroy", "rollback"} => n \in datasets
    ELSE /\ pc[a] \notin Starting => ~job[a].failed
         /\ pc[a] # "forget" => n \in datasets
         /\ zsnaps[n] = IF pc[a] = "forget" THEN <<>>
                        ELSE IF Ahead(a) THEN Committed(inst[n], job[a]).snaps
                        ELSE inst[n].snaps

DataInv ==
    /\ \A a \in Requests : Busy(a) => DataStage(a, job[a].name)
    /\ \A n \in Names : Resting(n) => DataRest(n)

LEMMA CommittedParts ==
  ASSUME NEW e \in Entry, NEW j
  PROVE  /\ Committed(e, j).status # "error"
         /\ j.op = "snapshot" => Committed(e, j).snaps = Append(e.snaps, j.label)
         /\ j.op = "revert" => Committed(e, j).snaps = UpTo(e.snaps, j.label)
         /\ j.op \notin {"snapshot", "revert"} => Committed(e, j).snaps = e.snaps
<1>1. CASE j.op = "snapshot"
  BY <1>1 DEF Committed, Entry
<1>2. CASE j.op = "revert"
  BY <1>2 DEF Committed, Entry
<1>3. CASE j.op = "stop"
  BY <1>3 DEF Committed, Entry
<1>4. CASE j.op \notin {"snapshot", "revert", "stop"}
  BY <1>4 DEF Committed, Entry
<1> QED
  BY <1>1, <1>2, <1>3, <1>4

\* The step that ends a request leaves its instance at rest.
LEMMA TurnKeepsData ==
  ASSUME IInv, AloneInv, NetInv, DataInv, NEW a \in Requests, Turn(a), NEW n \in Names, n = job[a].name,
         Faults \cap {"netns", "unit", "wait", "stop", "save"} = {}
  PROVE  \/ Busy(a)' /\ job'[a].name = n /\ DataStage(a, n)'
         \/ ~Busy(a)' /\ job'[a] = NoJob /\ DataRest(n)'
<1>0. /\ a \in Actors /\ pc \in [Actors -> PCs] /\ job \in [Actors -> Job] /\ job[a] \in Job
      /\ pc[a] \in PCs /\ zsnaps \in [Names -> Seq(Labels)] /\ inst \in [Names -> Entry]
      /\ Fits(pc[a], job[a]) /\ Busy(a)
  BY TurnTaken, AtWork, FitNow
  DEF Actors, AloneInv, IInv, TypeOK, MemoryTypeOK, HostTypeOK, StoreTypeOK
<1>1. /\ cancelled = {} /\ DataStage(a, n) /\ NetStage(a, n) /\ n \in known
      /\ inst[n].idx # None /\ inst[n] \in Entry
  <2>1. inst[n].idx \in Nat
    BY <1>0 DEF Entry
  <2> QED
    BY <1>0, <2>1, NoneAssumption DEF NetInv, Quiet, DataInv, AloneInv, Held
<1> DEFINE Rests == ~Busy(a)' /\ job'[a] = NoJob /\ DataRest(n)'
           GoesOnAt == Busy(a)' /\ job'[a].name = n /\ DataStage(a, n)'
<1>a. ASSUME Return(a)
      PROVE  ~Busy(a)' /\ job'[a] = NoJob
  BY <1>0, <1>a DEF Return, Goto, Busy
<1>b. ASSUME NEW p \in PCs, Goto(a, p), p \notin {"idle", "load", "pick"}, UNCHANGED job
      PROVE  Busy(a)' /\ pc'[a] = p /\ job'[a].name = n /\ (Fresh(a)' <=> Fresh(a))
  BY <1>0, <1>b DEF Goto, Busy, Fresh
<1>c. job[a].op \notin {"snapshot", "revert"} =>
        ~job[a].failed /\ Committed(inst[n], job[a]).snaps = inst[n].snaps
  BY <1>0, <1>1, CommittedParts DEF Fits
<1>d. ASSUME NEW p \in PCs, Goto(a, p), p \notin {"idle", "load", "pick"},
             UNCHANGED <<job, inst, zsnaps, datasets>>,
             Fresh(a) => \/ pc[a] \notin {"validate", "dataset", "destroy", "rollback"}
                         \/ p \in {"validate", "dataset", "destroy", "rollback"},
             ~Fresh(a) => /\ pc[a] # "forget" /\ p # "forget"
                          /\ pc[a] \in Starting /\ p \notin Starting => ~job[a].failed
                          /\ Ahead(a)' /\ ~Ahead(a) => job[a].op \notin {"snapshot", "revert"}
                          /\ Ahead(a) => Ahead(a)' \/ job[a].op \notin {"snapshot", "revert"}
      PROVE  GoesOnAt
  <2>1. Busy(a)' /\ pc'[a] = p /\ job'[a].name = n /\ (Fresh(a)' <=> Fresh(a))
    BY <1>b, <1>d
  <2>2. CASE Fresh(a)
    BY <1>1, <1>d, <2>1, <2>2 DEF DataStage
  <2>3. CASE ~Fresh(a)
    BY <1>1, <1>c, <1>d, <2>1, <2>3 DEF DataStage
  <2> QED
    BY <2>2, <2>3
<1>2. CASE pc[a] \in {"validate", "deploy"}
  <2>1. UNCHANGED <<inst, zsnaps, datasets, job>> /\ job[a].op = "create"
    BY <1>0, <1>2, TurnAt DEF Validate, Deploy, hostVars, zfsVars, storeVars, Fits, Starting, Job, Ops, NoJob
  <2>2. \/ pc[a] = "validate" /\ \E p \in {"dataset", "rollback"} : Goto(a, p)
        \/ pc[a] = "deploy" /\ \E p \in {"commit", "stop"} : Goto(a, p)
    BY <1>0, <1>2, TurnAt DEF Validate, Deploy
  <2> QED
    BY <1>d, <2>1, <2>2 DEF Fresh, PCs
<1>3. CASE pc[a] = "dataset"
  <2>1. /\ UNCHANGED <<inst, zsnaps, job>> /\ Fresh(a)
        /\ \/ Goto(a, "netns") /\ n \in datasets'
           \/ Goto(a, "rollback")
    BY <1>0, <1>1, <1>3, TurnAt DEF MakeDataset, CmdKilled, storeVars, Fits, Starting, Job, Ops, NoJob, Fresh
  <2>2. GoesOnAt
    BY <1>0, <1>1, <1>b, <2>1 DEF DataStage, PCs, Goto
  <2> QED
    BY <2>2
<1>4. CASE pc[a] = "netns"
  <2>1. UNCHANGED <<inst, zsnaps, datasets, job>> /\ Goto(a, "unit")
    BY <1>0, <1>1, <1>4, TurnAt DEF SetupNetns, CmdFails, Fails, NetStage, storeVars, zfsVars
  <2> QED
    BY <1>0, <1>4, <1>d, <2>1 DEF PCs, Ahead, Goto, Starting
<1>5. CASE pc[a] = "unit"
  <2>1. UNCHANGED <<inst, zsnaps, datasets, job>> /\ Goto(a, "wait")
    BY <1>0, <1>1, <1>5, TurnAt DEF StartUnit, CmdFails, CmdKilled, Fails, NetStage, storeVars, zfsVars
  <2> QED
    BY <1>0, <1>5, <1>d, <2>1 DEF PCs, Ahead, Goto, Starting
<1>6. CASE pc[a] = "wait"
  <2>1. UNCHANGED <<inst, zsnaps, datasets, job>> /\ (Goto(a, "scan") \/ (Goto(a, "deploy") /\ Fresh(a)))
    BY <1>0, <1>1, <1>6, TurnAt
    DEF WaitForSocket, CmdFails, Fails, NetStage, storeVars, zfsVars, Fresh
  <2> QED
    BY <1>0, <1>6, <1>d, <2>1 DEF PCs, Ahead, Goto, Starting
<1>7. CASE pc[a] = "scan"
  <2>0. job[a].op # "reconcile"
    BY <1>0, FitNow, ActorsAssumption DEF AloneInv, Whose
  <2>1. /\ UNCHANGED <<known, inst, zsnaps, datasets>>
        /\ \/ Return(a) /\ job[a].failed
           \/ Goto(a, "commit") /\ UNCHANGED job /\ ~job[a].failed
    BY <1>0, <1>7, <2>0, TurnAt DEF Scan, storeVars, hostVars, zfsVars
  <2>2. CASE Return(a) /\ job[a].failed
    <3>1. ~Fresh(a) /\ ~Ahead(a)
      BY <1>0, <2>2 DEF Fits, Fresh, Ahead
    <3>2. Rests
      BY <1>1, <1>7, <1>a, <2>1, <2>2, <3>1 DEF DataRest, DataStage
    <3> QED
      BY <3>2
  <2>3. CASE Goto(a, "commit") /\ UNCHANGED job /\ ~job[a].failed
    BY <1>0, <1>7, <1>d, <2>1, <2>3 DEF PCs, Ahead, Goto, Starting
  <2> QED
    BY <2>1, <2>2, <2>3
<1>8. CASE pc[a] = "unforward"
  <2>1. /\ UNCHANGED <<inst, zsnaps, datasets, job>> /\ \E p \in {"probe", "stop"} : Goto(a, p)
    BY <1>0, <1>8, TurnAt DEF Unforward, storeVars, hostVars, zfsVars
  <2> QED
    BY <1>0, <1>8, <1>d, <2>1 DEF PCs, Ahead, Goto, Starting
<1>9. CASE pc[a] = "probe"
  <2>0. job[a].op \in {"delete", "start", "stop"} /\ ~Fresh(a)
    BY <1>0, <1>9 DEF Fits, Starting, Job, Ops, NoJob, Fresh
  <2>1. /\ UNCHANGED <<known, inst, zsnaps, datasets>>
        /\ \/ Return(a)
           \/ UNCHANGED job /\ \E p \in {"netns", "unforward", "stop", "destroy"} : Goto(a, p)
    BY <1>0, <1>9, <2>0, TurnAt DEF ProbeUnit, storeVars, hostVars, zfsVars
  <2>2. CASE Return(a)
    <3>1. Rests
      BY <1>1, <1>9, <1>a, <2>0, <2>1, <2>2 DEF DataRest, DataStage, Ahead
    <3> QED
      BY <3>1
  <2>3. CASE UNCHANGED job /\ \E p \in {"netns", "unforward", "stop", "destroy"} : Goto(a, p)
    BY <1>0, <1>9, <1>d, <2>0, <2>1, <2>3 DEF PCs, Ahead, Goto, Starting
  <2> QED
    BY <2>1, <2>2, <2>3
<1>10. CASE pc[a] = "stop"
  <2>1. /\ UNCHANGED <<inst, zsnaps, datasets, job>>
        /\ \/ \E p \in {"destroy", "zfs"} : Goto(a, p)
           \/ Goto(a, "commit") /\ job[a].op = "stop"
    BY <1>0, <1>10, TurnAt DEF StopDockerd, storeVars, zfsVars
  <2> QED
    BY <1>0, <1>10, <1>c, <1>d, <2>1 DEF PCs, Ahead, Goto, Starting
<1>11. CASE pc[a] = "zfs"
  <2>0. job[a].op \in {"snapshot", "revert"} /\ ~Fresh(a) /\ zsnaps[n] = inst[n].snaps
    BY <1>0, <1>1, <1>11 DEF Fits, Starting, Job, Ops, NoJob, Fresh, DataStage, Ahead
  <2>1. /\ UNCHANGED <<inst, datasets>>
        /\ \/ /\ job[a].op = "snapshot" /\ zsnaps' = [zsnaps EXCEPT ![n] = Append(@, job[a].label)]
              /\ Goto(a, "netns") /\ UNCHANGED job
           \/ /\ job[a].op = "revert" /\ zsnaps' = [zsnaps EXCEPT ![n] = UpTo(@, job[a].label)]
              /\ Goto(a, "drop") /\ UNCHANGED job
           \/ UNCHANGED zsnaps /\ Goto(a, "netns") /\ job' = [job EXCEPT ![a].failed = TRUE]
    BY <1>0, <1>1, <1>11, TurnAt DEF ZfsOp, CmdKilled, storeVars
  <2>2. CASE zsnaps'[n] = Committed(inst[n], job[a]).snaps /\ UNCHANGED job
             /\ \E p \in {"netns", "drop"} : Goto(a, p)
    <3>1. GoesOnAt
      BY <1>0, <1>1, <1>11, <1>b, <2>0, <2>1, <2>2 DEF DataStage, Ahead, PCs, Starting
    <3> QED
      BY <3>1
  <2>3. CASE UNCHANGED zsnaps /\ Goto(a, "netns") /\ job' = [job EXCEPT ![a].failed = TRUE]
    <3>1. /\ pc'[a] = "netns" /\ job'[a].failed /\ job'[a].op = job[a].op /\ job'[a].name = n
      BY <1>0, <2>3 DEF Goto, Job
    <3>2. GoesOnAt
      BY <1>1, <1>11, <2>0, <2>1, <2>3, <3>1 DEF DataStage, Ahead, Busy, Fresh, Starting
    <3> QED
      BY <3>2
  <2>4. CASE ~(UNCHANGED zsnaps /\ Goto(a, "netns") /\ job' = [job EXCEPT ![a].failed = TRUE])
    <3>0. \/ job[a].op = "snapshot" /\ zsnaps'[n] = Append(inst[n].snaps, job[a].label)
          \/ job[a].op = "revert" /\ zsnaps'[n] = UpTo(inst[n].snaps, job[a].label)
      BY <1>0, <2>0, <2>1, <2>4
    <3>1. zsnaps'[n] = Committed(inst[n], job[a]).snaps
      <4>1. /\ job[a].op = "snapshot" =>
                 Committed(inst[n], job[a]).snaps = Append(inst[n].snaps, job[a].label)
            /\ job[a].op = "revert" =>
                 Committed(inst[n], job[a]).snaps = UpTo(inst[n].snaps, job[a].label)
        BY <1>1, CommittedParts
      <4> QED
        BY <3>0, <4>1
    <3> QED
      BY <2>1, <2>2, <2>4, <3>1
  <2> QED
    BY <2>3, <2>4
<1>12. CASE pc[a] = "drop"
  <2>1. UNCHANGED <<inst, zsnaps, datasets, job>> /\ Goto(a, "netns")
    BY <1>0, <1>12, TurnAt DEF DropCaches, storeVars, zfsVars
  <2> QED
    BY <1>0, <1>12, <1>d, <2>1 DEF PCs, Ahead, Goto, Starting
<1>13. CASE pc[a] = "destroy"
  <2>0. Fresh(a) \/ job[a].op = "delete"
    BY <1>0, <1>13 DEF Fits, Starting, Job, Ops, NoJob, Fresh
  <2>1. CASE Fresh(a)
    <3>1. /\ UNCHANGED <<inst, job>> /\ Goto(a, "rollback")
          /\ zsnaps' = zsnaps \/ zsnaps' = [zsnaps EXCEPT ![n] = <<>>]
      BY <1>0, <1>13, <2>1, TurnAt DEF Destroy, storeVars, zfsVars, Fresh
    <3>2. GoesOnAt
      BY <1>0, <1>1, <1>b, <2>1, <3>1 DEF DataStage, PCs
    <3> QED
      BY <3>2
  <2>2. CASE ~Fresh(a)
    <3>0. zsnaps[n] = inst[n].snaps /\ n \in datasets
      BY <1>1, <1>13, <2>2 DEF DataStage, Ahead
    <3>1. /\ UNCHANGED <<known, inst>>
          /\ \/ Return(a) /\ UNCHANGED <<zsnaps, datasets>>
             \/ /\ UNCHANGED job /\ Goto(a, "forget")
                /\ zsnaps' = [zsnaps EXCEPT ![n] = <<>>]
      BY <1>0, <1>1, <1>13, <2>2, <3>0, TurnAt
      DEF Destroy, CmdKilled, CmdWorks, storeVars, zfsVars, Fresh
    <3>2. CASE Return(a) /\ UNCHANGED <<zsnaps, datasets>>
      <4>1. Rests
        BY <1>1, <1>a, <3>0, <3>1, <3>2 DEF DataRest
      <4> QED
        BY <4>1
    <3>3. CASE UNCHANGED job /\ Goto(a, "forget") /\ zsnaps' = [zsnaps EXCEPT ![n] = <<>>]
      <4>1. GoesOnAt
        BY <1>0, <1>1, <1>13, <1>b, <2>2, <3>0, <3>1, <3>3 DEF DataStage, PCs, Starting
      <4> QED
        BY <4>1
    <3> QED
      BY <3>1, <3>2, <3>3
  <2> QED
    BY <2>1, <2>2
<1>14. CASE pc[a] = "commit"
  <2>1. /\ Return(a) /\ UNCHANGED <<known, zsnaps, datasets>>
        /\ inst' = [inst EXCEPT ![n] = Committed(@, job[a])]
    BY <1>0, <1>1, <1>14, TurnAt DEF Commit, Fails, hostVars, zfsVars
  <2>2. inst'[n] = Committed(inst[n], job[a])
    BY <1>0, <2>1
  <2>3. n \in datasets /\ zsnaps[n] = Committed(inst[n], job[a]).snaps
    <3>1. CASE Fresh(a)
      BY <1>1, <1>14, <1>c, <3>1 DEF DataStage, Fresh
    <3>2. CASE ~Fresh(a)
      BY <1>1, <1>14, <3>2 DEF DataStage, Ahead, Starting
    <3> QED
      BY <3>1, <3>2
  <2>4. Rests
    BY <1>1, <1>a, <2>1, <2>2, <2>3, CommittedParts DEF DataRest
  <2> QED
    BY <2>4
<1>15. CASE pc[a] \in {"rollback", "forget"}
  <2>1. Return(a) /\ UNCHANGED zsnaps /\ known' = known \ {n}
    BY <1>0, <1>15, TurnAt DEF Rollback, Forget, DropEntry, Fails, hostVars, zfsVars
  <2>2. zsnaps[n] = <<>>
    BY <1>0, <1>1, <1>15 DEF DataStage, Fits, Starting, Job, Ops, NoJob, Fresh
  <2>3. Rests
    BY <1>a, <2>1, <2>2 DEF DataRest
  <2> QED
    BY <2>3
<1> QED
  BY <1>0, <1>2, <1>3, <1>4, <1>5, <1>6, <1>7, <1>8, <1>9, <1>10, <1>11, <1>12, <1>13, <1>14, <1>15
  DEF PCs, Busy

LEMMA DataStep ==
  ASSUME IInv, AloneInv, NetInv, DataInv, Exclusive, MaxCrashes = 0, [Next]_vars,
         Faults \cap {"netns", "unit", "wait", "stop", "cancel", "death", "save"} = {}
  PROVE  DataInv'
<1>1. ASSUME NEW a \in Requests, NEW n \in Names, Alone(a, n),
             \/ Busy(a)' /\ job'[a].name = n /\ DataStage(a, n)'
             \/ ~Busy(a)' /\ DataRest(n)'
      PROVE  /\ \A b \in Requests : Busy(b)' => DataStage(b, job[b].name)'
             /\ \A m \in Names : Resting(m)' => DataRest(m)'
  <2>1. ASSUME NEW b \in Requests, Busy(b)', b # a
        PROVE  DataStage(b, job[b].name)'
    <3>1. PICK m \in Names : /\ m = job[b].name /\ m # n /\ Busy(b)
                             /\ pc'[b] = pc[b] /\ job'[b] = job[b]
      BY <1>1, <2>1 DEF Alone
    <3>2. SameEntry(m) /\ SameHost(m) /\ DataStage(b, m)
      BY <1>1, <3>1 DEF Alone, DataInv
    <3>3. DataStage(b, m)'
      BY <3>1, <3>2 DEF DataStage, Ahead, Fresh, SameEntry, SameHost
    <3> QED
      BY <3>1, <3>3
  <2>2. ASSUME NEW m \in Names, Resting(m)', m # n
        PROVE  DataRest(m)'
    BY <1>1, <2>2 DEF Alone, DataInv, DataRest, SameEntry, SameHost
  <2>3. Resting(n)' => DataRest(n)'
    BY <1>1 DEF Resting, Actors
  <2> QED
    BY <1>1, <2>1, <2>2, <2>3
<1>2. ASSUME NEW a \in Requests, NEW n \in Names, Turn(a), n = job[a].name, Alone(a, n)
      PROVE  /\ \A b \in Requests : Busy(b)' => DataStage(b, job[b].name)'
             /\ \A m \in Names : Resting(m)' => DataRest(m)'
  BY <1>1, <1>2, TurnKeepsData
<1>3. ASSUME NEW a \in Requests, NEW n \in Names, Submitted(a), n = job'[a].name, Resting(n), Alone(a, n)
      PROVE  /\ \A b \in Requests : Busy(b)' => DataStage(b, job[b].name)'
             /\ \A m \in Names : Resting(m)' => DataRest(m)'
  <2>1. Busy(a)' /\ job'[a].name = n /\ UNCHANGED hostVars /\ pc'[a] # "unit" /\ DataRest(n)
    <3>1. Busy(a)' /\ job'[a].name = n /\ UNCHANGED hostVars /\ pc'[a] # "unit"
      BY <1>3 DEF Submitted, Busy
    <3> QED
      BY <1>3, <3>1 DEF DataInv
  <2>2. DataStage(a, n)'
    <3>1. CASE /\ n \notin known /\ pc'[a] \in {"validate", "dataset"}
               /\ job'[a].op \in {"create", "clone"} /\ \E i \in 0 .. MaxSubnetIndex : Reserve(n, i)
      <4>1. inst'[n].snaps = <<>>
        BY <3>1 DEF Reserve, IInv, TypeOK, StoreTypeOK
      <4>2. zsnaps'[n] = <<>>
        BY <2>1, <3>1 DEF DataRest, hostVars, zfsVars
      <4> QED
        BY <3>1, <4>1, <4>2 DEF DataStage, Fresh
    <3>2. CASE /\ n \in known /\ UNCHANGED storeVars /\ pc'[a] \in {"probe", "unforward"}
               /\ job'[a].op \in {"delete", "start", "stop", "snapshot", "revert"} /\ ~job'[a].failed
      <4>1. ~Fresh(a)' /\ ~Ahead(a)'
        BY <3>2 DEF Fresh, Ahead
      <4> QED
        BY <2>1, <3>2, <4>1 DEF DataStage, DataRest, hostVars, zfsVars, storeVars
    <3> QED
      BY <1>3, <3>1, <3>2 DEF Submitted
  <2> QED
    BY <1>1, <1>3, <2>1, <2>2
<1>4. ASSUME Idles
      PROVE  /\ \A b \in Requests : Busy(b)' => DataStage(b, job[b].name)'
             /\ \A m \in Names : Resting(m)' => DataRest(m)'
  <2>1. ASSUME NEW b \in Requests, Busy(b)'
        PROVE  DataStage(b, job[b].name)'
    <3>1. PICK m \in Names : m = job[b].name /\ Busy(b) /\ pc'[b] = pc[b] /\ job'[b] = job[b]
      BY <1>4, <2>1 DEF Idles
    <3>2. SameEntry(m) /\ SameHost(m) /\ DataStage(b, m)
      BY <1>4, <3>1 DEF Idles, DataInv
    <3>3. DataStage(b, m)'
      BY <3>1, <3>2 DEF DataStage, Ahead, Fresh, SameEntry, SameHost
    <3> QED
      BY <3>1, <3>3
  <2>2. ASSUME NEW m \in Names, Resting(m)'
        PROVE  DataRest(m)'
    BY <1>4, <2>2 DEF Idles, DataInv, DataRest, SameEntry, SameHost
  <2> QED
    BY <2>1, <2>2
<1> QED
  BY <1>2, <1>3, <1>4, OneInstance DEF DataInv, NetInv

LEMMA DataInvariance ==
  ASSUME Exclusive, MaxCrashes = 0,
         Faults \cap {"netns", "unit", "wait", "stop", "cancel", "death", "save"} = {}
  PROVE  Spec => [](IInv /\ AloneInv /\ NetInv /\ DataInv)
<1>1. Init => DataInv
  BY QuietInit DEF Init, DataInv, DataRest, Actors
<1>2. IInv /\ AloneInv /\ NetInv /\ DataInv /\ [Next]_vars => DataInv'
  BY DataStep
<1>3. Spec => [](IInv /\ AloneInv /\ NetInv)
  BY NetInvariance
<1> QED
  BY <1>1, <1>2, <1>3, PTL DEF Spec

\* At rest the labels in the state file are the snapshots ZFS has, in order:
\* Snapshot, Revert, Clone and Delete change both lists alike or neither, for
\* any number of instances and concurrent requests, if a ZFS command, a
\* plugin's hook or the drop of the page cache fails.
THEOREM SnapshotListsAgree ==
  ASSUME Exclusive, MaxCrashes = 0,
         Faults \cap {"netns", "unit", "wait", "stop", "cancel", "death", "save"} = {}
  PROVE  Spec => []SnapshotsAgree
<1>1. IInv /\ AloneInv /\ DataInv => SnapshotsAgree
  BY AtRest DEF SnapshotsAgree, DataInv, DataRest
<1> QED
  BY <1>1, DataInvariance, PTL

-----------------------------------------------------------------------------
(* What is down can be started *)

\* An instance at rest with its dockerd down has no namespace.
RestartRest(n) == n \notin unit => netns[n] = None

\* So it is at every step of a request, except between the two commands that
\* set the namespace up and start dockerd in it.
RestartStage(a, n) ==
    IF pc[a] = "unit" THEN netns[n] # None ELSE n \notin unit => netns[n] = None

RestartInv ==
    /\ Quiet
    /\ \A a \in Requests : Busy(a) => RestartStage(a, job[a].name)
    /\ \A n \in Names : Resting(n) => RestartRest(n)

\* After its turn a goroutine has the instance it had, or none.
LEMMA GoesOrEnds ==
  ASSUME IInv, AloneInv, NEW a \in Actors, Turn(a)
  PROVE  \/ Busy(a)' /\ job'[a].name = job[a].name
         \/ ~Busy(a)' /\ pc'[a] \in {"idle", "pick"}
<1>1. pc \in [Actors -> PCs] /\ job \in [Actors -> Job] /\ job[a] \in Job
  BY DEF IInv, TypeOK, MemoryTypeOK
<1>2. Continues(a) \/ Ends(a)
  BY StartStepsShape, RequestStepShape DEF AloneInv, Turn
<1>3. CASE Continues(a)
  BY <1>1, <1>3 DEF Continues, Busy, Job
<1>4. CASE Ends(a)
  BY <1>1, <1>4 DEF Ends, Busy
<1> QED
  BY <1>2, <1>3, <1>4

LEMMA TurnKeepsRestart ==
  ASSUME IInv, AloneInv, RestartInv, NEW a \in Requests, Turn(a), NEW n \in Names, n = job[a].name,
         Faults \cap {"unit", "wait"} = {}
  PROVE  \/ Busy(a)' /\ job'[a].name = n /\ RestartStage(a, n)'
         \/ ~Busy(a)' /\ RestartRest(n)'
<1>1. /\ a \in Actors /\ pc \in [Actors -> PCs] /\ netns \in [Names -> Nat \cup {None}]
      /\ job[a].idx # None /\ Fits(pc[a], job[a]) /\ cancelled = {} /\ RestartStage(a, n)
  <2>1. a \in Actors /\ Busy(a) /\ Fits(pc[a], job[a]) /\ job[a].idx \in Nat
    BY TurnTaken, AtWork, FitNow DEF Actors, AloneInv, Job
  <2> QED
    BY <2>1, NoneAssumption DEF RestartInv, Quiet, IInv, TypeOK, MemoryTypeOK, HostTypeOK
<1>2. \/ Busy(a)' /\ job'[a].name = n
      \/ ~Busy(a)' /\ pc'[a] # "unit"
  BY <1>1, GoesOrEnds
<1>3. CASE pc[a] = "netns"
  <2>1. /\ UNCHANGED unit
        /\ \/ netns' = [netns EXCEPT ![n] = job[a].idx] /\ Goto(a, "unit")
           \/ UNCHANGED netns /\ StartFailed(a)
    BY <1>1, <1>3, TurnAt DEF SetupNetns
  <2>2. CASE netns' = [netns EXCEPT ![n] = job[a].idx] /\ Goto(a, "unit")
    BY <1>1, <1>2, <2>2 DEF RestartStage, Goto
  <2>3. CASE UNCHANGED netns /\ StartFailed(a)
    BY <1>1, <1>2, <1>3, <2>1, <2>3, StartFailedGoes DEF RestartStage, RestartRest
  <2> QED
    BY <2>1, <2>2, <2>3
<1>4. CASE pc[a] = "unit"
  <2>1. n \in unit'
    BY <1>1, <1>4, TurnAt DEF StartUnit, CmdFails, CmdKilled, Fails, RestartStage
  <2>2. pc'[a] # "unit"
    BY <1>1, <1>4, TurnAt, StartFailedGoes DEF StartUnit, Goto
  <2> QED
    BY <1>2, <2>1, <2>2 DEF RestartStage, RestartRest
<1>5. CASE pc[a] = "stop"
  <2>1. netns'[n] = None /\ pc'[a] # "unit"
    BY <1>1, <1>5, TurnAt DEF StopDockerd, Goto
  <2> QED
    BY <1>2, <2>1 DEF RestartStage, RestartRest
<1>6. CASE pc[a] \notin {"netns", "unit", "stop"}
  <2>1. UNCHANGED <<unit, netns>> /\ pc'[a] # "unit"
    <3>1. CASE pc[a] = "wait"
      BY <1>1, <3>1, TurnAt, StartFailedGoes DEF WaitForSocket, CmdFails, Fails, Goto
    <3>2. CASE pc[a] \in {"scan", "validate", "deploy", "dataset", "unforward", "probe"}
      BY <1>1, <3>2, TurnAt
      DEF Scan, Validate, Deploy, MakeDataset, Unforward, ProbeUnit, Goto, Return, hostVars
    <3>3. CASE pc[a] \in {"zfs", "drop", "destroy"}
      BY <1>1, <3>3, TurnAt DEF ZfsOp, DropCaches, Destroy, Goto, Return
    <3>4. CASE pc[a] \in {"commit", "rollback", "forget"}
      BY <1>1, <3>4, TurnAt DEF Commit, Rollback, Forget, DropEntry, Goto, Return, hostVars
    <3> QED
      BY <1>6, <3>1, <3>2, <3>3, <3>4, TurnTaken, AtWork, <1>1 DEF PCs, Busy
  <2> QED
    BY <1>1, <1>2, <1>6, <2>1 DEF RestartStage, RestartRest
<1> QED
  BY <1>3, <1>4, <1>5, <1>6

LEMMA RestartStep ==
  ASSUME IInv, AloneInv, RestartInv, Exclusive, MaxCrashes = 0, [Next]_vars,
         Faults \cap {"unit", "wait", "cancel", "death"} = {}
  PROVE  RestartInv'
<1>1. ASSUME NEW a \in Requests, NEW n \in Names, Alone(a, n),
             \/ Busy(a)' /\ job'[a].name = n /\ RestartStage(a, n)'
             \/ ~Busy(a)' /\ RestartRest(n)'
      PROVE  /\ \A b \in Requests : Busy(b)' => RestartStage(b, job[b].name)'
             /\ \A m \in Names : Resting(m)' => RestartRest(m)'
  <2>1. ASSUME NEW b \in Requests, Busy(b)', b # a
        PROVE  RestartStage(b, job[b].name)'
    <3>1. PICK m \in Names : /\ m = job[b].name /\ m # n /\ Busy(b)
                             /\ pc'[b] = pc[b] /\ job'[b] = job[b]
      BY <1>1, <2>1 DEF Alone
    <3>2. SameEntry(m) /\ SameHost(m) /\ RestartStage(b, m)
      BY <1>1, <3>1 DEF Alone, RestartInv
    <3>3. RestartStage(b, m)'
      BY <3>1, <3>2 DEF RestartStage, Fresh, SameEntry, SameHost
    <3> QED
      BY <3>1, <3>3
  <2>2. ASSUME NEW m \in Names, Resting(m)', m # n
        PROVE  RestartRest(m)'
    BY <1>1, <2>2 DEF Alone, RestartInv, RestartRest, SameEntry, SameHost
  <2>3. Resting(n)' => RestartRest(n)'
    BY <1>1 DEF Resting, Actors
  <2> QED
    BY <1>1, <2>1, <2>2, <2>3
<1>2. ASSUME NEW a \in Requests, NEW n \in Names, Turn(a), n = job[a].name, Alone(a, n)
      PROVE  /\ \A b \in Requests : Busy(b)' => RestartStage(b, job[b].name)'
             /\ \A m \in Names : Resting(m)' => RestartRest(m)'
  BY <1>1, <1>2, TurnKeepsRestart
<1>3. ASSUME NEW a \in Requests, NEW n \in Names, Submitted(a), n = job'[a].name, Resting(n), Alone(a, n)
      PROVE  /\ \A b \in Requests : Busy(b)' => RestartStage(b, job[b].name)'
             /\ \A m \in Names : Resting(m)' => RestartRest(m)'
  <2>1. Busy(a)' /\ job'[a].name = n /\ UNCHANGED hostVars /\ pc'[a] # "unit" /\ RestartRest(n)
    <3>1. Busy(a)' /\ job'[a].name = n /\ UNCHANGED hostVars /\ pc'[a] # "unit"
      BY <1>3 DEF Submitted, Busy
    <3> QED
      BY <1>3, <3>1 DEF RestartInv
  <2>2. RestartStage(a, n)'
    BY <2>1 DEF RestartRest, RestartStage, hostVars
  <2> QED
    BY <1>1, <1>3, <2>1, <2>2
<1>4. ASSUME Idles
      PROVE  /\ \A b \in Requests : Busy(b)' => RestartStage(b, job[b].name)'
             /\ \A m \in Names : Resting(m)' => RestartRest(m)'
  <2>1. ASSUME NEW b \in Requests, Busy(b)'
        PROVE  RestartStage(b, job[b].name)'
    <3>1. PICK m \in Names : m = job[b].name /\ Busy(b) /\ pc'[b] = pc[b] /\ job'[b] = job[b]
      BY <1>4, <2>1 DEF Idles
    <3>2. SameEntry(m) /\ SameHost(m) /\ RestartStage(b, m)
      BY <1>4, <3>1 DEF Idles, RestartInv
    <3>3. RestartStage(b, m)'
      BY <3>1, <3>2 DEF RestartStage, Fresh, SameEntry, SameHost
    <3> QED
      BY <3>1, <3>3
  <2>2. ASSUME NEW m \in Names, Resting(m)'
        PROVE  RestartRest(m)'
    BY <1>4, <2>2 DEF Idles, RestartInv, RestartRest, SameEntry, SameHost
  <2> QED
    BY <2>1, <2>2
<1> QED
  BY <1>2, <1>3, <1>4, OneInstance DEF RestartInv


\* An instance at rest with its dockerd down has no namespace left, which
\* "ip netns add" would refuse to set up again: the namespace and dockerd come
\* and go together (dockerd.Start and Stop), whatever fails of ZFS, the plugins,
\* the state file, "ip netns" or the kill of dockerd.
THEOREM DownMeansRestartable ==
  ASSUME Exclusive, MaxCrashes = 0, Faults \cap {"unit", "wait", "cancel", "death"} = {}
  PROVE  Spec => []Restartable
<1>1. Init => RestartInv
  BY QuietInit DEF Init, RestartInv, RestartRest, Actors
<1>2. IInv /\ AloneInv /\ RestartInv /\ [Next]_vars => RestartInv'
  BY RestartStep
<1>3. IInv /\ AloneInv /\ RestartInv => Restartable
  BY AtRest DEF Restartable, RestartInv, RestartRest
<1>4. Spec => [](IInv /\ AloneInv)
  BY AloneInvariance
<1> QED
  BY <1>1, <1>2, <1>3, <1>4, PTL DEF Spec

-----------------------------------------------------------------------------
(* Requests leave the state file and the host in agreement *)

\* An instance at rest is past its placeholder, has its dataset, and a dockerd
\* only in the namespace of its own subnet.
SteadyRest(n) ==
    /\ n \in unit => n \in known /\ netns[n] = inst[n].idx
    /\ n \in known => inst[n].status # "error" /\ n \in datasets

\* How far the instance n of goroutine a is from that.
SteadyStage(a, n) ==
    /\ n \in unit \/ pc[a] = "unit" => netns[n] = inst[n].idx
    /\ pc[a] \in {"validate", "dataset", "netns", "unit", "zfs", "drop", "destroy",
                  "rollback", "forget"} => n \notin unit
    /\ IF Fresh(a)
       THEN pc[a] \notin {"validate", "dataset", "destroy", "rollback"} => n \in datasets
       ELSE inst[n].status # "error" /\ (pc[a] # "forget" => n \in datasets)

SteadyInv ==
    /\ Quiet
    /\ \A a \in Requests : Busy(a) => SteadyStage(a, job[a].name)
    /\ \A n \in Names : Resting(n) => SteadyRest(n)

LEMMA TurnKeepsSteady ==
  ASSUME IInv, AloneInv, SteadyInv, NEW a \in Requests, Turn(a), NEW n \in Names, n = job[a].name,
         Faults \cap {"stop", "save"} = {}
  PROVE  \/ Busy(a)' /\ job'[a].name = n /\ SteadyStage(a, n)'
         \/ ~Busy(a)' /\ SteadyRest(n)'
<1>1. /\ a \in Actors /\ pc \in [Actors -> PCs] /\ job \in [Actors -> Job] /\ job[a] \in Job
      /\ pc[a] \in PCs /\ netns \in [Names -> Nat \cup {None}] /\ inst \in [Names -> Entry]
      /\ Fits(pc[a], job[a]) /\ Busy(a) /\ job[a].op # "reconcile"
      /\ cancelled = {} /\ SteadyStage(a, n) /\ n \in known
      /\ inst[n].idx \in Nat /\ inst[n].idx # None /\ job[a].idx = inst[n].idx
  <2>1. /\ a \in Actors /\ pc \in [Actors -> PCs] /\ job \in [Actors -> Job] /\ job[a] \in Job
        /\ pc[a] \in PCs /\ netns \in [Names -> Nat \cup {None}] /\ inst \in [Names -> Entry]
        /\ Fits(pc[a], job[a]) /\ Busy(a)
    BY TurnTaken, AtWork, FitNow
    DEF Actors, AloneInv, IInv, TypeOK, MemoryTypeOK, HostTypeOK, StoreTypeOK
  <2>2. inst[n].idx \in Nat
    BY <2>1 DEF Entry
  <2>3. job[a].op # "reconcile"
    BY <2>1, FitNow, ActorsAssumption DEF AloneInv, Whose
  <2> QED
    BY <2>1, <2>2, <2>3, NoneAssumption DEF SteadyInv, Quiet, AloneInv, Held
<1> DEFINE Rests == ~Busy(a)' /\ SteadyRest(n)'
           GoesOnAt == Busy(a)' /\ job'[a].name = n /\ SteadyStage(a, n)'
<1>a. ASSUME Return(a)
      PROVE  ~Busy(a)'
  BY <1>1, <1>a DEF Return, Goto, Busy
<1>b. ASSUME NEW p \in PCs, Goto(a, p), p \notin {"idle", "load", "pick"},
             UNCHANGED job \/ job' = [job EXCEPT ![a].failed = TRUE]
      PROVE  Busy(a)' /\ pc'[a] = p /\ job'[a].name = n /\ job'[a].op = job[a].op
  BY <1>1, <1>b DEF Goto, Busy, Job
\* A request that ends early leaves an instance that is not new as it was.
<1>c. ASSUME ~Fresh(a), ~Busy(a)', UNCHANGED <<known, inst, datasets>>, pc[a] # "forget",
             n \in unit' => netns'[n] = inst[n].idx
      PROVE  Rests
  <2>1. n \in datasets /\ inst[n].status # "error"
    BY <1>1, <1>c DEF SteadyStage
  <2> QED
    BY <1>1, <1>c, <2>1 DEF SteadyRest
<1>d. ASSUME StartFailed(a), UNCHANGED <<known, inst, datasets>>, n \notin unit',
             pc[a] \in {"netns", "unit", "wait"}
      PROVE  Rests \/ GoesOnAt
  <2>2. CASE Fresh(a) /\ pc'[a] = "destroy" /\ UNCHANGED job
    <3>1. GoesOnAt
      BY <1>1, <1>d, <2>2 DEF SteadyStage, Busy, Fresh
    <3> QED
      BY <3>1
  <2>3. CASE ~Fresh(a) /\ pc'[a] \in {"idle", "pick"} /\ job'[a] = NoJob
    BY <1>c, <1>d, <2>3 DEF Busy
  <2> QED
    BY <1>1, <1>d, <2>2, <2>3, StartFailedGoes
<1>2. CASE pc[a] \in {"validate", "deploy"}
  <2>1. UNCHANGED <<inst, datasets, unit, netns, job>> /\ Fresh(a)
    BY <1>1, <1>2, TurnAt
    DEF Validate, Deploy, hostVars, zfsVars, storeVars, Fits, Starting, Job, Ops, NoJob, Fresh
  <2>2. \/ pc[a] = "validate" /\ \E p \in {"dataset", "rollback"} : Goto(a, p)
        \/ pc[a] = "deploy" /\ \E p \in {"commit", "stop"} : Goto(a, p)
    BY <1>1, <1>2, TurnAt DEF Validate, Deploy
  <2>3. GoesOnAt
    BY <1>1, <1>b, <2>1, <2>2 DEF SteadyStage, PCs, Fresh
  <2> QED
    BY <2>3
<1>3. CASE pc[a] = "dataset"
  <2>1. /\ UNCHANGED <<inst, unit, netns, job>> /\ Fresh(a)
        /\ \/ Goto(a, "netns") /\ n \in datasets'
           \/ Goto(a, "rollback")
    BY <1>1, <1>3, TurnAt DEF MakeDataset, CmdKilled, storeVars, Fits, Starting, Job, Ops, NoJob, Fresh
  <2>2. GoesOnAt
    BY <1>1, <1>3, <1>b, <2>1 DEF SteadyStage, PCs, Fresh
  <2> QED
    BY <2>2
<1>4. CASE pc[a] = "netns"
  <2>1. /\ UNCHANGED <<known, inst, datasets, unit>>
        /\ \/ netns' = [netns EXCEPT ![n] = inst[n].idx] /\ Goto(a, "unit") /\ UNCHANGED job
           \/ StartFailed(a)
    BY <1>1, <1>4, TurnAt DEF SetupNetns, storeVars, zfsVars
  <2>2. CASE netns' = [netns EXCEPT ![n] = inst[n].idx] /\ Goto(a, "unit") /\ UNCHANGED job
    <3>1. GoesOnAt
      BY <1>1, <1>4, <1>b, <2>1, <2>2 DEF SteadyStage, PCs, Fresh
    <3> QED
      BY <3>1
  <2> QED
    BY <1>1, <1>4, <1>d, <2>1, <2>2 DEF SteadyStage
<1>5. CASE pc[a] = "unit"
  <2>1. /\ UNCHANGED <<known, inst, datasets, netns>>
        /\ \/ unit' = unit \cup {n} /\ Goto(a, "wait") /\ UNCHANGED job
           \/ UNCHANGED unit /\ StartFailed(a)
    BY <1>1, <1>5, TurnAt DEF StartUnit, CmdKilled, SteadyStage, storeVars, zfsVars
  <2>2. CASE unit' = unit \cup {n} /\ Goto(a, "wait") /\ UNCHANGED job
    <3>1. GoesOnAt
      BY <1>1, <1>5, <1>b, <2>1, <2>2 DEF SteadyStage, PCs, Fresh
    <3> QED
      BY <3>1
  <2> QED
    BY <1>1, <1>5, <1>d, <2>1, <2>2 DEF SteadyStage
<1>6. CASE pc[a] = "wait"
  <2>1. /\ UNCHANGED <<known, inst, datasets, netns>>
        /\ \/ UNCHANGED <<unit, job>> /\ \E p \in {"deploy", "scan"} : Goto(a, p)
           \/ n \notin unit' /\ StartFailed(a)
    BY <1>1, <1>6, TurnAt DEF WaitForSocket, storeVars, zfsVars
  <2>2. CASE UNCHANGED <<unit, job>> /\ \E p \in {"deploy", "scan"} : Goto(a, p)
    <3>1. GoesOnAt
      BY <1>1, <1>6, <1>b, <2>1, <2>2 DEF SteadyStage, PCs, Fresh
    <3> QED
      BY <3>1
  <2> QED
    BY <1>6, <1>d, <2>1, <2>2
<1>7. CASE pc[a] = "scan"
  <2>1. /\ UNCHANGED <<known, inst, datasets, netns, unit>>
        /\ (Return(a) /\ job[a].failed) \/ (Goto(a, "commit") /\ UNCHANGED job)
    BY <1>1, <1>7, TurnAt DEF Scan, storeVars, hostVars, zfsVars
  <2>2. CASE Return(a) /\ job[a].failed
    <3>1. ~Fresh(a)
      BY <1>1, <2>2 DEF Fits, Fresh
    <3> QED
      BY <1>1, <1>7, <1>a, <1>c, <2>1, <2>2, <3>1 DEF SteadyStage
  <2>3. CASE Goto(a, "commit") /\ UNCHANGED job
    <3>1. GoesOnAt
      BY <1>1, <1>7, <1>b, <2>1, <2>3 DEF SteadyStage, PCs, Fresh
    <3> QED
      BY <3>1
  <2> QED
    BY <2>1, <2>2, <2>3
<1>8. CASE pc[a] = "unforward"
  <2>1. /\ UNCHANGED <<inst, datasets, netns, unit, job>>
        /\ \E p \in {"probe", "stop"} : Goto(a, p)
    BY <1>1, <1>8, TurnAt DEF Unforward, storeVars, hostVars, zfsVars
  <2>2. GoesOnAt
    BY <1>1, <1>8, <1>b, <2>1 DEF SteadyStage, PCs, Fresh, Fits, Starting
  <2> QED
    BY <2>2
<1>9. CASE pc[a] = "probe"
  <2>0. job[a].op \in {"delete", "start", "stop"} /\ ~Fresh(a)
    BY <1>1, <1>9 DEF Fits, Starting, Job, Ops, NoJob, Fresh
  <2>1. /\ UNCHANGED <<known, inst, datasets, netns, unit>>
        /\ \/ Return(a)
           \/ /\ UNCHANGED job
              /\ \/ Goto(a, "netns") /\ n \notin unit
                 \/ Goto(a, "unforward")
                 \/ Goto(a, "stop") /\ job[a].op = "delete"
                 \/ Goto(a, "destroy") /\ n \notin unit
    BY <1>1, <1>9, <2>0, TurnAt DEF ProbeUnit, storeVars, hostVars, zfsVars
  <2>2. CASE Return(a)
    BY <1>1, <1>9, <1>a, <1>c, <2>0, <2>1, <2>2 DEF SteadyStage
  <2>3. ASSUME NEW p \in {"netns", "unforward", "stop", "destroy"}, Goto(a, p), UNCHANGED job,
               p \in {"netns", "destroy"} => n \notin unit, p = "stop" => job[a].op = "delete"
        PROVE  GoesOnAt
    BY <1>1, <1>9, <1>b, <2>0, <2>1, <2>3 DEF SteadyStage, PCs, Fresh
  <2> QED
    BY <2>1, <2>2, <2>3
<1>10. CASE pc[a] = "stop"
  <2>1. /\ UNCHANGED <<inst, datasets, job>> /\ unit' = unit \ {n}
        /\ \E p \in {"destroy", "zfs", "commit"} : Goto(a, p)
        /\ Fresh(a) => Goto(a, "destroy")
    BY <1>1, <1>10, TurnAt DEF StopDockerd, Fails, storeVars, zfsVars, Fresh, Fits, Starting
  <2>2. GoesOnAt
    BY <1>1, <1>10, <1>b, <2>1 DEF SteadyStage, PCs, Fresh
  <2> QED
    BY <2>2
<1>11. CASE pc[a] \in {"zfs", "drop"}
  <2>0. ~Fresh(a)
    BY <1>1, <1>11 DEF Fits, Starting, Fresh
  <2>1. /\ UNCHANGED <<inst, datasets, unit, netns>> /\ \E p \in {"netns", "drop"} : Goto(a, p)
        /\ UNCHANGED job \/ job' = [job EXCEPT ![a].failed = TRUE]
    BY <1>1, <1>11, TurnAt DEF ZfsOp, DropCaches, storeVars, zfsVars
  <2>2. GoesOnAt
    BY <1>1, <1>11, <1>b, <2>0, <2>1 DEF SteadyStage, PCs, Fresh
  <2> QED
    BY <2>2
<1>12. CASE pc[a] = "destroy"
  <2>1. /\ UNCHANGED <<known, inst, unit, netns>>
        /\ \/ Return(a) /\ ~Fresh(a) /\ UNCHANGED datasets
           \/ UNCHANGED job /\ Goto(a, IF Fresh(a) THEN "rollback" ELSE "forget")
    BY <1>1, <1>12, TurnAt DEF Destroy, CmdKilled, CmdWorks, storeVars, zfsVars, Fresh
  <2>2. CASE Return(a) /\ ~Fresh(a) /\ UNCHANGED datasets
    BY <1>1, <1>12, <1>a, <1>c, <2>1, <2>2 DEF SteadyStage
  <2>3. CASE UNCHANGED job /\ Goto(a, IF Fresh(a) THEN "rollback" ELSE "forget")
    <3>1. GoesOnAt
      BY <1>1, <1>12, <1>b, <2>1, <2>3 DEF SteadyStage, PCs, Fresh
    <3> QED
      BY <3>1
  <2> QED
    BY <2>1, <2>2, <2>3
<1>13. CASE pc[a] = "commit"
  <2>1. /\ Return(a) /\ UNCHANGED <<known, datasets, unit, netns>>
        /\ inst' = [inst EXCEPT ![n] = Committed(@, job[a])]
    BY <1>1, <1>13, TurnAt DEF Commit, Fails, hostVars, zfsVars
  <2>2. job[a].op = "snapshot" => job[a].label \in Labels
    BY <1>1 DEF IInv, JobOK
  <2>3. inst'[n].idx = inst[n].idx /\ inst'[n].status # "error"
    <3>1. inst'[n] = Committed(inst[n], job[a]) /\ inst[n] \in Entry
      BY <1>1, <2>1
    <3>2. Committed(inst[n], job[a]).idx = inst[n].idx
      BY <2>2, <3>1, CommittedType
    <3>3. Committed(inst[n], job[a]).status # "error"
      BY <3>1, CommittedParts
    <3> QED
      BY <3>1, <3>2, <3>3
  <2>4. Rests
    BY <1>1, <1>13, <1>a, <2>1, <2>3 DEF SteadyRest, SteadyStage
  <2> QED
    BY <2>4
<1>14. CASE pc[a] \in {"rollback", "forget"}
  <2>1. Return(a) /\ UNCHANGED <<unit, netns>> /\ known' = known \ {n}
    BY <1>1, <1>14, TurnAt DEF Rollback, Forget, DropEntry, Fails, hostVars
  <2>2. Rests
    BY <1>1, <1>14, <1>a, <2>1 DEF SteadyRest, SteadyStage
  <2> QED
    BY <2>2
<1> QED
  BY <1>1, <1>2, <1>3, <1>4, <1>5, <1>6, <1>7, <1>8, <1>9, <1>10, <1>11, <1>12, <1>13, <1>14
  DEF PCs, Busy

LEMMA SteadyStep ==
  ASSUME IInv, AloneInv, SteadyInv, Exclusive, MaxCrashes = 0, [Next]_vars,
         Faults \cap {"stop", "cancel", "death", "save"} = {}
  PROVE  SteadyInv'
<1>1. ASSUME NEW a \in Requests, NEW n \in Names, Alone(a, n),
             \/ Busy(a)' /\ job'[a].name = n /\ SteadyStage(a, n)'
             \/ ~Busy(a)' /\ SteadyRest(n)'
      PROVE  /\ \A b \in Requests : Busy(b)' => SteadyStage(b, job[b].name)'
             /\ \A m \in Names : Resting(m)' => SteadyRest(m)'
  <2>1. ASSUME NEW b \in Requests, Busy(b)', b # a
        PROVE  SteadyStage(b, job[b].name)'
    <3>1. PICK m \in Names : /\ m = job[b].name /\ m # n /\ Busy(b)
                             /\ pc'[b] = pc[b] /\ job'[b] = job[b]
      BY <1>1, <2>1 DEF Alone
    <3>2. SameEntry(m) /\ SameHost(m) /\ SteadyStage(b, m)
      BY <1>1, <3>1 DEF Alone, SteadyInv
    <3>3. SteadyStage(b, m)'
      BY <3>1, <3>2 DEF SteadyStage, Fresh, SameEntry, SameHost
    <3> QED
      BY <3>1, <3>3
  <2>2. ASSUME NEW m \in Names, Resting(m)', m # n
        PROVE  SteadyRest(m)'
    BY <1>1, <2>2 DEF Alone, SteadyInv, SteadyRest, SameEntry, SameHost
  <2>3. Resting(n)' => SteadyRest(n)'
    BY <1>1 DEF Resting, Actors
  <2> QED
    BY <1>1, <2>1, <2>2, <2>3
<1>2. ASSUME NEW a \in Requests, NEW n \in Names, Turn(a), n = job[a].name, Alone(a, n)
      PROVE  /\ \A b \in Requests : Busy(b)' => SteadyStage(b, job[b].name)'
             /\ \A m \in Names : Resting(m)' => SteadyRest(m)'
  BY <1>1, <1>2, TurnKeepsSteady
<1>3. ASSUME NEW a \in Requests, NEW n \in Names, Submitted(a), n = job'[a].name, Resting(n), Alone(a, n)
      PROVE  /\ \A b \in Requests : Busy(b)' => SteadyStage(b, job[b].name)'
             /\ \A m \in Names : Resting(m)' => SteadyRest(m)'
  <2>1. Busy(a)' /\ job'[a].name = n /\ UNCHANGED hostVars /\ pc'[a] # "unit" /\ SteadyRest(n)
    <3>1. Busy(a)' /\ job'[a].name = n /\ UNCHANGED hostVars /\ pc'[a] # "unit"
      BY <1>3 DEF Submitted, Busy
    <3> QED
      BY <1>3, <3>1 DEF SteadyInv
  <2>2. SteadyStage(a, n)'
    <3>1. CASE n \notin known /\ pc'[a] \in {"validate", "dataset"} /\ job'[a].op \in {"create", "clone"}
      BY <2>1, <3>1 DEF SteadyRest, SteadyStage, Fresh, hostVars
    <3>2. CASE /\ n \in known /\ UNCHANGED storeVars
               /\ job'[a].op \in {"delete", "start", "stop", "snapshot", "revert"}
               /\ pc'[a] = IF job'[a].op \in {"start", "stop"} THEN "probe" ELSE "unforward"
      BY <2>1, <3>2 DEF SteadyRest, SteadyStage, Fresh, hostVars, zfsVars, storeVars
    <3> QED
      BY <1>3, <3>1, <3>2 DEF Submitted
  <2> QED
    BY <1>1, <1>3, <2>1, <2>2
<1>4. ASSUME Idles
      PROVE  /\ \A b \in Requests : Busy(b)' => SteadyStage(b, job[b].name)'
             /\ \A m \in Names : Resting(m)' => SteadyRest(m)'
  <2>1. ASSUME NEW b \in Requests, Busy(b)'
        PROVE  SteadyStage(b, job[b].name)'
    <3>1. PICK m \in Names : m = job[b].name /\ Busy(b) /\ pc'[b] = pc[b] /\ job'[b] = job[b]
      BY <1>4, <2>1 DEF Idles
    <3>2. SameEntry(m) /\ SameHost(m) /\ SteadyStage(b, m)
      BY <1>4, <3>1 DEF Idles, SteadyInv
    <3>3. SteadyStage(b, m)'
      BY <3>1, <3>2 DEF SteadyStage, Fresh, SameEntry, SameHost
    <3> QED
      BY <3>1, <3>3
  <2>2. ASSUME NEW m \in Names, Resting(m)'
        PROVE  SteadyRest(m)'
    BY <1>4, <2>2 DEF Idles, SteadyInv, SteadyRest, SameEntry, SameHost
  <2> QED
    BY <2>1, <2>2
<1> QED
  BY <1>2, <1>3, <1>4, OneInstance DEF SteadyInv


\* Between requests an instance has its dataset, is past its placeholder
\* status, and its dockerd, if up, runs in the namespace of its own subnet, for
\* any number of instances and concurrent requests: each multi-step request
\* leaves the state file and the host in agreement also when some of its steps
\* failed, be they of ZFS, of the network, of dockerd's start, of a plugin or
\* of the cache drop.  Excluded are a dockerd that cannot be stopped or dies by
\* itself, a state file that cannot be written, and a request whose context ends.
THEOREM RequestsSettle ==
  ASSUME Exclusive, MaxCrashes = 0, Faults \cap {"stop", "cancel", "death", "save"} = {}
  PROVE  Spec => []Settled
<1>1. Init => SteadyInv
  BY QuietInit DEF Init, SteadyInv, SteadyRest, Actors
<1>2. IInv /\ AloneInv /\ SteadyInv /\ [Next]_vars => SteadyInv'
  BY SteadyStep
<1>3. IInv /\ AloneInv /\ SteadyInv => Settled
  BY AtRest DEF Settled, SteadyInv, SteadyRest
<1>4. Spec => [](IInv /\ AloneInv)
  BY AloneInvariance
<1> QED
  BY <1>1, <1>2, <1>3, <1>4, PTL DEF Spec
=============================================================================
