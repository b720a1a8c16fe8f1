-------------------------- MODULE StateStore_proofs --------------------------
(***************************************************************************)
(* The store implements AtomicStore for any number of goroutines and any   *)
(* instances, with crashes and failing system calls anywhere.  The state   *)
(* of the argument is CopyIsCurrent: under the mutex, the goroutine's copy *)
(* differs from the file by its own callback only.                         *)
(***************************************************************************)
EXTENDS StateStore, TLAPS

IInv == TypeOK /\ NeverTorn /\ CopyIsCurrent

-----------------------------------------------------------------------------
(* Types *)

LEMMA AfterType ==
  ASSUME NEW op \in Ops, NEW s \in States
  PROVE  A!After(op, s) \in States
BY DEF Ops, A!Ops, A!After, States

LEMMA NoOpIsNoOp == NoOp \notin Ops
BY DEF NoOp, Ops, A!Ops

LEMMA InitInv == Init => IInv
<1> SUFFICES ASSUME Init PROVE IInv
  OBVIOUS
<1> USE DEF Init, IdleProc, Missing, At
<1>1. TypeOK
  BY DEF TypeOK, Proc, File, States
<1>2. NeverTorn
  BY DEF NeverTorn
<1>3. CopyIsCurrent
  BY NoneAssumption DEF CopyIsCurrent, Loaded
<1> QED
  BY <1>1, <1>2, <1>3 DEF IInv

-----------------------------------------------------------------------------
(* One step *)

ProcsOK ==
    /\ proc \in [Clients -> Proc]
    /\ \A c \in Clients : proc[c].op = NoOp <=> At(c, "idle")

\* The shapes of a step: end the call, or move on, the copy changed or not.
LEMMA FinishType ==
  ASSUME ProcsOK, NEW c \in Clients, ~At(c, "idle"),
         NEW r \in {"ok", "refused", "failed"}, NEW s \in States, Finish(c, r, s)
  PROVE  ProcsOK' /\ mu' = None
<1> DEFINE p == [proc[c] EXCEPT !.at = "return", !.st = s, !.result = r]
<1>1. proc[c] \in Proc /\ proc[c].op # NoOp
  BY DEF ProcsOK, At
<1>2. p \in Proc /\ p.op = proc[c].op /\ p.at = "return"
  BY <1>1 DEF Proc
<1>3. proc' = [proc EXCEPT ![c] = p] /\ mu' = None
  BY DEF Finish, ProcsOK
<1> HIDE DEF p
<1> QED
  BY <1>1, <1>2, <1>3 DEF ProcsOK, At

LEMMA MoveType ==
  ASSUME ProcsOK, NEW c \in Clients, ~At(c, "idle"), NEW s \in States,
         NEW w \in {"load", "apply", "write", "writing", "rename"},
         \/ Goto(c, w)
         \/ proc' = [proc EXCEPT ![c].at = w, ![c].st = s]
  PROVE  ProcsOK'
<1>1. proc[c] \in Proc /\ proc[c].op # NoOp
  BY DEF ProcsOK, At
<1>2. ASSUME NEW p \in Proc, p.op = proc[c].op, p.at = w, proc' = [proc EXCEPT ![c] = p]
      PROVE  ProcsOK'
  BY <1>1, <1>2 DEF ProcsOK, At
<1>3. CASE Goto(c, w)
  <2> DEFINE p == [proc[c] EXCEPT !.at = w]
  <2>1. p \in Proc /\ p.op = proc[c].op /\ p.at = w
    BY <1>1 DEF Proc
  <2>2. proc' = [proc EXCEPT ![c] = p]
    BY <1>3 DEF Goto, ProcsOK
  <2> QED
    BY <1>2, <2>1, <2>2
<1>4. CASE proc' = [proc EXCEPT ![c].at = w, ![c].st = s]
  <2> DEFINE p == [proc[c] EXCEPT !.at = w, !.st = s]
  <2>1. p \in Proc /\ p.op = proc[c].op /\ p.at = w
    BY <1>1 DEF Proc
  <2>2. proc' = [proc EXCEPT ![c] = p]
    BY <1>4 DEF ProcsOK
  <2> QED
    BY <1>2, <2>1, <2>2
<1> QED
  BY <1>3, <1>4

LEMMA StepType == TypeOK /\ [Next]_vars => TypeOK'
<1> SUFFICES ASSUME TypeOK, [Next]_vars PROVE TypeOK'
  OBVIOUS
<1>0. ProcsOK /\ file \in File /\ tmp \in File /\ mu \in Clients \cup {None}
  BY DEF TypeOK, ProcsOK
<1>a. {} \in States /\ file.st \in States
  BY <1>0 DEF States, File
<1>b. ASSUME ProcsOK', file' \in File, tmp' \in File, mu' \in Clients \cup {None}
      PROVE TypeOK'
  BY <1>b DEF TypeOK, ProcsOK
<1>1. CASE UNCHANGED vars
  BY <1>1 DEF vars, TypeOK, At
<1>2. CASE Crash
  <2>1. ProcsOK'
    BY <1>2, <1>a DEF Crash, ProcsOK, IdleProc, Proc, At
  <2> QED
    BY <1>2, <2>1, <1>0, <1>b DEF Crash
<1>3. ASSUME NEW c \in Clients, NEW op \in Ops, Call(c, op) PROVE TypeOK'
  <2>1. ProcsOK'
    BY <1>3, <1>0, <1>a, NoOpIsNoOp DEF Call, ProcsOK, IdleProc, Proc, At
  <2> QED
    BY <1>3, <2>1, <1>0, <1>b DEF Call
<1>4. ASSUME NEW c \in Clients, Lock(c) PROVE TypeOK'
  <2>1. ProcsOK'
    BY <1>4, <1>0, <1>a, MoveType DEF Lock, At
  <2> QED
    BY <1>4, <2>1, <1>0, <1>b DEF Lock
<1>5. ASSUME NEW c \in Clients, Load(c) PROVE TypeOK'
  <2>1. ProcsOK' /\ mu' \in Clients \cup {None}
    BY <1>5, <1>0, <1>a, MoveType, FinishType DEF Load, At
  <2> QED
    BY <1>5, <2>1, <1>0, <1>b DEF Load
<1>6. ASSUME NEW c \in Clients, Apply(c) PROVE TypeOK'
  <2>1. proc[c].op \in Ops /\ proc[c].st \in States
    BY <1>6, <1>0 DEF Apply, ProcsOK, Proc, At
  <2>2. A!After(proc[c].op, proc[c].st) \in States
    BY <2>1, AfterType
  <2>3. ProcsOK' /\ mu' \in Clients \cup {None}
    BY <1>6, <1>0, <2>1, <2>2, MoveType, FinishType DEF Apply, At
  <2> QED
    BY <1>6, <2>3, <1>0, <1>b DEF Apply
<1>7. ASSUME NEW c \in Clients, CreateTemp(c) PROVE TypeOK'
  <2>1. ProcsOK' /\ mu' \in Clients \cup {None}
    BY <1>7, <1>0, <1>a, MoveType, FinishType DEF CreateTemp, At
  <2>2. Torn \in File
    BY <1>a DEF Torn, File
  <2> QED
    BY <1>7, <2>1, <2>2, <1>0, <1>b DEF CreateTemp
<1>8. ASSUME NEW c \in Clients, WriteTemp(c) PROVE TypeOK'
  <2>1. ProcsOK' /\ mu' \in Clients \cup {None}
    BY <1>8, <1>0, <1>a, MoveType, FinishType DEF WriteTemp, At
  <2>2. Whole(proc[c].st) \in File
    BY <1>0 DEF ProcsOK, Proc, Whole, File
  <2> QED
    BY <1>8, <2>1, <2>2, <1>0, <1>b DEF WriteTemp
<1>9. ASSUME NEW c \in Clients, Rename(c) PROVE TypeOK'
  <2>1. ProcsOK' /\ mu' \in Clients \cup {None}
    BY <1>9, <1>0, <1>a, FinishType DEF Rename, At
  <2>2. Missing \in File
    BY <1>a DEF Missing, File
  <2> QED
    BY <1>9, <2>1, <2>2, <1>0, <1>b DEF Rename
<1>10. ASSUME NEW c \in Clients, Return(c) PROVE TypeOK'
  <2>1. ProcsOK'
    BY <1>10, <1>0, <1>a DEF Return, ProcsOK, IdleProc, Proc, At
  <2> QED
    BY <1>10, <2>1, <1>0, <1>b DEF Return
<1> QED
  BY <1>1, <1>2, <1>3, <1>4, <1>5, <1>6, <1>7, <1>8, <1>9, <1>10 DEF Next, Step

\* Once its holder has released the mutex, nobody has a copy.
LEMMA HolderFinishes ==
  ASSUME IInv, NEW c \in Clients, mu = c, NEW r, NEW s, Finish(c, r, s)
  PROVE  CopyIsCurrent'
<1>1. ASSUME NEW d \in Clients \ {c} PROVE proc'[d].at \notin Loaded \cup {"load"}
  BY <1>1 DEF IInv, CopyIsCurrent, Finish, TypeOK
<1>2. proc'[c].at = "return"
  BY DEF IInv, TypeOK, Proc, Finish
<1>3. mu' = None
  BY DEF Finish
<1> QED
  BY <1>1, <1>2, <1>3, NoneAssumption DEF CopyIsCurrent, At, Loaded

\* While the holder goes on, the others have no copy that could go stale.
LEMMA HolderMoves ==
  ASSUME IInv, NEW c \in Clients, mu = c, mu' = mu,
         \A d \in Clients \ {c} : proc'[d] = proc[d],
         proc'[c].at \in Loaded,
         At(c, "apply")' => proc'[c].st = file'.st,
         proc'[c].at # "apply" =>
            A!Allowed(proc'[c].op, file'.st) /\ proc'[c].st = A!After(proc'[c].op, file'.st),
         At(c, "rename")' => tmp' = Whole(proc'[c].st)
  PROVE  CopyIsCurrent'
<1>1. ASSUME NEW d \in Clients \ {c}
      PROVE  proc'[d].at \notin Loaded \cup {"load"} /\ mu' # d
  BY <1>1 DEF IInv, CopyIsCurrent
<1> QED
  BY <1>1 DEF CopyIsCurrent, At, Loaded

LEMMA StepInv == IInv /\ [Next]_vars => (NeverTorn /\ CopyIsCurrent)'
<1> SUFFICES ASSUME IInv, [Next]_vars PROVE NeverTorn' /\ CopyIsCurrent'
  OBVIOUS
<1> USE DEF IInv
<1>0. ProcsOK
  BY DEF TypeOK, ProcsOK
<1>h. \A c \in Clients : proc[c].at \in Loaded \cup {"load"} => mu = c
  BY DEF CopyIsCurrent
<1>1. CASE UNCHANGED vars
  BY <1>1 DEF vars, NeverTorn, CopyIsCurrent, At
<1>2. CASE Crash
  BY <1>2, NoneAssumption DEF Crash, IdleProc, NeverTorn, CopyIsCurrent, At, Loaded
<1>3. ASSUME NEW c \in Clients, NEW op \in Ops, Call(c, op)
      PROVE  NeverTorn' /\ CopyIsCurrent'
  <2>1. /\ \A d \in Clients \ {c} : proc'[d] = proc[d]
        /\ proc[c].at = "idle" /\ proc'[c].at = "lock"
    BY <1>0, <1>3 DEF Call, IdleProc, ProcsOK, At
  <2> QED
    BY <1>3, <2>1 DEF Call, NeverTorn, CopyIsCurrent, At, Loaded
<1>4. ASSUME NEW c \in Clients, Lock(c) PROVE NeverTorn' /\ CopyIsCurrent'
  <2>1. /\ \A d \in Clients \ {c} : proc'[d] = proc[d] /\ mu # d
        /\ proc'[c].at = "load" /\ mu' = c
    BY <1>0, <1>4, NoneAssumption DEF Lock, Goto, ProcsOK, Proc
  <2> QED
    BY <1>4, <2>1 DEF Lock, NeverTorn, CopyIsCurrent, At, Loaded
<1>5. ASSUME NEW c \in Clients, Load(c) PROVE NeverTorn' /\ CopyIsCurrent'
  <2>1. mu = c /\ NeverTorn' /\ UNCHANGED <<file, tmp>>
    BY <1>5, <1>h DEF Load, At, NeverTorn
  <2>2. CASE Finish(c, "failed", {})
    BY <2>1, <2>2, HolderFinishes
  <2>3. CASE proc' = [proc EXCEPT ![c].at = "apply", ![c].st = file.st] /\ UNCHANGED mu
    <3>1. /\ \A d \in Clients \ {c} : proc'[d] = proc[d]
          /\ proc'[c].at = "apply" /\ proc'[c].st = file.st
      BY <1>0, <2>3 DEF ProcsOK, Proc
    <3> QED
      BY <2>1, <2>3, <3>1, HolderMoves DEF At, Loaded
  <2> QED
    BY <1>5, <2>1, <2>2, <2>3 DEF Load
<1>6. ASSUME NEW c \in Clients, Apply(c) PROVE NeverTorn' /\ CopyIsCurrent'
  <2> DEFINE op == proc[c].op
             st == proc[c].st
  <2>1. mu = c /\ st = file.st /\ NeverTorn' /\ UNCHANGED <<file, tmp>>
    BY <1>6, <1>h DEF Apply, At, NeverTorn, CopyIsCurrent, Loaded
  <2>2. CASE ~A!Allowed(op, st) \/ op.kind = "view"
    BY <1>6, <2>1, <2>2, HolderFinishes DEF Apply
  <2>3. CASE A!Allowed(op, st) /\ op.kind # "view"
    <3>1. proc' = [proc EXCEPT ![c].at = "write", ![c].st = A!After(op, st)] /\ UNCHANGED mu
      BY <1>6, <2>3 DEF Apply
    <3>2. /\ \A d \in Clients \ {c} : proc'[d] = proc[d]
          /\ proc'[c].at = "write" /\ proc'[c].op = op /\ proc'[c].st = A!After(op, st)
      BY <1>0, <3>1 DEF ProcsOK, Proc
    <3> QED
      BY <2>1, <2>3, <3>1, <3>2, HolderMoves DEF At, Loaded
  <2> QED
    BY <2>2, <2>3
<1>7. ASSUME NEW c \in Clients, CreateTemp(c) PROVE NeverTorn' /\ CopyIsCurrent'
  <2>1. mu = c /\ NeverTorn' /\ UNCHANGED file
    BY <1>7, <1>h DEF CreateTemp, At, NeverTorn, Loaded
  <2>2. CASE Finish(c, "failed", {})
    BY <2>1, <2>2, HolderFinishes
  <2>3. CASE Goto(c, "writing") /\ UNCHANGED mu
    <3>1. /\ \A d \in Clients \ {c} : proc'[d] = proc[d]
          /\ proc'[c].at = "writing" /\ proc'[c].op = proc[c].op /\ proc'[c].st = proc[c].st
      BY <1>0, <2>3 DEF Goto, ProcsOK, Proc
    <3>2. A!Allowed(proc[c].op, file.st) /\ proc[c].st = A!After(proc[c].op, file.st)
      BY <1>7 DEF CreateTemp, At, CopyIsCurrent, Loaded
    <3> QED
      BY <2>1, <2>3, <3>1, <3>2, HolderMoves DEF At, Loaded
  <2> QED
    BY <1>7, <2>1, <2>2, <2>3 DEF CreateTemp
<1>8. ASSUME NEW c \in Clients, WriteTemp(c) PROVE NeverTorn' /\ CopyIsCurrent'
  <2>1. mu = c /\ NeverTorn' /\ UNCHANGED file
    BY <1>8, <1>h DEF WriteTemp, At, NeverTorn, Loaded
  <2>2. CASE Finish(c, "failed", {})
    BY <2>1, <2>2, HolderFinishes
  <2>3. CASE tmp' = Whole(proc[c].st) /\ Goto(c, "rename") /\ UNCHANGED mu
    <3>1. /\ \A d \in Clients \ {c} : proc'[d] = proc[d]
          /\ proc'[c].at = "rename" /\ proc'[c].op = proc[c].op /\ proc'[c].st = proc[c].st
      BY <1>0, <2>3 DEF Goto, ProcsOK, Proc
    <3>2. A!Allowed(proc[c].op, file.st) /\ proc[c].st = A!After(proc[c].op, file.st)
      BY <1>8 DEF WriteTemp, At, CopyIsCurrent, Loaded
    <3> QED
      BY <2>1, <2>3, <3>1, <3>2, HolderMoves DEF At, Loaded
  <2> QED
    BY <1>8, <2>1, <2>2, <2>3 DEF WriteTemp
<1>9. ASSUME NEW c \in Clients, Rename(c) PROVE NeverTorn' /\ CopyIsCurrent'
  <2>1. mu = c /\ tmp = Whole(proc[c].st)
    BY <1>9, <1>h DEF Rename, At, CopyIsCurrent, Loaded
  <2>2. NeverTorn'
    BY <1>9, <2>1 DEF Rename, NeverTorn, Whole
  <2> QED
    BY <1>9, <2>1, <2>2, HolderFinishes DEF Rename
<1>10. ASSUME NEW c \in Clients, Return(c) PROVE NeverTorn' /\ CopyIsCurrent'
  <2>1. /\ \A d \in Clients \ {c} : proc'[d] = proc[d]
        /\ proc[c].at = "return" /\ proc'[c].at = "idle"
    BY <1>0, <1>10 DEF Return, IdleProc, ProcsOK, At
  <2> QED
    BY <1>10, <2>1 DEF Return, NeverTorn, CopyIsCurrent, At, Loaded
<1> QED
  BY <1>1, <1>2, <1>3, <1>4, <1>5, <1>6, <1>7, <1>8, <1>9, <1>10 DEF Next, Step

LEMMA Invariance == Spec => []IInv
<1>1. IInv /\ [Next]_vars => IInv'
  BY StepType, StepInv DEF IInv
<1> QED
  BY InitInv, <1>1, PTL DEF Spec

\* A crash or a failed system call at any moment leaves a state file that
\* parses (Store.saveLocked).
THEOREM StateFileWhole == Spec => []NeverTorn
BY Invariance, PTL DEF IInv

\* Who has loaded the state works on what the file says (Store.Update).
THEOREM CopiesCurrent == Spec => []CopyIsCurrent
BY Invariance, PTL DEF IInv

-----------------------------------------------------------------------------
(* Refinement *)

\* A step of one goroutine changes its call only.
LEMMA OneCall ==
  ASSUME NEW c \in Clients, \A d \in Clients \ {c} : proc'[d] = proc[d], NEW new, call'[c] = new
  PROVE  call' = [call EXCEPT ![c] = new]
BY DEF call

LEMMA CallOf ==
  ASSUME ProcsOK, NEW c \in Clients
  PROVE  /\ At(c, "idle") => call[c] = A!Idle
         /\ At(c, "return") => call[c] = A!Done(proc[c].op, proc[c].result, proc[c].st)
         /\ ~At(c, "idle") /\ ~At(c, "return") => call[c] = A!Called(proc[c].op)
BY DEF call, At, A!Idle, A!Done, A!Called

\* Inside the critical section nothing shows.
LEMMA HiddenStep ==
  ASSUME ProcsOK, ProcsOK', NEW c \in Clients, file'.st = file.st,
         ~At(c, "idle"), ~At(c, "return"), ~At(c, "idle")', ~At(c, "return")',
         \A d \in Clients \ {c} : proc'[d] = proc[d], proc'[c].op = proc[c].op
  PROVE  UNCHANGED <<db, call>>
BY DEF call, db, At

\* The step that ends a call shows its result.
LEMMA FinishShows ==
  ASSUME ProcsOK, NEW c \in Clients, NEW r, NEW s, Finish(c, r, s),
         ~At(c, "idle"), ~At(c, "return")
  PROVE  /\ proc[c].op \in Ops
         /\ call[c] = A!Called(proc[c].op)
         /\ call' = [call EXCEPT ![c] = A!Done(proc[c].op, r, s)]
<1>1. proc[c].op \in Ops
  BY DEF ProcsOK, Proc
<1>2. /\ \A d \in Clients \ {c} : proc'[d] = proc[d]
      /\ proc'[c].at = "return" /\ proc'[c].op = proc[c].op
      /\ proc'[c].result = r /\ proc'[c].st = s
  BY DEF Finish, ProcsOK, Proc
<1>3. call'[c] = A!Done(proc[c].op, r, s)
  BY <1>2 DEF call, A!Done
<1> QED
  BY <1>1, <1>2, <1>3, OneCall, CallOf

LEMMA FailShows ==
  ASSUME ProcsOK, NEW c \in Clients, Finish(c, "failed", {}), file'.st = file.st,
         ~At(c, "idle"), ~At(c, "return")
  PROVE  A!Next
<1>1. A!Fail(c, proc[c].op)
  BY FinishShows DEF A!Fail, db
<1> QED
  BY <1>1, FinishShows DEF A!Next, Ops

LEMMA StepRefines == IInv /\ [Next]_vars => [A!Next]_<<db, call>>
<1> SUFFICES ASSUME IInv, [Next]_vars PROVE A!Next \/ UNCHANGED <<db, call>>
  OBVIOUS
<1>0. ProcsOK
  BY DEF IInv, TypeOK, ProcsOK
<1>a. ProcsOK'
  BY StepType DEF IInv, TypeOK, ProcsOK
<1>1. CASE UNCHANGED vars
  BY <1>1 DEF vars, db, call
<1>2. CASE Crash
  <2>1. A!Restart
    BY <1>2 DEF Crash, A!Restart, A!Idle, IdleProc, db, call
  <2> QED
    BY <2>1 DEF A!Next
<1>3. ASSUME NEW c \in Clients, NEW op \in Ops, Call(c, op) PROVE A!Next
  <2>1. /\ \A d \in Clients \ {c} : proc'[d] = proc[d]
        /\ At(c, "idle") /\ proc'[c].at = "lock" /\ proc'[c].op = op
    BY <1>0, <1>3 DEF Call, IdleProc, ProcsOK
  <2>2. call'[c] = A!Called(op)
    BY <2>1 DEF call, A!Called
  <2>3. A!Call(c, op)
    BY <1>0, <1>3, <2>1, <2>2, OneCall, CallOf DEF Call, A!Call, db
  <2> QED
    BY <2>3 DEF A!Next, Ops
<1>4. ASSUME NEW c \in Clients, Lock(c) PROVE UNCHANGED <<db, call>>
  <2>1. /\ \A d \in Clients \ {c} : proc'[d] = proc[d]
        /\ proc'[c].at = "load" /\ proc'[c].op = proc[c].op
    BY <1>0, <1>4 DEF Lock, Goto, ProcsOK, Proc
  <2> QED
    BY <1>0, <1>4, <2>1, <1>a, HiddenStep DEF Lock, At
<1>5. ASSUME NEW c \in Clients, Load(c) PROVE A!Next \/ UNCHANGED <<db, call>>
  <2>1. CASE Finish(c, "failed", {})
    BY <1>0, <1>5, <2>1, FailShows DEF Load, At
  <2>2. CASE proc' = [proc EXCEPT ![c].at = "apply", ![c].st = file.st]
    <3>1. /\ \A d \in Clients \ {c} : proc'[d] = proc[d]
          /\ proc'[c].at = "apply" /\ proc'[c].op = proc[c].op
      BY <1>0, <2>2 DEF ProcsOK, Proc
    <3> QED
      BY <1>0, <1>5, <3>1, <1>a, HiddenStep DEF Load, At
  <2> QED
    BY <1>5, <2>1, <2>2 DEF Load
<1>6. ASSUME NEW c \in Clients, Apply(c) PROVE A!Next \/ UNCHANGED <<db, call>>
  <2> DEFINE op == proc[c].op
             st == proc[c].st
  <2>1. st = file.st /\ UNCHANGED file /\ At(c, "apply")
    BY <1>6 DEF Apply, At, IInv, CopyIsCurrent
  <2>2. CASE ~A!Allowed(op, st)
    <3>1. Finish(c, "refused", st)
      BY <1>6, <2>2 DEF Apply
    <3>2. A!Refuse(c, op)
      BY <1>0, <2>1, <2>2, <3>1, FinishShows DEF A!Refuse, At, db
    <3> QED
      BY <1>0, <2>1, <3>1, <3>2, FinishShows DEF A!Next, Ops, At
  <2>3. CASE A!Allowed(op, st) /\ op.kind = "view"
    <3>1. Finish(c, "ok", st)
      BY <1>6, <2>3 DEF Apply
    <3>2. A!After(op, st) = st
      BY <2>3 DEF A!After
    <3>3. A!Succeed(c, op)
      BY <1>0, <2>1, <2>3, <3>1, <3>2, FinishShows DEF A!Succeed, At, db
    <3> QED
      BY <1>0, <2>1, <3>1, <3>3, FinishShows DEF A!Next, Ops, At
  <2>4. CASE A!Allowed(op, st) /\ op.kind # "view"
    <3>1. proc' = [proc EXCEPT ![c].at = "write", ![c].st = A!After(op, st)]
      BY <1>6, <2>4 DEF Apply
    <3>2. /\ \A d \in Clients \ {c} : proc'[d] = proc[d]
          /\ proc'[c].at = "write" /\ proc'[c].op = op
      BY <1>0, <3>1 DEF ProcsOK, Proc
    <3> QED
      BY <1>0, <2>1, <3>2, <1>a, HiddenStep DEF At
  <2> QED
    BY <2>2, <2>3, <2>4
<1>7. ASSUME NEW c \in Clients, CreateTemp(c) PROVE A!Next \/ UNCHANGED <<db, call>>
  <2>1. CASE Finish(c, "failed", {})
    BY <1>0, <1>7, <2>1, FailShows DEF CreateTemp, At
  <2>2. CASE Goto(c, "writing")
    <3>1. /\ \A d \in Clients \ {c} : proc'[d] = proc[d]
          /\ proc'[c].at = "writing" /\ proc'[c].op = proc[c].op
      BY <1>0, <2>2 DEF Goto, ProcsOK, Proc
    <3> QED
      BY <1>0, <1>7, <3>1, <1>a, HiddenStep DEF CreateTemp, At
  <2> QED
    BY <1>7, <2>1, <2>2 DEF CreateTemp
<1>8. ASSUME NEW c \in Clients, WriteTemp(c) PROVE A!Next \/ UNCHANGED <<db, call>>
  <2>1. CASE Finish(c, "failed", {})
    BY <1>0, <1>8, <2>1, FailShows DEF WriteTemp, At
  <2>2. CASE Goto(c, "rename")
    <3>1. /\ \A d \in Clients \ {c} : proc'[d] = proc[d]
          /\ proc'[c].at = "rename" /\ proc'[c].op = proc[c].op
      BY <1>0, <2>2 DEF Goto, ProcsOK, Proc
    <3> QED
      BY <1>0, <1>8, <3>1, <1>a, HiddenStep DEF WriteTemp, At
  <2> QED
    BY <1>8, <2>1, <2>2 DEF WriteTemp
<1>9. ASSUME NEW c \in Clients, Rename(c) PROVE A!Next
  <2>1. CASE Finish(c, "failed", {}) /\ UNCHANGED <<file, tmp>>
    BY <1>0, <1>9, <2>1, FailShows DEF Rename, At
  <2>2. CASE file' = tmp /\ Finish(c, "ok", file.st)
    <3> DEFINE op == proc[c].op
    <3>1. A!Allowed(op, file.st) /\ tmp.st = A!After(op, file.st)
      BY <1>9 DEF Rename, At, IInv, CopyIsCurrent, Loaded, Whole
    <3>2. A!Succeed(c, op)
      BY <1>0, <1>9, <2>2, <3>1, FinishShows DEF Rename, At, A!Succeed, db
    <3> QED
      BY <1>0, <1>9, <2>2, <3>2, FinishShows DEF Rename, At, A!Next, Ops
  <2> QED
    BY <1>9, <2>1, <2>2 DEF Rename
<1>10. ASSUME NEW c \in Clients, Return(c) PROVE A!Next
  <2>1. /\ \A d \in Clients \ {c} : proc'[d] = proc[d]
        /\ At(c, "return") /\ proc'[c].at = "idle"
    BY <1>0, <1>10 DEF Return, IdleProc, ProcsOK
  <2>2. call'[c] = A!Idle
    BY <2>1 DEF call, A!Idle
  <2>3. call[c].at = "done"
    BY <2>1 DEF call, At
  <2>4. call' = [call EXCEPT ![c] = A!Idle]
    BY <2>1, <2>2, OneCall
  <2>5. A!Return(c)
    BY <1>10, <2>3, <2>4 DEF Return, A!Return, db
  <2> QED
    BY <2>5 DEF A!Next
<1> QED
  BY <1>1, <1>2, <1>3, <1>4, <1>5, <1>6, <1>7, <1>8, <1>9, <1>10 DEF Next, Step

\* Every Update and View takes effect at one moment between its call and its
\* return, on what all earlier ones left, and survives a restart.
THEOREM StoreIsAtomic == Spec => AtomicSpec
<1>1. Init => A!Init
  <2> SUFFICES ASSUME Init PROVE db = {} /\ call = [c \in Clients |-> A!Idle]
    BY DEF A!Init
  <2>1. \A c \in Clients : proc[c].at = "idle"
    BY DEF Init, IdleProc
  <2>2. \A c \in Clients : call[c] = A!Idle
    BY <2>1 DEF call, A!Idle
  <2> QED
    BY <2>2 DEF Init, Missing, db, call
<1>2. IInv /\ [Next]_vars => [A!Next]_<<db, call>>
  BY StepRefines
<1> QED
  BY <1>1, <1>2, Invariance, PTL DEF Spec, AtomicSpec, A!Spec
=============================================================================
