------------------------------ MODULE StateStore ------------------------------
(***************************************************************************)
(* The state file (internal/state): Store.Update and Store.View by the     *)
(* goroutines of the daemon, at the grain of the system calls.  A daemon   *)
(* that dies loses its goroutines and its mutex, not the files.  The file  *)
(* system keeps what was written (the machine itself does not fail).       *)
(***************************************************************************)
EXTENDS FiniteSets

CONSTANTS
    Names,      \* instance names: the state is the set of its instances
    Clients,    \* goroutines of the daemon
    None

ASSUME NoneAssumption == None \notin Clients

VARIABLES
    file,    \* state.json
    tmp,     \* state.json.tmp
    mu,      \* Store.mu: who holds it
    proc     \* the goroutines

vars == <<file, tmp, mu, proc>>

-----------------------------------------------------------------------------
(* The calls and their callbacks, and the atomic store they should look     *)
(* like: a call has taken effect when the step that ends it has released    *)
(* the mutex.                                                               *)

db == file.st
call == [c \in Clients |->
            CASE proc[c].at = "idle" -> [at |-> "idle"]
              [] proc[c].at = "return" ->
                    [at |-> "done", op |-> proc[c].op,
                     result |-> proc[c].result, saw |-> proc[c].st]
              [] OTHER -> [at |-> "called", op |-> proc[c].op]]

A == INSTANCE AtomicStore
Ops == A!Ops

NoOp == [kind |-> "none"]
States == SUBSET Names
Missing == [is |-> "missing", st |-> {}]
Torn == [is |-> "torn", st |-> {}]    \* a write has begun and not finished
Whole(st) == [is |-> "whole", st |-> st]
File == [is : {"missing", "torn", "whole"}, st : States]

Proc == [at : {"idle", "lock", "load", "apply", "write", "writing", "rename", "return"},
         op : Ops \cup {NoOp}, st : States, result : {"", "ok", "refused", "failed"}]
IdleProc == [at |-> "idle", op |-> NoOp, st |-> {}, result |-> ""]

Init ==
    /\ file = Missing /\ tmp = Missing /\ mu = None
    /\ proc = [c \in Clients |-> IdleProc]

-----------------------------------------------------------------------------
At(c, where) == proc[c].at = where
Goto(c, where) == proc' = [proc EXCEPT ![c].at = where]

\* Mutant: the mutex is kept on an early return.
LeakyFinish(c, result, st) ==
    /\ mu' = IF result = "refused" THEN mu ELSE None
    /\ proc' = [proc EXCEPT ![c].at = "return", ![c].st = st, ![c].result = result]

\* The deferred Unlock and the return.
Finish(c, result, st) ==
    /\ mu' = None
    /\ proc' = [proc EXCEPT ![c].at = "return", ![c].st = st, ![c].result = result]

Call(c, op) ==
    /\ At(c, "idle")
    /\ proc' = [proc EXCEPT ![c] = [IdleProc EXCEPT !.at = "lock", !.op = op]]
    /\ UNCHANGED <<file, tmp, mu>>

\* Mutant: nobody waits for the mutex.
UnguardedLock(c) ==
    /\ At(c, "lock")
    /\ mu' = c
    /\ Goto(c, "load")
    /\ UNCHANGED <<file, tmp>>

Lock(c) ==
    /\ At(c, "lock") /\ mu = None
    /\ mu' = c
    /\ Goto(c, "load")
    /\ UNCHANGED <<file, tmp>>

\* loadLocked: a missing file is an empty state, one that does not parse or
\* cannot be read an error.
Load(c) ==
    /\ At(c, "load")
    /\ \/ /\ file.is # "torn"
          /\ proc' = [proc EXCEPT ![c].at = "apply", ![c].st = file.st]
          /\ UNCHANGED mu
       \/ Finish(c, "failed", {})
    /\ UNCHANGED <<file, tmp>>

\* The callback; View ends here.
Apply(c) ==
    LET op == proc[c].op  st == proc[c].st IN
    /\ At(c, "apply")
    /\ IF ~A!Allowed(op, st) THEN Finish(c, "refused", st)
       ELSE IF op.kind = "view" THEN Finish(c, "ok", st)
       ELSE /\ proc' = [proc EXCEPT ![c].at = "write", ![c].st = A!After(op, st)]
            /\ UNCHANGED mu
    /\ UNCHANGED <<file, tmp>>

\* Mutant: the state file itself is truncated and written.
InPlaceCreateTemp(c) ==
    /\ At(c, "write")
    /\ \/ file' = Torn /\ Goto(c, "writing") /\ UNCHANGED <<tmp, mu>>
       \/ Finish(c, "failed", {}) /\ UNCHANGED <<file, tmp>>

\* os.WriteFile opens (and truncates) the temporary file, then writes it.
CreateTemp(c) ==
    /\ At(c, "write")
    /\ \/ tmp' = Torn /\ Goto(c, "writing") /\ UNCHANGED mu
       \/ Finish(c, "failed", {}) /\ UNCHANGED tmp
    /\ UNCHANGED file

WriteTemp(c) ==
    /\ At(c, "writing")
    /\ \/ tmp' = Whole(proc[c].st) /\ Goto(c, "rename") /\ UNCHANGED mu
       \/ Finish(c, "failed", {}) /\ UNCHANGED tmp
    /\ UNCHANGED file

Rename(c) ==
    /\ At(c, "rename")
    /\ \/ file' = tmp /\ tmp' = Missing /\ Finish(c, "ok", file.st)
       \/ Finish(c, "failed", {}) /\ UNCHANGED <<file, tmp>>

Return(c) ==
    /\ At(c, "return")
    /\ proc' = [proc EXCEPT ![c] = IdleProc]
    /\ UNCHANGED <<file, tmp, mu>>

Crash ==
    /\ proc' = [c \in Clients |-> IdleProc]
    /\ mu' = None
    /\ UNCHANGED <<file, tmp>>

Step(c) == Load(c) \/ Apply(c) \/ CreateTemp(c) \/ WriteTemp(c) \/ Rename(c) \/ Return(c)

Next ==
    \/ Crash
    \/ \E c \in Clients : Lock(c) \/ Step(c) \/ \E op \in Ops : Call(c, op)

Spec == Init /\ [][Next]_vars

\* Goroutines run on, and a sync.Mutex is handed to a waiter that has starved
\* for a millisecond: nobody waits for ever for a lock that keeps being freed.
FairSpec == Spec /\ \A c \in Clients : WF_vars(Step(c)) /\ SF_vars(Lock(c))

-----------------------------------------------------------------------------
(* Properties *)

TypeOK ==
    /\ file \in File
    /\ tmp \in File
    /\ mu \in Clients \cup {None}
    /\ proc \in [Clients -> Proc]
    /\ \A c \in Clients : proc[c].op = NoOp <=> At(c, "idle")

\* A crash, a full disk or a failed rename at any moment leaves a state file
\* that parses: the daemon can start again and every later call can load it.
NeverTorn == file.is # "torn"

\* Who works on a copy of the state holds the mutex, and the copy is what the
\* file says, with at most the callback's change: no save overwrites another.
Loaded == {"apply", "write", "writing", "rename"}
CopyIsCurrent ==
    \A c \in Clients :
        /\ proc[c].at \in Loaded \cup {"load"} <=> mu = c
        /\ At(c, "apply") => proc[c].st = file.st
        /\ proc[c].at \in Loaded \ {"apply"} =>
              /\ A!Allowed(proc[c].op, file.st)
              /\ proc[c].st = A!After(proc[c].op, file.st)
        /\ At(c, "rename") => tmp = Whole(proc[c].st)

\* Update and View are atomic and durable: the store implements AtomicStore,
\* where a call takes effect in one step.
AtomicSpec == A!Spec

\* Every caller gets an answer, whatever fails in its own call or in others'.
CallsReturn == \A c \in Clients : At(c, "lock") ~> At(c, "idle")
=============================================================================
