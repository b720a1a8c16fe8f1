----------------------------- MODULE AtomicStore -----------------------------
(***************************************************************************)
(* What state.Store promises its callers: every Update and View takes      *)
(* effect at one moment between its call and its return, on the state all  *)
(* earlier ones left, and what has taken effect survives a restart of the  *)
(* daemon (docs/DESIGN.md section 7.1).                                    *)
(***************************************************************************)
CONSTANTS Names, Clients

VARIABLES
    db,     \* the instances in the state
    call    \* the call each client has made

\* The callbacks Manager passes to the store: create a name that must be new,
\* delete one (nobody minds if it is gone), look at everything.
Ops == [kind : {"add", "remove", "view"}, name : Names]
Allowed(op, s) == op.kind = "add" => op.name \notin s
After(op, s) == CASE op.kind = "add" -> s \cup {op.name}
                  [] op.kind = "remove" -> s \ {op.name}
                  [] OTHER -> s

Idle == [at |-> "idle"]
Called(op) == [at |-> "called", op |-> op]
Done(op, result, s) == [at |-> "done", op |-> op, result |-> result, saw |-> s]

Init == db = {} /\ call = [c \in Clients |-> Idle]

Call(c, op) ==
    /\ call[c] = Idle
    /\ call' = [call EXCEPT ![c] = Called(op)]
    /\ UNCHANGED db

Succeed(c, op) ==
    /\ call[c] = Called(op)
    /\ Allowed(op, db)
    /\ db' = After(op, db)
    /\ call' = [call EXCEPT ![c] = Done(op, "ok", db)]

Refuse(c, op) ==
    /\ call[c] = Called(op)
    /\ ~Allowed(op, db)
    /\ call' = [call EXCEPT ![c] = Done(op, "refused", db)]
    /\ UNCHANGED db

\* Reading or writing the file fails: nothing has happened.
Fail(c, op) ==
    /\ call[c] = Called(op)
    /\ \E s \in SUBSET Names : call' = [call EXCEPT ![c] = Done(op, "failed", s)]
    /\ UNCHANGED db

Return(c) ==
    /\ call[c].at = "done"
    /\ call' = [call EXCEPT ![c] = Idle]
    /\ UNCHANGED db

Restart ==
    /\ call' = [c \in Clients |-> Idle]
    /\ UNCHANGED db

Next ==
    \/ Restart
    \/ \E c \in Clients :
          \/ Return(c)
          \/ \E op \in Ops : Call(c, op) \/ Succeed(c, op) \/ Refuse(c, op) \/ Fail(c, op)

Spec == Init /\ [][Next]_<<db, call>>
=============================================================================
