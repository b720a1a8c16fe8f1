---------------------------- MODULE SubnetRegistry ----------------------------
(***************************************************************************)
(* What the state file promises about subnets: an instance is created with *)
(* the lowest index no other instance holds, keeps it, and gives it back   *)
(* when it is deleted or its creation fails (docs/DESIGN.md section 5).    *)
(***************************************************************************)
EXTENDS Naturals

CONSTANTS Names, None, MaxSubnetIndex

VARIABLE leases   \* the subnet index of every instance, None without one

Leased == {leases[n] : n \in Names} \ {None}

Init == leases = [n \in Names |-> None]

Acquire(n, i) ==
    /\ leases[n] = None
    /\ i \notin Leased
    /\ 0 .. i - 1 \subseteq Leased
    /\ leases' = [leases EXCEPT ![n] = i]

Release(n) ==
    /\ leases[n] # None
    /\ leases' = [leases EXCEPT ![n] = None]

Next == \E n \in Names : Release(n) \/ \E i \in 0 .. MaxSubnetIndex : Acquire(n, i)

Spec == Init /\ [][Next]_leases
=============================================================================
