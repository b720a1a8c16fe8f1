--------------------------- MODULE SubnetAllocator ---------------------------
(***************************************************************************)
(* The addresses of an instance (internal/network/allocator.go and         *)
(* dockerd.DeriveNetnsIPs), for the indexes SubnetRegistry hands out: the  *)
(* subnet, the two ends of the namespace's veth pair and the MetalLB       *)
(* address.  An address is four octets of Byte values.  subnet_size is     *)
(* taken in whole octets (16, 24, 32 bits): with a size in between the     *)
(* allocator counts in steps smaller than a subnet.                        *)
(***************************************************************************)
EXTENDS Integers

CONSTANTS
    Names, None,
    Byte,       \* values of an octet: 256
    Offset,     \* metallb_host_offset: the last two octets, <<10, 10>>
    MaxIndex    \* bound on the indexes tried

ASSUME ByteAssumption == Byte \in Nat \ {0}
ASSUME NoneAssumption == None \notin Nat
ASSUME MaxIndexAssumption == MaxIndex \in Nat

VARIABLES
    base,      \* base_offset
    size,      \* subnet_size in octets
    leases     \* the subnet index of every instance, None without one

vars == <<base, size, leases>>

Octets == 0 .. Byte - 1
IPs == [1 .. 4 -> Octets]
Sizes == {2, 3, 4}

Registry == INSTANCE SubnetRegistry WITH MaxSubnetIndex <- MaxIndex

-----------------------------------------------------------------------------
NoSubnet == <<>>

\* Mutant: the counted octet wraps silently.
WrappingSubnet(b, k, i) == [b EXCEPT ![k] = (@ + i) % Byte]

\* Mutant: the last value of the carrying octet is refused.
ShySubnet(b, k, i) ==
    LET total == b[k] + i
        carry == total \div Byte
    IN  IF b[k - 1] + carry >= Byte - 1 THEN NoSubnet
        ELSE [b EXCEPT ![k - 1] = @ + carry, ![k] = total % Byte]

\* subnetForIndex: octet k counts, the octet before it takes the carry.
Subnet(b, k, i) ==
    LET total == b[k] + i
        carry == total \div Byte
    IN  IF b[k - 1] + carry > Byte - 1 THEN NoSubnet
        ELSE [b EXCEPT ![k - 1] = @ + carry, ![k] = total % Byte]

\* Mutant: only the second octet tells namespaces apart.
FixedDeriveNetnsIPs(ip) == {<<0, ip[2], 0, 1>>, <<0, ip[2], 0, 2>>}

\* The host's and the namespace's end.
DeriveNetnsIPs(ip) == {<<ip[1], ip[2], 0, 1>>, <<ip[1], ip[2], 0, 2>>}

MetalLBIPForSubnet(ip) == <<ip[1], ip[2], Offset[1], Offset[2]>>

-----------------------------------------------------------------------------
Init ==
    /\ base \in IPs /\ size \in Sizes
    /\ Registry!Init

\* Phase 1 of Create and Clone: the next free index, unless it has no subnet.
Create(n) ==
    /\ \E i \in 0 .. MaxIndex :
          Registry!Acquire(n, i) /\ Subnet(base, size, i) # NoSubnet
    /\ UNCHANGED <<base, size>>

Delete(n) == Registry!Release(n) /\ UNCHANGED <<base, size>>

Next == \E n \in Names : Create(n) \/ Delete(n)

Spec == Init /\ [][Next]_vars

-----------------------------------------------------------------------------
(* Properties *)

TypeOK ==
    /\ base \in IPs /\ size \in Sizes
    /\ leases \in [Names -> Nat \cup {None}]

Live == {n \in Names : leases[n] # None}
IP(n) == Subnet(base, size, leases[n])

\* Every instance has a subnet, and the subnets of two instances differ in
\* their network part, also when the counted octet has wrapped.
SubnetsDisjoint ==
    /\ \A n \in Live : IP(n) \in IPs
    /\ \A m, n \in Live : m # n => \E o \in 1 .. size : IP(m)[o] # IP(n)[o]

\* With /16 subnets no two instances share a veth or a MetalLB address.  (With
\* smaller subnets they do: DeriveNetnsIPs looks at two octets only.)
AddressesDistinct ==
    size = 2 =>
        \A m, n \in Live : m # n =>
            /\ DeriveNetnsIPs(IP(m)) \cap DeriveNetnsIPs(IP(n)) = {}
            /\ MetalLBIPForSubnet(IP(m)) # MetalLBIPForSubnet(IP(n))

\* The subnets from base up to the end of what the carry may reach without
\* leaving base's own /8 can all be used, and past the first index that is
\* refused every index is: no subnet is refused early, and there is no gap the
\* registry, which always offers the lowest free index, would stop at.
Capacity == IF size = 2 THEN Byte - base[2]
            ELSE (Byte - base[size - 1]) * Byte - base[size]
Usable(i) == Subnet(base, size, i) # NoSubnet
AllUsable ==
    \A i \in 0 .. MaxIndex :
        /\ i < Capacity => Usable(i)
        /\ ~Usable(i) => \A j \in i .. MaxIndex : ~Usable(j)
=============================================================================
