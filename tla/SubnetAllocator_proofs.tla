------------------------ MODULE SubnetAllocator_proofs ------------------------
(***************************************************************************)
(* The addresses of two instances differ for every base, number of values  *)
(* of an octet and number of instances.  The octet that counts and the one *)
(* before it are the digits of a number that grows by one with the index.  *)
(***************************************************************************)
EXTENDS SubnetAllocator, TLAPS

LEMMA DivMod ==
  ASSUME NEW B \in Nat \ {0}, NEW t \in Nat
  PROVE  t \div B \in Nat /\ t % B \in 0 .. B - 1 /\ t = B * (t \div B) + (t % B)
OBVIOUS

LEMMA DivBelow ==
  ASSUME NEW B \in Nat \ {0}, NEW t \in Nat, NEW c \in Nat
  PROVE  t \div B < c <=> t < c * B
<1>1. ASSUME NEW q \in Nat, NEW r \in 0 .. B - 1, t = B * q + r
      PROVE  q < c <=> t < c * B
  <2>1. CASE q < c
    <3>1. q + 1 <= c /\ B * (q + 1) <= B * c
      BY <2>1, Z3
    <3> QED
      BY <1>1, <2>1, <3>1
  <2>2. CASE q >= c
    <3>1. B * q >= B * c
      BY <2>2, Z3
    <3> QED
      BY <1>1, <2>2, <3>1
  <2> QED
    BY <2>1, <2>2
<1> QED
  BY <1>1, DivMod

\* The number an address stands for in octets k - 1 and k.
Number(ip, k) == Byte * ip[k - 1] + ip[k]

\* A subnet is an address, and its number is index steps after the base's.
LEMMA SubnetNumber ==
  ASSUME NEW b \in IPs, NEW k \in Sizes, NEW i \in Nat, Subnet(b, k, i) # NoSubnet
  PROVE  Subnet(b, k, i) \in IPs /\ Number(Subnet(b, k, i), k) = Number(b, k) + i
<1> DEFINE t == b[k] + i
           carry == t \div Byte
           low == t % Byte
           s == Subnet(b, k, i)
<1>1. b[k] \in Octets /\ b[k - 1] \in Octets /\ k \in 2 .. 4
  BY DEF IPs, Sizes
<1>2. t \in Nat
  BY <1>1, ByteAssumption DEF Octets
<1>3. carry \in Nat /\ low \in Octets /\ t = Byte * carry + low
  BY <1>2, DivMod, ByteAssumption DEF Octets
<1>4. s = [b EXCEPT ![k - 1] = @ + carry, ![k] = low] /\ b[k - 1] + carry <= Byte - 1
  BY <1>1, <1>3, ByteAssumption DEF Subnet, Octets
<1> HIDE DEF carry, low, s
<1>5. b[k - 1] + carry \in Octets
  BY <1>1, <1>3, <1>4, ByteAssumption DEF Octets
<1>6. s \in IPs /\ s[k - 1] = b[k - 1] + carry /\ s[k] = low
  BY <1>1, <1>3, <1>4, <1>5 DEF IPs
<1>7. Byte * s[k - 1] = Byte * b[k - 1] + Byte * carry
  BY <1>1, <1>3, <1>6, ByteAssumption DEF Octets
<1>8. Byte * s[k - 1] \in Nat /\ Byte * b[k - 1] \in Nat /\ Byte * carry \in Nat
  BY <1>1, <1>3, <1>5, <1>6, ByteAssumption DEF Octets
<1>9. Number(s, k) = Number(b, k) + i
  BY <1>1, <1>2, <1>3, <1>6, <1>7, <1>8, ByteAssumption DEF Number, Octets
<1> QED
  BY <1>6, <1>9 DEF s

\* Subnets of different indexes differ in one of the two octets.
LEMMA SubnetsDiffer ==
  ASSUME NEW b \in IPs, NEW k \in Sizes, NEW i \in Nat, NEW j \in Nat, i # j,
         Subnet(b, k, i) # NoSubnet, Subnet(b, k, j) # NoSubnet
  PROVE  \/ Subnet(b, k, i)[k - 1] # Subnet(b, k, j)[k - 1]
         \/ Subnet(b, k, i)[k] # Subnet(b, k, j)[k]
<1>1. Number(b, k) \in Nat
  BY ByteAssumption DEF Number, IPs, Octets, Sizes
<1>2. Number(Subnet(b, k, i), k) # Number(Subnet(b, k, j), k)
  BY <1>1, SubnetNumber
<1> QED
  BY <1>2 DEF Number

-----------------------------------------------------------------------------
\* Live instances have indexes of their own, with a subnet each.
LeasesOK ==
    /\ \A n \in Live : Subnet(base, size, leases[n]) # NoSubnet
    /\ \A m, n \in Live : m # n => leases[m] # leases[n]

IInv == TypeOK /\ LeasesOK

LEMMA Invariance == Spec => []IInv
<1>1. Init => IInv
  BY DEF Init, IInv, TypeOK, LeasesOK, Live, Registry!Init
<1>2. IInv /\ [Next]_vars => IInv'
  <2> SUFFICES ASSUME IInv, [Next]_vars PROVE IInv'
    OBVIOUS
  <2> USE DEF IInv, TypeOK, LeasesOK, Live
  <2>1. CASE UNCHANGED vars
    BY <2>1 DEF vars, Subnet
  <2>2. ASSUME NEW n \in Names, Create(n) PROVE IInv'
    <3>1. PICK i \in 0 .. MaxIndex : Registry!Acquire(n, i) /\ Subnet(base, size, i) # NoSubnet
      BY <2>2 DEF Create
    <3>2. /\ i \in Nat /\ i # None
          /\ \A m \in Names : leases[m] # i
          /\ leases' = [leases EXCEPT ![n] = i]
          /\ base' = base /\ size' = size
      BY <2>2, <3>1, NoneAssumption, MaxIndexAssumption
         DEF Create, Registry!Acquire, Registry!Leased
    <3>3. TypeOK'
      BY <3>2
    <3>4. ASSUME NEW m \in Live' PROVE (Subnet(base, size, leases[m]) # NoSubnet)'
      BY <3>1, <3>2, <3>4 DEF Subnet
    <3>5. ASSUME NEW l \in Live', NEW m \in Live', l # m PROVE leases'[l] # leases'[m]
      BY <3>2, <3>5
    <3> QED
      BY <3>3, <3>4, <3>5
  <2>3. ASSUME NEW n \in Names, Delete(n) PROVE IInv'
    BY <2>3 DEF Delete, Registry!Release, Subnet
  <2> QED
    BY <2>1, <2>2, <2>3 DEF Next
<1> QED
  BY <1>1, <1>2, PTL DEF Spec

\* The subnets of two instances never overlap (SubnetForIndexChecked).
THEOREM NetworksDisjoint == Spec => []SubnetsDisjoint
<1>1. IInv => SubnetsDisjoint
  <2> SUFFICES ASSUME IInv PROVE SubnetsDisjoint
    OBVIOUS
  <2>1. /\ base \in IPs /\ size \in Sizes
        /\ \A n \in Live : leases[n] \in Nat /\ Subnet(base, size, leases[n]) # NoSubnet
        /\ \A m, n \in Live : m # n => leases[m] # leases[n]
    BY DEF IInv, TypeOK, LeasesOK, Live
  <2>2. \A n \in Live : IP(n) \in IPs
    BY <2>1, SubnetNumber DEF IP
  <2>3. ASSUME NEW m \in Live, NEW n \in Live, m # n
        PROVE  \E o \in 1 .. size : IP(m)[o] # IP(n)[o]
    <3>1. IP(m)[size - 1] # IP(n)[size - 1] \/ IP(m)[size] # IP(n)[size]
      BY <2>1, <2>3, SubnetsDiffer DEF IP
    <3>2. size - 1 \in 1 .. size /\ size \in 1 .. size
      BY <2>1 DEF Sizes
    <3> QED
      BY <3>1, <3>2
  <2> QED
    BY <2>2, <2>3 DEF SubnetsDisjoint
<1> QED
  BY <1>1, Invariance, PTL

\* With /16 subnets the veth and MetalLB addresses of two instances differ
\* (DeriveNetnsIPs, MetalLBIPForSubnet).
THEOREM AddressesUnique == Spec => []AddressesDistinct
<1>1. IInv => AddressesDistinct
  <2> SUFFICES ASSUME IInv, size = 2, NEW m \in Live, NEW n \in Live, m # n
               PROVE  /\ DeriveNetnsIPs(IP(m)) \cap DeriveNetnsIPs(IP(n)) = {}
                      /\ MetalLBIPForSubnet(IP(m)) # MetalLBIPForSubnet(IP(n))
    BY DEF AddressesDistinct
  <2>1. IP(m)[1] # IP(n)[1] \/ IP(m)[2] # IP(n)[2]
    <3>1. /\ base \in IPs /\ size \in Sizes /\ leases[m] # leases[n]
          /\ leases[m] \in Nat /\ Subnet(base, size, leases[m]) # NoSubnet
          /\ leases[n] \in Nat /\ Subnet(base, size, leases[n]) # NoSubnet
      BY DEF IInv, TypeOK, LeasesOK, Live
    <3> QED
      BY <3>1, SubnetsDiffer DEF IP
  <2> QED
    BY <2>1 DEF DeriveNetnsIPs, MetalLBIPForSubnet
<1> QED
  BY <1>1, Invariance, PTL

\* An index has a subnet while its number fits in the two octets.
LEMMA RoomLeft ==
  ASSUME NEW b \in IPs, NEW k \in Sizes, NEW i \in Nat
  PROVE  Subnet(b, k, i) # NoSubnet <=> b[k] + i < (Byte - b[k - 1]) * Byte
<1> DEFINE t == b[k] + i
           room == Byte - b[k - 1]
<1>1. b[k] \in Octets /\ b[k - 1] \in Octets /\ k \in 2 .. 4
  BY DEF IPs, Sizes
<1>2. t \in Nat /\ room \in Nat
  BY <1>1, ByteAssumption DEF Octets
<1>3. [b EXCEPT ![k - 1] = @ + (t \div Byte), ![k] = t % Byte] # NoSubnet
  <2>1. b \in IPs /\ 1 \in DOMAIN b
    BY DEF IPs
  <2>2. DOMAIN NoSubnet = {}
    BY DEF NoSubnet
  <2>3. 1 \in DOMAIN [b EXCEPT ![k - 1] = @ + (t \div Byte), ![k] = t % Byte]
    BY <2>1
  <2> QED
    BY <2>2, <2>3
<1>4. Subnet(b, k, i) # NoSubnet <=> t \div Byte < room
  <2>1. t \div Byte \in Nat
    BY <1>2, ByteAssumption, DivMod
  <2> QED
    BY <1>1, <1>3, <2>1, ByteAssumption DEF Subnet, Octets
<1>5. t \div Byte < room <=> t < room * Byte
  BY <1>2, ByteAssumption, DivBelow
<1> QED
  BY <1>4, <1>5

\* No index is refused while its subnet is in base's own /8 and the octets have
\* room for it, and none is accepted after a refused one (SubnetForIndexChecked).
THEOREM NoSubnetLost == Spec => []AllUsable
<1>1. IInv => AllUsable
  <2> SUFFICES ASSUME IInv, NEW i \in 0 .. MaxIndex
               PROVE  /\ i < Capacity => Usable(i)
                      /\ ~Usable(i) => \A j \in i .. MaxIndex : ~Usable(j)
    BY DEF AllUsable
  <2> DEFINE room == Byte - base[size - 1]
  <2>1. base \in IPs /\ size \in Sizes /\ base[size] \in Octets /\ base[size - 1] \in Octets
    BY DEF IInv, TypeOK, IPs, Sizes
  <2>2. i \in Nat /\ room \in Nat /\ 1 <= room /\ room * Byte \in Nat
    BY <2>1, ByteAssumption, MaxIndexAssumption DEF Octets
  <2>3. \A j \in Nat : Usable(j) <=> base[size] + j < room * Byte
    BY <2>1, RoomLeft DEF Usable
  <2>4. ASSUME i < Capacity
        PROVE  Usable(i)
    <3>1. Byte <= room * Byte
      BY <2>2, ByteAssumption, Z3
    <3>2. base[size] + i < room * Byte
      BY <2>1, <2>2, <2>4, <3>1, ByteAssumption DEF Capacity, Octets
    <3> QED
      BY <2>2, <2>3, <3>2
  <2>5. ASSUME ~Usable(i), NEW j \in i .. MaxIndex
        PROVE  ~Usable(j)
    <3>1. j \in Nat /\ i <= j
      BY <2>2, MaxIndexAssumption
    <3>2. ~(base[size] + i < room * Byte)
      BY <2>2, <2>3, <2>5
    <3>3. ~(base[size] + j < room * Byte)
      BY <2>1, <2>2, <3>1, <3>2 DEF Octets
    <3> QED
      BY <2>3, <3>1, <3>3
  <2> QED
    BY <2>4, <2>5
<1> QED
  BY <1>1, Invariance, PTL
=============================================================================
