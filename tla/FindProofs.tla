----------------------------- MODULE FindProofs -----------------------------
(***************************************************************************)
(* What a Find returns that nothing disturbed, for any configuration, any  *)
(* addresses and any number of workers; and the types of Parts.            *)
(*                                                                         *)
(* The network scan is the hard one.  Its invariant says where an address  *)
(* is that answers: still to be sent, in the hands of one worker, or in    *)
(* the slice, at one place; and that the slice is what the one worker that *)
(* appends has read.  The first is arithmetic of subnets, the second holds *)
(* as long as no two appends overlap.                                      *)
(***************************************************************************)
EXTENDS PartsProofs, FiniteSetTheorems

Addresses == 0..Top
Subnet == [base : Addresses, length : 0..Bits]
Cell == [name : Addresses \cup {None}, target : Addresses \cup {None}]
Words == [array : 0..Len(heap), len : Nat, cap : Nat]

Holding == {"dial", "append", "reserve", "name", "target"}
Collects == Plugin = "network" /\ find.pc \in {"next", "scan", "stuck"}
Idle == jobs = {} /\ \A w \in Workers : worker[w].pc = "off"

\* The types of the variables of a Find.
FindOK ==
    /\ scenario \in Scenarios /\ up \subseteq scenario.services
    /\ find.pc \in FindPC /\ find.clean \in BOOLEAN
    /\ find = [pc |-> find.pc, todo |-> find.todo, got |-> find.got, clean |-> find.clean]
    /\ find.pc = "rest" => find.clean /\ find.got = {}
    /\ find.pc \in {"scan", "stuck"} => Plugin = "network"
    /\ find.pc = "next" => Plugin \in {"network", "k8"}

\* The types of a scan's.
ScanOK ==
    /\ jobs \subseteq Nat \X Addresses
    /\ heap \in Seq(Seq(Cell))
    /\ slice \in Words
    /\ worker \in [Workers -> [pc : WorkerPC, job : Addresses \cup {None}, mine : Words]]
    /\ \A w \in Workers : /\ worker[w].pc \in Holding => worker[w].job \in Addresses
                          /\ worker[w].pc = "off" => worker[w] = Off
    /\ find.pc # "scan" => Idle
    /\ Collects \/ (slice = NilSlice /\ heap = <<>>)

-----------------------------------------------------------------------------
(* Network by network, namespace by namespace *)

Passed == Len(Settings) - Len(find.todo)

\* What is left to do is the end of the configuration.
TodoInv ==
    find.pc \in {"next", "scan"} =>
        /\ Settings \in Seq(ToSet(Settings))
        /\ find.todo \in Seq(ToSet(Settings)) /\ Len(find.todo) <= Len(Settings)
        /\ \A i \in 1..Len(find.todo) : find.todo[i] = Settings[Passed + i]

EntryOf(s) == Entry(s, s.name, <<s.address, s.port>>)

NamespacesInv ==
    find.pc = "next" /\ Plugin = "k8" /\ find.clean =>
        find.got = {EntryOf(s) : s \in UNION {InNamespace(Settings[n]) : n \in 1..Passed}}

-----------------------------------------------------------------------------
(* A scan in which no two appends overlapped *)

Storing == \E w \in Workers : worker[w].pc \in {"name", "target"}
Stored == 1..(IF Storing THEN slice.len - 1 ELSE slice.len)
ElementAt(i) == Element(slice.array, i)

\* One worker at a time has read the slice, and it still is what it has read.
SliceInv ==
    /\ slice.len <= slice.cap
    /\ slice.array = 0 => slice.cap = 0
    /\ slice.array # 0 => Len(heap[slice.array]) = slice.cap
    /\ \A v, w \in Appending : v = w
    /\ \A w \in Workers :
         /\ worker[w].pc = "reserve" => worker[w].mine = slice
         /\ worker[w].pc \in {"name", "target"} =>
               worker[w].mine.array = slice.array /\ Slot(w) = slice.len
         /\ worker[w].pc = "target" => ElementAt(slice.len).name = worker[w].job

InHand == {worker[w].job : w \in {w \in Workers : worker[w].pc \in Holding}}
ToSend == {job[2] : job \in jobs}
Returned == {ElementAt(i).name : i \in Stored}

AddressesOf(nets) == UNION {Start(nets[k])..Finish(nets[k]) : k \in DOMAIN nets}
Scanned1 == UNION {AddressesOf(Settings[n]) : n \in 1..Passed}

\* What answers is in the slice, in a worker's hands or still to be dialled.
NoneLost ==
    /\ \A i \in Stored : ElementAt(i).name \in up /\ ElementAt(i).target = ElementAt(i).name
    /\ \A w \in Workers : worker[w].pc \in Holding \ {"dial"} => worker[w].job \in up
    /\ (Returned \cup InHand \cup ToSend) \cap up = Scanned1 \cap up

\* ... and only once.
NoneTwice ==
    /\ \A i, j \in Stored : ElementAt(i).name = ElementAt(j).name => i = j
    /\ \A v, w \in Workers :
         worker[v].pc \in Holding /\ worker[w].pc \in Holding
         /\ worker[v].job = worker[w].job => v = w
    /\ \A i, j \in jobs : i[2] = j[2] => i = j
    /\ Returned \cap (InHand \cup ToSend) = {}
    /\ InHand \cap ToSend = {}

ScanInv ==
    Plugin = "network" /\ find.pc \in {"next", "scan"} /\ find.clean =>
        /\ SliceInv /\ NoneLost
        /\ ~Ambiguous => NoneTwice

FindInv ==
    part = "find" => /\ FindOK /\ ScanOK /\ TodoInv /\ NamespacesInv
                     /\ ScanInv /\ FindExact

-----------------------------------------------------------------------------
(* Subnets *)

\* 2^n counts the subsets of n things: all that is needed of the exponentiation.
LEMMA Power ==
    ASSUME NEW n \in Nat
    PROVE  IsFiniteSet(1..n) /\ IsFiniteSet(SUBSET (1..n)) /\ Cardinality(SUBSET (1..n)) = 2^n
<1>1. IsFiniteSet(1..n) /\ Cardinality(1..n) = n
    BY FS_Interval
<1>2. QED
    BY <1>1, FS_SUBSET

\* A power of two is positive.
LEMMA PowerPositive ==
    ASSUME NEW n \in Nat
    PROVE  2^n \in Nat \ {0}
<1>1. IsFiniteSet(SUBSET (1..n)) /\ Cardinality(SUBSET (1..n)) = 2^n
    BY Power
<1>2. Cardinality(SUBSET (1..n)) \in Nat
    BY <1>1, FS_CardinalityType
<1>3. SUBSET (1..n) # {}
    OBVIOUS
<1>4. Cardinality(SUBSET (1..n)) # 0
    BY <1>1, <1>3, FS_EmptySet
<1>5. QED
    BY <1>1, <1>2, <1>4

\* 2^(m + n) = 2^m * 2^n: a subset of m + n things is one of m and one of n.
LEMMA PowerSum ==
    ASSUME NEW m \in Nat, NEW n \in Nat
    PROVE  2^(m + n) = 2^m * 2^n
<1> DEFINE A == SUBSET (1..m)
           B == SUBSET (1..n)
           Shift(T) == {m + k : k \in T}
           f == [p \in A \X B |-> p[1] \cup Shift(p[2])]
<1>1. IsFiniteSet(A) /\ IsFiniteSet(B) /\ Cardinality(A) = 2^m /\ Cardinality(B) = 2^n
    BY Power
<1>2. IsFiniteSet(A \X B) /\ Cardinality(A \X B) = 2^m * 2^n
    <2> HIDE DEF A, B
    <2>1. QED
        BY <1>1, FS_Product
<1>3. f \in [A \X B -> SUBSET (1..(m + n))]
    <2>1. ASSUME NEW S \in A, NEW T \in B
          PROVE S \cup Shift(T) \subseteq 1..(m + n)
        <3>1. \A k \in T : m + k \in 1..(m + n)
            <4>1. \A k \in T : k \in 1..n
                OBVIOUS
            <4>2. QED
                BY <4>1
        <3>2. Shift(T) \subseteq 1..(m + n)
            BY <3>1
        <3>3. \A k \in S : k \in 1..m
            OBVIOUS
        <3>4. S \subseteq 1..(m + n)
            BY <3>3
        <3>5. QED
            BY <3>2, <3>4
    <2>2. QED
        BY <2>1
<1>4. ASSUME NEW p \in A \X B, NEW q \in A \X B, f[p] = f[q]
      PROVE  p = q
    <2>1. \A r \in A \X B : r[1] = f[r] \cap (1..m)
        <3>1. TAKE r \in A \X B
        <3>2. PICK S \in A, T \in B : r = <<S, T>>
            OBVIOUS
        <3>3. f[r] = S \cup Shift(T)
            BY <3>2
        <3>4. \A k \in T : k \in 1..n
            OBVIOUS
        <3>5. Shift(T) \cap (1..m) = {}
            BY <3>4
        <3>6. QED
            BY <3>2, <3>3, <3>5
    <2>2. \A r \in A \X B : r[2] = {k \in 1..n : m + k \in f[r]}
        <3>1. TAKE r \in A \X B
        <3>2. PICK S \in A, T \in B : r = <<S, T>>
            OBVIOUS
        <3>3. f[r] = S \cup Shift(T)
            BY <3>2
        <3>4. \A k \in 1..n : m + k \notin S
            OBVIOUS
        <3>5. \A k \in 1..n : m + k \in Shift(T) <=> k \in T
            OBVIOUS
        <3>6. QED
            BY <3>2, <3>3, <3>4, <3>5
    <2>3. p[1] = q[1] /\ p[2] = q[2]
        <3> HIDE DEF f, A, B
        <3>1. QED
            BY <2>1, <2>2, <1>4
    <2>4. QED
        BY <2>3
<1>5. ASSUME NEW U \in SUBSET (1..(m + n))
      PROVE  \E p \in A \X B : f[p] = U
    <2> DEFINE S == U \cap (1..m)
               T == {k \in 1..n : m + k \in U}
    <2>1. S \in A /\ T \in B
        OBVIOUS
    <2>2. f[<<S, T>>] = S \cup Shift(T)
        BY <2>1
    <2>3. ASSUME NEW u \in U PROVE u \in S \cup Shift(T)
        <3>1. CASE u \in 1..m
            BY <3>1
        <3>2. CASE u \notin 1..m
            <4>1. u - m \in 1..n /\ u = m + (u - m)
                BY <3>2
            <4>2. QED
                BY <4>1
        <3>3. QED
            BY <3>1, <3>2
    <2>4. S \cup Shift(T) \subseteq U
        OBVIOUS
    <2>5. QED
        BY <2>1, <2>2, <2>3, <2>4
<1>6. f \in Bijection(A \X B, SUBSET (1..(m + n)))
    BY <1>3, <1>4, <1>5 DEF Bijection, Injection, Surjection, IsInjective
<1>7. ExistsBijection(A \X B, SUBSET (1..(m + n)))
    BY <1>6 DEF ExistsBijection
<1>8. Cardinality(SUBSET (1..(m + n))) = Cardinality(A \X B)
    BY <1>2, <1>7, FS_Bijection
<1>9. Cardinality(SUBSET (1..(m + n))) = 2^(m + n)
    BY Power, m + n \in Nat
<1>10. QED
    BY <1>2, <1>8, <1>9

\* Only the power with exponent 0 is less than 2.
LEMMA SmallPowers == 2^0 = 1 /\ \A n \in Nat \ {0} : 2^n >= 2
<1>1. 2^0 = 1
    <2>1. SUBSET (1..0) = {{}}
        OBVIOUS
    <2>2. Cardinality({{}}) = 1
        BY FS_Singleton
    <2>3. Cardinality(SUBSET (1..0)) = 2^0
        BY Power
    <2>4. QED
        BY <2>1, <2>2, <2>3
<1>2. ASSUME NEW n \in Nat \ {0} PROVE 2^n >= 2
    <2>1. IsFiniteSet(SUBSET (1..n)) /\ Cardinality(SUBSET (1..n)) = 2^n
        BY Power
    <2>2. 2^n \in Nat \ {0}
        BY PowerPositive
    <2>3. ASSUME 2^n = 1 PROVE FALSE
        <3>1. PICK x : SUBSET (1..n) = {x}
            BY <2>1, <2>3, FS_Singleton
        <3>2. {} \in SUBSET (1..n) /\ 1..n \in SUBSET (1..n) /\ 1 \in 1..n
            OBVIOUS
        <3>3. 1..n # {}
            BY 1 \in 1..n
        <3>4. x = {} /\ x = 1..n
            BY <3>1, <3>2
        <3>5. QED
            BY <3>3, <3>4
    <2>4. QED
        BY <2>2, <2>3
<1>3. QED
    BY <1>1, <1>2


\* What division and remainder are.
LEMMA Division ==
    ASSUME NEW a \in Nat, NEW b \in Nat \ {0}
    PROVE  /\ a \div b \in Nat /\ a % b \in 0..(b - 1)
           /\ a = b * (a \div b) + (a % b)
OBVIOUS

\* A quotient by the bounds of its block.
LEMMA Quotient ==
    ASSUME NEW a \in Nat, NEW b \in Nat \ {0}, NEW q \in Nat
    PROVE  a \div b = q <=> b * q <= a /\ a <= b * q + b - 1
<1>1. /\ a \div b \in Nat /\ a % b \in 0..(b - 1)
      /\ a = b * (a \div b) + (a % b)
    BY Division
<1>2. CASE a \div b = q
    BY <1>1, <1>2
<1>3. CASE a \div b < q
    <2>1. a \div b + 1 <= q
        BY <1>1, <1>3
    <2>2. b * (a \div b + 1) <= b * q
        BY <2>1, <1>1
    <2>3. b * (a \div b + 1) = b * (a \div b) + b
        BY <1>1
    <2>4. QED
        BY <2>2, <2>3, <1>1, <1>3
<1>4. CASE a \div b > q
    <2>1. a \div b >= q + 1
        BY <1>1, <1>4
    <2>2. b * (a \div b) >= b * (q + 1)
        BY <2>1, <1>1
    <2>3. b * (q + 1) = b * q + b
        BY <1>1
    <2>4. QED
        BY <2>2, <2>3, <1>1, <1>4
<1>5. QED
    BY <1>1, <1>2, <1>3, <1>4

\* A subnet is one of the equal blocks into which its length cuts the addresses.
LEMMA Blocks ==
    ASSUME NEW net \in Subnet
    PROVE  /\ Top \in Nat
           /\ BlockSize(net) \in Nat \ {0} /\ (BlockSize(net) = 1 <=> net.length = Bits)
           /\ \E m \in Nat \ {0} : Top + 1 = BlockSize(net) * m
<1>1. Bits \in Nat /\ net.length \in Nat /\ Bits - net.length \in Nat
    BY PartsAssumption DEF Subnet
<1>2. 2^Bits \in Nat \ {0} /\ 2^(net.length) \in Nat \ {0} /\ 2^(Bits - net.length) \in Nat \ {0}
    BY <1>1, PowerPositive
<1>3. Bits = (Bits - net.length) + net.length
    BY <1>1
<1>4. 2^Bits = 2^(Bits - net.length) * 2^(net.length)
    BY <1>1, <1>3, PowerSum
<1>5. 2^(Bits - net.length) = 1 <=> net.length = Bits
    <2>1. CASE net.length = Bits
        <3>1. Bits - net.length = 0
            BY <2>1, <1>1
        <3>2. QED
            BY <2>1, <3>1, SmallPowers
    <2>2. CASE net.length # Bits
        <3>1. Bits - net.length \in Nat \ {0}
            BY <2>2, <1>1
        <3>2. 2^(Bits - net.length) >= 2
            BY <3>1, SmallPowers
        <3>3. QED
            BY <2>2, <3>2, <1>2
    <2>3. QED
        BY <2>1, <2>2
<1>6. QED
    BY <1>2, <1>4, <1>5 DEF Top, BlockSize

\* The network's and the broadcast address are the ends of a subnet's block.
LEMMA BlockIs ==
    ASSUME NEW net \in Subnet
    PROVE  /\ NetworkOf(net) \in Nat /\ Broadcast(net) \in Addresses
           /\ Broadcast(net) = NetworkOf(net) + BlockSize(net) - 1
           /\ Block(net) = NetworkOf(net)..Broadcast(net)
           /\ Top \in Nat /\ BlockSize(net) \in Nat \ {0}
           /\ BlockSize(net) = 1 <=> net.length = Bits
<1> DEFINE B == BlockSize(net)
           q == net.base \div B
<1>1. /\ Top \in Nat /\ B \in Nat \ {0} /\ (B = 1 <=> net.length = Bits)
      /\ \E m \in Nat \ {0} : Top + 1 = B * m
    BY Blocks
<1>2. net.base \in 0..Top /\ net.base \in Nat
    BY <1>1 DEF Subnet, Addresses
<1> HIDE DEF B
<1>3. q \in Nat /\ net.base % B \in 0..(B - 1) /\ net.base = B * q + (net.base % B)
    BY <1>1, <1>2, Division
<1>4. NetworkOf(net) = B * q /\ B * q \in Nat
    BY <1>1, <1>3 DEF NetworkOf, B
<1>5. Broadcast(net) = B * q + B - 1
    BY <1>4 DEF Broadcast, B
<1>6. B * q + B - 1 <= Top
    <2>1. PICK m \in Nat \ {0} : Top + 1 = B * m
        BY <1>1
    <2>2. ASSUME q >= m PROVE FALSE
        <3>1. B * q >= B * m
            <4>1. m \in Nat /\ q \in Nat /\ B \in Nat
                BY <2>1, <1>1, <1>3
            <4> HIDE DEF q
            <4>2. q = m + (q - m) /\ q - m \in Nat
                BY <4>1, <2>2
            <4>3. B * q = B * m + B * (q - m) /\ B * (q - m) >= 0
                BY <4>1, <4>2
            <4>4. QED
                BY <4>1, <4>3
        <3>2. QED
            BY <3>1, <2>1, <1>1, <1>2, <1>3, <1>4
    <2>3. q + 1 <= m
        BY <2>1, <2>2, <1>3
    <2>4. B * (q + 1) <= B * m
        BY <2>1, <2>3, <1>1, <1>3
    <2>5. B * (q + 1) = B * q + B
        BY <1>1, <1>3
    <2>6. QED
        BY <2>1, <2>4, <2>5, <1>1, <1>4
<1>7. \A a \in Nat : a \div B = q <=> B * q <= a /\ a <= B * q + B - 1
    BY <1>1, <1>3, Quotient
<1>8. Block(net) = {a \in 0..Top : a \div B = q}
    BY DEF Block, B
<1>9. Block(net) = (B * q)..(B * q + B - 1)
    BY <1>1, <1>4, <1>6, <1>7, <1>8
<1>10. QED
    BY <1>1, <1>4, <1>5, <1>6, <1>9 DEF Addresses, B

\* start and finish are a subnet's first and last hosts.
LEMMA HostsAre ==
    ASSUME NEW net \in Subnet
    PROVE  Start(net)..Finish(net) = Hosts(net) /\ Hosts(net) \subseteq Addresses
<1> DEFINE N == NetworkOf(net)
           L == Broadcast(net)
<1>1. /\ N \in Nat /\ L \in 0..Top /\ Top \in Nat /\ L = N + BlockSize(net) - 1
      /\ BlockSize(net) \in Nat \ {0} /\ (BlockSize(net) = 1 <=> net.length = Bits)
      /\ Block(net) = N..L
    BY BlockIs DEF Addresses
<1> HIDE DEF N, L
<1>2. CASE net.length = Bits
    <2>1. N = L
        BY <1>1, <1>2
    <2>2. Start(net) = N /\ Finish(net) = L
        BY <2>1 DEF Start, Finish, Alone, N, L
    <2>3. Hosts(net) = N..L
        BY <1>1, <1>2 DEF Hosts
    <2>4. QED
        BY <2>2, <2>3, <1>1 DEF Addresses
<1>3. CASE net.length # Bits
    <2>1. N < L
        BY <1>1, <1>3
    <2>2. Start(net) = N + 1 /\ Finish(net) = L - 1
        BY <2>1, <1>1 DEF Start, Finish, Alone, N, L
    <2>3. Hosts(net) = {a \in N..L : \E b, c \in N..L : b < a /\ a < c}
        BY <1>1, <1>3 DEF Hosts
    <2>4. \A a \in N..L : (\E b, c \in N..L : b < a /\ a < c) <=> N < a /\ a < L
        <3>1. N \in N..L /\ L \in N..L
            BY <2>1, <1>1
        <3>2. QED
            BY <3>1, <2>1, <1>1
    <2>5. QED
        BY <2>2, <2>3, <2>4, <1>1 DEF Addresses
<1>4. QED
    BY <1>2, <1>3

-----------------------------------------------------------------------------
(* The addresses of a network *)

\* A non-empty set of naturals has a least element.
LEMMA Least ==
    ASSUME NEW T \in SUBSET Nat, T # {}
    PROVE  \E m \in T : \A n \in T : m <= n
<1> DEFINE R == {p \in Nat \X Nat : p[1] < p[2]}
<1>1. IsWellFoundedOn(R, Nat)
    BY NatLessThanWellFounded, Zenon DEF OpToRel
<1>2. \A x, y \in Nat : <<y, x>> \in R <=> y < x
    OBVIOUS
<1> HIDE DEF R
<1>3. PICK m \in T : \A n \in T : ~(<<n, m>> \in R)
    BY <1>1, WFMin
<1>4. ASSUME NEW n \in T PROVE m <= n
    <2>1. m \in Nat /\ n \in Nat /\ ~(n < m)
        BY <1>2, <1>3
    <2>2. QED
        BY <2>1
<1>5. QED
    BY <1>4

\* subnetToIps gives every host of the subnets exactly once.
LEMMA JobsOf ==
    ASSUME NEW nets \in Seq(Subnet)
    PROVE  /\ SubnetToIps(nets) \subseteq Nat \X Addresses
           /\ AddressesOf(nets) = UNION {Hosts(net) : net \in ToSet(nets)}
           /\ {job[2] : job \in SubnetToIps(nets)} = AddressesOf(nets)
           /\ \A i, j \in SubnetToIps(nets) : i[2] = j[2] => i = j
<1> DEFINE From(k) == Start(nets[k])..Finish(nets[k])
<1>1. /\ DOMAIN nets = 1..Len(nets) /\ Len(nets) \in Nat
      /\ \A k \in DOMAIN nets : nets[k] \in Subnet
    OBVIOUS
<1>2. \A k \in DOMAIN nets : From(k) = Hosts(nets[k]) /\ From(k) \subseteq Addresses
    BY <1>1, HostsAre
<1> HIDE DEF From
<1>3. \A k : NewAddresses(nets, k) = From(k) \ UNION {From(j) : j \in 1..k - 1}
    BY DEF NewAddresses, Cached, From
<1>4. AddressesOf(nets) = UNION {From(k) : k \in DOMAIN nets}
    BY DEF AddressesOf, From
<1>5. \A job \in SubnetToIps(nets) :
          \E k \in DOMAIN nets : job = <<k, job[2]>> /\ job[2] \in NewAddresses(nets, k)
    BY DEF SubnetToIps
<1>6. \A k \in DOMAIN nets : \A a \in NewAddresses(nets, k) : <<k, a>> \in SubnetToIps(nets)
    BY DEF SubnetToIps
<1>7. SubnetToIps(nets) \subseteq Nat \X Addresses
    <2>1. ASSUME NEW job \in SubnetToIps(nets) PROVE job \in Nat \X Addresses
        <3>1. PICK k \in DOMAIN nets : job = <<k, job[2]>> /\ job[2] \in NewAddresses(nets, k)
            BY <1>5
        <3>2. job[2] \in Addresses /\ k \in Nat
            BY <3>1, <1>1, <1>2, <1>3
        <3>3. QED
            BY <3>1, <3>2
    <2>2. QED
        BY <2>1
<1>8. AddressesOf(nets) = UNION {Hosts(net) : net \in ToSet(nets)}
    BY <1>2, <1>4 DEF ToSet
<1>9. ASSUME NEW a \in AddressesOf(nets) PROVE \E job \in SubnetToIps(nets) : job[2] = a
    <2> DEFINE T == {k \in DOMAIN nets : a \in From(k)}
    <2>1. T \in SUBSET Nat /\ T # {}
        BY <1>1, <1>4, <1>9
    <2>2. PICK k \in T : \A j \in T : k <= j
        BY <2>1, Least
    <2>3. \A j \in 1..k - 1 : a \notin From(j)
        BY <2>2, <1>1
    <2>4. a \in NewAddresses(nets, k)
        BY <2>2, <2>3, <1>3
    <2>5. <<k, a>> \in SubnetToIps(nets)
        BY <2>4, <1>6
    <2>6. QED
        BY <2>5
<1>10. ASSUME NEW job \in SubnetToIps(nets) PROVE job[2] \in AddressesOf(nets)
    BY <1>3, <1>4, <1>5
<1>11. ASSUME NEW i \in SubnetToIps(nets), NEW j \in SubnetToIps(nets), i[2] = j[2]
       PROVE  i = j
    <2>1. PICK k \in DOMAIN nets : i = <<k, i[2]>> /\ i[2] \in NewAddresses(nets, k)
        BY <1>5
    <2>2. PICK l \in DOMAIN nets : j = <<l, j[2]>> /\ j[2] \in NewAddresses(nets, l)
        BY <1>5
    <2>3. ~(k < l)
        BY <2>1, <2>2, <1>1, <1>3, <1>11
    <2>4. ~(l < k)
        BY <2>1, <2>2, <1>1, <1>3, <1>11
    <2>5. k = l
        BY <2>3, <2>4, <1>1
    <2>6. QED
        BY <2>1, <2>2, <2>5, <1>11
<1>12. QED
    BY <1>7, <1>8, <1>9, <1>10, <1>11

-----------------------------------------------------------------------------
(* Types *)

\* There are five plugins.
LEMMA PluginIs ==
    ASSUME FindOK
    PROVE  Plugin \in Plugins
BY PartsAssumption DEF FindOK, Plugin

\* The steps that leave the scan's variables alone keep the types.
LEMMA ListingTypes ==
    ASSUME FindOK, ScanOK,
           Begin \/ Deliver \/ ListStep \/ ListFails \/ NamespaceFails \/ WorldChanges
    PROVE  FindOK' /\ ScanOK'
<1> USE DEF FindOK, FindPC, NoFind, Plugin, scanVars, Found, Fault, Collects
<1>0. Plugin \in Plugins
    BY PluginIs
<1>1. UNCHANGED scanVars /\ UNCHANGED scenario
    BY DEF Begin, Deliver, ListStep, FindDocker, FindEc2, NextNamespace, ReturnK8,
           FindStatic, ListFails, NamespaceFails, WorldChanges
<1>2. FindOK' /\ (find'.pc # "scan" => find.pc # "scan")
      /\ (Collects => Collects')
    <2>1. CASE Begin
        BY <2>1, <1>0 DEF Begin, Plugins
    <2>2. CASE Deliver
        BY <2>2 DEF Deliver
    <2>3. CASE FindDocker
        BY <2>3 DEF FindDocker
    <2>4. CASE FindEc2
        BY <2>4 DEF FindEc2
    <2>5. CASE NextNamespace
        BY <2>5 DEF NextNamespace
    <2>6. CASE ReturnK8
        BY <2>6 DEF ReturnK8
    <2>7. CASE FindStatic
        BY <2>7 DEF FindStatic
    <2>8. CASE ListFails
        BY <2>8 DEF ListFails
    <2>9. CASE NamespaceFails
        BY <2>9 DEF NamespaceFails
    <2>10. CASE WorldChanges
        BY <2>10 DEF WorldChanges
    <2>11. QED
        BY <2>1, <2>2, <2>3, <2>4, <2>5, <2>6, <2>7, <2>8, <2>9, <2>10 DEF ListStep
<1>3. QED
    BY <1>1, <1>2 DEF ScanOK, Idle, Words, Collects

\* A worker that runs is one of a scan.
LEMMA Scanning ==
    ASSUME FindOK, ScanOK, NEW w \in Workers, worker[w].pc # "off"
    PROVE  /\ find.pc = "scan" /\ Plugin = "network"
           /\ worker \in [Workers -> [pc : WorkerPC, job : Addresses \cup {None}, mine : Words]]
           /\ heap \in Seq(Seq(Cell)) /\ slice \in Words
BY DEF FindOK, ScanOK, Idle

\* The network, or namespace, that is next.
LEMMA NextIs ==
    ASSUME TodoInv, find.pc = "next", find.todo # <<>>
    PROVE  /\ Passed + 1 \in DOMAIN Settings /\ Passed \in Nat
           /\ Head(find.todo) = Settings[Passed + 1]
           /\ Tail(find.todo) \in Seq(ToSet(Settings))
           /\ Len(Tail(find.todo)) = Len(find.todo) - 1
           /\ Len(Settings) - Len(Tail(find.todo)) = Passed + 1
           /\ \A i \in 1..Len(Tail(find.todo)) :
                 Tail(find.todo)[i] = Settings[Passed + 1 + i]
<1> DEFINE T == find.todo
           S == Settings
<1>1. /\ S \in Seq(ToSet(S)) /\ T \in Seq(ToSet(S)) /\ Len(T) <= Len(S)
      /\ \A i \in 1..Len(T) : T[i] = S[(Len(S) - Len(T)) + i]
    BY DEF TodoInv, Passed
<1> HIDE DEF T, S
<1>2. Len(T) \in Nat \ {0} /\ Len(S) \in Nat /\ DOMAIN S = 1..Len(S)
    <2>1. T # <<>>
        BY DEF T
    <2>2. QED
        BY <2>1, <1>1
<1>3. /\ Head(T) = T[1] /\ Tail(T) \in Seq(ToSet(S)) /\ Len(Tail(T)) = Len(T) - 1
      /\ \A i \in 1..Len(Tail(T)) : Tail(T)[i] = T[i + 1]
    BY <1>1, <1>2
<1>4. \A i \in 1..Len(Tail(T)) : Tail(T)[i] = S[(Len(S) - Len(T)) + 1 + i]
    <2>1. TAKE i \in 1..Len(Tail(T))
    <2>2. i + 1 \in 1..Len(T) /\ Tail(T)[i] = T[i + 1]
        BY <1>2, <1>3
    <2>3. (Len(S) - Len(T)) + (i + 1) = (Len(S) - Len(T)) + 1 + i
        BY <1>2, <1>3
    <2>4. QED
        BY <2>2, <2>3, <1>1
<1>5. Len(S) - Len(T) + 1 \in DOMAIN S /\ Len(S) - Len(T) \in Nat
    BY <1>1, <1>2
<1>6. Head(T) = S[Len(S) - Len(T) + 1]
    BY <1>1, <1>2, <1>3
<1>7. Passed = Len(S) - Len(T)
    BY DEF T, S, Passed
<1>8. /\ Passed + 1 \in DOMAIN S /\ Passed \in Nat /\ Head(T) = S[Passed + 1]
      /\ Len(S) - Len(Tail(T)) = Passed + 1
      /\ \A i \in 1..Len(Tail(T)) : Tail(T)[i] = S[Passed + 1 + i]
    BY <1>2, <1>3, <1>4, <1>5, <1>6, <1>7
<1>9. QED
    BY <1>3, <1>8 DEF T, S

\* The configured networks are lists of subnets.
LEMMA NetworksAre ==
    ASSUME FindOK, Plugin = "network"
    PROVE  Settings \in Seq(Seq(Subnet))
<1>1. scenario \in Scenarios /\ scenario.plugin = "network"
    BY DEF FindOK, Plugin
<1>2. \A s \in Scenarios :
          s.plugin = "network" => s.settings \in Seq(Seq([base : 0..Top, length : 0..Bits]))
    BY ScenariosAssumption, Zenon
<1>3. QED
    BY <1>1, <1>2 DEF Settings, Subnet, Addresses

\* The steps between two networks keep the types.
LEMMA DispatchTypes ==
    ASSUME FindOK, ScanOK, TodoInv, NextNetwork \/ ScanEnds \/ ReturnScan \/ WildRead
    PROVE  FindOK' /\ ScanOK'
<1> USE DEF FindOK, FindPC, NoFind, Plugin, scanVars, Found
<1>1. CASE NextNetwork
    <2>1. Head(find.todo) \in Seq(Subnet)
        BY <1>1, NextIs, NetworksAre DEF NextNetwork
    <2>2. SubnetToIps(Head(find.todo)) \subseteq Nat \X Addresses
        BY <2>1, JobsOf
    <2>3. CASE \E n \in DOMAIN Head(find.todo) : NeverEnds(Head(find.todo)[n])
        <3>1. find' = [find EXCEPT !.pc = "stuck"] /\ UNCHANGED <<jobs, worker>>
              /\ UNCHANGED <<scenario, up, slice, heap>> /\ Plugin = "network" /\ find.pc = "next"
            BY <1>1, <2>3 DEF NextNetwork
        <3>2. FindOK'
            BY <3>1
        <3>3. ScanOK'
            BY <3>1 DEF ScanOK, Idle, Words, Collects
        <3>4. QED
            BY <3>2, <3>3
    <2>4. CASE ~\E n \in DOMAIN Head(find.todo) : NeverEnds(Head(find.todo)[n])
        <3>1. /\ jobs' = SubnetToIps(Head(find.todo))
              /\ find' = [find EXCEPT !.todo = Tail(@),
                                      !.pc = IF jobs' = {} THEN "next" ELSE "scan"]
              /\ worker' = [w \in Workers |->
                               [Off EXCEPT !.pc = IF jobs' = {} THEN "off" ELSE "take"]]
              /\ UNCHANGED <<scenario, up, slice, heap>> /\ Plugin = "network" /\ find.pc = "next"
            BY <1>1, <2>4 DEF NextNetwork
        <3>2. FindOK'
            BY <3>1
        <3>3. /\ jobs' \subseteq Nat \X Addresses /\ heap' \in Seq(Seq(Cell)) /\ slice' \in Words'
              /\ Collects'
            BY <3>1, <3>2, <2>2 DEF ScanOK, Words, Collects
        <3>4. [array |-> 0, len |-> 0, cap |-> 0] \in Words'
            BY <3>3 DEF Words
        <3>5. \A w \in Workers : worker'[w] = [Off EXCEPT !.pc = IF jobs' = {} THEN "off" ELSE "take"]
            BY <3>1
        <3>6. worker' \in [Workers -> [pc : WorkerPC, job : Addresses \cup {None}, mine : Words']]
            BY <3>1, <3>4 DEF Off, WorkerPC
        <3>7. \A w \in Workers : /\ worker'[w].pc \notin Holding
                                 /\ worker'[w].pc = "off" => worker'[w] = Off
            BY <3>5 DEF Off, Holding
        <3>8. find'.pc # "scan" => Idle'
            BY <3>1, <3>5 DEF Idle, Off
        <3>9. ScanOK'
            BY <3>3, <3>6, <3>7, <3>8 DEF ScanOK
        <3>10. QED
            BY <3>2, <3>9
    <2>5. QED
        BY <2>3, <2>4
<1>2. CASE ScanEnds
    BY <1>2 DEF ScanEnds, ScanOK, Idle, Words, Collects
<1>3. CASE ReturnScan \/ WildRead
    <2>1. /\ slice' = NilSlice /\ heap' = <<>> /\ UNCHANGED <<scenario, up, jobs, worker>>
          /\ find.pc = "next" /\ Plugin = "network" /\ find'.pc \in {"found", "crashed"}
        BY <1>3 DEF ReturnScan, WildRead
    <2>2. FindOK'
        BY <1>3 DEF ReturnScan, WildRead
    <2>3. \A w \in Workers : worker[w] = Off
        BY <2>1 DEF ScanOK, Idle
    <2>4. worker' \in [Workers -> [pc : WorkerPC, job : Addresses \cup {None}, mine : Words']]
        BY <2>1, <2>3 DEF ScanOK, Words, Off, WorkerPC
    <2>5. slice' \in Words' /\ heap' \in Seq(Seq(Cell))
        BY <2>1 DEF Words, NilSlice
    <2>6. ScanOK'
        <3>1. jobs' \subseteq Nat \X Addresses /\ Idle' /\ slice' = NilSlice /\ heap' = <<>>
            BY <2>1 DEF ScanOK, Idle
        <3>2. \A w \in Workers : worker'[w] = Off /\ worker'[w].pc \notin Holding
            BY <2>1, <2>3 DEF Off, Holding
        <3>3. QED
            BY <2>4, <2>5, <3>1, <3>2 DEF ScanOK
    <2>7. QED
        BY <2>2, <2>6
<1>4. QED
    BY <1>1, <1>2, <1>3

\* A step of one worker that leaves the arrays alone.
LEMMA WorkerKeeps ==
    ASSUME FindOK, ScanOK, NEW w \in Workers, worker[w].pc # "off",
           UNCHANGED <<scenario, up, heap>>, jobs' \subseteq jobs,
           find' = find \/ find' = [find EXCEPT !.clean = find'.clean], find'.clean \in BOOLEAN,
           slice' \in Words,
           NEW r \in [pc : WorkerPC, job : Addresses \cup {None}, mine : Words],
           r.pc \in Holding => r.job \in Addresses,
           r.pc = "off" => r = Off,
           worker' = [worker EXCEPT ![w] = r]
    PROVE  FindOK' /\ ScanOK'
<1>1. find.pc = "scan" /\ Plugin = "network" /\ find'.pc = "scan"
    BY Scanning DEF FindOK
<1>2. FindOK'
    BY <1>1 DEF FindOK, Plugin
<1>3. jobs' \subseteq Nat \X Addresses /\ heap' \in Seq(Seq(Cell)) /\ slice' \in Words'
    BY DEF ScanOK, Words
<1>4. worker' \in [Workers -> [pc : WorkerPC, job : Addresses \cup {None}, mine : Words']]
    BY DEF ScanOK, Words
<1>5. \A v \in Workers : /\ worker'[v].pc \in Holding => worker'[v].job \in Addresses
                         /\ worker'[v].pc = "off" => worker'[v] = Off
    BY DEF ScanOK
<1>6. Collects'
    BY <1>1 DEF Collects, Plugin
<1>7. QED
    BY <1>1, <1>2, <1>3, <1>4, <1>5, <1>6 DEF ScanOK

\* The steps of a worker that do not write an array keep the types.
LEMMA WorkerTypes ==
    ASSUME FindOK, ScanOK, NEW w \in Workers,
           Take(w) \/ Leave(w) \/ Dial(w) \/ ReadSlice(w) \/ Reserve(w)
    PROVE  FindOK' /\ ScanOK'
<1> DEFINE Worker == [pc : WorkerPC, job : Addresses \cup {None}, mine : Words]
<1>1. worker[w].pc # "off"
    BY DEF Take, Leave, Dial, ReadSlice, Reserve
<1>2. /\ worker \in [Workers -> Worker] /\ slice \in Words /\ worker[w] \in Worker
      /\ find.clean \in BOOLEAN /\ jobs \subseteq Nat \X Addresses
      /\ worker[w].pc \in Holding => worker[w].job \in Addresses
      /\ slice.len \in Nat
    BY <1>1, Scanning DEF FindOK, ScanOK, Words
<1>3. CASE Take(w)
    <2>1. PICK job \in jobs :
              worker' = [worker EXCEPT ![w].pc = "dial", ![w].job = job[2]]
              /\ jobs' = jobs \ {job}
        BY <1>3 DEF Take
    <2> DEFINE r == [worker[w] EXCEPT !.pc = "dial", !.job = job[2]]
    <2>2. job[2] \in Addresses
        BY <1>2
    <2>3. r \in Worker /\ r.pc = "dial" /\ r.job = job[2] /\ worker' = [worker EXCEPT ![w] = r]
        BY <1>2, <2>1, <2>2 DEF WorkerPC
    <2> HIDE DEF r
    <2>4. QED
        BY <1>1, <1>2, <1>3, <2>1, <2>2, <2>3, WorkerKeeps DEF Take
<1>4. CASE Leave(w)
    <2>1. Off \in Worker /\ worker' = [worker EXCEPT ![w] = Off] /\ Off.pc = "off"
        BY <1>4 DEF Leave, Off, WorkerPC, Words
    <2>2. QED
        BY <1>1, <1>2, <1>4, <2>1, WorkerKeeps DEF Leave, Holding
<1>5. CASE Dial(w)
    <2>1. PICK pc \in {"append", "take"} : WorkerGoes(w, pc)
        BY <1>5 DEF Dial
    <2> DEFINE r == [worker[w] EXCEPT !.pc = pc]
    <2>2. r \in Worker /\ r.pc = pc /\ r.job = worker[w].job /\ worker' = [worker EXCEPT ![w] = r]
        BY <1>2, <2>1 DEF WorkerPC, WorkerGoes
    <2>3. worker[w].job \in Addresses
        BY <1>2, <1>5 DEF Dial, Holding
    <2>4. find' = find \/ find' = [find EXCEPT !.clean = FALSE]
        BY <1>5 DEF Dial
    <2>5. find'.clean \in BOOLEAN /\ (find' = find \/ find' = [find EXCEPT !.clean = find'.clean])
        BY <2>4, <1>2 DEF FindOK
    <2> HIDE DEF r
    <2>6. QED
        BY <1>1, <1>2, <1>5, <2>1, <2>2, <2>3, <2>5, WorkerKeeps DEF Dial, WorkerGoes
<1>6. CASE ReadSlice(w)
    <2> DEFINE r == [worker[w] EXCEPT !.pc = "reserve", !.mine = slice]
    <2>1. r \in Worker /\ r.pc = "reserve" /\ r.job = worker[w].job
          /\ worker' = [worker EXCEPT ![w] = r]
        BY <1>2, <1>6 DEF WorkerPC, ReadSlice
    <2>2. worker[w].job \in Addresses
        BY <1>2, <1>6 DEF ReadSlice, Holding
    <2>3. find'.clean \in BOOLEAN /\ find' = [find EXCEPT !.clean = find'.clean]
        BY <1>6, <1>2 DEF FindOK, ReadSlice
    <2> HIDE DEF r
    <2>4. QED
        BY <1>1, <1>2, <1>6, <2>1, <2>2, <2>3, WorkerKeeps DEF ReadSlice
<1>7. CASE Reserve(w)
    <2> DEFINE r == [worker[w] EXCEPT !.pc = "name"]
    <2>1. r \in Worker /\ r.pc = "name" /\ r.job = worker[w].job
          /\ worker' = [worker EXCEPT ![w] = r]
        BY <1>2, <1>7 DEF WorkerPC, Reserve, WorkerGoes
    <2>2. worker[w].job \in Addresses
        BY <1>2, <1>7 DEF Reserve, Holding
    <2>3. slice' \in Words
        <3>1. worker[w].mine \in Words
            BY <1>2
        <3>2. worker[w].mine.len + 1 \in Nat
            BY <3>1 DEF Words
        <3>3. slice' = [slice EXCEPT !.len = worker[w].mine.len + 1]
            BY <1>7 DEF Reserve
        <3>4. QED
            BY <1>2, <3>2, <3>3 DEF Words
    <2> HIDE DEF r
    <2>4. QED
        BY <1>1, <1>2, <1>7, <2>1, <2>2, <2>3, WorkerKeeps DEF Reserve, WorkerGoes
<1>8. QED
    BY <1>3, <1>4, <1>5, <1>6, <1>7

-----------------------------------------------------------------------------
(* The arrays *)

\* A function on 1..n with values in S is a sequence.
LEMMA IsSeq ==
    ASSUME NEW S, NEW n \in Nat, NEW t, t = [j \in 1..n |-> t[j]],
           \A j \in 1..n : t[j] \in S
    PROVE  t \in Seq(S) /\ Len(t) = n
<1>1. t \in [1..n -> S]
    OBVIOUS
<1>2. QED
    BY <1>1

\* What the store of a word into an element of an array does, if there are such
\* an element and array, and that it does nothing else.
LEMMA Stores ==
    ASSUME NEW h \in Seq(Seq(Cell)), NEW a \in Nat, NEW i \in Nat,
           NEW cell, a \in 1..Len(h) /\ i \in 1..Len(h[a]) => cell \in Cell
    PROVE  LET g == [h EXCEPT ![a] = [h[a] EXCEPT ![i] = cell]]
           IN  /\ g \in Seq(Seq(Cell)) /\ Len(g) = Len(h)
               /\ \A b \in 1..Len(h) :
                     /\ Len(g[b]) = Len(h[b])
                     /\ \A j \in 1..Len(h[b]) :
                           g[b][j] = IF b = a /\ j = i THEN cell ELSE h[b][j]
<1> DEFINE array == [h[a] EXCEPT ![i] = cell]
           g == [h EXCEPT ![a] = array]
<1>1. ASSUME a \in 1..Len(h)
      PROVE  /\ array \in Seq(Cell) /\ Len(array) = Len(h[a])
             /\ \A j \in 1..Len(h[a]) : array[j] = IF j = i THEN cell ELSE h[a][j]
    <2>1. h[a] \in Seq(Cell)
        BY <1>1
    <2>2. /\ Len(h[a]) \in Nat /\ DOMAIN h[a] = 1..Len(h[a])
          /\ \A j \in 1..Len(h[a]) : h[a][j] \in Cell
        BY <2>1
    <2>3. array = [j \in 1..Len(h[a]) |-> IF j = i THEN cell ELSE h[a][j]]
        BY <2>2
    <2>4. \A j \in 1..Len(h[a]) : (IF j = i THEN cell ELSE h[a][j]) \in Cell
        BY <1>1, <2>2
    <2> HIDE DEF array
    <2>5. /\ array = [j \in 1..Len(h[a]) |-> array[j]]
          /\ \A j \in 1..Len(h[a]) : /\ array[j] = IF j = i THEN cell ELSE h[a][j]
                                     /\ array[j] \in Cell
        BY <2>3, <2>4
    <2>6. array \in Seq(Cell) /\ Len(array) = Len(h[a])
        BY <2>2, <2>5, IsSeq
    <2>7. QED
        BY <2>5, <2>6
<1> HIDE DEF array
<1>2. /\ g \in Seq(Seq(Cell)) /\ Len(g) = Len(h)
      /\ \A b \in 1..Len(h) : g[b] = IF b = a THEN array ELSE h[b]
    <2> DEFINE S == Seq(Cell)
    <2>1. /\ h \in Seq(S) /\ Len(h) \in Nat /\ DOMAIN h = 1..Len(h)
          /\ \A b \in 1..Len(h) : h[b] \in S
        OBVIOUS
    <2>2. a \in 1..Len(h) => array \in S
        BY <1>1
    <2> HIDE DEF S
    <2>3. g = [b \in 1..Len(h) |-> IF b = a THEN array ELSE h[b]]
        BY <2>1
    <2>4. \A b \in 1..Len(h) : (IF b = a THEN array ELSE h[b]) \in S
        BY <2>1, <2>2
    <2> HIDE DEF g
    <2>5. /\ g = [b \in 1..Len(h) |-> g[b]]
          /\ \A b \in 1..Len(h) : g[b] = (IF b = a THEN array ELSE h[b]) /\ g[b] \in S
        BY <2>3, <2>4
    <2>6. g \in Seq(S) /\ Len(g) = Len(h)
        BY <2>1, <2>5, IsSeq
    <2>7. QED
        BY <2>5, <2>6 DEF S
<1> HIDE DEF g
<1>3. /\ g \in Seq(Seq(Cell)) /\ Len(g) = Len(h)
      /\ \A b \in 1..Len(h) :
            /\ Len(g[b]) = Len(h[b])
            /\ \A j \in 1..Len(h[b]) :
                  g[b][j] = IF b = a /\ j = i THEN cell ELSE h[b][j]
    BY <1>1, <1>2
<1>4. QED
    BY <1>3 DEF g, array

\* What is read at any index is a cell: blank behind the end.
LEMMA ElementIs ==
    ASSUME heap \in Seq(Seq(Cell)), NEW a \in 0..Len(heap), NEW i \in Nat \ {0}
    PROVE  Element(a, i) \in Cell
<1>1. Blank \in Cell
    BY DEF Blank, Cell
<1>2. CASE a # 0 /\ i <= Len(heap[a])
    <2>1. heap[a] \in Seq(Cell)
        BY <1>2
    <2>2. heap[a][i] \in Cell
        BY <2>1, <1>2
    <2>3. QED
        BY <2>2, <1>2 DEF Element
<1>3. QED
    BY <1>1, <1>2 DEF Element

\* The two stores keep the types, even when two workers write one element.
LEMMA StoreTypes ==
    ASSUME FindOK, ScanOK, NEW w \in Workers, StoreName(w) \/ StoreTarget(w)
    PROVE  FindOK' /\ ScanOK' /\ Len(heap') = Len(heap)
<1> DEFINE Worker == [pc : WorkerPC, job : Addresses \cup {None}, mine : Words]
           a == worker[w].mine.array
           i == Slot(w)
           v == worker[w].job
<1>1. worker[w].pc # "off" /\ worker[w].pc \in Holding
    BY DEF StoreName, StoreTarget, Holding
<1>2. /\ find.pc = "scan" /\ Plugin = "network" /\ heap \in Seq(Seq(Cell))
      /\ worker \in [Workers -> Worker] /\ slice \in Words /\ worker[w] \in Worker
      /\ v \in Addresses
    BY <1>1, Scanning DEF ScanOK
<1>3. a \in Nat /\ i \in Nat
    BY <1>2 DEF Slot, Words
<1>4. /\ heap' \in Seq(Seq(Cell)) /\ Len(heap') = Len(heap)
    <2>1. a \in 1..Len(heap) /\ i \in 1..Len(heap[a]) => heap[a][i] \in Cell
        BY <1>2
    <2>2. CASE StoreName(w)
        <3> DEFINE cell == [heap[a][i] EXCEPT !.name = v]
        <3>1. a \in 1..Len(heap) /\ i \in 1..Len(heap[a]) => cell \in Cell
            BY <2>1, <1>2 DEF Cell
        <3>2. heap' = [heap EXCEPT ![a] = [heap[a] EXCEPT ![i] = cell]]
            BY <2>2 DEF StoreName
        <3> DEFINE g == [heap EXCEPT ![a] = [heap[a] EXCEPT ![i] = cell]]
        <3> HIDE DEF cell, a, i
        <3>3. g \in Seq(Seq(Cell)) /\ Len(g) = Len(heap)
            BY <3>1, <1>2, <1>3, Stores
        <3>4. QED
            BY <3>2, <3>3
    <2>3. CASE StoreTarget(w)
        <3> DEFINE cell == [heap[a][i] EXCEPT !.target = v]
        <3>1. a \in 1..Len(heap) /\ i \in 1..Len(heap[a]) => cell \in Cell
            BY <2>1, <1>2 DEF Cell
        <3>2. heap' = [heap EXCEPT ![a] = [heap[a] EXCEPT ![i] = cell]]
            BY <2>3 DEF StoreTarget
        <3> DEFINE g == [heap EXCEPT ![a] = [heap[a] EXCEPT ![i] = cell]]
        <3> HIDE DEF cell, a, i
        <3>3. g \in Seq(Seq(Cell)) /\ Len(g) = Len(heap)
            BY <3>1, <1>2, <1>3, Stores
        <3>4. QED
            BY <3>2, <3>3
    <2>4. QED
        BY <2>2, <2>3
<1>5. UNCHANGED <<scenario, up, find, jobs, slice>>
    BY DEF StoreName, StoreTarget, WorkerGoes
<1>6. Words' = Words
    BY <1>4 DEF Words
<1>7. PICK r \in Worker : /\ worker' = [worker EXCEPT ![w] = r]
                          /\ (r.pc = "target" /\ r.job = v) \/ r.pc = "take"
    <2>1. CASE StoreName(w)
        <3>1. [worker[w] EXCEPT !.pc = "target"] \in Worker
            BY <1>2 DEF WorkerPC
        <3>2. QED
            BY <3>1, <2>1, <1>2 DEF StoreName, WorkerGoes
    <2>2. CASE StoreTarget(w)
        <3>1. [Off EXCEPT !.pc = "take"] \in Worker
            BY DEF Off, WorkerPC, Words
        <3>2. QED
            BY <3>1, <2>2, <1>2 DEF StoreTarget, Off
    <2>3. QED
        BY <2>1, <2>2
<1>8. FindOK' /\ find'.pc = "scan" /\ Collects'
    BY <1>2, <1>5 DEF FindOK, Plugin, Collects
<1>9. worker' \in [Workers -> Worker]
    BY <1>2, <1>7
<1>10. \A u \in Workers : /\ worker'[u].pc \in Holding => worker'[u].job \in Addresses
                          /\ worker'[u].pc = "off" => worker'[u] = Off
    BY <1>2, <1>7 DEF ScanOK, Holding
<1>11. jobs' \subseteq Nat \X Addresses /\ slice' \in Words
    BY <1>2, <1>5 DEF ScanOK
<1>12. QED
    BY <1>4, <1>6, <1>8, <1>9, <1>10, <1>11 DEF ScanOK

\* Growing keeps the types; what was in the slice is in the new array.
LEMMA GrowTypes ==
    ASSUME FindOK, ScanOK, NEW w \in Workers, Grow(w)
    PROVE  FindOK' /\ ScanOK'
           /\ \E cap \in Nat : \E copy \in Seq(Cell) :
                /\ Len(copy) = cap /\ cap > worker[w].mine.len
                /\ \A i \in 1..worker[w].mine.len : copy[i] = Element(worker[w].mine.array, i)
                /\ heap' = Append(heap, copy) /\ Len(heap') = Len(heap) + 1
                /\ slice' = [array |-> Len(heap'), len |-> worker[w].mine.len + 1, cap |-> cap]
<1> DEFINE Worker == [pc : WorkerPC, job : Addresses \cup {None}, mine : Words]
           mine == worker[w].mine
           cap == IF mine.len < 2 * mine.cap THEN 2 * mine.cap ELSE mine.len + 1
           copy == [i \in 1..cap |-> IF i <= mine.len THEN Element(mine.array, i) ELSE Blank]
<1>1. worker[w].pc # "off" /\ worker[w].pc \in Holding /\ mine.len >= mine.cap
    BY DEF Grow, Holding
<1>2. /\ find.pc = "scan" /\ Plugin = "network" /\ heap \in Seq(Seq(Cell))
      /\ worker \in [Workers -> Worker] /\ slice \in Words /\ worker[w] \in Worker
      /\ worker[w].job \in Addresses
    BY <1>1, Scanning DEF ScanOK
<1>3. mine \in Words /\ mine.array \in 0..Len(heap) /\ mine.len \in Nat /\ mine.cap \in Nat
    BY <1>2 DEF Words
<1>4. /\ heap' = Append(heap, copy)
      /\ slice' = [array |-> Len(heap'), len |-> mine.len + 1, cap |-> cap]
      /\ worker' = [worker EXCEPT ![w].pc = "name", ![w].mine.array = Len(heap')]
      /\ UNCHANGED <<scenario, up, find, jobs>>
    BY DEF Grow
<1> HIDE DEF mine
<1>5. cap \in Nat /\ cap > mine.len
    BY <1>3
<1>6. copy \in Seq(Cell) /\ Len(copy) = cap
      /\ \A i \in 1..mine.len : copy[i] = Element(mine.array, i)
    <2> HIDE DEF cap
    <2>1. \A i \in 1..cap : copy[i] \in Cell
        <3>1. TAKE i \in 1..cap
        <3>2. Element(mine.array, i) \in Cell
            BY <1>2, <1>3, <1>5, ElementIs
        <3>3. Blank \in Cell
            BY DEF Blank, Cell
        <3>4. QED
            BY <3>2, <3>3
    <2>2. copy \in [1..cap -> Cell]
        BY <2>1
    <2>3. QED
        BY <2>2, <1>3, <1>5
<1> HIDE DEF copy, cap
<1>7. heap' \in Seq(Seq(Cell)) /\ Len(heap') = Len(heap) + 1 /\ Len(heap) \in Nat
    BY <1>2, <1>4, <1>6
<1>8. Words \subseteq Words' /\ slice' \in Words'
    BY <1>3, <1>4, <1>5, <1>7 DEF Words
<1>9. PICK r \in [pc : WorkerPC, job : Addresses \cup {None}, mine : Words'] :
          worker' = [worker EXCEPT ![w] = r] /\ r.pc = "name" /\ r.job = worker[w].job
    <2> DEFINE r == [worker[w] EXCEPT !.pc = "name", !.mine = [mine EXCEPT !.array = Len(heap')]]
    <2>1. [mine EXCEPT !.array = Len(heap')] \in Words'
        BY <1>3, <1>7 DEF Words
    <2>2. r \in [pc : WorkerPC, job : Addresses \cup {None}, mine : Words']
        BY <2>1, <1>2 DEF WorkerPC
    <2>3. worker' = [worker EXCEPT ![w] = r] /\ r.pc = "name" /\ r.job = worker[w].job
        BY <1>2, <1>4 DEF mine
    <2>4. QED
        BY <2>2, <2>3
<1>10. worker' \in [Workers -> [pc : WorkerPC, job : Addresses \cup {None}, mine : Words']]
    BY <1>2, <1>8, <1>9
<1>11. FindOK' /\ find'.pc = "scan" /\ Collects'
    BY <1>2, <1>4 DEF FindOK, Plugin, Collects
<1>12. \A u \in Workers : /\ worker'[u].pc \in Holding => worker'[u].job \in Addresses
                          /\ worker'[u].pc = "off" => worker'[u] = Off
    BY <1>2, <1>9 DEF ScanOK
<1>13. ScanOK'
    BY <1>4, <1>7, <1>8, <1>10, <1>11, <1>12 DEF ScanOK
<1>14. QED
    BY <1>3, <1>4, <1>5, <1>6, <1>7, <1>11, <1>13 DEF mine

-----------------------------------------------------------------------------
(* What is left to do *)

\* The networks, or namespaces, are a list.
LEMMA SettingsAre ==
    ASSUME FindOK, Plugin \in {"network", "k8"}
    PROVE  Settings \in Seq(ToSet(Settings)) /\ Len(Settings) \in Nat
           /\ DOMAIN Settings = 1..Len(Settings)
<1>1. CASE Plugin = "network"
    <2>1. Settings \in Seq(Seq(Subnet))
        BY <1>1, NetworksAre
    <2>2. /\ Len(Settings) \in Nat /\ DOMAIN Settings = 1..Len(Settings)
          /\ Settings = [k \in 1..Len(Settings) |-> Settings[k]]
        BY <2>1
    <2>3. \A k \in 1..Len(Settings) : Settings[k] \in ToSet(Settings)
        BY <2>2 DEF ToSet
    <2>4. QED
        BY <2>2, <2>3, IsSeq
<1>2. CASE Plugin = "k8"
    <2>1. \A s \in Scenarios : s.plugin = "k8" => s.settings \in Seq(ToSet(s.settings))
        BY ScenariosAssumption, Zenon
    <2>2. Settings \in Seq(ToSet(Settings))
        BY <1>2, <2>1 DEF FindOK, Plugin, Settings
    <2>3. QED
        BY <2>2
<1>3. QED
    BY <1>1, <1>2

WorkerStep(w) ==
    \/ Take(w) \/ Leave(w) \/ Dial(w) \/ ReadSlice(w)
    \/ Reserve(w) \/ Grow(w) \/ StoreName(w) \/ StoreTarget(w)

\* A step of a worker is a step of a scan.
LEMMA WorkerSteps ==
    ASSUME FindOK, ScanOK, NEW w \in Workers, WorkerStep(w)
    PROVE  /\ find.pc = "scan" /\ Plugin = "network" /\ UNCHANGED <<scenario, up>>
           /\ find' = find \/ find' = [find EXCEPT !.clean = find'.clean]
           /\ find'.pc = "scan" /\ find'.todo = find.todo /\ find'.got = find.got
           /\ find'.clean => find.clean
           /\ worker[w].pc # "off" /\ FindOK' /\ ScanOK'
<1>1. worker[w].pc # "off"
    BY DEF WorkerStep, Take, Leave, Dial, ReadSlice, Reserve, Grow, StoreName, StoreTarget
<1>2. find.pc = "scan" /\ Plugin = "network"
    BY <1>1, Scanning
<1>3. /\ UNCHANGED <<scenario, up>>
      /\ \/ find' = find
         \/ find' = [find EXCEPT !.clean = FALSE]
         \/ find' = [find EXCEPT !.clean = @ /\ Appending = {}]
    BY DEF WorkerStep, Take, Leave, Dial, ReadSlice, Reserve, Grow, StoreName, StoreTarget,
           WorkerGoes
<1>4. /\ find' = find \/ find' = [find EXCEPT !.clean = find'.clean]
      /\ find'.pc = "scan" /\ find'.todo = find.todo /\ find'.got = find.got
      /\ find'.clean => find.clean
    BY <1>2, <1>3 DEF FindOK
<1>5. FindOK' /\ ScanOK'
    BY WorkerTypes, GrowTypes, StoreTypes DEF WorkerStep
<1>6. QED
    BY <1>1, <1>2, <1>3, <1>4, <1>5

\* What is left to do stays the end of the configuration.
LEMMA TodoStep ==
    ASSUME FindOK, ScanOK, TodoInv, FindNext, FindOK'
    PROVE  TodoInv'
<1>1. CASE Begin
    <2>1. find'.pc \in {"next", "scan"} => find'.todo = Settings /\ Plugin \in {"network", "k8"}
        BY <1>1 DEF Begin, FindOK
    <2>2. Settings' = Settings
        BY <1>1 DEF Begin, Settings
    <2>3. QED
        BY <2>1, <2>2, SettingsAre DEF TodoInv, Passed
<1>2. ASSUME find.pc = "next", find.todo # <<>>, find'.todo = Tail(find.todo),
             UNCHANGED scenario
      PROVE  TodoInv'
    <2>1. Settings' = Settings /\ Passed' = Passed + 1
        BY <1>2, NextIs DEF Settings, Passed
    <2>2. /\ Tail(find.todo) \in Seq(ToSet(Settings)) /\ Passed \in Nat
          /\ Len(Settings) - Len(Tail(find.todo)) = Passed + 1
          /\ \A i \in 1..Len(Tail(find.todo)) : Tail(find.todo)[i] = Settings[Passed + 1 + i]
        BY <1>2, NextIs
    <2>3. Settings \in Seq(ToSet(Settings))
        BY <1>2 DEF TodoInv
    <2>4. Len(Tail(find.todo)) <= Len(Settings)
        <3>1. Len(Tail(find.todo)) \in Nat
            BY <2>2
        <3>2. Len(Settings) \in Nat
            BY <2>3
        <3>3. \A m, n, k \in Nat : n - m = k + 1 => m <= n
            OBVIOUS
        <3>4. Passed \in Nat /\ Len(Settings) - Len(Tail(find.todo)) = Passed + 1
            BY <2>2, Zenon
        <3>5. QED
            BY <3>1, <3>2, <3>3, <3>4, Zenon
    <2>5. QED
        BY <1>2, <2>1, <2>2, <2>3, <2>4 DEF TodoInv
<1>3. ASSUME find'.pc \in {"next", "scan"} => find.pc \in {"next", "scan"} /\ find'.todo = find.todo,
             UNCHANGED scenario
      PROVE  TodoInv'
    BY <1>3 DEF TodoInv, Passed, Settings
<1>4. CASE NextNetwork
    BY <1>2, <1>3, <1>4 DEF NextNetwork, FindOK
<1>5. CASE NextNamespace
    BY <1>2, <1>3, <1>5 DEF NextNamespace, FindOK, NoFind
<1>6. CASE NamespaceFails
    BY <1>2, <1>3, <1>6 DEF NamespaceFails, FindOK
<1>7. CASE Deliver \/ FindDocker \/ FindEc2 \/ ReturnK8 \/ FindStatic \/ ListFails
           \/ WorldChanges \/ ScanEnds \/ ReturnScan \/ WildRead
    <2>1. CASE Deliver \/ ListFails \/ WildRead
        BY <1>3, <2>1 DEF Deliver, ListFails, WildRead, NoFind
    <2>2. CASE FindDocker \/ FindEc2 \/ FindStatic \/ ReturnK8 \/ ReturnScan
        <3>1. find'.pc = "found" /\ UNCHANGED scenario
            BY <2>2 DEF FindDocker, FindEc2, FindStatic, ReturnK8, ReturnScan, Found, FindOK
        <3>2. QED
            BY <3>1, <1>3
    <2>3. CASE ScanEnds
        BY <1>3, <2>3 DEF ScanEnds, FindOK
    <2>4. CASE WorldChanges
        BY <1>3, <2>4 DEF WorldChanges, FindOK
    <2>5. QED
        BY <1>7, <2>1, <2>2, <2>3, <2>4
<1>8. CASE \E w \in Workers : WorkerStep(w)
    BY <1>3, <1>8, WorkerSteps
<1>9. QED
    BY <1>1, <1>4, <1>5, <1>6, <1>7, <1>8
       DEF FindNext, FindGoes, ScanStep, ListStep, WorkerStep

-----------------------------------------------------------------------------
(* Kubernetes, namespace by namespace *)

\* What the namespaces passed have stays what is found.
LEMMA NamespacesStep ==
    ASSUME FindOK, ScanOK, TodoInv, NamespacesInv, FindNext, FindOK'
    PROVE  NamespacesInv'
<1>1. SUFFICES ASSUME find'.pc = "next", Plugin' = "k8", find'.clean
               PROVE  find'.got = {EntryOf(s) : s \in UNION {InNamespace(Settings[n]) : n \in 1..Passed}}'
    BY DEF NamespacesInv
<1>2. CASE Begin
    <2>1. Plugin = "k8" /\ UNCHANGED <<scenario, up>> /\ find'.todo = Settings /\ find'.got = {}
        BY <1>1, <1>2 DEF Begin, FindOK, Plugin
    <2>2. Settings' = Settings /\ Len(Settings) \in Nat
        BY <2>1, SettingsAre DEF Settings
    <2>3. Passed' = 0
        BY <2>1, <2>2 DEF Passed
    <2>4. UNION {InNamespace(Settings[n]) : n \in 1..Passed}' = {}
        BY <2>3
    <2>5. QED
        BY <2>1, <2>4
<1>3. CASE NextNamespace
    <2>1. /\ find.pc = "next" /\ find.todo # <<>> /\ Plugin = "k8" /\ UNCHANGED <<scenario, up>>
          /\ find' = [find EXCEPT !.todo = Tail(@),
                        !.got = @ \cup {Entry(s, s.name, <<s.address, s.port>>) :
                                           s \in InNamespace(Head(find.todo))}]
        BY <1>1, <1>3 DEF NextNamespace, NoFind
    <2>2. /\ find.clean /\ find'.todo = Tail(find.todo)
          /\ find'.got = find.got \cup {EntryOf(s) : s \in InNamespace(Head(find.todo))}
        BY <1>1, <2>1 DEF FindOK, EntryOf
    <2>3. Head(find.todo) = Settings[Passed + 1] /\ Passed' = Passed + 1 /\ Passed \in Nat
        BY <2>1, <2>2, NextIs DEF Passed, Settings
    <2>4. \A n : InNamespace(Settings[n])' = InNamespace(Settings[n])
        BY <2>1 DEF Settings, InNamespace
    <2>5. find.got = {EntryOf(s) : s \in UNION {InNamespace(Settings[n]) : n \in 1..Passed}}
        BY <2>1, <2>2 DEF NamespacesInv
    <2> DEFINE Old == UNION {InNamespace(Settings[n]) : n \in 1..Passed}
               New == UNION {InNamespace(Settings[n]) : n \in 1..Passed + 1}
    <2>6. New = Old \cup InNamespace(Settings[Passed + 1])
        <3>1. \A n : n \in 1..Passed + 1 <=> n \in 1..Passed \/ n = Passed + 1
            BY <2>3
        <3>2. QED
            BY <3>1
    <2>7. UNION {InNamespace(Settings[n]) : n \in 1..Passed}' = New
        BY <2>3, <2>4
    <2> HIDE DEF Old, New
    <2>8. find'.got = {EntryOf(s) : s \in New}
        BY <2>2, <2>3, <2>5, <2>6 DEF Old
    <2>9. \A s : EntryOf(s)' = EntryOf(s)
        BY DEF EntryOf, Entry
    <2>10. QED
        BY <2>7, <2>8, <2>9
<1>4. CASE NamespaceFails
    BY <1>1, <1>4 DEF NamespaceFails, FindOK
<1>5. CASE WorldChanges
    BY <1>1, <1>5 DEF WorldChanges, FindOK
<1>6. CASE NextNetwork \/ ScanEnds \/ \E w \in Workers : WorkerStep(w)
    <2>1. Plugin = "network" /\ UNCHANGED scenario
        BY <1>6, WorkerSteps DEF NextNetwork, ScanEnds, FindOK
    <2>2. QED
        BY <1>1, <2>1 DEF Plugin
<1>7. CASE Deliver \/ FindDocker \/ FindEc2 \/ ReturnK8 \/ FindStatic \/ ListFails
           \/ ReturnScan \/ WildRead
    <2>1. find'.pc # "next"
        <3>1. CASE Deliver \/ ListFails \/ WildRead
            BY <3>1 DEF Deliver, ListFails, WildRead, NoFind
        <3>2. CASE FindDocker \/ FindEc2 \/ FindStatic \/ ReturnK8 \/ ReturnScan
            BY <3>2 DEF FindDocker, FindEc2, FindStatic, ReturnK8, ReturnScan, Found, FindOK
        <3>3. QED
            BY <1>7, <3>1, <3>2
    <2>2. QED
        BY <1>1, <2>1
<1>8. QED
    BY <1>2, <1>3, <1>4, <1>5, <1>6, <1>7
       DEF FindNext, FindGoes, ScanStep, ListStep, WorkerStep

-----------------------------------------------------------------------------
(* Exact results of the plugins that list *)

Exact(got) == /\ {Offer(e.key, e.data) : e \in got} = Offers
              /\ \A e, f \in got : e.key = f.key => e = f

\* What there is to discover depends on the scenario and the world only.
LEMMA OffersStay ==
    ASSUME UNCHANGED <<scenario, up>>
    PROVE  Offers' = Offers /\ Ambiguous' = Ambiguous
<1> USE DEF Plugin, Settings, Labelled, Labels, OnHost, AddressesAtHome, Near, Inside,
            InNamespace, Scanned
<1>1. Offers' = Offers
    BY DEF Offers
<1>2. Ambiguous' = Ambiguous
    BY DEF Ambiguous
<1>3. QED
    BY <1>1, <1>2

\* A right result makes FindExact true.
LEMMA FindIsExact ==
    ASSUME UNCHANGED <<scenario, up>>, find'.clean /\ ~Ambiguous => Exact(find'.got)
    PROVE  FindExact'
<1>1. Offers' = Offers /\ Ambiguous' = Ambiguous
    BY OffersStay
<1>2. \A key, data : Offer(key, data)' = Offer(key, data)
    BY DEF Offer
<1>3. QED
    BY <1>1, <1>2 DEF FindExact, Exact, Offer

EntriesOf(T, key, data) == {Entry(t, key[t], data[t]) : t \in T}
OffersOf(T, key, data) == {Offer(key[t], data[t]) : t \in T}
Differ(T, key) == \A s, t \in T : key[s] = key[t] => s = t

\* A result that is the image of some things, each with a key of its own.
LEMMA ExactImage ==
    ASSUME NEW T, NEW key, NEW data, Offers = OffersOf(T, key, data), Differ(T, key)
    PROVE  Exact(EntriesOf(T, key, data))
<1> DEFINE got == EntriesOf(T, key, data)
<1> USE DEF EntriesOf, OffersOf, Differ
<1>1. ASSUME NEW e \in got
      PROVE  \E t \in T : e = Entry(t, key[t], data[t]) /\ e.key = key[t] /\ e.data = data[t]
    BY DEF Entry
<1>2. {Offer(e.key, e.data) : e \in got} \subseteq Offers
    BY <1>1
<1>3. ASSUME NEW o \in Offers PROVE o \in {Offer(e.key, e.data) : e \in got}
    <2>1. PICK t \in T : o = Offer(key[t], data[t])
        OBVIOUS
    <2> DEFINE e == Entry(t, key[t], data[t])
    <2>2. e \in got /\ e.key = key[t] /\ e.data = data[t]
        BY DEF Entry
    <2>3. o = Offer(e.key, e.data)
        BY <2>1, <2>2
    <2> HIDE DEF e
    <2>4. QED
        BY <2>2, <2>3
<1>4. \A e, f \in got : e.key = f.key => e = f
    BY <1>1
<1>5. QED
    BY <1>2, <1>3, <1>4 DEF Exact

\* EC2: one entry for each labelled instance.
LEMMA Ec2Exact ==
    ASSUME FindOK, FindEc2
    PROVE  FindExact'
<1> DEFINE key == [p \in Labelled |-> NameOf(p[1], p[2])]
           data == [p \in Labelled |-> <<p[1].address, p[2].port>>]
<1>1. /\ UNCHANGED <<scenario, up>> /\ Plugin = "ec2"
      /\ find'.got = {Entry(p, key[p], data[p]) : p \in Labelled}
    BY DEF FindEc2, Found, FindOK
<1>2. Offers = {Offer(key[p], data[p]) : p \in Labelled}
    BY <1>1 DEF Offers
<1>3. ASSUME ~Ambiguous
      PROVE  \A p, q \in Labelled : key[p] = key[q] => p = q
    BY <1>1, <1>3 DEF Ambiguous
<1> HIDE DEF key, data
<1>4. ~Ambiguous => Exact(find'.got)
    <2>1. Offers = OffersOf(Labelled, key, data) /\ find'.got = EntriesOf(Labelled, key, data)
        BY <1>1, <1>2 DEF OffersOf, EntriesOf
    <2>2. ~Ambiguous => Differ(Labelled, key)
        BY <1>3 DEF Differ
    <2>3. QED
        BY <2>1, <2>2, ExactImage
<1>5. QED
    BY <1>1, <1>4, FindIsExact

\* Kubernetes: one entry for each service of a configured namespace.
LEMMA K8Exact ==
    ASSUME FindOK, TodoInv, NamespacesInv, ReturnK8
    PROVE  FindExact'
<1>1. /\ UNCHANGED <<scenario, up>> /\ Plugin = "k8" /\ find.pc = "next" /\ find.todo = <<>>
      /\ find'.got = find.got /\ find'.clean = find.clean
    BY DEF ReturnK8, Found, FindOK
<1>2. Passed = Len(Settings) /\ DOMAIN Settings = 1..Len(Settings)
    BY <1>1, SettingsAre DEF Passed
<1> DEFINE Listed == UNION {InNamespace(Settings[n]) : n \in DOMAIN Settings}
           key == [s \in Listed |-> s.name]
           data == [s \in Listed |-> <<s.address, s.port>>]
           all == EntriesOf(Listed, key, data)
<1>3. find.clean => find.got = all
    <2>1. find.clean => find.got = {EntryOf(s) : s \in Listed}
        BY <1>1, <1>2 DEF NamespacesInv
    <2> HIDE DEF Listed
    <2>2. \A s \in Listed : EntryOf(s) = Entry(s, key[s], data[s])
        BY DEF EntryOf
    <2>3. QED
        BY <2>1, <2>2 DEF EntriesOf
<1>4. Offers = {Offer(key[s], data[s]) : s \in Listed}
    BY <1>1 DEF Offers
<1>5. Listed \subseteq up
    BY DEF InNamespace
<1>6. ASSUME ~Ambiguous
      PROVE  \A s, t \in Listed : key[s] = key[t] => s = t
    <2> HIDE DEF Listed
    <2>1. QED
        BY <1>1, <1>5, <1>6 DEF Ambiguous
<1>7. ~Ambiguous => Exact(all)
    <2> HIDE DEF Listed, key, data
    <2>1. Offers = OffersOf(Listed, key, data)
        BY <1>4 DEF OffersOf
    <2>2. ~Ambiguous => Differ(Listed, key)
        BY <1>6 DEF Differ
    <2>3. QED
        BY <2>1, <2>2, ExactImage
<1> HIDE DEF all
<1>8. QED
    BY <1>1, <1>3, <1>7, FindIsExact

\* Static sockets: one entry for each map, of the one name it has.
LEMMA StaticExact ==
    ASSUME FindOK, FindStatic
    PROVE  FindExact'
<1>1. /\ UNCHANGED <<scenario, up>> /\ Plugin = "static"
    BY DEF FindStatic
<1>2. PICK pick \in [DOMAIN Settings -> UNION {DOMAIN Settings[n] : n \in DOMAIN Settings}] :
          /\ \A n \in DOMAIN Settings : pick[n] \in DOMAIN Settings[n]
          /\ find'.got = {Entry(n, pick[n], Settings[n][pick[n]]) : n \in DOMAIN Settings}
    BY DEF FindStatic, Found, FindOK
<1> DEFINE data == [n \in DOMAIN Settings |-> Settings[n][pick[n]]]
<1>3. find'.got = {Entry(n, pick[n], data[n]) : n \in DOMAIN Settings}
    BY <1>2
<1>4. ASSUME ~Ambiguous PROVE Exact(find'.got)
    <2>1. ASSUME NEW n \in DOMAIN Settings
          PROVE  DOMAIN Settings[n] = {pick[n]}
        <3>2. \A s \in Scenarios :
                  s.plugin = "static" => \A k \in DOMAIN s.settings : IsFiniteSet(DOMAIN s.settings[k])
            BY ScenariosAssumption, Zenon
        <3>3. IsFiniteSet(DOMAIN Settings[n])
            BY <1>1, <3>2 DEF FindOK, Plugin, Settings
        <3>4. Cardinality(DOMAIN Settings[n]) = 1
            BY <1>1, <1>4 DEF Ambiguous
        <3>5. PICK x : DOMAIN Settings[n] = {x}
            BY <3>3, <3>4, FS_Singleton
        <3>6. pick[n] \in DOMAIN Settings[n]
            BY <1>2
        <3>7. QED
            BY <3>5, <3>6
    <2>2. \A m, n \in DOMAIN Settings : pick[m] = pick[n] => m = n
        <3>1. \A m, n \in DOMAIN Settings :
                  m # n => DOMAIN Settings[m] \cap DOMAIN Settings[n] = {}
            BY <1>1, <1>4 DEF Ambiguous
        <3>2. QED
            BY <3>1, <2>1
    <2>3. Offers = {Offer(pick[n], data[n]) : n \in DOMAIN Settings}
        <3>1. Offers = UNION {{Offer(k, Settings[n][k]) : k \in DOMAIN Settings[n]} :
                                 n \in DOMAIN Settings}
            BY <1>1 DEF Offers
        <3>2. \A n \in DOMAIN Settings : {Offer(k, Settings[n][k]) : k \in DOMAIN Settings[n]}
                                            = {Offer(pick[n], data[n])}
            <4>1. TAKE n \in DOMAIN Settings
            <4>2. DOMAIN Settings[n] = {pick[n]} /\ data[n] = Settings[n][pick[n]]
                BY <2>1
            <4>3. QED
                BY <4>2
        <3> HIDE DEF data
        <3>3. ASSUME NEW o \in Offers
              PROVE  \E n \in DOMAIN Settings : o = Offer(pick[n], data[n])
            <4>1. PICK n \in DOMAIN Settings :
                      o \in {Offer(k, Settings[n][k]) : k \in DOMAIN Settings[n]}
                BY <3>1
            <4>2. QED
                BY <4>1, <3>2
        <3>4. ASSUME NEW n \in DOMAIN Settings PROVE Offer(pick[n], data[n]) \in Offers
            <4>1. Offer(pick[n], data[n]) \in {Offer(k, Settings[n][k]) : k \in DOMAIN Settings[n]}
                BY <3>2
            <4>2. QED
                BY <3>1, <4>1
        <3>5. QED
            BY <3>3, <3>4
    <2> DEFINE T == DOMAIN Settings
    <2> HIDE DEF data, T
    <2>4. Offers = OffersOf(T, pick, data) /\ find'.got = EntriesOf(T, pick, data)
        BY <1>3, <2>3 DEF T, OffersOf, EntriesOf
    <2>5. Differ(T, pick)
        BY <2>2 DEF T, Differ
    <2>6. QED
        BY <2>4, <2>5, ExactImage
<1>5. QED
    BY <1>1, <1>4, FindIsExact

\* A container's only port, private and published.
LEMMA OnePort ==
    ASSUME NEW c, c.ports \in Seq(ToSet(c.ports)), Len(c.ports) = 1
    PROVE  /\ PrivatePort(c) = c.ports[1].private /\ c.ports # <<>> /\ 1 \in DOMAIN c.ports
           /\ Published(c) # {} => PublicPort(c) = c.ports[1].public /\ c.ports[1].public # None
<1>1. DOMAIN c.ports = {1} /\ c.ports # <<>>
    BY 1..1 = {1}
<1>2. CASE Published(c) = {}
    BY <1>1, <1>2 DEF PrivatePort
<1>3. CASE Published(c) # {}
    <2>1. Published(c) = {1}
        BY <1>1, <1>3 DEF Published
    <2>2. c.ports[1].public # None
        BY <2>1 DEF Published
    <2>3. Min({1}) = 1
        BY DEF Min
    <2>4. QED
        BY <1>1, <2>1, <2>2, <2>3 DEF PrivatePort, PublicPort
<1>4. QED
    BY <1>1, <1>2, <1>3

\* A container that can be told and reached has one address and one port.
LEMMA DockerReaches ==
    ASSUME FindOK, Plugin = "docker", ~Ambiguous,
           NEW c \in up, NEW l \in Labels(c), NEW a \in ExtractIPAddress(c)
    PROVE  /\ a # None /\ PortAt(c, l, a) # None <=> AddressesIn(c) # {}
           /\ AddressesIn(c) # {} =>
                 <<a, PortAt(c, l, a)>> = IF Near(c) # {} THEN Inside(c, l)
                                          ELSE <<Settings.home.gateway, c.ports[1].public>>
<1>1. /\ IsFiniteSet(c.nets) /\ c.ports \in Seq(ToSet(c.ports))
      /\ \A n \in DOMAIN c.ports : c.ports[n].private # None
      /\ ~OnHost => Settings.home.gateway \notin AddressesIn(c) \cup {None}
    <2>1. \A s \in Scenarios : s.plugin = "docker" =>
              \A d \in s.services :
                  /\ IsFiniteSet(d.nets) /\ d.ports \in Seq(ToSet(d.ports))
                  /\ \A n \in DOMAIN d.ports : d.ports[n].private # None
                  /\ s.settings.home # None =>
                        s.settings.home.gateway \notin AddressesIn(d) \cup {None}
        BY ScenariosAssumption, Zenon
    <2>2. scenario \in Scenarios /\ scenario.plugin = "docker" /\ c \in scenario.services
        BY DEF FindOK, Plugin
    <2>3. QED
        BY <2>1, <2>2, Zenon DEF OnHost, Settings
<1>2. /\ ~(Cardinality(Near(c)) > 1)
      /\ Len(c.ports) # 1 => Near(c) # {} /\ l.port # None
      /\ Near(c) # {} \/ Published(c) # {}
    BY DEF Ambiguous
<1>3. None \notin AddressesIn(c) /\ AddressesAtHome(c) \subseteq AddressesIn(c)
      /\ None \notin AddressesAtHome(c)
    BY DEF AddressesIn, AddressesAtHome
<1>4. Near(c) = IF OnHost THEN AddressesIn(c) ELSE AddressesAtHome(c)
    BY DEF Near
<1>5. CASE AddressesIn(c) = {}
    BY <1>5 DEF ExtractIPAddress
<1>6. CASE Near(c) # {}
    <2>1. AddressesIn(c) # {} /\ a \in Near(c)
        BY <1>3, <1>4, <1>6 DEF ExtractIPAddress
    <2>2. IsFiniteSet(Near(c))
        <3> DEFINE f == [n \in c.nets |-> n.address]
        <3>1. IsFiniteSet({n.address : n \in c.nets})
            <4>1. f \in Surjection(c.nets, {n.address : n \in c.nets})
                BY DEF Surjection
            <4>2. QED
                BY <1>1, <4>1, FS_Surjection
        <3>2. Near(c) \subseteq {n.address : n \in c.nets}
            BY <1>4 DEF AddressesIn, AddressesAtHome
        <3>3. QED
            BY <3>1, <3>2, FS_Subset
    <2>3. Cardinality(Near(c)) = 1
        <3>1. Cardinality(Near(c)) \in Nat /\ Cardinality(Near(c)) # 0
            BY <2>2, <1>6, FS_CardinalityType, FS_EmptySet
        <3>2. QED
            BY <3>1, <1>2
    <2>4. Near(c) = {a}
        <3>1. PICK x : Near(c) = {x}
            BY <2>2, <2>3, FS_Singleton
        <3>2. QED
            BY <2>1, <3>1
    <2>5. a # None /\ (~OnHost => a # Settings.home.gateway)
        BY <1>1, <1>3, <1>4, <2>1
    <2>6. PortAt(c, l, a) = IF l.port = None THEN PrivatePort(c) ELSE l.port
        BY <2>5 DEF PortAt
    <2>7. l.port = None => PrivatePort(c) = c.ports[1].private /\ c.ports[1].private # None
        BY <1>1, <1>2, OnePort
    <2>8. Inside(c, l) = <<a, IF l.port = None THEN c.ports[1].private ELSE l.port>>
        BY <2>4 DEF Inside
    <2>9. QED
        BY <1>6, <2>1, <2>5, <2>6, <2>7, <2>8
<1>7. CASE Near(c) = {} /\ AddressesIn(c) # {}
    <2>1. ~OnHost /\ a = Settings.home.gateway /\ a # None
        BY <1>1, <1>4, <1>7 DEF ExtractIPAddress
    <2>2. PublicPort(c) = c.ports[1].public /\ c.ports[1].public # None
        BY <1>1, <1>2, <1>7, OnePort
    <2>3. PortAt(c, l, a) = c.ports[1].public
        BY <2>1, <2>2 DEF PortAt
    <2>4. QED
        BY <1>7, <2>1, <2>2, <2>3
<1>8. QED
    BY <1>5, <1>6, <1>7

\* Docker: one entry for each label of a container that has an address.
LEMMA DockerExact ==
    ASSUME FindOK, FindDocker
    PROVE  FindExact'
<1>1. UNCHANGED <<scenario, up>> /\ Plugin = "docker"
    BY DEF FindDocker
<1> DEFINE Reached == {p \in Labelled : AddressesIn(p[1]) # {}}
           Returns(pick) == {p \in Labelled : /\ pick[p] # None
                                              /\ PortAt(p[1], p[2], pick[p]) # None}
           key == [p \in Reached |-> NameOf(p[1], p[2])]
<1>2. PICK pick \in [Labelled -> UNION {ExtractIPAddress(c) : c \in up}] :
          /\ \A p \in Labelled : pick[p] \in ExtractIPAddress(p[1])
          /\ find'.got = {Entry(p, NameOf(p[1], p[2]), <<pick[p], PortAt(p[1], p[2], pick[p])>>) :
                             p \in Returns(pick)}
    BY DEF FindDocker, Found, FindOK
<1> DEFINE data == [p \in Reached |-> <<pick[p], PortAt(p[1], p[2], pick[p])>>]
           At(p) == IF Near(p[1]) # {} THEN Inside(p[1], p[2])
                    ELSE <<Settings.home.gateway, p[1].ports[1].public>>
<1>3. ASSUME ~Ambiguous PROVE Exact(find'.got)
    <2>1. \A p \in Labelled : p[1] \in up /\ p[2] \in Labels(p[1])
        BY DEF Labelled
    <2>2. ASSUME NEW p \in Labelled
          PROVE  /\ p \in Returns(pick) <=> p \in Reached
                 /\ p \in Reached => data[p] = At(p)
        <3> DEFINE a == pick[p]
        <3>1. p[1] \in up /\ p[2] \in Labels(p[1]) /\ a \in ExtractIPAddress(p[1])
            BY <1>2, <2>1
        <3>2. /\ a # None /\ PortAt(p[1], p[2], a) # None <=> AddressesIn(p[1]) # {}
              /\ AddressesIn(p[1]) # {} => <<a, PortAt(p[1], p[2], a)>> = At(p)
            BY <1>1, <1>3, <3>1, DockerReaches
        <3> HIDE DEF At
        <3>3. QED
            BY <3>2
    <2>3. Returns(pick) = Reached
        BY <2>2
    <2>4. \A p \in Reached : data[p] = At(p) /\ key[p] = NameOf(p[1], p[2])
        BY <2>2
    <2>5. find'.got = EntriesOf(Reached, key, data)
        <3>1. find'.got = {Entry(p, NameOf(p[1], p[2]), <<pick[p], PortAt(p[1], p[2], pick[p])>>) :
                             p \in Reached}
            BY <1>2, <2>3
        <3> HIDE DEF Reached
        <3>2. QED
            BY <3>1 DEF EntriesOf
    <2>6. Offers = OffersOf(Reached, key, data)
        <3>1. Offers = {Offer(NameOf(p[1], p[2]), At(p)) : p \in Reached}
            BY <1>1 DEF Offers
        <3> HIDE DEF Reached, key, data, At
        <3>2. QED
            BY <2>4, <3>1 DEF OffersOf
    <2>7. Differ(Reached, key)
        <3>1. \A p, q \in Labelled : NameOf(p[1], p[2]) = NameOf(q[1], q[2]) => p = q
            BY <1>1, <1>3 DEF Ambiguous
        <3>2. QED
            BY <2>4, <3>1 DEF Differ
    <2> HIDE DEF Reached, key, data
    <2>8. QED
        BY <2>5, <2>6, <2>7, ExactImage
<1>4. QED
    BY <1>1, <1>3, FindIsExact

-----------------------------------------------------------------------------
(* What the goroutines of a scan hold *)

Own(x) == IF x.pc \in Holding THEN {x.job} ELSE {}
Others(w) == UNION {Own(worker[v]) : v \in Workers \ {w}}

\* A worker's step leaves alone what the others have in their hands.
LEMMA Hands ==
    ASSUME ScanOK, NEW w \in Workers, NEW r, worker' = [worker EXCEPT ![w] = r]
    PROVE  /\ worker'[w] = r /\ \A v \in Workers \ {w} : worker'[v] = worker[v]
           /\ InHand = Others(w) \cup Own(worker[w])
           /\ InHand' = Others(w) \cup Own(r)
<1>1. worker'[w] = r /\ \A v \in Workers \ {w} : worker'[v] = worker[v]
    BY DEF ScanOK
<1>2. InHand = Others(w) \cup Own(worker[w])
    BY DEF InHand, Others, Own
<1>3. \A x : x \in InHand' <=> \E v \in Workers : x \in Own(worker'[v])
    BY DEF InHand, Own
<1>4. \A x : x \in Others(w) <=> \E v \in Workers \ {w} : x \in Own(worker[v])
    BY DEF Others
<1>5. InHand' = Others(w) \cup Own(r)
    BY <1>1, <1>3, <1>4
<1>6. QED
    BY <1>1, <1>2, <1>5

\* What is known of the addresses that are passed.
LEMMA ScannedStays ==
    ASSUME UNCHANGED scenario, find'.todo = find.todo
    PROVE  Scanned1' = Scanned1
BY DEF Scanned1, AddressesOf, Settings, Passed

\* What is in the slice depends on the slice, its arrays and the one append.
LEMMA SliceStays ==
    ASSUME UNCHANGED <<slice, heap>>, Storing' = Storing
    PROVE  Stored' = Stored /\ Returned' = Returned /\ \A i : ElementAt(i)' = ElementAt(i)
<1>1. \A i : ElementAt(i)' = ElementAt(i)
    BY DEF ElementAt, Element
<1>2. Stored' = Stored
    BY DEF Stored
<1>3. QED
    BY <1>1, <1>2 DEF Returned

\* A step of one worker that stores nothing.
LEMMA HandsStep ==
    ASSUME ScanOK, NEW w \in Workers, NEW r, worker' = [worker EXCEPT ![w] = r],
           UNCHANGED <<scenario, up, slice, heap>>, find'.todo = find.todo, jobs' \subseteq jobs,
           worker[w].pc \notin {"reserve", "name", "target"}, r.pc \notin {"name", "target"},
           r.pc = "reserve" => r.mine = slice /\ Appending = {},
           r.pc \in Holding \ {"dial"} => r.job \in up,
           Own(r) \subseteq Own(worker[w]) \cup ToSend,
           (Own(r) \cup ToSend') \cap up = (Own(worker[w]) \cup ToSend) \cap up,
           SliceInv, NoneLost
    PROVE  /\ SliceInv' /\ NoneLost'
           /\ NoneTwice /\ Own(r) \cap ToSend' = {} => NoneTwice'
<1>1. /\ worker'[w] = r /\ \A v \in Workers \ {w} : worker'[v] = worker[v]
      /\ InHand = Others(w) \cup Own(worker[w])
      /\ InHand' = Others(w) \cup Own(r)
    BY Hands
<1>2. Storing' = Storing
    BY <1>1 DEF Storing
<1>3. Stored' = Stored /\ Returned' = Returned /\ \A i : ElementAt(i)' = ElementAt(i)
    BY <1>2, SliceStays
<1>4. Scanned1' = Scanned1
    BY ScannedStays
<1>5. Appending' = IF r.pc = "reserve" THEN {w} ELSE Appending
    <2>1. \A v \in Workers : v \in Appending' <=> worker'[v].pc \in {"reserve", "name", "target"}
        BY DEF Appending
    <2>2. \A v \in Workers : v \in Appending <=> worker[v].pc \in {"reserve", "name", "target"}
        BY DEF Appending
    <2>3. Appending' \subseteq Workers /\ Appending \subseteq Workers
        BY DEF Appending
    <2>4. QED
        BY <1>1, <2>1, <2>2, <2>3
<1>6. SliceInv'
    <2>1. \A v, u \in Appending' : v = u
        BY <1>5 DEF SliceInv
    <2>2. ASSUME NEW u \in Workers
          PROVE  /\ worker'[u].pc = "reserve" => worker'[u].mine = slice
                 /\ worker'[u].pc \in {"name", "target"} =>
                       worker'[u].mine.array = slice.array /\ Slot(u)' = slice.len
                 /\ worker'[u].pc = "target" => ElementAt(slice.len).name = worker'[u].job
        <3>1. CASE u = w
            BY <1>1, <3>1
        <3>2. CASE u # w
            BY <1>1, <3>2 DEF SliceInv, Slot
        <3>3. QED
            BY <3>1, <3>2
    <2>3. ElementAt(slice.len)' = ElementAt(slice.len)
        BY DEF ElementAt, Element
    <2>4. QED
        BY <2>1, <2>2, <2>3 DEF SliceInv
<1>7. NoneLost'
    <2>1. \A i \in Stored' : /\ ElementAt(i)'.name \in up
                             /\ ElementAt(i)'.target = ElementAt(i)'.name
        BY <1>3 DEF NoneLost
    <2>2. \A u \in Workers : worker'[u].pc \in Holding \ {"dial"} => worker'[u].job \in up
        BY <1>1 DEF NoneLost
    <2>3. (Returned' \cup InHand' \cup ToSend') \cap up = Scanned1' \cap up
        BY <1>1, <1>3, <1>4 DEF NoneLost
    <2>4. QED
        BY <2>1, <2>2, <2>3 DEF NoneLost
<1>8. ASSUME NoneTwice, Own(r) \cap ToSend' = {} PROVE NoneTwice'
    <2>1. \A i, j \in Stored' : ElementAt(i)'.name = ElementAt(j)'.name => i = j
        BY <1>3, <1>8 DEF NoneTwice
    <2>2. ToSend' \subseteq ToSend
        BY DEF ToSend
    <2>3. ASSUME NEW v \in Workers \ {w}, worker[v].pc \in Holding, r.pc \in Holding,
                 worker[v].job = r.job
          PROVE  FALSE
        <3>1. r.job \in Own(worker[w]) \cup ToSend
            BY <2>3 DEF Own
        <3>2. worker[v].job \in InHand
            BY <2>3 DEF InHand
        <3>3. r.job \in Own(worker[w])
            BY <3>1, <3>2, <2>3, <1>8 DEF NoneTwice
        <3>4. worker[w].pc \in Holding /\ worker[w].job = r.job
            BY <3>3 DEF Own
        <3>5. QED
            BY <2>3, <3>4, <1>8 DEF NoneTwice
    <2>4. \A v, u \in Workers :
              worker'[v].pc \in Holding /\ worker'[u].pc \in Holding
              /\ worker'[v].job = worker'[u].job => v = u
        BY <1>1, <1>8, <2>3 DEF NoneTwice
    <2>5. \A i, j \in jobs' : i[2] = j[2] => i = j
        BY <1>8 DEF NoneTwice
    <2>6. Returned' \cap (InHand' \cup ToSend') = {}
        BY <1>1, <1>3, <1>8, <2>2 DEF NoneTwice
    <2>7. InHand' \cap ToSend' = {}
        BY <1>1, <1>8, <2>2 DEF NoneTwice
    <2>8. QED
        BY <2>1, <2>4, <2>5, <2>6, <2>7 DEF NoneTwice
<1>9. QED
    BY <1>6, <1>7, <1>8

\* Taking, leaving, dialling and reading lose nothing and double nothing.
LEMMA HandsSteps ==
    ASSUME FindOK, ScanOK, SliceInv, NoneLost, NEW w \in Workers, find'.clean,
           Take(w) \/ Leave(w) \/ Dial(w) \/ ReadSlice(w)
    PROVE  SliceInv' /\ NoneLost' /\ (NoneTwice => NoneTwice')
<1> DEFINE Worker == [pc : WorkerPC, job : Addresses \cup {None}, mine : Words]
<1>1. worker[w] \in Worker /\ worker \in [Workers -> Worker]
    BY DEF ScanOK
<1>2. CASE Take(w)
    <2>1. PICK job \in jobs :
              worker' = [worker EXCEPT ![w].pc = "dial", ![w].job = job[2]]
              /\ jobs' = jobs \ {job}
        BY <1>2 DEF Take
    <2> DEFINE r == [worker[w] EXCEPT !.pc = "dial", !.job = job[2]]
    <2>2. r.pc = "dial" /\ r.job = job[2] /\ worker' = [worker EXCEPT ![w] = r]
        BY <1>1, <2>1
    <2>3. UNCHANGED <<scenario, up, slice, heap, find>> /\ worker[w].pc = "take"
        BY <1>2 DEF Take
    <2> HIDE DEF r
    <2>4. Own(r) = {job[2]} /\ Own(worker[w]) = {}
        BY <2>2, <2>3 DEF Own, Holding
    <2>5. ToSend = ToSend' \cup {job[2]}
        BY <2>1 DEF ToSend
    <2>6. NoneTwice => Own(r) \cap ToSend' = {}
        BY <2>1, <2>4 DEF ToSend, NoneTwice
    <2>7. /\ (Own(r) \cup ToSend') \cap up = (Own(worker[w]) \cup ToSend) \cap up
          /\ Own(r) \subseteq Own(worker[w]) \cup ToSend
          /\ jobs' \subseteq jobs /\ find'.todo = find.todo
        BY <2>1, <2>3, <2>4, <2>5
    <2>8. QED
        BY <2>2, <2>3, <2>6, <2>7, HandsStep
<1>3. CASE Leave(w)
    <2>1. /\ UNCHANGED <<scenario, up, slice, heap, find, jobs>> /\ worker[w].pc = "take"
          /\ worker' = [worker EXCEPT ![w] = Off]
        BY <1>3 DEF Leave
    <2>2. Off.pc = "off" /\ Own(Off) = {} /\ Own(worker[w]) = {}
        BY <2>1 DEF Off, Own, Holding
    <2>3. ToSend' = ToSend
        BY <2>1 DEF ToSend
    <2>4. QED
        BY <2>1, <2>2, <2>3, HandsStep DEF Holding
<1>4. CASE Dial(w)
    <2>1. PICK pc \in {"append", "take"} :
              /\ WorkerGoes(w, pc) /\ find' = find
              /\ pc = "append" <=> worker[w].job \in up
        BY <1>4 DEF Dial, FindOK
    <2> DEFINE r == [worker[w] EXCEPT !.pc = pc]
    <2>2. r.pc = pc /\ r.job = worker[w].job /\ worker' = [worker EXCEPT ![w] = r]
        BY <1>1, <2>1 DEF WorkerGoes
    <2>3. /\ UNCHANGED <<scenario, up, slice, heap, jobs>> /\ worker[w].pc = "dial"
          /\ find'.todo = find.todo
        BY <1>4, <2>1 DEF Dial, WorkerGoes
    <2> HIDE DEF r
    <2>4. Own(worker[w]) = {worker[w].job}
          /\ Own(r) = IF pc = "append" THEN {worker[w].job} ELSE {}
        BY <2>1, <2>2, <2>3 DEF Own, Holding
    <2>5. ToSend' = ToSend /\ worker[w].job \in InHand
        BY <2>3 DEF ToSend, InHand, Holding
    <2>6. NoneTwice => Own(r) \cap ToSend' = {}
        BY <2>4, <2>5 DEF NoneTwice
    <2>7. /\ (Own(r) \cup ToSend') \cap up = (Own(worker[w]) \cup ToSend) \cap up
          /\ Own(r) \subseteq Own(worker[w]) \cup ToSend
          /\ r.pc \in Holding \ {"dial"} => r.job \in up
        BY <2>1, <2>2, <2>4, <2>5 DEF Holding
    <2>8. QED
        BY <2>1, <2>2, <2>3, <2>6, <2>7, HandsStep
<1>5. CASE ReadSlice(w)
    <2> DEFINE r == [worker[w] EXCEPT !.pc = "reserve", !.mine = slice]
    <2>1. r.pc = "reserve" /\ r.job = worker[w].job /\ r.mine = slice
          /\ worker' = [worker EXCEPT ![w] = r]
        BY <1>1, <1>5 DEF ReadSlice
    <2>2. /\ UNCHANGED <<scenario, up, slice, heap, jobs>> /\ worker[w].pc = "append"
          /\ find'.todo = find.todo /\ Appending = {}
        BY <1>5 DEF ReadSlice, FindOK
    <2> HIDE DEF r
    <2>3. Own(worker[w]) = {worker[w].job} /\ Own(r) = {worker[w].job}
        BY <2>1, <2>2 DEF Own, Holding
    <2>4. ToSend' = ToSend /\ worker[w].job \in InHand
        BY <2>2 DEF ToSend, InHand, Holding
    <2>5. NoneTwice => worker[w].job \notin ToSend
        BY <2>4 DEF NoneTwice
    <2>6. worker[w].job \in up
        BY <2>2 DEF NoneLost, Holding
    <2>7. QED
        BY <2>1, <2>2, <2>3, <2>4, <2>5, <2>6, HandsStep
<1>6. QED
    BY <1>2, <1>3, <1>4, <1>5

\* A step of an append before its last: nothing changes hands.
LEMMA AppendStep ==
    ASSUME ScanOK, NEW w \in Workers, NEW r, worker' = [worker EXCEPT ![w] = r],
           worker[w].pc \in Holding \ {"dial"}, r.pc \in Holding \ {"dial"},
           r.job = worker[w].job,
           UNCHANGED <<scenario, up, jobs>>, find'.todo = find.todo, Stored' = Stored,
           \A i \in Stored : ElementAt(i)' = ElementAt(i), NoneLost
    PROVE  NoneLost' /\ (NoneTwice => NoneTwice')
<1>1. /\ worker'[w] = r /\ \A v \in Workers \ {w} : worker'[v] = worker[v]
      /\ InHand = Others(w) \cup Own(worker[w])
      /\ InHand' = Others(w) \cup Own(r)
    BY Hands
<1>2. InHand' = InHand /\ ToSend' = ToSend
    BY <1>1 DEF Own, ToSend
<1>3. Returned' = Returned
    BY DEF Returned
<1>4. Scanned1' = Scanned1
    BY ScannedStays
<1>5. NoneLost'
    <2>1. \A i \in Stored' : /\ ElementAt(i)'.name \in up
                             /\ ElementAt(i)'.target = ElementAt(i)'.name
        BY DEF NoneLost
    <2>2. \A u \in Workers : worker'[u].pc \in Holding \ {"dial"} => worker'[u].job \in up
        BY <1>1 DEF NoneLost
    <2>3. (Returned' \cup InHand' \cup ToSend') \cap up = Scanned1' \cap up
        BY <1>2, <1>3, <1>4 DEF NoneLost
    <2>4. QED
        BY <2>1, <2>2, <2>3 DEF NoneLost
<1>6. ASSUME NoneTwice PROVE NoneTwice'
    <2>1. \A i, j \in Stored' : ElementAt(i)'.name = ElementAt(j)'.name => i = j
        BY <1>6 DEF NoneTwice
    <2>2. \A u \in Workers : /\ worker'[u].pc \in Holding <=> worker[u].pc \in Holding
                             /\ worker'[u].job = worker[u].job
        BY <1>1
    <2>3. \A v, u \in Workers :
              worker'[v].pc \in Holding /\ worker'[u].pc \in Holding
              /\ worker'[v].job = worker'[u].job => v = u
        BY <1>6, <2>2 DEF NoneTwice
    <2>4. QED
        BY <1>2, <1>3, <1>6, <2>1, <2>3 DEF NoneTwice
<1>7. QED
    BY <1>5, <1>6

\* A step of the one append there is.
LEMMA SliceAfter ==
    ASSUME ScanOK, SliceInv, NEW w \in Workers, worker[w].pc \in {"reserve", "name", "target"},
           NEW r, worker' = [worker EXCEPT ![w] = r], r.pc # "reserve",
           slice'.len <= slice'.cap, slice'.array = 0 => slice'.cap = 0,
           slice'.array # 0 => Len(heap'[slice'.array]) = slice'.cap,
           r.pc \in {"name", "target"} =>
               r.mine.array = slice'.array /\ r.mine.len + 1 = slice'.len,
           r.pc = "target" => ElementAt(slice.len)'.name = r.job
    PROVE  /\ SliceInv'
           /\ Stored = 1..(IF worker[w].pc = "reserve" THEN slice.len ELSE slice.len - 1)
           /\ Stored' = 1..(IF r.pc \in {"name", "target"} THEN slice'.len - 1 ELSE slice'.len)
<1>1. /\ worker'[w] = r /\ \A v \in Workers \ {w} : worker'[v] = worker[v]
    BY Hands
<1>2. \A v \in Workers \ {w} : worker[v].pc \notin {"reserve", "name", "target"}
    BY DEF SliceInv, Appending
<1>3. Storing <=> worker[w].pc \in {"name", "target"}
    BY <1>2 DEF Storing
<1>4. Storing' <=> r.pc \in {"name", "target"}
    BY <1>1, <1>2 DEF Storing
<1>5. \A v, u \in Appending' : v = u
    <2>1. \A v \in Appending' : v \in Workers /\ worker'[v].pc \in {"reserve", "name", "target"}
        BY DEF Appending
    <2>2. QED
        BY <1>1, <1>2, <2>1
<1>6. ASSUME NEW u \in Workers
      PROVE  /\ worker'[u].pc = "reserve" => worker'[u].mine = slice'
             /\ worker'[u].pc \in {"name", "target"} =>
                   worker'[u].mine.array = slice'.array /\ Slot(u)' = slice'.len
             /\ worker'[u].pc = "target" => ElementAt(slice.len)'.name = worker'[u].job
    <2>1. CASE u = w
        BY <1>1, <2>1 DEF Slot
    <2>2. CASE u # w
        BY <1>1, <1>2, <2>2
    <2>3. QED
        BY <2>1, <2>2
<1>7. SliceInv'
    BY <1>5, <1>6 DEF SliceInv
<1>8. Stored = 1..(IF worker[w].pc = "reserve" THEN slice.len ELSE slice.len - 1)
    BY <1>3 DEF Stored
<1>9. Stored' = 1..(IF r.pc \in {"name", "target"} THEN slice'.len - 1 ELSE slice'.len)
    BY <1>4 DEF Stored
<1>10. QED
    BY <1>7, <1>8, <1>9

\* An append with room left keeps what is in the slice.
LEMMA ReserveStep ==
    ASSUME FindOK, ScanOK, SliceInv, NoneLost, NEW w \in Workers, Reserve(w)
    PROVE  SliceInv' /\ NoneLost' /\ (NoneTwice => NoneTwice')
<1> DEFINE r == [worker[w] EXCEPT !.pc = "name"]
<1>1. /\ r.pc = "name" /\ r.job = worker[w].job /\ r.mine = worker[w].mine
      /\ worker' = [worker EXCEPT ![w] = r]
    BY DEF Reserve, WorkerGoes, ScanOK
<1>2. /\ UNCHANGED <<scenario, up, heap, jobs, find>> /\ worker[w].pc = "reserve"
      /\ worker[w].mine = slice /\ slice.len < slice.cap
      /\ slice' = [slice EXCEPT !.len = slice.len + 1]
    BY DEF Reserve, WorkerGoes, SliceInv
<1> HIDE DEF r
<1>3. /\ slice'.len = slice.len + 1 /\ slice'.array = slice.array /\ slice'.cap = slice.cap
      /\ slice.len \in Nat /\ slice.cap \in Nat
    BY <1>2 DEF ScanOK, Words
<1>4. /\ SliceInv' /\ Stored = 1..slice.len /\ Stored' = 1..slice'.len - 1
    <2>1. slice'.len <= slice'.cap /\ (slice'.array = 0 => slice'.cap = 0)
          /\ (slice'.array # 0 => Len(heap'[slice'.array]) = slice'.cap)
          /\ r.mine.array = slice'.array /\ r.mine.len + 1 = slice'.len
        BY <1>1, <1>2, <1>3 DEF SliceInv
    <2>2. QED
        BY <1>1, <1>2, <2>1, SliceAfter
<1>5. Stored' = Stored /\ \A i \in Stored : ElementAt(i)' = ElementAt(i)
    BY <1>2, <1>3, <1>4 DEF ElementAt, Element
<1>6. NoneLost' /\ (NoneTwice => NoneTwice')
    BY <1>1, <1>2, <1>5, AppendStep DEF Holding
<1>7. QED
    BY <1>4, <1>6

\* An append without room left keeps what is in the slice.
LEMMA GrowStep ==
    ASSUME FindOK, ScanOK, SliceInv, NoneLost, NEW w \in Workers, Grow(w)
    PROVE  SliceInv' /\ NoneLost' /\ (NoneTwice => NoneTwice')
<1> DEFINE mine == [worker[w].mine EXCEPT !.array = Len(heap')]
           r == [worker[w] EXCEPT !.pc = "name", !.mine = mine]
<1>1. /\ worker[w].pc = "reserve" /\ worker[w].mine = slice /\ slice.len <= slice.cap
      /\ UNCHANGED <<scenario, up, jobs, find>>
      /\ worker' = [worker EXCEPT ![w].pc = "name", ![w].mine.array = Len(heap')]
    BY DEF Grow, SliceInv
<1>2. /\ r.pc = "name" /\ r.job = worker[w].job /\ r.mine = mine
      /\ worker' = [worker EXCEPT ![w] = r]
    BY <1>1 DEF ScanOK
<1>3. slice \in Words /\ slice.len \in Nat /\ slice.cap \in Nat /\ heap \in Seq(Seq(Cell))
      /\ slice.array \in 0..Len(heap) /\ Len(heap) \in Nat
    BY DEF ScanOK, Words
<1>4. mine.array = Len(heap') /\ mine.len = slice.len
    BY <1>1, <1>3 DEF Words
<1> HIDE DEF r, mine
<1>5. PICK cap \in Nat, copy \in Seq(Cell) :
          /\ Len(copy) = cap /\ cap > slice.len
          /\ \A i \in 1..slice.len : copy[i] = Element(slice.array, i)
          /\ heap' = Append(heap, copy) /\ Len(heap') = Len(heap) + 1
          /\ slice' = [array |-> Len(heap'), len |-> slice.len + 1, cap |-> cap]
    BY <1>1, GrowTypes
<1>6. slice'.array = Len(heap) + 1 /\ slice'.len = slice.len + 1 /\ slice'.cap = cap
      /\ heap'[Len(heap) + 1] = copy
    BY <1>3, <1>5
<1>7. /\ SliceInv' /\ Stored = 1..slice.len /\ Stored' = 1..slice'.len - 1
    <2>1. slice'.len <= slice'.cap /\ slice'.array # 0
          /\ Len(heap'[slice'.array]) = slice'.cap
          /\ r.mine.array = slice'.array /\ r.mine.len + 1 = slice'.len
        BY <1>2, <1>3, <1>4, <1>5, <1>6
    <2>2. QED
        BY <1>1, <1>2, <2>1, SliceAfter
<1>8. Stored' = Stored
    BY <1>3, <1>6, <1>7
<1>9. ASSUME NEW i \in Stored PROVE ElementAt(i)' = ElementAt(i)
    <2>1. i \in 1..slice.len /\ i <= Len(copy) /\ Len(heap) + 1 # 0
        BY <1>3, <1>5, <1>7, <1>9
    <2>2. ElementAt(i)' = copy[i]
        BY <1>6, <2>1 DEF ElementAt, Element
    <2>3. QED
        BY <1>5, <2>1, <2>2 DEF ElementAt
<1>10. NoneLost' /\ (NoneTwice => NoneTwice')
    BY <1>1, <1>2, <1>8, <1>9, AppendStep DEF Holding
<1>11. QED
    BY <1>7, <1>10

\* A store into the element that the append has made room for.
LEMMA StoreAt ==
    ASSUME ScanOK, SliceInv, NEW w \in Workers, worker[w].pc \in {"name", "target"}
    PROVE  /\ worker[w].mine.array = slice.array /\ Slot(w) = slice.len
           /\ slice.array \in 1..Len(heap) /\ slice.len \in 1..Len(heap[slice.array])
           /\ heap[slice.array][slice.len] \in Cell
           /\ ElementAt(slice.len) = heap[slice.array][slice.len]
<1>1. worker[w].mine.array = slice.array /\ Slot(w) = slice.len
    BY DEF SliceInv
<1>2. /\ heap \in Seq(Seq(Cell)) /\ slice.array \in 0..Len(heap) /\ Len(heap) \in Nat
      /\ slice.len \in Nat /\ slice.cap \in Nat /\ worker[w].mine.len \in Nat
    BY DEF ScanOK, Words
<1>3. slice.len >= 1 /\ slice.len <= slice.cap
    BY <1>1, <1>2 DEF Slot, SliceInv
<1>4. slice.array # 0 /\ Len(heap[slice.array]) = slice.cap
    BY <1>2, <1>3 DEF SliceInv
<1>5. slice.array \in 1..Len(heap) /\ slice.len \in 1..Len(heap[slice.array])
    BY <1>2, <1>3, <1>4
<1>6. heap[slice.array][slice.len] \in Cell
    BY <1>2, <1>5
<1>7. ElementAt(slice.len) = heap[slice.array][slice.len]
    BY <1>4, <1>5 DEF ElementAt, Element
<1>8. QED
    BY <1>1, <1>5, <1>6, <1>7

\* The store of a word into the last element leaves the others alone.
LEMMA CellStored ==
    ASSUME ScanOK, slice.array \in 1..Len(heap), slice.len \in 1..Len(heap[slice.array]),
           NEW cell \in Cell, UNCHANGED slice,
           heap' = [heap EXCEPT ![slice.array] = [heap[slice.array] EXCEPT ![slice.len] = cell]]
    PROVE  /\ Len(heap'[slice.array]) = Len(heap[slice.array])
           /\ ElementAt(slice.len)' = cell
           /\ \A i \in 1..slice.len - 1 : ElementAt(i)' = ElementAt(i)
<1> DEFINE a == slice.array
           n == slice.len
           g == [heap EXCEPT ![a] = [heap[a] EXCEPT ![n] = cell]]
<1>1. heap \in Seq(Seq(Cell)) /\ a \in Nat /\ n \in Nat \ {0} /\ a \in 1..Len(heap)
      /\ n \in 1..Len(heap[a]) /\ Len(heap[a]) \in Nat
    <2>1. heap \in Seq(Seq(Cell))
        BY DEF ScanOK
    <2>2. heap[a] \in Seq(Cell)
        BY <2>1
    <2>3. QED
        BY <2>1, <2>2
<1>2. heap' = g
    OBVIOUS
<1>3. slice'.array = a /\ slice'.len = n /\ n' = n
    OBVIOUS
<1> HIDE DEF a, n
<1>4. /\ Len(g[a]) = Len(heap[a])
      /\ \A j \in 1..Len(heap[a]) : g[a][j] = IF j = n THEN cell ELSE heap[a][j]
    BY <1>1, Stores
<1> HIDE DEF g
<1>5. \A i \in 1..n : i <= Len(heap[a]) /\ i \in 1..Len(heap[a]) /\ a # 0
    BY <1>1
<1>6. \A i \in 1..n : /\ ElementAt(i)' = g[a][i]
                      /\ ElementAt(i) = heap[a][i]
    <2>1. \A i \in 1..n : ElementAt(i) = heap[a][i]
        BY <1>5 DEF ElementAt, Element, a
    <2>2. \A i : ElementAt(i)' = IF a # 0 /\ i <= Len(g[a]) THEN g[a][i] ELSE Blank
        BY <1>2, <1>3 DEF ElementAt, Element
    <2>3. QED
        BY <1>4, <1>5, <2>1, <2>2
<1>7. n \in 1..n /\ \A i \in 1..n - 1 : i \in 1..n /\ i # n
    BY <1>1
<1>8. ElementAt(n)' = cell /\ \A i \in 1..n - 1 : ElementAt(i)' = ElementAt(i)
    <2>1. ElementAt(n)' = g[a][n]
        BY <1>2, <1>3, <1>4, <1>5, <1>7 DEF ElementAt, Element
    <2>2. g[a][n] = cell
        BY <1>1, <1>4
    <2>3. ASSUME NEW i \in 1..n - 1 PROVE ElementAt(i)' = ElementAt(i)
        <3>1. g[a][i] = heap[a][i]
            BY <1>4, <1>5, <1>7
        <3>2. QED
            BY <1>6, <1>7, <3>1
    <2>4. QED
        BY <2>1, <2>2, <2>3
<1>9. QED
    BY <1>2, <1>4, <1>8 DEF a, n

\* The first store of an append keeps what is in the slice.
LEMMA StoreNameStep ==
    ASSUME FindOK, ScanOK, SliceInv, NoneLost, NEW w \in Workers, StoreName(w)
    PROVE  SliceInv' /\ NoneLost' /\ (NoneTwice => NoneTwice')
<1> DEFINE r == [worker[w] EXCEPT !.pc = "target"]
           cell == [heap[slice.array][slice.len] EXCEPT !.name = worker[w].job]
<1>1. /\ r.pc = "target" /\ r.job = worker[w].job /\ r.mine = worker[w].mine
      /\ worker' = [worker EXCEPT ![w] = r]
    BY DEF StoreName, WorkerGoes, ScanOK
<1>2. /\ UNCHANGED <<scenario, up, jobs, find, slice>> /\ worker[w].pc = "name"
      /\ worker[w].job \in Addresses
    BY DEF StoreName, WorkerGoes, ScanOK, Holding
<1>3. /\ worker[w].mine.array = slice.array /\ Slot(w) = slice.len
      /\ slice.array \in 1..Len(heap) /\ slice.len \in 1..Len(heap[slice.array])
      /\ heap[slice.array][slice.len] \in Cell
    BY <1>2, StoreAt
<1>4. cell \in Cell /\ cell.name = worker[w].job
    BY <1>2, <1>3 DEF Cell
<1>5. heap' = [heap EXCEPT ![slice.array] = [heap[slice.array] EXCEPT ![slice.len] = cell]]
    BY <1>3 DEF StoreName
<1> HIDE DEF r, cell
<1>6. /\ Len(heap'[slice.array]) = Len(heap[slice.array])
      /\ ElementAt(slice.len)' = cell
      /\ \A i \in 1..slice.len - 1 : ElementAt(i)' = ElementAt(i)
    BY <1>2, <1>3, <1>4, <1>5, CellStored
<1>7. /\ SliceInv' /\ Stored = 1..slice.len - 1 /\ Stored' = 1..slice.len - 1
    <2>1. slice'.len <= slice'.cap /\ (slice'.array = 0 => slice'.cap = 0)
          /\ (slice'.array # 0 => Len(heap'[slice'.array]) = slice'.cap)
          /\ r.mine.array = slice'.array /\ r.mine.len + 1 = slice'.len
        BY <1>1, <1>2, <1>3, <1>6 DEF SliceInv, Slot
    <2>2. ElementAt(slice.len)'.name = r.job
        BY <1>1, <1>4, <1>6
    <2>3. QED
        BY <1>1, <1>2, <2>1, <2>2, SliceAfter
<1>8. NoneLost' /\ (NoneTwice => NoneTwice')
    BY <1>1, <1>2, <1>6, <1>7, AppendStep DEF Holding
<1>9. QED
    BY <1>7, <1>8

\* The last store moves an address from a worker's hands into the slice.
LEMMA StoreTargetStep ==
    ASSUME FindOK, ScanOK, SliceInv, NoneLost, NEW w \in Workers, StoreTarget(w)
    PROVE  SliceInv' /\ NoneLost' /\ (NoneTwice => NoneTwice')
<1> DEFINE r == [Off EXCEPT !.pc = "take"]
           job == worker[w].job
           cell == [heap[slice.array][slice.len] EXCEPT !.target = job]
<1>1. r.pc = "take" /\ worker' = [worker EXCEPT ![w] = r]
    BY DEF StoreTarget, Off
<1>2. /\ UNCHANGED <<scenario, up, jobs, find, slice>> /\ worker[w].pc = "target"
      /\ job \in Addresses
    BY DEF StoreTarget, ScanOK, Holding
<1>3. /\ worker[w].mine.array = slice.array /\ Slot(w) = slice.len
      /\ slice.array \in 1..Len(heap) /\ slice.len \in 1..Len(heap[slice.array])
      /\ heap[slice.array][slice.len] \in Cell
      /\ heap[slice.array][slice.len].name = job
    BY <1>2, StoreAt DEF SliceInv
<1>4. cell \in Cell /\ cell.name = job /\ cell.target = job
    BY <1>2, <1>3 DEF Cell
<1>5. heap' = [heap EXCEPT ![slice.array] = [heap[slice.array] EXCEPT ![slice.len] = cell]]
    BY <1>3 DEF StoreTarget
<1> HIDE DEF r, cell
<1>6. /\ Len(heap'[slice.array]) = Len(heap[slice.array])
      /\ ElementAt(slice.len)' = cell
      /\ \A i \in 1..slice.len - 1 : ElementAt(i)' = ElementAt(i)
    BY <1>2, <1>3, <1>4, <1>5, CellStored
<1>7. /\ SliceInv' /\ Stored = 1..slice.len - 1 /\ Stored' = 1..slice.len
    <2>1. slice'.len <= slice'.cap /\ (slice'.array = 0 => slice'.cap = 0)
          /\ (slice'.array # 0 => Len(heap'[slice'.array]) = slice'.cap)
        BY <1>2, <1>3, <1>6 DEF SliceInv
    <2>2. QED
        BY <1>1, <1>2, <2>1, SliceAfter
<1>8. slice.len \in Nat \ {0} /\ \A i : i \in Stored' <=> i \in Stored \/ i = slice.len
    <2>1. slice.len \in Nat /\ slice.len >= 1
        <3>1. slice.len \in Nat
            BY DEF ScanOK, Words
        <3>2. QED
            BY <1>3, <3>1
    <2>2. QED
        BY <1>7, <2>1
<1> DEFINE after == [i \in Stored' |-> IF i = slice.len THEN cell ELSE ElementAt(i)]
<1>9. \A i \in Stored' : ElementAt(i)' = after[i]
    <2>1. ASSUME NEW i \in Stored' PROVE ElementAt(i)' = after[i]
        <3>1. CASE i = slice.len
            <4>1. ElementAt(i)' = ElementAt(slice.len)'
                BY <1>2, <3>1 DEF ElementAt
            <4>2. QED
                BY <1>6, <3>1, <4>1
        <3>2. CASE i # slice.len
            BY <1>6, <1>7, <1>8, <3>2
        <3>3. QED
            BY <3>1, <3>2
    <2>2. QED
        BY <2>1
<1>10. /\ slice.len \in Stored' /\ slice.len \notin Stored /\ after[slice.len] = cell
       /\ \A i \in Stored : i \in Stored' /\ after[i] = ElementAt(i)
    BY <1>7, <1>8
<1> HIDE DEF after
<1>11. Returned' = Returned \cup {job}
    <2>1. \A x : x \in Returned' <=> \E i \in Stored' : x = after[i].name
        BY <1>9 DEF Returned
    <2>2. \A x : x \in Returned <=> \E i \in Stored : x = after[i].name
        BY <1>10 DEF Returned
    <2>3. after[slice.len].name = job
        BY <1>4, <1>10
    <2>4. ASSUME NEW x PROVE x \in Returned' <=> x \in Returned \/ x = job
        BY <1>8, <2>1, <2>2, <2>3
    <2>5. QED
        BY <2>4
<1>12. /\ worker'[w] = r /\ \A v \in Workers \ {w} : worker'[v] = worker[v]
       /\ InHand = Others(w) \cup Own(worker[w])
       /\ InHand' = Others(w) \cup Own(r)
    BY <1>1, Hands
<1>13. InHand = Others(w) \cup {job} /\ InHand' = Others(w) /\ ToSend' = ToSend
    BY <1>1, <1>2, <1>12 DEF Own, Holding, ToSend
<1>14. Scanned1' = Scanned1
    BY <1>2, ScannedStays
<1>15. job \in up
    BY <1>2 DEF NoneLost, Holding
<1>16. NoneLost'
    <2>1. \A i \in Stored' : after[i].name \in up /\ after[i].target = after[i].name
        BY <1>4, <1>8, <1>10, <1>15 DEF NoneLost
    <2>2. \A u \in Workers : worker'[u].pc \in Holding \ {"dial"} => worker'[u].job \in up
        BY <1>1, <1>12 DEF NoneLost, Holding
    <2>3. (Returned' \cup InHand' \cup ToSend') \cap up = Scanned1' \cap up
        BY <1>11, <1>13, <1>14 DEF NoneLost
    <2>4. QED
        BY <1>2, <1>9, <2>1, <2>2, <2>3 DEF NoneLost
<1>17. ASSUME NoneTwice PROVE NoneTwice'
    <2>1. job \notin Returned /\ job \notin ToSend
        BY <1>13, <1>17 DEF NoneTwice
    <2>2. job \notin Others(w)
        BY <1>2, <1>17 DEF Others, Own, NoneTwice, Holding
    <2>3. \A i \in Stored : ElementAt(i).name \in Returned
        BY DEF Returned
    <2>4. \A i, j \in Stored : ElementAt(i).name = ElementAt(j).name => i = j
        BY <1>17 DEF NoneTwice
    <2>5. \A i, j \in Stored' : after[i].name = after[j].name => i = j
        BY <1>4, <1>8, <1>10, <2>1, <2>3, <2>4
    <2>6. \A v, u \in Workers :
              worker'[v].pc \in Holding /\ worker'[u].pc \in Holding
              /\ worker'[v].job = worker'[u].job => v = u
        BY <1>1, <1>12, <1>17 DEF NoneTwice, Holding
    <2>7. \A i, j \in jobs' : i[2] = j[2] => i = j
        BY <1>2, <1>17 DEF NoneTwice
    <2>8. Returned' \cap (InHand' \cup ToSend') = {} /\ InHand' \cap ToSend' = {}
        BY <1>11, <1>13, <1>17, <2>1, <2>2 DEF NoneTwice
    <2>9. QED
        BY <1>9, <2>5, <2>6, <2>7, <2>8 DEF NoneTwice
<1>18. QED
    BY <1>7, <1>16, <1>17

-----------------------------------------------------------------------------
(* A scan, network by network *)

\* Without jobs and with all workers off nothing is on its way.
LEMMA NoHands ==
    ASSUME Idle
    PROVE  InHand = {} /\ ToSend = {} /\ Appending = {} /\ ~Storing
BY DEF Idle, InHand, ToSend, Appending, Storing, Holding

\* The addresses of each network are the hosts of its subnets.
LEMMA NetworkHosts ==
    ASSUME FindOK, Plugin = "network", NEW n \in DOMAIN Settings
    PROVE  AddressesOf(Settings[n]) = UNION {Hosts(net) : net \in ToSet(Settings[n])}
           /\ Settings[n] \in Seq(Subnet)
<1>1. Settings[n] \in Seq(Subnet)
    BY NetworksAre
<1>2. QED
    BY <1>1, JobsOf

\* Networks that are not ambiguous share no host.
LEMMA NetworksApart ==
    ASSUME FindOK, Plugin = "network", ~Ambiguous,
           NEW m \in DOMAIN Settings, NEW n \in DOMAIN Settings, m # n
    PROVE  AddressesOf(Settings[m]) \cap AddressesOf(Settings[n]) = {}
<1>1. \A s \in ToSet(Settings[m]), t \in ToSet(Settings[n]) : Hosts(s) \cap Hosts(t) = {}
    BY DEF Ambiguous
<1>2. /\ AddressesOf(Settings[m]) = UNION {Hosts(net) : net \in ToSet(Settings[m])}
      /\ AddressesOf(Settings[n]) = UNION {Hosts(net) : net \in ToSet(Settings[n])}
    BY NetworkHosts
<1>3. QED
    BY <1>1, <1>2

\* A Find begins with an empty slice.
LEMMA BeginScan ==
    ASSUME FindOK, ScanOK, Begin, Plugin = "network"
    PROVE  SliceInv' /\ NoneLost' /\ NoneTwice'
<1>1. /\ UNCHANGED <<scenario, up, jobs, worker, slice, heap>> /\ find.pc = "rest"
      /\ find'.todo = Settings
    BY DEF Begin, scanVars, FindOK
<1>2. slice = NilSlice /\ Idle
    BY <1>1 DEF ScanOK, Collects
<1>3. slice'.len = 0 /\ slice'.cap = 0 /\ slice'.array = 0
    BY <1>1, <1>2 DEF NilSlice
<1>4. Idle'
    BY <1>1, <1>2 DEF Idle
<1>5. InHand' = {} /\ ToSend' = {} /\ Appending' = {} /\ ~Storing'
    BY <1>4 DEF Idle, InHand, ToSend, Appending, Storing, Holding
<1>6. Stored' = {}
    BY <1>3, <1>5 DEF Stored
<1>7. \A w \in Workers : worker'[w].pc = "off"
    BY <1>4 DEF Idle
<1>8. Scanned1' = {}
    <2>1. Len(Settings) \in Nat
        BY SettingsAre
    <2>2. Passed' = 0
        BY <1>1, <2>1 DEF Passed, Settings
    <2>3. QED
        BY <2>2 DEF Scanned1
<1>9. SliceInv'
    BY <1>3, <1>5, <1>7 DEF SliceInv
<1>10. NoneLost'
    BY <1>5, <1>6, <1>7, <1>8 DEF NoneLost, Holding, Returned
<1>11. NoneTwice'
    <2>1. jobs' = {}
        BY <1>4 DEF Idle
    <2>2. QED
        BY <1>5, <1>6, <1>7, <2>1 DEF NoneTwice, Holding, Returned
<1>12. QED
    BY <1>9, <1>10, <1>11

\* No worker has anything, and what is in the slice stays as it is.
LEMMA SliceRests ==
    ASSUME SliceInv, ~Storing, UNCHANGED <<slice, heap>>,
           \A w \in Workers : worker'[w].pc \in {"off", "take"}
    PROVE  /\ SliceInv' /\ InHand' = {} /\ Stored' = Stored /\ Returned' = Returned
           /\ \A i : ElementAt(i)' = ElementAt(i)
<1>1. Storing' = Storing /\ InHand' = {} /\ Appending' = {}
    BY DEF Storing, InHand, Appending, Holding
<1>2. Stored' = Stored /\ Returned' = Returned /\ \A i : ElementAt(i)' = ElementAt(i)
    BY <1>1, SliceStays
<1>3. \A w \in Workers : worker'[w].pc \notin {"reserve", "name", "target"}
    OBVIOUS
<1>4. SliceInv'
    BY <1>1, <1>3 DEF SliceInv
<1>5. QED
    BY <1>1, <1>2, <1>4

\* The hosts of the next network are added to what is to be sent.
LEMMA NextNetworkScan ==
    ASSUME FindOK, ScanOK, TodoInv, SliceInv, NoneLost, NextNetwork, find'.pc # "stuck"
    PROVE  /\ SliceInv' /\ NoneLost'
           /\ ~Ambiguous /\ NoneTwice => NoneTwice'
<1> DEFINE nets == Head(find.todo)
           new == AddressesOf(Settings[Passed + 1])
<1>1. /\ jobs' = SubnetToIps(nets) /\ find'.todo = Tail(find.todo)
      /\ worker' = [w \in Workers |->
                       [Off EXCEPT !.pc = IF jobs' = {} THEN "off" ELSE "take"]]
      /\ UNCHANGED <<scenario, up, slice, heap>> /\ Plugin = "network" /\ find.pc = "next"
      /\ find.todo # <<>>
    BY DEF NextNetwork, FindOK
<1>2. Passed + 1 \in DOMAIN Settings /\ Passed \in Nat /\ nets = Settings[Passed + 1]
      /\ Len(Settings) - Len(Tail(find.todo)) = Passed + 1
    BY <1>1, NextIs
<1>3. nets \in Seq(Subnet)
    BY <1>1, <1>2, NetworkHosts
<1> HIDE DEF nets
<1>4. ToSend' = new /\ \A i, j \in jobs' : i[2] = j[2] => i = j
    BY <1>1, <1>2, <1>3, JobsOf DEF ToSend
<1>5. Idle /\ ~Storing /\ InHand = {} /\ ToSend = {}
    BY <1>1, NoHands DEF ScanOK
<1>6. \A w \in Workers : worker'[w].pc \in {"off", "take"}
    BY <1>1 DEF Off
<1>7. /\ SliceInv' /\ InHand' = {} /\ Stored' = Stored /\ Returned' = Returned
      /\ \A i : ElementAt(i)' = ElementAt(i)
    BY <1>1, <1>5, <1>6, SliceRests
<1>8. Scanned1' = Scanned1 \cup new
    <2>1. Settings' = Settings /\ Passed' = Passed + 1
        BY <1>1, <1>2 DEF Settings, Passed
    <2>2. Scanned1' = UNION {AddressesOf(Settings[n]) : n \in 1..Passed + 1}
        BY <2>1 DEF Scanned1, AddressesOf
    <2>3. \A n : n \in 1..Passed + 1 <=> n \in 1..Passed \/ n = Passed + 1
        BY <1>2
    <2>4. QED
        BY <2>2, <2>3 DEF Scanned1
<1> HIDE DEF new
<1>9. Returned \cap up = Scanned1 \cap up /\ Returned \subseteq up
    BY <1>5 DEF NoneLost, Returned
<1>10. NoneLost'
    <2>1. \A i \in Stored' : /\ ElementAt(i)'.name \in up
                             /\ ElementAt(i)'.target = ElementAt(i)'.name
        BY <1>7 DEF NoneLost
    <2>2. \A u \in Workers : worker'[u].pc \notin Holding
        BY <1>6 DEF Holding
    <2>3. (Returned' \cup InHand' \cup ToSend') \cap up = Scanned1' \cap up
        BY <1>4, <1>7, <1>8, <1>9
    <2>4. QED
        BY <1>1, <2>1, <2>2, <2>3 DEF NoneLost
<1>11. ASSUME ~Ambiguous, NoneTwice PROVE NoneTwice'
    <2>1. Scanned1 \cap new = {}
        <3>1. ASSUME NEW n \in 1..Passed PROVE AddressesOf(Settings[n]) \cap new = {}
            <4>1. n \in DOMAIN Settings /\ n # Passed + 1
                BY <1>1, <1>2, SettingsAre
            <4>2. QED
                BY <1>1, <1>2, <1>11, <4>1, NetworksApart DEF new
        <3>2. QED
            BY <3>1 DEF Scanned1
    <2>2. Returned' \cap ToSend' = {}
        BY <1>4, <1>7, <1>9, <2>1
    <2>3. \A i, j \in Stored' : ElementAt(i)'.name = ElementAt(j)'.name => i = j
        BY <1>7, <1>11 DEF NoneTwice
    <2>4. \A u \in Workers : worker'[u].pc \notin Holding
        BY <1>6 DEF Holding
    <2>5. QED
        BY <1>4, <1>7, <2>2, <2>3, <2>4 DEF NoneTwice
<1>12. QED
    BY <1>7, <1>10, <1>11

\* wg.Wait has returned, or nothing happens.
LEMMA ScanRests ==
    ASSUME SliceInv, NoneLost, UNCHANGED <<scenario, up, scanVars>>, find'.todo = find.todo
    PROVE  SliceInv' /\ NoneLost' /\ (NoneTwice => NoneTwice')
<1>1. UNCHANGED <<scenario, up, jobs, worker, slice, heap>> /\ find'.todo = find.todo
    BY DEF scanVars
<1>2. Scanned1' = Scanned1
    BY <1>1, ScannedStays
<1>3. Storing' = Storing /\ InHand' = InHand /\ ToSend' = ToSend /\ Appending' = Appending
    BY <1>1 DEF Storing, InHand, ToSend, Appending
<1>4. Stored' = Stored /\ Returned' = Returned /\ \A i : ElementAt(i)' = ElementAt(i)
    BY <1>1, <1>3, SliceStays
<1>5. SliceInv'
    <2>1. ElementAt(slice.len)' = ElementAt(slice.len)
        BY <1>1 DEF ElementAt, Element
    <2>2. \A w \in Workers : Slot(w)' = Slot(w)
        BY <1>1 DEF Slot
    <2>3. QED
        BY <1>1, <1>3, <2>1, <2>2 DEF SliceInv
<1>6. NoneLost'
    BY <1>1, <1>2, <1>3, <1>4 DEF NoneLost
<1>7. NoneTwice => NoneTwice'
    BY <1>1, <1>3, <1>4 DEF NoneTwice
<1>8. QED
    BY <1>5, <1>6, <1>7

\* Every step of a Find keeps the invariant of the scan.
LEMMA ScanStays ==
    ASSUME FindOK, ScanOK, TodoInv, ScanInv, FindNext, FindOK'
    PROVE  ScanInv'
<1>1. SUFFICES ASSUME Plugin' = "network", find'.pc \in {"next", "scan"}, find'.clean
               PROVE  SliceInv' /\ NoneLost' /\ (~Ambiguous' => NoneTwice')
    BY DEF ScanInv
<1>2. ASSUME UNCHANGED <<scenario, up>>, find.pc \in {"next", "scan"}, find.clean,
             SliceInv /\ NoneLost =>
                 SliceInv' /\ NoneLost' /\ (~Ambiguous /\ NoneTwice => NoneTwice')
      PROVE  SliceInv' /\ NoneLost' /\ (~Ambiguous' => NoneTwice')
    <2>1. Plugin = "network" /\ Ambiguous' = Ambiguous
        BY <1>1, <1>2, OffersStay DEF Plugin
    <2>2. SliceInv /\ NoneLost /\ (~Ambiguous => NoneTwice)
        BY <1>2, <2>1 DEF ScanInv
    <2>3. QED
        BY <1>2, <2>1, <2>2
<1>3. CASE Begin
    <2>1. Plugin = "network"
        BY <1>1, <1>3 DEF Begin, Plugin
    <2>2. QED
        BY <1>3, <2>1, BeginScan
<1>4. CASE NextNetwork
    <2>1. UNCHANGED <<scenario, up>> /\ find.pc = "next" /\ find.clean
        BY <1>1, <1>4 DEF NextNetwork, FindOK
    <2>2. QED
        BY <1>1, <1>2, <1>4, <2>1, NextNetworkScan
<1>5. CASE ScanEnds
    <2>1. /\ UNCHANGED <<scenario, up, scanVars>> /\ find'.todo = find.todo
          /\ find.pc = "scan" /\ find.clean
        BY <1>1, <1>5 DEF ScanEnds, FindOK
    <2>2. QED
        BY <1>2, <2>1, ScanRests
<1>6. ASSUME NEW w \in Workers, WorkerStep(w)
      PROVE  SliceInv' /\ NoneLost' /\ (~Ambiguous' => NoneTwice')
    <2>1. UNCHANGED <<scenario, up>> /\ find.pc = "scan" /\ find.clean
        BY <1>1, <1>6, WorkerSteps
    <2>2. SliceInv /\ NoneLost => SliceInv' /\ NoneLost' /\ (NoneTwice => NoneTwice')
        BY <1>1, <1>6, HandsSteps, ReserveStep, GrowStep, StoreNameStep, StoreTargetStep
           DEF WorkerStep
    <2>3. QED
        BY <1>2, <2>1, <2>2
<1>7. CASE WorldChanges
    <2>1. find.pc \in {"next", "scan"} /\ ~find'.clean
        BY <1>1, <1>7 DEF WorldChanges, FindOK
    <2>2. QED
        BY <1>1, <2>1
<1>8. CASE NextNamespace \/ NamespaceFails
    <2>1. Plugin' = "k8"
        BY <1>8 DEF NextNamespace, NamespaceFails, Plugin
    <2>2. QED
        BY <1>1, <2>1
<1>9. CASE Deliver \/ FindDocker \/ FindEc2 \/ ReturnK8 \/ FindStatic \/ ListFails
           \/ ReturnScan \/ WildRead
    <2>1. find'.pc \notin {"next", "scan"}
        <3>1. CASE Deliver \/ ListFails \/ WildRead
            BY <3>1 DEF Deliver, ListFails, WildRead, NoFind
        <3>2. CASE FindDocker \/ FindEc2 \/ FindStatic \/ ReturnK8 \/ ReturnScan
            BY <3>2 DEF FindDocker, FindEc2, FindStatic, ReturnK8, ReturnScan, Found, FindOK
        <3>3. QED
            BY <1>9, <3>1, <3>2
    <2>2. QED
        BY <1>1, <2>1
<1>10. QED
    BY <1>3, <1>4, <1>5, <1>6, <1>7, <1>8, <1>9
       DEF FindNext, FindGoes, ScanStep, ListStep, WorkerStep

\* A scan: one entry for each host that answers.
LEMMA ScanExact ==
    ASSUME FindOK, ScanOK, TodoInv, ScanInv, ReturnScan
    PROVE  FindExact'
<1>1. /\ UNCHANGED <<scenario, up>> /\ Plugin = "network" /\ find.pc = "next" /\ find.todo = <<>>
      /\ find'.clean = find.clean
      /\ find'.got = {[of |-> i, key |-> ElementAt(i).name, data |-> ElementAt(i).target] :
                         i \in 1..slice.len}
    BY DEF ReturnScan, Found, FindOK, ElementAt
<1>2. Idle /\ InHand = {} /\ ToSend = {} /\ ~Storing
    BY <1>1, NoHands DEF ScanOK
<1>3. Stored = 1..slice.len
    BY <1>2 DEF Stored
<1> DEFINE T == Stored
           key == [i \in T |-> ElementAt(i).name]
<1>4. find.clean => SliceInv /\ NoneLost /\ (~Ambiguous => NoneTwice)
    BY <1>1 DEF ScanInv
<1>5. ASSUME find.clean PROVE Returned = up \cap UNION {Hosts(net) : net \in Scanned}
    <2>1. Returned \subseteq up /\ Returned \cap up = Scanned1 \cap up
        BY <1>2, <1>4, <1>5 DEF NoneLost, Returned
    <2>2. Passed = Len(Settings) /\ DOMAIN Settings = 1..Len(Settings)
        BY <1>1, SettingsAre DEF Passed
    <2>3. \A n \in DOMAIN Settings :
              AddressesOf(Settings[n]) = UNION {Hosts(net) : net \in ToSet(Settings[n])}
        BY <1>1, NetworkHosts
    <2>4. \A a : a \in Scanned1 <=> \E n \in DOMAIN Settings : a \in AddressesOf(Settings[n])
        BY <2>2 DEF Scanned1
    <2>5. \A net : net \in Scanned <=> \E n \in DOMAIN Settings : net \in ToSet(Settings[n])
        BY DEF Scanned
    <2>6. Scanned1 = UNION {Hosts(net) : net \in Scanned}
        BY <2>3, <2>4, <2>5
    <2>7. QED
        BY <2>1, <2>6
<1>6. ASSUME find.clean, ~Ambiguous PROVE Exact(find'.got)
    <2>1. \A i \in T : ElementAt(i).target = key[i] /\ ElementAt(i).name = key[i]
        BY <1>4, <1>6 DEF NoneLost
    <2>2. find'.got = EntriesOf(T, key, key)
        <3>1. find'.got = {[of |-> i, key |-> ElementAt(i).name, data |-> ElementAt(i).target] :
                              i \in T}
            BY <1>1, <1>3
        <3> HIDE DEF T, key
        <3>2. \A i \in T : Entry(i, key[i], key[i])
                   = [of |-> i, key |-> ElementAt(i).name, data |-> ElementAt(i).target]
            BY <2>1 DEF Entry
        <3>3. QED
            BY <3>1, <3>2 DEF EntriesOf
    <2>3. Offers = OffersOf(T, key, key)
        <3>1. Offers = {Offer(a, a) : a \in Returned}
            BY <1>1, <1>5, <1>6 DEF Offers
        <3>2. Returned = {key[i] : i \in T}
            BY DEF Returned
        <3> HIDE DEF T, key
        <3>3. {Offer(a, a) : a \in {key[i] : i \in T}} = {Offer(key[i], key[i]) : i \in T}
            OBVIOUS
        <3>4. QED
            BY <3>1, <3>2, <3>3 DEF OffersOf
    <2>4. Differ(T, key)
        BY <1>4, <1>6 DEF NoneTwice, Differ
    <2> HIDE DEF T, key
    <2>5. QED
        BY <2>2, <2>3, <2>4, ExactImage
<1>7. QED
    BY <1>1, <1>6, FindIsExact

\* A Find that has its result has the right one.
LEMMA ExactStays ==
    ASSUME FindOK, ScanOK, TodoInv, NamespacesInv, ScanInv, FindNext
    PROVE  FindExact'
<1>1. CASE FindDocker \/ FindEc2 \/ ReturnK8 \/ FindStatic \/ ReturnScan
    BY <1>1, DockerExact, Ec2Exact, K8Exact, StaticExact, ScanExact
<1>2. CASE WorldChanges
    <2>1. find'.pc = "found" => ~find'.clean
        BY <1>2 DEF WorldChanges, FindOK
    <2>2. QED
        BY <2>1 DEF FindExact
<1>3. CASE Begin \/ Deliver \/ NextNetwork \/ ScanEnds \/ WildRead \/ NextNamespace
           \/ ListFails \/ NamespaceFails \/ \E w \in Workers : WorkerStep(w)
    <2>1. find'.pc # "found"
        <3> USE DEF FindOK, NoFind
        <3>1. CASE Begin
            BY <3>1 DEF Begin
        <3>2. CASE Deliver \/ ListFails \/ WildRead
            BY <3>2 DEF Deliver, ListFails, WildRead
        <3>3. CASE NextNetwork
            BY <3>3 DEF NextNetwork
        <3>4. CASE ScanEnds
            BY <3>4 DEF ScanEnds
        <3>5. CASE NextNamespace
            BY <3>5 DEF NextNamespace
        <3>6. CASE NamespaceFails
            BY <3>6 DEF NamespaceFails
        <3>7. CASE \E w \in Workers : WorkerStep(w)
            BY <3>7, WorkerSteps
        <3>8. QED
            BY <1>3, <3>1, <3>2, <3>3, <3>4, <3>5, <3>6, <3>7
    <2>2. QED
        BY <2>1 DEF FindExact
<1>4. QED
    BY <1>1, <1>2, <1>3 DEF FindNext, FindGoes, ScanStep, ListStep, WorkerStep

-----------------------------------------------------------------------------

\* Every step of a Find keeps the types.
LEMMA FindKeepsTypes ==
    ASSUME FindOK, ScanOK, TodoInv, FindNext
    PROVE  FindOK' /\ ScanOK'
<1>1. CASE Begin \/ Deliver \/ ListStep \/ ListFails \/ NamespaceFails \/ WorldChanges
    BY <1>1, ListingTypes
<1>2. CASE NextNetwork \/ ScanEnds \/ ReturnScan \/ WildRead
    BY <1>2, DispatchTypes
<1>3. CASE \E w \in Workers : WorkerStep(w)
    BY <1>3, WorkerSteps
<1>4. QED
    BY <1>1, <1>2, <1>3 DEF FindNext, FindGoes, ScanStep, WorkerStep

\* No Find has begun.
LEMMA FindInit == Init => FindInv
<1>1. SUFFICES ASSUME Init, part = "find" PROVE FindInv
    BY DEF FindInv
<1>2. /\ scenario \in Scenarios /\ up \in scenario.worlds /\ find = NoFind
      /\ jobs = {} /\ worker = [w \in Workers |-> Off] /\ slice = NilSlice /\ heap = <<>>
    BY <1>1 DEF Init, InitFind
<1>3. up \subseteq scenario.services
    <2>1. \A s \in Scenarios : s.worlds \subseteq SUBSET s.services
        BY ScenariosAssumption, Zenon
    <2>2. QED
        BY <1>2, <2>1
<1>4. find.pc = "rest" /\ find.got = {} /\ find.clean /\ find = [pc |-> find.pc,
          todo |-> find.todo, got |-> find.got, clean |-> find.clean]
    BY <1>2 DEF NoFind
<1>5. FindOK
    BY <1>2, <1>3, <1>4 DEF FindOK, FindPC
<1>6. ScanOK
    <2>1. slice \in Words /\ heap \in Seq(Seq(Cell)) /\ Off.mine \in Words
        BY <1>2 DEF NilSlice, Off, Words
    <2>2. Off \in [pc : WorkerPC, job : Addresses \cup {None}, mine : Words]
        BY <2>1 DEF Off, WorkerPC
    <2>3. \A w \in Workers : worker[w] = Off /\ worker[w].pc = "off"
        BY <1>2 DEF Off
    <2>4. worker \in [Workers -> [pc : WorkerPC, job : Addresses \cup {None}, mine : Words]]
        BY <1>2, <2>2
    <2>5. QED
        BY <1>2, <2>1, <2>3, <2>4 DEF ScanOK, Idle, Holding
<1>7. TodoInv /\ NamespacesInv /\ ScanInv /\ FindExact
    BY <1>4 DEF TodoInv, NamespacesInv, ScanInv, FindExact
<1>8. QED
    BY <1>5, <1>6, <1>7 DEF FindInv

\* The invariant of Find is inductive.
LEMMA FindStep == FindInv /\ [Next]_vars => FindInv'
<1>1. SUFFICES ASSUME FindInv, [Next]_vars, part' = "find" PROVE FindInv'
    BY DEF FindInv
<1>2. part = "find" /\ (FindNext \/ UNCHANGED <<part, findVars>>)
    BY <1>1 DEF Next, vars
<1>3. FindOK /\ ScanOK /\ TodoInv /\ NamespacesInv /\ ScanInv /\ FindExact
    BY <1>1, <1>2 DEF FindInv
<1>4. CASE FindNext
    BY <1>3, <1>4, FindKeepsTypes, TodoStep, NamespacesStep, ScanStays, ExactStays DEF FindInv
<1>5. CASE UNCHANGED <<part, findVars>>
    <2>1. UNCHANGED <<part, scenario, up, find, jobs, worker, slice, heap>>
        BY <1>5 DEF findVars, scanVars
    <2>2. FindOK' /\ ScanOK'
        BY <1>3, <2>1 DEF FindOK, ScanOK, Plugin, Collects, Idle, Words
    <2>3. TodoInv'
        BY <1>3, <2>1 DEF TodoInv, Settings, Passed
    <2>4. NamespacesInv'
        <3>1. Passed' = Passed /\ \A n : InNamespace(Settings[n])' = InNamespace(Settings[n])
            BY <2>1 DEF Passed, Settings, InNamespace
        <3>2. {EntryOf(s) : s \in UNION {InNamespace(Settings[n]) : n \in 1..Passed}}'
                  = {EntryOf(s) : s \in UNION {InNamespace(Settings[n]) : n \in 1..Passed}}
            BY <3>1 DEF EntryOf
        <3>3. QED
            BY <1>3, <2>1, <3>2 DEF NamespacesInv, Plugin
    <2>5. ScanInv'
        <3>1. Plugin' = Plugin /\ Ambiguous' = Ambiguous /\ UNCHANGED scanVars
            BY <2>1, OffersStay DEF Plugin, scanVars
        <3>2. SliceInv /\ NoneLost => SliceInv' /\ NoneLost' /\ (NoneTwice => NoneTwice')
            BY <2>1, <3>1, ScanRests
        <3>3. QED
            BY <1>3, <2>1, <3>1, <3>2 DEF ScanInv
    <2>6. FindExact'
        BY <1>3, <2>1, OffersStay DEF FindExact, Offer
    <2>7. QED
        BY <2>2, <2>3, <2>4, <2>5, <2>6 DEF FindInv
<1>6. QED
    BY <1>2, <1>4, <1>5

\* The inductive invariant: the types, what is left to do, where everything
\* found so far is, and that a result is the right one.
THEOREM FindInvariant == Spec => []FindInv
<1>1. Init => FindInv
    BY FindInit
<1>2. FindInv /\ [Next]_vars => FindInv'
    BY FindStep
<1>3. QED
    BY <1>1, <1>2, PTL DEF Spec

\* What a Find returns that nothing disturbed is what there is to discover, each
\* once: no subnet's host is missed or dialled twice, and no two workers put
\* theirs into one place (networkscan.go:60-126, docker.go:60-125).
THEOREM FindExactCorrect == Spec => []FindExact
<1>1. FindInv => FindExact
    BY DEF FindInv, FindExact
<1>2. QED
    BY <1>1, FindInvariant, PTL

-----------------------------------------------------------------------------
(* The types of Parts *)

\* Of the other half nothing has happened.
HalvesOK ==
    /\ part \in {"find", "policies"} /\ faults \in 0..MaxFaults
    /\ part = "policies" =>
          /\ scenario = None /\ find = NoFind /\ slice = NilSlice /\ heap = <<>>
          /\ jobs = {} /\ worker = [w \in Workers |-> Off]

\* A fault is counted; nothing else touches the count.
Counts == UNCHANGED faults \/ (faults < MaxFaults /\ faults' = faults + 1)

\* Find only counts faults.
LEMMA FindCounts == FindNext => Counts
<1> USE DEF Fault, Counts
<1>1. Begin \/ Deliver \/ ListFails \/ NamespaceFails \/ WorldChanges => Counts
    BY DEF Begin, Deliver, ListFails, NamespaceFails, WorldChanges
<1>2. ListStep => Counts
    BY DEF ListStep, FindDocker, FindEc2, NextNamespace, ReturnK8, FindStatic
<1>3. NextNetwork \/ ScanEnds \/ ReturnScan \/ WildRead => Counts
    BY DEF NextNetwork, ScanEnds, ReturnScan, WildRead
<1>4. \A w \in Workers : WorkerStep(w) => Counts
    BY DEF WorkerStep, Take, Leave, Dial, ReadSlice, Reserve, Grow, StoreName, StoreTarget
<1>5. QED
    BY <1>1, <1>2, <1>3, <1>4 DEF FindNext, FindGoes, ScanStep, WorkerStep

\* So do the policies.
LEMMA PoliciesCount == PoliciesNext => Counts
<1> USE DEF Fault, Counts
<1>1. ManagerStep => Counts
    BY DEF ManagerStep, List, LookUp, LookedUp, AttachPolicies, DetachPolicies, Put
<1>2. ASSUME NEW u \in Users, CmdStep(u) PROVE Counts
    <2>1. RunCommand(u) \/ FindPolicyByName(u) \/ SetSocket(u) \/ DeletePolicy(u) => Counts
        BY DEF RunCommand, FindPolicyByName, SetSocket, DeletePolicy, Refused, Answered
    <2>2. ReadPolicyFile(u) \/ CreateFile(u) \/ FillFile(u) \/ EditorOpens(u) => Counts
        BY DEF ReadPolicyFile, CreateFile, FillFile, EditorOpens
    <2>3. EditorSaves(u) \/ ReadFile(u) \/ BadJson(u) \/ Kill(u) => Counts
        BY DEF EditorSaves, ReadFile, BadJson, Kill
    <2>4. UpdatePolicy(u) \/ AddPolicy(u) => Counts
        BY DEF UpdatePolicy, AddPolicy, Refused, Answered
    <2>5. QED
        BY <1>2, <2>1, <2>2, <2>3, <2>4 DEF CmdStep
<1>3. QED
    BY <1>1, <1>2 DEF PoliciesNext

\* One half of Parts runs, the other one rests.
LEMMA HalvesStay == HalvesOK /\ [Next]_vars => HalvesOK'
<1>1. SUFFICES ASSUME HalvesOK, [Next]_vars PROVE HalvesOK'
    OBVIOUS
<1>2. CASE Next
    <2>1. Counts
        BY <1>2, FindCounts, PoliciesCount DEF Next
    <2>2. faults' \in 0..MaxFaults
        BY <1>1, <2>1, PartsAssumption DEF HalvesOK, Counts
    <2>3. part' = part /\ (part = "policies" => UNCHANGED findVars)
        BY <1>2 DEF Next
    <2>4. QED
        BY <1>1, <2>2, <2>3 DEF HalvesOK, findVars, scanVars
<1>3. CASE UNCHANGED vars
    BY <1>1, <1>3 DEF HalvesOK, vars, findVars, scanVars
<1>4. QED
    BY <1>1, <1>2, <1>3

\* The types follow from the invariants of the two halves.
LEMMA TypesFollow == HalvesOK /\ FindInv /\ PoliciesInv => TypeOK
<1> DEFINE Worker == [pc : WorkerPC, job : 0..Top \cup {None},
                      mine : [array : Nat, len : Nat, cap : Nat]]
<1>1. SUFFICES ASSUME HalvesOK, FindInv, PoliciesInv PROVE TypeOK
    OBVIOUS
<1>2. /\ attached \subseteq {i \in Ids : Live(i)} /\ manager \in Manager
      /\ cmd \in [Users -> Command] /\ file \in [Names -> Seq(Document) \cup {None}]
    BY <1>1 DEF PoliciesInv, PoliciesOK
<1>3. /\ scenario \in Scenarios \cup {None}
      /\ find.pc \in FindPC /\ find.clean \in BOOLEAN
      /\ jobs \subseteq Nat \X (0..Top) /\ slice.array \in 0..Len(heap)
      /\ worker \in [Workers -> Worker]
    <2>1. CASE part = "find"
        <3>1. FindOK /\ ScanOK
            BY <1>1, <2>1 DEF FindInv
        <3>2. Words \subseteq [array : Nat, len : Nat, cap : Nat]
            <4>1. Len(heap) \in Nat
                BY <3>1 DEF ScanOK
            <4>2. QED
                BY <4>1 DEF Words
        <3>3. worker \in [Workers -> Worker]
            BY <3>1, <3>2 DEF ScanOK, Addresses
        <3>4. QED
            BY <3>1, <3>3 DEF FindOK, ScanOK, Words, Addresses
    <2>2. CASE part = "policies"
        <3>1. /\ scenario = None /\ find = NoFind /\ slice = NilSlice /\ heap = <<>>
              /\ jobs = {} /\ worker = [w \in Workers |-> Off]
            BY <1>1, <2>2 DEF HalvesOK
        <3>2. Off \in Worker
            BY DEF Off, WorkerPC
        <3>3. slice.array \in 0..Len(heap)
            BY <3>1 DEF NilSlice
        <3>4. find.pc \in FindPC /\ find.clean \in BOOLEAN
            BY <3>1 DEF NoFind, FindPC
        <3>5. QED
            BY <3>1, <3>2, <3>3, <3>4
    <2>3. QED
        BY <1>1, <2>1, <2>2 DEF HalvesOK
<1>4. QED
    BY <1>1, <1>2, <1>3 DEF HalvesOK, TypeOK

\* Every variable of both halves keeps its type; the slice that the workers
\* write without a lock always points to an array there is.
THEOREM PartsTypesCorrect == Spec => []TypeOK
<1>1. Init => HalvesOK
    BY PartsAssumption DEF Init, InitPolicies, HalvesOK
<1>2. HalvesOK /\ [Next]_vars => HalvesOK'
    BY HalvesStay
<1>3. QED
    BY <1>1, <1>2, TypesFollow, FindInvariant, PoliciesInvariant, PTL DEF Spec
=============================================================================
