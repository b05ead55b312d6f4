------------------------------ MODULE IpamProofs ------------------------------
(***************************************************************************)
(* Address management, for every width of addresses and every lists the     *)
(* device may answer with.                                                  *)
(*                                                                         *)
(* The walk of calculateFreeRanges finds exactly the free addresses of a   *)
(* subnet (IpamInv).  A finished subnet keeps what the walk found and the  *)
(* map of the addresses known in it, which is the map of the lists still   *)
(* held in device (CommandInv): from it follows that `ip free`, `ip usage` *)
(* and `ip check` agree, and that none of them offers an address that a    *)
(* list shows as taken.                                                    *)
(***************************************************************************)
EXTENDS Ipam, SequenceTheorems, FiniteSetTheorems, TLAPS

Ranges == [start : Nat, end : Nat, count : Nat]

\* A prefix has at least one usable address.
LEMMA UsableBounds ==
  ASSUME NEW p, p.addr \in Nat, p.bits \in Bits
  PROVE  /\ FirstUsable(p) \in Nat /\ LastUsable(p) \in Nat
         /\ FirstUsable(p) <= LastUsable(p)
<1>1. /\ Block(p.bits) \in Nat \ {0}
      /\ p.bits = Width - 1 => Block(p.bits) = 2
      /\ p.bits < Width - 1 => Block(p.bits) >= 4
  BY BlockAssumption
<1>2. p.bits \in Int /\ Width \in Int /\ p.bits <= Width
  BY WidthAssumption DEF Bits
<1> QED
  BY <1>1, <1>2 DEF FirstUsable, LastUsable, NetworkIP, BroadcastIP

\* A taken address after the ranges changes nothing.
LEMMA TakenNext ==
  ASSUME NEW rs \in Seq(Ranges), NEW first \in Nat, NEW b \in Nat, NEW known,
         AreFreeRanges(rs, first, b - 1, known), b \in known
  PROVE  AreFreeRanges(rs, first, b, known)
<1>1. \A k \in DOMAIN rs : rs[k] \in Ranges
  OBVIOUS
<1>2. \A k \in DOMAIN rs : rs[k].start \in Nat /\ rs[k].end \in Nat /\ rs[k].end <= b - 1
  BY <1>1 DEF Ranges, AreFreeRanges
<1>3. ASSUME NEW a \in first..b
      PROVE  a \notin known <=> \E k \in DOMAIN rs : rs[k].start <= a /\ a <= rs[k].end
  BY <1>2, <1>3 DEF AreFreeRanges
<1> QED
  BY <1>2, <1>3 DEF AreFreeRanges

\* A run of free addresses that does not touch the ranges before it is the next one.
LEMMA RunNext ==
  ASSUME NEW rs \in Seq(Ranges), NEW first \in Nat, NEW s \in Nat, NEW e \in Nat, NEW known,
         AreFreeRanges(rs, first, s - 1, known), first <= s, s <= e,
         \A a \in s..e : a \notin known,
         rs # <<>> => rs[Len(rs)].end + 1 < s
  PROVE  AreFreeRanges(Append(rs, IPRange(s, e, e - s + 1)), first, e, known)
<1> DEFINE r  == IPRange(s, e, e - s + 1)
           t  == Append(rs, r)
           n  == Len(rs)
<1>1. r \in Ranges /\ r.start = s /\ r.end = e /\ r.count = e - s + 1
  BY DEF IPRange, Ranges
<1> HIDE DEF r
<1>2. /\ n \in Nat /\ DOMAIN rs = 1..n /\ DOMAIN t = 1..(n + 1) /\ t[n + 1] = r
      /\ \A k \in 1..n : t[k] = rs[k] /\ rs[k] \in Ranges
  BY <1>1
<1> HIDE DEF t
<1>3. \A k \in 1..n : rs[k].start \in Nat /\ rs[k].end \in Nat /\ rs[k].end <= s - 1
  BY <1>2 DEF Ranges, AreFreeRanges
<1>4. \A k \in 1..(n + 1) : k \in 1..n \/ k = n + 1
  BY <1>2
<1>5. \A k \in DOMAIN t : /\ first <= t[k].start /\ t[k].start <= t[k].end /\ t[k].end <= e
                          /\ t[k].count = t[k].end - t[k].start + 1
  BY <1>1, <1>2, <1>3, <1>4 DEF AreFreeRanges
<1>6. ASSUME NEW k \in DOMAIN t, k + 1 \in DOMAIN t PROVE t[k].end + 1 < t[k + 1].start
  <2>1. k \in 1..n /\ (k + 1 \in 1..n \/ k = n)
    BY <1>2, <1>6
  <2>2. CASE k + 1 \in 1..n
    BY <1>2, <2>1, <2>2 DEF AreFreeRanges
  <2>3. CASE k = n
    <3>1. rs # <<>>
      BY <1>2, <2>1
    <3> QED
      BY <1>1, <1>2, <2>1, <2>3, <3>1
  <2> QED
    BY <2>1, <2>2, <2>3
<1>7. ASSUME NEW a \in first..e
      PROVE  a \notin known <=> \E k \in DOMAIN t : t[k].start <= a /\ a <= t[k].end
  <2>1. CASE a <= s - 1
    <3>1. a \in first..(s - 1)
      BY <1>7, <2>1
    <3>2. a \notin known <=> \E k \in 1..n : t[k].start <= a /\ a <= t[k].end
      BY <1>2, <3>1 DEF AreFreeRanges
    <3>3. ~(t[n + 1].start <= a)
      BY <1>1, <1>2, <1>7, <2>1
    <3>4. \A k \in 1..n : k \in 1..(n + 1)
      BY <1>2
    <3> QED
      BY <1>2, <1>4, <3>2, <3>3, <3>4
  <2>2. CASE ~(a <= s - 1)
    <3>1. a \in s..e
      BY <1>7, <2>2
    <3>2. t[n + 1].start <= a /\ a <= t[n + 1].end /\ n + 1 \in DOMAIN t
      BY <1>1, <1>2, <3>1
    <3> QED
      BY <3>1, <3>2
  <2> QED
    BY <2>1, <2>2
<1> QED
  BY <1>5, <1>6, <1>7 DEF AreFreeRanges, t, r

-----------------------------------------------------------------------------
\* The subnets that are discovered are prefixes.
Networks == [addr : Nat, bits : Bits]

LEMMA MaskIsANetwork ==
  ASSUME NEW a \in Addrs, NEW b \in Bits
  PROVE  Mask(a, b) \in Networks
<1>1. a % Block(b) \in 0..a
  BY BlockAssumption
<1>2. a \in Nat
  BY DEF Addrs
<1>3. a - (a % Block(b)) \in Nat
  BY <1>1, <1>2
<1> QED
  BY <1>3 DEF Mask, Networks

Devices == [interfaces : Seq(InterfaceAddress), leases : Seq(Lease),
            arp : Seq(Neighbour), peers : Seq(AllowedIP)]

LEMMA DistinctKeepsNetworks ==
  ASSUME NEW cs, \A k \in DOMAIN cs : cs[k].prefix \in Networks \cup {NoPrefix}
  PROVE  \A k \in DOMAIN Distinct(cs) : Distinct(cs)[k].prefix \in Networks
BY DEF Distinct

LEMMA NamedAndGuessed ==
  /\ \A x \in Neighbour \cup Lease : Guess(x).prefix \in Networks \cup {NoPrefix}
  /\ \A l \in Lease : Named(l).prefix \in Networks \cup {NoPrefix}
<1>1. ASSUME NEW x \in Neighbour \cup Lease PROVE Guess(x).prefix \in Networks \cup {NoPrefix}
  <2>1. x.addr \in Addrs
    BY DEF Neighbour, Lease
  <2> QED
    BY <2>1, MaskIsANetwork, BitsAssumption DEF Guess, Candidate
<1>2. ASSUME NEW l \in Lease PROVE Named(l).prefix \in Networks \cup {NoPrefix}
  <2>1. CASE l.cidr = NoPrefix
    BY <2>1 DEF Named, Candidate
  <2>2. CASE l.cidr # NoPrefix
    <3>1. l.cidr.addr \in Addrs /\ l.cidr.bits \in Bits
      BY <2>2 DEF Lease, Prefixes
    <3> QED
      BY <2>2, <3>1, MaskIsANetwork DEF Named, Candidate
  <2> QED
    BY <2>1, <2>2
<1> QED
  BY <1>1, <1>2

LEMMA SubnetsAreNetworks ==
  ASSUME NEW d \in Devices
  PROVE  \A k \in DOMAIN DiscoverSubnets(d) : DiscoverSubnets(d)[k].prefix \in Networks
<1>1. /\ d.interfaces \in Seq(InterfaceAddress) /\ d.leases \in Seq(Lease)
      /\ d.arp \in Seq(Neighbour)
  BY DEF Devices
<1>2. ASSUME NEW k \in DOMAIN FromInterfaces(d)
      PROVE  FromInterfaces(d)[k].prefix \in Networks \cup {NoPrefix}
  <2> DEFINE x == d.interfaces[k]
  <2>1. x \in InterfaceAddress
    BY <1>1, <1>2 DEF FromInterfaces
  <2>2. x.addr \in Addrs /\ (x.bits # Bare => x.bits \in Bits)
    BY <2>1 DEF InterfaceAddress
  <2>3. FromInterfaces(d)[k].prefix = IF x.bits = Bare THEN NoPrefix ELSE Mask(x.addr, x.bits)
    BY <1>2 DEF FromInterfaces, Candidate
  <2> QED
    BY <2>2, <2>3, MaskIsANetwork
<1> DEFINE n  == Len(d.leases)
           fl == FromLeases(d)
           fa == FromARP(d)
<1>3. n \in Nat /\ DOMAIN d.leases = 1..n
  BY <1>1
<1>4. ASSUME NEW k \in 1..(2 * n) PROVE fl[k].prefix \in Networks \cup {NoPrefix}
  <2>1. (k + 1) \div 2 \in 1..n
    BY <1>3
  <2>2. d.leases[(k + 1) \div 2] \in Lease
    BY <1>1, <1>3, <2>1
  <2> QED
    BY <2>2, NamedAndGuessed DEF FromLeases
<1>5. ASSUME NEW k \in DOMAIN d.arp PROVE fa[k].prefix \in Networks \cup {NoPrefix}
  <2>1. d.arp[k] \in Neighbour
    BY <1>1
  <2> QED
    BY <2>1, NamedAndGuessed DEF FromARP
<1>6. /\ DOMAIN fl = 1..(2 * n) /\ Len(fl) = 2 * n
      /\ DOMAIN fa = 1..Len(d.arp) /\ Len(fa) = Len(d.arp) /\ Len(d.arp) \in Nat
  BY <1>1, <1>3 DEF FromLeases, FromARP
<1> HIDE DEF n, fl, fa
<1>7. ASSUME NEW k \in DOMAIN (fl \o fa)
      PROVE  (fl \o fa)[k].prefix \in Networks \cup {NoPrefix}
  <2>1. k \in 1..(2 * n + Len(d.arp))
    BY <1>3, <1>6, <1>7
  <2>2. CASE k <= 2 * n
    BY <1>3, <1>4, <1>6, <2>1, <2>2
  <2>3. CASE ~(k <= 2 * n)
    <3>1. k - 2 * n \in 1..Len(d.arp) /\ (fl \o fa)[k] = fa[k - 2 * n]
      BY <1>3, <1>6, <2>1, <2>3
    <3> QED
      BY <1>1, <1>5, <3>1
  <2> QED
    BY <2>2, <2>3
<1>8. \A k \in DOMAIN Distinct(FromInterfaces(d)) :
        Distinct(FromInterfaces(d))[k].prefix \in Networks
  BY <1>2, DistinctKeepsNetworks
<1>9. \A k \in DOMAIN Distinct(fl \o fa) : Distinct(fl \o fa)[k].prefix \in Networks
  BY <1>7, DistinctKeepsNetworks
<1> QED
  BY <1>8, <1>9 DEF DiscoverSubnets, fl, fa

-----------------------------------------------------------------------------
IsSequence(s) == \E S : s \in Seq(S)
WalkInv == IpamInv /\ IsSequence(usages)

\* Where the open run starts.
From == IF runStart = NoAddr THEN cur ELSE runStart

\* Everything but the walk and the subnets that are finished.
LEMMA IpamFrame ==
  ASSUME WalkInv, UNCHANGED <<walk, usages>>, device' \in Devices,
         pc' \in {"start", "interfaces", "leases", "arp", "peers", "discover", "next",
                 "selected", "answered", "failed"}
  PROVE  WalkInv'
BY DEF WalkInv, IpamInv, walk, TypeOK, WalkOK, CloseOK, FreeRangesAreExact, Devices

LEMMA DeviceType == WalkInv => device \in Devices
BY DEF WalkInv, IpamInv, TypeOK, Devices

LEMMA ListTypes ==
  /\ \A l \in LeaseLists \cup {<<>>} : l \in Seq(Lease)
  /\ \A l \in ARPLists \cup {<<>>} : l \in Seq(Neighbour)
  /\ \A l \in PeerLists \cup {<<>>} : l \in Seq(AllowedIP)
<1>1. /\ \A l \in LeaseLists : l \in Seq(Lease)
      /\ \A l \in ARPLists : l \in Seq(Neighbour)
      /\ \A l \in PeerLists : l \in Seq(AllowedIP)
  BY ListsAssumption, Zenon
<1>2. <<>> \in Seq(Lease) /\ <<>> \in Seq(Neighbour) /\ <<>> \in Seq(AllowedIP)
  OBVIOUS
<1> QED
  BY <1>1, <1>2, Zenon

\* A list that is read, or that could not be read, is a list of the device.
LEMMA ReadTypes ==
  ASSUME WalkInv, ReadInterfaces \/ ReadLeases \/ ReadARP \/ ReadPeers
  PROVE  device' \in Devices
<1>0. device \in Devices
  BY DeviceType
<1>1. CASE ReadInterfaces
  BY <1>0, <1>1, ListsAssumption DEF ReadInterfaces, Devices
<1>2. CASE ReadLeases
  <2>1. PICK l \in LeaseLists \cup {<<>>} : device' = [device EXCEPT !["leases"] = l]
    BY <1>2, Zenon DEF ReadLeases, Read
  <2>2. l \in Seq(Lease)
    BY <2>1, ListTypes, Zenon
  <2>3. device' = [device EXCEPT !.leases = l]
    BY <2>1, Zenon
  <2> QED
    BY <1>0, <2>2, <2>3 DEF Devices
<1>3. CASE ReadARP
  <2>1. PICK l \in ARPLists \cup {<<>>} : device' = [device EXCEPT !["arp"] = l]
    BY <1>3, Zenon DEF ReadARP, Read
  <2>2. l \in Seq(Neighbour)
    BY <2>1, ListTypes, Zenon
  <2>3. device' = [device EXCEPT !.arp = l]
    BY <2>1, Zenon
  <2> QED
    BY <1>0, <2>2, <2>3 DEF Devices
<1>4. CASE ReadPeers
  <2>1. PICK l \in PeerLists \cup {<<>>} : device' = [device EXCEPT !["peers"] = l]
    BY <1>4, Zenon DEF ReadPeers, Read
  <2>2. l \in Seq(AllowedIP)
    BY <2>1, ListTypes, Zenon
  <2>3. device' = [device EXCEPT !.peers = l]
    BY <2>1, Zenon
  <2> QED
    BY <1>0, <2>2, <2>3 DEF Devices
<1> QED
  BY <1>1, <1>2, <1>3, <1>4

LEMMA DiscoverStep ==
  ASSUME WalkInv, Discover
  PROVE  WalkInv'
<1>1. \A k \in DOMAIN todo' : todo'[k].prefix \in Networks
  BY DeviceType, SubnetsAreNetworks DEF Discover
<1> QED
  BY <1>1 DEF Discover, WalkInv, IpamInv, TypeOK, WalkOK, CloseOK, FreeRangesAreExact, Networks

LEMMA StartSubnetStep ==
  ASSUME WalkInv, StartSubnet
  PROVE  WalkInv'
<1> DEFINE p == subnet'.prefix
<1>1. /\ p \in Networks
      /\ \A k \in DOMAIN todo' : todo'[k].prefix \in Networks
  BY DEF StartSubnet, WalkInv, IpamInv, TypeOK, Networks
<1>2. FirstUsable(p) \in Nat /\ LastUsable(p) \in Nat /\ FirstUsable(p) <= LastUsable(p)
  BY <1>1, UsableBounds DEF Networks
<1>3. /\ cur' = FirstUsable(p) /\ runStart' = NoAddr /\ count' = 0 /\ ranges' = <<>>
      /\ pc' = (IF p.bits < ScanBits THEN "close" ELSE "walk")
      /\ UNCHANGED <<usages, device>>
  BY DEF StartSubnet
<1>4. TypeOK'
  BY <1>1, <1>2, <1>3 DEF TypeOK, Networks, WalkInv, IpamInv
<1>5. WalkOK'
  BY <1>1, <1>2, <1>3 DEF WalkOK, WalkedTo, AreFreeRanges
<1>6. CloseOK'
  BY <1>1, <1>3, BitsAssumption, WidthAssumption DEF CloseOK, Bits, Networks
<1> QED
  BY <1>3, <1>4, <1>5, <1>6 DEF WalkInv, IpamInv, FreeRangesAreExact

\* The walk ends at the last usable address, with everything settled.
LEMMA WalkEnds ==
  ASSUME WalkInv, pc = "walk", Advance, UNCHANGED <<device, todo, subnet, alloc, usages>>,
         ranges' \in Seq(Ranges), count' \in Nat, runStart' \in Nat \cup {NoAddr},
         cur = LastUsable(subnet.prefix),
         AreFreeRanges(ranges', FirstUsable(subnet.prefix), cur, DOMAIN alloc)
  PROVE  WalkInv'
<1>1. /\ cur \in Nat
      /\ subnet.prefix.addr \in Nat /\ subnet.prefix.bits \in Bits
  BY DEF WalkInv, IpamInv, TypeOK
<1>2. pc' = "close" /\ cur' = cur
  BY DEF Advance
<1>3. TypeOK' /\ WalkOK' /\ CloseOK'
  BY <1>1, <1>2 DEF TypeOK, WalkOK, CloseOK, Ranges, WalkInv, IpamInv
<1> QED
  BY <1>3 DEF WalkInv, IpamInv, FreeRangesAreExact

\* Before the end it goes on, with everything settled but the run that is open.
LEMMA WalkGoesOn ==
  ASSUME WalkInv, pc = "walk", Advance, UNCHANGED <<device, todo, subnet, alloc, usages>>,
         ranges' \in Seq(Ranges), count' \in Nat, runStart' \in Nat \cup {NoAddr},
         cur # LastUsable(subnet.prefix),
         WalkedTo(cur + 1, subnet.prefix, DOMAIN alloc, ranges', runStart', count')
  PROVE  WalkInv'
<1>1. /\ cur \in Nat /\ cur <= LastUsable(subnet.prefix)
      /\ subnet.prefix.addr \in Nat /\ subnet.prefix.bits \in Bits
  BY DEF WalkInv, IpamInv, WalkOK, TypeOK
<1>2. LastUsable(subnet.prefix) \in Nat
  BY <1>1, UsableBounds
<1>3. pc' = "walk" /\ cur' = cur + 1
  BY DEF Advance
<1>4. TypeOK' /\ CloseOK'
  BY <1>1, <1>3 DEF TypeOK, CloseOK, WalkInv, IpamInv, Ranges
<1>5. cur' <= LastUsable(subnet.prefix)
  BY <1>1, <1>2, <1>3
<1>6. WalkOK'
  BY <1>3, <1>5 DEF WalkOK
<1> QED
  BY <1>4, <1>6 DEF WalkInv, IpamInv, FreeRangesAreExact

LEMMA WalkFreeStep ==
  ASSUME WalkInv, WalkFree
  PROVE  WalkInv'
<1> DEFINE p     == subnet.prefix
           known == DOMAIN alloc
<1>1. /\ pc = "walk" /\ cur \in Nat /\ cur \notin known /\ runStart \in Nat \cup {NoAddr}
      /\ From \in Nat /\ From <= cur /\ count = cur - From /\ FirstUsable(p) <= From
      /\ ranges \in Seq(Ranges) /\ FirstUsable(p) \in Nat
      /\ \A a \in From..(cur - 1) : a \notin known
      /\ AreFreeRanges(ranges, FirstUsable(p), From - 1, known)
      /\ ranges # <<>> => ranges[Len(ranges)].end + 1 < From
  <2>1. p.addr \in Nat /\ p.bits \in Bits
    BY DEF WalkFree, WalkInv, IpamInv, TypeOK
  <2> QED
    BY <2>1, UsableBounds DEF WalkFree, WalkInv, IpamInv, TypeOK, WalkOK, WalkedTo, From, Ranges
<1>2. /\ runStart' = From /\ count' = cur - From + 1 /\ Advance
      /\ ranges' = IF cur = LastUsable(p) THEN Append(ranges, IPRange(From, cur, cur - From + 1))
                   ELSE ranges
      /\ UNCHANGED <<device, todo, subnet, alloc, usages>>
  BY <1>1 DEF WalkFree, From
<1> HIDE DEF p, known
<1>3. \A a \in From..cur : a \notin known
  <2>1. \A a \in From..cur : a = cur \/ a \in From..(cur - 1)
    BY <1>1
  <2> QED
    BY <1>1, <2>1
<1>4. count' \in Nat /\ runStart' # NoAddr /\ count' = cur + 1 - From /\ From < cur + 1
  BY <1>1, <1>2, NoAddrAssumption
<1>5. IPRange(From, cur, cur - From + 1) \in Ranges
  BY <1>1 DEF IPRange, Ranges
<1>6. ranges' \in Seq(Ranges)
  BY <1>1, <1>2, <1>5
<1>7. cur = LastUsable(p) => AreFreeRanges(ranges', FirstUsable(p), cur, known)
  BY <1>1, <1>2, <1>3, RunNext
<1>8. cur # LastUsable(p) => WalkedTo(cur + 1, p, known, ranges', runStart', count')
  <2>1. From..((cur + 1) - 1) = From..cur /\ From <= cur + 1
    BY <1>1
  <2>2. cur # LastUsable(p) => ranges' = ranges
    BY <1>2
  <2> QED
    BY <1>1, <1>2, <1>3, <1>4, <2>1, <2>2 DEF WalkedTo
<1> QED
  BY <1>1, <1>2, <1>4, <1>6, <1>7, <1>8, WalkEnds, WalkGoesOn DEF p, known

LEMMA WalkAllocatedStep ==
  ASSUME WalkInv, WalkAllocated
  PROVE  WalkInv'
<1> DEFINE p     == subnet.prefix
           known == DOMAIN alloc
<1>1. /\ pc = "walk" /\ cur \in Nat /\ cur \in known /\ runStart \in Nat \cup {NoAddr}
      /\ From \in Nat /\ From <= cur /\ count = cur - From /\ FirstUsable(p) <= From
      /\ runStart # NoAddr => From < cur
      /\ ranges \in Seq(Ranges) /\ FirstUsable(p) \in Nat
      /\ \A a \in From..(cur - 1) : a \notin known
      /\ AreFreeRanges(ranges, FirstUsable(p), From - 1, known)
      /\ ranges # <<>> => ranges[Len(ranges)].end + 1 < From
  <2>1. p.addr \in Nat /\ p.bits \in Bits
    BY DEF WalkAllocated, WalkInv, IpamInv, TypeOK
  <2> QED
    BY <2>1, UsableBounds DEF WalkAllocated, WalkInv, IpamInv, TypeOK, WalkOK, WalkedTo, From, Ranges
<1>2. /\ runStart' = NoAddr /\ count' = 0 /\ Advance
      /\ ranges' = IF runStart = NoAddr THEN ranges
                   ELSE Append(ranges, IPRange(From, cur - 1, (cur - 1) - From + 1))
      /\ UNCHANGED <<device, todo, subnet, alloc, usages>>
  <2>1. count = (cur - 1) - From + 1
    BY <1>1
  <2> QED
    BY <2>1 DEF WalkAllocated, From
<1>3. runStart = NoAddr => From = cur
  BY DEF From
<1> HIDE DEF p, known
<1>4. /\ ranges' \in Seq(Ranges) /\ AreFreeRanges(ranges', FirstUsable(p), cur - 1, known)
      /\ ranges' # <<>> => ranges'[Len(ranges')].end + 1 < cur + 1
  <2>1. CASE runStart = NoAddr
    <3>1. ranges # <<>> => ranges[Len(ranges)].end \in Nat
      <4>1. ranges # <<>> => Len(ranges) \in DOMAIN ranges
        BY <1>1
      <4>2. ranges # <<>> => ranges[Len(ranges)] \in Ranges
        BY <1>1, <4>1
      <4> QED
        BY <4>2 DEF Ranges
    <3> QED
      BY <1>1, <1>2, <1>3, <2>1, <3>1
  <2>2. CASE runStart # NoAddr
    <3> DEFINE r == IPRange(From, cur - 1, (cur - 1) - From + 1)
    <3>1. r \in Ranges /\ r.end = cur - 1 /\ cur - 1 \in Nat /\ From <= cur - 1
      BY <1>1, <2>2 DEF IPRange, Ranges
    <3>2. AreFreeRanges(Append(ranges, r), FirstUsable(p), cur - 1, known)
      BY <1>1, <3>1, RunNext
    <3>3. /\ Append(ranges, r) \in Seq(Ranges)
          /\ Append(ranges, r)[Len(Append(ranges, r))] = r
      <4> HIDE DEF r
      <4> QED
        BY <1>1, <3>1
    <3>4. r.end + 1 < cur + 1
      BY <1>1, <3>1
    <3> QED
      BY <1>2, <2>2, <3>2, <3>3, <3>4
  <2> QED
    BY <2>1, <2>2
<1>5. AreFreeRanges(ranges', FirstUsable(p), cur, known)
  BY <1>1, <1>4, TakenNext
<1>6. /\ FirstUsable(p) <= cur + 1 /\ cur + 1 <= cur + 1 /\ count' = cur + 1 - (cur + 1)
      /\ (cur + 1)..cur = {} /\ (cur + 1) - 1 = cur /\ count' \in Nat
  BY <1>1, <1>2
<1>7. WalkedTo(cur + 1, p, known, ranges', runStart', count')
  BY <1>1, <1>2, <1>4, <1>5, <1>6 DEF WalkedTo
<1> QED
  BY <1>1, <1>2, <1>4, <1>5, <1>6, <1>7, WalkEnds, WalkGoesOn DEF p, known

LEMMA CloseSubnetStep ==
  ASSUME WalkInv, CloseSubnet
  PROVE  WalkInv'
<1> DEFINE u == SubnetUsage(subnet, device, alloc, ranges)
<1>1. /\ pc = "close" /\ pc' = "next" /\ usages' = Append(usages, u)
      /\ UNCHANGED <<device, walk>>
  BY DEF CloseSubnet
<1>2. u.prefix = subnet.prefix /\ u.known = alloc /\ u.ranges = ranges
  BY DEF SubnetUsage
<1> HIDE DEF u
<1>3. PICK S : usages \in Seq(S)
  BY DEF WalkInv, IsSequence
<1>4. usages \in Seq(S \cup {u})
  BY <1>3, SeqMonotonic
<1>5. /\ usages' \in Seq(S \cup {u}) /\ usages'[Len(usages) + 1] = u
      /\ \A k \in DOMAIN usages' : k = Len(usages) + 1 \/ (k \in DOMAIN usages /\ usages'[k] = usages[k])
  BY <1>1, <1>4
<1>6. FreeRangesAreExact'
  <2>1. ASSUME NEW k \in DOMAIN usages', usages'[k].prefix.bits >= ScanBits
        PROVE  AreFreeRanges(usages'[k].ranges, FirstUsable(usages'[k].prefix),
                             LastUsable(usages'[k].prefix), DOMAIN usages'[k].known)
    <3>1. CASE k = Len(usages) + 1
      BY <1>1, <1>2, <1>5, <2>1, <3>1 DEF WalkInv, IpamInv, CloseOK
    <3>2. CASE k \in DOMAIN usages /\ usages'[k] = usages[k]
      BY <2>1, <3>2 DEF WalkInv, IpamInv, FreeRangesAreExact
    <3> QED
      BY <1>5, <2>1, <3>1, <3>2
  <2> QED
    BY <2>1 DEF FreeRangesAreExact
<1>7. TypeOK' /\ WalkOK' /\ CloseOK'
  BY <1>1 DEF walk, WalkInv, IpamInv, TypeOK, WalkOK, CloseOK
<1> QED
  BY <1>5, <1>6, <1>7 DEF WalkInv, IpamInv, IsSequence

-----------------------------------------------------------------------------
LEMMA WalkInvInit == Init => WalkInv
<1> SUFFICES ASSUME Init PROVE WalkInv
  OBVIOUS
<1>1. TypeOK /\ WalkOK /\ CloseOK /\ FreeRangesAreExact
  BY DEF Init, Empty, TypeOK, WalkOK, CloseOK, FreeRangesAreExact
<1>2. usages \in Seq({})
  BY DEF Init
<1> QED
  BY <1>1, <1>2 DEF WalkInv, IpamInv, IsSequence

LEMMA WalkInvStep == WalkInv /\ [Next]_vars => WalkInv'
<1> SUFFICES ASSUME WalkInv, [Next]_vars PROVE WalkInv'
  OBVIOUS
<1>1. CASE Begin \/ Select \/ AnswerFree \/ AnswerCheck
  <2>1. /\ UNCHANGED <<walk, usages, device>>
        /\ pc' \in {"interfaces", "selected", "answered", "failed"}
    BY <1>1 DEF Begin, Select, AnswerFree, AnswerCheck
  <2> QED
    BY <2>1, IpamFrame, DeviceType
<1>2. CASE ReadInterfaces \/ ReadLeases \/ ReadARP \/ ReadPeers
  BY <1>2, IpamFrame, ReadTypes DEF ReadInterfaces, ReadLeases, ReadARP, ReadPeers, Read
<1>3. CASE UNCHANGED vars
  BY <1>3 DEF vars, walk, WalkInv, IpamInv, TypeOK, WalkOK, CloseOK, FreeRangesAreExact
<1> QED
  BY <1>1, <1>2, <1>3, DiscoverStep, StartSubnetStep, WalkFreeStep, WalkAllocatedStep,
     CloseSubnetStep DEF Next

\* The walk over the usable addresses of a subnet (calculateFreeRanges) finds
\* exactly the ranges that no list names, for any width of addresses and any lists.
THEOREM WalkInvariance == Spec => []IpamInv
<1>1. WalkInv => IpamInv
  BY DEF WalkInv
<1> QED
  BY <1>1, WalkInvInit, WalkInvStep, PTL DEF Spec

\* The free ranges of every subnet that is walked are exact.
THEOREM RangesAreExact == Spec => []FreeRangesAreExact
<1>1. IpamInv => FreeRangesAreExact
  BY DEF IpamInv
<1> QED
  BY <1>1, WalkInvariance, PTL

-----------------------------------------------------------------------------
\* What is free of a subnet.

\* The addresses of exact free ranges.
LEMMA FreeAddrsOfRanges ==
  ASSUME NEW u, NEW first \in Nat, NEW last \in Nat, NEW known,
         u.ranges \in Seq(Ranges), AreFreeRanges(u.ranges, first, last, known)
  PROVE  FreeAddrs(u) = (first..last) \ known
<1>1. \A k \in DOMAIN u.ranges : /\ u.ranges[k].start \in Nat /\ u.ranges[k].end \in Nat
                                 /\ first <= u.ranges[k].start /\ u.ranges[k].end <= last
  <2>1. \A k \in DOMAIN u.ranges : u.ranges[k] \in Ranges
    OBVIOUS
  <2> QED
    BY <2>1 DEF AreFreeRanges, Ranges
<1>2. \A a : a \in FreeAddrs(u) <=>
             \E k \in DOMAIN u.ranges : a \in u.ranges[k].start..u.ranges[k].end
  BY DEF FreeAddrs
<1>3. ASSUME NEW a PROVE a \in FreeAddrs(u) => a \in (first..last) \ known
  <2> SUFFICES ASSUME a \in FreeAddrs(u) PROVE a \in (first..last) \ known
    OBVIOUS
  <2>1. PICK k \in DOMAIN u.ranges : a \in u.ranges[k].start..u.ranges[k].end
    BY <1>2
  <2>2. a \in first..last /\ u.ranges[k].start <= a /\ a <= u.ranges[k].end
    BY <1>1, <2>1
  <2> QED
    BY <2>2 DEF AreFreeRanges
<1>4. ASSUME NEW a \in first..last, a \notin known PROVE a \in FreeAddrs(u)
  <2>1. PICK k \in DOMAIN u.ranges : u.ranges[k].start <= a /\ a <= u.ranges[k].end
    BY <1>4 DEF AreFreeRanges
  <2>2. a \in u.ranges[k].start..u.ranges[k].end
    BY <1>1, <2>1
  <2> QED
    BY <1>2, <2>2
<1> QED
  BY <1>3, <1>4

\* The lists hold addresses.
LEMMA KnownAreAddrs ==
  ASSUME NEW d \in Devices
  PROVE  KnownAddrs(d) \subseteq Addrs
<1>1. /\ \A k \in DOMAIN d.interfaces : d.interfaces[k] \in InterfaceAddress
      /\ \A k \in DOMAIN d.leases : d.leases[k] \in Lease
      /\ \A k \in DOMAIN d.arp : d.arp[k] \in Neighbour
      /\ \A k \in DOMAIN d.peers : d.peers[k] \in AllowedIP
  BY DEF Devices
<1>2. InterfaceAddrs(d) \subseteq Addrs
  BY <1>1 DEF InterfaceAddrs, AddrsIn, InterfaceAddress
<1>3. LeaseAddrs(d) \subseteq Addrs
  BY <1>1 DEF LeaseAddrs, AddrsIn, Lease
<1>4. ARPAddrs(d) \subseteq Addrs
  BY <1>1 DEF ARPAddrs, AddrsIn, Neighbour
<1>5. PeerAddrs(d) \subseteq Addrs
  BY <1>1 DEF PeerAddrs, AddrsIn, AllowedIP
<1> QED
  BY <1>2, <1>3, <1>4, <1>5 DEF KnownAddrs

\* The known addresses of a subnet, and where its usable addresses lie.
LEMMA KnownInSubnet ==
  ASSUME NEW p \in Networks, NEW d \in Devices
  PROVE  /\ DOMAIN Allocate(p, d) = {a \in KnownAddrs(d) : InPrefix(p, a)}
         /\ \A a \in DOMAIN Allocate(p, d) : a \in Nat
BY KnownAreAddrs DEF Allocate, Addrs

LEMMA UsableAddrs ==
  ASSUME NEW p \in Networks, NEW a \in Nat
  PROVE  a \in FirstUsable(p)..LastUsable(p) <=>
           /\ InPrefix(p, a)
           /\ p.bits < Width - 1 => a \notin {NetworkIP(p), BroadcastIP(p)}
<1>1. /\ Block(p.bits) \in Nat \ {0}
      /\ p.bits = Width => Block(p.bits) = 1
      /\ p.bits = Width - 1 => Block(p.bits) = 2
      /\ p.bits < Width - 1 => Block(p.bits) >= 4
      /\ p.addr \in Nat
  BY BlockAssumption DEF Networks
<1>2. p.bits \in Int /\ Width \in Int /\ p.bits <= Width
  BY WidthAssumption DEF Bits, Networks
<1> DEFINE b == Block(p.bits)
<1>3. CASE p.bits = Width
  BY <1>1, <1>2, <1>3 DEF FirstUsable, LastUsable, NetworkIP, BroadcastIP, InPrefix
<1>4. CASE p.bits = Width - 1
  BY <1>1, <1>2, <1>4 DEF FirstUsable, LastUsable, NetworkIP, BroadcastIP, InPrefix
<1>5. CASE p.bits < Width - 1
  BY <1>1, <1>2, <1>5 DEF FirstUsable, LastUsable, NetworkIP, BroadcastIP, InPrefix
<1> QED
  BY <1>2, <1>3, <1>4, <1>5

LEMMA UsableCount ==
  ASSUME NEW p \in Networks
  PROVE  /\ IsFiniteSet(FirstUsable(p)..LastUsable(p))
         /\ Cardinality(FirstUsable(p)..LastUsable(p)) = UsableIPs(p)
<1>1. /\ Block(p.bits) \in Nat \ {0}
      /\ p.bits = Width => Block(p.bits) = 1
      /\ p.bits = Width - 1 => Block(p.bits) = 2
      /\ p.bits < Width - 1 => Block(p.bits) >= 4
      /\ p.addr \in Nat
  BY BlockAssumption DEF Networks
<1>2. p.bits \in Int /\ Width \in Int /\ p.bits <= Width
  BY WidthAssumption DEF Bits, Networks
<1>3. FirstUsable(p) \in Nat /\ LastUsable(p) \in Nat /\ FirstUsable(p) <= LastUsable(p)
  BY UsableBounds DEF Networks
<1>4. LastUsable(p) - FirstUsable(p) + 1 = UsableIPs(p)
  BY <1>1, <1>2 DEF FirstUsable, LastUsable, NetworkIP, BroadcastIP, UsableIPs
<1> QED
  BY <1>3, <1>4, FS_Interval

-----------------------------------------------------------------------------
\* A finished subnet keeps what the walk found, and the addresses that the lists
\* in device name.
Reports(u, d) ==
  /\ u.prefix \in Networks
  /\ u.known = Allocate(u.prefix, d)
  /\ u.allocations = Listed(u.prefix, u.known)
  /\ u.used = Cardinality(u.allocations)
  /\ u.free = LET free == UsableIPs(u.prefix) - u.used IN IF free < 0 THEN 0 ELSE free
  /\ u.ranges \in Seq(Ranges)
  /\ u.prefix.bits < ScanBits => u.ranges = <<>>
  /\ u.prefix.bits >= ScanBits =>
       AreFreeRanges(u.ranges, FirstUsable(u.prefix), LastUsable(u.prefix), DOMAIN u.known)

\* The subnet that is walked, before it is one of the finished ones.
SubnetOK ==
  pc \in {"walk", "close"} =>
    /\ alloc = Allocate(subnet.prefix, device)
    /\ subnet.prefix.bits < ScanBits => pc = "close" /\ ranges = <<>>

ReportsOK == \A k \in DOMAIN usages : Reports(usages[k], device)

\* The lists change only while nothing rests on them.
ReadingOK ==
  pc \in {"start", "interfaces", "leases", "arp", "peers", "discover"} =>
    usages = <<>> /\ answer.kind = "none"

\* The selected subnets are finished ones.
SelectedOK ==
  /\ IsSequence(selected)
  /\ \A k \in DOMAIN selected : \E j \in DOMAIN usages : selected[k] = usages[j]

CommandInv ==
  WalkInv /\ SubnetOK /\ ReportsOK /\ ReadingOK /\ SelectedOK /\ NoNamedAddressIsOffered

\* The addresses in the ranges of a finished subnet are not taken, ...
LEMMA RangesHoldFreeAddrs ==
  ASSUME NEW d \in Devices, NEW u, Reports(u, d)
  PROVE  /\ FreeAddrs(u) \cap KnownAddrs(d) = {}
         /\ u.prefix.bits >= ScanBits =>
              FreeAddrs(u) = (FirstUsable(u.prefix)..LastUsable(u.prefix)) \ DOMAIN u.known
<1>1. CASE u.prefix.bits < ScanBits
  <2>1. u.ranges = <<>>
    BY <1>1 DEF Reports
  <2>2. FreeAddrs(u) = {}
    BY <2>1 DEF FreeAddrs
  <2>3. ~(u.prefix.bits >= ScanBits)
    BY <1>1, BitsAssumption, WidthAssumption DEF Reports, Networks, Bits
  <2> QED
    BY <2>2, <2>3
<1>2. CASE u.prefix.bits >= ScanBits
  <2>1. /\ u.prefix \in Networks /\ u.ranges \in Seq(Ranges) /\ u.known = Allocate(u.prefix, d)
        /\ AreFreeRanges(u.ranges, FirstUsable(u.prefix), LastUsable(u.prefix), DOMAIN u.known)
    BY <1>2 DEF Reports
  <2>2. FirstUsable(u.prefix) \in Nat /\ LastUsable(u.prefix) \in Nat
    BY <2>1, UsableBounds DEF Networks
  <2>3. FreeAddrs(u) = (FirstUsable(u.prefix)..LastUsable(u.prefix)) \ DOMAIN u.known
    BY <2>1, <2>2, FreeAddrsOfRanges
  <2>4. \A a \in FreeAddrs(u) : a \in Nat /\ InPrefix(u.prefix, a) /\ a \notin DOMAIN u.known
    <3>1. \A a \in FreeAddrs(u) : a \in Nat
      BY <2>2, <2>3
    <3> QED
      BY <2>1, <2>3, <3>1, UsableAddrs
  <2> QED
    BY <2>1, <2>3, <2>4, KnownInSubnet
<1>3. u.prefix.bits \in Int /\ ScanBits \in Int
  BY BitsAssumption, WidthAssumption DEF Reports, Networks, Bits
<1> QED
  BY <1>1, <1>2, <1>3

\* ... and neither is one that `ip check` calls available.
LEMMA AvailableIsFree ==
  ASSUME NEW d \in Devices, NEW u, Reports(u, d), NEW a \in Addrs
  PROVE  /\ ValidateIPAvailable(u, a) => a \notin KnownAddrs(d)
         /\ ValidateIPAvailable(u, a) <=>
              a \in (FirstUsable(u.prefix)..LastUsable(u.prefix)) \ DOMAIN u.known
<1>1. u.prefix \in Networks /\ u.known = Allocate(u.prefix, d) /\ a \in Nat
  BY DEF Reports, Addrs
<1>2. DOMAIN u.known = {x \in KnownAddrs(d) : InPrefix(u.prefix, x)}
  BY <1>1, KnownInSubnet
<1>3. u.allocations = {x \in DOMAIN u.known :
        u.prefix.bits < Width - 1 => x \notin {NetworkIP(u.prefix), BroadcastIP(u.prefix)}}
  BY DEF Reports, Listed
<1>4. a \in FirstUsable(u.prefix)..LastUsable(u.prefix) <=>
        /\ InPrefix(u.prefix, a)
        /\ u.prefix.bits < Width - 1 => a \notin {NetworkIP(u.prefix), BroadcastIP(u.prefix)}
  BY <1>1, UsableAddrs
<1> QED
  BY <1>2, <1>3, <1>4 DEF ValidateIPAvailable

LEMMA CountsAgree ==
  ASSUME NEW d \in Devices, NEW u, Reports(u, d), u.prefix.bits >= ScanBits
  PROVE  u.free = Cardinality(FreeAddrs(u)) /\ u.used + u.free = UsableIPs(u.prefix)
<1> DEFINE p      == u.prefix
           usable == FirstUsable(p)..LastUsable(p)
           taken  == usable \cap DOMAIN u.known
<1>1. /\ p \in Networks /\ u.known = Allocate(p, d)
      /\ u.allocations = Listed(p, u.known) /\ u.used = Cardinality(u.allocations)
      /\ u.free = IF UsableIPs(p) - u.used < 0 THEN 0 ELSE UsableIPs(p) - u.used
  BY DEF Reports
<1>2. IsFiniteSet(usable) /\ Cardinality(usable) = UsableIPs(p)
  BY <1>1, UsableCount
<1>3. u.allocations = taken
  <2>1. \A a \in DOMAIN u.known : a \in Nat /\ InPrefix(p, a)
    BY <1>1, KnownInSubnet
  <2>2. u.allocations = {a \in DOMAIN u.known :
          p.bits < Width - 1 => a \notin {NetworkIP(p), BroadcastIP(p)}}
    BY <1>1 DEF Listed
  <2>3. \A a \in DOMAIN u.known : a \in usable <=>
          (p.bits < Width - 1 => a \notin {NetworkIP(p), BroadcastIP(p)})
    BY <1>1, <2>1, UsableAddrs
  <2> QED
    BY <2>2, <2>3
<1>4. FreeAddrs(u) = usable \ DOMAIN u.known
  BY RangesHoldFreeAddrs
<1> HIDE DEF p, usable
<1>5. /\ Cardinality(usable) \in Nat /\ Cardinality(taken) \in Nat
      /\ Cardinality(usable \ DOMAIN u.known) = Cardinality(usable) - Cardinality(taken)
      /\ Cardinality(usable \ DOMAIN u.known) \in Nat
  <2>1. IsFiniteSet(taken) /\ IsFiniteSet(usable \ DOMAIN u.known)
    BY <1>2, FS_Subset
  <2> QED
    BY <1>2, <2>1, FS_Difference, FS_CardinalityType
<1>6. u.used = Cardinality(taken) /\ Cardinality(FreeAddrs(u)) = UsableIPs(p) - u.used
  BY <1>1, <1>2, <1>3, <1>4, <1>5
<1> QED
  BY <1>1, <1>2, <1>4, <1>5, <1>6 DEF p

-----------------------------------------------------------------------------
LEMMA CommandInvInit == Init => CommandInv
<1> SUFFICES ASSUME Init PROVE CommandInv
  OBVIOUS
<1>1. usages = <<>> /\ selected = <<>> /\ answer.kind = "none" /\ pc = "start"
  BY DEF Init
<1>2. IsSequence(selected)
  <2>1. selected \in Seq({})
    BY <1>1
  <2> QED
    BY <2>1 DEF IsSequence
<1> QED
  BY <1>1, <1>2, WalkInvInit DEF CommandInv, SubnetOK, ReportsOK, ReadingOK, SelectedOK,
     NoNamedAddressIsOffered

\* While the lists are read, nothing rests on them.
LEMMA ReadingStep ==
  ASSUME CommandInv, Begin \/ ReadInterfaces \/ ReadLeases \/ ReadARP \/ ReadPeers
  PROVE  SubnetOK' /\ ReportsOK' /\ ReadingOK' /\ SelectedOK' /\ NoNamedAddressIsOffered'
<1>1. /\ pc \in {"start", "interfaces", "leases", "arp", "peers"}
      /\ pc' \in {"interfaces", "leases", "arp", "peers", "discover", "failed"}
      /\ UNCHANGED <<usages, selected, answer>>
  BY DEF Begin, ReadInterfaces, ReadLeases, ReadARP, ReadPeers, Read
<1>2. usages = <<>> /\ answer.kind = "none"
  BY <1>1 DEF CommandInv, ReadingOK
<1>3. SubnetOK' /\ ReportsOK' /\ ReadingOK' /\ NoNamedAddressIsOffered'
  BY <1>1, <1>2 DEF SubnetOK, ReportsOK, ReadingOK, NoNamedAddressIsOffered
<1>4. SelectedOK'
  BY <1>1 DEF CommandInv, SelectedOK
<1> QED
  BY <1>3, <1>4

\* The steps from the lists to a finished subnet.
LEMMA WalkingStep ==
  ASSUME CommandInv, Discover \/ StartSubnet \/ WalkFree \/ WalkAllocated
  PROVE  SubnetOK' /\ ReportsOK' /\ ReadingOK' /\ SelectedOK' /\ NoNamedAddressIsOffered'
<1>1. UNCHANGED <<device, usages, selected, answer>> /\ pc' \in {"next", "walk", "close"}
  BY DEF Discover, StartSubnet, WalkFree, WalkAllocated, Advance, CommandInv
<1>2. SubnetOK'
  <2>1. CASE Discover
    BY <2>1 DEF Discover, SubnetOK
  <2>2. CASE StartSubnet
    BY <2>2 DEF StartSubnet, SubnetOK
  <2>3. CASE WalkFree \/ WalkAllocated
    <3>1. pc = "walk" /\ UNCHANGED <<subnet, alloc, device>>
      BY <2>3 DEF WalkFree, WalkAllocated
    <3> QED
      BY <3>1 DEF CommandInv, SubnetOK
  <2> QED
    BY <2>1, <2>2, <2>3
<1> QED
  BY <1>1, <1>2 DEF CommandInv, ReportsOK, ReadingOK, SelectedOK, NoNamedAddressIsOffered

LEMMA CloseSubnetReports ==
  ASSUME CommandInv, CloseSubnet
  PROVE  SubnetOK' /\ ReportsOK' /\ ReadingOK' /\ SelectedOK' /\ NoNamedAddressIsOffered'
<1> DEFINE u == SubnetUsage(subnet, device, alloc, ranges)
<1>1. /\ pc = "close" /\ pc' = "next" /\ usages' = Append(usages, u)
      /\ UNCHANGED <<device, walk, selected, answer>>
  BY DEF CloseSubnet
<1>2. Reports(u, device)
  <2>1. subnet.prefix \in Networks /\ ranges \in Seq(Ranges)
    BY <1>1 DEF CommandInv, WalkInv, IpamInv, TypeOK, Networks, Ranges
  <2>2. /\ alloc = Allocate(subnet.prefix, device)
        /\ subnet.prefix.bits < ScanBits => ranges = <<>>
    BY <1>1 DEF CommandInv, SubnetOK
  <2>3. subnet.prefix.bits >= ScanBits =>
          AreFreeRanges(ranges, FirstUsable(subnet.prefix), LastUsable(subnet.prefix), DOMAIN alloc)
    BY <1>1 DEF CommandInv, WalkInv, IpamInv, CloseOK
  <2>4. /\ u.prefix = subnet.prefix /\ u.known = alloc /\ u.ranges = ranges
        /\ u.allocations = Listed(subnet.prefix, alloc)
        /\ u.used = Cardinality(Listed(subnet.prefix, alloc))
        /\ u.free = LET free == UsableIPs(subnet.prefix) - Cardinality(Listed(subnet.prefix, alloc))
                    IN  IF free < 0 THEN 0 ELSE free
    BY DEF SubnetUsage
  <2> HIDE DEF u
  <2> QED
    BY <2>1, <2>2, <2>3, <2>4 DEF Reports
<1> HIDE DEF u
<1>3. PICK S : usages \in Seq(S)
  BY DEF CommandInv, WalkInv, IsSequence
<1>4. usages \in Seq(S \cup {u})
  BY <1>3, SeqMonotonic
<1>5. /\ usages'[Len(usages) + 1] = u /\ DOMAIN usages \subseteq DOMAIN usages'
      /\ \A k \in DOMAIN usages : usages'[k] = usages[k]
      /\ \A k \in DOMAIN usages' : k = Len(usages) + 1 \/ k \in DOMAIN usages
  BY <1>1, <1>4
<1>6. ReportsOK'
  <2>1. ASSUME NEW k \in DOMAIN usages' PROVE Reports(usages'[k], device)
    BY <1>2, <1>5, <2>1 DEF CommandInv, ReportsOK
  <2> QED
    BY <1>1, <2>1 DEF ReportsOK
<1>7. SelectedOK'
  BY <1>1, <1>5 DEF CommandInv, SelectedOK
<1> QED
  BY <1>1, <1>6, <1>7 DEF CommandInv, SubnetOK, ReadingOK, NoNamedAddressIsOffered, walk

LEMMA SelectStep ==
  ASSUME CommandInv, Select
  PROVE  SubnetOK' /\ ReportsOK' /\ ReadingOK' /\ SelectedOK' /\ NoNamedAddressIsOffered'
<1> DEFINE matching == MatchSubnet(usages, query)
           filtered == Filter(usages, query)
           n        == Cardinality(filtered)
<1>1. /\ pc' = "selected" /\ UNCHANGED <<device, walk, usages, answer>>
      /\ IF matching # {}
         THEN \E k \in matching : selected' = <<usages[k]>>
         ELSE \E at \in Injection(1..n, filtered) : selected' = [k \in 1..n |-> usages[at[k]]]
  BY DEF Select
<1>2. SelectedOK'
  <2>1. CASE matching # {}
    <3>1. PICK k \in DOMAIN usages : selected' = <<usages[k]>>
      BY <1>1, <2>1 DEF MatchSubnet
    <3>2. selected' \in Seq({usages[k]}) /\ DOMAIN selected' = {1} /\ selected'[1] = usages[k]
      BY <3>1
    <3> QED
      BY <1>1, <3>2 DEF SelectedOK, IsSequence
  <2>2. CASE matching = {}
    <3>1. filtered \subseteq DOMAIN usages
      BY DEF Filter
    <3>2. PICK S : usages \in Seq(S)
      BY DEF CommandInv, WalkInv, IsSequence
    <3>3. IsFiniteSet(DOMAIN usages)
      <4>1. DOMAIN usages = 1..Len(usages) /\ Len(usages) \in Nat
        BY <3>2
      <4> QED
        BY <4>1, FS_Interval
    <3>4. n \in Nat
      BY <3>1, <3>3, FS_Subset, FS_CardinalityType
    <3> HIDE DEF n, filtered
    <3>5. PICK at \in Injection(1..n, filtered) : selected' = [k \in 1..n |-> usages[at[k]]]
      BY <1>1, <2>2
    <3>6. at \in [1..n -> filtered]
      BY <3>5 DEF Injection, IsInjective
    <3>7. \A k \in 1..n : at[k] \in DOMAIN usages
      BY <3>1, <3>6
    <3>8. selected' \in Seq({usages[j] : j \in DOMAIN usages})
      BY <3>4, <3>5, <3>7
    <3> QED
      BY <1>1, <3>5, <3>7, <3>8 DEF SelectedOK, IsSequence
  <2> QED
    BY <2>1, <2>2
<1> QED
  BY <1>1, <1>2 DEF CommandInv, SubnetOK, ReportsOK, ReadingOK, NoNamedAddressIsOffered, walk

\* The selected subnets are finished ones of the lists in device.
LEMMA SelectedReport ==
  CommandInv => \A k \in DOMAIN selected : Reports(selected[k], device)
BY DEF CommandInv, SelectedOK, ReportsOK

LEMMA AnswerStep ==
  ASSUME CommandInv, AnswerFree \/ AnswerCheck
  PROVE  SubnetOK' /\ ReportsOK' /\ ReadingOK' /\ SelectedOK' /\ NoNamedAddressIsOffered'
<1>1. pc' \in {"failed", "answered"} /\ UNCHANGED <<device, walk, usages, selected>>
  BY DEF AnswerFree, AnswerCheck
<1>2. device \in Devices /\ \A k \in DOMAIN selected : Reports(selected[k], device)
  BY DeviceType, SelectedReport DEF CommandInv
<1>3. NoNamedAddressIsOffered'
  <2>1. CASE UNCHANGED answer
    BY <1>1, <2>1 DEF CommandInv, NoNamedAddressIsOffered
  <2>2. CASE AnswerFree /\ ~ UNCHANGED answer
    <3>1. PICK n : answer' = [kind |-> "free",
                              next |-> [k \in DOMAIN selected |-> FindNextFree(selected[k], n)]]
      BY <2>2 DEF AnswerFree
    <3>2. \A k \in DOMAIN selected : FindNextFree(selected[k], n) \cap KnownAddrs(device) = {}
      <4>1. \A k \in DOMAIN selected : FreeAddrs(selected[k]) \cap KnownAddrs(device) = {}
        BY <1>2, RangesHoldFreeAddrs
      <4> QED
        BY <4>1 DEF FindNextFree
    <3>3. answer'.kind = "free" /\ DOMAIN answer'.next = DOMAIN selected
      BY <3>1
    <3>4. \A k \in DOMAIN selected : answer'.next[k] = FindNextFree(selected[k], n)
      BY <3>1
    <3> QED
      BY <1>1, <3>2, <3>3, <3>4 DEF NoNamedAddressIsOffered
  <2>3. CASE AnswerCheck /\ ~ UNCHANGED answer
    <3>1. PICK a \in Addrs, k \in DOMAIN selected :
            answer' = [kind |-> "check", addr |-> a,
                       available |-> ValidateIPAvailable(selected[k], a)]
      <4>1. Len(selected) = 1 => 1 \in DOMAIN selected
        BY DEF CommandInv, SelectedOK, IsSequence
      <4> QED
        BY <2>3, <4>1 DEF AnswerCheck
    <3>2. ValidateIPAvailable(selected[k], a) => a \notin KnownAddrs(device)
      BY <1>2, <3>1, AvailableIsFree
    <3> QED
      BY <1>1, <3>1, <3>2 DEF NoNamedAddressIsOffered
  <2> QED
    BY <2>1, <2>2, <2>3
<1> QED
  BY <1>1, <1>3 DEF CommandInv, SubnetOK, ReportsOK, ReadingOK, SelectedOK, walk

LEMMA CommandInvStep == CommandInv /\ [Next]_vars => CommandInv'
<1> SUFFICES ASSUME CommandInv, [Next]_vars PROVE CommandInv'
  OBVIOUS
<1>1. WalkInv'
  BY WalkInvStep DEF CommandInv
<1>2. CASE UNCHANGED vars
  BY <1>1, <1>2 DEF vars, walk, CommandInv, SubnetOK, ReportsOK, ReadingOK, SelectedOK,
     NoNamedAddressIsOffered
<1> QED
  BY <1>1, <1>2, ReadingStep, WalkingStep, CloseSubnetReports, SelectStep, AnswerStep
  DEF Next, CommandInv

\* From the reads to the answer: every finished subnet is a report about the lists
\* that are still in device, and only those reports are answered from.
THEOREM CommandInvariance == Spec => []CommandInv
BY CommandInvInit, CommandInvStep, PTL DEF Spec

\* `ip free`, `ip usage` and `ip check` agree on every subnet that is walked: the
\* count of free addresses is that of its ranges, used and free ones make up the
\* usable ones, and an address is available exactly when it is in a range.
THEOREM FreeAndCheckAlwaysAgree == Spec => []FreeAndCheckAgree
<1>1. CommandInv => FreeAndCheckAgree
  <2> SUFFICES ASSUME CommandInv, NEW j \in DOMAIN selected, selected[j].prefix.bits >= ScanBits
               PROVE  /\ selected[j].free = Cardinality(FreeAddrs(selected[j]))
                      /\ selected[j].used + selected[j].free = UsableIPs(selected[j].prefix)
                      /\ \A a \in Addrs :
                           ValidateIPAvailable(selected[j], a) <=> a \in FreeAddrs(selected[j])
    BY DEF FreeAndCheckAgree
  <2>1. device \in Devices /\ Reports(selected[j], device)
    BY DeviceType, SelectedReport DEF CommandInv
  <2> QED
    BY <2>1, CountsAgree, RangesHoldFreeAddrs, AvailableIsFree
<1> QED
  BY <1>1, CommandInvariance, PTL

\* No `ip` command offers an address, or calls one available, that an interface, a
\* lease or a neighbour has, or that a peer's prefix is written with.
THEOREM NamedAddressesAreNotOffered == Spec => []NoNamedAddressIsOffered
<1>1. CommandInv => NoNamedAddressIsOffered
  BY DEF CommandInv
<1> QED
  BY <1>1, CommandInvariance, PTL
=============================================================================
