-------------------------------- MODULE Ipam --------------------------------
(***************************************************************************)
(* The address management of pkg/ipam/ipam.go and the three `ip` commands  *)
(* of internal/cli/ipam.go, on top of a provider's GetSubnetUsage.         *)
(*                                                                         *)
(* One process runs one command.  It asks the device for four lists, one   *)
(* after the other: only a failure of the first ends the command, a list   *)
(* that cannot be read counts as empty.  From the lists it discovers the   *)
(* subnets, and for each of them walks the usable addresses one by one to  *)
(* find the ranges nobody holds.                                           *)
(*                                                                         *)
(* An address is a number of Width bits (32 in the code), a prefix the     *)
(* record of its first address and its length.  Texts that do not parse    *)
(* are not in the lists, MAC addresses and host names are left out.  IPv6  *)
(* prefixes are not modelled: no subnet is discovered from one.  The list  *)
(* of interfaces has an entry for each of their addresses, in the order in *)
(* which the loops over interfaces and addresses come to them.             *)
(***************************************************************************)
EXTENDS Integers, Sequences, FiniteSets, FiniteSetsExt, Functions

CONSTANTS
  Width,          \* bits of an address
  ScanBits,       \* the shortest prefix whose addresses are walked (16)
  GuessBits,      \* the prefix length assumed around a lone address (24)
  Special,        \* the loopback, link-local and multicast addresses
  IfaceNames,     \* names of interfaces
  InterfaceLists, \* the lists the device may answer with
  LeaseLists,
  ARPLists,
  PeerLists,
  Queries,        \* what the user may have typed to select a subnet
  Counts,         \* the values of `ip free --count`
  Bare,           \* the length of an address that is written without one
  NoPrefix,       \* a lease that does not name its subnet
  NoAddr          \* the zero netip.Addr

Addrs == 0..(2^Width - 1)
Bits  == 0..Width
Block(bits) == 2^(Width - bits)

Prefixes         == [addr : Addrs, bits : Bits]
InterfaceAddress == [iface : IfaceNames, vlan : Nat, addr : Addrs, bits : Bits \cup {Bare}]
Lease            == [iface : IfaceNames, addr : Addrs, static : BOOLEAN,
                     cidr : Prefixes \cup {NoPrefix}]
Neighbour        == [iface : IfaceNames, addr : Addrs]
AllowedIP        == [addr : Addrs, bits : Bits \cup {Bare}]

ASSUME WidthAssumption == Width \in Nat \ {0, 1}
ASSUME BitsAssumption  == ScanBits \in Bits /\ GuessBits \in Bits
\* Sizes of blocks, which the prover cannot compute.
ASSUME BlockAssumption ==
  \A b \in Bits : /\ Block(b) \in Nat \ {0}
                  /\ b = Width => Block(b) = 1
                  /\ b = Width - 1 => Block(b) = 2
                  /\ b < Width - 1 => Block(b) >= 4
                  /\ \A a \in Addrs : a % Block(b) \in 0..a
ASSUME NoAddrAssumption == NoAddr \notin Nat
ASSUME ListsAssumption ==
  /\ InterfaceLists \subseteq Seq(InterfaceAddress) /\ LeaseLists \subseteq Seq(Lease)
  /\ ARPLists \subseteq Seq(Neighbour) /\ PeerLists \subseteq Seq(AllowedIP)

VARIABLES
  pc,       \* where the command is
  command,  \* "usage", "free" or "check"
  query,    \* the subnet the user asked about
  device,   \* the lists as they were read, empty where the read failed
  todo,     \* the subnets discovered and not yet walked, by their positions
  subnet,   \* the one that is walked
  alloc,    \* allocMap: the source of every address known in the subnet
  cur,      \* curr: the address the walk looks at
  runStart, \* currentStart while inFree, else NoAddr
  count,    \* addresses in the run of free ones
  ranges,   \* the ranges closed so far
  usages,   \* the subnets walked
  selected, \* those of them the query selects, in the order of their texts
  answer    \* what the command prints

vars == <<pc, command, query, device, todo, subnet, alloc, cur, runStart, count,
          ranges, usages, selected, answer>>
walk == <<todo, subnet, alloc, cur, runStart, count, ranges>>

Empty == [interfaces |-> <<>>, leases |-> <<>>, arp |-> <<>>, peers |-> <<>>]

-----------------------------------------------------------------------------
\* Prefixes.
Mask(a, bits)  == [addr |-> a - (a % Block(bits)), bits |-> bits]
InPrefix(p, a) == p.addr <= a /\ a < p.addr + Block(p.bits)

NetworkIP(p)   == p.addr
BroadcastIP(p) == p.addr + Block(p.bits) - 1

\* prefixUsableBounds: the network and broadcast addresses of a prefix are not
\* usable, unless it has at most two addresses.
UsableIPs(p) == IF p.bits >= Width - 1 THEN Block(p.bits) ELSE Block(p.bits) - 2

\* The first and the last usable address, as calculateFreeRanges finds them.
FirstUsable(p) == IF p.bits >= Width - 1 THEN NetworkIP(p) ELSE NetworkIP(p) + 1
LastUsable(p)  ==
  CASE p.bits = Width     -> NetworkIP(p)
    [] p.bits = Width - 1 -> BroadcastIP(p)
    [] OTHER              -> BroadcastIP(p) - 1

-----------------------------------------------------------------------------
\* The addresses of the four lists.
AddrsIn(list) == {list[k].addr : k \in DOMAIN list}
InterfaceAddrs(d) == AddrsIn(d.interfaces)
LeaseAddrs(d)     == AddrsIn(d.leases)
ARPAddrs(d)       == AddrsIn(d.arp)
\* Of a prefix that a peer is allowed, the address it is written with counts and
\* is not masked; the other addresses it covers do not count.
PeerAddrs(d)      == AddrsIn(d.peers)
KnownAddrs(d) == InterfaceAddrs(d) \cup LeaseAddrs(d) \cup ARPAddrs(d) \cup PeerAddrs(d)

\* An address found in several lists keeps the source of the first of them, and
\* the first lease that names it decides what kind of lease it is.
SourceOf(d, a) ==
  CASE a \in InterfaceAddrs(d) -> "InterfaceIP"
    [] a \notin InterfaceAddrs(d) /\ a \in LeaseAddrs(d) ->
         LET first == d.leases[Min({k \in DOMAIN d.leases : d.leases[k].addr = a})]
         IN  IF first.static THEN "DHCPStatic" ELSE "DHCPDynamic"
    [] a \notin InterfaceAddrs(d) \cup LeaseAddrs(d) /\ a \in ARPAddrs(d) -> "ARPDiscovery"
    [] OTHER -> "WireGuardPeer"

\* Mutant: the ARP entries are not merged in.
AllocateWithoutARP(p, d) ==
  [a \in {x \in InterfaceAddrs(d) \cup LeaseAddrs(d) \cup PeerAddrs(d) : InPrefix(p, x)} |->
     SourceOf(d, a)]

\* The map that CalculateSubnetUsage builds: every known address in the prefix.
Allocate(p, d) == [a \in {x \in KnownAddrs(d) : InPrefix(p, x)} |-> SourceOf(d, a)]

\* The gateway is the last address of the subnet on the interface the subnet was
\* found on, or else the first one on any interface.
Gateway(p, name, d) ==
  LET all == {k \in DOMAIN d.interfaces : InPrefix(p, d.interfaces[k].addr)}
      its == {k \in all : d.interfaces[k].iface = name}
  IN  IF its # {} THEN d.interfaces[Max(its)].addr
      ELSE IF all # {} THEN d.interfaces[Min(all)].addr ELSE NoAddr

\* Mutant: the network and broadcast addresses are counted as used.
ListedAll(p, known) == DOMAIN known

\* What is listed as allocated: everything known but the two unusable addresses.
Listed(p, known) ==
  {a \in DOMAIN known : p.bits < Width - 1 => a \notin {NetworkIP(p), BroadcastIP(p)}}

\* The counts of a SubnetUsage, from the map and the ranges of its walk.
SubnetUsage(c, d, known, rs) ==
  LET used == Cardinality(Listed(c.prefix, known))
      free == UsableIPs(c.prefix) - used
  IN  [prefix |-> c.prefix, iface |-> c.iface, vlan |-> c.vlan,
       gateway |-> Gateway(c.prefix, c.iface, d), known |-> known,
       allocations |-> Listed(c.prefix, known), used |-> used,
       free |-> IF free < 0 THEN 0 ELSE free, ranges |-> rs]

-----------------------------------------------------------------------------
\* DiscoverSubnets: the prefixes of the interfaces; when there are none, the
\* subnet each lease names and a guess around each lease and ARP entry.
Candidate(p, name, vlan) == [prefix |-> p, iface |-> name, vlan |-> vlan]

FromInterfaces(d) ==
  [k \in DOMAIN d.interfaces |->
     LET x == d.interfaces[k]
     IN  Candidate(IF x.bits = Bare THEN NoPrefix ELSE Mask(x.addr, x.bits), x.iface, x.vlan)]

Named(l) ==
  Candidate(IF l.cidr = NoPrefix THEN NoPrefix ELSE Mask(l.cidr.addr, l.cidr.bits), l.iface, 0)
Guess(x) ==
  Candidate(IF x.addr \in Special THEN NoPrefix ELSE Mask(x.addr, GuessBits), x.iface, 0)

\* Two from each lease.
FromLeases(d) ==
  [k \in 1..(2 * Len(d.leases)) |->
     LET l == d.leases[(k + 1) \div 2] IN IF k % 2 = 1 THEN Named(l) ELSE Guess(l)]
FromARP(d) == [k \in DOMAIN d.arp |-> Guess(d.arp[k])]

\* seenPrefixes: the first candidate of each prefix counts.
Distinct(cs) ==
  LET firsts == {k \in DOMAIN cs : \A j \in DOMAIN cs : j < k => cs[j].prefix # cs[k].prefix}
  IN  [k \in {i \in firsts : cs[i].prefix # NoPrefix} |-> cs[k]]

DiscoverSubnets(d) ==
  LET direct == Distinct(FromInterfaces(d))
  IN  IF DOMAIN direct # {} THEN direct ELSE Distinct(FromLeases(d) \o FromARP(d))

\* What was typed is the record of what it matches: the interface names, prefixes,
\* VLANs ("vlan7") and numbers ("7") it is equal to, the address it parses as, and
\* the names and prefixes whose text contains it.  The empty text matches nothing
\* and selects everything.
EmptyText ==
  [all |-> TRUE, names |-> {}, prefixes |-> {}, vlans |-> {}, numbers |-> {}, addrs |-> {},
   inNames |-> {}, inPrefixes |-> {}]

\* MatchSubnet: the subnets it may return.  "vlan0" names every subnet that has no
\* VLAN, "0" none; the subnets that contain the address come after all the others.
MatchSubnet(us, q) ==
  LET equal == {k \in DOMAIN us : \/ us[k].iface \in q.names
                                  \/ us[k].prefix \in q.prefixes
                                  \/ us[k].vlan \in q.vlans
                                  \/ us[k].vlan \in q.numbers /\ us[k].vlan > 0}
  IN  IF equal # {} THEN equal
      ELSE {k \in DOMAIN us : \E a \in q.addrs : InPrefix(us[k].prefix, a)}

\* The end of GetSubnetUsage, the same in every provider: everything, the match,
\* or else every subnet whose interface name or prefix contains the text.
Filter(us, q) ==
  {k \in DOMAIN us : q.all \/ us[k].iface \in q.inNames \/ us[k].prefix \in q.inPrefixes}

-----------------------------------------------------------------------------
\* FindNextFree: the first n addresses of the free ranges, which ascend.
FreeAddrs(u) == UNION {u.ranges[k].start..u.ranges[k].end : k \in DOMAIN u.ranges}

FindNextFree(u, n) == {a \in FreeAddrs(u) : Cardinality({b \in FreeAddrs(u) : b < a}) < n}

\* ValidateIPAvailable.
ValidateIPAvailable(u, a) ==
  /\ InPrefix(u.prefix, a)
  /\ u.prefix.bits < Width - 1 => a \notin {NetworkIP(u.prefix), BroadcastIP(u.prefix)}
  /\ a \notin u.allocations

-----------------------------------------------------------------------------
Init ==
  /\ pc = "start" /\ command = "none" /\ query = EmptyText
  /\ device = Empty
  /\ todo = <<>> /\ subnet = Candidate(NoPrefix, "none", 0) /\ alloc = <<>>
  /\ cur = 0 /\ runStart = NoAddr /\ count = 0 /\ ranges = <<>>
  /\ usages = <<>> /\ selected = <<>>
  /\ answer = [kind |-> "none"]

\* `ip usage` asks for the IPAM capability first (GetIPAMAllocation); `ip free`
\* and `ip check` call the provider directly.
Begin ==
  /\ pc = "start"
  /\ \E c \in {"usage", "free", "check"}, q \in Queries :
       /\ command' = c
       /\ query' = q
       /\ pc' \in IF c = "usage" THEN {"interfaces", "failed"} ELSE {"interfaces"}
  /\ UNCHANGED <<device, walk, usages, selected, answer>>

\* The four reads.  The error of the first is returned.
ReadInterfaces ==
  /\ pc = "interfaces"
  /\ \/ \E l \in InterfaceLists : device' = [device EXCEPT !.interfaces = l] /\ pc' = "leases"
     \/ pc' = "failed" /\ UNCHANGED device
  /\ UNCHANGED <<command, query, walk, usages, selected, answer>>

\* The errors of the others are not looked at: the list is empty.
Read(at, list, lists, next) ==
  /\ pc = at
  /\ \E l \in lists \cup {<<>>} : device' = [device EXCEPT ![list] = l]
  /\ pc' = next
  /\ UNCHANGED <<command, query, walk, usages, selected, answer>>

ReadLeases == Read("leases", "leases", LeaseLists, "arp")
ReadARP    == Read("arp", "arp", ARPLists, "peers")
ReadPeers  == Read("peers", "peers", PeerLists, "discover")

Discover ==
  /\ pc = "discover"
  /\ todo' = DiscoverSubnets(device)
  /\ pc' = "next"
  /\ UNCHANGED <<command, query, device, subnet, alloc, cur, runStart, count, ranges, usages,
                 selected, answer>>

\* CalculateSubnetUsage of the next subnet, up to the walk.  A prefix shorter
\* than ScanBits is not walked: its free ranges are nil.
StartSubnet ==
  /\ pc = "next"
  /\ \E k \in DOMAIN todo :
       /\ \A j \in DOMAIN todo : k <= j
       /\ subnet' = todo[k]
       /\ todo' = [j \in DOMAIN todo \ {k} |-> todo[j]]
  /\ alloc' = Allocate(subnet'.prefix, device)
  /\ cur' = FirstUsable(subnet'.prefix)
  /\ runStart' = NoAddr /\ count' = 0 /\ ranges' = <<>>
  /\ pc' = IF subnet'.prefix.bits < ScanBits THEN "close" ELSE "walk"
  /\ UNCHANGED <<command, query, device, usages, selected, answer>>

\* After the last address the walk ends, else it goes on with the next one.
Advance ==
  IF cur = LastUsable(subnet.prefix)
  THEN pc' = "close" /\ UNCHANGED cur
  ELSE cur' = cur + 1 /\ UNCHANGED pc

IPRange(start, end, n) == [start |-> start, end |-> end, count |-> n]

\* Mutant: the run that is open at the last address is dropped.
WalkFreeForgetful ==
  /\ pc = "walk" /\ cur \notin DOMAIN alloc
  /\ runStart' = IF runStart = NoAddr THEN cur ELSE runStart
  /\ count' = IF runStart = NoAddr THEN 1 ELSE count + 1
  /\ Advance
  /\ UNCHANGED <<command, query, device, todo, subnet, alloc, ranges, usages, selected, answer>>

\* An address nobody holds opens a run or extends it; the last one closes it.
WalkFree ==
  /\ pc = "walk" /\ cur \notin DOMAIN alloc
  /\ runStart' = IF runStart = NoAddr THEN cur ELSE runStart
  /\ count' = IF runStart = NoAddr THEN 1 ELSE count + 1
  /\ ranges' = IF cur = LastUsable(subnet.prefix)
               THEN Append(ranges, IPRange(runStart', cur, count')) ELSE ranges
  /\ Advance
  /\ UNCHANGED <<command, query, device, todo, subnet, alloc, usages, selected, answer>>

\* An allocated address closes the run before it.
WalkAllocated ==
  /\ pc = "walk" /\ cur \in DOMAIN alloc
  /\ ranges' = IF runStart = NoAddr THEN ranges ELSE Append(ranges, IPRange(runStart, cur - 1, count))
  /\ runStart' = NoAddr /\ count' = 0
  /\ Advance
  /\ UNCHANGED <<command, query, device, todo, subnet, alloc, usages, selected, answer>>

\* CalculateSubnetUsage ends.
CloseSubnet ==
  /\ pc = "close"
  /\ usages' = Append(usages, SubnetUsage(subnet, device, alloc, ranges))
  /\ pc' = "next"
  /\ UNCHANGED <<command, query, device, walk, selected, answer>>

\* The subnets are sorted by the text of their prefixes, which may be any order
\* of the numbers: any of those that match may be the first, and those that are
\* filtered come in any order.
Select ==
  LET matching == MatchSubnet(usages, query)
      filtered == Filter(usages, query)
      places   == 1..Cardinality(filtered)
  IN  /\ pc = "next" /\ DOMAIN todo = {}
      /\ IF matching # {}
         THEN \E k \in matching : selected' = <<usages[k]>>
         ELSE \E at \in Injection(places, filtered) : selected' = [k \in places |-> usages[at[k]]]
      /\ pc' = "selected"
      /\ UNCHANGED <<command, query, device, walk, usages, answer>>

\* `ip free` and, with the three it shows, `ip usage`: no subnet is an error;
\* a subnet without a next free address is reported as exhausted.
AnswerFree ==
  /\ pc = "selected" /\ command \in {"usage", "free"}
  /\ IF selected = <<>> THEN pc' = "failed" /\ UNCHANGED answer
     ELSE /\ pc' = "answered"
          /\ \E n \in IF command = "usage" THEN {3} ELSE Counts :
               answer' = [kind |-> "free", next |-> [k \in DOMAIN selected |-> FindNextFree(selected[k], n)]]
  /\ UNCHANGED <<command, query, device, walk, usages, selected>>

\* `ip check`: the first selected subnet that contains the address, or the only
\* one there is, validates it.
AnswerCheck ==
  /\ pc = "selected" /\ command = "check"
  /\ \E a \in Addrs :
       LET holding == {k \in DOMAIN selected : InPrefix(selected[k].prefix, a)}
           targets == IF holding = {} /\ Len(selected) = 1 THEN {1}
                      ELSE {k \in holding : \A j \in holding : k <= j}
       IN  IF targets = {} THEN pc' = "failed" /\ UNCHANGED answer
           ELSE /\ pc' = "answered"
                /\ \E k \in targets :
                     answer' = [kind |-> "check", addr |-> a,
                                available |-> ValidateIPAvailable(selected[k], a)]
  /\ UNCHANGED <<command, query, device, walk, usages, selected>>

Next ==
  \/ Begin \/ ReadInterfaces \/ ReadLeases \/ ReadARP \/ ReadPeers
  \/ Discover \/ StartSubnet \/ WalkFree \/ WalkAllocated \/ CloseSubnet
  \/ Select \/ AnswerFree \/ AnswerCheck

Spec == Init /\ [][Next]_vars

-----------------------------------------------------------------------------
\* rs are the maximal runs, in order, of the addresses of first..last that are
\* not in known, each with its number of addresses.
AreFreeRanges(rs, first, last, known) ==
  /\ \A k \in DOMAIN rs : /\ first <= rs[k].start /\ rs[k].start <= rs[k].end
                          /\ rs[k].end <= last
                          /\ rs[k].count = rs[k].end - rs[k].start + 1
  /\ \A k \in DOMAIN rs : k + 1 \in DOMAIN rs => rs[k].end + 1 < rs[k + 1].start
  /\ \A a \in first..last :
       a \notin known <=> \E k \in DOMAIN rs : rs[k].start <= a /\ a <= rs[k].end

TypeOK ==
  /\ pc \in {"start", "interfaces", "leases", "arp", "peers", "discover", "next",
             "walk", "close", "selected", "answered", "failed"}
  /\ device \in [interfaces : Seq(InterfaceAddress), leases : Seq(Lease),
                 arp : Seq(Neighbour), peers : Seq(AllowedIP)]
  /\ \A k \in DOMAIN todo : todo[k].prefix \in [addr : Nat, bits : Bits]
  /\ cur \in Nat /\ count \in Nat /\ runStart \in Nat \cup {NoAddr}
  /\ ranges \in Seq([start : Nat, end : Nat, count : Nat])
  /\ pc \in {"walk", "close"} => subnet.prefix \in [addr : Nat, bits : Bits]

\* Everything in p before the open run, or before the address at, is settled; the
\* open run, of n addresses from start, holds free ones only and does not touch the
\* range before it.
WalkedTo(at, p, known, rs, start, n) ==
  LET from == IF start = NoAddr THEN at ELSE start
  IN  /\ FirstUsable(p) <= from /\ from <= at /\ n = at - from
      /\ start # NoAddr => from < at
      /\ \A a \in from..(at - 1) : a \notin known
      /\ AreFreeRanges(rs, FirstUsable(p), from - 1, known)
      /\ rs # <<>> => rs[Len(rs)].end + 1 < from

WalkOK ==
  pc = "walk" =>
    /\ cur <= LastUsable(subnet.prefix)
    /\ WalkedTo(cur, subnet.prefix, DOMAIN alloc, ranges, runStart, count)

\* Between the end of the walk and the end of CalculateSubnetUsage.
CloseOK ==
  pc = "close" /\ subnet.prefix.bits >= ScanBits =>
    AreFreeRanges(ranges, FirstUsable(subnet.prefix), LastUsable(subnet.prefix),
                  DOMAIN alloc)

\* The free ranges of a finished subnet are exactly its usable addresses that
\* nobody is known to hold: calculateFreeRanges skips none and reports none
\* twice, at the ends of the subnet and for subnets of one and two addresses too.
FreeRangesAreExact ==
  \A k \in DOMAIN usages : usages[k].prefix.bits >= ScanBits =>
    AreFreeRanges(usages[k].ranges, FirstUsable(usages[k].prefix),
                  LastUsable(usages[k].prefix), DOMAIN usages[k].known)

\* The inductive invariant of a command: the parts above.
IpamInv == TypeOK /\ WalkOK /\ CloseOK /\ FreeRangesAreExact

\* `ip free`, `ip usage` and `ip check` agree on a subnet that is walked: the
\* count of free addresses is that of its ranges, used and free make the usable
\* ones, and an address is reported available exactly when it is in a range.
FreeAndCheckAgree ==
  \A j \in DOMAIN selected : selected[j].prefix.bits >= ScanBits =>
    LET u == selected[j]
    IN  /\ u.free = Cardinality(FreeAddrs(u))
        /\ u.used + u.free = UsableIPs(u.prefix)
        /\ \A a \in Addrs : ValidateIPAvailable(u, a) <=> a \in FreeAddrs(u)

\* No command offers an address, or calls one available, that is named in any list
\* the device did answer with: an interface's, a lease's, a neighbour's, or the
\* one a peer's prefix is written with, whichever subnet and interface it was found
\* on.  The other addresses that a peer's prefix covers are offered (PeerAddrs).
NoNamedAddressIsOffered ==
  /\ answer.kind = "free" =>
       \A k \in DOMAIN answer.next : answer.next[k] \cap KnownAddrs(device) = {}
  /\ answer.kind = "check" => (answer.available => answer.addr \notin KnownAddrs(device))
=============================================================================
