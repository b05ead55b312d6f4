------------------------------- MODULE MCIpam -------------------------------
(* Address management on 16 addresses: prefixes shorter than 1 bit are not     *)
(* walked, and a lone address is assumed to be in a block of four.             *)
EXTENDS Ipam

At(a, bits)        == [addr |-> a, bits |-> bits]
Port(n, v, a, b)   == [iface |-> n, vlan |-> v, addr |-> a, bits |-> b]
Held(a, s, c)      == [iface |-> "lan", addr |-> a, static |-> s, cidr |-> c]
Seen(a)            == [iface |-> "lan", addr |-> a]

\* None; one subnet; two that overlap, on interfaces with VLANs; the whole
\* space, a pair, a single address and an address without a length.
MCInterfaceLists ==
  { <<>>,
    <<Port("lan", 0, 1, 2)>>,
    <<Port("lan", 0, 5, 1), Port("dmz", 7, 5, 2), Port("dmz", 7, 7, 2)>>,
    <<Port("wan", 0, 9, 0), Port("wan", 0, 10, 3), Port("dmz", 7, 12, 4),
      Port("dmz", 7, 14, Bare)>> }

MCLeaseLists ==
  { <<Held(2, FALSE, NoPrefix)>>,
    <<Held(6, FALSE, At(4, 2)), Held(6, TRUE, NoPrefix), Held(9, TRUE, At(10, 3))>> }

MCARPLists  == { <<Seen(3), Seen(6), Seen(11), Seen(15)>> }

\* A peer's single addresses, with and without a length, a prefix that is written
\* with an address inside it, and one that covers addresses nobody else names.
MCPeerLists == { <<At(0, 4), At(2, Bare), At(6, 2), At(12, 2)>> }

Text == [EmptyText EXCEPT !.all = FALSE]

\* Nothing; a name; a prefix; "vlan0"; "0", which some prefixes contain; "7"; an
\* address; a part of two names; a text that matches nothing.
MCQueries ==
  { EmptyText,
    [Text EXCEPT !.names = {"lan"}, !.inNames = {"lan"}],
    [Text EXCEPT !.prefixes = {At(4, 2)}, !.inPrefixes = {At(4, 2)}],
    [Text EXCEPT !.vlans = {0}],
    [Text EXCEPT !.numbers = {0}, !.inPrefixes = {At(0, 0), At(0, 1), At(0, 2), At(10, 3)}],
    [Text EXCEPT !.numbers = {7}],
    [Text EXCEPT !.addrs = {5}],
    [Text EXCEPT !.inNames = {"lan", "wan"}],
    Text }
=============================================================================
