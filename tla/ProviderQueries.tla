--------------------------- MODULE ProviderQueries ---------------------------
(***************************************************************************)
(* What the built-in providers, under providers/, make of the queries of   *)
(* provider.Provider, and what internal/handler/network and                *)
(* internal/domain make of the answers.                                    *)
(*                                                                         *)
(* A query is the requests it sends, in order, and what it returns when    *)
(* the data cannot be had: an error, or an empty or a placeholder result   *)
(* that looks like an answer.  A request is                                *)
(*   "needed"    its failure is the failure of the query,                  *)
(*   "optional"  its failure is ignored,                                   *)
(*   "fallback"  sent only when the one before it failed.                  *)
(*                                                                         *)
(* Of the answers only the usage figures and the gateways are told apart.  *)
(***************************************************************************)
EXTENDS Naturals, Sequences, FiniteSets

Kinds == {"opnsense", "routeros", "openwrt", "frr", "pfsense", "vyos"}

Asks(requests, failure) == [requests |-> requests, failure |-> failure]
Constant == Asks(<<>>, "none")

-----------------------------------------------------------------------------
\* Mutant: the system query reports its failure.
OPNsenseGetSystemInfoStrict == Asks(<<"needed">>, "error")

\* providers/opnsense/opnsense.go
OPNsenseGetSystemInfo       == Asks(<<"needed">>, "placeholder")
OPNsenseListInterfaces      == Asks(<<"needed">>, "error")
OPNsenseListRoutes          == Asks(<<"needed">>, "error")
OPNsenseListGateways        == Asks(<<"needed">>, "error")
OPNsenseListARPEntries      == Asks(<<"needed">>, "error")
OPNsenseListDHCPLeases      == Asks(<<"needed", "fallback">>, "error")  \* kea, then dhcpv4
OPNsenseListFirewallRules   == Asks(<<"needed">>, "error")
OPNsenseListFirewallAliases == Asks(<<"needed">>, "error")
OPNsenseListWireGuardPeers  == Asks(<<"needed">>, "empty")
OPNsenseGetInterfaceStats   == Asks(<<"needed">>, "empty")
OPNsenseGetRunningConfig    == Asks(<<"needed">>, "error")
OPNsenseApplyConfig         == Asks(<<"needed">>, "error")
OPNsenseRollbackConfig      == Asks(<<"needed">>, "error")

OPNsense ==
  [system |-> OPNsenseGetSystemInfo, interfaces |-> OPNsenseListInterfaces,
   routes |-> OPNsenseListRoutes, gateways |-> OPNsenseListGateways,
   arp |-> OPNsenseListARPEntries, dhcp |-> OPNsenseListDHCPLeases,
   rules |-> OPNsenseListFirewallRules, aliases |-> OPNsenseListFirewallAliases,
   nat |-> Constant, bgp |-> Constant, wireguard |-> OPNsenseListWireGuardPeers,
   stats |-> OPNsenseGetInterfaceStats, config |-> OPNsenseGetRunningConfig,
   apply |-> OPNsenseApplyConfig, rollback |-> OPNsenseRollbackConfig]

-----------------------------------------------------------------------------
\* providers/routeros/routeros.go
RouterOSGetSystemInfo       == Asks(<<"needed", "optional">>, "placeholder") \* identity
RouterOSListInterfaces      == Asks(<<"needed", "optional">>, "error")       \* addresses
RouterOSListRoutes          == Asks(<<"needed">>, "error")
RouterOSListGateways        == RouterOSListRoutes
RouterOSListARPEntries      == Asks(<<"needed">>, "error")
RouterOSListDHCPLeases      == Asks(<<"needed">>, "error")
RouterOSListFirewallRules   == Asks(<<"needed">>, "error")
RouterOSListFirewallAliases == Asks(<<"needed">>, "error")
RouterOSListNATRules        == Asks(<<"needed">>, "error")
RouterOSListBGPNeighbors    == Asks(<<"needed">>, "empty")
RouterOSListWireGuardPeers  == Asks(<<"needed">>, "empty")
RouterOSGetInterfaceStats   == Asks(<<"needed">>, "error")
RouterOSGetRunningConfig    == Asks(<<"needed">>, "placeholder")

RouterOS ==
  [system |-> RouterOSGetSystemInfo, interfaces |-> RouterOSListInterfaces,
   routes |-> RouterOSListRoutes, gateways |-> RouterOSListGateways,
   arp |-> RouterOSListARPEntries, dhcp |-> RouterOSListDHCPLeases,
   rules |-> RouterOSListFirewallRules, aliases |-> RouterOSListFirewallAliases,
   nat |-> RouterOSListNATRules, bgp |-> RouterOSListBGPNeighbors,
   wireguard |-> RouterOSListWireGuardPeers, stats |-> RouterOSGetInterfaceStats,
   config |-> RouterOSGetRunningConfig, apply |-> Constant, rollback |-> Constant]

-----------------------------------------------------------------------------
\* The other four.  Nothing, the default of every query they do not send.
Nothing == [q \in DOMAIN OPNsense |-> Constant]

\* providers/openwrt/openwrt.go
OpenWrtGetSystemInfo  == Asks(<<"needed">>, "placeholder")
OpenWrtListInterfaces == Asks(<<"needed">>, "error")
OpenWrtListDHCPLeases == Asks(<<"needed">>, "empty")
OpenWrt == [Nothing EXCEPT !.system = OpenWrtGetSystemInfo,
                           !.interfaces = OpenWrtListInterfaces,
                           !.dhcp = OpenWrtListDHCPLeases]

\* providers/frr/frr.go
FRRListInterfaces   == Asks(<<"needed">>, "empty")
FRRListRoutes       == Asks(<<"needed">>, "empty")
FRRListGateways     == FRRListRoutes
FRRListBGPNeighbors == Asks(<<"needed">>, "empty")
FRRGetRunningConfig == Asks(<<"needed">>, "error")
FRR == [Nothing EXCEPT !.interfaces = FRRListInterfaces, !.routes = FRRListRoutes,
                       !.gateways = FRRListGateways, !.bgp = FRRListBGPNeighbors,
                       !.config = FRRGetRunningConfig]

\* providers/pfsense/pfsense.go
PfSenseGetSystemInfo  == Asks(<<"needed">>, "placeholder")
PfSenseListInterfaces == Asks(<<"needed">>, "empty")
PfSenseListDHCPLeases == Asks(<<"needed">>, "empty")
PfSense == [Nothing EXCEPT !.system = PfSenseGetSystemInfo,
                           !.interfaces = PfSenseListInterfaces,
                           !.dhcp = PfSenseListDHCPLeases]

\* providers/vyos/vyos.go: showCommand is never called.
VyOS == Nothing

Query(kind, q) ==
  CASE kind = "opnsense" -> OPNsense[q] [] kind = "routeros" -> RouterOS[q]
    [] kind = "openwrt"  -> OpenWrt[q]  [] kind = "frr"      -> FRR[q]
    [] kind = "pfsense"  -> PfSense[q]  [] kind = "vyos"     -> VyOS[q]

\* Without a client the query fails: with ErrNotConnected, except where the
\* request is sent by callUbus or runVtysh, whose errors are all treated alike.
Refusal(kind, q) ==
  IF kind \in {"openwrt", "frr"} THEN Query(kind, q).failure ELSE "error"

\* What each provider says it can do, of what the overviews ask for.
Everywhere == {"system", "interfaces", "routing", "monitoring", "config", "ipam"}
Capabilities(kind) ==
  Everywhere \cup
  (CASE kind = "openwrt" -> {"firewall", "dhcp", "wireguard"}
     [] kind = "frr"     -> {"bgp"}
     [] kind \in {"opnsense", "pfsense"} -> {"firewall", "nat", "dhcp", "wireguard"}
     [] kind \in {"routeros", "vyos"}    -> {"firewall", "nat", "dhcp", "wireguard", "bgp"})

-----------------------------------------------------------------------------
\* HTTPClient.Do: whether it returns without an error.  A page of HTML, like the
\* login page, is only told from an answer when JSON is expected; the running
\* configuration of OPNsense is taken as text.
Responses == {"none", "status", "page", "garbled", "json"}
Do(response, text) ==
  \/ response = "json"
  \/ text /\ response \in {"page", "garbled"}

\* callUbus: Do succeeded, but the answer may carry an error, or only a status
\* that says the call was refused, which is not looked at.
Ubus == {"error", "statusOnly", "result"}
CallUbus(response, ubus) == Do(response, FALSE) /\ ubus # "error"

-----------------------------------------------------------------------------
\* The figures of GetSystemInfo: the load is known to RouterOS only, the memory
\* to RouterOS and OpenWrt.
NoFigures == [cpu |-> 0, total |-> 0, used |-> 0]
Figures(kind, said) ==
  LET used == IF said.total > said.free THEN said.total - said.free ELSE 0
  IN  CASE kind = "routeros" -> [cpu |-> said.cpu, total |-> said.total, used |-> used]
        [] kind = "openwrt"  -> [cpu |-> 0, total |-> said.total, used |-> used]
        [] OTHER -> NoFigures

\* ListGateways: OPNsense tells which are down; elsewhere the gateways are the
\* default routes, all of them online.  A gateway is known by its row.
Gateways(kind, rows) ==
  IF kind = "opnsense"
  THEN [k \in DOMAIN rows |-> IF rows[k].down THEN "offline" ELSE "online"]
  ELSE [k \in {i \in DOMAIN rows : rows[i].default} |-> "online"]
Offline(gateways) == {k \in DOMAIN gateways : gateways[k] = "offline"}

\* The alarms in the figures a provider asks for, and in a list of gateways.
FigureAlarms(kind, said) ==
  {<<"cpu", 0>> : x \in IF kind = "routeros" /\ said.cpu > 90 THEN {0} ELSE {}} \cup
  {<<"memory", 0>> : x \in IF /\ kind \in {"routeros", "openwrt"}
                             /\ said.free * 10 < said.total THEN {0} ELSE {}}
GatewayAlarms(kind, rows) ==
  {<<"gateway", k>> : k \in {i \in DOMAIN rows : kind = "opnsense" /\ rows[i].down}}

\* Mutant: a gateway that is offline costs as much as one that is slow.
CalculateHealthScoreMild(info, gateways) ==
  LET cpu   == IF info.cpu > 90 THEN 30 ELSE IF info.cpu > 75 THEN 15 ELSE 0
      memory == IF info.used * 100 > 90 * info.total THEN 30
                ELSE IF info.used * 100 > 75 * info.total THEN 15 ELSE 0
      lost  == cpu + memory + 10 * Cardinality(Offline(gateways))
  IN  IF lost > 100 THEN 0 ELSE 100 - lost

\* No provider reports a degraded gateway or a loss of packets.
CalculateHealthScore(info, gateways) ==
  LET cpu   == IF info.cpu > 90 THEN 30 ELSE IF info.cpu > 75 THEN 15 ELSE 0
      memory == IF info.used * 100 > 90 * info.total THEN 30
                ELSE IF info.used * 100 > 75 * info.total THEN 15 ELSE 0
      lost  == cpu + memory + 25 * Cardinality(Offline(gateways))
  IN  IF lost > 100 THEN 0 ELSE 100 - lost

\* The end of GetDeviceOverview.
StatusSummary(health) ==
  IF health < 50 THEN "CRITICAL" ELSE IF health < 80 THEN "DEGRADED" ELSE "HEALTHY"

-----------------------------------------------------------------------------
\* The operations of NetworkHandler: the capability they need, and the queries
\* they make; the error of the first kind is returned, of the second ignored.
Must(q)      == [query |-> q, cap |-> "none", must |-> TRUE]
May(q, cap)  == [query |-> q, cap |-> cap, must |-> FALSE]
Operation(cap, plan) == [cap |-> cap, plan |-> plan]

GetDeviceOverview == Operation("system",
  <<Must("system"), May("interfaces", "interfaces"), May("gateways", "routing")>>)
ListInterfacesWithStats == Operation("interfaces",
  <<Must("interfaces"), May("stats", "monitoring")>>)
GetRoutingOverview == Operation("routing",
  <<Must("routes"), May("gateways", "none"), May("bgp", "bgp")>>)
GetSecurityOverview == Operation("firewall",
  <<Must("rules"), May("aliases", "none"), May("nat", "nat")>>)
GetServicesOverview == Operation("none",
  <<May("dhcp", "dhcp"), May("wireguard", "wireguard"), May("arp", "none")>>)
GetIPAMAllocation == Operation("ipam",
  <<Must("interfaces"), May("dhcp", "none"), May("arp", "none"), May("wireguard", "none")>>)
GetConfigState == Operation("config", <<Must("config")>>)
ApplyConfig    == Operation("config", <<Must("apply")>>)
RollbackConfig == Operation("config", <<Must("rollback")>>)

NetworkHandler ==
  [device |-> GetDeviceOverview, interfaces |-> ListInterfacesWithStats,
   routing |-> GetRoutingOverview, security |-> GetSecurityOverview,
   services |-> GetServicesOverview, ipam |-> GetIPAMAllocation,
   config |-> GetConfigState, apply |-> ApplyConfig, rollback |-> RollbackConfig]

\* Capabilities.Has: a device that lacks the capability is not asked.
Has(kind, cap) == cap \in Capabilities(kind) \cup {"none"}
=============================================================================
