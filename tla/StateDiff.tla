------------------------------ MODULE StateDiff ------------------------------
(***************************************************************************)
(* What netcfg remembers of a configuration, and how it compares two such  *)
(* records: package state (state/state.go) and buildStateFromConfig in     *)
(* cmd/apply.go.                                                           *)
(*                                                                         *)
(* A link is a pair <<namespace, device name>>.  What netcfg puts on a     *)
(* link (an address, a route, a proxy-NDP entry, an SRv6 SID) is an item.  *)
(* A record stores addresses, proxies and SIDs as they are, and a route as *)
(* the string "to via gw table N", which forgets the metric, the scope and *)
(* the source: RouteString is that conversion.                             *)
(***************************************************************************)
EXTENDS Naturals

CONSTANTS
    NetNS,        \* names of network namespaces
    Default,      \* the default namespace, "" in the code
    Dev,          \* device names
    Nic,          \* the names of interfaces that exist without netcfg
    Addr,         \* interface addresses
    Route,        \* routes as the kernel tells them apart
    Gateway,      \* the routes gateway4/gateway6 stand for
    Proxy,        \* proxy-NDP entries
    SID,          \* SRv6 local SIDs
    RouteText,    \* the strings routesToStrings produces
    RouteString,  \* the string recorded for a route
    Config        \* the configurations that may be loaded

NS == NetNS \cup {Default}
Link == NS \X Dev
Item == Addr \cup Route \cup Proxy \cup SID
Rec == Addr \cup RouteText \cup Proxy \cup SID

(***************************************************************************)
(* The sections of a namespace, in the order applyNamespaceConfig handles  *)
(* them.  "srv6" stands for the dummy device that setupSRv6 creates for    *)
(* SIDs without an anchor device.                                          *)
(***************************************************************************)
SectionOrder ==
    [ethernets |-> 1, wifis |-> 2, dummy |-> 3, virtualEthernets |-> 4,
     macvlan |-> 5, macvtap |-> 6, ipvlan |-> 7, vlans |-> 8, vxlans |-> 9,
     bonds |-> 10, bridges |-> 11, vrfs |-> 12, tunnels |-> 13, tun |-> 14,
     tap |-> 15, veth |-> 16, srv6 |-> 17]
Section == DOMAIN SectionOrder

\* Devices recorded with CreatedBy = "system".
SystemSection == {"ethernets", "wifis"}
\* Devices netcfg creates but buildNsState does not record.
UntrackedSection == {"macvtap", "srv6"}
\* Devices with an ndp-proxy block.
ProxySection == {"ethernets", "vlans", "bridges", "bonds"}

(***************************************************************************)
(* A configuration c has                                                   *)
(*   c.netns   the namespaces it lists                                     *)
(*   c.sect    the section of each link it defines                         *)
(*   c.lower   <<l, d>>: l is stacked on the device named d                *)
(*   c.member  <<l, d>>: d is a member of the master l                     *)
(*   c.peer    <<l, m>>: the far end of the veth l is the link m           *)
(*   c.item    <<l, i>>: i is wanted on l (or on a far end l)              *)
(***************************************************************************)
Links(c) == DOMAIN c.sect
SystemLinks(c) == {l \in Links(c) : c.sect[l] \in SystemSection}

ASSUME DefaultAssumption == Default \notin NetNS

ASSUME RouteAssumption == RouteString \in [Route -> RouteText]

\* A route is neither an address, a proxy-NDP entry nor a SID.
ASSUME KindAssumption ==
    /\ Route \cap (Addr \cup Proxy \cup SID) = {}
    /\ Gateway \subseteq Route

\* An interface is known by one name, and that name is either one the
\* machine has or one netcfg creates: no configuration mixes the two.
\* Proxy-NDP entries are those of ethernets, vlans, bridges and bonds.
ASSUME ConfigAssumption ==
    \A c \in Config :
        /\ Links(c) \subseteq Link
        /\ c.netns \subseteq NetNS
        /\ \A l \in Links(c) : /\ c.sect[l] \in Section
                               /\ l[2] \in Nic <=> c.sect[l] \in SystemSection
                               /\ l[1] = Default \/ l[1] \in c.netns
        /\ c.lower \subseteq Link \X Dev
        /\ c.member \subseteq Link \X Dev
        /\ c.peer \subseteq Link \X Link
        /\ c.item \subseteq Link \X Item
        /\ \A p \in c.item :
               p[2] \in SID => p[1] \in Links(c) /\ c.sect[p[1]] = "srv6"
        /\ \A p \in c.item :
               p[2] \in Proxy => p[1] \in Links(c) /\ c.sect[p[1]] \in ProxySection
        /\ \A e \in c.peer : e[2][2] \notin Nic

HasDefaultNamespaceConfig(c) == \E l \in Links(c) : l[1] = Default

State ==
    [ns : SUBSET NS, own : SUBSET Link, sys : SUBSET Link,
     item : SUBSET (Link \X Rec)]

NewState == [ns |-> {}, own |-> {}, sys |-> {}, item |-> {}]

Record(p) == <<p[1], IF p[2] \in Route THEN RouteString[p[2]] ELSE p[2]>>

\* buildNsState: peers of veth devices, gateways and whatever sits on an
\* untracked device leave no trace, a SID is recorded by its namespace.
Recorded(c, p) ==
    \/ p[2] \in SID
    \/ /\ p[1] \in Links(c)
       /\ c.sect[p[1]] \notin UntrackedSection
       /\ p[2] \notin Gateway

\* Mutant: a device of the machine is recorded as netcfg's own.
buildAllOwned(c) ==
    [ns   |-> c.netns \cup (IF HasDefaultNamespaceConfig(c) THEN {Default} ELSE {}),
     own  |-> {l \in Links(c) : c.sect[l] \notin UntrackedSection},
     sys  |-> {},
     item |-> {Record(p) : p \in {q \in c.item : Recorded(c, q)}}]

buildStateFromConfig(c) ==
    [ns   |-> c.netns \cup (IF HasDefaultNamespaceConfig(c) THEN {Default} ELSE {}),
     own  |-> {l \in Links(c) : c.sect[l] \notin SystemSection \cup UntrackedSection},
     sys  |-> SystemLinks(c),
     item |-> {Record(p) : p \in {q \in c.item : Recorded(c, q)}}]

Devices(s) == s.own \cup s.sys

\* Mutant: a namespace that is gone is passed over.
StayingDevices(old, new) ==
    {l \in old.own : l[1] \in new.ns /\ l \notin Devices(new)}

\* Mutant: a device is removed whoever created it.
AnyDevice(old, new) ==
    {l \in Devices(old) : l[1] \notin new.ns \/ l \notin Devices(new)}

\* Mutant: every device is removed and made again.
AllDevices(old, new) ==
    {l \in Devices(old) : l[1] \notin new.ns} \cup old.own

\* The devices of a namespace that is gone are all listed, whoever created
\* them; in a namespace that stays, only those netcfg created.
DevicesToRemove(old, new) ==
    {l \in Devices(old) : l[1] \notin new.ns}
        \cup {l \in old.own : l[1] \in new.ns /\ l \notin Devices(new)}

\* Mutant: an item is removed although it stays configured.
ItemsOfKind(old, new, kind) ==
    {p \in old.item : p[2] \in kind /\ p[1] \in Devices(old) \cap Devices(new)}

\* Mutant: only the items of devices that are gone.
ItemsOfGone(old, new, kind) ==
    {p \in old.item : /\ p[2] \in kind
                      /\ p[1] \in Devices(old) \ Devices(new)
                      /\ p \notin new.item}

\* Items of a device are compared only while the device is in both records.
ItemsToRemove(old, new, kind) ==
    {p \in old.item : /\ p[2] \in kind
                      /\ p[1] \in Devices(old) \cap Devices(new)
                      /\ p \notin new.item}

ComputeDiff(old, new) ==
    [nsToRemove    |-> old.ns \ new.ns,
     nsToAdd       |-> new.ns \ old.ns,
     devToRemove   |-> DevicesToRemove(old, new),
     devToAdd      |-> Devices(new) \ Devices(old),
     addrToRemove  |-> ItemsToRemove(old, new, Addr),
     addrToAdd     |-> ItemsToRemove(new, old, Addr),
     routeToRemove |-> ItemsToRemove(old, new, RouteText),
     routeToAdd    |-> ItemsToRemove(new, old, RouteText)]

\* reapNDProxyOrphans and reapSRv6Orphans compare the records themselves: a
\* proxy by its device, a SID by its namespace only.
NDProxyOrphans(old, new) ==
    {p \in old.item : p[2] \in Proxy /\ p \notin new.item}

SRv6Orphans(old, new) ==
    {p \in old.item : /\ p[2] \in SID
                      /\ ~ \E q \in new.item : q[2] = p[2] /\ q[1][1] = p[1][1]}
==============================================================================
