----------------------------- MODULE MCVppApply -----------------------------
(* Small instance of VppApply: six directories over an af-packet interface,   *)
(* a dpdk interface, a bond, a vlan, a vxlan tunnel and a bridge.             *)
EXTENDS VppApply

CONSTANTS br0, bond0, e1, e2, v10, x1, m1, bvi0, tap0, h1, pci1

MCNameOrder == <<br0, bond0, e1, e2, v10, x1, m1>>
MCName == {br0, bond0, e1, e2, v10, x1, m1, bvi0, tap0}
MCBvi == [n \in MCName |-> bvi0]
MCTap == [n \in MCName |-> tap0]
MCBd == [n \in MCName |-> IF n = br0 THEN 7 ELSE 8]

Dev(s, n, d) == [k \in {<<"", s, n>>} |-> d]
Net(dev) == [NoFile EXCEPT !.version = 2, !.dev = dev]
Rule(kind, iface, val) == [kind |-> kind, iface |-> iface, val |-> val]
Section2(nat) == [given |-> TRUE, startup |-> FALSE, nat |-> nat]

E1 == [Plain EXCEPT !.block = TRUE, !.mode = "af-packet", !.hostif = h1]
E1kernel == Dev("ethernets", e1, Plain)
Vlan10 == Dev("vlans", v10, [Plain EXCEPT !.renderer = "vpp", !.link = e1, !.id = 10, !.l3 = {"a2"}])
Vxlan == Dev("tunnels", x1, [Plain EXCEPT !.block = TRUE, !.tunnel = "vxlan", !.id = 99])
Br0 == Dev("bridges", br0, [Plain EXCEPT !.block = TRUE, !.members = {x1}, !.l3 = {"a3"},
                                           !.nd = {"p1"}, !.rules = {"static"}])
Bond0 == Dev("bonds", bond0, [Plain EXCEPT !.block = TRUE, !.members = {e1}, !.l3 = {"a4", "r1"}])
Dpdk2 == Dev("ethernets", e2, [Plain EXCEPT !.block = TRUE, !.mode = "dpdk", !.pci = pci1])
Memif == Dev("ethernets", m1, [Plain EXCEPT !.block = TRUE, !.mode = "memif", !.socket = "s1"])
Inner == [NoFile EXCEPT !.old = [k \in {<<"ns1", "ethernets", e2>>} |-> [Plain EXCEPT !.block = TRUE]]]
Clash == Dev("ethernets", e2, [Plain EXCEPT !.block = TRUE, !.hostif = h1])

Uplink == Dev("ethernets", e1, [E1 EXCEPT !.l3 = {"a1"}, !.nd = {"p1"}])
Inside == Rule("nat44-if", e1, {"inside"})
Pool == Rule("nat44-pool", None, {"q1"})
Prefix(p) == Rule("nat64-prefix", None, {p})

MCDirs ==
    { \* a bridged overlay, with NAT
      <<[Net(Over(Vxlan, Br0)) EXCEPT !.vpp = Section2({Pool, Prefix("n1")})]>>,
      \* an uplink with a vlan; the second file replaces the device of the first
      <<Net(Over(E1kernel, Vlan10)), [Net(Uplink) EXCEPT !.vpp = Section2({Inside, Prefix("n2")})]>>,
      \* a bond, a dpdk interface, and one of a mode that is not implemented
      <<Net(Over(Dev("ethernets", e1, E1), Over(Bond0, Over(Dpdk2, Memif))))>>,
      \* nothing for VPP: a vpp block in a namespace, here in the old format, counts not
      <<Net(E1kernel), Inner>>,
      \* the overlay without its bridge
      <<Net(Vxlan)>>,
      \* refused: one host interface for two devices
      <<Net(Over(Uplink, Clash))>> }

\* The names, keys and addresses of the directories are owned.
ASSUME MCOwned == Owned
=============================================================================
