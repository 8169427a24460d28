----------------------------- MODULE ConfigLoad -----------------------------
(***************************************************************************)
(* Loading the configuration (config/config.go, config/vpp.go,             *)
(* config/ndp.go): the files of a directory, in the order of their names,  *)
(* are normalised and merged, and the result is validated as a whole.      *)
(* A device is found by namespace, section and name.                       *)
(***************************************************************************)
EXTENDS Naturals, Sequences

CONSTANTS
    Default,      \* the default namespace
    None,         \* not given
    IP6           \* well-formed IPv6 addresses

Mode == {"af-packet", "dpdk", "avf", "rdma", "tap", "loopback", "memif"}
Role == {"inside", "outside", "output"}
NatInterface == {"nat44-if", "nat64-if"}

\* A device with nothing but its name.
Plain ==
    [block |-> FALSE, mode |-> None, hostif |-> None, pci |-> None, socket |-> None,
     renderer |-> None, tunnel |-> None, link |-> None, id |-> None, members |-> {}, l3 |-> {}, nd |-> {},
     rules |-> {}]

\* A file: its version, renderer, vpp section (the empty section gives no NAT), the
\* devices, and those below a netns key outside network.
NoSection == [given |-> FALSE, startup |-> FALSE, nat |-> {}]
NoFile ==
    [version |-> 0, renderer |-> None, vpp |-> NoSection, dev |-> << >>, old |-> << >>]

-----------------------------------------------------------------------------
(* One file.                                                               *)

Restrict(f, S) == [x \in S |-> f[x]]
Over(f, g) == [x \in DOMAIN f \cup DOMAIN g |-> IF x \in DOMAIN f THEN f[x] ELSE g[x]]

InNetns(k) == k[1] # Default
IsVxlan(f, k) == k[2] = "tunnels" /\ f[k].tunnel = "vxlan"

\* The section the device of key k ends up in.
Moved(f, k) == IF IsVxlan(f, k) THEN <<k[1], "vxlans", k[3]>> ELSE k

\* toVxlan copies neither the renderer nor the mode of the tunnel.
ToVxlan(d) == [d EXCEPT !.renderer = None, !.tunnel = None]

\* normalizeTunnelVxlans: a tunnel of mode vxlan replaces the vxlan of its name.
NormalizeTunnelVxlans(f) ==
    Over([k \in {Moved(f, x) : x \in {y \in DOMAIN f : IsVxlan(f, y)}} |->
              ToVxlan(f[<<k[1], "tunnels", k[3]>>])],
         Restrict(f, {x \in DOMAIN f : ~IsVxlan(f, x)}))

\* Normalize: namespaces outside network count in a file of the old format only,
\* and there they replace those inside it.
Normalize(f) ==
    LET old == f.version = 0 /\ f.old # << >>
        top == Restrict(f.dev, {k \in DOMAIN f.dev : ~InNetns(k)})
    IN  [f EXCEPT !.version = IF @ = 0 THEN 2 ELSE @,
                  !.dev = NormalizeTunnelVxlans(IF old THEN Over(f.old, top) ELSE @),
                  !.old = << >>]

-----------------------------------------------------------------------------
(* The directory.                                                          *)

\* Mutant: what an earlier file said stays.
MergeMapKeeps(dst, src) == Over(dst, src)

\* mergeMap: a device of a later file replaces the whole device of an earlier one.
MergeMap(dst, src) == Over(src, dst)

MergeConfig(dst, src) ==
    [version |-> IF src.version > dst.version THEN src.version ELSE dst.version,
     renderer |-> IF src.renderer # None THEN src.renderer ELSE dst.renderer,
     vpp |-> IF src.vpp.given THEN src.vpp ELSE dst.vpp,
     dev |-> MergeMap(dst.dev, src.dev),
     old |-> << >>]

Merged(files) ==
    LET upto[i \in 0 .. Len(files)] ==
            IF i = 0 THEN NoFile ELSE MergeConfig(upto[i - 1], Normalize(files[i]))
    IN  upto[Len(files)]

-----------------------------------------------------------------------------
(* Validation of what was merged.                                          *)

\* VPPManaged: a vpp block, or else the renderer of the device before the global one.
VPPManaged(c, k) ==
    LET d == c.dev[k]
    IN  d.block \/ (IF d.renderer # None THEN d.renderer ELSE c.renderer) = "vpp"

\* ValidateVPPDevice
ValidateVPPDevice(d) ==
    /\ d.mode \in Mode \cup {None}
    /\ d.mode \in {"dpdk", "avf"} => d.pci # None
    /\ d.mode = "memif" => d.socket # None

ValidatedSection == {"ethernets", "bridges", "bonds", "vlans", "tunnels"}

\* ValidateVPP: no PCI device and no host interface is named in two vpp blocks of
\* the default namespace; vxlans are not looked at.
ValidateVPP(c) ==
    LET blocks == {k \in DOMAIN c.dev : /\ ~InNetns(k) /\ k[2] \in ValidatedSection
                                        /\ VPPManaged(c, k) /\ c.dev[k].block}
    IN  /\ \A k \in blocks : ValidateVPPDevice(c.dev[k])
        /\ \A k, m \in blocks : k # m =>
               /\ c.dev[k].pci = c.dev[m].pci => c.dev[k].pci = None
               /\ c.dev[k].hostif = c.dev[m].hostif => c.dev[k].hostif = None
        /\ \A it \in c.vpp.nat : it.kind \in NatInterface => it.val \subseteq Role

\* ValidateNDProxy: the addresses are IPv6; a rule answers with the MAC address of
\* a neighbour ("static"), with that of the device ("hairpin"), or by the routes.
ValidateNDProxy(c) ==
    \A k \in DOMAIN c.dev :
        k[2] \in {"ethernets", "vlans", "bridges", "bonds"} =>
            /\ c.dev[k].nd \subseteq IP6
            /\ c.dev[k].rules \subseteq {"static", "hairpin", "auto"}

\* LoadConfig: a directory without a file is an error.
Loads(files) ==
    /\ files # << >>
    /\ LET c == Merged(files) IN ValidateVPP(c) /\ ValidateNDProxy(c)

HasDefaultNamespaceConfig(c) == \E k \in DOMAIN c.dev : ~InNetns(k)
=============================================================================
