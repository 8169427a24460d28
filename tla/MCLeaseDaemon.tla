--------------------------- MODULE MCLeaseDaemon ---------------------------
(* LeaseDaemon for TLC.                                                    *)
EXTENDS LeaseDaemon, TLC

\* Interfaces and addresses are interchangeable: so are the configurations below.
Interchangeable == Permutations(Iface) \cup Permutations(IP)

\* Every choice of protocols, on every interface.
AnyConfig == [Iface -> SUBSET {"v4", "v6"}]

\* IPv4 wherever DHCP is used.
V4Configs == [Iface -> SUBSET {"v4"}]
=============================================================================
