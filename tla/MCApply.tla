------------------------------- MODULE MCApply -------------------------------
(***************************************************************************)
(* Small instances of Apply: one namespace beside the default one, one NIC *)
(* the kernel refuses to delete and one it does not, and configurations    *)
(* that exercise every section with a rule of its own.                     *)
(***************************************************************************)
EXTENDS Apply, TLC

Conf(netns, sect, lower, member, peer, item) ==
    [netns |-> netns, sect |-> sect, lower |-> lower, member |-> member,
     peer |-> peer, item |-> item]

MCNetNS == {"n1"}
MCDefault == ""
MCNic == {"eth0", "veth0"}
MCHardware == {"eth0"}
MCDev == MCNic \cup {"d1", "d2", "d3"}
MCAddr == {"a1", "a2"}
MCRoute == {"r1", "r1m", "h1", "g"}
MCGateway == {"g"}
MCProxy == {"x1"}
MCSID == {"s1"}
\* r1 and r1m differ in their metric, h1 is a host without a prefix length.
MCRouteString == [r1 |-> "net1", r1m |-> "net1", h1 |-> "host1", g |-> "default"]
MCRouteText == {"net1", "host1", "default"}
MCBareRoute == {"host1"}
MCNameOrder ==
    [x \in {"", "n1"} \cup MCDev |->
        CASE x = ""      -> 0 [] x = "n1" -> 1 [] x = "d1" -> 2 [] x = "d2" -> 3
          [] x = "d3"    -> 4 [] x = "eth0" -> 5 [] x = "veth0" -> 6]
MCBoot ==
    [netns |-> {}, links |-> {<<"", "eth0">>, <<"", "veth0">>},
     items |-> {<<<<"", "eth0">>, "a2">>}, stack |-> {}, ports |-> {}, made |-> {}]

At0(d) == <<"", d>>
At1(d) == <<"n1", d>>

\* Nothing configured.
Empty == Conf({}, << >>, {}, {}, {}, {})

\* Items: a NIC and a dummy device whose items change, the NIC dropped or
\* moved into the namespace, an SRv6 anchor.
NicAndDummy ==
    Conf({}, At0("eth0") :> "ethernets" @@ At0("d1") :> "dummy", {}, {}, {},
         {<<At0("eth0"), "a1">>, <<At0("eth0"), "x1">>, <<At0("d1"), "a1">>,
          <<At0("d1"), "h1">>})
DummyOnly ==
    Conf({}, At0("d1") :> "dummy", {}, {}, {},
         {<<At0("d1"), "a2">>, <<At0("d1"), "r1">>})
NicInNetns ==
    Conf({"n1"}, At1("eth0") :> "ethernets" @@ At0("d1") :> "dummy"
                     @@ At1("d3") :> "srv6", {}, {}, {},
         {<<At1("eth0"), "a1">>, <<At1("eth0"), "g">>, <<At1("d3"), "s1">>,
          <<At0("d1"), "r1m">>})
VirtualNic ==
    Conf({"n1"}, At1("veth0") :> "wifis" @@ At0("veth0") :> "ethernets", {}, {}, {},
         {<<At0("veth0"), "a1">>})
ItemConfigs == {Empty, NicAndDummy, DummyOnly, NicInNetns, VirtualNic}

\* Stacking: members, parents set up before and after their children, links
\* born in the default namespace.
BridgeAndVlan ==
    Conf({}, At0("eth0") :> "ethernets" @@ At0("d2") :> "dummy"
                 @@ At0("d1") :> "bridges" @@ At0("d3") :> "vlans",
         {<<At0("d3"), "eth0">>}, {<<At0("d1"), "d2">>}, {},
         {<<At0("d1"), "a1">>, <<At0("d1"), "x1">>})
VlanOnBond ==
    Conf({}, At0("d1") :> "bonds" @@ At0("d3") :> "vlans",
         {<<At0("d3"), "d1">>}, {<<At0("d1"), "veth0">>}, {}, {<<At0("d3"), "a1">>})
Macvlans ==
    Conf({"n1"}, At1("d1") :> "macvlan" @@ At1("d2") :> "macvtap"
                     @@ At0("d3") :> "ipvlan",
         {<<At1("d1"), "eth0">>, <<At1("d2"), "eth0">>, <<At0("d3"), "veth0">>},
         {}, {}, {<<At1("d1"), "a1">>})
StackConfigs == {Empty, BridgeAndVlan, VlanOnBond, Macvlans}

\* Veth pairs, within and across namespaces, with and without the namespace
\* of the far end being configured.
PairOut ==
    Conf({}, At0("d1") :> "veth", {}, {}, {<<At0("d1"), At1("d2")>>},
         {<<At0("d1"), "a1">>, <<At1("d2"), "a2">>})
PairIn ==
    Conf({"n1"}, At1("d1") :> "veth" @@ At0("d3") :> "tunnels", {}, {},
         {<<At1("d1"), At0("d2")>>}, {<<At1("d1"), "a1">>, <<At0("d2"), "a1">>})
PairBoth ==
    Conf({}, At0("d1") :> "virtualEthernets" @@ At0("d2") :> "virtualEthernets",
         {}, {}, {<<At0("d1"), At0("d2")>>, <<At0("d2"), At0("d1")>>},
         {<<At0("d2"), "a1">>})
PairAndNamesake ==
    Conf({"n1"}, At1("d1") :> "veth" @@ At0("d1") :> "dummy", {}, {},
         {<<At1("d1"), At1("d2")>>}, {<<At0("d1"), "a1">>})
PairConfigs == {Empty, PairOut, PairIn, PairBoth, PairAndNamesake}
StructureConfigs == StackConfigs \cup PairConfigs

-----------------------------------------------------------------------------
(* Both families in one run.  A behaviour loads the configurations of one   *)
(* family; the faults it may have depend on the size of the family.         *)

VARIABLE family

AllConfigs == ItemConfigs \cup StructureConfigs
Families == {[configs |-> ItemConfigs, faults |-> 2], [configs |-> StructureConfigs, faults |-> 1]}

FamilyInit == Init /\ family \in Families
FamilyNext ==
    /\ Next
    /\ cfg' \in {cfg} \cup family.configs
    /\ faults' <= family.faults
    /\ UNCHANGED family
\* Fairness, and so termination, is left to the family of items: what Step may be
\* is costly to evaluate on the other.
Items == family.configs = ItemConfigs
FamilySpec == FamilyInit /\ [][FamilyNext]_<<vars, family>> /\ WF_vars(Items /\ Step)

\* Every Apply of the items' configurations comes to an end, whatever fails (Apply).
ItemsTerminate == Items => Termination
==============================================================================
