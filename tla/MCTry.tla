-------------------------------- MODULE MCTry --------------------------------
(***************************************************************************)
(* Small instances of Try: two configurations with a NIC that can be       *)
(* deleted and a dummy device, and one that adds a namespace.              *)
(***************************************************************************)
EXTENDS Try, TLC

MCNetNS == {"n1"}
MCDefault == ""
MCNic == {"veth0"}
MCHardware == {}
MCDev == {"veth0", "d1", "d2"}
MCAddr == {"a1", "a2"}
MCRouteString == [r1 |-> "net1"]
MCNameOrder ==
    [x \in {"", "n1"} \cup MCDev |->
        CASE x = "" -> 0 [] x = "n1" -> 1 [] x = "d1" -> 2 [] x = "d2" -> 3
          [] x = "veth0" -> 4]
MCBoot ==
    [netns |-> {}, links |-> {<<"", "veth0">>}, items |-> {}, stack |-> {},
     ports |-> {}, made |-> {}]

Conf(netns, sect, lower, item) ==
    [netns |-> netns, sect |-> sect, lower |-> lower, member |-> {}, peer |-> {},
     item |-> item]

\* The NIC with one address, and a vlan on it.
NicOnly ==
    Conf({}, <<"", "veth0">> :> "ethernets" @@ <<"", "d2">> :> "vlans",
         {<<<<"", "d2">>, "veth0">>}, {<<<<"", "veth0">>, "a1">>})
\* The NIC with the other address, a dummy device, and a namespace.
NicAndMore ==
    Conf({"n1"}, <<"", "veth0">> :> "ethernets" @@ <<"n1", "d1">> :> "dummy", {},
         {<<<<"", "veth0">>, "a2">>, <<<<"n1", "d1">>, "a1">>})
\* The dummy device alone.
DummyOnly == Conf({}, <<"", "d1">> :> "dummy", {}, {<<<<"", "d1">>, "r1">>})
MCConfig == {NicOnly, NicAndMore, DummyOnly}
==============================================================================
