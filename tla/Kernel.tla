-------------------------------- MODULE Kernel --------------------------------
(***************************************************************************)
(* The kernel as NetlinkManager (netlink/netlink.go) drives it: one        *)
(* operator per request, each from a kernel state to the next.             *)
(*                                                                         *)
(*   netns  the named namespaces that exist                                *)
(*   links  the links that exist                                           *)
(*   items  what is configured on them                                     *)
(*   stack  <<l, m>>: l is destroyed with m (a vlan with its parent, one   *)
(*          end of a veth with the other)                                  *)
(*   ports  <<l, m>>: m is the master of l                                 *)
(*   made   the links netcfg created under a name of its configuration     *)
(*          (an observation, no code reads it)                             *)
(***************************************************************************)
EXTENDS StateDiff

CONSTANT
    Hardware      \* names of NICs the kernel refuses to delete

ASSUME HardwareAssumption == Hardware \subseteq Nic /\ Nic \subseteq Dev

KernelType ==
    [netns : SUBSET NetNS, links : SUBSET Link, items : SUBSET (Link \X Item),
     stack : SUBSET (Link \X Link), ports : SUBSET (Link \X Link),
     made : SUBSET Link]

\* The link of that name in the default namespace.
InDefault(l) == <<Default, l[2]>>

Without(rel, D) == {e \in rel : e[1] \notin D /\ e[2] \notin D}

Delete(k, D) ==
    [k EXCEPT !.links = @ \ D,
              !.items = {p \in @ : p[1] \notin D},
              !.stack = Without(@, D),
              !.ports = Without(@, D),
              !.made  = @ \ D]

\* All links that go when those of S go: those in every set that holds S and what is
\* stacked on its members.
Doomed(k, S) ==
    {l \in k.links :
        \A T \in {S \cup U : U \in SUBSET {e[1] : e \in k.stack}} :
            (\A e \in k.stack : e[2] \in T => e[1] \in T) => l \in T}

LinkDel(k, l) == Delete(k, Doomed(k, {l}))

\* A device created on top of the links in parents.
LinkAdd(k, l, parents) ==
    [k EXCEPT !.links = @ \cup {l},
              !.stack = @ \cup ({l} \X parents),
              !.made  = @ \cup {l}]

\* The far end p comes and goes with l.
AddVethPair(k, l, p) ==
    [k EXCEPT !.links = @ \cup {l, p},
              !.stack = @ \cup {<<l, p>>, <<p, l>>},
              !.made  = @ \cup {l}]

\* A link that changes namespace keeps what it is stacked on and loses its
\* addresses, routes and master.
SetLinkNetns(k, l, m) ==
    LET to(x) == IF x = l THEN m ELSE x
    IN  [k EXCEPT !.links = {to(x) : x \in @},
                  !.items = {p \in @ : p[1] # l},
                  !.stack = {<<to(e[1]), to(e[2])>> : e \in @},
                  !.ports = Without(@, {l}),
                  !.made  = {to(x) : x \in @}]

CreateNetns(k, ns) == [k EXCEPT !.netns = @ \cup {ns}]

\* Deleting a namespace destroys its virtual links and returns its hardware
\* to the default namespace.
DeleteNetns(k, ns) ==
    LET inside == {l \in k.links : l[1] = ns}
        home   == {l \in inside : l[2] \in Hardware}
        rest   == Delete(k, Doomed(k, inside \ home) \cup home)
    IN  [rest EXCEPT !.netns = @ \ {ns},
                     !.links = @ \cup {InDefault(l) : l \in home}]

AddItems(k, S) == [k EXCEPT !.items = @ \cup S]
DeleteItems(k, S) == [k EXCEPT !.items = @ \ S]

\* A link has one master: a new one replaces the old.
SetMaster(k, S, m) ==
    [k EXCEPT !.ports = {e \in @ : e[1] \notin S} \cup (S \X {m})]
==============================================================================
