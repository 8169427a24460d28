-------------------------------- MODULE Vpp ---------------------------------
(***************************************************************************)
(* The VPP dataplane, as far as vpp/apply.go, vpp/nat.go, vpp/ndproxy.go   *)
(* and vpp/ndptap.go use it: interfaces found by index or by tag, bridge   *)
(* domains, NAT entries and neighbour proxy entries.  VPP is not part of   *)
(* the repository; what a request does is what its callers rely on.        *)
(***************************************************************************)
EXTENDS Integers, FiniteSets

CONSTANTS
    MaxIf,        \* bound on the interfaces VPP holds at once
    Address,      \* addresses (an interface also takes routes, an MTU, ...)
    Untagged      \* the tag of an interface nobody has tagged

\* Kinds of which VPP refuses a second interface with the same key on the same parent.
Exclusive == {"af-packet", "avf", "vlan", "vxlan", "ndp-tap"}

Index == 1 .. MaxIf
Held(v) == DOMAIN v.ifs
Tagged(v, n) == {i \in Held(v) : v.ifs[i].tag = n}
Alike(v, kind, key, on) ==
    {i \in Held(v) : v.ifs[i].kind = kind /\ v.ifs[i].key = key /\ v.ifs[i].on = on}

\* The interface with a tag, 0 when there is none.
FindByTag(v, n) == IF Tagged(v, n) = {} THEN 0 ELSE CHOOSE i \in Tagged(v, n) : TRUE

\* The index the next interface gets.
Free(v) == CHOOSE i \in Index \ Held(v) : \A j \in Index \ Held(v) : i <= j
Room(v) == Index \ Held(v) # {}

New(tag, kind, key, on) ==
    [tag |-> tag, kind |-> kind, key |-> key, on |-> on, l3 |-> {}, bd |-> 0, bond |-> 0]

Accepts(v, kind, key, on) == kind \in Exclusive => Alike(v, kind, key, on) = {}
Create(v, if) ==
    [v EXCEPT !.ifs = [i \in Held(v) \cup {Free(v)} |->
                           IF i \in Held(v) THEN v.ifs[i] ELSE if]]
SetTag(v, i, n) == [v EXCEPT !.ifs[i].tag = n]

\* Joining a bridge domain moves the interface there; the domain must exist.
Join(v, S, b) ==
    [v EXCEPT !.ifs = [i \in Held(v) |->
        IF i \in S /\ b \in v.bds THEN [v.ifs[i] EXCEPT !.bd = b] ELSE v.ifs[i]]]

\* A member of one bond is refused by another.
Enslave(v, S, b) ==
    [v EXCEPT !.ifs = [i \in Held(v) |->
        IF i \in S /\ v.ifs[i].bond = 0 THEN [v.ifs[i] EXCEPT !.bond = b] ELSE v.ifs[i]]]

\* An address another interface holds is refused.
Configure(v, i, X) ==
    LET taken == UNION {v.ifs[j].l3 \cap Address : j \in Held(v) \ {i}}
    IN  [v EXCEPT !.ifs[i].l3 = @ \cup (X \ taken)]

\* Deleting interfaces takes their sub-interfaces and what is bound to them.
Drop(v, S) ==
    LET gone == S \cup {i \in Held(v) : v.ifs[i].on \in S}
    IN  [v EXCEPT
            !.ifs = [i \in Held(v) \ gone |->
                        IF v.ifs[i].bond \in gone THEN [v.ifs[i] EXCEPT !.bond = 0]
                        ELSE v.ifs[i]],
            !.nat = {x \in @ : x.on \notin gone},
            !.nd = {x \in @ : x.on \notin gone}]

\* A bridge domain is kept while an interface is in it.
DropBd(v, b) ==
    IF \E i \in Held(v) : v.ifs[i].bd = b THEN v ELSE [v EXCEPT !.bds = @ \ {b}]

\* NAT64 has one prefix: a new one takes the place of the old.
AddNat(v, E) ==
    LET prefixes == {x \in v.nat : x.kind = "nat64-prefix"}
        over == IF \E x \in E : x.kind = "nat64-prefix" THEN prefixes ELSE {}
    IN  [v EXCEPT !.nat = (@ \ over) \cup E]
DelNat(v, E) == [v EXCEPT !.nat = @ \ E]

\* VPP as it starts: the interfaces of startup.conf, without tags.
Started(names) ==
    LET at == CHOOSE f \in [names -> 1 .. Cardinality(names)] :
                  \A m, n \in names : f[m] = f[n] => m = n
    IN  [ifs |-> [i \in 1 .. Cardinality(names) |->
                     New(Untagged, "dpdk", CHOOSE n \in names : at[n] = i, 0)],
         bds |-> {}, nat |-> {}, nd |-> {}]
=============================================================================
