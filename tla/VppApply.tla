------------------------------ MODULE VppApply ------------------------------
(***************************************************************************)
(* The VPP half of `netcfg apply` (cmd/vpp.go, vpp/*.go): the devices that *)
(* belong to VPP are created or reused, tagged with their names and        *)
(* configured; NAT, neighbour proxies and responder taps follow; then what *)
(* the record of the previous apply has and this one does not want is      *)
(* reaped, and the record is replaced.                                     *)
(*                                                                         *)
(* Errors of single requests are logged and the apply goes on.  A request  *)
(* may fail, netcfg may be killed, and VPP may restart, which empties it   *)
(* and breaks the connection: the rest of that apply fails request by      *)
(* request.                                                                *)
(***************************************************************************)
EXTENDS ConfigLoad, Vpp

CONSTANTS
    Dirs,         \* the configuration directories: sequences of files
    NameOrder,    \* the names of devices in alphabetical order
    BviName,      \* <bridge>-bvi
    NDPTapName,   \* the name of the tap of a bridge
    AutoBdID,     \* the bridge domain derived from a name
    MaxFaults,    \* bound on failed requests and crashes
    MaxRestarts   \* bound on restarts of VPP

VARIABLES
    vpp,          \* the dataplane
    file,         \* vpp-state.json
    startup,      \* the dpdk devices startup.conf names
    cfg,          \* the configuration loaded last
    run,          \* the apply in progress
    applied,      \* history: setupVPP reached its end with cfg
    calm,         \* history: nothing failed since cfg was loaded
    faults,       \* failed requests and crashes so far
    restarts      \* restarts of VPP so far

vars == <<vpp, file, startup, cfg, run, applied, calm, faults, restarts>>

ASSUME VppAssumption ==
    /\ MaxIf \in Nat /\ MaxFaults \in Nat /\ MaxRestarts \in Nat
    /\ \A files \in Dirs : files \in Seq({files[i] : i \in 1 .. Len(files)})
    /\ Untagged \notin {NameOrder[i] : i \in 1 .. Len(NameOrder)}

-----------------------------------------------------------------------------
(* What belongs to VPP, and what the record will say of it.                *)

\* splitVPPDevices, in the order setupVPP handles the sections.
Section == <<"ethernets", "bonds", "vlans", "vxlans", "bridges">>
VppSet(c) ==
    {k \in DOMAIN c.dev : /\ ~InNetns(k) /\ VPPManaged(c, k)
                          /\ k[2] \in ValidatedSection \cup {"vxlans"}}
SortedKeys(c, s) ==
    LET names == SelectSeq(NameOrder, LAMBDA n : <<Default, s, n>> \in VppSet(c))
    IN  [i \in 1 .. Len(names) |-> <<Default, s, names[i]>>]
Worklist(c) ==
    LET upto[i \in 0 .. Len(Section)] ==
            IF i = 0 THEN << >> ELSE upto[i - 1] \o SortedKeys(c, Section[i])
    IN  upto[Len(Section)]

IsBridge(k) == k[2] = "bridges"
Bridges(c) == {k \in VppSet(c) : IsBridge(k)}
Addresses(d) == d.l3 \cap Address
BdID(c, k) == IF c.dev[k].id # None THEN c.dev[k].id ELSE AutoBdID[k[3]]
HasTap(d) == "static" \in d.rules

\* The interface that carries the addresses of a device, its kind and the key VPP
\* tells it from others of that kind by.
Iface(k) == IF IsBridge(k) THEN BviName[k[3]] ELSE k[3]
Kind(c, k) ==
    IF k[2] = "ethernets" THEN IF c.dev[k].mode = None THEN "af-packet" ELSE c.dev[k].mode
    ELSE IF k[2] = "bonds" THEN "bond"
    ELSE IF k[2] = "vlans" THEN "vlan"
    ELSE IF k[2] = "vxlans" THEN "vxlan"
    ELSE "loopback"
HostIf(c, k) == IF c.dev[k].hostif # None THEN c.dev[k].hostif ELSE k[3]
Key(c, k) ==
    IF Kind(c, k) = "af-packet" THEN HostIf(c, k)
    ELSE IF Kind(c, k) = "avf" THEN c.dev[k].pci
    ELSE IF Kind(c, k) = "dpdk" THEN k[3]
    ELSE IF Kind(c, k) \in {"vlan", "vxlan"} THEN c.dev[k].id
    ELSE None
Deferred(c, k) == Kind(c, k) \in {"rdma", "memif", "tap"}

\* Mutant: the taps are not recorded.
DevicesNoTap(c) ==
    {[name |-> k[3], type |-> Kind(c, k),
      key |-> IF Kind(c, k) \in {"af-packet", "vxlan"} THEN Key(c, k) ELSE None] :
         k \in {x \in VppSet(c) : x[2] # "bridges" /\ x[2] # "tunnels"}}
    \cup {[name |-> k[3], type |-> "bridge", key |-> BdID(c, k)] : k \in Bridges(c)}
    \cup {[name |-> Iface(k), type |-> "loopback", key |-> None] :
             k \in {x \in Bridges(c) : Addresses(c.dev[x]) # {}}}

\* buildDesiredVPPState: name, type and what Delete needs to find the device.
Devices(c) ==
    {[name |-> k[3], type |-> Kind(c, k),
      key |-> IF Kind(c, k) \in {"af-packet", "vxlan"} THEN Key(c, k) ELSE None] :
         k \in {x \in VppSet(c) : x[2] # "bridges" /\ x[2] # "tunnels"}}
    \cup {[name |-> k[3], type |-> "bridge", key |-> BdID(c, k)] : k \in Bridges(c)}
    \cup {[name |-> Iface(k), type |-> "loopback", key |-> None] :
             k \in {x \in Bridges(c) : Addresses(c.dev[x]) # {}}}
    \cup {[name |-> NDPTapName[k[3]], type |-> "ndp-tap", key |-> NDPTapName[k[3]]] :
             k \in {x \in Bridges(c) : HasTap(c.dev[x])}}

\* ndProxyFromSet: a bridge without an address has nowhere to put its entries.
NDProxy(c) ==
    UNION {{[iface |-> Iface(k), ip |-> a] : a \in c.dev[k].nd} :
               k \in {x \in VppSet(c) : /\ x[2] \in {"ethernets", "bonds", "vlans", "bridges"}
                                        /\ IsBridge(x) => Addresses(c.dev[x]) # {}}}

NewState == [dev |-> {}, nat |-> {}, nd |-> {}]
Desired(c) == [dev |-> Devices(c), nat |-> c.vpp.nat, nd |-> NDProxy(c)]
Names(D) == {x.name : x \in D}

\* setupVPP is called for devices or a vpp section, when the default namespace is
\* configured at all.
Called(c) == HasDefaultNamespaceConfig(c) /\ (VppSet(c) # {} \/ c.vpp.given)

-----------------------------------------------------------------------------
(* Requests.                                                               *)

Idle == [step |-> "idle", todo |-> << >>, at |-> 0, idx |-> << >>, left |-> {},
         prev |-> NewState, conn |-> FALSE]

Faulty == faults < MaxFaults /\ faults' = faults + 1
Undisturbed == UNCHANGED <<calm, faults>>

\* A request that cannot be answered, or fails.
Fails ==
    /\ calm' = FALSE
    /\ IF run.conn THEN Faulty ELSE UNCHANGED faults

\* Of the requests W, those of done succeed; one fault may fail any of them (as when
\* a NAT plugin cannot be enabled).
Attempt(W, done) ==
    \/ run.conn /\ done = W /\ Undisturbed
    \/ run.conn /\ done # W /\ Fails
    \/ ~run.conn /\ Fails /\ done = {}

\* resolve: what this apply created, then what carries the tag.  (Remembering what
\* was found makes no difference: an interface found keeps its index until the reap,
\* and no interface is created after that.)
Resolve(n) == IF n \in DOMAIN run.idx THEN run.idx[n] ELSE FindByTag(vpp, n)
Resolved(S) == {Resolve(n) : n \in S} \ {0}

\* Mutant: the end of the devices is not noticed.
GotoOn(todo) == [run EXCEPT !.step = "ensure", !.todo = todo, !.at = 0]

\* The next device, or NAT after the last.
Goto(todo) ==
    [run EXCEPT !.step = IF todo = << >> THEN "nat"
                         ELSE IF IsBridge(Head(todo)) THEN "bridge" ELSE "ensure",
                !.todo = todo, !.at = 0]

-----------------------------------------------------------------------------
(* Loading the configuration and connecting.                               *)

Dpdk(c) == {k[3] : k \in {x \in VppSet(c) : x[2] = "ethernets" /\ c.dev[x].mode = "dpdk"}}

\* generateStartupConf: without dpdk devices and startup section the file stays.
GenerateStartupConf(c) ==
    startup' = IF Dpdk(c) = {} /\ ~c.vpp.startup THEN startup ELSE Dpdk(c)

\* An interface left without a tag is not known again; see VppComplete.
Unknown == {i \in Held(vpp) : vpp.ifs[i].tag = Untagged /\ vpp.ifs[i].kind # "dpdk"}

\* Apply up to the connection; a directory that does not load changes nothing.
Begin(files) ==
    /\ run.step = "idle"
    /\ Loads(files)
    /\ cfg' = Merged(files)
    /\ applied' = FALSE
    /\ IF Called(cfg')
       THEN /\ run' = [Idle EXCEPT !.step = "connect"]
            /\ \/ /\ GenerateStartupConf(cfg')
                  /\ calm' = (Unknown = {}) /\ UNCHANGED faults
               \/ UNCHANGED startup /\ calm' = FALSE /\ Faulty
       ELSE calm' = FALSE /\ UNCHANGED <<startup, run, faults>>
    /\ UNCHANGED <<vpp, file, restarts>>

\* Connect, and LoadState.
Connect ==
    /\ run.step = "connect"
    /\ \/ /\ Undisturbed
          /\ LET todo == Worklist(cfg)
             IN  run' = [Goto(todo) EXCEPT !.conn = TRUE, !.prev = file]
       \/ /\ Faulty /\ calm' = FALSE
          /\ run' = Idle
    /\ UNCHANGED <<vpp, file, startup, cfg, applied, restarts>>

-----------------------------------------------------------------------------
(* One device.                                                             *)

Current == Head(run.todo)
NextDevice == run' = Goto(Tail(run.todo))

\* Mutant: the members are not put into the domain.
BridgeEmpty ==
    /\ run.step = "bridge"
    /\ Undisturbed
    /\ vpp' = [vpp EXCEPT !.bds = @ \cup {BdID(cfg, Current)}]
    /\ run' = IF Addresses(cfg.dev[Current]) = {} THEN Goto(Tail(run.todo))
              ELSE [run EXCEPT !.step = "ensure"]
    /\ UNCHANGED <<file, startup, cfg, applied, restarts>>

\* ApplyBridge up to the BVI: the domain, then its members.
Bridge ==
    /\ run.step = "bridge"
    /\ LET k == Current
           d == cfg.dev[k]
           b == BdID(cfg, k)
       IN  \/ /\ \E done \in SUBSET d.members :
                     /\ Attempt(d.members, done)
                     /\ run.conn
                     /\ vpp' = Join([vpp EXCEPT !.bds = @ \cup {b}], Resolved(done), b)
              /\ run' = IF Addresses(d) = {} THEN Goto(Tail(run.todo))
                        ELSE [run EXCEPT !.step = "ensure"]
           \/ Fails /\ NextDevice /\ UNCHANGED vpp
    /\ UNCHANGED <<file, startup, cfg, applied, restarts>>

\* Where the interface of device k is created: a vlan on its link.
Parent(k) == IF Kind(cfg, k) = "vlan" THEN Resolve(cfg.dev[k].link) ELSE 0

Absent(k) == Resolve(Iface(k)) = 0

\* ensure*, first half: reuse, or create.
Reuse ==
    /\ run.step = "ensure" /\ run.conn
    /\ ~Deferred(cfg, Current) /\ ~Absent(Current)
    /\ run' = [run EXCEPT !.step = "setup", !.at = Resolve(Iface(Current))]
    /\ Undisturbed /\ UNCHANGED <<vpp, file, startup, cfg, applied, restarts>>

CreateInterface ==
    /\ run.step = "ensure" /\ run.conn
    /\ ~Deferred(cfg, Current) /\ Absent(Current)
    /\ Kind(cfg, Current) # "dpdk"
    /\ Kind(cfg, Current) = "vlan" => Parent(Current) # 0
    /\ Accepts(vpp, Kind(cfg, Current), Key(cfg, Current), Parent(Current))
    /\ Room(vpp)
    /\ vpp' = Create(vpp, New(Untagged, Kind(cfg, Current), Key(cfg, Current), Parent(Current)))
    /\ run' = [run EXCEPT !.step = "tag", !.at = Free(vpp)]
    /\ Undisturbed /\ UNCHANGED <<file, startup, cfg, applied, restarts>>

\* ensureDpdk: VPP made the interface as it started.
FoundDpdk(k) == {i \in Held(vpp) : vpp.ifs[i].kind = "dpdk" /\ vpp.ifs[i].key = k[3]}
Adopt ==
    /\ run.step = "ensure" /\ run.conn
    /\ Kind(cfg, Current) = "dpdk" /\ Absent(Current)
    /\ \E i \in FoundDpdk(Current) : run' = [run EXCEPT !.step = "tag", !.at = i]
    /\ Undisturbed /\ UNCHANGED <<vpp, file, startup, cfg, applied, restarts>>

\* The device is left alone: a mode not implemented, no parent, VPP refuses, no such
\* dpdk interface, or the request failed.
SkipDevice ==
    /\ run.step = "ensure"
    /\ LET k == Current
       IN  \/ Deferred(cfg, k) /\ Undisturbed
           \/ ~Deferred(cfg, k) /\ Fails
           \/ /\ ~Deferred(cfg, k) /\ run.conn /\ Undisturbed
              /\ Absent(k)
              /\ IF Kind(cfg, k) = "dpdk" THEN FoundDpdk(k) = {}
                 ELSE \/ Kind(cfg, k) = "vlan" /\ Parent(k) = 0
                      \/ ~Accepts(vpp, Kind(cfg, k), Key(cfg, k), Parent(k))
    /\ NextDevice
    /\ UNCHANGED <<vpp, file, startup, cfg, applied, restarts>>

\* tagInterface: a failure is logged, and the index is used for this apply.
Tag ==
    /\ run.step = "tag"
    /\ \/ run.conn /\ Undisturbed /\ vpp' = SetTag(vpp, run.at, Iface(Current))
       \/ Fails /\ UNCHANGED vpp
    /\ run' = [run EXCEPT !.step = "setup", !.idx = Over([n \in {Iface(Current)} |-> run.at], @)]
    /\ UNCHANGED <<file, startup, cfg, applied, restarts>>

\* The rest of Apply*: the members of a bond or the domain of a BVI, then
\* configureL3, which a vxlan does not get.
Members(k) == IF k[2] = "bonds" THEN cfg.dev[k].members ELSE {}
L3(k) == IF k[2] = "vxlans" THEN {} ELSE cfg.dev[k].l3
Domain(k) == IF IsBridge(k) THEN {BdID(cfg, k)} ELSE {}

Setup ==
    /\ run.step = "setup"
    /\ LET k == Current
           W == {<<"member", m>> : m \in Members(k)} \cup {<<"l3", x>> : x \in L3(k)}
                    \cup {<<"bd", b>> : b \in Domain(k)}
       IN  \E done \in SUBSET W :
              /\ Attempt(W, done)
              /\ LET ms == {m \in Members(k) : <<"member", m>> \in done}
                     joins == {b \in Domain(k) : <<"bd", b>> \in done}
                     v1 == Enslave(vpp, Resolved(ms), run.at)
                     v2 == IF joins = {} THEN v1 ELSE Join(v1, {run.at}, BdID(cfg, k))
                 IN  vpp' = IF done = {} THEN vpp
                            ELSE Configure(v2, run.at, {x \in L3(k) : <<"l3", x>> \in done})
    /\ NextDevice
    /\ UNCHANGED <<file, startup, cfg, applied, restarts>>

-----------------------------------------------------------------------------
(* NAT, neighbour proxies and taps.                                        *)

\* A NAT item names no interface (None) or one VPP must have.
Usable(it) == it.iface = None \/ Resolve(it.iface) # 0
Entries(it) ==
    {[kind |-> it.kind, on |-> IF it.iface = None THEN 0 ELSE Resolve(it.iface), val |-> x] :
        x \in it.val}

ApplyNat ==
    /\ run.step = "nat"
    /\ LET W == {it \in cfg.vpp.nat : Usable(it)}
       IN  \E done \in SUBSET W :
              /\ Attempt(W, done)
              /\ vpp' = AddNat(vpp, UNION {Entries(it) : it \in done})
    /\ run' = [run EXCEPT !.step = "nd"]
    /\ UNCHANGED <<file, startup, cfg, applied, restarts>>

NdEntries(S) == {[on |-> Resolve(it.iface), ip |-> it.ip] : it \in S}

ApplyNDProxy ==
    /\ run.step = "nd"
    /\ LET W == {it \in NDProxy(cfg) : Resolve(it.iface) # 0}
       IN  \E done \in SUBSET W :
              /\ Attempt(W, done)
              /\ vpp' = [vpp EXCEPT !.nd = @ \cup NdEntries(done)]
    /\ run' = [run EXCEPT !.step = "tap", !.left = {k \in Bridges(cfg) : HasTap(cfg.dev[k])}]
    /\ UNCHANGED <<file, startup, cfg, applied, restarts>>

\* provisionNDPTaps, EnsureNDPTap: the tap is created with its tag, then joins.
EnsureNDPTap ==
    /\ run.step = "tap"
    /\ \E k \in run.left :
          LET t == NDPTapName[k[3]]
              b == BdID(cfg, k)
              made == IF Tagged(vpp, t) # {} THEN vpp
                      ELSE Create(vpp, New(t, "ndp-tap", t, 0))
          IN  /\ \/ /\ run.conn /\ Undisturbed
                    /\ Accepts(vpp, "ndp-tap", t, 0) \/ Tagged(vpp, t) # {}
                    /\ Tagged(vpp, t) = {} => Room(vpp)
                    /\ vpp' = Join(made, Tagged(made, t), b)
                 \/ /\ run.conn /\ Fails
                    /\ Tagged(vpp, t) = {} => Room(vpp)
                    /\ vpp' \in {vpp, made}
                 \/ ~run.conn /\ Fails /\ UNCHANGED vpp
              /\ run' = [run EXCEPT !.left = @ \ {k}]
    /\ UNCHANGED <<file, startup, cfg, applied, restarts>>

TapsReady ==
    /\ run.step = "tap" /\ run.left = {}
    /\ run' = [run EXCEPT !.step = "reapnd"]
    /\ Undisturbed /\ UNCHANGED <<vpp, file, startup, cfg, applied, restarts>>

-----------------------------------------------------------------------------
(* Reaping what the previous record has and this configuration does not.   *)

Wanted == Desired(cfg)

\* Mutant: proxies of the previous record go, wanted or not.
ReapNDAll ==
    /\ run.step = "reapnd"
    /\ Undisturbed
    /\ vpp' = [vpp EXCEPT !.nd = @ \ NdEntries({it \in run.prev.nd : Resolve(it.iface) # 0})]
    /\ run' = [run EXCEPT !.step = "reapdev", !.left = run.prev.dev]
    /\ UNCHANGED <<file, startup, cfg, applied, restarts>>

Orphans == {x \in run.prev.dev : x.name \notin Names(Wanted.dev)}

ReapNDProxyOrphans ==
    /\ run.step = "reapnd"
    /\ LET W == {it \in run.prev.nd \ Wanted.nd : Resolve(it.iface) # 0}
       IN  \E done \in SUBSET W :
              /\ Attempt(W, done)
              /\ vpp' = [vpp EXCEPT !.nd = @ \ NdEntries(done)]
    /\ run' = [run EXCEPT !.step = "reapdev", !.left = Orphans]
    /\ UNCHANGED <<file, startup, cfg, applied, restarts>>

\* reapVPPOrphans: types in this order; a type that is not listed is never reaped.
ReapOrder == <<"vxlan", "vlan", "bond", "loopback", "af-packet", "dpdk", "avf", "ndp-tap", "bridge">>
Rank(x) == CHOOSE i \in 1 .. Len(ReapOrder) : ReapOrder[i] = x.type
Reapable == {x \in run.left : \E i \in 1 .. Len(ReapOrder) : ReapOrder[i] = x.type}

\* Delete: an af-packet or vxlan interface is found by its key, the others by tag.
Delete(x) ==
    IF x.type \in {"af-packet", "vxlan"} THEN Drop(vpp, Alike(vpp, x.type, x.key, 0))
    ELSE IF x.type \in {"loopback", "bond", "vlan", "ndp-tap"}
         THEN Drop(vpp, {i \in Tagged(vpp, x.name) : vpp.ifs[i].kind = x.type})
    ELSE IF x.type = "bridge" THEN DropBd(vpp, x.key)
    ELSE vpp

ReapOrphan ==
    /\ run.step = "reapdev"
    /\ \E x \in Reapable :
          /\ \A y \in Reapable : Rank(x) <= Rank(y)
          /\ \/ run.conn /\ Undisturbed /\ vpp' = Delete(x)
             \/ Fails /\ UNCHANGED vpp
          /\ run' = [run EXCEPT !.left = @ \ {x}]
    /\ UNCHANGED <<file, startup, cfg, applied, restarts>>

Reaped ==
    /\ run.step = "reapdev" /\ Reapable = {}
    /\ run' = [run EXCEPT !.step = "reapnat", !.left = {}]
    /\ Undisturbed /\ UNCHANGED <<vpp, file, startup, cfg, applied, restarts>>

\* NatItem.Key leaves out the prefix of NAT64.
NatKey(it) == IF it.kind = "nat64-prefix" THEN [it EXCEPT !.val = {}] ELSE it

ReapNatOrphans ==
    /\ run.step = "reapnat"
    /\ LET W == {it \in run.prev.nat : /\ \A y \in Wanted.nat : NatKey(it) # NatKey(y)
                                       /\ Usable(it)}
       IN  \E done \in SUBSET W :
              /\ Attempt(W, done)
              /\ vpp' = DelNat(vpp, UNION {Entries(it) : it \in done})
    /\ run' = [run EXCEPT !.step = "save"]
    /\ UNCHANGED <<file, startup, cfg, applied, restarts>>

\* Save: the file is overwritten in place; one cut short does not parse and loads as
\* the empty record.  The connection plays no part.
Save ==
    /\ run.step = "save"
    /\ \/ file' = Wanted /\ Undisturbed
       \/ file' \in {file, NewState} /\ Faulty /\ calm' = FALSE
    /\ run' = Idle
    /\ applied' = TRUE
    /\ UNCHANGED <<vpp, startup, cfg, restarts>>

-----------------------------------------------------------------------------
(* What happens around it.                                                 *)

\* netcfg is killed; while the record is being written, that is cut short.
Crash ==
    /\ run.step # "idle"
    /\ Faulty /\ calm' = FALSE
    /\ file' \in IF run.step = "save" THEN {file, NewState} ELSE {file}
    /\ run' = Idle
    /\ UNCHANGED <<vpp, startup, cfg, applied, restarts>>

\* VPP starts anew, by startup.conf.
VppRestart ==
    /\ restarts < MaxRestarts /\ restarts' = restarts + 1
    /\ calm' = FALSE
    /\ vpp' = Started(startup)
    /\ run' = [run EXCEPT !.conn = FALSE]
    /\ UNCHANGED <<file, startup, cfg, applied, faults>>

Init ==
    /\ vpp = Started({})
    /\ file = NewState
    /\ startup = {}
    /\ cfg = NoFile
    /\ run = Idle
    /\ applied = FALSE /\ calm = FALSE
    /\ faults = 0 /\ restarts = 0

SetupVPP ==
    \/ Connect
    \/ Bridge \/ Reuse \/ CreateInterface \/ Adopt \/ SkipDevice \/ Tag \/ Setup
    \/ ApplyNat \/ ApplyNDProxy \/ EnsureNDPTap \/ TapsReady
    \/ ReapNDProxyOrphans \/ ReapOrphan \/ Reaped \/ ReapNatOrphans \/ Save

Next ==
    \/ \E files \in Dirs : Begin(files)
    \/ SetupVPP
    \/ Crash \/ VppRestart

Spec == Init /\ [][Next]_vars

-----------------------------------------------------------------------------
(* Properties.                                                             *)

\* The type invariant: interfaces, the record and the phases of setupVPP.
VppTypeOK ==
    /\ Held(vpp) \subseteq Index
    /\ \A i \in Held(vpp) : {vpp.ifs[i].on, vpp.ifs[i].bond} \subseteq Index \cup {0}
    /\ \A x \in vpp.nat \cup vpp.nd : x.on \in Index \cup {0}
    /\ DOMAIN file = {"dev", "nat", "nd"}
    /\ run.step \in {"idle", "connect", "bridge", "ensure", "tag", "setup", "nat", "nd",
                      "tap", "reapnd", "reapdev", "reapnat", "save"}
    /\ run.step \in {"bridge", "ensure", "tag", "setup"} => run.todo # << >>
    /\ faults \in 0 .. MaxFaults /\ restarts \in 0 .. MaxRestarts

\* The configurations of Dirs that load give a name one kind and key, and a host
\* interface, vni, bridge domain, address or NAT value to one name.
Uses == {<<c, k>> \in UNION {{Merged(f)} \X VppSet(Merged(f)) : f \in {g \in Dirs : Loads(g)}} :
            k[2] # "tunnels"}
Rules == UNION {Merged(f).vpp.nat : f \in {g \in Dirs : Loads(g)}}
Owned ==
    /\ \A x, y \in Uses :
          LET k == x[2] m == y[2]
          IN  IF k[3] = m[3]
              THEN k[2] = m[2] /\ Kind(x[1], k) = Kind(y[1], m) /\ Key(x[1], k) = Key(y[1], m)
              ELSE /\ Addresses(x[1].dev[k]) \cap Addresses(y[1].dev[m]) = {}
                   /\ IsBridge(k) /\ IsBridge(m) => BdID(x[1], k) # BdID(y[1], m)
                   /\ Kind(x[1], k) = Kind(y[1], m) /\ Kind(x[1], k) \in Exclusive
                         => Key(x[1], k) # Key(y[1], m)
    /\ \A x, y \in Rules : x # y /\ x.kind = y.kind /\ x.iface = y.iface
                             => x.val \cap y.val = {}

\* What the device of key k asks for is there.
Established(k) ==
    /\ (IF IsBridge(k) THEN Addresses(cfg.dev[k]) # {}
        ELSE ~Deferred(cfg, k) /\ (Kind(cfg, k) = "dpdk" => FoundDpdk(k) # {}))
       => \E i \in Tagged(vpp, Iface(k)) :
              /\ vpp.ifs[i].kind = Kind(cfg, k) /\ vpp.ifs[i].key = Key(cfg, k)
              /\ L3(k) \subseteq vpp.ifs[i].l3
              /\ IsBridge(k) => vpp.ifs[i].bd = BdID(cfg, k)
              /\ \A m \in Members(k) : Resolve(m) # 0 => vpp.ifs[Resolve(m)].bond = i
    /\ IsBridge(k) =>
          /\ BdID(cfg, k) \in vpp.bds
          /\ \A m \in cfg.dev[k].members :
                 Resolve(m) # 0 => vpp.ifs[Resolve(m)].bd = BdID(cfg, k)
          /\ HasTap(cfg.dev[k]) =>
                 \E i \in Tagged(vpp, NDPTapName[k[3]]) : vpp.ifs[i].bd = BdID(cfg, k)

\* After an apply in which nothing failed (setupVPP, cmd/vpp.go:140), whatever earlier
\* applies, crashes and restarts of VPP left behind, every device, membership,
\* address, NAT rule and proxy of the configuration is in VPP; a dpdk device once VPP
\* has started with it.  An interface that was created but never tagged is the
\* exception: its host interface, vlan or vni stays taken.
VppComplete ==
    Owned /\ run.step = "idle" /\ applied /\ calm =>
        /\ \A k \in {x \in VppSet(cfg) : x[2] # "tunnels"} : Established(k)
        /\ \A it \in cfg.vpp.nat : Usable(it) => Entries(it) \subseteq vpp.nat
        /\ NdEntries({it \in NDProxy(cfg) : Resolve(it.iface) # 0}) \subseteq vpp.nd

\* Reaping (reapVPPNDProxyOrphans, reapVPPOrphans, reapNatOrphans) deletes by host
\* interface, vni, domain or value, not by what netcfg created: as long as those are
\* owned it never takes away anything the configuration being applied asks for.
ReapSparesConfigured ==
    [][Owned /\ run.step \in {"reapnd", "reapdev", "reapnat"} /\ run.conn /\ run'.conn =>
          /\ \A n \in Names(Wanted.dev) : Tagged(vpp, n) \subseteq Tagged(vpp', n)
          /\ {x.key : x \in {y \in Wanted.dev : y.type = "bridge"}} \cap vpp.bds \subseteq vpp'.bds
          /\ UNION {Entries(it) : it \in {x \in Wanted.nat : Usable(x)}} \cap vpp.nat \subseteq vpp'.nat
          /\ NdEntries(Wanted.nd) \cap vpp.nd \subseteq vpp'.nd]_vars

\* While no request has failed and netcfg was not killed, the record
\* (vpp-state.json) knows every interface, NAT entry and proxy in VPP, so the next
\* apply can reap it; also across restarts of VPP and changes of configuration that
\* never reach setupVPP.  (Bridge domains are not claimed: one whose member stays
\* configured is refused deletion and forgotten.)
VppRecorded ==
    Owned /\ faults = 0 /\ run.step = "idle" =>
        /\ \A i \in Held(vpp) : vpp.ifs[i].kind \notin {"dpdk", "avf"} =>
              \E x \in file.dev : x.name = vpp.ifs[i].tag /\ x.type = vpp.ifs[i].kind
        /\ vpp.nat \subseteq UNION {Entries(it) : it \in file.nat}
        /\ vpp.nd \subseteq NdEntries(file.nd)

\* LoadConfig (config/config.go:920): the configuration in force has each device as
\* the last file that names it gives it, whole, a tunnel of mode vxlan counting as a
\* vxlan; and no two vpp blocks of it name one host interface.
LastFileWins ==
    run.step \in {"idle", "connect"} /\ cfg # NoFile =>
       /\ \E files \in Dirs :
              LET dev(i) == Normalize(files[i]).dev
              IN  /\ DOMAIN cfg.dev = UNION {DOMAIN dev(i) : i \in 1 .. Len(files)}
                  /\ \A k \in DOMAIN cfg.dev : \E i \in 1 .. Len(files) :
                        /\ k \in DOMAIN dev(i) /\ cfg.dev[k] = dev(i)[k]
                        /\ \A j \in i + 1 .. Len(files) : k \notin DOMAIN dev(j)
       /\ \A k, m \in DOMAIN cfg.dev :
              cfg.dev[k].hostif # None /\ cfg.dev[k].hostif = cfg.dev[m].hostif => k = m
=============================================================================
