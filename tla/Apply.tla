-------------------------------- MODULE Apply --------------------------------
(***************************************************************************)
(* netcfg apply (cmd/apply.go): load the recorded state, compare it with   *)
(* the configuration, remove what is gone, create and configure what is    *)
(* wanted, save the new state.  One action per netlink request that can    *)
(* fail on its own; a crash may come between any two.                      *)
(***************************************************************************)
EXTENDS Kernel

CONSTANTS
    NameOrder,    \* alphabetical order of namespace and device names
    BareRoute,    \* recorded routes whose destination has no prefix length
    Boot,         \* the kernel as it comes up
    MaxFaults     \* bound on failed requests, crashes and lost writes

VARIABLES
    kernel,       \* the kernel
    file,         \* the record in /var/lib/netcfg/state.json
    pc,           \* where Apply is
    cfg,          \* the configuration being applied, or applied last
    work,         \* what is left to do, by stage
    \* observations, read by no guard of the code
    fresh,        \* links created or moved by this Apply
    excused,      \* links netcfg lost track of because of a fault
    clean,        \* the last Apply ran to its end and no request failed
    tainted,      \* some Apply since boot was cut short or had a failure
    faults        \* faults so far

vars == <<kernel, file, pc, cfg, work, fresh, excused, clean, tainted, faults>>

\* The stages of Apply in their order.
StageOrder == [addr |-> 1, route |-> 2, dev |-> 3, ns |-> 4, sid |-> 5,
               ndp |-> 6, mkns |-> 7, setup |-> 8]
Stage == {"addr", "route", "dev", "ns", "sid", "ndp", "mkns", "setup"}

WorkType ==
    [addr : SUBSET (Link \X Rec), route : SUBSET (Link \X Rec),
     dev : SUBSET Link, ns : SUBSET NetNS, sid : SUBSET (Link \X Rec),
     ndp : SUBSET (Link \X Rec), mkns : SUBSET NetNS, setup : SUBSET Link]

NoWork ==
    [addr |-> {}, route |-> {}, dev |-> {}, ns |-> {}, sid |-> {}, ndp |-> {},
     mkns |-> {}, setup |-> {}]

\* What a device in a section needs: a parent, a far end, to be born in the
\* default namespace and moved; whether its failure is only logged.
StackedSection == {"macvlan", "macvtap", "ipvlan", "vlans"}
MovedSection == {"macvlan", "macvtap", "ipvlan", "veth"}
PairSection == {"virtualEthernets", "veth"}
LenientSection == {"ethernets", "wifis", "vlans"}

ASSUME ApplyAssumption ==
    /\ Boot \in KernelType
    /\ Boot.netns = {} /\ Boot.made = {} /\ Boot.stack = {}
    /\ MaxFaults \in Nat
    /\ BareRoute \subseteq RouteText
    /\ Config # {}
    /\ NameOrder \in [NS \cup Dev -> Nat]
    /\ \A x, y \in NS \cup Dev : NameOrder[x] = NameOrder[y] => x = y
    /\ \A ns \in NetNS : NameOrder[Default] < NameOrder[ns]

\* applyNamespaceConfig: namespaces by name, sections in their order, the
\* devices of a section by name (sortedKeys).
Precedes(c, l, m) ==
    \/ NameOrder[l[1]] < NameOrder[m[1]]
    \/ /\ l[1] = m[1]
       /\ SectionOrder[c.sect[l]] < SectionOrder[c.sect[m]]
    \/ /\ l[1] = m[1]
       /\ c.sect[l] = c.sect[m]
       /\ NameOrder[l[2]] < NameOrder[m[2]]

\* idle, at the loops of Apply, or at one of the steps that set up a link.
Control == {"idle", "run", "create", "move", "peer", "config", "peerConfig"}

TypeOK ==
    /\ kernel \in KernelType
    /\ file \in State
    /\ pc \in Control
    /\ cfg \in Config
    /\ work \in WorkType
    /\ fresh \subseteq Link
    /\ excused \subseteq Link
    /\ clean \in BOOLEAN
    /\ tainted \in BOOLEAN
    /\ faults \in 0 .. MaxFaults

Init ==
    /\ kernel = Boot
    /\ file = NewState
    /\ pc = "idle"
    /\ cfg = CHOOSE c \in Config : TRUE
    /\ work = NoWork
    /\ fresh = {}
    /\ excused = {}
    /\ clean = FALSE
    /\ tainted = FALSE
    /\ faults = 0

-----------------------------------------------------------------------------
NoFault == UNCHANGED <<clean, tainted, faults>>

Spoil == clean' = FALSE /\ tainted' = TRUE

\* A warning about something that is not there: nothing was left behind.
Warn == clean' = FALSE /\ UNCHANGED <<tainted, faults>>

Fault == Spoil /\ faults < MaxFaults /\ faults' = faults + 1

Excuse(E) == excused' = (excused \cup E) \cap kernel'.made

\* An error return or the death of the process: nothing is saved.
Stop ==
    /\ pc' = "idle"
    /\ work' = NoWork
    /\ fresh' = {}
    /\ Excuse(fresh)
    /\ UNCHANGED <<file, cfg>>

At(s) ==
    /\ pc = "run"
    /\ work[s] # {}
    /\ \A t \in Stage : StageOrder[t] < StageOrder[s] => work[t] = {}

Take(s, x) == work' = [work EXCEPT ![s] = @ \ {x}]

\* Mutant: the default namespace is deleted like any other.
LoadWithDefault(c) ==
    /\ pc = "idle"
    /\ LET new == buildStateFromConfig(c)
           diff == ComputeDiff(file, new)
       IN  work' = [addr |-> diff.addrToRemove, route |-> diff.routeToRemove,
                    dev |-> diff.devToRemove, ns |-> diff.nsToRemove,
                    sid |-> SRv6Orphans(file, new), ndp |-> NDProxyOrphans(file, new),
                    mkns |-> c.netns, setup |-> Links(c)]
    /\ pc' = "run"
    /\ cfg' = c
    /\ fresh' = {}
    /\ clean' = TRUE
    /\ UNCHANGED <<kernel, file, excused, tainted, faults>>

Load(c) ==
    /\ pc = "idle"
    /\ LET new == buildStateFromConfig(c)
           diff == ComputeDiff(file, new)
       IN  work' = [addr |-> diff.addrToRemove, route |-> diff.routeToRemove,
                    dev |-> diff.devToRemove, ns |-> diff.nsToRemove \ {Default},
                    sid |-> SRv6Orphans(file, new), ndp |-> NDProxyOrphans(file, new),
                    mkns |-> c.netns, setup |-> Links(c)]
    /\ pc' = "run"
    /\ cfg' = c
    /\ fresh' = {}
    /\ clean' = TRUE
    /\ UNCHANGED <<kernel, file, excused, tainted, faults>>
-----------------------------------------------------------------------------
(* applyRemovals, reapSRv6Orphans and reapNDProxyOrphans: a failure is      *)
(* logged and the next element is taken.                                   *)

\* One element x of stage s: the request succeeds and leaves the kernel in
\* one of the states of Done, or fails; a link in Lost then escapes.
Removal(s, x, Done, Lost) ==
    /\ Take(s, x)
    /\ \/ kernel' \in Done /\ NoFault /\ Excuse({})
       \/ Fault /\ UNCHANGED kernel /\ Excuse(Lost)
    /\ UNCHANGED <<file, pc, cfg, fresh>>

RemoveAddress ==
    /\ At("addr")
    /\ \E p \in work.addr :
         Removal("addr", p, {DeleteItems(kernel, {p})}, {})

\* DeleteRoute: a string without a prefix length does not parse, otherwise
\* one route that matches it goes.
Matching(p) == {q \in kernel.items : q[2] \in Route /\ Record(q) = p}

RemoveRoute ==
    /\ At("route")
    /\ \E p \in work.route :
         Removal("route", p,
                 IF p[2] \in BareRoute \/ Matching(p) = {}
                 THEN {kernel}
                 ELSE {DeleteItems(kernel, {q}) : q \in Matching(p)},
                 {})

RemoveDevice ==
    /\ At("dev")
    /\ \E l \in work.dev :
         Removal("dev", l,
                 {IF l \in kernel.links /\ l[2] \notin Hardware
                  THEN LinkDel(kernel, l) ELSE kernel},
                 {l})

RemoveNetns ==
    /\ At("ns")
    /\ \E ns \in work.ns :
         Removal("ns", ns,
                 {IF ns \in kernel.netns THEN DeleteNetns(kernel, ns) ELSE kernel},
                 {})

RemoveSID ==
    /\ At("sid")
    /\ \E p \in work.sid :
         Removal("sid", p,
                 {DeleteItems(kernel, {q \in kernel.items : q[2] = p[2] /\ q[1][1] = p[1][1]})},
                 {})

RemoveProxy ==
    /\ At("ndp")
    /\ \E p \in work.ndp :
         Removal("ndp", p, {DeleteItems(kernel, {p})}, {})
-----------------------------------------------------------------------------
(* Creation and configuration: MakeNetns, then one link after the other.    *)

\* An error return.  It is a fault unless the configuration itself cannot be
\* applied (unable).
Abort(unable) ==
    /\ \/ Fault
       \/ unable /\ Spoil /\ UNCHANGED faults
    /\ Stop

MakeNetns ==
    /\ At("mkns")
    /\ \E ns \in work.mkns :
         \/ /\ kernel' = CreateNetns(kernel, ns)
            /\ Take("mkns", ns)
            /\ NoFault /\ Excuse({})
            /\ UNCHANGED <<file, pc, cfg, fresh>>
         \/ /\ ns \notin kernel.netns
            /\ UNCHANGED kernel
            /\ Abort(FALSE)

\* The link whose turn it is.
Turn(l) ==
    /\ l \in work.setup
    /\ \A m \in work.setup : ~Precedes(cfg, m, l)

SetupNext ==
    /\ At("setup")
    /\ pc' = "create"
    /\ NoFault
    /\ UNCHANGED <<kernel, file, cfg, work, fresh, excused>>

GoTo(next) == pc' = next /\ UNCHANGED <<file, cfg, work>>

\* Mutant: the link is taken up again.
Repeat(l) ==
    /\ pc' = "run"
    /\ UNCHANGED <<work, file, cfg>>

\* The link is dealt with.
Finish(l) ==
    /\ pc' = "run"
    /\ Take("setup", l)
    /\ UNCHANGED <<file, cfg>>

\* Ethernets, wifis and vlans only log a failure, and so does the second end
\* of a virtual-ethernet, which setupVirtualEthernets handles with the first.
Lenient(l) ==
    \/ cfg.sect[l] \in LenientSection
    \/ /\ cfg.sect[l] = "virtualEthernets"
       /\ \E p \in Links(cfg) : <<l, p>> \in cfg.peer /\ Precedes(cfg, p, l)

\* Where the device is created, what it is created on, and its far end.
Birth(l) == IF cfg.sect[l] \in MovedSection THEN InDefault(l) ELSE l

Parents(l) ==
    {m \in Link : m[1] = Birth(l)[1] /\ <<l, m[2]>> \in cfg.lower}

Far(l) == {p \in Link : <<l, p>> \in cfg.peer}
FarBirth(l) == {<<Birth(l)[1], p[2]>> : p \in Far(l)}

\* Where the set-up of a link goes on once its device exists at Birth.
AfterBirth(l) ==
    IF Birth(l) # l THEN "move"
    ELSE IF cfg.sect[l] = "veth" THEN "peer" ELSE "config"

\* Mutant: a link that exists is left as it is.
PresentIsDone(l) ==
    /\ l \in kernel.links
    /\ Finish(l)
    /\ NoFault
    /\ UNCHANGED <<kernel, fresh, excused>>

Present(l) ==
    /\ l \in kernel.links
    /\ GoTo("config")
    /\ NoFault
    /\ UNCHANGED <<kernel, fresh, excused>>

\* setupEthernets, setupWifis: a NIC cannot be created, but an ethernet may
\* be waiting in the default namespace.
AbsentNic(l) ==
    /\ l \notin kernel.links
    /\ cfg.sect[l] \in SystemSection
    /\ \/ /\ cfg.sect[l] = "ethernets" /\ InDefault(l) \in kernel.links
          /\ GoTo("move")
          /\ NoFault
       \/ /\ cfg.sect[l] = "wifis" \/ InDefault(l) \notin kernel.links
          /\ Finish(l)
          /\ Warn
    /\ UNCHANGED <<kernel, fresh, excused>>

\* setupVethDevices: a device with either name in the default namespace is
\* taken for the pair.
Reuse(l) ==
    /\ l \notin kernel.links
    /\ cfg.sect[l] = "veth"
    /\ (FarBirth(l) \cup {Birth(l)}) \cap kernel.links # {}
    /\ GoTo(AfterBirth(l))
    /\ NoFault
    /\ UNCHANGED <<kernel, fresh, excused>>

\* What escapes the record when the device of l is at m.
Untracked(l, m) == IF cfg.sect[l] \in UntrackedSection THEN {m} ELSE {}

CanCreate(l) ==
    /\ Birth(l) \notin kernel.links
    /\ cfg.sect[l] \in StackedSection =>
           Parents(l) # {} /\ Parents(l) \subseteq kernel.links
    /\ cfg.sect[l] \in PairSection => FarBirth(l) \cap kernel.links = {}

Created(l) ==
    IF cfg.sect[l] \in PairSection
    THEN {AddVethPair(kernel, Birth(l), p) : p \in FarBirth(l)}
    ELSE {LinkAdd(kernel, Birth(l),
                  IF cfg.sect[l] \in StackedSection THEN Parents(l) ELSE {})}

Create(l) ==
    /\ l \notin kernel.links
    /\ cfg.sect[l] \notin SystemSection
    /\ CanCreate(l)
    /\ kernel' \in Created(l)
    /\ fresh' = fresh \cup {Birth(l)}
    /\ Excuse(Untracked(l, Birth(l)))
    /\ GoTo(AfterBirth(l))
    /\ NoFault

CreateFails(l) ==
    /\ l \notin kernel.links
    /\ cfg.sect[l] \notin SystemSection
    /\ ~(cfg.sect[l] = "veth" /\ ~CanCreate(l))
    /\ UNCHANGED kernel
    /\ \/ /\ Lenient(l)
          /\ Fault \/ (~CanCreate(l) /\ Warn)
          /\ Finish(l)
          /\ UNCHANGED <<fresh, excused>>
       \/ /\ ~Lenient(l)
          /\ Abort(~CanCreate(l))

\* The link that has l's name in the default namespace becomes l, and is
\* accounted for as such from here on.
Moved(k, l) ==
    /\ kernel' = SetLinkNetns(k, InDefault(l), l)
    /\ fresh' = (fresh \ {InDefault(l)}) \cup {l}
    /\ NoFault

CanMove(l) == InDefault(l) \in kernel.links /\ l \notin kernel.links

Move(l) ==
    \/ /\ CanMove(l)
       /\ Moved(kernel, l)
       /\ Excuse(Untracked(l, l))
       /\ GoTo(IF cfg.sect[l] = "veth" THEN "peer" ELSE "config")
    \/ /\ UNCHANGED kernel
       /\ Abort(~CanMove(l))

\* The far end of a veth goes to its namespace, which is created if need be.
\* Whatever has the name there is moved: netcfg does not record it.
MovePeer(l) ==
    \E p \in Far(l) :
        \/ /\ p[1] = Default
           /\ GoTo("config")
           /\ NoFault
           /\ UNCHANGED <<kernel, fresh, excused>>
        \/ /\ p[1] # Default
           /\ CanMove(p)
           /\ Moved(CreateNetns(kernel, p[1]), p)
           /\ Excuse({p})
           /\ GoTo("config")
        \/ /\ p[1] # Default
           /\ kernel' \in {kernel, CreateNetns(kernel, p[1])}
           /\ Abort(~CanMove(p) /\ p[1] \in kernel'.netns)

Wanted(l) == {q \in cfg.item : q[1] = l}
Members(l) == {m \in Link : m[1] = l[1] /\ <<l, m[2]>> \in cfg.member}

AfterConfig(l) ==
    IF cfg.sect[l] = "veth"
    THEN GoTo("peerConfig")
    ELSE Finish(l)

\* setupDevice and its callers: the link is brought up, its members join it
\* and its items are added; each failure is logged and the rest goes on.
Configure(l) ==
    /\ l \in kernel.links
    /\ \E F \in SUBSET Wanted(l), G \in SUBSET (Members(l) \cap kernel.links) :
         /\ kernel' = SetMaster(AddItems(kernel, Wanted(l) \ F),
                                (Members(l) \cap kernel.links) \ G, l)
         /\ \/ (F # {} \/ G # {}) /\ Fault
            \/ F = {} /\ G = {} /\ Members(l) \subseteq kernel.links /\ NoFault
            \/ F = {} /\ G = {} /\ ~(Members(l) \subseteq kernel.links) /\ Warn
    /\ AfterConfig(l)
    /\ UNCHANGED <<fresh, excused>>

\* SetLinkUp fails.  Bonds and bridges have their members by then, and the
\* proxy-NDP entries of an ethernet are added all the same.
ConfigureFails(l) ==
    /\ kernel' = CASE cfg.sect[l] \in {"bonds", "bridges"} ->
                          SetMaster(kernel, Members(l) \cap kernel.links, l)
                   [] cfg.sect[l] = "ethernets" ->
                          AddItems(kernel, {q \in Wanted(l) : q[2] \in Proxy})
                   [] OTHER -> kernel
    /\ \/ Lenient(l) /\ Fault /\ Finish(l) /\ UNCHANGED <<fresh, excused>>
       \/ ~Lenient(l) /\ Abort(l \notin kernel.links)

ConfigurePeer(l) ==
    \E p \in Far(l) :
        \/ /\ p \in kernel.links
           /\ \E F \in SUBSET Wanted(p) :
                /\ kernel' = AddItems(kernel, Wanted(p) \ F)
                /\ IF F = {} THEN NoFault ELSE Fault
           /\ Finish(l)
           /\ UNCHANGED <<fresh, excused>>
        \/ /\ UNCHANGED kernel
           /\ Abort(p \notin kernel.links)

Setup ==
    \E l \in Links(cfg) :
        /\ Turn(l)
        /\ \/ pc = "create" /\ (Present(l) \/ AbsentNic(l) \/ Reuse(l)
                                    \/ Create(l) \/ CreateFails(l))
           \/ pc = "move" /\ Move(l)
           \/ pc = "peer" /\ MovePeer(l)
           \/ pc = "config" /\ (Configure(l) \/ ConfigureFails(l))
           \/ pc = "peerConfig" /\ ConfigurePeer(l)
-----------------------------------------------------------------------------
\* The end of Apply: the new record replaces the old one.
Save ==
    /\ pc = "run" /\ work = NoWork
    /\ file' = buildStateFromConfig(cfg)
    /\ pc' = "idle"
    /\ fresh' = {}
    /\ NoFault
    /\ UNCHANGED <<kernel, cfg, work, excused>>

\* Save fails, which is only logged.
SaveFails ==
    /\ pc = "run" /\ work = NoWork
    /\ UNCHANGED <<kernel, file, cfg, work>>
    /\ Excuse(fresh)
    /\ Fault
    /\ pc' = "idle"
    /\ fresh' = {}

\* The machine stops while os.WriteFile has truncated the file: Load cannot
\* parse it and starts afresh.
TornSave ==
    /\ pc = "run" /\ work = NoWork
    /\ UNCHANGED <<kernel, cfg, work>>
    /\ file' = NewState
    /\ Excuse(kernel.made)
    /\ Fault
    /\ pc' = "idle"
    /\ fresh' = {}

\* Apply is killed, or returns an error from a step that changes no link
\* (setupLoopback, setupVPP, a post-script).
Interrupt ==
    /\ pc # "idle"
    /\ UNCHANGED kernel
    /\ Fault
    /\ Stop

\* The machine restarts, at any time; the record survives.
Reboot ==
    /\ kernel' = Boot
    /\ pc' = "idle"
    /\ work' = NoWork
    /\ fresh' = {}
    /\ excused' = {}
    /\ clean' = FALSE
    /\ tainted' = FALSE
    /\ UNCHANGED <<file, cfg, faults>>

\* netcfg destroy: the namespace goes, the record is not told.
Destroy(ns) ==
    /\ pc = "idle"
    /\ ns \in kernel.netns
    /\ kernel' = DeleteNetns(kernel, ns)
    /\ Excuse({})
    /\ clean' = FALSE
    /\ UNCHANGED <<file, pc, cfg, work, fresh, tainted, faults>>

Step ==
    \/ RemoveAddress \/ RemoveRoute \/ RemoveDevice \/ RemoveNetns
    \/ RemoveSID \/ RemoveProxy
    \/ MakeNetns \/ SetupNext \/ Setup
    \/ Save \/ SaveFails

Next ==
    \/ \E c \in Config : Load(c)
    \/ Step
    \/ TornSave
    \/ Interrupt
    \/ Reboot
    \/ \E ns \in NetNS : Destroy(ns)

Spec == Init /\ [][Next]_vars /\ WF_vars(Step)
-----------------------------------------------------------------------------
(* Properties.                                                             *)

running == pc # "idle" /\ pc' # "idle"

\* Names used both in a namespace and in the default one: setting up the
\* first may take the second away (setupEthernets, setupVethDevices).
Shadowed(c, l) ==
    /\ l[1] = Default
    /\ \/ \E m \in Links(c) : m # l /\ m[2] = l[2]
       \/ \E e \in c.peer : e[2] # l /\ e[2][2] = l[2]

\* Between two runs of Apply, every link netcfg created is in its record, so
\* that a later Apply can remove it; only a failed or interrupted request
\* and the devices buildNsState skips lose a link.
NoOrphans == pc = "idle" => kernel.made \subseteq file.own \cup excused

\* An Apply that logged no failure has brought the machine to its
\* configuration: every device, every item, every member of a master,
\* whatever was there before (a half-finished Apply, a lost record, a
\* destroyed namespace) and although later steps move links around.
AppliedComplete ==
    pc = "idle" /\ clean =>
        /\ \A l \in Links(cfg) : ~Shadowed(cfg, l) =>
               l \in kernel.links /\ Wanted(l) \subseteq kernel.items
        /\ \A e \in cfg.member : <<<<e[1][1], e[2]>>, e[1]>> \in kernel.ports

\* While every Apply since boot ran to its end, nothing is left on the devices
\* netcfg creates but what the configuration asks for (addresses), and no
\* proxy-NDP entry or SID outlives its configuration anywhere.
AppliedExactly ==
    pc = "idle" /\ clean /\ ~tainted =>
        \A p \in (kernel.items \ Boot.items) \ cfg.item :
            /\ p[2] \notin SID \cup Proxy
            /\ ~(p[1] \in file.own /\ p[2] \in Addr)

\* The record has the item; a SID is the same wherever in its namespace.
Noted(p) ==
    \E r \in file.item :
        \/ r = Record(p)
        \/ p[2] \in SID /\ r[2] = p[2] /\ r[1][1] = p[1][1]

\* Apply is incremental: it takes an item from a link that stays only if the
\* record has it and the configuration does not (DeleteAddress, DeleteRoute and
\* the reapers).  A route that gateway4 or gateway6 stands for is the exception:
\* it has no record, and goes with the explicit route of the same text.
TakesRecorded ==
    running =>
        \A p \in kernel.items \ kernel'.items :
            p[1] \in kernel.links \cap kernel'.links =>
                Noted(p) /\ (p \in cfg.item => p[2] \in Gateway)
RemovalsAreRecorded == [][TakesRecorded]_vars

\* A device that the old and the new record have is not recreated: it goes only
\* with something else that it is stacked on, or to make room for its namesake.
SparesKept ==
    running =>
        \A l \in kernel.links \ kernel'.links :
            l \in file.own \cap buildStateFromConfig(cfg).own /\ ~Shadowed(cfg, l) =>
                \E m \in kernel.links \ kernel'.links : <<l, m>> \in kernel.stack
KeptLinks == [][SparesKept]_vars

\* An interface netcfg did not create outlives every Apply that keeps its
\* namespace: it may change namespace, never disappear.
SparesNics ==
    running =>
        \A l \in kernel.links \ kernel'.links :
            l[2] \in Nic /\ (l[1] = Default => HasDefaultNamespaceConfig(cfg))
                         /\ (l[1] # Default => l[1] \in cfg.netns)
                => \E m \in kernel'.links \ kernel.links : m[2] = l[2]
NicsKept == [][SparesNics]_vars

\* Apply always comes to an end.
Termination == pc # "idle" ~> pc = "idle"

-----------------------------------------------------------------------------
(* Why NoOrphans holds.  An Apply that is cut short leaves the old record,   *)
(* one that ends writes the new one: the links netcfg made must be covered  *)
(* by both at every step, up to what the stages left will deal with.        *)

\* Only what exists counts as made, and no NIC does.
MadeExist ==
    /\ kernel.made \subseteq kernel.links
    /\ \A l \in kernel.made : l[2] \notin Nic

\* The old record knows every link but those of this Apply.
OldCover == kernel.made \subseteq file.own \cup excused \cup fresh

\* A link created in the default namespace that is yet to be moved.
Pending == {InDefault(l) : l \in {m \in Links(cfg) : pc = "move" /\ Turn(m)}}

\* The new record knows every link but those about to be removed or moved.
NewCover ==
    pc # "idle" =>
        kernel.made \subseteq
            buildStateFromConfig(cfg).own \cup excused \cup work.dev \cup Pending

Phase ==
    /\ pc = "idle" => fresh = {}
    /\ pc \notin {"idle", "run"} => work.dev = {}

\* The inductive invariant.
Tracked == TypeOK /\ MadeExist /\ OldCover /\ NewCover /\ Phase
-----------------------------------------------------------------------------
(* What a test says of Apply, and the code does not do.                    *)

\* "system 设备（物理网卡）不删除" (state_test.go): an interface netcfg did not
\* create never disappears because of an Apply.
SystemDeviceNotDeleted ==
    [][running =>
        \A l \in kernel.links \ kernel'.links :
            l[2] \in Nic => \E m \in kernel'.links \ kernel.links : m[2] = l[2]]_vars
-----------------------------------------------------------------------------
(* Why an Apply takes away only what it may: its work list stays within the  *)
(* difference of the two records, and deleting a link takes no NIC along.   *)

\* What is left to remove is in the old record and not in the new one.
Agenda ==
    pc # "idle" =>
        LET new == buildStateFromConfig(cfg)
        IN  /\ work.addr \subseteq ItemsToRemove(file, new, Addr)
            /\ work.route \subseteq ItemsToRemove(file, new, RouteText)
            /\ work.dev \subseteq DevicesToRemove(file, new)
            /\ work.ns \subseteq file.ns \ new.ns
            /\ work.sid \subseteq SRv6Orphans(file, new)
            /\ work.ndp \subseteq NDProxyOrphans(file, new)

\* Only links that exist are stacked, and no NIC is destroyed with another.
StackSound ==
    \A e \in kernel.stack :
        e[1] \in kernel.links /\ e[2] \in kernel.links /\ e[1][2] \notin Nic

\* No NIC is recorded as netcfg's own (CreatedBy in buildNsState), whatever
\* Apply has left to remove is a difference of the records, and no NIC goes with
\* another link: what NicsKept, KeptLinks and RemovalsAreRecorded rest on.
Grounded == Agenda /\ StackSound /\ \A l \in file.own : l[2] \notin Nic
==============================================================================
