---------------------------- MODULE RemovalProofs ----------------------------
(***************************************************************************)
(* What an Apply never takes away, for every set of namespaces, devices,   *)
(* items and configurations and every number of faults: proofs of the      *)
(* action properties RemovalsAreRecorded, KeptLinks and NicsKept.          *)
(***************************************************************************)
EXTENDS ApplyProofs

\* What each step has to respect.
Careful == TakesRecorded /\ SparesKept /\ SparesNics

-----------------------------------------------------------------------------
(* The requests of the kernel: what goes, and what stays stacked.          *)

\* A link that goes with others is stacked on one of those that go.
LEMMA DoomedLemma ==
    ASSUME NEW k \in KernelType, NEW S, NEW l \in Doomed(k, S), l \notin S,
           \A e \in k.stack : e[1] \in k.links /\ e[2] \in k.links
    PROVE  \E m \in Doomed(k, S) : <<l, m>> \in k.stack
<1> SUFFICES ASSUME \A m \in Doomed(k, S) : <<l, m>> \notin k.stack
             PROVE  FALSE
  OBVIOUS
<1> DEFINE heads == {e[1] : e \in k.stack}
           Closed(T) == \A e \in k.stack : e[2] \in T => e[1] \in T
           D == {x \in S \cup heads :
                    \A T \in {S \cup U : U \in SUBSET heads} : Closed(T) => x \in T}
           rest == D \ {l}
<1>1. Doomed(k, S) = {x \in k.links :
                        \A T \in {S \cup U : U \in SUBSET heads} : Closed(T) => x \in T}
  BY DEF Doomed
<1>2. Closed(D)
  OBVIOUS
<1>3. rest \in {S \cup U : U \in SUBSET heads}
  <2>1. rest = S \cup (rest \cap heads)
    OBVIOUS
  <2> QED
    BY <2>1
<1>4. Closed(rest)
  <2>1. ASSUME NEW e \in k.stack, e[2] \in rest PROVE e[1] # l
    <3>1. e = <<e[1], e[2]>>
      BY DEF KernelType
    <3>2. e[2] \in Doomed(k, S)
      BY <1>1, <2>1
    <3> QED
      BY <3>1, <3>2
  <2> QED
    BY <1>2, <2>1
<1>5. l \in rest
  BY <1>1, <1>3, <1>4
<1> QED
  BY <1>5

\* Deleting links takes their items and what they are stacked on.
LEMMA DeleteParts ==
    ASSUME NEW k \in KernelType, NEW D
    PROVE  /\ Delete(k, D).items = {p \in k.items : p[1] \notin D}
           /\ Delete(k, D).stack = Without(k.stack, D)
           /\ Delete(k, D).links = k.links \ D
  BY DEF Delete, KernelType

\* Deleting a namespace: the links that go, and the hardware that comes home.
LEMMA DeleteNetnsParts ==
    ASSUME NEW k \in KernelType, NEW ns \in NetNS
    PROVE  LET inside == {l \in k.links : l[1] = ns}
               home == {l \in inside : l[2] \in Hardware}
               D == Doomed(k, inside \ home) \cup home
           IN  /\ DeleteNetns(k, ns).items = {p \in k.items : p[1] \notin D}
               /\ DeleteNetns(k, ns).stack = Without(k.stack, D)
               /\ DeleteNetns(k, ns).links = (k.links \ D) \cup {InDefault(l) : l \in home}
<1> DEFINE inside == {l \in k.links : l[1] = ns}
           home == {l \in inside : l[2] \in Hardware}
           D == Doomed(k, inside \ home) \cup home
           rest == Delete(k, D)
           back == {InDefault(l) : l \in home}
<1>1. /\ rest \in KernelType
      /\ rest.items = {p \in k.items : p[1] \notin D}
      /\ rest.stack = Without(k.stack, D)
      /\ rest.links = k.links \ D
  BY DeleteLemma, DeleteParts
<1>2. DeleteNetns(k, ns) = [rest EXCEPT !.netns = @ \ {ns}, !.links = @ \cup back]
  BY DEF DeleteNetns
<1> HIDE DEF rest, back
<1>3. /\ DeleteNetns(k, ns).items = rest.items
      /\ DeleteNetns(k, ns).stack = rest.stack
      /\ DeleteNetns(k, ns).links = rest.links \cup back
  BY <1>1, <1>2 DEF KernelType
<1> QED
  BY <1>1, <1>3 DEF back

\* Moving a link: it alone goes, and what was stacked on it still is.
LEMMA SetLinkNetnsParts ==
    ASSUME NEW k \in KernelType, NEW l \in Link, NEW m \in Link,
           l \in k.links, m \notin k.links
    PROVE  /\ SetLinkNetns(k, l, m).links = (k.links \ {l}) \cup {m}
           /\ SetLinkNetns(k, l, m).items = {p \in k.items : p[1] # l}
           /\ \A e \in SetLinkNetns(k, l, m).stack : \E d \in k.stack :
                  /\ e[1] = (IF d[1] = l THEN m ELSE d[1])
                  /\ e[2] = (IF d[2] = l THEN m ELSE d[2])
<1> DEFINE to(x) == IF x = l THEN m ELSE x
           links == {to(x) : x \in k.links}
           items == {p \in k.items : p[1] # l}
           stack == {<<to(e[1]), to(e[2])>> : e \in k.stack}
<1>1. links = (k.links \ {l}) \cup {m}
  OBVIOUS
<1>2. \A e \in stack : \E d \in k.stack : e[1] = to(d[1]) /\ e[2] = to(d[2])
  OBVIOUS
<1>3. SetLinkNetns(k, l, m) =
        [k EXCEPT !.links = links, !.items = items, !.stack = stack,
                  !.ports = Without(@, {l}), !.made = {to(x) : x \in @}]
  BY DEF SetLinkNetns
<1> HIDE DEF links, items, stack
<1>4. /\ SetLinkNetns(k, l, m).links = links
      /\ SetLinkNetns(k, l, m).items = items
      /\ SetLinkNetns(k, l, m).stack = stack
  BY <1>3 DEF KernelType
<1> QED
  BY <1>1, <1>2, <1>4 DEF items
-----------------------------------------------------------------------------
(* Records and steps.                                                      *)

\* The fields of the record of a configuration that the proofs use.
LEMMA RecordParts ==
    ASSUME NEW c \in Config
    PROVE  LET new == buildStateFromConfig(c)
           IN  /\ \A ns \in c.netns : ns \in new.ns
               /\ HasDefaultNamespaceConfig(c) => Default \in new.ns
               /\ \A l \in new.own : l \in Links(c) /\ l[1] \in new.ns /\ l[2] \notin Nic
               /\ \A l \in Devices(new) :
                      l \in Links(c) /\ c.sect[l] \notin UntrackedSection
<1> DEFINE new == buildStateFromConfig(c)
<1>1. new.ns = c.netns \cup (IF HasDefaultNamespaceConfig(c) THEN {Default} ELSE {})
  BY DEF buildStateFromConfig
<1>2. new.own = {l \in Links(c) : c.sect[l] \notin SystemSection \cup UntrackedSection}
  BY DEF buildStateFromConfig
<1>3. new.sys = {l \in Links(c) : c.sect[l] \in SystemSection}
  BY DEF buildStateFromConfig, SystemLinks
<1> HIDE DEF new
<1>4. \A l \in Links(c) : l[1] \in new.ns
  BY <1>1, ConfigAssumption DEF HasDefaultNamespaceConfig
<1>5. \A l \in new.own : l \in Links(c) /\ l[1] \in new.ns /\ l[2] \notin Nic
  BY <1>2, <1>4, ConfigAssumption
<1>6. \A l \in Devices(new) : l \in Links(c) /\ c.sect[l] \notin UntrackedSection
  BY <1>2, <1>3 DEF Devices, SystemSection, UntrackedSection
<1> QED
  BY <1>1, <1>5, <1>6 DEF new

\* What is configured on a recorded device is in the record, gateways apart,
\* and so is every SID and every proxy-NDP entry.
LEMMA RecordedItem ==
    ASSUME NEW c \in Config, NEW p \in c.item, p[2] \notin Gateway,
           p[1] \in Devices(buildStateFromConfig(c)) \/ p[2] \in SID \cup Proxy
    PROVE  Record(p) \in buildStateFromConfig(c).item
<1>1. Recorded(c, p)
  <2>1. CASE p[2] \in SID
    BY <2>1 DEF Recorded
  <2>2. CASE p[2] \in Proxy
    <3>1. p[1] \in Links(c) /\ c.sect[p[1]] \in ProxySection
      BY <2>2, ConfigAssumption
    <3> QED
      BY <3>1 DEF Recorded, ProxySection, UntrackedSection
  <2>3. CASE p[1] \in Devices(buildStateFromConfig(c))
    BY <2>3, RecordParts DEF Recorded
  <2> QED
    BY <2>1, <2>2, <2>3
<1>2. buildStateFromConfig(c).item = {Record(q) : q \in {q \in c.item : Recorded(c, q)}}
  BY DEF buildStateFromConfig
<1> QED
  BY <1>1, <1>2

\* Only routes are recorded in another form, and only routes are gateways.
LEMMA PlainRecord ==
    ASSUME NEW p \in Link \X Item, p[2] \in Addr \cup Proxy \cup SID
    PROVE  Record(p) = p /\ p[2] \notin Gateway
  BY KindAssumption DEF Record

\* A step that takes nothing away.
LEMMA QuietLemma ==
    ASSUME kernel.links \subseteq kernel'.links, kernel.items \subseteq kernel'.items
    PROVE  Careful
  BY DEF Careful, TakesRecorded, SparesKept, SparesNics

\* A step that starts or ends an Apply, or falls between two.
LEMMA AtRestLemma ==
    ASSUME pc = "idle" \/ pc' = "idle"
    PROVE  Careful
  BY DEF Careful, TakesRecorded, SparesKept, SparesNics, running

\* While an Apply goes on its work list only shrinks.
LEMMA AgendaLemma ==
    ASSUME Grounded, pc # "idle", UNCHANGED <<file, cfg>>,
           /\ work'.addr \subseteq work.addr /\ work'.route \subseteq work.route
           /\ work'.dev \subseteq work.dev /\ work'.ns \subseteq work.ns
           /\ work'.sid \subseteq work.sid /\ work'.ndp \subseteq work.ndp
    PROVE  Agenda'
<1>1. file' = file /\ buildStateFromConfig(cfg') = buildStateFromConfig(cfg)
  OBVIOUS
<1>2. Agenda
  BY DEF Grounded
<1> QED
  BY <1>1, <1>2 DEF Agenda

\* Ticking an element off keeps the others.
LEMMA TakeLemma ==
    ASSUME work \in WorkType, NEW s \in Stage, NEW x, Take(s, x)
    PROVE  /\ work'.addr \subseteq work.addr /\ work'.route \subseteq work.route
           /\ work'.dev \subseteq work.dev /\ work'.ns \subseteq work.ns
           /\ work'.sid \subseteq work.sid /\ work'.ndp \subseteq work.ndp
<1>1. \/ s = "addr" \/ s = "route" \/ s = "dev" \/ s = "ns"
      \/ s = "sid" \/ s = "ndp" \/ s = "mkns" \/ s = "setup"
  BY DEF Stage
<1> QED
  BY <1>1 DEF Take, WorkType

\* A step that changes neither the stack nor the record, and loses no link.
LEMMA StackLemma ==
    ASSUME Grounded, Agenda', kernel'.stack \subseteq kernel.stack,
           kernel.links \subseteq kernel'.links, UNCHANGED file
    PROVE  Grounded'
<1>1. StackSound'
  BY DEF Grounded, StackSound
<1> QED
  BY <1>1 DEF Grounded
-----------------------------------------------------------------------------
(* Removals.                                                               *)

\* What every removal starts from and leaves alone.
LEMMA RemovalFrame ==
    ASSUME Tracked, Grounded, pc = "run", NEW s \in Stage, NEW x, NEW Done, NEW Lost,
           Removal(s, x, Done, Lost)
    PROVE  /\ Agenda' /\ UNCHANGED <<file, cfg>>
           /\ kernel' \in Done \/ kernel' = kernel
<1>1. Take(s, x) /\ UNCHANGED <<file, cfg>> /\ (kernel' \in Done \/ kernel' = kernel)
  BY DEF Removal
<1>2. work \in WorkType
  BY DEF Tracked, TypeOK
<1> QED
  BY <1>1, <1>2, TakeLemma, AgendaLemma

\* A removal of items that are noted and no longer configured.
LEMMA ItemRemoval ==
    ASSUME Tracked, Grounded, pc = "run", NEW s \in Stage, NEW x, NEW Done, NEW Lost,
           Removal(s, x, Done, Lost),
           \A k \in Done :
               /\ k.links = kernel.links /\ k.stack = kernel.stack
               /\ \A p \in kernel.items \ k.items :
                      Noted(p) /\ (p \in cfg.item => p[2] \in Gateway)
    PROVE  Grounded' /\ Careful
<1>1. /\ Agenda' /\ UNCHANGED <<file, cfg>>
      /\ kernel' \in Done \/ kernel' = kernel
  BY RemovalFrame
<1>2. kernel'.links = kernel.links /\ kernel'.stack = kernel.stack
  BY <1>1
<1>3. Grounded'
  BY <1>1, <1>2, StackLemma
<1>4. TakesRecorded
  BY <1>1 DEF TakesRecorded
<1>5. SparesKept /\ SparesNics
  BY <1>2 DEF SparesKept, SparesNics
<1> QED
  BY <1>3, <1>4, <1>5 DEF Careful

\* Deleting items leaves the rest of the kernel as it is.
LEMMA DeleteItemsParts ==
    ASSUME kernel \in KernelType, NEW S
    PROVE  /\ DeleteItems(kernel, S).links = kernel.links
           /\ DeleteItems(kernel, S).stack = kernel.stack
           /\ kernel.items \ DeleteItems(kernel, S).items \subseteq S \cap kernel.items
  BY DEF DeleteItems, KernelType

\* An item that left the record of its device is noted and not configured.
LEMMA StaleItem ==
    ASSUME Tracked, Grounded, pc # "idle", NEW q \in kernel.items,
           \/ q \in work.addr
           \/ q[2] \in Route /\ Record(q) \in work.route
           \/ q \in work.ndp
           \/ \E p \in work.sid : q[2] = p[2] /\ q[1][1] = p[1][1]
    PROVE  Noted(q) /\ (q \in cfg.item => q[2] \in Gateway)
<1> DEFINE new == buildStateFromConfig(cfg)
<1>1. /\ work.addr \subseteq ItemsToRemove(file, new, Addr)
      /\ work.route \subseteq ItemsToRemove(file, new, RouteText)
      /\ work.sid \subseteq SRv6Orphans(file, new)
      /\ work.ndp \subseteq NDProxyOrphans(file, new)
  BY DEF Grounded, Agenda
<1>2. cfg \in Config /\ q \in Link \X Item
  BY DEF Tracked, TypeOK, KernelType
<1>3. CASE q \in work.addr
  <2>1. q \in file.item /\ q[2] \in Addr /\ q[1] \in Devices(new) /\ q \notin new.item
    BY <1>1, <1>3 DEF ItemsToRemove
  <2>2. Record(q) = q /\ q[2] \notin Gateway
    BY <1>2, <2>1, PlainRecord
  <2>3. q \notin cfg.item
    BY <1>2, <2>1, <2>2, RecordedItem
  <2> QED
    BY <2>1, <2>2, <2>3 DEF Noted
<1>4. CASE q[2] \in Route /\ Record(q) \in work.route
  <2>1. /\ Record(q) \in file.item /\ Record(q) \notin new.item
        /\ Record(q)[1] \in Devices(new)
    BY <1>1, <1>4 DEF ItemsToRemove
  <2>2. q[1] \in Devices(new)
    BY <2>1 DEF Record
  <2>3. q \in cfg.item => q[2] \in Gateway
    BY <1>2, <2>1, <2>2, RecordedItem
  <2> QED
    BY <2>1, <2>3 DEF Noted
<1>5. CASE q \in work.ndp
  <2>1. q \in file.item /\ q[2] \in Proxy /\ q \notin new.item
    BY <1>1, <1>5 DEF NDProxyOrphans
  <2>2. Record(q) = q /\ q[2] \notin Gateway
    BY <1>2, <2>1, PlainRecord
  <2>3. q \notin cfg.item
    BY <1>2, <2>1, <2>2, RecordedItem
  <2> QED
    BY <2>1, <2>2, <2>3 DEF Noted
<1>6. CASE \E p \in work.sid : q[2] = p[2] /\ q[1][1] = p[1][1]
  <2>1. PICK p \in work.sid : q[2] = p[2] /\ q[1][1] = p[1][1]
    BY <1>6
  <2>2. /\ p \in file.item /\ p[2] \in SID
        /\ \A r \in new.item : ~(r[2] = p[2] /\ r[1][1] = p[1][1])
    BY <1>1, <2>1 DEF SRv6Orphans
  <2>3. Record(q) = q /\ q[2] \notin Gateway
    BY <1>2, <2>1, <2>2, PlainRecord
  <2>4. q \notin cfg.item
    BY <1>2, <2>1, <2>2, <2>3, RecordedItem
  <2> QED
    BY <2>1, <2>2, <2>4 DEF Noted
<1> QED
  BY <1>3, <1>4, <1>5, <1>6

\* The removals of items.
LEMMA ItemRemovals ==
    ASSUME Tracked, Grounded,
           RemoveAddress \/ RemoveRoute \/ RemoveSID \/ RemoveProxy
    PROVE  Grounded' /\ Careful
<1> USE DEF Stage
<1>0. kernel \in KernelType
  BY DEF Tracked, TypeOK
<1>1. CASE RemoveAddress
  <2>1. PICK p \in work.addr : Removal("addr", p, {DeleteItems(kernel, {p})}, {})
    BY <1>1 DEF RemoveAddress
  <2>2. pc = "run"
    BY <1>1 DEF RemoveAddress, At
  <2> QED
    BY <1>0, <2>1, <2>2, DeleteItemsParts, StaleItem, ItemRemoval
<1>2. CASE RemoveRoute
  <2> DEFINE Done(p) == IF p[2] \in BareRoute \/ Matching(p) = {}
                        THEN {kernel}
                        ELSE {DeleteItems(kernel, {q}) : q \in Matching(p)}
  <2>1. PICK p \in work.route : Removal("route", p, Done(p), {})
    BY <1>2 DEF RemoveRoute
  <2>2. pc = "run"
    BY <1>2 DEF RemoveRoute, At
  <2>3. \A q \in Matching(p) : Noted(q) /\ (q \in cfg.item => q[2] \in Gateway)
    BY <2>1, <2>2, StaleItem DEF Matching
  <2>4. \A k \in Done(p) :
            /\ k.links = kernel.links /\ k.stack = kernel.stack
            /\ kernel.items \ k.items \subseteq Matching(p)
    <3>1. ASSUME NEW q \in Matching(p)
          PROVE  LET k == DeleteItems(kernel, {q})
                 IN  /\ k.links = kernel.links /\ k.stack = kernel.stack
                     /\ kernel.items \ k.items \subseteq Matching(p)
      BY <1>0, DeleteItemsParts
    <3> QED
      BY <3>1
  <2> HIDE DEF Done
  <2> QED
    BY <2>1, <2>2, <2>3, <2>4, ItemRemoval
<1>3. CASE RemoveSID
  <2> DEFINE Gone(p) == {q \in kernel.items : q[2] = p[2] /\ q[1][1] = p[1][1]}
  <2>1. PICK p \in work.sid : Removal("sid", p, {DeleteItems(kernel, Gone(p))}, {})
    BY <1>3 DEF RemoveSID
  <2>2. pc = "run"
    BY <1>3 DEF RemoveSID, At
  <2>3. \A q \in Gone(p) : Noted(q) /\ (q \in cfg.item => q[2] \in Gateway)
    BY <2>1, <2>2, StaleItem
  <2> HIDE DEF Gone
  <2> QED
    BY <1>0, <2>1, <2>2, <2>3, DeleteItemsParts, ItemRemoval
<1>4. CASE RemoveProxy
  <2>1. PICK p \in work.ndp : Removal("ndp", p, {DeleteItems(kernel, {p})}, {})
    BY <1>4 DEF RemoveProxy
  <2>2. pc = "run"
    BY <1>4 DEF RemoveProxy, At
  <2> QED
    BY <1>0, <2>1, <2>2, DeleteItemsParts, StaleItem, ItemRemoval
<1> QED
  BY <1>1, <1>2, <1>3, <1>4

\* Deleting a device: it has left the record, and takes along only what is
\* stacked on it.
LEMMA DeviceRemoval ==
    ASSUME Tracked, Grounded, RemoveDevice
    PROVE  Grounded' /\ Careful
<1> DEFINE new == buildStateFromConfig(cfg)
           Done(l) == {IF l \in kernel.links /\ l[2] \notin Hardware
                       THEN LinkDel(kernel, l) ELSE kernel}
<1>1. PICK l \in work.dev : Removal("dev", l, Done(l), {l})
  BY DEF RemoveDevice
<1>2. pc = "run" /\ kernel \in KernelType /\ cfg \in Config
  BY DEF RemoveDevice, At, Tracked, TypeOK
<1>3. Agenda' /\ UNCHANGED <<file, cfg>> /\ (kernel' = LinkDel(kernel, l) \/ kernel' = kernel)
  <2> HIDE DEF Done
  <2>1. Agenda' /\ UNCHANGED <<file, cfg>> /\ (kernel' \in Done(l) \/ kernel' = kernel)
    BY <1>1, <1>2, RemovalFrame DEF Stage
  <2> QED
    BY <2>1 DEF Done
<1>4. CASE kernel' = kernel
  BY <1>3, <1>4, StackLemma, QuietLemma
<1>5. CASE kernel' = LinkDel(kernel, l)
  <2> DEFINE D == Doomed(kernel, {l})
  <2>1. /\ kernel'.items = {p \in kernel.items : p[1] \notin D}
        /\ kernel'.stack = Without(kernel.stack, D)
        /\ kernel'.links = kernel.links \ D
    BY <1>2, <1>5, DeleteParts DEF LinkDel
  <2>2. D \subseteq kernel.links
    BY DEF Doomed
  <2>3. \/ l \in Devices(file) /\ l[1] \notin new.ns
        \/ l \in file.own /\ l \notin Devices(new)
    <3>1. work.dev \subseteq DevicesToRemove(file, new)
      BY <1>2 DEF Grounded, Agenda
    <3> QED
      BY <1>1, <3>1 DEF DevicesToRemove
  <2>4. \A x \in D : x # l => \E m \in D : <<x, m>> \in kernel.stack /\ x[2] \notin Nic
    <3>1. \A e \in kernel.stack :
              e[1] \in kernel.links /\ e[2] \in kernel.links /\ e[1][2] \notin Nic
      BY DEF Grounded, StackSound
    <3>2. ASSUME NEW x \in D, x # l PROVE \E m \in D : <<x, m>> \in kernel.stack
      BY <1>2, <3>1, <3>2, DoomedLemma
    <3> QED
      BY <3>1, <3>2
  <2>5. /\ \A ns \in cfg.netns : ns \in new.ns
        /\ HasDefaultNamespaceConfig(cfg) => Default \in new.ns
        /\ \A x \in new.own : x[1] \in new.ns
        /\ \A x \in new.own : x \in Devices(new)
        /\ \A x \in file.own : x[2] \notin Nic
    BY <1>2, RecordParts DEF Grounded, Devices
  <2> HIDE DEF D, new
  <2>6. Grounded'
    <3>1. StackSound'
      BY <2>1 DEF Grounded, StackSound, Without
    <3> QED
      BY <1>3, <3>1 DEF Grounded
  <2>7. TakesRecorded
    BY <2>1 DEF TakesRecorded
  <2>8. SparesKept
    <3>1. l \notin file.own \cap new.own
      BY <2>3, <2>5
    <3> QED
      BY <2>1, <2>2, <2>4, <3>1 DEF SparesKept, new
  <2>9. SparesNics
    BY <2>1, <2>3, <2>4, <2>5 DEF SparesNics
  <2> QED
    BY <2>6, <2>7, <2>8, <2>9 DEF Careful
<1> QED
  BY <1>3, <1>4, <1>5

\* Deleting a namespace that the configuration no longer lists.
LEMMA NetnsRemoval ==
    ASSUME Tracked, Grounded, RemoveNetns
    PROVE  Grounded' /\ Careful
<1> DEFINE new == buildStateFromConfig(cfg)
           Done(ns) == {IF ns \in kernel.netns THEN DeleteNetns(kernel, ns) ELSE kernel}
<1>1. PICK ns \in work.ns : Removal("ns", ns, Done(ns), {})
  BY DEF RemoveNetns
<1>2. pc = "run" /\ kernel \in KernelType /\ cfg \in Config /\ ns \in NetNS
  BY <1>1 DEF RemoveNetns, At, Tracked, TypeOK, WorkType
<1>3. Agenda' /\ UNCHANGED <<file, cfg>> /\ (kernel' = DeleteNetns(kernel, ns) \/ kernel' = kernel)
  <2> HIDE DEF Done
  <2>1. Agenda' /\ UNCHANGED <<file, cfg>> /\ (kernel' \in Done(ns) \/ kernel' = kernel)
    BY <1>1, <1>2, RemovalFrame DEF Stage
  <2> QED
    BY <2>1 DEF Done
<1>4. CASE kernel' = kernel
  BY <1>3, <1>4, StackLemma, QuietLemma
<1>5. CASE kernel' = DeleteNetns(kernel, ns)
  <2> DEFINE inside == {l \in kernel.links : l[1] = ns}
             home == {l \in inside : l[2] \in Hardware}
             back == {InDefault(l) : l \in home}
             D == Doomed(kernel, inside \ home)
  <2>1. /\ kernel'.items = {p \in kernel.items : p[1] \notin D \cup home}
        /\ kernel'.stack = Without(kernel.stack, D \cup home)
        /\ kernel'.links = (kernel.links \ (D \cup home)) \cup back
    BY <1>2, <1>5, DeleteNetnsParts
  <2>2. D \subseteq kernel.links /\ home \subseteq kernel.links
    BY DEF Doomed
  <2>3. ns # Default /\ ns \notin new.ns
    BY <1>1, <1>2, DefaultAssumption DEF Grounded, Agenda
  <2>4. \A x \in D : x[1] = ns \/ \E m \in D : <<x, m>> \in kernel.stack /\ x[2] \notin Nic
    <3>1. \A e \in kernel.stack :
              e[1] \in kernel.links /\ e[2] \in kernel.links /\ e[1][2] \notin Nic
      BY DEF Grounded, StackSound
    <3>2. ASSUME NEW x \in D, x \notin inside \ home
          PROVE  \E m \in D : <<x, m>> \in kernel.stack
      <4> HIDE DEF inside, home
      <4> QED
        BY <1>2, <3>1, <3>2, DoomedLemma
    <3> QED
      BY <3>1, <3>2
  <2>5. \A x \in home : x[1] = ns /\ x[2] \in Nic
    BY HardwareAssumption
  <2>6. \A x \in back : x[1] = Default /\ x[2] \in Nic
    BY HardwareAssumption DEF InDefault
  <2>7. (D \cup home) \cap back = {}
    BY <2>3, <2>4, <2>5, <2>6
  <2>8. /\ \A n \in cfg.netns : n \in new.ns
        /\ HasDefaultNamespaceConfig(cfg) => Default \in new.ns
        /\ \A x \in new.own : x[1] \in new.ns
        /\ \A x \in file.own : x[2] \notin Nic
    BY <1>2, RecordParts DEF Grounded
  <2> HIDE DEF D, new, home, back
  <2>9. Grounded'
    <3>1. StackSound'
      BY <2>1 DEF Grounded, StackSound, Without
    <3> QED
      BY <1>3, <3>1 DEF Grounded
  <2>10. TakesRecorded
    BY <2>1, <2>7 DEF TakesRecorded
  <2>11. SparesKept
    <3>1. SUFFICES ASSUME NEW x \in D \cup home, x \in file.own \cap new.own
                   PROVE  \E m \in D : <<x, m>> \in kernel.stack
      BY <2>1, <2>2, <2>7 DEF SparesKept, new
    <3>2. x[1] # ns
      BY <2>3, <2>8, <3>1
    <3> QED
      BY <2>4, <2>5, <3>1, <3>2
  <2>12. SparesNics
    <3>1. SUFFICES ASSUME NEW x \in D \cup home, x[2] \in Nic,
                          x[1] = Default => HasDefaultNamespaceConfig(cfg),
                          x[1] # Default => x[1] \in cfg.netns
                   PROVE  FALSE
      BY <2>1 DEF SparesNics
    <3>2. x[1] = ns
      BY <2>4, <2>5, <3>1
    <3> QED
      BY <2>3, <2>8, <3>1, <3>2
  <2> QED
    BY <2>9, <2>10, <2>11, <2>12 DEF Careful
<1> QED
  BY <1>3, <1>4, <1>5
-----------------------------------------------------------------------------
(* Set-up.                                                                 *)

\* The ways a step of the set-up ends: it leaves the record and the
\* configuration alone, and the removals it has not got to.
Onward ==
    /\ UNCHANGED <<file, cfg>>
    /\ \/ pc' = "idle"
       \/ /\ work'.addr \subseteq work.addr /\ work'.route \subseteq work.route
          /\ work'.dev \subseteq work.dev /\ work'.ns \subseteq work.ns
          /\ work'.sid \subseteq work.sid /\ work'.ndp \subseteq work.ndp

\* Going on, finishing a link and returning an error are such ends.
LEMMA OnwardLemma ==
    ASSUME Tracked, NEW l,
           \/ \E next \in Control : GoTo(next)
           \/ Finish(l)
           \/ \E unable \in BOOLEAN : Abort(unable)
           \/ Stop
    PROVE  Onward
<1>1. CASE \E next \in Control : GoTo(next)
  BY <1>1 DEF GoTo, Onward
<1>2. CASE Finish(l)
  <2>1. work \in WorkType /\ Take("setup", l) /\ UNCHANGED <<file, cfg>>
    BY <1>2 DEF Tracked, TypeOK, Finish
  <2> QED
    BY <2>1, TakeLemma DEF Onward, Stage
<1>3. CASE (\E unable \in BOOLEAN : Abort(unable)) \/ Stop
  BY <1>3 DEF Abort, Stop, Onward
<1> QED
  BY <1>1, <1>2, <1>3

\* Such a step keeps the work list within the difference of the records.
LEMMA OnwardAgenda ==
    ASSUME Grounded, pc # "idle", Onward
    PROVE  Agenda' /\ UNCHANGED file
<1>1. CASE pc' = "idle"
  BY <1>1 DEF Agenda, Onward
<1>2. CASE pc' # "idle"
  BY <1>2, AgendaLemma DEF Onward
<1> QED
  BY <1>1, <1>2

\* A step that leaves links and stack as they are and deletes no item.
LEMMA SetupQuiet ==
    ASSUME Grounded, pc # "idle", Onward,
           kernel'.links = kernel.links, kernel'.stack = kernel.stack,
           kernel.items \subseteq kernel'.items
    PROVE  Grounded' /\ Careful
  BY OnwardAgenda, StackLemma, QuietLemma

\* Adding items leaves links and stack as they are.
LEMMA AddItemsParts ==
    ASSUME NEW k \in KernelType, NEW S
    PROVE  /\ AddItems(k, S).links = k.links /\ AddItems(k, S).stack = k.stack
           /\ AddItems(k, S).items = k.items \cup S
  BY DEF AddItems, KernelType

\* So does enslaving.
LEMMA SetMasterParts ==
    ASSUME NEW k \in KernelType, NEW S, NEW m
    PROVE  /\ SetMaster(k, S, m).links = k.links /\ SetMaster(k, S, m).stack = k.stack
           /\ SetMaster(k, S, m).items = k.items
  BY DEF SetMaster, KernelType

\* So does creating a namespace.
LEMMA CreateNetnsParts ==
    ASSUME NEW k \in KernelType, NEW ns
    PROVE  /\ CreateNetns(k, ns).links = k.links /\ CreateNetns(k, ns).stack = k.stack
           /\ CreateNetns(k, ns).items = k.items
  BY DEF CreateNetns, KernelType

\* A device is created: it may be stacked on others, and is no NIC.
LEMMA CreateCareful ==
    ASSUME Tracked, Grounded, NEW l \in Links(cfg), pc = "create", Create(l)
    PROVE  Grounded' /\ Careful
<1> DEFINE b == Birth(l)
<1>0. /\ kernel \in KernelType /\ cfg \in Config
      /\ b \in Link /\ b[2] \notin Nic
      /\ \A p \in FarBirth(l) : p[2] \notin Nic
  <2>1. /\ kernel \in KernelType /\ cfg \in Config
        /\ b \in Link /\ b[2] = l[2] /\ l[2] \notin Nic
    BY SetupFacts DEF Create, Tracked, TypeOK
  <2>2. \A p \in Far(l) : p[2] \notin Nic
    BY <2>1, ConfigAssumption DEF Far
  <2> QED
    BY <2>1, <2>2 DEF FarBirth
<1>1. Agenda' /\ UNCHANGED file
  <2>1. AfterBirth(l) \in Control /\ GoTo(AfterBirth(l))
    BY DEF AfterBirth, Control, Create
  <2> QED
    BY <2>1, OnwardLemma, OnwardAgenda
<1> DEFINE Sound == /\ kernel.links \subseteq kernel'.links
                    /\ kernel'.items = kernel.items
                    /\ \A e \in kernel'.stack \ kernel.stack :
                           /\ e[1] \in kernel'.links /\ e[2] \in kernel'.links
                           /\ e[1][2] \notin Nic
<1>2. Sound
  <2>1. kernel' \in Created(l) /\ CanCreate(l)
    BY DEF Create
  <2>2. CASE cfg.sect[l] \in PairSection
    <3>1. PICK p \in FarBirth(l) : kernel' = AddVethPair(kernel, b, p)
      BY <2>1, <2>2 DEF Created
    <3> HIDE DEF b
    <3>2. /\ kernel'.links = kernel.links \cup {b, p} /\ kernel'.items = kernel.items
          /\ kernel'.stack = kernel.stack \cup {<<b, p>>, <<p, b>>}
      BY <1>0, <3>1 DEF AddVethPair, KernelType
    <3> QED
      BY <1>0, <3>2
  <2>3. CASE cfg.sect[l] \notin PairSection
    <3>1. PICK P \in SUBSET kernel.links : kernel' = LinkAdd(kernel, b, P)
      BY <2>1, <2>3 DEF Created, CanCreate
    <3> HIDE DEF b
    <3>2. /\ kernel'.links = kernel.links \cup {b} /\ kernel'.items = kernel.items
          /\ kernel'.stack = kernel.stack \cup ({b} \X P)
      BY <1>0, <3>1 DEF LinkAdd, KernelType
    <3> QED
      BY <1>0, <3>2
  <2> QED
    BY <2>2, <2>3
<1>3. StackSound'
  BY <1>2 DEF Grounded, StackSound
<1>4. Grounded'
  BY <1>1, <1>3 DEF Grounded
<1> QED
  BY <1>2, <1>4, QuietLemma

\* A link moves out of the default namespace, to a configured link or to the
\* far end of a veth: it alone goes, under the same name.
LEMMA MovedCareful ==
    ASSUME Tracked, Grounded, pc # "idle", Onward,
           NEW k \in KernelType, k.links = kernel.links,
           k.stack = kernel.stack, k.items = kernel.items,
           NEW l \in Link, CanMove(l), Moved(k, l),
           l \in Links(cfg) \/ \E e \in cfg.peer : e[2] = l
    PROVE  Grounded' /\ Careful
<1> DEFINE from == InDefault(l)
<1>0. /\ from \in Link /\ from[1] = Default /\ from[2] = l[2]
      /\ from \in kernel.links /\ l \notin kernel.links
  BY DEF InDefault, Link, NS, CanMove
<1>1. /\ kernel'.links = (kernel.links \ {from}) \cup {l}
      /\ kernel'.items = {p \in kernel.items : p[1] # from}
      /\ \A e \in kernel'.stack : \E d \in kernel.stack :
             /\ e[1] = (IF d[1] = from THEN l ELSE d[1])
             /\ e[2] = (IF d[2] = from THEN l ELSE d[2])
  <2>1. kernel' = SetLinkNetns(k, from, l)
    BY DEF Moved
  <2> HIDE DEF from
  <2> QED
    BY <1>0, <2>1, SetLinkNetnsParts
<1> HIDE DEF from
<1>2. Grounded'
  <2>1. StackSound'
    BY <1>0, <1>1 DEF Grounded, StackSound
  <2> QED
    BY <2>1, OnwardAgenda DEF Grounded
<1>3. TakesRecorded
  BY <1>0, <1>1 DEF TakesRecorded
<1>4. SparesKept
  <2>1. Shadowed(cfg, from)
    BY <1>0 DEF Shadowed
  <2> QED
    BY <1>1, <2>1 DEF SparesKept
<1>5. SparesNics
  BY <1>0, <1>1 DEF SparesNics
<1> QED
  BY <1>2, <1>3, <1>4, <1>5 DEF Careful

\* Every step that sets up a link.
LEMMA SetupCareful ==
    ASSUME Tracked, Grounded, Setup
    PROVE  Grounded' /\ Careful
<1>1. PICK l \in Links(cfg) :
        \/ pc = "create" /\ (Present(l) \/ AbsentNic(l) \/ Reuse(l)
                                 \/ Create(l) \/ CreateFails(l))
        \/ pc = "move" /\ Move(l)
        \/ pc = "peer" /\ MovePeer(l)
        \/ pc = "config" /\ (Configure(l) \/ ConfigureFails(l))
        \/ pc = "peerConfig" /\ ConfigurePeer(l)
  BY DEF Setup
<1>2. pc # "idle" /\ kernel \in KernelType /\ cfg \in Config /\ l \in Link
  BY <1>1, ConfigAssumption DEF Tracked, TypeOK
<1> DEFINE Same == /\ kernel'.links = kernel.links /\ kernel'.stack = kernel.stack
                   /\ kernel.items \subseteq kernel'.items
<1>3. CASE pc = "create" /\ Create(l)
  BY <1>3, CreateCareful
<1>4. CASE pc = "create" /\ (Present(l) \/ AbsentNic(l) \/ Reuse(l) \/ CreateFails(l))
  <2>1. kernel' = kernel
    BY <1>4 DEF Present, AbsentNic, Reuse, CreateFails
  <2>2. /\ AfterBirth(l) \in Control /\ "config" \in Control /\ "move" \in Control
        /\ (~CanCreate(l)) \in BOOLEAN
    BY DEF AfterBirth, Control
  <2>3. \/ \E next \in Control : GoTo(next)
        \/ Finish(l)
        \/ \E unable \in BOOLEAN : Abort(unable)
    BY <1>4, <2>2 DEF Present, AbsentNic, Reuse, CreateFails
  <2> QED
    BY <1>2, <2>1, <2>3, OnwardLemma, SetupQuiet
<1>5. CASE pc = "move" /\ Move(l)
  <2>1. CASE UNCHANGED kernel /\ Abort(~CanMove(l))
    <3>1. (~CanMove(l)) \in BOOLEAN
      OBVIOUS
    <3> QED
      BY <1>2, <2>1, <3>1, OnwardLemma, SetupQuiet
  <2>2. CASE /\ CanMove(l) /\ Moved(kernel, l)
             /\ GoTo(IF cfg.sect[l] = "veth" THEN "peer" ELSE "config")
    <3>1. (IF cfg.sect[l] = "veth" THEN "peer" ELSE "config") \in Control
      BY DEF Control
    <3>2. Onward
      BY <2>2, <3>1, OnwardLemma
    <3> QED
      BY <1>2, <2>2, <3>2, MovedCareful
  <2> QED
    BY <1>5, <2>1, <2>2 DEF Move
<1>6. CASE pc = "peer" /\ MovePeer(l)
  <2>1. PICK p \in Far(l) :
          \/ GoTo("config") /\ UNCHANGED kernel
          \/ /\ CanMove(p) /\ Moved(CreateNetns(kernel, p[1]), p) /\ GoTo("config")
             /\ p[1] # Default
          \/ /\ kernel' \in {kernel, CreateNetns(kernel, p[1])}
             /\ Abort(~CanMove(p) /\ p[1] \in kernel'.netns)
    BY <1>6 DEF MovePeer
  <2>2. p \in Link /\ <<l, p>> \in cfg.peer /\ "config" \in Control
    BY DEF Far, Control
  <2>3. CASE GoTo("config") /\ UNCHANGED kernel
    BY <1>2, <2>2, <2>3, OnwardLemma, SetupQuiet
  <2>4. CASE /\ CanMove(p) /\ Moved(CreateNetns(kernel, p[1]), p) /\ GoTo("config")
             /\ p[1] # Default
    <3> DEFINE k == CreateNetns(kernel, p[1])
    <3>1. p[1] \in NetNS
      BY <2>2, <2>4 DEF Link, NS
    <3>2. /\ k \in KernelType /\ k.links = kernel.links
          /\ k.stack = kernel.stack /\ k.items = kernel.items
      BY <1>2, <3>1, CreateNetnsLemma, CreateNetnsParts
    <3>3. Onward
      BY <2>2, <2>4, OnwardLemma
    <3>4. \E e \in cfg.peer : e[2] = p
      BY <2>2
    <3> HIDE DEF k
    <3> QED
      BY <1>2, <2>2, <2>4, <3>2, <3>3, <3>4, MovedCareful DEF k
  <2>5. CASE /\ kernel' \in {kernel, CreateNetns(kernel, p[1])}
             /\ Abort(~CanMove(p) /\ p[1] \in kernel'.netns)
    <3>1. (~CanMove(p) /\ p[1] \in kernel'.netns) \in BOOLEAN
      OBVIOUS
    <3>2. Onward
      BY <2>5, <3>1, OnwardLemma
    <3>3. Same
      BY <1>2, <2>5, CreateNetnsParts
    <3> QED
      BY <1>2, <3>2, <3>3, SetupQuiet
  <2> QED
    BY <2>1, <2>3, <2>4, <2>5
<1>7. CASE pc = "config" /\ Configure(l)
  <2>1. PICK F, G : kernel' = SetMaster(AddItems(kernel, Wanted(l) \ F), G, l)
    BY <1>7 DEF Configure
  <2>2. AddItems(kernel, Wanted(l) \ F) \in KernelType
    <3>1. Wanted(l) \ F \in SUBSET (Link \X Item)
      BY <1>2, ConfigAssumption DEF Wanted
    <3> QED
      BY <1>2, <3>1, ItemsLemma
  <2>3. Same
    <3> DEFINE k == AddItems(kernel, Wanted(l) \ F)
    <3>1. /\ k.links = kernel.links /\ k.stack = kernel.stack
          /\ kernel.items \subseteq k.items
      BY <1>2, AddItemsParts
    <3>2. k \in KernelType /\ kernel' = SetMaster(k, G, l)
      BY <2>1, <2>2
    <3> HIDE DEF k
    <3> QED
      BY <3>1, <3>2, SetMasterParts
  <2>4. Onward
    <3>1. AfterConfig(l)
      BY <1>7 DEF Configure
    <3> QED
      BY <3>1, OnwardLemma DEF AfterConfig, Control
  <2> QED
    BY <1>2, <2>3, <2>4, SetupQuiet
<1>8. CASE pc = "config" /\ ConfigureFails(l)
  <2>1. \/ kernel' = SetMaster(kernel, Members(l) \cap kernel.links, l)
        \/ kernel' = AddItems(kernel, {q \in Wanted(l) : q[2] \in Proxy})
        \/ kernel' = kernel
    BY <1>8 DEF ConfigureFails
  <2>2. Same
    <3>1. CASE kernel' = SetMaster(kernel, Members(l) \cap kernel.links, l)
      BY <1>2, <3>1, SetMasterParts
    <3>2. CASE kernel' = AddItems(kernel, {q \in Wanted(l) : q[2] \in Proxy})
      BY <1>2, <3>2, AddItemsParts
    <3> QED
      BY <2>1, <3>1, <3>2
  <2>3. (l \notin kernel.links) \in BOOLEAN
    OBVIOUS
  <2>4. Finish(l) \/ \E unable \in BOOLEAN : Abort(unable)
    BY <1>8, <2>3 DEF ConfigureFails
  <2> QED
    BY <1>2, <2>2, <2>4, OnwardLemma, SetupQuiet
<1>9. CASE pc = "peerConfig" /\ ConfigurePeer(l)
  <2>1. PICK p \in Far(l) :
          \/ (\E F : kernel' = AddItems(kernel, Wanted(p) \ F)) /\ Finish(l)
          \/ kernel' = kernel /\ Abort(p \notin kernel.links)
    BY <1>9 DEF ConfigurePeer
  <2>2. Same
    <3>1. CASE \E F : kernel' = AddItems(kernel, Wanted(p) \ F)
      <4>1. PICK F : kernel' = AddItems(kernel, Wanted(p) \ F)
        BY <3>1
      <4> QED
        BY <1>2, <4>1, AddItemsParts
    <3> QED
      BY <2>1, <3>1
  <2>3. (p \notin kernel.links) \in BOOLEAN
    OBVIOUS
  <2>4. Finish(l) \/ \E unable \in BOOLEAN : Abort(unable)
    BY <2>1, <2>3
  <2> QED
    BY <1>2, <2>2, <2>4, OnwardLemma, SetupQuiet
<1> QED
  BY <1>1, <1>3, <1>4, <1>5, <1>6, <1>7, <1>8, <1>9
-----------------------------------------------------------------------------
(* All steps.                                                              *)

\* A machine that has just booted, and no record.
LEMMA GroundedInit ==
    ASSUME Init
    PROVE  Grounded
<1>1. Agenda
  BY DEF Init, Agenda
<1>2. StackSound
  BY ApplyAssumption DEF Init, StackSound
<1> QED
  BY <1>1, <1>2 DEF Init, Grounded, NewState

\* Load draws the work list up from the difference of the records.
LEMMA LoadCareful ==
    ASSUME Tracked, Grounded, NEW c \in Config, Load(c)
    PROVE  Grounded' /\ Careful
<1> DEFINE new == buildStateFromConfig(c)
           diff == ComputeDiff(file, new)
<1>1. /\ pc = "idle" /\ kernel' = kernel /\ file' = file /\ cfg' = c
      /\ work' = [addr |-> diff.addrToRemove, route |-> diff.routeToRemove,
                  dev |-> diff.devToRemove, ns |-> diff.nsToRemove \ {Default},
                  sid |-> SRv6Orphans(file, new), ndp |-> NDProxyOrphans(file, new),
                  mkns |-> c.netns, setup |-> Links(c)]
  BY DEF Load
<1>2. /\ diff.addrToRemove = ItemsToRemove(file, new, Addr)
      /\ diff.routeToRemove = ItemsToRemove(file, new, RouteText)
      /\ diff.devToRemove = DevicesToRemove(file, new)
      /\ diff.nsToRemove = file.ns \ new.ns
  BY DEF ComputeDiff
<1> HIDE DEF diff
<1>3. Agenda'
  BY <1>1, <1>2 DEF Agenda
<1>4. Grounded'
  BY <1>1, <1>3, StackLemma
<1> QED
  BY <1>1, <1>4, AtRestLemma

\* Deleting a namespace, by destroy too, keeps the stack sound.
LEMMA DestroyCareful ==
    ASSUME Tracked, Grounded, NEW ns \in NetNS, Destroy(ns)
    PROVE  Grounded' /\ Careful
<1>1. kernel \in KernelType /\ pc = "idle" /\ pc' = "idle" /\ file' = file
  BY DEF Tracked, TypeOK, Destroy
<1> DEFINE inside == {l \in kernel.links : l[1] = ns}
           home == {l \in inside : l[2] \in Hardware}
           D == Doomed(kernel, inside \ home) \cup home
           back == {InDefault(l) : l \in home}
<1>2. /\ kernel'.stack = Without(kernel.stack, D)
      /\ kernel'.links = (kernel.links \ D) \cup back
  BY <1>1, DeleteNetnsParts DEF Destroy
<1> HIDE DEF D, back
<1>3. StackSound'
  BY <1>2 DEF Grounded, StackSound, Without
<1>4. Grounded'
  BY <1>1, <1>3 DEF Grounded, Agenda
<1> QED
  BY <1>1, <1>4, AtRestLemma

\* One case per action of Next.
LEMMA CarefulStep ==
    ASSUME Tracked, Grounded, [Next]_vars
    PROVE  Grounded' /\ Careful
<1>0. kernel \in KernelType /\ cfg \in Config
  BY DEF Tracked, TypeOK
<1>1. CASE \E c \in Config : Load(c)
  BY <1>1, LoadCareful
<1>2. CASE RemoveAddress \/ RemoveRoute \/ RemoveSID \/ RemoveProxy
  BY <1>2, ItemRemovals
<1>3. CASE RemoveDevice \/ RemoveNetns
  BY <1>3, DeviceRemoval, NetnsRemoval
<1>4. CASE MakeNetns
  <2>1. pc = "run"
    BY <1>4 DEF MakeNetns, At
  <2>2. PICK ns : \/ /\ kernel' = CreateNetns(kernel, ns)
                     /\ Take("mkns", ns) /\ UNCHANGED <<file, cfg>>
                  \/ kernel' = kernel /\ Abort(FALSE)
    BY <1>4 DEF MakeNetns
  <2>3. CASE kernel' = CreateNetns(kernel, ns) /\ Take("mkns", ns) /\ UNCHANGED <<file, cfg>>
    <3>1. work \in WorkType /\ "mkns" \in Stage
      BY DEF Tracked, TypeOK, Stage
    <3>2. Onward
      BY <2>3, <3>1, TakeLemma DEF Onward
    <3> QED
      BY <1>0, <2>1, <2>3, <3>2, CreateNetnsParts, SetupQuiet
  <2>4. CASE kernel' = kernel /\ Abort(FALSE)
    <3>1. Onward
      BY <2>4, OnwardLemma
    <3> QED
      BY <2>1, <2>4, <3>1, SetupQuiet
  <2> QED
    BY <2>2, <2>3, <2>4
<1>5. CASE SetupNext
  <2>1. pc = "run" /\ kernel' = kernel /\ Onward
    BY <1>5 DEF SetupNext, At, Onward
  <2> QED
    BY <2>1, SetupQuiet
<1>6. CASE Setup
  BY <1>6, SetupCareful
<1>7. CASE Save \/ SaveFails \/ TornSave
  <2>1. /\ pc' = "idle" /\ kernel' = kernel
        /\ file' \in {file, NewState, buildStateFromConfig(cfg)}
    BY <1>7 DEF Save, SaveFails, TornSave
  <2>2. \A l \in file'.own : l[2] \notin Nic
    BY <1>0, <2>1, RecordParts DEF Grounded, NewState
  <2>3. Agenda' /\ StackSound'
    BY <2>1 DEF Agenda, Grounded, StackSound
  <2> QED
    BY <2>1, <2>2, <2>3, AtRestLemma DEF Grounded
<1>8. CASE Interrupt
  <2>1. pc # "idle" /\ kernel' = kernel /\ Onward
    BY <1>8, OnwardLemma DEF Interrupt
  <2> QED
    BY <2>1, SetupQuiet
<1>9. CASE Reboot
  <2>1. pc' = "idle" /\ kernel' = Boot /\ file' = file /\ Boot.stack = {}
    BY <1>9, ApplyAssumption DEF Reboot
  <2>2. Agenda' /\ StackSound'
    BY <2>1 DEF Agenda, StackSound
  <2> QED
    BY <2>1, <2>2, AtRestLemma DEF Grounded
<1>10. CASE \E ns \in NetNS : Destroy(ns)
  BY <1>10, DestroyCareful
<1>11. CASE UNCHANGED vars
  <2>1. kernel' = kernel /\ file' = file /\ pc' = pc /\ cfg' = cfg /\ work' = work
    BY <1>11 DEF vars
  <2>2. Agenda' /\ StackSound'
    BY <2>1 DEF Grounded, Agenda, StackSound
  <2> QED
    BY <2>1, <2>2, QuietLemma DEF Grounded
<1> QED
  BY <1>1, <1>2, <1>3, <1>4, <1>5, <1>6, <1>7, <1>8, <1>9, <1>10, <1>11 DEF Next, Step

\* At every step of Apply what is left to remove is a difference of the two
\* records, and no NIC is recorded as netcfg's or destroyed with another link.
THEOREM GroundedInvariant == Spec => []Grounded
<1>1. Init => Tracked /\ Grounded
  BY InitLemma, GroundedInit
<1>2. (Tracked /\ Grounded) /\ [Next]_vars => (Tracked /\ Grounded)'
  BY NextLemma, CarefulStep
<1> QED
  BY <1>1, <1>2, PTL DEF Spec

\* Apply takes an item from a link that stays only if the record has it and the
\* configuration does not, gateways apart.
THEOREM OnlyRecordedGoes == Spec => RemovalsAreRecorded
<1>1. Tracked /\ Grounded /\ [Next]_vars => [TakesRecorded]_vars
  BY CarefulStep DEF Careful
<1> QED
  BY <1>1, TrackedInvariant, GroundedInvariant, PTL DEF Spec, RemovalsAreRecorded

\* A device that both records have goes only with one it is stacked on, or to
\* make room for its namesake.
THEOREM KeptLinksStay == Spec => KeptLinks
<1>1. Tracked /\ Grounded /\ [Next]_vars => [SparesKept]_vars
  BY CarefulStep DEF Careful
<1> QED
  BY <1>1, TrackedInvariant, GroundedInvariant, PTL DEF Spec, KeptLinks

\* No Apply that keeps the namespace of an interface of the machine makes it
\* disappear.
THEOREM NicsStay == Spec => NicsKept
<1>1. Tracked /\ Grounded /\ [Next]_vars => [SparesNics]_vars
  BY CarefulStep DEF Careful
<1> QED
  BY <1>1, TrackedInvariant, GroundedInvariant, PTL DEF Spec, NicsKept
==============================================================================
