----------------------------- MODULE ApplyProofs -----------------------------
(***************************************************************************)
(* Proofs about Apply for every set of namespaces, devices, items and      *)
(* configurations, and every number of faults.                             *)
(***************************************************************************)
EXTENDS Apply, TLAPS

-----------------------------------------------------------------------------
(* The requests of the kernel keep its type; what each does to the links   *)
(* that exist and to those netcfg made.                                    *)

\* Deleting a set of links (LinkDel, DeleteNetns).
LEMMA DeleteLemma ==
    ASSUME NEW k \in KernelType, NEW D
    PROVE  /\ Delete(k, D) \in KernelType
           /\ Delete(k, D).links = k.links \ D
           /\ Delete(k, D).made = k.made \ D
           /\ Delete(k, D).netns = k.netns
  BY DEF Delete, KernelType, Without

\* Deleting a link removes it from the links netcfg made.
LEMMA LinkDelLemma ==
    ASSUME NEW k \in KernelType, NEW l \in k.links, k.made \subseteq k.links
    PROVE  /\ LinkDel(k, l) \in KernelType
           /\ LinkDel(k, l).made \subseteq k.made \ {l}
           /\ LinkDel(k, l).made \subseteq LinkDel(k, l).links
<1> DEFINE D == Doomed(k, {l})
<1>1. l \in D
  BY DEF Doomed
<1> HIDE DEF D
<1>2. /\ Delete(k, D) \in KernelType
      /\ Delete(k, D).links = k.links \ D
      /\ Delete(k, D).made = k.made \ D
  BY DeleteLemma
<1>3. LinkDel(k, l) = Delete(k, D)
  BY DEF LinkDel, D
<1> QED
  BY <1>1, <1>2, <1>3

\* Deleting a namespace makes no link netcfg's.
LEMMA DeleteNetnsLemma ==
    ASSUME NEW k \in KernelType, NEW ns \in NetNS, k.made \subseteq k.links
    PROVE  /\ DeleteNetns(k, ns) \in KernelType
           /\ DeleteNetns(k, ns).made \subseteq k.made
           /\ DeleteNetns(k, ns).made \subseteq DeleteNetns(k, ns).links
<1> DEFINE inside == {l \in k.links : l[1] = ns}
           home == {l \in inside : l[2] \in Hardware}
           rest == Delete(k, Doomed(k, inside \ home) \cup home)
<1>1. /\ rest \in KernelType
      /\ rest.made \subseteq k.made
      /\ rest.made \subseteq rest.links
  BY DeleteLemma
<1>2. {InDefault(l) : l \in home} \subseteq Link
  BY DEF InDefault, Link, NS, KernelType
<1>3. DeleteNetns(k, ns) = [rest EXCEPT !.netns = @ \ {ns},
                                       !.links = @ \cup {InDefault(l) : l \in home}]
  BY DEF DeleteNetns
<1> HIDE DEF rest, home
<1> QED
  BY <1>1, <1>2, <1>3 DEF KernelType

\* Creating a device, alone or with its far end.
LEMMA LinkAddLemma ==
    ASSUME NEW k \in KernelType, NEW l \in Link, NEW P \in SUBSET Link
    PROVE  /\ LinkAdd(k, l, P) \in KernelType
           /\ LinkAdd(k, l, P).made = k.made \cup {l}
           /\ LinkAdd(k, l, P).links = k.links \cup {l}
  BY DEF LinkAdd, KernelType

\* AddVethPair makes the near end and brings both ends into being.
LEMMA AddVethPairLemma ==
    ASSUME NEW k \in KernelType, NEW l \in Link, NEW p \in Link
    PROVE  /\ AddVethPair(k, l, p) \in KernelType
           /\ AddVethPair(k, l, p).made = k.made \cup {l}
           /\ AddVethPair(k, l, p).links = k.links \cup {l, p}
<1>1. {<<l, p>>, <<p, l>>} \subseteq Link \X Link
  OBVIOUS
<1>2. /\ k.stack \cup {<<l, p>>, <<p, l>>} \subseteq Link \X Link
      /\ k.links \cup {l, p} \subseteq Link
      /\ k.made \cup {l} \subseteq Link
  BY <1>1 DEF KernelType
<1> QED
  BY <1>2 DEF AddVethPair, KernelType

\* Moving a link renames it among the links netcfg made.
LEMMA SetLinkNetnsLemma ==
    ASSUME NEW k \in KernelType, NEW l \in Link, NEW m \in Link,
           k.made \subseteq k.links
    PROVE  /\ SetLinkNetns(k, l, m) \in KernelType
           /\ SetLinkNetns(k, l, m).made \subseteq (k.made \ {l}) \cup {m}
           /\ l \notin k.made => SetLinkNetns(k, l, m).made = k.made
           /\ SetLinkNetns(k, l, m).made \subseteq SetLinkNetns(k, l, m).links
<1> DEFINE to(x) == IF x = l THEN m ELSE x
           links == {to(x) : x \in k.links}
           items == {p \in k.items : p[1] # l}
           stack == {<<to(e[1]), to(e[2])>> : e \in k.stack}
           ports == Without(k.ports, {l})
           made == {to(x) : x \in k.made}
<1>1. /\ links \subseteq Link
      /\ made \subseteq Link
      /\ items \subseteq Link \X Item
      /\ ports \subseteq Link \X Link
  BY DEF KernelType, Without
<1>2. stack \subseteq Link \X Link
  <2>1. \A e \in k.stack : e[1] \in Link /\ e[2] \in Link
    BY DEF KernelType
  <2>2. \A x \in Link : to(x) \in Link
    OBVIOUS
  <2> QED
    BY <2>1, <2>2
<1>3. /\ made \subseteq links
      /\ made \subseteq (k.made \ {l}) \cup {m}
      /\ l \notin k.made => made = k.made
  OBVIOUS
<1>4. SetLinkNetns(k, l, m) =
        [k EXCEPT !.links = links, !.items = items, !.stack = stack,
                  !.ports = ports, !.made = made]
  BY DEF SetLinkNetns
<1> HIDE DEF links, items, stack, ports, made
<1>5. SetLinkNetns(k, l, m) =
        [netns |-> k.netns, links |-> links, items |-> items, stack |-> stack,
         ports |-> ports, made |-> made]
  BY <1>4 DEF KernelType
<1>6. SetLinkNetns(k, l, m) \in KernelType
  BY <1>1, <1>2, <1>5 DEF KernelType
<1>7. SetLinkNetns(k, l, m).made = made /\ SetLinkNetns(k, l, m).links = links
  BY <1>5
<1> QED
  BY <1>3, <1>6, <1>7

\* A new namespace holds no link yet.
LEMMA CreateNetnsLemma ==
    ASSUME NEW k \in KernelType, NEW ns \in NetNS
    PROVE  /\ CreateNetns(k, ns) \in KernelType
           /\ CreateNetns(k, ns).made = k.made
           /\ CreateNetns(k, ns).links = k.links
  BY DEF CreateNetns, KernelType

\* Items and masters are beside the point.
LEMMA ItemsLemma ==
    ASSUME NEW k \in KernelType, NEW S \in SUBSET (Link \X Item)
    PROVE  /\ AddItems(k, S) \in KernelType
           /\ AddItems(k, S).made = k.made
           /\ AddItems(k, S).links = k.links
  BY DEF AddItems, KernelType

\* Deleting items leaves every link where it is.
LEMMA DeleteItemsLemma ==
    ASSUME NEW k \in KernelType, NEW S
    PROVE  /\ DeleteItems(k, S) \in KernelType
           /\ DeleteItems(k, S).made = k.made
           /\ DeleteItems(k, S).links = k.links
  BY DEF DeleteItems, KernelType

\* Enslaving leaves every link where it is.
LEMMA SetMasterLemma ==
    ASSUME NEW k \in KernelType, NEW S \in SUBSET Link, NEW m \in Link
    PROVE  /\ SetMaster(k, S, m) \in KernelType
           /\ SetMaster(k, S, m).made = k.made
           /\ SetMaster(k, S, m).links = k.links
  BY DEF SetMaster, KernelType
-----------------------------------------------------------------------------
(* Records and stages.                                                     *)

\* A configuration builds a well-formed record, whose system devices are
\* exactly the configured NICs.
LEMMA BuildLemma ==
    ASSUME NEW c \in Config
    PROVE  /\ buildStateFromConfig(c) \in State
           /\ buildStateFromConfig(c).own =
                {l \in Links(c) : c.sect[l] \notin SystemSection \cup UntrackedSection}
           /\ \A l \in buildStateFromConfig(c).sys : l[2] \in Nic
<1> DEFINE ns == c.netns \cup (IF HasDefaultNamespaceConfig(c) THEN {Default} ELSE {})
           own == {l \in Links(c) : c.sect[l] \notin SystemSection \cup UntrackedSection}
           item == {Record(p) : p \in {q \in c.item : Recorded(c, q)}}
<1>1. ns \subseteq NS /\ own \subseteq Link /\ SystemLinks(c) \subseteq Link
  BY ConfigAssumption DEF NS, SystemLinks
<1>2. item \subseteq Link \X Rec
  <2>1. \A p \in Link \X Item : Record(p) \in Link \X Rec
    BY RouteAssumption DEF Record, Item, Rec
  <2> QED
    BY <2>1, ConfigAssumption
<1>3. \A l \in SystemLinks(c) : l[2] \in Nic
  BY ConfigAssumption DEF SystemLinks
<1>4. buildStateFromConfig(c) = [ns |-> ns, own |-> own, sys |-> SystemLinks(c), item |-> item]
  BY DEF buildStateFromConfig
<1> HIDE DEF ns, own, item
<1>5. buildStateFromConfig(c) \in State
  BY <1>1, <1>2, <1>4 DEF State
<1>6. buildStateFromConfig(c).own = own /\ buildStateFromConfig(c).sys = SystemLinks(c)
  BY <1>4
<1> QED
  BY <1>3, <1>5, <1>6 DEF own

\* The work list that Load draws up is well-formed, and removes every
\* recorded device of netcfg that the new record does not name.
LEMMA DiffLemma ==
    ASSUME NEW old \in State, NEW new \in State
    PROVE  LET d == ComputeDiff(old, new)
           IN  /\ d.addrToRemove \in SUBSET (Link \X Rec)
               /\ d.routeToRemove \in SUBSET (Link \X Rec)
               /\ d.devToRemove \in SUBSET Link
               /\ d.nsToRemove \ {Default} \in SUBSET NetNS
               /\ SRv6Orphans(old, new) \in SUBSET (Link \X Rec)
               /\ NDProxyOrphans(old, new) \in SUBSET (Link \X Rec)
               /\ old.own \subseteq d.devToRemove \cup new.own \cup new.sys
<1>1. /\ ItemsToRemove(old, new, Addr) \in SUBSET (Link \X Rec)
      /\ ItemsToRemove(old, new, RouteText) \in SUBSET (Link \X Rec)
      /\ SRv6Orphans(old, new) \in SUBSET (Link \X Rec)
      /\ NDProxyOrphans(old, new) \in SUBSET (Link \X Rec)
  BY DEF ItemsToRemove, SRv6Orphans, NDProxyOrphans, State
<1>2. /\ DevicesToRemove(old, new) \in SUBSET Link
      /\ old.own \subseteq DevicesToRemove(old, new) \cup new.own \cup new.sys
  BY DEF DevicesToRemove, Devices, State
<1>3. (old.ns \ new.ns) \ {Default} \in SUBSET NetNS
  BY DEF State, NS
<1> QED
  BY <1>1, <1>2, <1>3 DEF ComputeDiff

\* Once the set-up has begun there is no device left to remove.
LEMMA SetupStage ==
    ASSUME At("setup")
    PROVE  work.dev = {}
  BY DEF At, Stage, StageOrder

\* No two links have their turn at once: names are told apart by their order.
LEMMA TurnUnique ==
    ASSUME TypeOK, NEW l \in Links(cfg), NEW m \in Links(cfg), Turn(l), Turn(m)
    PROVE  l = m
<1>1. /\ l \in NS \X Dev /\ m \in NS \X Dev
      /\ cfg.sect[l] \in Section /\ cfg.sect[m] \in Section
  BY ConfigAssumption DEF TypeOK, Link
<1>2. ~Precedes(cfg, l, m) /\ ~Precedes(cfg, m, l)
  BY DEF Turn
<1>3. /\ NameOrder[l[1]] \in Nat /\ NameOrder[m[1]] \in Nat
      /\ NameOrder[l[2]] \in Nat /\ NameOrder[m[2]] \in Nat
  BY <1>1, ApplyAssumption
<1>4. l[1] = m[1]
  <2>1. NameOrder[l[1]] = NameOrder[m[1]]
    BY <1>2, <1>3 DEF Precedes
  <2> QED
    BY <1>1, <2>1, ApplyAssumption
<1>5. cfg.sect[l] = cfg.sect[m]
  <2>1. /\ SectionOrder[cfg.sect[l]] \in Nat /\ SectionOrder[cfg.sect[m]] \in Nat
        /\ SectionOrder[cfg.sect[l]] = SectionOrder[cfg.sect[m]] => cfg.sect[l] = cfg.sect[m]
    BY <1>1 DEF Section, SectionOrder
  <2> QED
    BY <1>2, <1>4, <2>1 DEF Precedes
<1>6. l[2] = m[2]
  <2>1. NameOrder[l[2]] = NameOrder[m[2]]
    BY <1>2, <1>3, <1>4, <1>5 DEF Precedes
  <2> QED
    BY <1>1, <2>1, ApplyAssumption
<1> QED
  BY <1>1, <1>4, <1>6
-----------------------------------------------------------------------------
(* Every step keeps the inductive invariant.                               *)

Ghosts == clean \in BOOLEAN /\ tainted \in BOOLEAN /\ faults \in 0 .. MaxFaults

\* Success, a warning, a fault or an error return: the counters stay in range.
LEMMA GhostsLemma ==
    ASSUME TypeOK,
           NoFault \/ Warn \/ Fault \/ (Spoil /\ UNCHANGED faults)
    PROVE  Ghosts'
<1>1. clean \in BOOLEAN /\ tainted \in BOOLEAN /\ faults \in 0 .. MaxFaults /\ MaxFaults \in Nat
  BY ApplyAssumption DEF TypeOK
<1>2. clean' \in BOOLEAN /\ tainted' \in BOOLEAN
  BY <1>1, Zenon DEF NoFault, Warn, Fault, Spoil
<1>3. faults' \in 0 .. MaxFaults
  BY <1>1, SMT DEF NoFault, Warn, Fault, Spoil
<1> QED
  BY <1>2, <1>3 DEF Ghosts

\* Apply at rest has nothing left to do, in particular no device to remove.
LEMMA NoWorkType == NoWork \in WorkType /\ NoWork.dev = {}
  BY DEF NoWork, WorkType

\* An error return or the death of Apply: whatever it made is excused.
LEMMA StopLemma ==
    ASSUME Tracked, Ghosts', Stop,
           kernel' \in KernelType, kernel'.made = kernel.made,
           kernel'.links = kernel.links
    PROVE  Tracked'
<1>1. TypeOK'
  BY NoWorkType DEF Tracked, TypeOK, Ghosts, Stop, Excuse, KernelType, Control
<1>2. MadeExist'
  BY DEF Tracked, MadeExist
<1>3. OldCover'
  BY DEF Tracked, OldCover, Stop, Excuse
<1>4. NewCover' /\ Phase'
  BY DEF NewCover, Phase, Stop
<1> QED
  BY <1>1, <1>2, <1>3, <1>4 DEF Tracked

\* An error return of Apply preserves Tracked.
LEMMA AbortLemma ==
    ASSUME Tracked, NEW unable \in BOOLEAN, Abort(unable),
           kernel' \in KernelType, kernel'.made = kernel.made,
           kernel'.links = kernel.links
    PROVE  Tracked'
<1>1. Ghosts'
  BY GhostsLemma DEF Abort, Tracked
<1> QED
  BY <1>1, StopLemma DEF Abort

\* Load, with the diff it computes, preserves Tracked: what netcfg made and the
\* new record does not list is due for removal.
LEMMA LoadLemma ==
    ASSUME Tracked, NEW c \in Config, Load(c)
    PROVE  Tracked'
<1> DEFINE new == buildStateFromConfig(c)
           diff == ComputeDiff(file, new)
<1>1. /\ file \in State
      /\ kernel \in KernelType
      /\ new \in State
      /\ \A l \in new.sys : l[2] \in Nic
  BY BuildLemma DEF Tracked, TypeOK
<1>2. /\ work' \in WorkType
      /\ file.own \subseteq work'.dev \cup new.own \cup new.sys
  <2>1. /\ diff.addrToRemove \in SUBSET (Link \X Rec)
        /\ diff.routeToRemove \in SUBSET (Link \X Rec)
        /\ diff.devToRemove \in SUBSET Link
        /\ diff.nsToRemove \ {Default} \in SUBSET NetNS
        /\ SRv6Orphans(file, new) \in SUBSET (Link \X Rec)
        /\ NDProxyOrphans(file, new) \in SUBSET (Link \X Rec)
        /\ file.own \subseteq diff.devToRemove \cup new.own \cup new.sys
    BY <1>1, DiffLemma
  <2>2. c.netns \in SUBSET NetNS /\ Links(c) \in SUBSET Link
    BY ConfigAssumption
  <2>3. work' = [addr |-> diff.addrToRemove, route |-> diff.routeToRemove,
                 dev |-> diff.devToRemove, ns |-> diff.nsToRemove \ {Default},
                 sid |-> SRv6Orphans(file, new), ndp |-> NDProxyOrphans(file, new),
                 mkns |-> c.netns, setup |-> Links(c)]
    BY DEF Load
  <2> HIDE DEF new, diff
  <2> QED
    BY <2>1, <2>2, <2>3 DEF WorkType
<1>3. /\ kernel' = kernel /\ file' = file /\ excused' = excused
      /\ pc = "idle" /\ pc' = "run" /\ cfg' = c /\ fresh' = {}
  BY DEF Load
<1>4. TypeOK'
  BY <1>2, <1>3 DEF Load, Tracked, TypeOK, Control
<1>5. MadeExist' /\ OldCover' /\ Phase'
  BY <1>3 DEF Tracked, MadeExist, OldCover, Phase
<1>6. NewCover'
  <2>1. kernel.made \subseteq file.own \cup excused
    BY <1>3 DEF Tracked, OldCover, Phase
  <2>2. \A l \in kernel.made : l \notin new.sys
    BY <1>1 DEF Tracked, MadeExist
  <2>3. kernel.made \subseteq new.own \cup excused \cup work'.dev
    BY <1>2, <2>1, <2>2
  <2> HIDE DEF new
  <2>4. buildStateFromConfig(cfg') = new
    BY <1>3 DEF new
  <2> QED
    BY <1>3, <2>3, <2>4 DEF NewCover
<1> QED
  BY <1>4, <1>5, <1>6 DEF Tracked

\* A stage of removals: no link becomes netcfg's, and a device leaves the work
\* list only when it is gone or excused.
LEMMA ShrinkLemma ==
    ASSUME Tracked, pc = "run", Ghosts',
           kernel' \in KernelType, kernel'.made \subseteq kernel.made,
           kernel'.made \subseteq kernel'.links,
           work' \in WorkType, NEW E,
           excused' = (excused \cup E) \cap kernel'.made,
           \A l \in kernel'.made : l \in work.dev => l \in work'.dev \cup E,
           UNCHANGED <<file, pc, cfg, fresh>>
    PROVE  Tracked'
<1>1. TypeOK'
  BY DEF Tracked, TypeOK, Ghosts, KernelType
<1>2. MadeExist' /\ OldCover' /\ Phase'
  BY DEF Tracked, MadeExist, OldCover, Phase
<1>3. NewCover'
  <2>1. Pending = {}
    BY DEF Pending
  <2>2. kernel.made \subseteq buildStateFromConfig(cfg).own \cup excused \cup work.dev
    BY <2>1 DEF Tracked, NewCover
  <2>3. buildStateFromConfig(cfg') = buildStateFromConfig(cfg)
    OBVIOUS
  <2> QED
    BY <2>2, <2>3 DEF NewCover
<1> QED
  BY <1>1, <1>2, <1>3 DEF Tracked

\* Removal with an outcome that keeps the kernel well-formed.
LEMMA RemovalLemma ==
    ASSUME Tracked, pc = "run", NEW s \in Stage, NEW x, NEW Done, NEW Lost,
           Removal(s, x, Done, Lost),
           \A k \in Done : /\ k \in KernelType
                           /\ k.made \subseteq kernel.made
                           /\ k.made \subseteq k.links
                           /\ s = "dev" => x \notin k.made,
           s = "dev" => x \in Lost
    PROVE  Tracked'
<1>1. Ghosts'
  BY GhostsLemma DEF Removal, Tracked
<1>2. /\ work' \in WorkType
      /\ s # "dev" => work'.dev = work.dev
      /\ s = "dev" => work'.dev = work.dev \ {x}
  <2>1. work \in WorkType /\ work' = [work EXCEPT ![s] = @ \ {x}]
    BY DEF Tracked, TypeOK, Removal, Take
  <2>2. \/ s = "addr" \/ s = "route" \/ s = "dev" \/ s = "ns"
        \/ s = "sid" \/ s = "ndp" \/ s = "mkns" \/ s = "setup"
    BY DEF Stage
  <2> QED
    BY <2>1, <2>2 DEF WorkType
<1>3. UNCHANGED <<file, pc, cfg, fresh>>
  BY DEF Removal
<1>4. CASE kernel' \in Done /\ Excuse({})
  BY <1>1, <1>2, <1>3, <1>4, ShrinkLemma DEF Excuse
<1>5. CASE UNCHANGED kernel /\ Excuse(Lost)
  <2>1. kernel \in KernelType /\ kernel.made \subseteq kernel.links
    BY DEF Tracked, TypeOK, MadeExist
  <2> QED
    BY <1>1, <1>2, <1>3, <1>5, <2>1, ShrinkLemma DEF Excuse
<1> QED
  BY <1>4, <1>5 DEF Removal

\* Each removal of applyRemovals and of the two reapers preserves Tracked.
LEMMA RemovalsLemma ==
    ASSUME Tracked,
           \/ RemoveAddress \/ RemoveRoute \/ RemoveDevice \/ RemoveNetns
           \/ RemoveSID \/ RemoveProxy
    PROVE  Tracked'
<1> USE DEF Stage
<1>0. kernel \in KernelType /\ kernel.made \subseteq kernel.links /\ work \in WorkType
  BY DEF Tracked, TypeOK, MadeExist
<1>1. CASE RemoveAddress
  <2>1. PICK p \in work.addr : Removal("addr", p, {DeleteItems(kernel, {p})}, {})
    BY <1>1 DEF RemoveAddress
  <2> QED
    BY <1>0, <1>1, <2>1, DeleteItemsLemma, RemovalLemma DEF RemoveAddress, At
<1>2. CASE RemoveRoute
  <2> DEFINE Done(p) == IF p[2] \in BareRoute \/ Matching(p) = {}
                        THEN {kernel}
                        ELSE {DeleteItems(kernel, {q}) : q \in Matching(p)}
  <2>1. PICK p \in work.route : Removal("route", p, Done(p), {})
    BY <1>2 DEF RemoveRoute
  <2>2. \A k \in Done(p) : /\ k \in KernelType
                           /\ k.made \subseteq kernel.made
                           /\ k.made \subseteq k.links
    BY <1>0, DeleteItemsLemma
  <2>3. pc = "run"
    BY <1>2 DEF RemoveRoute, At
  <2> HIDE DEF Done
  <2> QED
    BY <2>1, <2>2, <2>3, RemovalLemma
<1>3. CASE RemoveDevice
  <2> DEFINE Done(l) == {IF l \in kernel.links /\ l[2] \notin Hardware
                         THEN LinkDel(kernel, l) ELSE kernel}
  <2>1. PICK l \in work.dev : Removal("dev", l, Done(l), {l})
    BY <1>3 DEF RemoveDevice
  <2>2. \A k \in Done(l) : /\ k \in KernelType
                           /\ k.made \subseteq kernel.made
                           /\ k.made \subseteq k.links
                           /\ l \notin k.made
    <3>1. CASE l \in kernel.links /\ l[2] \notin Hardware
      BY <1>0, <3>1, LinkDelLemma
    <3>2. CASE ~(l \in kernel.links /\ l[2] \notin Hardware)
      BY <1>0, <3>2, HardwareAssumption DEF Tracked, MadeExist
    <3> QED
      BY <3>1, <3>2
  <2>3. pc = "run"
    BY <1>3 DEF RemoveDevice, At
  <2> HIDE DEF Done
  <2> QED
    BY <2>1, <2>2, <2>3, RemovalLemma
<1>4. CASE RemoveNetns
  <2> DEFINE Done(ns) == {IF ns \in kernel.netns THEN DeleteNetns(kernel, ns) ELSE kernel}
  <2>1. PICK ns \in work.ns : Removal("ns", ns, Done(ns), {})
    BY <1>4 DEF RemoveNetns
  <2>2. \A k \in Done(ns) : /\ k \in KernelType
                            /\ k.made \subseteq kernel.made
                            /\ k.made \subseteq k.links
    BY <1>0, DeleteNetnsLemma DEF WorkType
  <2>3. pc = "run"
    BY <1>4 DEF RemoveNetns, At
  <2> HIDE DEF Done
  <2> QED
    BY <2>1, <2>2, <2>3, RemovalLemma
<1>5. CASE RemoveSID
  <2> DEFINE Done(p) ==
        {DeleteItems(kernel, {q \in kernel.items : q[2] = p[2] /\ q[1][1] = p[1][1]})}
  <2>1. PICK p \in work.sid : Removal("sid", p, Done(p), {})
    BY <1>5 DEF RemoveSID
  <2>2. \A k \in Done(p) : /\ k \in KernelType
                           /\ k.made \subseteq kernel.made
                           /\ k.made \subseteq k.links
    BY <1>0, DeleteItemsLemma
  <2>3. pc = "run"
    BY <1>5 DEF RemoveSID, At
  <2> HIDE DEF Done
  <2> QED
    BY <2>1, <2>2, <2>3, RemovalLemma
<1>6. CASE RemoveProxy
  <2>1. PICK p \in work.ndp : Removal("ndp", p, {DeleteItems(kernel, {p})}, {})
    BY <1>6 DEF RemoveProxy
  <2> QED
    BY <1>0, <1>6, <2>1, DeleteItemsLemma, RemovalLemma DEF RemoveProxy, At
<1> QED
  BY <1>1, <1>2, <1>3, <1>4, <1>5, <1>6

\* A step that neither makes nor moves a link.
LEMMA KeepLemma ==
    ASSUME Tracked, pc \notin {"idle", "move"}, pc' \in Control \ {"idle"}, Ghosts',
           kernel' \in KernelType, kernel'.made = kernel.made,
           kernel'.links = kernel.links,
           work' \in WorkType, work'.dev = work.dev,
           pc' # "run" => work.dev = {},
           UNCHANGED <<file, cfg, fresh, excused>>
    PROVE  Tracked'
<1>1. TypeOK'
  BY DEF Tracked, TypeOK, Ghosts
<1>2. MadeExist' /\ OldCover' /\ Phase'
  BY DEF Tracked, MadeExist, OldCover, Phase
<1>3. NewCover'
  <2>1. Pending = {}
    BY DEF Pending
  <2>2. kernel.made \subseteq buildStateFromConfig(cfg).own \cup excused \cup work.dev
    BY <2>1 DEF Tracked, NewCover
  <2>3. buildStateFromConfig(cfg') = buildStateFromConfig(cfg)
    OBVIOUS
  <2> QED
    BY <2>2, <2>3 DEF NewCover
<1> QED
  BY <1>1, <1>2, <1>3 DEF Tracked

\* Finishing a device touches neither the record nor the removals.
LEMMA FinishLemma ==
    ASSUME TypeOK, NEW l, Finish(l)
    PROVE  /\ work' \in WorkType /\ work'.dev = work.dev
           /\ pc' = "run" /\ pc' \in Control
           /\ UNCHANGED <<file, cfg>>
  BY DEF TypeOK, Finish, Take, WorkType, Control

\* The creation of a namespace preserves Tracked.
LEMMA MakeNetnsLemma ==
    ASSUME Tracked, MakeNetns
    PROVE  Tracked'
<1>0. kernel \in KernelType /\ work \in WorkType /\ pc = "run" /\ pc \in Control
  BY DEF Tracked, TypeOK, MakeNetns, At
<1>1. PICK ns \in work.mkns :
         \/ /\ kernel' = CreateNetns(kernel, ns)
            /\ Take("mkns", ns)
            /\ NoFault /\ Excuse({})
            /\ UNCHANGED <<file, pc, cfg, fresh>>
         \/ UNCHANGED kernel /\ Abort(FALSE)
  BY DEF MakeNetns
<1>2. CASE UNCHANGED kernel /\ Abort(FALSE)
  BY <1>0, <1>2, AbortLemma
<1>3. CASE /\ kernel' = CreateNetns(kernel, ns)
           /\ Take("mkns", ns)
           /\ NoFault /\ Excuse({})
           /\ UNCHANGED <<file, pc, cfg, fresh>>
  <2>1. /\ kernel' \in KernelType
        /\ kernel'.made = kernel.made /\ kernel'.links = kernel.links
    BY <1>0, <1>3, CreateNetnsLemma DEF WorkType
  <2>2. work' \in WorkType /\ work'.dev = work.dev
    BY <1>0, <1>3 DEF Take, WorkType
  <2>3. Ghosts'
    BY <1>3, GhostsLemma DEF Tracked
  <2>4. kernel.made \subseteq kernel.links
    BY DEF Tracked, MadeExist
  <2> QED
    BY <1>0, <1>3, <2>1, <2>2, <2>3, <2>4, ShrinkLemma DEF Excuse
<1> QED
  BY <1>1, <1>2, <1>3

\* Turning to the next device preserves Tracked: the removals are over.
LEMMA SetupNextLemma ==
    ASSUME Tracked, SetupNext
    PROVE  Tracked'
<1>1. work.dev = {} /\ pc = "run"
  BY SetupStage DEF SetupNext, At
<1>2. Ghosts'
  BY GhostsLemma DEF Tracked, SetupNext
<1>3. kernel' = kernel /\ work' = work /\ pc' = "create"
  BY DEF SetupNext
<1>4. kernel' \in KernelType /\ work' \in WorkType /\ pc' \in Control
  BY <1>3 DEF Tracked, TypeOK, Control
<1> QED
  BY <1>1, <1>2, <1>3, <1>4, KeepLemma DEF SetupNext

\* What the set-up of a link starts from.
LEMMA SetupFacts ==
    ASSUME Tracked, NEW l \in Links(cfg), pc \notin {"idle", "run"}
    PROVE  /\ kernel \in KernelType /\ work \in WorkType /\ work.dev = {}
           /\ kernel.made \subseteq kernel.links
           /\ l \in Link /\ InDefault(l) \in Link /\ Birth(l) \in Link
           /\ Birth(l)[2] = l[2] /\ InDefault(l)[2] = l[2]
           /\ Birth(l) # l => Birth(l) = InDefault(l) /\ l[1] # Default
           /\ l[2] \in Nic <=> cfg.sect[l] \in SystemSection
           /\ \A p \in Far(l) : p \in Link /\ InDefault(p) \in Link
           /\ FarBirth(l) \subseteq Link
           /\ Parents(l) \subseteq Link
           /\ Wanted(l) \subseteq Link \X Item
           /\ Members(l) \subseteq Link
           /\ l \in buildStateFromConfig(cfg).own
                \/ cfg.sect[l] \in SystemSection \cup UntrackedSection
<1>1. cfg \in Config
  BY DEF Tracked, TypeOK
<1>2. l \in Link /\ (l[2] \in Nic <=> cfg.sect[l] \in SystemSection)
  BY <1>1, ConfigAssumption
<1>3. \A m \in Link : InDefault(m) \in Link /\ InDefault(m)[2] = m[2]
  BY DEF InDefault, Link, NS
<1>4. /\ Birth(l) \in Link /\ Birth(l)[2] = l[2]
      /\ Birth(l) # l => Birth(l) = InDefault(l)
  BY <1>2, <1>3 DEF Birth
<1>5. Birth(l) # l => l[1] # Default
  BY <1>2 DEF Birth, InDefault, Link
<1>6. \A p \in Far(l) : <<Birth(l)[1], p[2]>> \in Link
  BY <1>4 DEF Far, Link
<1>7. Wanted(l) \subseteq Link \X Item
  BY <1>1, ConfigAssumption DEF Wanted
<1>8. /\ kernel \in KernelType /\ work \in WorkType /\ work.dev = {}
      /\ kernel.made \subseteq kernel.links
  BY DEF Tracked, TypeOK, MadeExist, Phase
<1>9. l \in buildStateFromConfig(cfg).own
        \/ cfg.sect[l] \in SystemSection \cup UntrackedSection
  BY <1>1, BuildLemma
<1>10. FarBirth(l) \subseteq Link
  BY <1>6 DEF FarBirth
<1>11. Parents(l) \subseteq Link /\ Members(l) \subseteq Link /\ Far(l) \subseteq Link
  BY DEF Parents, Members, Far
<1> QED
  BY <1>2, <1>3, <1>4, <1>5, <1>7, <1>8, <1>9, <1>10, <1>11

\* A device that is found, absent or not created preserves Tracked.
LEMMA NoCreationLemma ==
    ASSUME Tracked, NEW l \in Links(cfg), pc = "create",
           Present(l) \/ AbsentNic(l) \/ Reuse(l) \/ CreateFails(l)
    PROVE  Tracked'
<1>0. /\ kernel \in KernelType /\ work \in WorkType /\ work.dev = {}
      /\ TypeOK
  BY SetupFacts DEF Tracked
<1>1. CASE \E next \in Control \ {"idle"} : /\ GoTo(next) /\ NoFault
                                            /\ UNCHANGED <<kernel, fresh, excused>>
  BY <1>0, <1>1, GhostsLemma, KeepLemma DEF GoTo
<1>2. CASE /\ Finish(l) /\ (Warn \/ Fault)
           /\ UNCHANGED <<kernel, fresh, excused>>
  BY <1>0, <1>2, FinishLemma, GhostsLemma, KeepLemma
<1>3. CASE UNCHANGED kernel /\ Abort(~CanCreate(l))
  <2>1. (~CanCreate(l)) \in BOOLEAN
    OBVIOUS
  <2> QED
    BY <1>0, <1>3, <2>1, AbortLemma
<1>4. AfterBirth(l) \in Control \ {"idle"} /\ "config" \in Control /\ "move" \in Control
  BY DEF AfterBirth, Control
<1> QED
  BY <1>1, <1>2, <1>3, <1>4 DEF Present, AbsentNic, Reuse, CreateFails

\* A device is created: the new record has it, or it is untracked and
\* excused, or it is about to be moved to where the record has it.
LEMMA CreateLemma ==
    ASSUME Tracked, NEW l \in Links(cfg), Turn(l), pc = "create", Create(l)
    PROVE  Tracked'
<1> DEFINE b == Birth(l)
<1>0. /\ kernel \in KernelType /\ work \in WorkType /\ work.dev = {}
      /\ kernel.made \subseteq kernel.links
      /\ b \in Link /\ b[2] = l[2] /\ l[2] \notin Nic
      /\ b # l => b = InDefault(l)
      /\ FarBirth(l) \subseteq Link /\ Parents(l) \subseteq Link
      /\ l \in buildStateFromConfig(cfg).own \/ cfg.sect[l] \in UntrackedSection
  BY SetupFacts DEF Create
<1>1. /\ kernel' \in KernelType
      /\ kernel'.made = kernel.made \cup {b}
      /\ kernel'.made \subseteq kernel'.links
  <2>1. kernel' \in Created(l)
    BY DEF Create
  <2>2. CASE cfg.sect[l] \in PairSection
    <3>1. PICK p \in FarBirth(l) : kernel' = AddVethPair(kernel, b, p)
      BY <2>1, <2>2 DEF Created
    <3> HIDE DEF b
    <3> QED
      BY <1>0, <3>1, AddVethPairLemma
  <2>3. CASE cfg.sect[l] \notin PairSection
    <3>1. PICK P \in SUBSET Link : kernel' = LinkAdd(kernel, b, P)
      BY <1>0, <2>1, <2>3 DEF Created
    <3> HIDE DEF b
    <3> QED
      BY <1>0, <3>1, LinkAddLemma
  <2> QED
    BY <2>2, <2>3
<1>2. /\ fresh' = fresh \cup {b}
      /\ excused' = (excused \cup Untracked(l, b)) \cap kernel'.made
      /\ pc' = AfterBirth(l) /\ UNCHANGED <<file, cfg, work>>
  BY DEF Create, Excuse, GoTo
<1>3. Ghosts'
  BY GhostsLemma DEF Create, Tracked
<1>4. AfterBirth(l) \in Control \ {"idle"}
  BY DEF AfterBirth, Control
<1>5. b # l => AfterBirth(l) = "move"
  BY DEF AfterBirth
<1>6. cfg.sect[l] \in UntrackedSection => b \in Untracked(l, b)
  BY DEF Untracked
<1> HIDE DEF b
<1>7. TypeOK'
  BY <1>0, <1>1, <1>2, <1>3, <1>4 DEF Tracked, TypeOK, Ghosts, KernelType
<1>8. MadeExist' /\ OldCover' /\ Phase'
  BY <1>0, <1>1, <1>2, <1>4 DEF Tracked, MadeExist, OldCover, Phase
<1>9. NewCover'
  <2>1. Pending = {}
    BY DEF Pending
  <2>2. kernel.made \subseteq buildStateFromConfig(cfg).own \cup excused
    BY <1>0, <2>1 DEF Tracked, NewCover
  <2>3. buildStateFromConfig(cfg') = buildStateFromConfig(cfg)
    BY <1>2
  <2>4. b \in buildStateFromConfig(cfg).own \cup excused' \cup Pending'
    <3>1. CASE cfg.sect[l] \in UntrackedSection
      BY <1>1, <1>2, <1>6, <3>1
    <3>2. CASE cfg.sect[l] \notin UntrackedSection /\ b = l
      BY <1>0, <3>2
    <3>3. CASE b # l
      <4>1. pc' = "move" /\ Turn(l)'
        BY <1>2, <1>5, <3>3 DEF Turn
      <4> QED
        BY <1>0, <1>2, <3>3, <4>1 DEF Pending
    <3> QED
      BY <3>1, <3>2, <3>3
  <2> QED
    BY <1>1, <1>2, <2>2, <2>3, <2>4 DEF NewCover
<1> QED
  BY <1>7, <1>8, <1>9 DEF Tracked

\* A link is moved: it is the one that was pending.
LEMMA MoveLemma ==
    ASSUME Tracked, NEW l \in Links(cfg), Turn(l), pc = "move", Move(l)
    PROVE  Tracked'
<1>0. /\ kernel \in KernelType /\ work \in WorkType /\ work.dev = {}
      /\ kernel.made \subseteq kernel.links
      /\ l \in Link /\ InDefault(l) \in Link /\ InDefault(l)[2] = l[2]
      /\ l[2] \in Nic <=> cfg.sect[l] \in SystemSection
      /\ \/ l \in buildStateFromConfig(cfg).own
         \/ cfg.sect[l] \in SystemSection
         \/ cfg.sect[l] \in UntrackedSection
  BY SetupFacts
<1>1. CASE UNCHANGED kernel /\ Abort(~CanMove(l))
  <2>1. (~CanMove(l)) \in BOOLEAN
    OBVIOUS
  <2> QED
    BY <1>0, <1>1, <2>1, AbortLemma
<1>2. CASE /\ Moved(kernel, l) /\ Excuse(Untracked(l, l))
           /\ GoTo(IF cfg.sect[l] = "veth" THEN "peer" ELSE "config")
  <2> DEFINE from == InDefault(l)
  <2>1. /\ kernel' \in KernelType
        /\ kernel'.made \subseteq (kernel.made \ {from}) \cup {l}
        /\ from \notin kernel.made => kernel'.made = kernel.made
        /\ kernel'.made \subseteq kernel'.links
    BY <1>0, <1>2, SetLinkNetnsLemma DEF Moved
  <2>2. /\ fresh' = (fresh \ {from}) \cup {l}
        /\ excused' = (excused \cup Untracked(l, l)) \cap kernel'.made
        /\ pc' \in {"peer", "config"} /\ UNCHANGED <<file, cfg, work>>
    BY <1>2 DEF Moved, Excuse, GoTo
  <2>3. Ghosts'
    BY <1>2, GhostsLemma DEF Moved, Tracked
  <2>4. cfg.sect[l] \in UntrackedSection => l \in Untracked(l, l)
    BY DEF Untracked
  <2>5. Pending \subseteq {from}
    BY TurnUnique DEF Pending, Tracked
  <2>6. from \in kernel.made => l[2] \notin Nic
    BY <1>0 DEF Tracked, MadeExist
  <2> HIDE DEF from
  <2>7. TypeOK'
    BY <1>0, <2>1, <2>2, <2>3 DEF Tracked, TypeOK, Ghosts, KernelType, Control
  <2>8. MadeExist' /\ OldCover' /\ Phase'
    <3>1. MadeExist'
      BY <2>1, <2>6 DEF Tracked, MadeExist
    <3> QED
      BY <1>0, <2>1, <2>2, <3>1 DEF Tracked, OldCover, Phase
  <2>9. NewCover'
    <3>1. kernel.made \ {from} \subseteq buildStateFromConfig(cfg).own \cup excused
      BY <1>0, <2>5 DEF Tracked, NewCover
    <3>2. buildStateFromConfig(cfg') = buildStateFromConfig(cfg)
      BY <2>2
    <3>3. from \in kernel.made =>
             l \in buildStateFromConfig(cfg).own \cup Untracked(l, l)
      BY <1>0, <2>4, <2>6
    <3> QED
      BY <2>1, <2>2, <3>1, <3>2, <3>3 DEF NewCover
  <2> QED
    BY <2>7, <2>8, <2>9 DEF Tracked
<1> QED
  BY <1>1, <1>2 DEF Move

\* The far end of a veth is moved: nothing records it, it is excused.
LEMMA MovePeerLemma ==
    ASSUME Tracked, NEW l \in Links(cfg), pc = "peer", MovePeer(l)
    PROVE  Tracked'
<1>0. /\ kernel \in KernelType /\ work \in WorkType /\ work.dev = {}
      /\ kernel.made \subseteq kernel.links
      /\ \A p \in Far(l) : p \in Link /\ InDefault(p) \in Link /\ InDefault(p)[2] = p[2]
      /\ TypeOK
  BY SetupFacts DEF Tracked, InDefault
<1>1. PICK p \in Far(l) :
        \/ p[1] = Default /\ GoTo("config") /\ NoFault
               /\ UNCHANGED <<kernel, fresh, excused>>
        \/ /\ p[1] # Default /\ Moved(CreateNetns(kernel, p[1]), p)
           /\ Excuse({p}) /\ GoTo("config")
        \/ /\ p[1] # Default
           /\ kernel' \in {kernel, CreateNetns(kernel, p[1])}
           /\ Abort(~CanMove(p) /\ p[1] \in kernel'.netns)
  BY DEF MovePeer
<1>2. CASE p[1] = Default /\ GoTo("config") /\ NoFault
               /\ UNCHANGED <<kernel, fresh, excused>>
  BY <1>0, <1>2, GhostsLemma, KeepLemma DEF GoTo, Control
<1>3. p[1] # Default => p[1] \in NetNS
  BY <1>0 DEF Link, NS
<1>4. CASE /\ p[1] # Default
           /\ kernel' \in {kernel, CreateNetns(kernel, p[1])}
           /\ Abort(~CanMove(p) /\ p[1] \in kernel'.netns)
  <2>1. (~CanMove(p) /\ p[1] \in kernel'.netns) \in BOOLEAN
    OBVIOUS
  <2>2. /\ kernel' \in KernelType /\ kernel'.made = kernel.made
        /\ kernel'.links = kernel.links
    BY <1>0, <1>3, <1>4, CreateNetnsLemma
  <2> QED
    BY <1>4, <2>1, <2>2, AbortLemma
<1>5. CASE /\ p[1] # Default /\ Moved(CreateNetns(kernel, p[1]), p)
           /\ Excuse({p}) /\ GoTo("config")
  <2> DEFINE from == InDefault(p)
             k == CreateNetns(kernel, p[1])
  <2>1. k \in KernelType /\ k.made = kernel.made /\ k.links = kernel.links
    BY <1>0, <1>3, <1>5, CreateNetnsLemma
  <2>2. kernel' = SetLinkNetns(k, from, p)
    BY <1>5 DEF Moved
  <2> HIDE DEF k
  <2>3. /\ kernel' \in KernelType
        /\ kernel'.made \subseteq (kernel.made \ {from}) \cup {p}
        /\ from \notin kernel.made => kernel'.made = kernel.made
        /\ kernel'.made \subseteq kernel'.links
    BY <1>0, <2>1, <2>2, SetLinkNetnsLemma
  <2>4. /\ fresh' = (fresh \ {from}) \cup {p}
        /\ excused' = (excused \cup {p}) \cap kernel'.made
        /\ pc' = "config" /\ UNCHANGED <<file, cfg, work>>
    BY <1>5 DEF Moved, Excuse, GoTo
  <2>5. Ghosts'
    BY <1>5, GhostsLemma DEF Moved, Tracked
  <2>6. from \in kernel.made => p[2] \notin Nic
    BY <1>0 DEF Tracked, MadeExist
  <2> HIDE DEF from
  <2>7. TypeOK'
    BY <1>0, <2>3, <2>4, <2>5 DEF Tracked, TypeOK, Ghosts, KernelType, Control
  <2>8. MadeExist'
    BY <2>3, <2>6 DEF Tracked, MadeExist
  <2>9. OldCover' /\ Phase'
    BY <1>0, <2>3, <2>4 DEF Tracked, OldCover, Phase
  <2>10. NewCover'
    <3>1. kernel.made \subseteq buildStateFromConfig(cfg).own \cup excused
      BY <1>0 DEF Tracked, NewCover, Pending
    <3>2. buildStateFromConfig(cfg') = buildStateFromConfig(cfg)
      BY <2>4
    <3> QED
      BY <2>3, <2>4, <3>1, <3>2 DEF NewCover
  <2> QED
    BY <2>7, <2>8, <2>9, <2>10 DEF Tracked
<1> QED
  BY <1>1, <1>2, <1>4, <1>5

\* Configuring a link and its far end touches items and masters only.
LEMMA ConfigureLemma ==
    ASSUME Tracked, NEW l \in Links(cfg),
           \/ pc = "config" /\ (Configure(l) \/ ConfigureFails(l))
           \/ pc = "peerConfig" /\ ConfigurePeer(l)
    PROVE  Tracked'
<1>0. /\ kernel \in KernelType /\ work \in WorkType /\ work.dev = {}
      /\ l \in Link /\ Wanted(l) \subseteq Link \X Item /\ Members(l) \subseteq Link
      /\ TypeOK
  BY SetupFacts DEF Tracked
<1> DEFINE Same == /\ kernel' \in KernelType /\ kernel'.made = kernel.made
                   /\ kernel'.links = kernel.links
<1>1. CASE pc = "config" /\ Configure(l)
  <2>1. PICK F \in SUBSET Wanted(l), G \in SUBSET (Members(l) \cap kernel.links) :
          /\ kernel' = SetMaster(AddItems(kernel, Wanted(l) \ F),
                                 (Members(l) \cap kernel.links) \ G, l)
          /\ Fault \/ NoFault \/ Warn
    BY <1>1 DEF Configure
  <2>2. Same
    <3> DEFINE k == AddItems(kernel, Wanted(l) \ F)
    <3>1. k \in KernelType /\ k.made = kernel.made /\ k.links = kernel.links
      BY <1>0, ItemsLemma
    <3> HIDE DEF k
    <3>2. kernel' = SetMaster(k, (Members(l) \cap kernel.links) \ G, l)
      BY <2>1 DEF k
    <3> QED
      BY <1>0, <3>1, <3>2, SetMasterLemma
  <2>3. Ghosts'
    BY <1>0, <2>1, GhostsLemma
  <2>4. /\ work' \in WorkType /\ work'.dev = {} /\ pc' \in Control \ {"idle"}
        /\ UNCHANGED <<file, cfg, fresh, excused>>
    <3>1. AfterConfig(l) /\ UNCHANGED <<fresh, excused>>
      BY <1>1 DEF Configure
    <3>2. CASE GoTo("peerConfig")
      BY <1>0, <3>1, <3>2 DEF GoTo, Control
    <3>3. CASE Finish(l)
      BY <1>0, <3>1, <3>3, FinishLemma
    <3> QED
      BY <3>1, <3>2, <3>3 DEF AfterConfig
  <2> QED
    BY <1>0, <1>1, <2>2, <2>3, <2>4, KeepLemma
<1>2. CASE pc = "config" /\ ConfigureFails(l)
  <2>1. Same
    <3>1. \/ kernel' = SetMaster(kernel, Members(l) \cap kernel.links, l)
          \/ kernel' = AddItems(kernel, {q \in Wanted(l) : q[2] \in Proxy})
          \/ kernel' = kernel
      BY <1>2 DEF ConfigureFails
    <3> QED
      BY <1>0, <3>1, SetMasterLemma, ItemsLemma
  <2>2. CASE Fault /\ Finish(l) /\ UNCHANGED <<fresh, excused>>
    BY <1>0, <1>2, <2>1, <2>2, FinishLemma, GhostsLemma, KeepLemma
  <2>3. CASE Abort(l \notin kernel.links)
    <3>1. (l \notin kernel.links) \in BOOLEAN
      OBVIOUS
    <3> QED
      BY <2>1, <2>3, <3>1, AbortLemma
  <2> QED
    BY <1>2, <2>2, <2>3 DEF ConfigureFails
<1>3. CASE pc = "peerConfig" /\ ConfigurePeer(l)
  <2>1. PICK p \in Far(l) :
          \/ /\ \E F \in SUBSET Wanted(p) :
                   /\ kernel' = AddItems(kernel, Wanted(p) \ F)
                   /\ IF F = {} THEN NoFault ELSE Fault
             /\ Finish(l)
             /\ UNCHANGED <<fresh, excused>>
          \/ UNCHANGED kernel /\ Abort(p \notin kernel.links)
    BY <1>3 DEF ConfigurePeer
  <2>2. CASE UNCHANGED kernel /\ Abort(p \notin kernel.links)
    <3>1. (p \notin kernel.links) \in BOOLEAN
      OBVIOUS
    <3> QED
      BY <1>0, <2>2, <3>1, AbortLemma
  <2>3. CASE /\ \E F \in SUBSET Wanted(p) :
                   /\ kernel' = AddItems(kernel, Wanted(p) \ F)
                   /\ IF F = {} THEN NoFault ELSE Fault
             /\ Finish(l)
             /\ UNCHANGED <<fresh, excused>>
    <3>1. Wanted(p) \subseteq Link \X Item
      BY <1>0, ConfigAssumption DEF Wanted, TypeOK
    <3>2. Same
      BY <1>0, <2>3, <3>1, ItemsLemma
    <3>3. Ghosts'
      BY <1>0, <2>3, GhostsLemma
    <3> QED
      BY <1>0, <1>3, <2>3, <3>2, <3>3, FinishLemma, KeepLemma
  <2> QED
    BY <2>1, <2>2, <2>3
<1> QED
  BY <1>1, <1>2, <1>3

\* The end of Apply, in success or in failure.
LEMMA SaveLemma ==
    ASSUME Tracked, Save \/ SaveFails \/ TornSave
    PROVE  Tracked'
<1>0. /\ kernel \in KernelType /\ cfg \in Config /\ work = NoWork /\ pc = "run"
      /\ kernel' = kernel /\ cfg' = cfg /\ work' = work /\ pc' = "idle" /\ fresh' = {}
  BY DEF Tracked, TypeOK, Save, SaveFails, TornSave
<1>1. Ghosts'
  BY GhostsLemma DEF Tracked, Save, SaveFails, TornSave
<1>2. file' \in State /\ kernel.made \subseteq file'.own \cup excused' /\ excused' \subseteq Link
  <2>1. CASE Save
    <3>1. file' = buildStateFromConfig(cfg) /\ excused' = excused
      BY <2>1 DEF Save
    <3>2. Pending = {} /\ work.dev = {}
      BY <1>0, NoWorkType DEF Pending
    <3>3. kernel.made \subseteq buildStateFromConfig(cfg).own \cup excused
      BY <1>0, <3>2 DEF Tracked, NewCover
    <3>4. buildStateFromConfig(cfg) \in State /\ excused \subseteq Link
      BY <1>0, BuildLemma DEF Tracked, TypeOK
    <3> QED
      BY <3>1, <3>3, <3>4
  <2>2. CASE SaveFails
    BY <1>0, <2>2 DEF SaveFails, Tracked, TypeOK, OldCover, Excuse, KernelType
  <2>3. CASE TornSave
    BY <1>0, <2>3 DEF TornSave, NewState, State, Excuse, KernelType
  <2> QED
    BY <2>1, <2>2, <2>3
<1>3. TypeOK'
  BY <1>0, <1>1, <1>2 DEF Tracked, TypeOK, Ghosts, Control
<1>4. MadeExist' /\ OldCover' /\ NewCover' /\ Phase'
  BY <1>0, <1>2 DEF Tracked, MadeExist, OldCover, NewCover, Phase
<1> QED
  BY <1>3, <1>4 DEF Tracked

\* A reboot preserves Tracked: what netcfg made is gone.
LEMMA RebootLemma ==
    ASSUME Tracked, Reboot
    PROVE  Tracked'
<1>0. /\ kernel' = Boot /\ Boot \in KernelType /\ Boot.made = {}
      /\ pc' = "idle" /\ fresh' = {} /\ excused' = {} /\ work' = NoWork
      /\ UNCHANGED <<file, cfg, faults>> /\ clean' = FALSE /\ tainted' = FALSE
  BY ApplyAssumption DEF Reboot
<1>1. TypeOK'
  BY <1>0, NoWorkType DEF Tracked, TypeOK, Control
<1>2. MadeExist' /\ OldCover' /\ NewCover' /\ Phase'
  BY <1>0 DEF MadeExist, OldCover, NewCover, Phase
<1> QED
  BY <1>1, <1>2 DEF Tracked

\* netcfg destroy preserves Tracked: it only takes links away.
LEMMA DestroyLemma ==
    ASSUME Tracked, NEW ns \in NetNS, Destroy(ns)
    PROVE  Tracked'
<1>0. kernel \in KernelType /\ kernel.made \subseteq kernel.links
  BY DEF Tracked, TypeOK, MadeExist
<1>1. /\ kernel' \in KernelType
      /\ kernel'.made \subseteq kernel.made
      /\ kernel'.made \subseteq kernel'.links
  BY <1>0, DeleteNetnsLemma DEF Destroy
<1>2. /\ pc = "idle" /\ excused' = (excused \cup {}) \cap kernel'.made
      /\ clean' = FALSE
      /\ UNCHANGED <<file, pc, cfg, work, fresh, tainted, faults>>
  BY DEF Destroy, Excuse
<1>3. TypeOK'
  BY <1>1, <1>2 DEF Tracked, TypeOK
<1>4. MadeExist' /\ OldCover' /\ NewCover' /\ Phase'
  BY <1>1, <1>2 DEF Tracked, MadeExist, OldCover, NewCover, Phase
<1> QED
  BY <1>3, <1>4 DEF Tracked

\* Tracked holds when the machine has just booted and there is no record.
LEMMA InitLemma ==
    ASSUME Init
    PROVE  Tracked
<1>1. TypeOK
  <2>1. (CHOOSE c \in Config : TRUE) \in Config
    BY ApplyAssumption, Zenon
  <2>2. NewState \in State /\ "idle" \in Control
    BY DEF NewState, State, Control
  <2>3. 0 \in 0 .. MaxFaults /\ Boot \in KernelType
    BY ApplyAssumption
  <2> QED
    BY <2>1, <2>2, <2>3, NoWorkType DEF Init, TypeOK
<1>2. MadeExist /\ OldCover /\ NewCover /\ Phase
  BY ApplyAssumption DEF Init, MadeExist, OldCover, NewCover, Phase
<1> QED
  BY <1>1, <1>2 DEF Tracked

\* One case per action of Next.
LEMMA NextLemma ==
    ASSUME Tracked, [Next]_vars
    PROVE  Tracked'
<1>1. CASE \E c \in Config : Load(c)
  BY <1>1, LoadLemma
<1>2. CASE RemoveAddress \/ RemoveRoute \/ RemoveDevice \/ RemoveNetns
             \/ RemoveSID \/ RemoveProxy
  BY <1>2, RemovalsLemma
<1>3. CASE MakeNetns
  BY <1>3, MakeNetnsLemma
<1>4. CASE SetupNext
  BY <1>4, SetupNextLemma
<1>5. CASE Setup
  <2>1. PICK l \in Links(cfg) :
          /\ Turn(l)
          /\ \/ pc = "create" /\ (Present(l) \/ AbsentNic(l) \/ Reuse(l)
                                      \/ Create(l) \/ CreateFails(l))
             \/ pc = "move" /\ Move(l)
             \/ pc = "peer" /\ MovePeer(l)
             \/ pc = "config" /\ (Configure(l) \/ ConfigureFails(l))
             \/ pc = "peerConfig" /\ ConfigurePeer(l)
    BY <1>5 DEF Setup
  <2>2. CASE pc = "create" /\ (Present(l) \/ AbsentNic(l) \/ Reuse(l) \/ CreateFails(l))
    BY <2>2, NoCreationLemma
  <2>3. CASE pc = "create" /\ Create(l)
    BY <2>1, <2>3, CreateLemma
  <2>4. CASE pc = "move" /\ Move(l)
    BY <2>1, <2>4, MoveLemma
  <2>5. CASE pc = "peer" /\ MovePeer(l)
    BY <2>5, MovePeerLemma
  <2>6. CASE \/ pc = "config" /\ (Configure(l) \/ ConfigureFails(l))
             \/ pc = "peerConfig" /\ ConfigurePeer(l)
    BY <2>6, ConfigureLemma
  <2> QED
    BY <2>1, <2>2, <2>3, <2>4, <2>5, <2>6
<1>6. CASE Save \/ SaveFails \/ TornSave
  BY <1>6, SaveLemma
<1>7. CASE Interrupt
  <2>1. Ghosts' /\ Stop /\ kernel' = kernel /\ kernel \in KernelType
    BY <1>7, GhostsLemma DEF Interrupt, Tracked, TypeOK
  <2> QED
    BY <2>1, StopLemma
<1>8. CASE Reboot
  BY <1>8, RebootLemma
<1>9. CASE \E ns \in NetNS : Destroy(ns)
  BY <1>9, DestroyLemma
<1>10. CASE UNCHANGED vars
  <2>1. /\ UNCHANGED kernel /\ UNCHANGED file /\ UNCHANGED pc /\ UNCHANGED cfg
        /\ UNCHANGED work /\ UNCHANGED fresh /\ UNCHANGED excused
        /\ UNCHANGED clean /\ UNCHANGED tainted /\ UNCHANGED faults
    BY <1>10 DEF vars
  <2>2. TypeOK' /\ MadeExist' /\ OldCover' /\ Phase'
    BY <2>1 DEF Tracked, TypeOK, MadeExist, OldCover, Phase
  <2>3. NewCover'
    BY <2>1 DEF Tracked, NewCover, Pending, Turn
  <2> QED
    BY <2>2, <2>3 DEF Tracked
<1> QED
  BY <1>1, <1>2, <1>3, <1>4, <1>5, <1>6, <1>7, <1>8, <1>9, <1>10 DEF Next, Step

-----------------------------------------------------------------------------
\* The invariant behind both theorems below: at every step of Apply the old
\* record and the new one each cover the links netcfg made, up to what this
\* Apply has made, is about to remove or is about to move.
THEOREM TrackedInvariant == Spec => []Tracked
<1>1. Init => Tracked
  BY InitLemma
<1>2. Tracked /\ [Next]_vars => Tracked'
  BY NextLemma
<1> QED
  BY <1>1, <1>2, PTL DEF Spec

\* The kernel, the record and the work list of Apply stay well-formed.
THEOREM TypeCorrect == Spec => []TypeOK
<1>1. Tracked => TypeOK
  BY DEF Tracked
<1> QED
  BY <1>1, TrackedInvariant, PTL

\* For every set of configurations and every number of faults: between two
\* runs of Apply each link netcfg created is in its record, unless a failed
\* request, an interrupted run or an untracked section lost it.
THEOREM NothingForgotten == Spec => []NoOrphans
<1>1. Tracked => NoOrphans
  BY DEF Tracked, OldCover, Phase, NoOrphans
<1> QED
  BY <1>1, TrackedInvariant, PTL
==============================================================================
