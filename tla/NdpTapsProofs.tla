---------------------------- MODULE NdpTapsProofs ----------------------------
(***************************************************************************)
(* ResponderCurrent for every set of taps and rules and every number of    *)
(* operations and faults.  It is not inductive: Start gives the manager    *)
(* new rules also for taps on which it starts nothing, so one must know    *)
(* that no responder lives there, because there is no interface.           *)
(***************************************************************************)
EXTENDS NdpTaps, TLAPS

\* A responder lives on an interface that exists.
Bound == \A t \in Tap : live[t] # None => t \in dev

TapInv == live \in [Tap -> Rules \cup {None}] /\ Bound /\ ResponderCurrent

\* When interfaces go, so do the responders bound to them.
LEMMA InterfacesGoInv ==
    ASSUME TapInv, NEW gone, InterfacesGo(gone), UNCHANGED configs
    PROVE  TapInv'
BY DEF TapInv, Bound, ResponderCurrent, InterfacesGo

\* What VPP is asked to do about a tap.
LEMMA TapRequestInv ==
    ASSUME TapInv, NEW t, DeleteNDPTap(t) \/ EnsureNDPTap(t) \/ UNCHANGED vppVars,
           UNCHANGED configs
    PROVE  TapInv'
<1>1. CASE UNCHANGED vppVars
  BY <1>1 DEF TapInv, Bound, ResponderCurrent, vppVars
<1>2. CASE EnsureNDPTap(t)
  BY <1>2 DEF TapInv, Bound, ResponderCurrent, EnsureNDPTap
<1>3. CASE DeleteNDPTap(t)
  BY <1>1, <1>3, InterfacesGoInv DEF DeleteNDPTap
<1>. QED BY <1>1, <1>2, <1>3

\* Starting the wanted taps of S by the rules c that the manager holds afterwards, over
\* responders lv of which those outside S, where wanted, are current.
LEMMA StartInv ==
    ASSUME NEW S \in SUBSET Tap, NEW c \in [Tap -> Rules \cup {None}], NEW run,
           NEW lv \in [Tap -> Rules \cup {None}],
           \A t \in Tap : lv[t] # None => t \in dev,
           \A t \in Tap \ (S \cap dev) :
               lv[t] # None /\ c[t] # None => lv[t] = c[t] /\ t \in allmulti,
           StartLocked(S, c, run, lv), configs' = c, UNCHANGED dev
    PROVE  TapInv'
<1>1. live' = [t \in Tap |-> IF t \in S \cap dev THEN c[t] ELSE lv[t]]
      /\ allmulti' = allmulti \cup (S \cap dev)
  BY DEF StartLocked
<1>. QED BY <1>1 DEF TapInv, Bound, ResponderCurrent

\* The configurations the processes hold are configurations.
Read ==
    /\ conf \in Conf /\ configs \in Conf /\ specs \subseteq Tap
    /\ main \in Process({"stop", "start", "watch"})
    /\ watcher \in Process({"load", "store", "delete", "ensure", "restart"})

\* They are so initially, and nothing lives.
LEMMA TapInit == Init => TapInv /\ Read
<1>. SUFFICES ASSUME Init PROVE TapInv /\ Read
  OBVIOUS
<1>1. NoConf \in Conf /\ \A t \in Tap : NoConf[t] = None
  BY DEF NoConf, Conf
<1>2. TapInv
  BY <1>1 DEF Init, TapInv, Bound, ResponderCurrent, Conf
<1>3. main = [step |-> "stop", conf |-> conf, taps |-> {}]
  BY DEF Init, Resting
<1>4. watcher = [step |-> "idle", conf |-> NoConf, taps |-> {}]
  BY DEF Init, Resting
<1>. QED BY <1>1, <1>2, <1>3, <1>4 DEF Init, Read, Process

\* Every step leaves them so.
LEMMA ReadStep == ASSUME Read, [Next]_vars PROVE Read'
<1>0. NoConf \in Conf /\ \A c : Wanted(c) \subseteq Tap
  BY DEF NoConf, Conf, Wanted
<1>1. CASE Start \/ Stop \/ EnsureWatcher \/ Hup
  <2>1. CASE Start
    BY <1>0, <2>1 DEF Start, Read, Process
  <2>2. CASE Stop
    BY <2>2 DEF Stop, Read, Process
  <2>3. CASE EnsureWatcher
    BY <1>0, <2>3 DEF EnsureWatcher, Read, Process, Resting
  <2>4. CASE Hup
    <3>1. main' = [step |-> "stop", conf |-> conf, taps |-> {}]
      BY <2>4 DEF Hup, Resting
    <3>. QED BY <2>4, <3>1 DEF Hup, Read, Process
  <2>. QED BY <1>1, <2>1, <2>2, <2>3, <2>4
<1>2. CASE Restart \/ Subscribe \/ LoadWanted \/ StoreSpecs \/ RebuildDelete \/ RebuildEnsure
  <2>. DEFINE W == Process({"load", "store", "delete", "ensure", "restart"})
  <2>0. /\ Resting \in W
        /\ \A s \in {"delete", "ensure", "restart"} : WatchNext(s) => watcher' \in W
        /\ [watcher EXCEPT !.step = "store", !.conf = conf] \in W
    BY <1>0 DEF Resting, WatchNext, Read, Process
  <2>. HIDE DEF W
  <2>1. watcher' \in W
    BY <1>2, <2>0 DEF Restart, Subscribe, LoadWanted, StoreSpecs, RebuildDelete, RebuildEnsure,
       Read, W
  <2>. QED BY <1>0, <1>2, <2>1 DEF Restart, Subscribe, LoadWanted, StoreSpecs, RebuildDelete,
              RebuildEnsure, Read, W
<1>3. CASE ReadEvent
  <2>1. CASE Head(queue) \in specs
    <3>1. watcher' = [step |-> "load", conf |-> NoConf, taps |-> {Head(queue)}]
      BY <1>3, <2>1 DEF ReadEvent, Resting
    <3>. QED BY <1>0, <1>3, <2>1, <3>1 DEF ReadEvent, Read, Process
  <2>2. CASE Head(queue) \notin specs
    BY <1>0, <1>3, <2>2 DEF ReadEvent, Read, Process, Resting
  <2>. QED BY <2>1, <2>2
<1>4. CASE Provision \/ Reap \/ Edit \/ RunApply \/ AdminDelete \/ RestartVPP \/ UNCHANGED vars
  BY <1>4 DEF Provision, Reap, Edit, RunApply, AdminDelete, RestartVPP, vars, Read
<1>. QED BY <1>1, <1>2, <1>3, <1>4 DEF Next, MainStep, WatcherStep, ApplyStep

\* Every step keeps TapInv.
LEMMA TapStep == ASSUME TapInv, Read, [Next]_vars PROVE TapInv'
<1>1. CASE Start
  <2>1. Wanted(main.conf) \in SUBSET Tap
    BY DEF Wanted
  <2>2. \A t \in Tap \ (Wanted(main.conf) \cap dev) :
            live[t] # None /\ main.conf[t] # None => live[t] = main.conf[t] /\ t \in allmulti
    BY DEF TapInv, Bound, Wanted
  <2>. QED BY <1>1, <2>1, <2>2, StartInv DEF Start, TapInv, Bound, Read, Process, Conf
<1>2. CASE Restart
  <2> DEFINE S == watcher.taps
             lv == [t \in Tap |-> IF t \in S \cap running THEN None ELSE live[t]]
  <2>1. S \cap Wanted(configs) \in SUBSET Tap
    BY DEF Wanted
  <2>2. lv \in [Tap -> Rules \cup {None}] /\ \A t \in Tap : lv[t] \in {live[t], None}
    BY DEF TapInv
  <2>3. StartLocked(S \cap Wanted(configs), configs, running \ S, lv)
    BY <1>2 DEF Restart
  <2>. HIDE DEF lv
  <2>4. \A t \in Tap : lv[t] # None => t \in dev
    BY <2>2 DEF TapInv, Bound
  <2>5. \A t \in Tap : lv[t] # None /\ configs[t] # None => lv[t] = configs[t] /\ t \in allmulti
    BY <2>2 DEF TapInv, ResponderCurrent
  <2>. QED BY <1>2, <2>1, <2>2, <2>3, <2>4, <2>5, StartInv DEF Restart, Read, Conf
<1>3. CASE Stop
  BY <1>3 DEF Stop, TapInv, Bound, ResponderCurrent
<1>4. CASE AdminDelete \/ RestartVPP
  BY <1>4, InterfacesGoInv DEF AdminDelete, RestartVPP
<1>5. CASE Provision \/ Reap \/ RebuildDelete \/ RebuildEnsure
  BY <1>5, TapRequestInv DEF Provision, Reap, RebuildDelete, RebuildEnsure
<1>6. CASE EnsureWatcher \/ Subscribe \/ ReadEvent \/ LoadWanted \/ StoreSpecs
  BY <1>6 DEF EnsureWatcher, Subscribe, ReadEvent, LoadWanted, StoreSpecs,
     TapInv, Bound, ResponderCurrent
<1>7. CASE Edit \/ RunApply \/ Hup \/ UNCHANGED vars
  BY <1>7 DEF Edit, RunApply, Hup, vppVars, vars, TapInv, Bound, ResponderCurrent
<1>. QED
  BY <1>1, <1>2, <1>3, <1>4, <1>5, <1>6, <1>7 DEF Next, MainStep, WatcherStep, ApplyStep

\* However Reload, the watcher and netcfg apply interleave, whatever fails and whichever
\* taps go, a running responder answers by the rules the manager holds and hears the
\* solicitations.
THEOREM RespondersCurrent == Spec => []ResponderCurrent
<1>1. TapInv => ResponderCurrent
  BY DEF TapInv
<1>2. TapInv /\ Read /\ [Next]_vars => TapInv' /\ Read'
  BY TapStep, ReadStep
<1>. QED BY <1>1, <1>2, TapInit, PTL DEF Spec
=============================================================================
