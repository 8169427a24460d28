------------------------------- MODULE NdpTaps -------------------------------
(***************************************************************************)
(* The NDP responders of netcfg daemon on the taps of VPP bridges          *)
(* (cmd/ndp.go, cmd/ndptap_daemon.go, vpp/ndptap.go).  Three parties act   *)
(* on a tap: netcfg apply, which creates it and reaps it; the daemon's main *)
(* goroutine, which starts a responder on it; and the watcher goroutine,   *)
(* which rebuilds it when the kernel reports it deleted.                   *)
(***************************************************************************)
EXTENDS Naturals, Sequences, SequencesExt

CONSTANTS
    Tap,          \* tap names, one per VPP bridge
    Rules,        \* external-MAC static rules of an ndp-proxy block
    None,         \* no block, no responder, nothing at hand
    Operations,   \* what the operator and the machine do in this instance
    MaxOps,       \* bound on how often they do it
    MaxFaults     \* bound on failed requests to VPP and unreadable configurations

ASSUME TapAssumption ==
    /\ None \notin Tap \cup Rules
    /\ Operations \subseteq {"edit", "apply", "hup", "delete", "restartVPP"}
    /\ MaxOps \in Nat /\ MaxFaults \in Nat

VARIABLES
    conf,         \* the configuration on disk: the rules for each tap
    vstate,       \* the taps in vpp-state.json
    \* external
    vtap,         \* taps VPP has
    dev,          \* taps whose kernel interface exists
    allmulti,     \* kernel interfaces that receive all multicast
    queue,        \* RTM_DELLINK messages the watcher has not read
    \* ndpManager
    configs,      \* configs
    running,      \* the interfaces in running
    live,         \* rules of the responder whose cancel is in running, if it still runs
    leaked,       \* responders that run and whose cancel is lost
    specs,        \* the taps in tapSpecs
    watching,     \* watchStop is set, and the watcher has subscribed
    main, watcher, apply,   \* the three processes
    ops, faults   \* counters for the bounds

vppVars == <<vtap, dev, allmulti, queue, live, leaked>>
vars == <<conf, vstate, vtap, dev, allmulti, queue, configs, running, live, leaked,
          specs, watching, main, watcher, apply, ops, faults>>

Conf == [Tap -> Rules \cup {None}]
Wanted(c) == {t \in Tap : c[t] # None}
NoConf == [t \in Tap |-> None]

\* A process: its step, the configuration it has read and the taps left or at hand.
Resting == [step |-> "idle", conf |-> NoConf, taps |-> {}]
Process(S) == [step : S \cup {"idle"}, conf : Conf, taps : SUBSET Tap]

TapTypeOK ==
    /\ conf \in Conf
    /\ vstate \subseteq Tap /\ vtap \subseteq Tap /\ dev \subseteq Tap
    /\ allmulti \subseteq dev
    /\ queue \in Seq(Tap)
    /\ configs \in Conf
    /\ running \subseteq Tap
    /\ live \in Conf
    /\ leaked \subseteq Tap \X Rules
    /\ specs \subseteq Tap
    /\ watching \in {"no", "starting", "yes"}
    /\ main \in Process({"stop", "start", "watch"})
    /\ watcher \in Process({"load", "store", "delete", "ensure", "restart"})
    /\ apply \in Process({"provision", "reap"})
    /\ ops \in 0 .. MaxOps
    /\ faults \in 0 .. MaxFaults

\* netcfg apply has run and the daemon starts.
Init ==
    /\ conf \in Conf
    /\ vstate = Wanted(conf) /\ vtap = Wanted(conf) /\ dev = Wanted(conf)
    /\ allmulti = {}
    /\ queue = << >>
    /\ configs = NoConf /\ running = {} /\ live = NoConf /\ leaked = {}
    /\ specs = {} /\ watching = "no"
    /\ main = [Resting EXCEPT !.step = "stop", !.conf = conf]
    /\ watcher = Resting
    /\ apply = Resting
    /\ ops = 0 /\ faults = 0

Faulty == faults < MaxFaults /\ faults' = faults + 1

-----------------------------------------------------------------------------
(* VPP and the kernel (external): a tap goes with its kernel interface, and *)
(* with that every responder bound to it; the kernel tells the watcher.    *)

Notify(gone) ==
    IF watching = "yes"
    THEN \E s \in SetToSeqs(gone) : queue' = queue \o s
    ELSE UNCHANGED queue

InterfacesGo(gone) ==
    /\ dev' = dev \ gone
    /\ allmulti' = allmulti \ gone
    /\ live' = [t \in Tap |-> IF t \in gone THEN None ELSE live[t]]
    /\ leaked' = {r \in leaked : r[1] \notin gone}
    /\ Notify(gone \cap dev)

\* DeleteNDPTap: a tap VPP does not know counts as deleted.
DeleteNDPTap(t) ==
    IF t \in vtap
    THEN vtap' = vtap \ {t} /\ InterfacesGo({t})
    ELSE UNCHANGED vppVars

\* EnsureNDPTap: a tap VPP knows is taken as it is, kernel interface or not.
EnsureNDPTap(t) ==
    /\ vtap' = vtap \cup {t}
    /\ dev' = IF t \in vtap THEN dev ELSE dev \cup {t}
    /\ UNCHANGED <<allmulti, queue, live, leaked>>

-----------------------------------------------------------------------------
(* netcfg apply: provisionNDPTaps, reapVPPOrphans, the save of vpp-state.  *)

Provision ==
    /\ apply.step = "provision"
    /\ \/ \E t \in apply.taps :
              /\ apply' = [apply EXCEPT !.taps = @ \ {t}]
              /\ \/ EnsureNDPTap(t) /\ UNCHANGED faults
                 \/ Faulty /\ UNCHANGED vppVars
       \/ /\ apply.taps = {}
          /\ apply' = [apply EXCEPT !.step = "reap", !.taps = vstate \ Wanted(apply.conf)]
          /\ UNCHANGED <<vppVars, faults>>
    /\ UNCHANGED <<conf, vstate, configs, running, specs, watching, main, watcher, ops>>

Reap ==
    /\ apply.step = "reap"
    /\ \/ \E t \in apply.taps :
              /\ apply' = [apply EXCEPT !.taps = @ \ {t}]
              /\ \/ DeleteNDPTap(t) /\ UNCHANGED faults
                 \/ Faulty /\ UNCHANGED vppVars
              /\ UNCHANGED vstate
       \/ /\ apply.taps = {}
          /\ apply' = Resting
          /\ vstate' = Wanted(apply.conf)
          /\ UNCHANGED <<vppVars, faults>>
    /\ UNCHANGED <<conf, configs, running, specs, watching, main, watcher, ops>>

-----------------------------------------------------------------------------
(* ndpManager: each operator is a section under its mutex.                 *)

\* Mutant: a missing interface counts as one that receives all multicast.
StartBlindly(S, c, run, lv) ==
    LET started == S \cap dev
    IN  /\ running' = run \cup started
        /\ live' = [t \in Tap |-> IF t \in started THEN c[t] ELSE lv[t]]
        /\ leaked' = leaked \cup {<<t, lv[t]>> : t \in {u \in started : lv[u] # None}}
        /\ allmulti' = allmulti \cup S

\* Mutant: a tap that already has a responder keeps it.
StartIdle(S, c, run, lv) ==
    LET started == (S \cap dev) \ run
    IN  /\ running' = run \cup started
        /\ live' = [t \in Tap |-> IF t \in started THEN c[t] ELSE lv[t]]
        /\ leaked' = leaked
        /\ allmulti' = allmulti \cup started

\* startLocked on the taps S of c: it fails where there is no interface, and
\* otherwise the new cancel replaces the one in running, if any.
StartLocked(S, c, run, lv) ==
    LET started == S \cap dev
    IN  /\ running' = run \cup started
        /\ live' = [t \in Tap |-> IF t \in started THEN c[t] ELSE lv[t]]
        /\ leaked' = leaked \cup {<<t, lv[t]>> : t \in {u \in started : lv[u] # None}}
        /\ allmulti' = allmulti \cup started

\* Reload: Stop, then the responders and tapSpecs anew, then ensureWatcher.
Stop ==
    /\ main.step = "stop"
    /\ main' = [main EXCEPT !.step = "start"]
    /\ running' = {}
    /\ live' = [t \in Tap |-> IF t \in running THEN None ELSE live[t]]
    /\ allmulti' = allmulti \ running
    /\ UNCHANGED <<conf, vstate, vtap, dev, queue, configs, leaked, specs, watching,
                   watcher, apply, ops, faults>>

Start ==
    /\ main.step = "start"
    /\ main' = [main EXCEPT !.step = "watch"]
    /\ configs' = main.conf
    /\ StartLocked(Wanted(main.conf), main.conf, running, live)
    /\ specs' = Wanted(main.conf)
    /\ UNCHANGED <<conf, vstate, vtap, dev, queue, watching, watcher, apply, ops, faults>>

EnsureWatcher ==
    /\ main.step = "watch"
    /\ main' = Resting
    /\ watching' = IF watching = "no" /\ specs # {} THEN "starting" ELSE watching
    /\ UNCHANGED <<conf, vstate, vtap, dev, allmulti, queue, configs, running, live,
                   leaked, specs, watcher, apply, ops, faults>>

-----------------------------------------------------------------------------
(* The watcher.                                                            *)

WatchNext(step) == watcher' = [watcher EXCEPT !.step = step]

Subscribe ==
    /\ watching = "starting"
    /\ watching' = "yes"
    /\ UNCHANGED <<conf, vstate, vtap, dev, allmulti, queue, configs, running, live,
                   leaked, specs, main, watcher, apply, ops, faults>>

\* A deletion is read: is the tap one of ours?
ReadEvent ==
    /\ watcher.step = "idle" /\ queue # << >>
    /\ queue' = Tail(queue)
    /\ watcher' = IF Head(queue) \in specs
                  THEN [Resting EXCEPT !.step = "load", !.taps = {Head(queue)}]
                  ELSE Resting
    /\ UNCHANGED <<conf, vstate, vtap, dev, allmulti, configs, running, live, leaked,
                   specs, watching, main, apply, ops, faults>>

\* wantedTapSpec: the configuration on disk decides, or tapSpecs when it cannot
\* be read.
LoadWanted ==
    /\ watcher.step = "load"
    /\ \/ /\ watcher' = [watcher EXCEPT !.step = "store", !.conf = conf]
          /\ UNCHANGED faults
       \/ Faulty /\ IF watcher.taps \subseteq specs THEN WatchNext("delete") ELSE watcher' = Resting
    /\ UNCHANGED <<conf, vstate, vtap, dev, allmulti, queue, configs, running, live,
                   leaked, specs, watching, main, apply, ops>>

StoreSpecs ==
    /\ watcher.step = "store"
    /\ specs' = Wanted(watcher.conf)
    /\ IF watcher.taps \subseteq Wanted(watcher.conf) THEN WatchNext("delete") ELSE watcher' = Resting
    /\ UNCHANGED <<conf, vstate, vtap, dev, allmulti, queue, configs, running, live,
                   leaked, watching, main, apply, ops, faults>>

\* Mutant: what VPP still has is not deleted first.
RebuildKeeps ==
    /\ watcher.step = "delete"
    /\ WatchNext("ensure")
    /\ UNCHANGED <<vppVars, faults>>
    /\ UNCHANGED <<conf, vstate, configs, running, specs, watching, main, apply, ops>>

\* rebuildNDPTap: what VPP has is deleted, an error only logged, and created
\* anew; it ends without VPP, and on an error of EnsureNDPTap, which may come
\* after the tap is there.
RebuildDelete ==
    /\ watcher.step = "delete"
    /\ \E t \in watcher.taps :
         \/ DeleteNDPTap(t) /\ WatchNext("ensure") /\ UNCHANGED faults
         \/ Faulty /\ UNCHANGED vppVars /\ (WatchNext("ensure") \/ watcher' = Resting)
    /\ UNCHANGED <<conf, vstate, configs, running, specs, watching, main, apply, ops>>

RebuildEnsure ==
    /\ watcher.step = "ensure"
    /\ \E t \in watcher.taps :
         \/ EnsureNDPTap(t) /\ WatchNext("restart") /\ UNCHANGED faults
         \/ Faulty /\ watcher' = Resting /\ (UNCHANGED vppVars \/ EnsureNDPTap(t))
    /\ UNCHANGED <<conf, vstate, configs, running, specs, watching, main, apply, ops>>

\* restart: the responder is cancelled and started with the rules of configs.
Restart ==
    /\ watcher.step = "restart"
    /\ watcher' = Resting
    /\ LET S == watcher.taps
       IN  StartLocked(S \cap Wanted(configs), configs, running \ S,
                       [t \in Tap |-> IF t \in S \cap running THEN None ELSE live[t]])
    /\ UNCHANGED <<conf, vstate, vtap, dev, queue, configs, specs, watching, main, apply,
                   ops, faults>>

-----------------------------------------------------------------------------
(* The operator and the machine.                                           *)

Operation(op) == op \in Operations /\ ops < MaxOps /\ ops' = ops + 1

Edit ==
    /\ Operation("edit")
    /\ conf' \in Conf \ {conf}
    /\ UNCHANGED <<vstate, vppVars, configs, running, specs, watching, main, watcher,
                   apply, faults>>

RunApply ==
    /\ apply.step = "idle"
    /\ Operation("apply")
    /\ apply' = [step |-> "provision", conf |-> conf, taps |-> Wanted(conf)]
    /\ UNCHANGED <<conf, vstate, vppVars, configs, running, specs, watching, main,
                   watcher, faults>>

\* SIGHUP: the configuration is read, then Reload begins.
Hup ==
    /\ main.step = "idle"
    /\ Operation("hup")
    /\ main' = [Resting EXCEPT !.step = "stop", !.conf = conf]
    /\ UNCHANGED <<conf, vstate, vppVars, configs, running, specs, watching, watcher,
                   apply, faults>>

\* ip link del: VPP keeps its side.
AdminDelete ==
    /\ Operation("delete")
    /\ \E t \in dev : InterfacesGo({t})
    /\ UNCHANGED <<conf, vstate, vtap, configs, running, specs, watching, main, watcher,
                   apply, faults>>

RestartVPP ==
    /\ Operation("restartVPP")
    /\ vtap' = {}
    /\ InterfacesGo(dev)
    /\ UNCHANGED <<conf, vstate, configs, running, specs, watching, main, watcher, apply,
                   faults>>

MainStep == Stop \/ Start \/ EnsureWatcher
WatcherStep ==
    \/ Subscribe \/ ReadEvent \/ LoadWanted \/ StoreSpecs
    \/ RebuildDelete \/ RebuildEnsure \/ Restart
ApplyStep == Provision \/ Reap

Next ==
    \/ MainStep \/ WatcherStep \/ ApplyStep
    \/ Edit \/ RunApply \/ Hup \/ AdminDelete \/ RestartVPP

\* Each process runs on; the operator need not do anything.
Spec ==
    /\ Init /\ [][Next]_vars
    /\ WF_vars(MainStep) /\ WF_vars(WatcherStep) /\ WF_vars(ApplyStep)

-----------------------------------------------------------------------------
(* Properties.                                                             *)

\* The responder the manager runs on a tap answers by the rules the manager holds
\* for it and hears the solicitations, however Reload and the watcher's restart
\* alternate (Reload, restart, startLocked).
ResponderCurrent ==
    \A t \in Tap : live[t] # None /\ configs[t] # None =>
        live[t] = configs[t] /\ t \in allmulti

\* A tap that the configuration wants throughout and whose deletion the watcher is
\* told of has a responder again in the end, whatever apply, Reload, a restart of VPP
\* or the deletion of another tap do meanwhile, if no request fails (watchTaps).
DeletionHeals ==
    \A t \in Tap :
        [](faults = 0 /\ conf[t] # None) =>
            ((\E k \in 1 .. Len(queue) : queue[k] = t) ~> live[t] # None)

\* "全停后按新配置全启" (ndp.go, Reload): all are stopped, then all started by the new
\* configuration: a reload leaves no responder of the old one behind.
ReloadReplacesAll ==
    main.step = "watch" =>
        leaked = {} /\ \A t \in Tap : live[t] # None => live[t] = main.conf[t]

\* "避免 apply 删 tap 时 daemon 又建回来" (ndptap_daemon.go, watchTaps): once apply
\* has dealt with the configuration on disk and all is quiet, VPP has no tap that
\* the configuration does not want.
NotRebuilt ==
    (/\ main.step = "idle" /\ watcher.step = "idle" /\ apply.step = "idle"
     /\ queue = << >> /\ faults = 0 /\ vstate = Wanted(conf))
        => vtap \subseteq Wanted(conf)
=============================================================================
