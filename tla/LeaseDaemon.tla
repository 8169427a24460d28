----------------------------- MODULE LeaseDaemon -----------------------------
(***************************************************************************)
(* netcfg daemon and its DHCP leases (cmd/daemon.go, netlink/dhcp_daemon.go *)
(* and netlink/dhcp.go).  Two goroutines share the leases under one mutex: *)
(* main, which requests leases at start and on SIGHUP, and the renewal     *)
(* loop, woken by a ticker.  Both keep the mutex while they talk to the    *)
(* server, which takes time; the process may die at any point.             *)
(***************************************************************************)
EXTENDS Naturals, FiniteSets

CONSTANTS
    Iface,        \* interfaces with DHCP
    IP,           \* IPv4 addresses the server hands out
    None,         \* no lease, no address
    LeaseTime,    \* lease times the server grants; 0: none was learnt
    Configs,      \* the configurations: "v4", "v6" or both for each interface
    Half,         \* 12 hours, the renewal time assumed when none was learnt
    Margin,       \* 5 minutes before expiry
    MaxDelay,     \* bound on the ticks one exchange with the server takes
    MaxClock,     \* bound on the clock
    MaxLost,      \* bound on exchanges that fail
    MaxFaults     \* bound on kernel failures and crashes

ASSUME LeaseAssumption ==
    /\ None \notin IP
    /\ LeaseTime \subseteq Nat
    /\ Configs \subseteq [Iface -> SUBSET {"v4", "v6"}]
    /\ {Half, Margin, MaxDelay, MaxClock, MaxLost, MaxFaults} \subseteq Nat
    /\ MaxClock > 0

\* The server grants one lease time, if any, and it fits the bound on the clock: a
\* server that shortens leases takes back what a client that missed the answer holds.
ASSUME OneLeaseTime ==
    /\ \A s, t \in LeaseTime \ {0} : s = t
    /\ \A t \in LeaseTime : t <= MaxClock

VARIABLES
    clock,        \* time in ticks of the renewal loop; 0 is the zero time
    up,           \* the daemon runs
    leases,       \* DHCPDaemon.leases
    disk,         \* the files in /var/lib/netcfg/leases
    main,         \* the main goroutine
    loop,         \* the renewal goroutine
    lock,         \* DHCPDaemon.mu
    due,          \* the ticker has fired
    want,         \* the configuration main loaded: dhcp4, dhcp6 of each interface
    addr,         \* external: the IPv4 addresses of the interfaces
    server,       \* external: the server's binding of each interface
    fresh,        \* ghost: the interfaces leased since the daemon was started
    late,         \* ticks the current exchange has taken
    lost,         \* exchanges that failed so far
    faults        \* kernel failures and crashes so far

vars == <<clock, up, leases, disk, main, loop, lock, due, want, addr,
          server, fresh, late, lost, faults>>

Time == 0 .. 2 * MaxClock
Lease == [v4 : IP \cup {None}, time : LeaseTime \cup {0}, v6 : BOOLEAN, renew : Time, expire : Time]
NoLease == [v4 |-> None, time |-> 0, v6 |-> FALSE, renew |-> 0, expire |-> 0]
Has(l) == l.v4 # None \/ l.v6

\* A goroutine: its step, the interfaces it has left and the current one, the
\* lease it builds and its idea of the time.
MainStep == {"down", "idle", "lock", "v4", "flush", "add", "v6", "save", "stop"}
LoopStep == {"down", "wait", "lock", "next", "renew", "request", "flush", "add", "save"}
Thread(S) == [step : S, todo : SUBSET Iface, at : Iface \cup {None}, new : Lease, now : Time]
Resting(s) == [step |-> s, todo |-> {}, at |-> None, new |-> NoLease, now |-> 0]

LeaseTypeOK ==
    /\ clock \in 1 .. MaxClock
    /\ up \in BOOLEAN
    /\ leases \in [Iface -> Lease]
    /\ disk \in [Iface -> Lease]
    /\ main \in Thread(MainStep)
    /\ loop \in Thread(LoopStep)
    /\ lock \in {"free", "main", "loop"}
    /\ due \in BOOLEAN
    /\ want \in [Iface -> SUBSET {"v4", "v6"}]
    /\ addr \in [Iface -> SUBSET IP]
    /\ server \in [Iface -> [ip : IP \cup {None}, until : Time]]
    /\ fresh \subseteq Iface
    /\ late \in 0 .. MaxDelay
    /\ lost \in 0 .. MaxLost
    /\ faults \in 0 .. MaxFaults

Init ==
    /\ clock = 1
    /\ up = FALSE
    /\ leases = [i \in Iface |-> NoLease]
    /\ disk = [i \in Iface |-> NoLease]
    /\ main = Resting("down")
    /\ loop = Resting("down")
    /\ lock = "free"
    /\ due = FALSE
    /\ want = [i \in Iface |-> {}]
    /\ addr = [i \in Iface |-> {}]
    /\ server = [i \in Iface |-> [ip |-> None, until |-> 0]]
    /\ fresh = {} /\ late = 0 /\ lost = 0 /\ faults = 0



-----------------------------------------------------------------------------
(* The server (external).  A client keeps its address while its binding    *)
(* lasts; a binding of unknown length is taken never to end.               *)

Forever == 2 * MaxClock

\* The bindings the server may give interface i for lease time t, some time
\* during the exchange.
Binding(i, t) ==
    UNION {[ip : IF server[i].until >= g THEN {server[i].ip} ELSE IP,
            until : {IF t = 0 THEN Forever ELSE g + t}] : g \in clock - late .. clock}

\* The server binds i for time t and answers: the lease holds the address of the
\* binding; a client program reports one the interface has, and no time.
Answer(i, t, ip) ==
    \E b \in Binding(i, t) :
        /\ ip = b.ip \/ (t = 0 /\ ip \in addr[i])
        /\ server' = [server EXCEPT ![i] = b]
        /\ late' = 0

\* No answer arrives; the server may have bound i all the same.
NoAnswer(i) ==
    /\ \/ \E t \in LeaseTime : \E b \in Binding(i, t) : server' = [server EXCEPT ![i] = b]
       \/ UNCHANGED server
    /\ late' = 0

Lost == lost < MaxLost /\ lost' = lost + 1
Faulty == faults < MaxFaults /\ faults' = faults + 1

-----------------------------------------------------------------------------
(* Start, SIGHUP, SIGTERM and death of the daemon.                         *)

\* Main before its next request: it waits for the lock from now on.
Queued(todo) ==
    IF todo = {} THEN Resting("idle")
    ELSE [Resting("lock") EXCEPT !.todo = todo, !.now = clock]

\* LoadConfig and applyConfigWithDaemon: one request per interface with DHCP.
Requests(c) ==
    /\ want' = c
    /\ LET todo == {i \in Iface : c[i] # {}}
       IN  main' = Queued(todo)

LoadConfig ==
    \/ \E c \in Configs : Requests(c)
    \/ main' = Resting("idle") /\ UNCHANGED want

\* The files loadLeases keeps: the others are removed as expired.
Loaded(i) == IF clock > disk[i].expire THEN NoLease ELSE disk[i]

DaemonStart ==
    /\ ~up
    /\ up' = TRUE
    /\ fresh' = {}
    /\ leases' = [i \in Iface |-> Loaded(i)]
    /\ disk' = leases'
    /\ loop' = Resting("wait")
    /\ LoadConfig
    /\ UNCHANGED <<clock, lock, due, addr, server, late, lost, faults>>

Reload ==
    /\ main.step = "idle"
    /\ LoadConfig
    /\ UNCHANGED <<clock, up, leases, disk, loop, lock, due, addr, server, late, lost, faults, fresh>>

\* Stop cancels the context, waits for the loop and saves every lease.
Terminate ==
    /\ main.step = "idle"
    /\ main' = Resting("stop")
    /\ UNCHANGED <<clock, up, leases, disk, loop, lock, due, want, addr, server, late, lost, faults, fresh>>

Down ==
    /\ up' = FALSE
    /\ main' = Resting("down")
    /\ loop' = Resting("down")
    /\ leases' = [i \in Iface |-> NoLease]
    /\ lock' = "free"
    /\ due' = FALSE
    /\ want' = [i \in Iface |-> {}]
    /\ fresh' = {}
    /\ late' = 0
    /\ UNCHANGED <<clock, addr, server, lost>>

LoopExits ==
    /\ main.step = "stop" /\ loop.step = "wait"
    /\ loop' = Resting("down")
    /\ UNCHANGED <<clock, up, leases, disk, main, lock, due, want, addr, server, late, lost, faults, fresh>>

StopDone ==
    /\ main.step = "stop" /\ loop.step = "down"
    /\ disk' = [i \in Iface |-> IF Has(leases[i]) THEN leases[i] ELSE disk[i]]
    /\ Down
    /\ UNCHANGED faults

\* The process dies; a file it was writing is cut short and no longer parses.
Crash ==
    /\ up
    /\ Faulty
    /\ \/ UNCHANGED disk
       \/ \E th \in {main, loop} :
              /\ th.step = "save"
              /\ disk' = [disk EXCEPT ![th.at] = NoLease]
    /\ Down

-----------------------------------------------------------------------------
(* RequestLease, on the main goroutine.                                    *)

MainAt(s) == main.step = s
GoMain(s) == main' = [main EXCEPT !.step = s]
AfterV4 == IF "v6" \in want[main.at] THEN "v6" ELSE "save"

\* sync.Mutex hands itself to the goroutine that has waited longest (external).
Turn(th, other) == other.step = "lock" => th.now <= other.now

\* The lock is taken, and ObtainedAt read before anything is sent.
RequestLease(i) ==
    /\ MainAt("lock") /\ lock = "free" /\ Turn(main, loop)
    /\ i \in main.todo
    /\ lock' = "main"
    /\ main' = [main EXCEPT !.step = IF "v4" \in want[i] THEN "v4" ELSE "v6",
                            !.at = i, !.new = NoLease, !.now = clock]
    /\ UNCHANGED <<clock, up, leases, disk, loop, due, want, addr, server, late, lost, faults, fresh>>

\* Mutant: the times count from the arrival of the answer.
FirstLeaseOnArrival(t, ip, now) ==
    [v4 |-> ip, time |-> t, v6 |-> FALSE,
     renew |-> IF t > 0 THEN clock + t \div 2 ELSE clock + Half,
     expire |-> IF t > 0 THEN clock + t ELSE clock + 2 * Half]

\* Mutant: the lease time is taken for a number of renewal periods.
FirstLeaseScaled(t, ip, now) ==
    [v4 |-> ip, time |-> t, v6 |-> FALSE,
     renew |-> now + t * Half,
     expire |-> now + 24 * Half]

\* The first lease: its times count from ObtainedAt, 24 hours if none was learnt.
FirstLease(t, ip, now) ==
    [v4 |-> ip, time |-> t, v6 |-> FALSE,
     renew |-> IF t > 0 THEN now + t \div 2 ELSE now + Half,
     expire |-> IF t > 0 THEN now + t ELSE now + 2 * Half]

RequestDHCPv4 ==
    /\ MainAt("v4")
    /\ \/ /\ \E t \in LeaseTime, ip \in IP :
                 /\ Answer(main.at, t, ip)
                 /\ main' = [main EXCEPT !.step = "flush", !.new = FirstLease(t, ip, main.now)]
          /\ UNCHANGED lost
       \/ NoAnswer(main.at) /\ Lost /\ GoMain(AfterV4)
    /\ UNCHANGED <<clock, up, leases, disk, loop, lock, due, want, addr, faults, fresh>>

\* Mutant: the addresses the interface has are left there.
NoFlush(i) == UNCHANGED addr

\* ApplyDHCPv4Lease: every IPv4 address goes, then the lease's address comes.
Flush(i) == addr' = [addr EXCEPT ![i] = {}]
AddAddress(i, ip) == addr' = [addr EXCEPT ![i] = @ \cup {ip}]

MainApplies ==
    /\ \/ MainAt("flush") /\ Flush(main.at) /\ GoMain("add") /\ UNCHANGED faults
       \/ /\ MainAt("add")
          /\ AddAddress(main.at, main.new.v4)
          /\ GoMain(AfterV4)
          /\ UNCHANGED faults
       \/ main.step \in {"flush", "add"} /\ Faulty /\ GoMain(AfterV4) /\ UNCHANGED addr
    /\ UNCHANGED <<clock, up, leases, disk, loop, lock, due, want, server, late, lost, fresh>>

RequestDHCPv6 ==
    /\ MainAt("v6")
    /\ late' = 0
    /\ \/ main' = [main EXCEPT !.step = "save", !.new.v6 = TRUE] /\ UNCHANGED lost
       \/ Lost /\ GoMain("save")
    /\ UNCHANGED <<clock, up, leases, disk, loop, lock, due, want, addr, server, faults, fresh>>

\* saveLease: the write may fail, before or after it truncated the file.
SaveLease(i, l) ==
    \/ disk' = [disk EXCEPT ![i] = l] /\ UNCHANGED faults
    \/ Faulty /\ (UNCHANGED disk \/ disk' = [disk EXCEPT ![i] = NoLease])

\* A lease that was obtained replaces the one held; the lock is given back.
KeepLease ==
    /\ MainAt("save")
    /\ IF Has(main.new)
       THEN /\ leases' = [leases EXCEPT ![main.at] = main.new]
            /\ fresh' = fresh \cup {main.at}
            /\ SaveLease(main.at, main.new)
       ELSE UNCHANGED <<leases, fresh, disk, faults>>
    /\ LET todo == main.todo \ {main.at}
       IN  main' = Queued(todo)
    /\ lock' = "free"
    /\ UNCHANGED <<clock, up, loop, due, want, addr, server, late, lost>>

-----------------------------------------------------------------------------
(* renewalLoop and checkRenewals.                                          *)

LoopAt(s) == loop.step = s
GoLoop(s) == loop' = [loop EXCEPT !.step = s]
\* Mutant: an interface that is not renewed is tried again at once.
Retry == loop' = [loop EXCEPT !.step = "next", !.at = None]

\* The loop is done with the interface at hand.
Continue == loop' = [loop EXCEPT !.step = "next", !.todo = @ \ {loop.at}, !.at = None]

Ticked ==
    /\ LoopAt("wait") /\ due
    /\ due' = FALSE
    /\ loop' = [loop EXCEPT !.step = "lock", !.now = clock]
    /\ UNCHANGED <<clock, up, leases, disk, main, lock, want, addr, server, late, lost, faults, fresh>>

CheckRenewals ==
    /\ LoopAt("lock") /\ lock = "free" /\ Turn(loop, main)
    /\ lock' = "loop"
    /\ loop' = [loop EXCEPT !.step = "next", !.now = clock,
                            !.todo = {i \in Iface : Has(leases[i])}]
    /\ UNCHANGED <<clock, up, leases, disk, main, due, want, addr, server, late, lost, faults, fresh>>

\* Mutant: renewal waits for the lease to expire.
RenewExpired(i) == leases[i].v4 # None /\ loop.now > leases[i].expire

MustRenew(i) == leases[i].v4 # None /\ loop.now > leases[i].renew

NextLease ==
    /\ LoopAt("next")
    /\ \/ \E i \in loop.todo :
              /\ loop' = IF MustRenew(i) THEN [loop EXCEPT !.step = "renew", !.at = i]
                                         ELSE [loop EXCEPT !.todo = @ \ {i}]
              /\ UNCHANGED lock
       \/ loop.todo = {} /\ loop' = Resting("wait") /\ lock' = "free"
    /\ UNCHANGED <<clock, up, leases, disk, main, due, want, addr, server, late, lost, faults, fresh>>

\* Mutant: the times count from the arrival of the answer.
RenewedOnArrival(l, t, ip, now) ==
    [l EXCEPT !.v4 = ip, !.time = t,
              !.renew = IF t > 0 THEN clock + t \div 2 ELSE @,
              !.expire = IF t > 0 THEN clock + t ELSE @]

\* The renewed lease: its times count from the start of the check, and stay as
\* they are when none was learnt.
Renewed(l, t, ip, now) ==
    [l EXCEPT !.v4 = ip, !.time = t,
              !.renew = IF t > 0 THEN now + t \div 2 ELSE @,
              !.expire = IF t > 0 THEN now + t ELSE @]

NearExpiry(i) == loop.now + Margin > leases[i].expire

\* RenewDHCPv4, and near expiry RequestDHCPv4: stopping the daemon cancels the
\* former only.
RenewLease ==
    /\ loop.step \in {"renew", "request"}
    /\ \/ /\ \E t \in LeaseTime, ip \in IP :
                 /\ Answer(loop.at, t, ip)
                 /\ leases' = [leases EXCEPT ![loop.at] = Renewed(@, t, ip, loop.now)]
          /\ fresh' = fresh \cup {loop.at}
          /\ GoLoop("flush")
          /\ UNCHANGED lost
       \/ /\ NoAnswer(loop.at)
          /\ Lost \/ (LoopAt("renew") /\ MainAt("stop") /\ UNCHANGED lost)
          /\ IF LoopAt("renew") /\ NearExpiry(loop.at) THEN GoLoop("request") ELSE Continue
          /\ UNCHANGED <<leases, fresh>>
    /\ UNCHANGED <<clock, up, disk, main, lock, due, want, addr, faults>>

LoopApplies ==
    /\ \/ LoopAt("flush") /\ Flush(loop.at) /\ GoLoop("add") /\ UNCHANGED faults
       \/ /\ LoopAt("add")
          /\ AddAddress(loop.at, leases[loop.at].v4)
          /\ GoLoop("save")
          /\ UNCHANGED faults
       \/ loop.step \in {"flush", "add"} /\ Faulty /\ GoLoop("save") /\ UNCHANGED addr
    /\ UNCHANGED <<clock, up, leases, disk, main, lock, due, want, server, late, lost, fresh>>

\* Mutant: a renewed lease is not written to its file.
SaveForgotten ==
    /\ LoopAt("save")
    /\ Continue
    /\ UNCHANGED <<clock, up, leases, disk, main, lock, due, want, addr, server, late, lost, faults, fresh>>

SaveRenewed ==
    /\ LoopAt("save")
    /\ SaveLease(loop.at, leases[loop.at])
    /\ Continue
    /\ UNCHANGED <<clock, up, leases, main, lock, due, want, addr, server, late, lost, fresh>>

-----------------------------------------------------------------------------
(* Time passes while both goroutines wait for something to do, and while   *)
(* one of them waits for the server; local work takes no time.             *)

Quiet == main.step = "idle" /\ loop.step = "wait" /\ ~due
Exchanging == main.step \in {"v4", "v6"} \/ loop.step \in {"renew", "request"}

Tick ==
    /\ clock < MaxClock
    /\ clock' = clock + 1
    /\ due' = up
    /\ \/ (~up \/ Quiet) /\ UNCHANGED late
       \/ /\ Exchanging /\ ~(LoopAt("wait") /\ due)
          /\ late < MaxDelay /\ late' = late + 1
    /\ UNCHANGED <<up, leases, disk, main, loop, lock, want, addr, server, lost, faults, fresh>>

DaemonStep ==
    \/ LoopExits
    \/ StopDone
    \/ \E i \in Iface : RequestLease(i)
    \/ RequestDHCPv4
    \/ MainApplies
    \/ RequestDHCPv6
    \/ KeepLease
    \/ Ticked
    \/ CheckRenewals
    \/ NextLease
    \/ RenewLease
    \/ LoopApplies
    \/ SaveRenewed

Next ==
    \/ DaemonStep
    \/ DaemonStart
    \/ Reload
    \/ Terminate
    \/ Crash
    \/ Tick

\* Each goroutine runs on: every exchange times out and every system call returns.
\* The select of renewalLoop picks among the ready cases at random, so it does not
\* pass over the cancelled context for ever.
Spec == Init /\ [][Next]_vars /\ WF_vars(DaemonStep) /\ SF_vars(LoopExits)

-----------------------------------------------------------------------------
(* Properties.                                                             *)

\* A lease that the daemon, or a file a restart would load, takes to be valid is
\* backed by the server: it binds the address and for at least as long.  The
\* times are counted from before the request was sent (dhcp_daemon.go:86, 198),
\* so no delay, lost answer or crash makes the belief outlive the binding.  Of a
\* lease whose time was not learnt nothing is claimed.
BeliefSound ==
    \A i \in Iface : \A l \in {leases[i], disk[i]} :
        (l.v4 # None /\ l.time > 0 /\ clock <= l.expire)
            => /\ server[i].ip = l.v4
               /\ l.expire <= server[i].until

\* What the daemon takes for granted about i: the leases in memory, on disk and being
\* built, where the time was learnt.
Leases(i) == {leases[i], disk[i]} \cup (IF main.at = i THEN {main.new} ELSE {})
Believed(i) ==
    {[ip |-> l.v4, until |-> l.expire] : l \in {x \in Leases(i) : x.v4 # None /\ x.time > 0}}

Contract == INSTANCE LeaseContract
                WITH now <- clock, bound <- server, held <- [i \in Iface |-> Believed(i)]

\* The daemon keeps the client's side of the contract: in no step, of either goroutine
\* or of its death and restart, does it come to hold, in memory, on disk or under
\* construction, a lease that the server does not back at that moment.
KeepsContract == Contract!LCSpec

\* As long as the server answers and nothing fails, no lease the daemon obtained
\* since it started ever lapses: renewal begins half-way, and neither the lock
\* being held across exchanges for other interfaces nor a reload at the wrong
\* time delays it past the expiry (checkRenewals, RequestLease).
NoLapse ==
    (lost = 0 /\ faults = 0 /\ main.step # "stop") =>
        \A i \in Iface :
            LET l == leases[i]
            IN  (i \in fresh /\ l.v4 # None /\ l.time > 0) => clock <= l.expire

\* Short of a kernel failure or a crash, an interface whose IPv4 lease the daemon
\* holds carries that address and no other when no one is at work on it, whatever
\* answers were lost and through every stop and start (ApplyDHCPv4Lease).
LeaseApplied ==
    (up /\ lock = "free" /\ faults = 0) =>
        \A i \in Iface : leases[i].v4 # None => addr[i] = {leases[i].v4}

\* Short of the same failures, what a restart would load is what the daemon holds
\* (saveLease after every change, saveLeases on Stop, loadLeases).
LeasesSaved ==
    (up /\ lock = "free" /\ faults = 0) => disk = leases

\* Stop terminates: the loop that Stop waits for never waits for main.
StopTerminates == (main.step = "stop") ~> ~up

\* The daemon's claim of automatic renewal (cmd/daemon.go:26): short of a failure,
\* an address that a lease put on a DHCPv4 interface and the server still binds is
\* one the daemon holds a lease for, so that it will be renewed.
RenewalCovers ==
    (Quiet /\ faults = 0) =>
        \A i \in Iface :
            ("v4" \in want[i] /\ server[i].ip \in addr[i] /\ clock <= server[i].until)
                => leases[i].v4 # None
=============================================================================
