----------------------------- MODULE LeaseProofs -----------------------------
(***************************************************************************)
(* LeaseDaemon keeps LeaseContract, for every set of interfaces and        *)
(* addresses and every bound.  The times of a lease count from a moment    *)
(* read before the request was sent; the proof follows that moment: it is  *)
(* never later than clock - late, the earliest the server can have         *)
(* answered, and clock - late never goes back.                             *)
(***************************************************************************)
EXTENDS LeaseDaemon, TLAPS

LeaseN == [v4 : IP \cup {None}, time : LeaseTime \cup {0}, v6 : BOOLEAN, renew : Nat, expire : Nat]
ThreadN(S) == [step : S, todo : SUBSET Iface, at : Iface \cup {None}, new : LeaseN, now : Nat]

Typed ==
    /\ clock \in Nat /\ clock <= MaxClock /\ late \in Nat /\ late <= clock
    /\ leases \in [Iface -> LeaseN]
    /\ disk \in [Iface -> LeaseN]
    /\ main \in ThreadN(MainStep)
    /\ loop \in ThreadN(LoopStep)
    /\ server \in [Iface -> [ip : IP \cup {None}, until : Nat]]

MainBusy == {"v4", "flush", "add", "v6", "save"}
LoopBusy == {"next", "renew", "request", "flush", "add", "save"}

\* Who works holds the mutex, and outside an exchange nobody is late.
Exclusion ==
    /\ main.step \in MainBusy => lock = "main" /\ main.at \in Iface
    /\ loop.step \in LoopBusy => lock = "loop"
    /\ loop.step \in LoopBusy \ {"next"} => loop.at \in Iface
    /\ (lock = "free" \/ main.step \in {"flush", "add", "save"}
           \/ loop.step \in {"next", "flush", "add", "save"}) => late = 0

\* The moment a goroutine counts from precedes any answer to its request.
Before ==
    /\ main.step = "v4" => main.now + late <= clock
    /\ loop.step \in LoopBusy => loop.now + late <= clock

\* At time c, lt ticks into an exchange, the binding s backs the lease l.
Good(c, lt, s, l) ==
    l.v4 # None /\ l.time > 0 =>
        /\ l.expire + lt <= c + l.time
        /\ l.expire <= s.until
        /\ c <= l.expire => s.ip = l.v4
GoodNow(i, l) == Good(clock, late, server[i], l)
GoodNext(i, l) == Good(clock', late', server'[i], l)

Grounded ==
    /\ \A i \in Iface : GoodNow(i, leases[i]) /\ GoodNow(i, disk[i])
    /\ main.at \in Iface => GoodNow(main.at, main.new)

LeaseInv == Typed /\ Exclusion /\ Before /\ Grounded

-----------------------------------------------------------------------------

\* The fields of a lease are what they should be, and the times are numbers.
LEMMA LeaseFields ==
    ASSUME NEW l \in LeaseN
    PROVE  /\ l.time \in LeaseTime \cup {0} /\ l.time \in Nat /\ l.expire \in Nat
           /\ l.time > 0 => l.time \in LeaseTime \ {0}
<1>1. l.time \in LeaseTime \cup {0} /\ l.expire \in Nat
  BY DEF LeaseN
<1>2. \A t \in LeaseTime : t \in Nat
  BY LeaseAssumption
<1>. QED BY <1>1, <1>2

\* A binding the server may give: it runs from a moment of the exchange, and keeps
\* the address while the one before it lasts (Answer, NoAnswer).
LEMMA BindingFacts ==
    ASSUME Typed, NEW i \in Iface, NEW t \in LeaseTime, NEW b \in Binding(i, t)
    PROVE  /\ b \in [ip : IP \cup {None}, until : Nat]
           /\ t = 0 => b.until = Forever
           /\ t > 0 => clock + t <= b.until + late
           /\ clock <= server[i].until => b.ip = server[i].ip
<1>1. PICK g \in clock - late .. clock :
          b \in [ip : IF server[i].until >= g THEN {server[i].ip} ELSE IP,
                until : {IF t = 0 THEN Forever ELSE g + t}]
  BY DEF Binding
<1>2. g \in Nat /\ clock <= g + late /\ g <= clock
  BY DEF Typed
<1>3. t \in Nat /\ MaxClock \in Nat
  BY LeaseAssumption
<1>4. b.until = (IF t = 0 THEN Forever ELSE g + t) /\ b.ip \in IP \cup {None}
  BY <1>1 DEF Typed
<1>5. server[i].until \in Nat
  BY DEF Typed
<1>6. server[i].until >= g => b.ip = server[i].ip
  BY <1>1
<1>7. b \in [ip : IP \cup {None}, until : Nat]
  BY <1>1, <1>2, <1>3, <1>4 DEF Forever
<1>. QED
  BY <1>2, <1>3, <1>4, <1>5, <1>6, <1>7 DEF Typed

\* The server binding i anew, in an answer that arrives or is lost, leaves every lease
\* it backed backed.
LEMMA RebindKeeps ==
    ASSUME Typed, NEW i \in Iface, NEW t \in LeaseTime, NEW b \in Binding(i, t),
           server' = [server EXCEPT ![i] = b], late' = 0, UNCHANGED clock,
           NEW j \in Iface, NEW l \in LeaseN, GoodNow(j, l)
    PROVE  GoodNext(j, l)
<1>1. CASE j # i
  <2>1. server'[j] = server[j]
    BY <1>1 DEF Typed
  <2>2. l.time \in Nat /\ l.expire \in Nat /\ clock \in Nat /\ late \in Nat
    BY LeaseFields DEF Typed
  <2>. QED BY <2>1, <2>2 DEF Good, GoodNow, GoodNext
<1>2. CASE j = i
  <2>1. server'[i] = b
    BY DEF Typed
  <2>2. SUFFICES ASSUME l.v4 # None, l.time > 0
                 PROVE  /\ l.expire <= clock + l.time
                        /\ l.expire <= b.until
                        /\ clock <= l.expire => b.ip = l.v4
    BY <1>2, <2>1 DEF Good, GoodNow, GoodNext, LeaseN, Typed
  <2>0. l.time \in LeaseTime \ {0} /\ l.time \in Nat /\ l.expire \in Nat
    BY <2>2, LeaseFields
  <2>3. /\ l.time \in LeaseTime \ {0} /\ l.time \in Nat /\ l.expire \in Nat
        /\ l.time <= MaxClock /\ (t # 0 => l.time = t) /\ MaxClock \in Nat /\ t \in Nat
    BY <2>0, LeaseAssumption, OneLeaseTime
  <2>4. /\ l.expire + late <= clock + l.time /\ l.expire <= server[i].until
        /\ clock <= l.expire => server[i].ip = l.v4
    BY <1>2, <2>2 DEF Good, GoodNow, GoodNext
  <2>5. clock \in Nat /\ late \in Nat /\ clock <= MaxClock /\ server[i].until \in Nat
    BY DEF Typed
  <2>6. b.until \in Nat
    BY BindingFacts
  <2>7. l.expire <= b.until
    <3>1. CASE t = 0
      BY <3>1, <2>3, <2>4, <2>5, BindingFacts DEF Forever
    <3>2. CASE t # 0
      BY <3>2, <2>3, <2>4, <2>5, <2>6, BindingFacts
    <3>. QED BY <3>1, <3>2
  <2>8. clock <= l.expire => b.ip = l.v4
    BY <2>3, <2>4, <2>5, BindingFacts
  <2>. QED BY <2>3, <2>4, <2>5, <2>7, <2>8
<1>. QED BY <1>1, <1>2

\* The daemon starts down, with no leases.
LEMMA LeaseInit == Init => LeaseInv
BY LeaseAssumption DEF Init, LeaseInv, Typed, Exclusion, Before, Grounded, Good, GoodNow, Resting,
   NoLease, LeaseN, ThreadN, MainStep, LoopStep, MainBusy, LoopBusy

\* What was good stays good while the binding stays and time runs on.
LEMMA GoodStays ==
    ASSUME NEW i \in Iface, NEW l \in LeaseN, GoodNow(i, l), server'[i] = server[i],
           clock \in Nat, late \in Nat, clock' \in Nat, late' \in Nat,
           server[i].until \in Nat,
           clock <= clock', clock + late' <= clock' + late
    PROVE  GoodNext(i, l)
<1>1. l.time \in Nat /\ l.expire \in Nat
  BY LeaseFields
<1>2. SUFFICES ASSUME l.v4 # None, l.time > 0
               PROVE  /\ l.expire + late' <= clock' + l.time
                      /\ clock' <= l.expire => clock <= l.expire
  BY DEF Good, GoodNow, GoodNext
<1>3. l.expire + late <= clock + l.time
  BY <1>2 DEF Good, GoodNow
<1>4. ASSUME NEW e \in Nat, NEW t \in Nat, NEW c \in Nat, NEW d \in Nat,
             NEW m \in Nat, NEW n \in Nat,
             e + m <= c + t, c + n <= d + m, c <= d
      PROVE  e + n <= d + t /\ (d <= e => c <= e)
  BY <1>4
<1>. QED BY <1>1, <1>3, <1>4

\* The lease that is none, is good; and v6 does not matter.
LEMMA NoLeaseGood ==
    /\ NoLease \in LeaseN
    /\ \A i \in Iface : GoodNext(i, NoLease)
BY DEF NoLease, LeaseN, Good, GoodNext

\* When a step keeps good leases good and moves leases about without making one, all
\* are good after it.
LEMMA MovedAbout ==
    ASSUME Typed, Grounded,
           \A i \in Iface, l \in LeaseN : GoodNow(i, l) => GoodNext(i, l),
           \A i \in Iface : /\ leases'[i] \in Leases(i) \cup {NoLease}
                            /\ disk'[i] \in Leases(i) \cup {NoLease},
           main'.at \in Iface => main'.new = NoLease \/ (main'.at = main.at /\ main'.new = main.new)
    PROVE  Grounded'
<1>1. \A i \in Iface : \A l \in Leases(i) \cup {NoLease} : GoodNext(i, l)
  <2>. SUFFICES ASSUME NEW i \in Iface, NEW l \in Leases(i) \cup {NoLease}
                PROVE  GoodNext(i, l)
    OBVIOUS
  <2>1. CASE l = NoLease
    BY <2>1, NoLeaseGood
  <2>2. CASE l \in {leases[i], disk[i]}
    BY <2>2 DEF Typed, Grounded
  <2>3. CASE main.at = i /\ l = main.new
    BY <2>3 DEF Typed, Grounded, ThreadN
  <2>. QED BY <2>1, <2>2, <2>3 DEF Leases
<1>2. main'.at \in Iface => GoodNext(main'.at, main'.new)
  BY NoLeaseGood, <1>1 DEF Leases
<1>3. \A i \in Iface : GoodNext(i, leases'[i]) /\ GoodNext(i, disk'[i])
  BY <1>1
<1>. QED BY <1>2, <1>3 DEF Grounded, GoodNow, GoodNext

\* Main before its next request: it builds no lease (Queued, LoadConfig).
LEMMA QueuedThread ==
    ASSUME Typed, NEW todo \in SUBSET Iface
    PROVE  /\ Queued(todo) \in ThreadN(MainStep)
           /\ Queued(todo).step \in {"idle", "lock"} /\ Queued(todo).new = NoLease
<1>1. NoLease \in LeaseN
  BY NoLeaseGood
<1>2. CASE todo = {}
  BY <1>1, <1>2 DEF Queued, Resting, ThreadN, MainStep
<1>3. CASE todo # {}
  <2>1. Queued(todo) = [step |-> "lock", todo |-> todo, at |-> None, new |-> NoLease, now |-> clock]
    BY <1>3 DEF Queued, Resting
  <2>. QED BY <2>1, <1>1 DEF ThreadN, MainStep, Typed
<1>. QED BY <1>2, <1>3

\* Loading a configuration leaves main idle or waiting for the lock.
LEMMA LoadThread ==
    ASSUME Typed, LoadConfig
    PROVE  /\ main' \in ThreadN(MainStep)
           /\ main'.step \in {"idle", "lock"} /\ main'.new = NoLease
<1>1. CASE main' = Resting("idle")
  BY <1>1, NoLeaseGood DEF Resting, ThreadN, MainStep
<1>2. CASE \E c \in Configs : Requests(c)
  <2>1. PICK c \in Configs : main' = Queued({i \in Iface : c[i] # {}})
    BY <1>2 DEF Requests
  <2>2. {i \in Iface : c[i] # {}} \in SUBSET Iface
    OBVIOUS
  <2>. QED BY <2>1, <2>2, QueuedThread
<1>. QED BY <1>1, <1>2 DEF LoadConfig

MoveAbout ==
    \/ LoopExits \/ StopDone \/ (\E i \in Iface : RequestLease(i)) \/ MainApplies
    \/ KeepLease \/ Ticked \/ CheckRenewals \/ NextLease \/ LoopApplies \/ SaveRenewed
    \/ DaemonStart \/ Reload \/ Terminate \/ Crash

\* No lease is made: those after the step are among those before it.
NoneMade ==
    /\ server' = server /\ clock' = clock /\ (late' = late \/ late' = 0)
    /\ \A i \in Iface : /\ leases'[i] \in Leases(i) \cup {NoLease}
                        /\ disk'[i] \in Leases(i) \cup {NoLease}
    /\ main'.at \in Iface =>
           main'.new = NoLease \/ (main'.at = main.at /\ main'.new = main.new)

\* Steps without an exchange and without time: leases move between memory, disk and
\* the goroutine that builds one, or are dropped.
LEMMA MoveFacts == ASSUME Typed, Exclusion, MoveAbout PROVE NoneMade
<1>. USE DEF MainStep, LoopStep, MainBusy, LoopBusy
<1>1. ASSUME LoopExits PROVE NoneMade
  <2>1. server' = server /\ clock' = clock /\ (late' = late \/ late' = 0)
    BY <1>1 DEF LoopExits
  <2>2. \A i \in Iface : /\ leases'[i] \in Leases(i) \cup {NoLease}
                         /\ disk'[i] \in Leases(i) \cup {NoLease}
    BY <1>1 DEF Typed, ThreadN, Exclusion, Leases, LoopExits
  <2>3. main'.at \in Iface => main'.new = NoLease \/ (main'.at = main.at /\ main'.new = main.new)
    BY <1>1 DEF Typed, ThreadN, Resting, LoopExits
  <2>. QED BY <2>1, <2>2, <2>3 DEF NoneMade
<1>2. ASSUME StopDone PROVE NoneMade
  <2>1. server' = server /\ clock' = clock /\ (late' = late \/ late' = 0)
    BY <1>2 DEF StopDone, Down, Has
  <2>2. \A i \in Iface : /\ leases'[i] \in Leases(i) \cup {NoLease}
                         /\ disk'[i] \in Leases(i) \cup {NoLease}
    BY <1>2 DEF Typed, ThreadN, Exclusion, Leases, StopDone, Down, Has
  <2>3. main'.at \in Iface => main'.new = NoLease \/ (main'.at = main.at /\ main'.new = main.new)
    BY <1>2 DEF Typed, ThreadN, Resting, StopDone, Down, Has
  <2>. QED BY <2>1, <2>2, <2>3 DEF NoneMade
<1>3. ASSUME \E i \in Iface : RequestLease(i) PROVE NoneMade
  <2>1. server' = server /\ clock' = clock /\ (late' = late \/ late' = 0)
    BY <1>3 DEF RequestLease
  <2>2. \A i \in Iface : /\ leases'[i] \in Leases(i) \cup {NoLease}
                         /\ disk'[i] \in Leases(i) \cup {NoLease}
    BY <1>3 DEF Typed, ThreadN, Exclusion, Leases, RequestLease
  <2>3. main'.at \in Iface => main'.new = NoLease \/ (main'.at = main.at /\ main'.new = main.new)
    BY <1>3 DEF Typed, ThreadN, Resting, RequestLease
  <2>. QED BY <2>1, <2>2, <2>3 DEF NoneMade
<1>4. ASSUME MainApplies PROVE NoneMade
  <2>1. server' = server /\ clock' = clock /\ (late' = late \/ late' = 0)
    BY <1>4 DEF MainApplies, Flush, AddAddress, MainAt, GoMain, AfterV4
  <2>2. \A i \in Iface : /\ leases'[i] \in Leases(i) \cup {NoLease}
                         /\ disk'[i] \in Leases(i) \cup {NoLease}
    BY <1>4 DEF Typed, ThreadN, Exclusion, Leases, MainApplies, Flush, AddAddress, MainAt, GoMain, AfterV4
  <2>3. main'.at \in Iface => main'.new = NoLease \/ (main'.at = main.at /\ main'.new = main.new)
    BY <1>4 DEF Typed, ThreadN, Resting, MainApplies, Flush, AddAddress, MainAt, GoMain, AfterV4
  <2>. QED BY <2>1, <2>2, <2>3 DEF NoneMade
<1>5. ASSUME KeepLease PROVE NoneMade
  <2>1. server' = server /\ clock' = clock /\ (late' = late \/ late' = 0)
    BY <1>5 DEF KeepLease, SaveLease, Queued, MainAt
  <2>2. \A i \in Iface : /\ leases'[i] \in Leases(i) \cup {NoLease}
                         /\ disk'[i] \in Leases(i) \cup {NoLease}
    BY <1>5 DEF Typed, ThreadN, Exclusion, Leases, KeepLease, SaveLease, Queued, MainAt
  <2>3. main'.at \in Iface => main'.new = NoLease \/ (main'.at = main.at /\ main'.new = main.new)
    BY <1>5 DEF Typed, ThreadN, Resting, KeepLease, SaveLease, Queued, MainAt
  <2>. QED BY <2>1, <2>2, <2>3 DEF NoneMade
<1>6. ASSUME Ticked PROVE NoneMade
  <2>1. server' = server /\ clock' = clock /\ (late' = late \/ late' = 0)
    BY <1>6 DEF Ticked, LoopAt
  <2>2. \A i \in Iface : /\ leases'[i] \in Leases(i) \cup {NoLease}
                         /\ disk'[i] \in Leases(i) \cup {NoLease}
    BY <1>6 DEF Typed, ThreadN, Exclusion, Leases, Ticked, LoopAt
  <2>3. main'.at \in Iface => main'.new = NoLease \/ (main'.at = main.at /\ main'.new = main.new)
    BY <1>6 DEF Typed, ThreadN, Resting, Ticked, LoopAt
  <2>. QED BY <2>1, <2>2, <2>3 DEF NoneMade
<1>7. ASSUME CheckRenewals PROVE NoneMade
  <2>1. server' = server /\ clock' = clock /\ (late' = late \/ late' = 0)
    BY <1>7 DEF CheckRenewals, LoopAt
  <2>2. \A i \in Iface : /\ leases'[i] \in Leases(i) \cup {NoLease}
                         /\ disk'[i] \in Leases(i) \cup {NoLease}
    BY <1>7 DEF Typed, ThreadN, Exclusion, Leases, CheckRenewals, LoopAt
  <2>3. main'.at \in Iface => main'.new = NoLease \/ (main'.at = main.at /\ main'.new = main.new)
    BY <1>7 DEF Typed, ThreadN, Resting, CheckRenewals, LoopAt
  <2>. QED BY <2>1, <2>2, <2>3 DEF NoneMade
<1>8. ASSUME NextLease PROVE NoneMade
  <2>1. server' = server /\ clock' = clock /\ (late' = late \/ late' = 0)
    BY <1>8 DEF NextLease, LoopAt
  <2>2. \A i \in Iface : /\ leases'[i] \in Leases(i) \cup {NoLease}
                         /\ disk'[i] \in Leases(i) \cup {NoLease}
    BY <1>8 DEF Typed, ThreadN, Exclusion, Leases, NextLease, LoopAt
  <2>3. main'.at \in Iface => main'.new = NoLease \/ (main'.at = main.at /\ main'.new = main.new)
    BY <1>8 DEF Typed, ThreadN, Resting, NextLease, LoopAt
  <2>. QED BY <2>1, <2>2, <2>3 DEF NoneMade
<1>9. ASSUME LoopApplies PROVE NoneMade
  <2>1. server' = server /\ clock' = clock /\ (late' = late \/ late' = 0)
    BY <1>9 DEF LoopApplies, LoopAt, GoLoop
  <2>2. \A i \in Iface : /\ leases'[i] \in Leases(i) \cup {NoLease}
                         /\ disk'[i] \in Leases(i) \cup {NoLease}
    BY <1>9 DEF Typed, ThreadN, Exclusion, Leases, LoopApplies, LoopAt, GoLoop
  <2>3. main'.at \in Iface => main'.new = NoLease \/ (main'.at = main.at /\ main'.new = main.new)
    BY <1>9 DEF Typed, ThreadN, Resting, LoopApplies, LoopAt, GoLoop
  <2>. QED BY <2>1, <2>2, <2>3 DEF NoneMade
<1>10. ASSUME SaveRenewed PROVE NoneMade
  <2>1. server' = server /\ clock' = clock /\ (late' = late \/ late' = 0)
    BY <1>10 DEF SaveRenewed, SaveLease, LoopAt, Continue
  <2>2. \A i \in Iface : /\ leases'[i] \in Leases(i) \cup {NoLease}
                         /\ disk'[i] \in Leases(i) \cup {NoLease}
    BY <1>10 DEF Typed, ThreadN, Exclusion, Leases, SaveRenewed, SaveLease, LoopAt, Continue
  <2>3. main'.at \in Iface => main'.new = NoLease \/ (main'.at = main.at /\ main'.new = main.new)
    BY <1>10 DEF Typed, ThreadN, Resting, SaveRenewed, SaveLease, LoopAt, Continue
  <2>. QED BY <2>1, <2>2, <2>3 DEF NoneMade
<1>11. ASSUME DaemonStart PROVE NoneMade
  <2>0. LoadConfig
    BY <1>11 DEF DaemonStart
  <2>1. server' = server /\ clock' = clock /\ (late' = late \/ late' = 0)
    BY <1>11 DEF DaemonStart, Loaded, LoadConfig, Requests, Queued
  <2>2. \A i \in Iface : /\ leases'[i] \in Leases(i) \cup {NoLease}
                         /\ disk'[i] \in Leases(i) \cup {NoLease}
    BY <1>11 DEF Typed, ThreadN, Exclusion, Leases, DaemonStart, Loaded, LoadConfig, Requests, Queued
  <2>3. main'.new = NoLease
    BY <2>0, LoadThread
  <2>. QED BY <2>1, <2>2, <2>3 DEF NoneMade
<1>12. ASSUME Reload PROVE NoneMade
  <2>0. LoadConfig
    BY <1>12 DEF Reload
  <2>1. server' = server /\ clock' = clock /\ (late' = late \/ late' = 0)
    BY <1>12 DEF Reload, LoadConfig, Requests, Queued
  <2>2. \A i \in Iface : /\ leases'[i] \in Leases(i) \cup {NoLease}
                         /\ disk'[i] \in Leases(i) \cup {NoLease}
    BY <1>12 DEF Typed, ThreadN, Exclusion, Leases, Reload, LoadConfig, Requests, Queued
  <2>3. main'.new = NoLease
    BY <2>0, LoadThread
  <2>. QED BY <2>1, <2>2, <2>3 DEF NoneMade
<1>13. ASSUME Terminate PROVE NoneMade
  <2>1. server' = server /\ clock' = clock /\ (late' = late \/ late' = 0)
    BY <1>13 DEF Terminate
  <2>2. \A i \in Iface : /\ leases'[i] \in Leases(i) \cup {NoLease}
                         /\ disk'[i] \in Leases(i) \cup {NoLease}
    BY <1>13 DEF Typed, ThreadN, Exclusion, Leases, Terminate
  <2>3. main'.at \in Iface => main'.new = NoLease \/ (main'.at = main.at /\ main'.new = main.new)
    BY <1>13 DEF Typed, ThreadN, Resting, Terminate
  <2>. QED BY <2>1, <2>2, <2>3 DEF NoneMade
<1>14. ASSUME Crash PROVE NoneMade
  <2>1. server' = server /\ clock' = clock /\ (late' = late \/ late' = 0)
    BY <1>14 DEF Crash, Down, Faulty
  <2>2. \A i \in Iface : /\ leases'[i] \in Leases(i) \cup {NoLease}
                         /\ disk'[i] \in Leases(i) \cup {NoLease}
    BY <1>14 DEF Typed, ThreadN, Exclusion, Leases, Crash, Down, Faulty
  <2>3. main'.at \in Iface => main'.new = NoLease \/ (main'.at = main.at /\ main'.new = main.new)
    BY <1>14 DEF Typed, ThreadN, Resting, Crash, Down, Faulty
  <2>. QED BY <2>1, <2>2, <2>3 DEF NoneMade
<1>. QED
  BY <1>1, <1>2, <1>3, <1>4, <1>5, <1>6, <1>7, <1>8, <1>9, <1>10, <1>11, <1>12, <1>13, <1>14 DEF MoveAbout

\* They keep the invariant; the mutex changes hands.
LEMMA MoveInv == ASSUME LeaseInv, MoveAbout PROVE LeaseInv'
<1>. USE DEF MainStep, LoopStep, MainBusy, LoopBusy
<1>0. Typed /\ Exclusion /\ Before /\ Grounded
  BY DEF LeaseInv
<1>c. Grounded'
  <2>1. \A i \in Iface, l \in LeaseN : GoodNow(i, l) => GoodNext(i, l)
    BY <1>0, MoveFacts, GoodStays DEF Typed, NoneMade
  <2>. QED BY <1>0, <2>1, MoveFacts, MovedAbout DEF NoneMade
<1>a. NoLease \in LeaseN
  BY NoLeaseGood
<1>b. /\ Resting("idle") \in ThreadN(MainStep) /\ Resting("stop") \in ThreadN(MainStep)
      /\ Resting("down") \in ThreadN(MainStep) /\ Resting("lock") \in ThreadN(MainStep)
      /\ Resting("down") \in ThreadN(LoopStep) /\ Resting("wait") \in ThreadN(LoopStep)
  BY <1>a DEF Resting, ThreadN
<1>1. ASSUME LoopExits PROVE Typed' /\ Exclusion' /\ Before'
  <2>1. Typed'
    BY <1>1, <1>0, <1>a, <1>b DEF Typed, ThreadN, Resting, Exclusion, LoopExits
  <2>2. Exclusion' /\ Before'
    BY <1>1, <1>0 DEF Typed, ThreadN, Resting, Exclusion, Before, LoopExits
  <2>. QED BY <2>1, <2>2
<1>2. ASSUME StopDone PROVE Typed' /\ Exclusion' /\ Before'
  <2>1. Typed'
    BY <1>2, <1>0, <1>a, <1>b DEF Typed, ThreadN, Resting, Exclusion, StopDone, Down, Has
  <2>2. Exclusion' /\ Before'
    BY <1>2, <1>0 DEF Typed, ThreadN, Resting, Exclusion, Before, StopDone, Down, Has
  <2>. QED BY <2>1, <2>2
<1>3. ASSUME \E i \in Iface : RequestLease(i) PROVE Typed' /\ Exclusion' /\ Before'
  <2>1. Typed'
    <3>1. PICK i \in Iface : RequestLease(i)
      BY <1>3
    <3>2. main' = [step |-> IF "v4" \in want[i] THEN "v4" ELSE "v6", todo |-> main.todo,
                   at |-> i, new |-> NoLease, now |-> clock]
      BY <3>1, <1>0 DEF RequestLease, Typed, ThreadN
    <3>3. main' \in ThreadN(MainStep)
      BY <3>2, <1>0, <1>a DEF Typed, ThreadN
    <3>. QED BY <3>1, <3>3, <1>0 DEF Typed, RequestLease
  <2>2. Exclusion' /\ Before'
    BY <1>3, <1>0 DEF Typed, ThreadN, Resting, Exclusion, Before, RequestLease
  <2>. QED BY <2>1, <2>2
<1>4. ASSUME MainApplies PROVE Typed' /\ Exclusion' /\ Before'
  <2>1. Typed'
    BY <1>4, <1>0, <1>a, <1>b DEF Typed, ThreadN, Resting, Exclusion, MainApplies, Flush, AddAddress, MainAt, GoMain, AfterV4
  <2>2. Exclusion' /\ Before'
    BY <1>4, <1>0 DEF Typed, ThreadN, Resting, Exclusion, Before, MainApplies, Flush, AddAddress, MainAt, GoMain, AfterV4
  <2>. QED BY <2>1, <2>2
<1>5. ASSUME KeepLease PROVE Typed' /\ Exclusion' /\ Before'
  <2>1. Typed'
    BY <1>5, <1>0, <1>a, <1>b DEF Typed, ThreadN, Resting, Exclusion, KeepLease, SaveLease, Queued, MainAt
  <2>2. Exclusion' /\ Before'
    BY <1>5, <1>0 DEF Typed, ThreadN, Resting, Exclusion, Before, KeepLease, SaveLease, Queued, MainAt
  <2>. QED BY <2>1, <2>2
<1>6. ASSUME Ticked PROVE Typed' /\ Exclusion' /\ Before'
  <2>1. Typed'
    BY <1>6, <1>0, <1>a, <1>b DEF Typed, ThreadN, Resting, Exclusion, Ticked, LoopAt
  <2>2. Exclusion' /\ Before'
    BY <1>6, <1>0 DEF Typed, ThreadN, Resting, Exclusion, Before, Ticked, LoopAt
  <2>. QED BY <2>1, <2>2
<1>7. ASSUME CheckRenewals PROVE Typed' /\ Exclusion' /\ Before'
  <2>1. Typed'
    BY <1>7, <1>0, <1>a, <1>b DEF Typed, ThreadN, Resting, Exclusion, CheckRenewals, LoopAt
  <2>2. Exclusion' /\ Before'
    BY <1>7, <1>0 DEF Typed, ThreadN, Resting, Exclusion, Before, CheckRenewals, LoopAt
  <2>. QED BY <2>1, <2>2
<1>8. ASSUME NextLease PROVE Typed' /\ Exclusion' /\ Before'
  <2>0. /\ loop' \in ThreadN(LoopStep)
        /\ \/ loop'.step \in {"next", "renew"} /\ loop'.now = loop.now /\ UNCHANGED lock
              /\ (loop'.step = "renew" => loop'.at \in Iface)
           \/ loop'.step = "wait" /\ lock' = "free"
    <3>1. ASSUME NEW i \in loop.todo,
                 loop' = IF MustRenew(i) THEN [loop EXCEPT !.step = "renew", !.at = i]
                                         ELSE [loop EXCEPT !.todo = @ \ {i}]
          PROVE  /\ loop' \in ThreadN(LoopStep) /\ loop'.step \in {"next", "renew"}
                 /\ loop'.now = loop.now /\ (loop'.step = "renew" => loop'.at \in Iface)
      <4>1. i \in Iface /\ loop.step = "next"
        BY <1>8, <1>0 DEF Typed, ThreadN, NextLease, LoopAt
      <4>2. CASE MustRenew(i)
        BY <3>1, <4>1, <4>2, <1>0 DEF Typed, ThreadN
      <4>3. CASE ~MustRenew(i)
        BY <3>1, <4>1, <4>3, <1>0 DEF Typed, ThreadN
      <4>. QED BY <4>2, <4>3
    <3>2. CASE loop' = Resting("wait") /\ lock' = "free"
      BY <3>2, <1>b DEF Resting
    <3>. QED BY <1>8, <3>1, <3>2 DEF NextLease
  <2>1. Typed'
    BY <1>8, <1>0, <2>0 DEF Typed, NextLease
  <2>2. Exclusion' /\ Before'
    BY <1>8, <1>0, <2>0 DEF Exclusion, Before, NextLease, LoopAt
  <2>. QED BY <2>1, <2>2
<1>9. ASSUME LoopApplies PROVE Typed' /\ Exclusion' /\ Before'
  <2>1. Typed'
    BY <1>9, <1>0, <1>a, <1>b DEF Typed, ThreadN, Resting, Exclusion, LoopApplies, LoopAt, GoLoop
  <2>2. Exclusion' /\ Before'
    BY <1>9, <1>0 DEF Typed, ThreadN, Resting, Exclusion, Before, LoopApplies, LoopAt, GoLoop
  <2>. QED BY <2>1, <2>2
<1>10. ASSUME SaveRenewed PROVE Typed' /\ Exclusion' /\ Before'
  <2>1. Typed'
    BY <1>10, <1>0, <1>a, <1>b DEF Typed, ThreadN, Resting, Exclusion, SaveRenewed, SaveLease, LoopAt, Continue
  <2>2. Exclusion' /\ Before'
    BY <1>10, <1>0 DEF Typed, ThreadN, Resting, Exclusion, Before, SaveRenewed, SaveLease, LoopAt, Continue
  <2>. QED BY <2>1, <2>2
<1>11. ASSUME DaemonStart PROVE Typed' /\ Exclusion' /\ Before'
  <2>0. LoadConfig
    BY <1>11 DEF DaemonStart
  <2>1. Typed'
    BY <1>11, <1>0, <1>a, <1>b, <2>0, LoadThread DEF Typed, DaemonStart, Loaded
  <2>2. Exclusion' /\ Before'
    BY <1>11, <1>0, <2>0, LoadThread DEF Resting, Exclusion, Before, DaemonStart
  <2>. QED BY <2>1, <2>2
<1>12. ASSUME Reload PROVE Typed' /\ Exclusion' /\ Before'
  <2>0. LoadConfig
    BY <1>12 DEF Reload
  <2>1. Typed'
    BY <1>12, <1>0, <1>a, <1>b, <2>0, LoadThread DEF Typed, Reload
  <2>2. Exclusion' /\ Before'
    BY <1>12, <1>0, <2>0, LoadThread DEF Resting, Exclusion, Before, Reload
  <2>. QED BY <2>1, <2>2
<1>13. ASSUME Terminate PROVE Typed' /\ Exclusion' /\ Before'
  <2>1. Typed'
    BY <1>13, <1>0, <1>a, <1>b DEF Typed, ThreadN, Resting, Exclusion, Terminate
  <2>2. Exclusion' /\ Before'
    BY <1>13, <1>0 DEF Typed, ThreadN, Resting, Exclusion, Before, Terminate
  <2>. QED BY <2>1, <2>2
<1>14. ASSUME Crash PROVE Typed' /\ Exclusion' /\ Before'
  <2>1. Typed'
    BY <1>14, <1>0, <1>a, <1>b DEF Typed, ThreadN, Resting, Exclusion, Crash, Down, Faulty
  <2>2. Exclusion' /\ Before'
    BY <1>14, <1>0 DEF Typed, ThreadN, Resting, Exclusion, Before, Crash, Down, Faulty
  <2>. QED BY <2>1, <2>2
<1>. QED
  BY <1>c, <1>1, <1>2, <1>3, <1>4, <1>5, <1>6, <1>7, <1>8, <1>9, <1>10, <1>11, <1>12, <1>13, <1>14 DEF MoveAbout, LeaseInv

\* Time passes only where nobody works, or during an exchange, which it delays.
LEMMA TickInv == ASSUME LeaseInv, Tick PROVE LeaseInv'
<1>0. Typed /\ Exclusion /\ Before /\ Grounded
  BY DEF LeaseInv
<1>1. /\ clock \in Nat /\ late \in Nat /\ late <= clock /\ clock < MaxClock /\ MaxClock \in Nat
      /\ clock' = clock + 1 /\ (late' = late \/ late' = late + 1)
      /\ main' = main /\ loop' = loop /\ lock' = lock
      /\ leases' = leases /\ disk' = disk /\ server' = server
  BY <1>0, LeaseAssumption DEF Tick, Typed
<1>2. Typed'
  BY <1>0, <1>1 DEF Typed
<1>3. Exclusion'
  <2>1. CASE late' = late
    BY <1>0, <1>1, <2>1 DEF Exclusion
  <2>2. CASE Exchanging
    BY <1>0, <1>1, <2>2 DEF Exclusion, Exchanging, MainBusy, LoopBusy
  <2>. QED BY <2>1, <2>2 DEF Tick
<1>4. Before'
  <2>1. main.now \in Nat /\ loop.now \in Nat
    BY <1>0 DEF Typed, ThreadN
  <2>. QED BY <1>0, <1>1, <2>1 DEF Before
<1>5. \A i \in Iface, l \in LeaseN : GoodNow(i, l) => GoodNext(i, l)
  BY <1>0, <1>1, GoodStays DEF Typed
<1>6. Grounded'
  BY <1>0, <1>1, <1>5, MovedAbout DEF Leases
<1>. QED BY <1>2, <1>3, <1>4, <1>6 DEF LeaseInv

\* A DHCPv6 exchange ends: the lease being built only learns of it.
LEMMA V6Inv == ASSUME LeaseInv, RequestDHCPv6 PROVE LeaseInv'
<1>0. Typed /\ Exclusion /\ Before /\ Grounded
  BY DEF LeaseInv
<1>1. /\ late' = 0 /\ main'.step = "save" /\ main'.at = main.at
      /\ clock' = clock /\ loop' = loop /\ lock' = lock
      /\ leases' = leases /\ disk' = disk /\ server' = server
  BY <1>0 DEF RequestDHCPv6, GoMain, Typed, ThreadN
<1>2. main' \in ThreadN(MainStep) /\ main'.new \in LeaseN
      /\ main'.new.v4 = main.new.v4 /\ main'.new.time = main.new.time
      /\ main'.new.expire = main.new.expire
  <2>1. CASE main' = [main EXCEPT !.step = "save", !.new.v6 = TRUE]
    <3>1. main.new \in LeaseN /\ main.todo \in SUBSET Iface /\ main.at \in Iface \cup {None}
          /\ main.now \in Nat
      BY <1>0 DEF Typed, ThreadN
    <3>2. main' = [step |-> "save", todo |-> main.todo, at |-> main.at,
                   new |-> [main.new EXCEPT !.v6 = TRUE], now |-> main.now]
      BY <1>0, <2>1 DEF Typed, ThreadN
    <3>3. [main.new EXCEPT !.v6 = TRUE] \in LeaseN
      BY <3>1 DEF LeaseN
    <3>4. main' \in ThreadN(MainStep) /\ main'.new \in LeaseN
      BY <3>1, <3>2, <3>3 DEF ThreadN, MainStep
    <3>5. main'.new = [main.new EXCEPT !.v6 = TRUE]
      BY <3>2
    <3>. QED BY <3>1, <3>4, <3>5 DEF LeaseN
  <2>2. CASE GoMain("save")
    BY <1>0, <2>2 DEF Typed, ThreadN, GoMain, MainStep
  <2>. QED BY <2>1, <2>2 DEF RequestDHCPv6
<1>3. Typed'
  BY <1>0, <1>1, <1>2 DEF Typed
<1>4. Exclusion' /\ Before'
  BY <1>0, <1>1 DEF Exclusion, Before, RequestDHCPv6, MainAt, MainBusy, LoopBusy, Typed, ThreadN
<1>5. \A i \in Iface, l \in LeaseN : GoodNow(i, l) => GoodNext(i, l)
  BY <1>0, <1>1, GoodStays DEF Typed
<1>6. Grounded'
  <2>1. \A i \in Iface : GoodNext(i, leases[i]) /\ GoodNext(i, disk[i])
    BY <1>0, <1>5 DEF Grounded, Typed
  <2>2. main.at \in Iface => GoodNext(main.at, main.new)
    BY <1>0, <1>5 DEF Grounded, Typed, ThreadN
  <2>3. main.at \in Iface => GoodNext(main.at, main'.new)
    BY <1>2, <2>2 DEF GoodNext, Good
  <2>. QED BY <1>1, <2>1, <2>3 DEF Grounded, GoodNow, GoodNext
<1>. QED BY <1>3, <1>4, <1>6 DEF LeaseInv

\* An exchange that ends, answered or not, leaves every lease backed that was.
LEMMA ExchangeKeeps ==
    ASSUME Typed, NEW i \in Iface, UNCHANGED clock,
           (\E t \in LeaseTime, ip \in IP : Answer(i, t, ip)) \/ NoAnswer(i)
    PROVE  /\ late' = 0
           /\ server' \in [Iface -> [ip : IP \cup {None}, until : Nat]]
           /\ \A j \in Iface \ {i} : server'[j] = server[j]
           /\ \A j \in Iface, l \in LeaseN : GoodNow(j, l) => GoodNext(j, l)
<1>1. late' = 0
  BY DEF Answer, NoAnswer
<1>2. CASE UNCHANGED server
  BY <1>1, <1>2, GoodStays DEF Typed
<1>3. CASE \E t \in LeaseTime : \E b \in Binding(i, t) : server' = [server EXCEPT ![i] = b]
  <2>1. PICK t \in LeaseTime : \E b \in Binding(i, t) : server' = [server EXCEPT ![i] = b]
    BY <1>3
  <2>2. PICK b \in Binding(i, t) : server' = [server EXCEPT ![i] = b]
    BY <2>1
  <2>3. b \in [ip : IP \cup {None}, until : Nat]
    BY BindingFacts
  <2>4. \A j \in Iface, l \in LeaseN : GoodNow(j, l) => GoodNext(j, l)
    BY <1>1, <2>2, RebindKeeps
  <2>. QED BY <1>1, <2>2, <2>3, <2>4 DEF Typed
<1>. QED BY <1>2, <1>3 DEF Answer, NoAnswer

\* A lease made from an answer is backed when its time counts from a moment before
\* the request (FirstLease, Renewed).
LEMMA NewLeaseGood ==
    ASSUME Typed, NEW i \in Iface, NEW t \in LeaseTime, NEW ip \in IP, Answer(i, t, ip),
           UNCHANGED clock, NEW n \in Nat, n + late <= clock,
           NEW l \in LeaseN, l.v4 = ip, l.time = t, t > 0 => l.expire = n + t
    PROVE  GoodNext(i, l) /\ (t > 0 => server'[i].ip = ip)
<1>1. PICK b \in Binding(i, t) : /\ ip = b.ip \/ (t = 0 /\ ip \in addr[i])
                                 /\ server' = [server EXCEPT ![i] = b] /\ late' = 0
  BY DEF Answer
<1>2. server'[i] = b
  BY <1>1 DEF Typed
<1>3. t \in Nat /\ clock \in Nat /\ late \in Nat
  BY LeaseAssumption DEF Typed
<1>4. b.until \in Nat /\ (t > 0 => clock + t <= b.until + late)
  BY BindingFacts
<1>5. t > 0 => n + t <= clock + t /\ n + t <= b.until /\ b.ip = ip
  BY <1>1, <1>3, <1>4
<1>. QED BY <1>1, <1>2, <1>3, <1>4, <1>5 DEF GoodNext, Good

\* The first lease of an interface is well formed.
LEMMA FirstLeaseTyped ==
    ASSUME NEW t \in LeaseTime, NEW ip \in IP, NEW n \in Nat
    PROVE  FirstLease(t, ip, n) \in LeaseN
<1>1. t \in Nat /\ Half \in Nat
  BY LeaseAssumption
<1>2. t \div 2 \in Nat
  BY <1>1
<1>3. /\ (IF t > 0 THEN n + t \div 2 ELSE n + Half) \in Nat
      /\ (IF t > 0 THEN n + t ELSE n + 2 * Half) \in Nat
  BY <1>1, <1>2
<1>. QED BY <1>3 DEF FirstLease, LeaseN

\* So is a renewed one.
LEMMA RenewedTyped ==
    ASSUME NEW t \in LeaseTime, NEW ip \in IP, NEW n \in Nat, NEW l \in LeaseN
    PROVE  /\ Renewed(l, t, ip, n) \in LeaseN
           /\ Renewed(l, t, ip, n).v4 = ip /\ Renewed(l, t, ip, n).time = t
           /\ t > 0 => Renewed(l, t, ip, n).expire = n + t
<1>1. t \in Nat
  BY LeaseAssumption
<1>2. t \div 2 \in Nat
  BY <1>1
<1>3. l.renew \in Nat /\ l.expire \in Nat /\ l.v6 \in BOOLEAN
  BY DEF LeaseN
<1>4. /\ (IF t > 0 THEN n + t \div 2 ELSE l.renew) \in Nat
      /\ (IF t > 0 THEN n + t ELSE l.expire) \in Nat
  BY <1>1, <1>2, <1>3
<1>. DEFINE r == IF t > 0 THEN n + t \div 2 ELSE l.renew
            e == IF t > 0 THEN n + t ELSE l.expire
<1>5. /\ Renewed(l, t, ip, n) = [l EXCEPT !.v4 = ip, !.time = t, !.renew = r, !.expire = e]
      /\ r \in Nat /\ e \in Nat /\ (t > 0 => e = n + t)
  BY <1>4 DEF Renewed
<1>. HIDE DEF r, e
<1>. QED BY <1>3, <1>5 DEF LeaseN

\* A DHCPv4 exchange of main ends: the lease it builds is backed.
LEMMA V4Inv == ASSUME LeaseInv, RequestDHCPv4 PROVE LeaseInv'
<1>0. Typed /\ Exclusion /\ Before /\ Grounded
  BY DEF LeaseInv
<1>1. /\ clock' = clock /\ leases' = leases /\ disk' = disk /\ loop' = loop /\ lock' = lock
      /\ main.step = "v4" /\ main.at \in Iface /\ main.now \in Nat
      /\ main.now + late <= clock
      /\ main.new \in LeaseN /\ main.todo \in SUBSET Iface
  BY <1>0 DEF RequestDHCPv4, MainAt, Exclusion, Before, Typed, ThreadN, MainBusy
<1>2. (\E t \in LeaseTime, ip \in IP : Answer(main.at, t, ip)) \/ NoAnswer(main.at)
  BY DEF RequestDHCPv4
<1>3. /\ late' = 0
      /\ server' \in [Iface -> [ip : IP \cup {None}, until : Nat]]
      /\ \A j \in Iface, l \in LeaseN : GoodNow(j, l) => GoodNext(j, l)
  BY <1>0, <1>1, <1>2, ExchangeKeeps
<1>4. /\ main' \in ThreadN(MainStep) /\ main'.at = main.at /\ main'.step \in {"flush", "v6", "save"}
      /\ GoodNext(main.at, main'.new)
  <2>1. CASE GoMain(AfterV4)
    <3>1. main' \in ThreadN(MainStep) /\ main'.at = main.at /\ main'.step \in {"v6", "save"}
          /\ main'.new = main.new
      BY <1>0, <2>1 DEF GoMain, AfterV4, Typed, ThreadN, MainStep
    <3>. QED BY <1>0, <1>1, <1>3, <3>1 DEF Grounded
  <2>2. ASSUME NEW t \in LeaseTime, NEW ip \in IP, Answer(main.at, t, ip),
               main' = [main EXCEPT !.step = "flush", !.new = FirstLease(t, ip, main.now)]
        PROVE  /\ main' \in ThreadN(MainStep) /\ main'.at = main.at /\ main'.step = "flush"
               /\ GoodNext(main.at, main'.new)
    <3>1. FirstLease(t, ip, main.now) \in LeaseN
      BY <1>1, FirstLeaseTyped
    <3>2. main' = [step |-> "flush", todo |-> main.todo, at |-> main.at,
                   new |-> FirstLease(t, ip, main.now), now |-> main.now]
      BY <1>0, <2>2 DEF Typed, ThreadN
    <3>3. main' \in ThreadN(MainStep)
      BY <1>1, <3>1, <3>2 DEF ThreadN, MainStep
    <3>4. /\ FirstLease(t, ip, main.now).v4 = ip /\ FirstLease(t, ip, main.now).time = t
          /\ t > 0 => FirstLease(t, ip, main.now).expire = main.now + t
      BY DEF FirstLease
    <3>5. GoodNext(main.at, FirstLease(t, ip, main.now))
      BY <1>0, <1>1, <2>2, <3>1, <3>4, NewLeaseGood
    <3>. QED BY <3>2, <3>3, <3>5
  <2>. QED BY <2>1, <2>2 DEF RequestDHCPv4
<1>5. Typed'
  BY <1>0, <1>1, <1>3, <1>4 DEF Typed
<1>6. Exclusion' /\ Before'
  BY <1>0, <1>1, <1>3, <1>4 DEF Exclusion, Before, MainBusy, LoopBusy
<1>7. Grounded'
  <2>1. \A i \in Iface : GoodNext(i, leases[i]) /\ GoodNext(i, disk[i])
    BY <1>0, <1>3 DEF Grounded, Typed
  <2>. QED BY <1>1, <1>4, <2>1 DEF Grounded, GoodNow, GoodNext
<1>. QED BY <1>5, <1>6, <1>7 DEF LeaseInv

\* A renewal ends: the lease it renews is backed.
LEMMA RenewInv == ASSUME LeaseInv, RenewLease PROVE LeaseInv'
<1>0. Typed /\ Exclusion /\ Before /\ Grounded
  BY DEF LeaseInv
<1>1. /\ clock' = clock /\ disk' = disk /\ main' = main /\ lock' = lock
      /\ loop.step \in {"renew", "request"} /\ loop.at \in Iface /\ loop.now \in Nat
      /\ loop.now + late <= clock
      /\ leases[loop.at] \in LeaseN
  BY <1>0 DEF RenewLease, Exclusion, Before, Typed, ThreadN, LoopBusy
<1>2. (\E t \in LeaseTime, ip \in IP : Answer(loop.at, t, ip)) \/ NoAnswer(loop.at)
  BY DEF RenewLease
<1>3. /\ late' = 0
      /\ server' \in [Iface -> [ip : IP \cup {None}, until : Nat]]
      /\ \A j \in Iface, l \in LeaseN : GoodNow(j, l) => GoodNext(j, l)
  BY <1>0, <1>1, <1>2, ExchangeKeeps
<1>4. /\ loop' \in ThreadN(LoopStep) /\ loop'.now = loop.now
      /\ loop'.step \in {"flush", "request", "next"}
      /\ loop'.step # "next" => loop'.at = loop.at
  <2>1. GoLoop("flush") \/ GoLoop("request") \/ Continue
    BY DEF RenewLease
  <2>. QED BY <1>0, <1>1, <2>1 DEF GoLoop, Continue, Typed, ThreadN, LoopStep
<1>5. leases' \in [Iface -> LeaseN] /\ \A i \in Iface : GoodNext(i, leases'[i])
  <2>0. \A i \in Iface : GoodNext(i, leases[i])
    BY <1>0, <1>3 DEF Grounded, Typed
  <2>1. CASE leases' = leases
    BY <1>0, <2>0, <2>1 DEF Typed
  <2>2. ASSUME NEW t \in LeaseTime, NEW ip \in IP, Answer(loop.at, t, ip),
               leases' = [leases EXCEPT ![loop.at] = Renewed(@, t, ip, loop.now)]
        PROVE  leases' \in [Iface -> LeaseN] /\ \A i \in Iface : GoodNext(i, leases'[i])
    <3> DEFINE l == Renewed(leases[loop.at], t, ip, loop.now)
    <3>1. l \in LeaseN /\ l.v4 = ip /\ l.time = t /\ (t > 0 => l.expire = loop.now + t)
      BY <1>1, RenewedTyped
    <3>. HIDE DEF l
    <3>2. GoodNext(loop.at, l)
      BY <1>0, <1>1, <2>2, <3>1, NewLeaseGood
    <3>3. leases' = [leases EXCEPT ![loop.at] = l]
      BY <2>2 DEF l
    <3>. QED BY <1>0, <1>1, <2>0, <3>1, <3>2, <3>3 DEF Typed
  <2>. QED BY <2>1, <2>2 DEF RenewLease
<1>6. Typed'
  BY <1>0, <1>1, <1>3, <1>4, <1>5 DEF Typed
<1>7. Exclusion' /\ Before'
  BY <1>0, <1>1, <1>3, <1>4 DEF Exclusion, Before, MainBusy, LoopBusy, Typed, ThreadN
<1>8. Grounded'
  <2>1. \A i \in Iface : GoodNext(i, disk[i])
    BY <1>0, <1>3 DEF Grounded, Typed
  <2>2. main.at \in Iface => GoodNext(main.at, main.new)
    BY <1>0, <1>3 DEF Grounded, Typed, ThreadN
  <2>. QED BY <1>1, <1>5, <2>1, <2>2 DEF Grounded, GoodNow, GoodNext
<1>. QED BY <1>6, <1>7, <1>8 DEF LeaseInv

\* Every step of the daemon, of time and of its death keeps the invariant.
LEMMA LeaseStep == LeaseInv /\ [Next]_vars => LeaseInv'
<1>. SUFFICES ASSUME LeaseInv, [Next]_vars PROVE LeaseInv'
  OBVIOUS
<1>1. CASE UNCHANGED vars
  BY <1>1 DEF vars, LeaseInv, Typed, Exclusion, Before, Grounded, GoodNow
<1>2. CASE MoveAbout
  BY <1>2, MoveInv
<1>3. CASE Tick \/ RequestDHCPv6 \/ RequestDHCPv4 \/ RenewLease
  BY <1>3, TickInv, V6Inv, V4Inv, RenewInv
<1>. QED BY <1>1, <1>2, <1>3 DEF Next, DaemonStep, MoveAbout

-----------------------------------------------------------------------------

\* Whatever is lost, delayed or dies, a lease in memory or in a file that is taken
\* to be valid, is backed by the server (the times count from before the request).
THEOREM LeasesBacked == Spec => []BeliefSound
<1>1. LeaseInv => BeliefSound
  <2>. SUFFICES ASSUME LeaseInv, NEW i \in Iface, NEW l \in {leases[i], disk[i]},
                       l.v4 # None, l.time > 0, clock <= l.expire
                PROVE  server[i].ip = l.v4 /\ l.expire <= server[i].until
    BY DEF BeliefSound
  <2>1. GoodNow(i, l)
    BY DEF LeaseInv, Grounded
  <2>. QED BY <2>1 DEF GoodNow, Good
<1>. QED BY <1>1, LeaseInit, LeaseStep, PTL DEF Spec

-----------------------------------------------------------------------------
(* The daemon implements the contract.                                     *)

\* A good lease that has not expired is one the contract calls backed.
LEMMA StillBacked ==
    ASSUME LeaseInv, NEW i \in Iface,
           \A l \in LeaseN : GoodNow(i, l) => GoodNext(i, l), UNCHANGED clock,
           NEW b \in Believed(i), clock <= b.until
    PROVE  Contract!Backs(server'[i], b)
<1>1. PICK l \in Leases(i) : /\ l.v4 # None /\ l.time > 0
                             /\ b = [ip |-> l.v4, until |-> l.expire]
  BY DEF Believed
<1>2. l \in LeaseN /\ GoodNow(i, l)
  BY DEF Leases, LeaseInv, Typed, Grounded, ThreadN
<1>3. GoodNext(i, l) /\ clock <= l.expire
  BY <1>1, <1>2
<1>. QED BY <1>1, <1>3 DEF GoodNext, Good, Contract!Backs

\* A step that makes no lease makes no belief.
LEMMA NoneBelieved ==
    ASSUME NoneMade
    PROVE  \A i \in Iface : Believed(i)' \subseteq Believed(i)
<1>. SUFFICES ASSUME NEW i \in Iface PROVE Believed(i)' \subseteq Believed(i)
  OBVIOUS
<1>1. Leases(i)' \subseteq Leases(i) \cup {NoLease}
  BY DEF NoneMade, Leases
<1>2. NoLease.v4 = None
  BY DEF NoLease
<1>. QED BY <1>1, <1>2 DEF Believed

\* An exchange about i: when the only lease that may be new is backed, what the client
\* comes to hold is backed, and nothing is touched about the other interfaces.
LEMMA ExchangeKept ==
    ASSUME LeaseInv, NEW i \in Iface, UNCHANGED clock,
           \A l \in LeaseN : GoodNow(i, l) => GoodNext(i, l),
           \A j \in Iface \ {i} : server'[j] = server[j] /\ Leases(j)' = Leases(j),
           NEW n, n.v4 # None /\ n.time > 0 => server'[i].ip = n.v4 /\ n.expire <= server'[i].until,
           Leases(i)' \subseteq Leases(i) \cup {n}
    PROVE  Contract!Exchange(i)
<1>1. \A b \in Believed(i) : clock <= b.until => Contract!Backs(server'[i], b)
  BY StillBacked
<1>2. \A b \in Believed(i)' \ Believed(i) : Contract!Backs(server'[i], b)
  <2>. SUFFICES ASSUME NEW b \in Believed(i)', b \notin Believed(i)
                PROVE  Contract!Backs(server'[i], b)
    OBVIOUS
  <2>1. PICK l \in Leases(i)' : /\ l.v4 # None /\ l.time > 0
                                /\ b = [ip |-> l.v4, until |-> l.expire]
    BY DEF Believed
  <2>2. l = n
    BY <2>1 DEF Believed
  <2>. QED BY <2>1, <2>2 DEF Contract!Backs
<1>3. \A j \in Iface \ {i} : Believed(j)' = Believed(j)
  BY DEF Believed
<1>. QED BY <1>1, <1>2, <1>3 DEF Contract!Exchange

\* The end of main's DHCPv4 exchange is an exchange of the contract.
LEMMA V4Kept == ASSUME LeaseInv, RequestDHCPv4 PROVE \E i \in Iface : Contract!Exchange(i)
<1>0. Typed /\ Exclusion /\ Before /\ Grounded
  BY DEF LeaseInv
<1>1. /\ clock' = clock /\ leases' = leases /\ disk' = disk
      /\ main.at \in Iface /\ main.now \in Nat /\ main.now + late <= clock
  BY <1>0 DEF RequestDHCPv4, MainAt, Exclusion, Before, Typed, ThreadN, MainBusy
<1>i. PICK i \in Iface : i = main.at
  BY <1>1
<1>2. (\E t \in LeaseTime, ip \in IP : Answer(i, t, ip)) \/ NoAnswer(i)
  BY <1>i DEF RequestDHCPv4
<1>3. /\ \A l \in LeaseN : GoodNow(i, l) => GoodNext(i, l)
      /\ \A j \in Iface \ {i} : server'[j] = server[j]
  BY <1>0, <1>1, <1>2, ExchangeKeeps
<1>4. main'.at = i
  BY <1>0, <1>i DEF RequestDHCPv4, GoMain, Typed, ThreadN
<1>5. \A j \in Iface \ {i} : server'[j] = server[j] /\ Leases(j)' = Leases(j)
  BY <1>1, <1>i, <1>3, <1>4 DEF Leases
<1>6. CASE GoMain(AfterV4)
  <2>1. Leases(i)' \subseteq Leases(i) \cup {NoLease}
    BY <1>0, <1>1, <1>i, <1>6 DEF GoMain, Leases, Typed, ThreadN
  <2>2. NoLease.v4 = None
    BY DEF NoLease
  <2>. QED BY <1>1, <1>3, <1>5, <2>1, <2>2, ExchangeKept
<1>7. ASSUME NEW t \in LeaseTime, NEW ip \in IP, Answer(i, t, ip),
             main' = [main EXCEPT !.step = "flush", !.new = FirstLease(t, ip, main.now)]
      PROVE  Contract!Exchange(i)
  <2> DEFINE n == FirstLease(t, ip, main.now)
  <2>1. n \in LeaseN /\ n.v4 = ip /\ n.time = t /\ (t > 0 => n.expire = main.now + t)
    BY <1>1, FirstLeaseTyped DEF FirstLease
  <2>2. Leases(i)' \subseteq Leases(i) \cup {n}
    BY <1>0, <1>1, <1>i, <1>7 DEF Leases, Typed, ThreadN
  <2>. HIDE DEF n
  <2>3. GoodNext(i, n) /\ (t > 0 => server'[i].ip = ip)
    BY <1>0, <1>1, <1>7, <2>1, NewLeaseGood
  <2>4. n.v4 # None /\ n.time > 0 =>
            server'[i].ip = n.v4 /\ n.expire <= server'[i].until
    BY <2>1, <2>3 DEF GoodNext, Good
  <2>. QED BY <1>1, <1>3, <1>5, <2>2, <2>4, ExchangeKept
<1>. QED BY <1>i, <1>6, <1>7 DEF RequestDHCPv4

\* So is the end of a renewal.
LEMMA RenewKept == ASSUME LeaseInv, RenewLease PROVE \E i \in Iface : Contract!Exchange(i)
<1>0. Typed /\ Exclusion /\ Before /\ Grounded
  BY DEF LeaseInv
<1>1. /\ clock' = clock /\ disk' = disk /\ main' = main
      /\ loop.at \in Iface /\ loop.now \in Nat /\ loop.now + late <= clock
      /\ leases[loop.at] \in LeaseN
  BY <1>0 DEF RenewLease, Exclusion, Before, Typed, ThreadN, LoopBusy
<1>i. PICK i \in Iface : i = loop.at
  BY <1>1
<1>2. (\E t \in LeaseTime, ip \in IP : Answer(i, t, ip)) \/ NoAnswer(i)
  BY <1>i DEF RenewLease
<1>3. /\ \A l \in LeaseN : GoodNow(i, l) => GoodNext(i, l)
      /\ \A j \in Iface \ {i} : server'[j] = server[j]
  BY <1>0, <1>1, <1>2, ExchangeKeeps
<1>4. CASE leases' = leases
  <2>1. \A j \in Iface : Leases(j)' = Leases(j)
    BY <1>1, <1>4 DEF Leases
  <2>2. NoLease.v4 = None
    BY DEF NoLease
  <2>. QED BY <1>1, <1>3, <2>1, <2>2, ExchangeKept
<1>5. ASSUME NEW t \in LeaseTime, NEW ip \in IP, Answer(i, t, ip),
             leases' = [leases EXCEPT ![i] = Renewed(@, t, ip, loop.now)]
      PROVE  Contract!Exchange(i)
  <2> DEFINE n == Renewed(leases[i], t, ip, loop.now)
  <2>1. n \in LeaseN /\ n.v4 = ip /\ n.time = t /\ (t > 0 => n.expire = loop.now + t)
    BY <1>1, <1>i, RenewedTyped
  <2>2. leases' = [leases EXCEPT ![i] = n]
    BY <1>5
  <2>. HIDE DEF n
  <2>3. leases'[i] = n /\ \A j \in Iface \ {i} : leases'[j] = leases[j]
    BY <1>0, <1>1, <2>2 DEF Typed
  <2>6. Leases(i)' \subseteq Leases(i) \cup {n}
    BY <1>1, <2>3 DEF Leases
  <2>7. \A j \in Iface \ {i} : server'[j] = server[j] /\ Leases(j)' = Leases(j)
    BY <1>1, <1>3, <2>3 DEF Leases
  <2>4. GoodNext(i, n) /\ (t > 0 => server'[i].ip = ip)
    BY <1>0, <1>1, <1>5, <2>1, NewLeaseGood
  <2>5. n.v4 # None /\ n.time > 0 =>
            server'[i].ip = n.v4 /\ n.expire <= server'[i].until
    BY <2>1, <2>4 DEF GoodNext, Good
  <2>. QED BY <1>1, <1>3, <2>5, <2>6, <2>7, ExchangeKept
<1>. QED BY <1>i, <1>4, <1>5 DEF RenewLease

\* The daemon implements the contract: an exchange with the server is one of the
\* contract, every other step passes time or lets go of beliefs.
THEOREM ContractKept == Spec => KeepsContract
<1>1. Init => Contract!LCInit
  BY DEF Init, Contract!LCInit, Believed, Leases, NoLease, Resting
<1>2. LeaseInv /\ [Next]_vars => [Contract!LCNext]_(Contract!lcVars)
  <2>. SUFFICES ASSUME LeaseInv, [Next]_vars
                PROVE  Contract!LCNext \/ UNCHANGED Contract!lcVars
    OBVIOUS
  <2>1. CASE UNCHANGED vars
    BY <2>1 DEF vars, Contract!lcVars, Believed, Leases
  <2>2. CASE MoveAbout
    <3>1. NoneMade
      BY <2>2, MoveFacts DEF LeaseInv
    <3>2. Contract!Forget
      BY <3>1, NoneBelieved DEF NoneMade, Contract!Forget
    <3>. QED BY <3>2 DEF Contract!LCNext
  <2>3. CASE Tick
    <3>1. clock' > clock
      BY <2>3 DEF Tick, LeaseInv, Typed
    <3>2. Contract!Pass
      BY <2>3, <3>1 DEF Tick, Contract!Pass, Believed, Leases
    <3>. QED BY <3>2 DEF Contract!LCNext
  <2>4. CASE RequestDHCPv6
    <3>1. \A i \in Iface : Believed(i)' \subseteq Believed(i)
      <4>1. /\ main'.at = main.at /\ main'.new.v4 = main.new.v4
            /\ main'.new.time = main.new.time /\ main'.new.expire = main.new.expire
        <5>1. main.new \in LeaseN /\ main \in ThreadN(MainStep)
          BY DEF LeaseInv, Typed, ThreadN
        <5>2. CASE main' = [main EXCEPT !.step = "save", !.new.v6 = TRUE]
          <6>1. main'.new = [main.new EXCEPT !.v6 = TRUE] /\ main'.at = main.at
            BY <5>1, <5>2 DEF ThreadN
          <6>. QED BY <5>1, <6>1 DEF LeaseN
        <5>3. CASE GoMain("save")
          BY <5>1, <5>3 DEF GoMain, ThreadN
        <5>. QED BY <2>4, <5>2, <5>3 DEF RequestDHCPv6
      <4>. QED BY <2>4, <4>1 DEF RequestDHCPv6, Believed, Leases
    <3>2. Contract!Forget
      BY <2>4, <3>1 DEF RequestDHCPv6, Contract!Forget
    <3>. QED BY <3>2 DEF Contract!LCNext
  <2>5. CASE RequestDHCPv4
    BY <2>5, V4Kept DEF Contract!LCNext
  <2>6. CASE RenewLease
    BY <2>6, RenewKept DEF Contract!LCNext
  <2>. QED BY <2>1, <2>2, <2>3, <2>4, <2>5, <2>6 DEF Next, DaemonStep, MoveAbout
<1>. QED
  BY <1>1, <1>2, LeaseInit, LeaseStep, PTL DEF Spec, KeepsContract, Contract!LCSpec
=============================================================================
