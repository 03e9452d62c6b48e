-------------------------- MODULE DnsNetworkProofs --------------------------
(* Theorems about what a worker of DnsSelector does to the running network,  *)
(* for every set of sessions and of requests, when workers do not overlap.   *)
EXTENDS DnsSelectorProofs

\* get_current's answer to someone who asks both its questions at once.
InUse == IF Enabled(Dnsconfd) \/ ~Enabled(Resolved) THEN Dnsconfd ELSE Resolved

\* The steps a worker takes with the network down.
OfflineSteps == UnboundSteps \cup ResolvedSteps \cup SettingSteps \cup CheckSteps
                  \cup (StartSteps \ {"start-nm"})

NoResolverActive == ~unit[Dnsconfd].active /\ ~unit[Resolved].active

\* What a worker knows of the network: only set-trivalent-doh leaves it up;
\* get_current's first answer, and its result, still hold when they are used.
NetworkStepInv(s) ==
  LET q == worker[s].req IN
  /\ Running(s) /\ q.cmd = "set-trivalent-doh" => pc[s] \in {"set-doh", "chmod-doh"}
  /\ Running(s) /\ pc[s] # "stop-nm" /\ q.cmd # "set-trivalent-doh" => ~unit[NM].active
  /\ pc[s] \in OfflineSteps /\ q.cmd # "set-trivalent-doh" => NoResolverActive
  /\ pc[s] \in {"stop-asks-resolved", "start-asks-resolved"} =>
       (worker[s].seen <=> Enabled(Dnsconfd))
  /\ pc[s] \in {"stop-resolver", "start-resolver"} => worker[s].target = InUse

\* A resolver that runs, left by whatever failed or was cut short, is the one
\* get_current will answer: so the next worker's stop finds it.
ActiveIsInUse == \A r \in Resolver : unit[r].active => r = InUse

ResolverInv ==
  Serial => ActiveIsInUse /\ \A s \in Session : NetworkStepInv(s)

-----------------------------------------------------------------------------
(* One worker's steps *)

\* The constants of the model, as the provers need them.
LEMMA Names ==
  /\ Dnsconfd \in Resolver /\ Resolved \in Resolver /\ Dnsconfd # Resolved
  /\ Resolver \subseteq Unit /\ \A r \in Resolver : r = Dnsconfd \/ r = Resolved
  /\ NM \in Unit \ Resolver /\ Sockets \subseteq Unit \ (Resolver \cup {NM})
  /\ UnboundSteps \cup ResolvedSteps \cup SettingSteps \cup StopSteps \cup CheckSteps
       \cup StartSteps \subseteq Steps
BY DEF Resolver, Dnsconfd, Resolved, Unit, Sockets, NM, Steps

\* A call on the enablement of a unit, or on a socket, activates no resolver
\* and leaves NetworkManager as it is.
LEMMA QuietCall ==
  ASSUME TypeOK, NEW s \in Session, NEW here \in Steps, NEW verb \in Verb,
         NEW u \in Unit \ {NM}, NEW next \in Steps,
         verb \notin {"start", "stop"},
         verb \in {"enable-now", "disable-now"} => u \in Sockets,
         Systemctl(s, here, verb, u, next)
  PROVE  /\ pc[s] = here /\ pc'[s] \in {"closed", here, next}
         /\ UNCHANGED <<file, resolv>>
         /\ pc'[s] # "closed" => worker'[s].req = worker[s].req
         /\ unit'[NM] = unit[NM]
         /\ \A r \in Resolver : unit'[r].active = unit[r].active
<1>1. unit[u] \in UnitState /\ next # "closed" /\ "closed" \notin Steps
  BY DEF TypeOK, UnitState, Steps, UnboundSteps, ResolvedSteps, SettingSteps, StopSteps,
         CheckSteps, StartSteps
<1>2. /\ UNCHANGED <<file, resolv>> /\ pc[s] = here
      /\ \A v \in Unit \ {u} : unit'[v] = unit[v]
      /\ pc'[s] \in {"closed", here, next}
      /\ pc'[s] # "closed" => worker'[s].req = worker[s].req
      /\ unit'[u] = Apply(verb, unit[u]) \/ unit'[u] \in HalfDone(verb, unit[u])
  BY <1>1, CallOutcome
<1>3. unit'[u].active = unit[u].active \/ u \in Sockets
  <2>1. CASE unit'[u] = Apply(verb, unit[u])
    BY <1>1, <2>1, ApplyFields
  <2>2. CASE unit'[u] \in HalfDone(verb, unit[u])
    BY <1>1, <2>2, HalfDoneFields
  <2> QED
    BY <1>2, <2>1, <2>2
<1>4. \A r \in Resolver : unit'[r].active = unit[r].active
  BY <1>2, <1>3, Names
<1> QED
  BY <1>2, <1>4, Names

\* Which steps are which.
LEMMA OfflineNames ==
  ASSUME NEW p \in OfflineSteps
  PROVE  /\ p \in Steps /\ p \notin Menu /\ p # "stop-nm"
         /\ p \notin {"stop-asks-resolved", "stop-resolver"}
<1>1. CASE p \in UnboundSteps
  BY <1>1 DEF UnboundSteps, Steps, Menu
<1>2. CASE p \in ResolvedSteps
  BY <1>2 DEF ResolvedSteps, Steps, Menu
<1>3. CASE p \in SettingSteps \cup CheckSteps \cup StartSteps
  BY <1>3 DEF SettingSteps, CheckSteps, StartSteps, Steps, Menu
<1> QED
  BY <1>1, <1>2, <1>3 DEF OfflineSteps

LEMMA StaysOfflineNames ==
  ASSUME NEW p \in {"closed", "start-asks-dnsconfd", "global-asks-dnsconfd",
                    "global-asks-resolved"}
                      \cup UnboundSteps \cup ResolvedSteps \cup SettingSteps
  PROVE  /\ p \notin {"stop-asks-resolved", "start-asks-resolved", "stop-resolver",
                      "start-resolver"}
         /\ p \in Menu => p = "closed"
<1>1. CASE p \in UnboundSteps
  BY <1>1 DEF UnboundSteps, Menu
<1>2. CASE p \in ResolvedSteps
  BY <1>2 DEF ResolvedSteps, Menu
<1>3. CASE p \notin UnboundSteps \cup ResolvedSteps
  BY <1>3 DEF SettingSteps, Menu
<1> QED
  BY <1>1, <1>2, <1>3

\* While the resolvers stay stopped there is nothing else to show of a worker
\* that does not ask get_current.
LEMMA StaysOffline ==
  ASSUME TypeOK, NEW s \in Session, NetworkStepInv(s), pc[s] \in OfflineSteps,
         worker[s].req.cmd # "set-trivalent-doh",
         pc'[s] # "closed" => worker'[s].req = worker[s].req,
         pc'[s] \in {"closed", "start-asks-dnsconfd", "global-asks-dnsconfd",
                     "global-asks-resolved"}
                      \cup UnboundSteps \cup ResolvedSteps \cup SettingSteps,
         unit'[NM] = unit[NM],
         \A r \in Resolver : unit'[r].active = unit[r].active
  PROVE  ActiveIsInUse' /\ NetworkStepInv(s)'
<1>1. NoResolverActive /\ ~unit[NM].active
  BY OfflineNames DEF NetworkStepInv, Running
<1>2. NoResolverActive' /\ ~unit'[NM].active
  BY <1>1, Names DEF NoResolverActive
<1>3. ActiveIsInUse'
  BY <1>2, Names DEF ActiveIsInUse, NoResolverActive
<1>4. /\ pc'[s] \notin {"stop-asks-resolved", "start-asks-resolved", "stop-resolver",
                        "start-resolver"}
      /\ pc'[s] \in Menu => pc'[s] = "closed"
  BY StaysOfflineNames
<1>5. /\ "closed" \in Menu /\ "closed" \notin OfflineSteps
      /\ pc'[s] # "closed" => worker'[s].req.cmd # "set-trivalent-doh"
  BY OfflineNames DEF Menu
<1>6. NetworkStepInv(s)'
  BY <1>2, <1>4, <1>5 DEF NetworkStepInv, Running
<1> QED
  BY <1>3, <1>6

\* A closed session, or one at a menu, knows nothing.
LEMMA IdleNet ==
  ASSUME NEW s \in Session, ~Running(s)'
  PROVE  NetworkStepInv(s)'
<1>1. \A p \in OfflineSteps : p \notin Menu
  BY OfflineNames
<1> QED
  BY <1>1 DEF NetworkStepInv, Running, Menu

LEMMA SetUnboundNet ==
  ASSUME TypeOK, NEW s \in Session, NetworkStepInv(s), SetUnbound(s)
  PROVE  ActiveIsInUse' /\ NetworkStepInv(s)'
<1> DEFINE After == AfterResolver(worker[s].req)
           Quiet == /\ pc[s] \in UnboundSteps
                    /\ pc'[s] \in {"closed", After} \cup UnboundSteps
                    /\ pc'[s] # "closed" => worker'[s].req = worker[s].req
                    /\ unit'[NM] = unit[NM]
                    /\ \A r \in Resolver : unit'[r].active = unit[r].active
<1>1. /\ After \in Steps /\ After \in {"set-global", "set-dnssec", "start-asks-dnsconfd"}
      /\ {"mask", "unmask", "enable", "disable", "enable-now"} \subseteq Verb
      /\ Resolver \cup Sockets \subseteq Unit \ {NM}
      /\ {"unbound.socket", "unbound-control.socket"} \subseteq Sockets
      /\ UnboundSteps \subseteq Steps
  <2>1. worker[s].req \in AllRequests
    BY DEF TypeOK, Worker
  <2> QED
    BY <2>1, Names, AfterType DEF AfterResolver, Verb, Sockets
<1>2. ASSUME NEW here \in UnboundSteps, NEW verb \in Verb, NEW u \in Unit \ {NM},
             NEW next \in {After} \cup UnboundSteps,
             verb \notin {"start", "stop"},
             verb \in {"enable-now", "disable-now"} => u \in Sockets,
             Systemctl(s, here, verb, u, next)
      PROVE  Quiet
  BY <1>1, <1>2, QuietCall
<1>3. Quiet
  <2> HIDE DEF Quiet, After
  <2>1. CASE \/ Systemctl(s, "mask-resolved", "mask", Resolved, "disable-resolved")
             \/ Systemctl(s, "disable-resolved", "disable", Resolved, "write-nm-dnsconfd")
             \/ Systemctl(s, "enable-socket", "enable-now", "unbound.socket", "enable-control")
             \/ Systemctl(s, "enable-control", "enable-now", "unbound-control.socket", "unmask-dnsconfd")
             \/ Systemctl(s, "unmask-dnsconfd", "unmask", Dnsconfd, "enable-dnsconfd")
             \/ Systemctl(s, "enable-dnsconfd", "enable", Dnsconfd, After)
    BY <1>1, <1>2, <2>1, Names DEF UnboundSteps
  <2>2. CASE \/ Write(s, "write-nm-dnsconfd", "nm-dnsconfd", "chmod-nm-dnsconfd")
             \/ Chmod(s, "chmod-nm-dnsconfd", "nm-dnsconfd", "unlink-old-resolv.conf")
    BY <2>2 DEF Quiet, Write, Chmod, FileStep, Exit, Proceed, Goto, TypeOK, UnboundSteps
  <2>3. CASE \/ UnlinkResolvConf(s, "unlink-old-resolv.conf", "touch-resolv.conf")
             \/ TouchResolvConf(s, "chown-resolv.conf")
             \/ ChownResolvConf(s, "enable-socket")
    BY <2>3 DEF Quiet, FileStep, UnlinkResolvConf, TouchResolvConf, ChownResolvConf,
                Exit, Proceed, Goto, TypeOK, UnboundSteps
  <2> QED
    BY <2>1, <2>2, <2>3 DEF SetUnbound, After
<1>4. worker[s].req.cmd # "set-trivalent-doh" /\ pc[s] \in OfflineSteps
  <2>1. pc[s] \in OfflineSteps /\ pc[s] \notin {"set-doh", "chmod-doh"}
    BY <1>3 DEF OfflineSteps, UnboundSteps
  <2> QED
    BY <2>1, OfflineNames DEF NetworkStepInv, Running
<1> QED
  BY <1>1, <1>3, <1>4, StaysOffline DEF SettingSteps

LEMMA SetResolvedNet ==
  ASSUME TypeOK, NEW s \in Session, NetworkStepInv(s), SetResolved(s)
  PROVE  ActiveIsInUse' /\ NetworkStepInv(s)'
<1> DEFINE After == AfterResolver(worker[s].req)
           Quiet == /\ pc[s] \in ResolvedSteps
                    /\ pc'[s] \in {"closed", After} \cup ResolvedSteps
                    /\ pc'[s] # "closed" => worker'[s].req = worker[s].req
                    /\ unit'[NM] = unit[NM]
                    /\ \A r \in Resolver : unit'[r].active = unit[r].active
<1>1. /\ After \in Steps /\ After \in {"set-global", "set-dnssec", "start-asks-dnsconfd"}
      /\ {"mask", "unmask", "enable", "disable", "disable-now"} \subseteq Verb
      /\ Resolver \cup Sockets \subseteq Unit \ {NM}
      /\ {"unbound.socket", "unbound-control.socket"} \subseteq Sockets
      /\ ResolvedSteps \subseteq Steps
  <2>1. worker[s].req \in AllRequests
    BY DEF TypeOK, Worker
  <2> QED
    BY <2>1, Names, AfterType DEF AfterResolver, Verb, Sockets
<1>2. ASSUME NEW here \in ResolvedSteps, NEW verb \in Verb, NEW u \in Unit \ {NM},
             NEW next \in {After} \cup ResolvedSteps,
             verb \notin {"start", "stop"},
             verb \in {"enable-now", "disable-now"} => u \in Sockets,
             Systemctl(s, here, verb, u, next)
      PROVE  Quiet
  BY <1>1, <1>2, QuietCall
<1>3. Quiet
  <2> HIDE DEF Quiet, After
  <2>1. CASE \/ Systemctl(s, "disable-dnsconfd", "disable", Dnsconfd, "mask-dnsconfd")
             \/ Systemctl(s, "mask-dnsconfd", "mask", Dnsconfd, "disable-socket")
             \/ Systemctl(s, "disable-socket", "disable-now", "unbound.socket", "disable-control")
             \/ Systemctl(s, "disable-control", "disable-now", "unbound-control.socket", "unlink-nm-dnsconfd")
             \/ Systemctl(s, "unmask-resolved", "unmask", Resolved, "enable-resolved")
             \/ Systemctl(s, "enable-resolved", "enable", Resolved, After)
    BY <1>1, <1>2, <2>1, Names DEF ResolvedSteps
  <2>2. CASE \/ Unlink(s, "unlink-nm-dnsconfd", "nm-dnsconfd", "unlink-resolv.conf")
             \/ UnlinkResolvConf(s, "unlink-resolv.conf", "symlink-resolv.conf")
             \/ SymlinkResolvConf(s, "unmask-resolved")
    BY <2>2 DEF Quiet, Unlink, FileStep, UnlinkResolvConf, SymlinkResolvConf,
                Exit, Proceed, Goto, TypeOK, ResolvedSteps
  <2> QED
    BY <2>1, <2>2 DEF SetResolved, After
<1>4. worker[s].req.cmd # "set-trivalent-doh" /\ pc[s] \in OfflineSteps
  <2>1. pc[s] \in OfflineSteps /\ pc[s] \notin {"set-doh", "chmod-doh"}
    BY <1>3 DEF OfflineSteps, ResolvedSteps
  <2> QED
    BY <2>1, OfflineNames DEF NetworkStepInv, Running
<1> QED
  BY <1>1, <1>3, <1>4, StaysOffline DEF SettingSteps

LEMMA SettingsNet ==
  ASSUME TypeOK, ActiveIsInUse, NEW s \in Session, NetworkStepInv(s),
         SetGlobalServers(s) \/ SetDnssecEnabled(s) \/ SetDohEndpoint(s)
  PROVE  ActiveIsInUse' /\ NetworkStepInv(s)'
<1> DEFINE q == worker[s].req
           Next2 == {"closed", "start-asks-dnsconfd"} \cup SettingSteps
                      \cup UnboundSteps \cup ResolvedSteps
<1>1. /\ UNCHANGED unit /\ pc[s] \in SettingSteps
      /\ pc'[s] # "closed" => worker'[s].req = q
      /\ pc'[s] \in {AfterDnssec(q), AfterDoh(q), "closed"} \cup SettingSteps
  <2> USE DEF Write, Unlink, Chmod, FileStep, Exit, Proceed, Goto, TypeOK, SettingSteps
  <2> HIDE DEF q
  <2>1. CASE SetGlobalServers(s)
    BY <2>1 DEF SetGlobalServers, q
  <2>2. CASE SetDnssecEnabled(s)
    BY <2>2 DEF SetDnssecEnabled, q
  <2>3. CASE SetDohEndpoint(s)
    BY <2>3 DEF SetDohEndpoint, q
  <2> QED
    BY <2>1, <2>2, <2>3
<1>2. AfterDnssec(q) \in Next2 /\ AfterDoh(q) \in Next2
  BY DEF AfterDnssec, AfterDoh, FirstResolverStep, SettingSteps, UnboundSteps, ResolvedSteps
<1>3. CASE q.cmd # "set-trivalent-doh"
  <2>1. pc[s] \in OfflineSteps
    BY <1>1 DEF OfflineSteps
  <2> QED
    BY <1>1, <1>2, <1>3, <2>1, StaysOffline
<1>4. CASE q.cmd = "set-trivalent-doh"
  <2>1. pc[s] \in {"set-doh", "chmod-doh"}
    BY <1>1, <1>4 DEF NetworkStepInv, Running, Menu, SettingSteps
  <2>2. /\ pc'[s] \in {"closed", "set-doh", "chmod-doh"}
        /\ pc'[s] # "closed" => worker'[s].req = q
    BY <1>1, <1>4, <2>1
       DEF SetGlobalServers, SetDnssecEnabled, SetDohEndpoint, Write, Unlink, Chmod, FileStep,
           Exit, Proceed, Goto, TypeOK, AfterDoh
  <2>3. NetworkStepInv(s)'
    <3>1. "closed" \notin OfflineSteps
      BY OfflineNames DEF Menu
    <3> QED
      BY <1>4, <2>2, <3>1 DEF NetworkStepInv, Running, Menu
  <2>4. ActiveIsInUse'
    BY <1>1 DEF ActiveIsInUse, InUse, Enabled
  <2> QED
    BY <2>3, <2>4
<1> QED
  BY <1>3, <1>4

LEMMA CheckNet ==
  ASSUME TypeOK, NEW s \in Session, NetworkStepInv(s), CheckGlobal(s)
  PROVE  ActiveIsInUse' /\ NetworkStepInv(s)'
<1>1. /\ pc[s] \in CheckSteps
      /\ pc'[s] \in {"closed", "global-asks-resolved", "set-global"}
      /\ pc'[s] # "closed" => worker'[s].req = worker[s].req
      /\ UNCHANGED unit
  <2>1. \A b : [worker[s] EXCEPT !.seen = b].req = worker[s].req
    BY DEF TypeOK, Worker
  <2>2. CASE AskDnsconfd(s, "global-asks-dnsconfd", "global-asks-resolved")
    BY <2>1, <2>2 DEF AskDnsconfd, Proceed, machine, TypeOK, CheckSteps
  <2>3. CASE /\ pc[s] = "global-asks-resolved" /\ UNCHANGED machine
             /\ Goto(s, "set-global") \/ Exit(s, "refused")
    BY <2>3 DEF Exit, Goto, Proceed, machine, TypeOK, CheckSteps
  <2> QED
    BY <2>2, <2>3 DEF CheckGlobal
<1>2. worker[s].req.cmd # "set-trivalent-doh" /\ pc[s] \in OfflineSteps
  <2>1. pc[s] \in OfflineSteps /\ pc[s] \notin {"set-doh", "chmod-doh"}
    BY <1>1 DEF OfflineSteps, CheckSteps
  <2> QED
    BY <2>1, OfflineNames DEF NetworkStepInv, Running
<1> QED
  BY <1>1, <1>2, StaysOffline DEF SettingSteps

\* The two questions of get_current, between which nothing else is enabled or
\* disabled.
LEMMA AskNet ==
  ASSUME TypeOK, ActiveIsInUse, NEW s \in Session, NetworkStepInv(s),
         NEW first, NEW second, NEW use, first \in Steps, second \in Steps, use \in Steps,
         \/ /\ first = "stop-asks-dnsconfd" /\ second = "stop-asks-resolved"
            /\ use = "stop-resolver"
         \/ /\ first = "start-asks-dnsconfd" /\ second = "start-asks-resolved"
            /\ use = "start-resolver",
         AskDnsconfd(s, first, second) \/ AskResolved(s, second, use)
  PROVE  ActiveIsInUse' /\ NetworkStepInv(s)'
<1>1. UNCHANGED unit
  BY DEF AskDnsconfd, AskResolved, machine
<1>2. ActiveIsInUse' /\ InUse' = InUse /\ (Enabled(Dnsconfd)' <=> Enabled(Dnsconfd))
  BY <1>1 DEF ActiveIsInUse, InUse, Enabled
<1>3. CASE AskDnsconfd(s, first, second)
  <2>1. Enabled(Dnsconfd) \in BOOLEAN
    BY Names DEF Enabled, TypeOK
  <2>2. ASSUME NEW b \in BOOLEAN, b = Enabled(Dnsconfd)
        PROVE  NetworkStepInv(s)'
    <3>1. /\ pc[s] = first /\ pc'[s] = second
          /\ worker'[s].seen = b /\ worker'[s].req = worker[s].req
      BY <1>3, <2>2 DEF AskDnsconfd, Proceed, TypeOK, Worker
    <3>2. /\ second \in OfflineSteps => first \in OfflineSteps
          /\ first \notin Menu \cup {"stop-nm", "set-doh", "chmod-doh"}
          /\ second \notin Menu \cup {"stop-nm", "set-doh", "chmod-doh", "stop-resolver",
                                      "start-resolver"}
      BY OfflineNames DEF OfflineSteps, StartSteps, Menu
    <3> QED
      BY <1>1, <1>2, <2>2, <3>1, <3>2 DEF NetworkStepInv, Running, NoResolverActive
  <2> QED
    BY <1>2, <2>1, <2>2
<1>4. CASE AskResolved(s, second, use)
  <2>1. /\ pc[s] = second /\ pc'[s] = use
        /\ worker'[s].target = Current(s) /\ worker'[s].req = worker[s].req
    BY <1>4 DEF AskResolved, Proceed, TypeOK, Worker
  <2>2. Current(s) = InUse
    BY <2>1 DEF Current, InUse, NetworkStepInv
  <2>3. /\ use \in OfflineSteps => second \in OfflineSteps
        /\ second \notin Menu \cup {"stop-nm", "set-doh", "chmod-doh"}
        /\ use \notin Menu \cup {"stop-nm", "set-doh", "chmod-doh", "stop-asks-resolved",
                                  "start-asks-resolved"}
    BY OfflineNames DEF OfflineSteps, StartSteps, Menu
  <2> QED
    BY <1>1, <1>2, <2>1, <2>2, <2>3 DEF NetworkStepInv, Running, NoResolverActive
<1> QED
  BY <1>3, <1>4

\* Stopping and starting: the resolver that get_current named is the only one
\* that can be running.
LEMMA StopNet ==
  ASSUME TypeOK, ActiveIsInUse, NEW s \in Session, NetworkStepInv(s), StopNetwork(s)
  PROVE  ActiveIsInUse' /\ NetworkStepInv(s)'
<1> DEFINE After == AfterStop(worker[s].req)
<1>1. /\ worker[s].target \in Resolver /\ After \in Steps
      /\ After \in {"mask-resolved", "global-asks-dnsconfd", "set-global"}
      /\ {"stop-nm", "stop-asks-dnsconfd", "stop-asks-resolved", "stop-resolver"} \subseteq Steps
      /\ "stop" \in Verb
  <2>1. worker[s].req \in AllRequests /\ worker[s].target \in Resolver
    BY DEF TypeOK, Worker
  <2> QED
    BY <2>1, AfterType DEF AfterStop, Steps, StopSteps, Verb
<1>2. "stop-asks-dnsconfd" \notin OfflineSteps /\ "stop-nm" \notin OfflineSteps
      /\ "stop-resolver" \notin OfflineSteps /\ "closed" \notin OfflineSteps
  BY OfflineNames
     DEF OfflineSteps, Menu, UnboundSteps, ResolvedSteps, SettingSteps, CheckSteps, StartSteps
<1>3. CASE Systemctl(s, "stop-nm", "stop", NM, "stop-asks-dnsconfd")
  <2>1. /\ \A r \in Resolver : unit'[r] = unit[r]
        /\ pc[s] = "stop-nm"
        /\ \/ pc'[s] = "stop-asks-dnsconfd" /\ unit'[NM] = Apply("stop", unit[NM])
           \/ pc'[s] \in {"stop-nm", "closed"}
        /\ pc'[s] # "closed" => worker'[s].req = worker[s].req
    BY <1>1, <1>3, CallOutcome, Names
  <2>2. ~Apply("stop", unit[NM]).active
    BY <1>1, Names, ApplyFields DEF TypeOK, UnitState
  <2>3. ActiveIsInUse'
    BY <2>1, Names DEF ActiveIsInUse, InUse, Enabled
  <2>4. worker[s].req.cmd # "set-trivalent-doh"
    BY <2>1 DEF NetworkStepInv, Running, Menu
  <2>5. CASE pc'[s] = "closed"
    BY <2>3, <2>5, IdleNet DEF Running, Menu
  <2>6. CASE pc'[s] = "stop-nm"
    BY <1>2, <2>1, <2>3, <2>4, <2>6 DEF NetworkStepInv
  <2>7. CASE pc'[s] = "stop-asks-dnsconfd" /\ unit'[NM] = Apply("stop", unit[NM])
    <3>1. ~unit'[NM].active
      BY <2>2, <2>7
    <3> QED
      BY <1>2, <2>1, <2>3, <2>4, <2>7, <3>1 DEF NetworkStepInv
  <2> QED
    BY <2>1, <2>5, <2>6, <2>7
<1>4. CASE Systemctl(s, "stop-resolver", "stop", worker[s].target, After)
  <2> DEFINE u == worker[s].target
  <2>1. /\ u \in Unit /\ pc[s] = "stop-resolver"
        /\ \A v \in Unit \ {u} : unit'[v] = unit[v]
        /\ \/ pc'[s] = After /\ unit'[u] = Apply("stop", unit[u])
           \/ pc'[s] \in {"stop-resolver", "closed"} /\ unit'[u] \in HalfDone("stop", unit[u])
        /\ pc'[s] # "closed" => worker'[s].req = worker[s].req /\ worker'[s].target = u
    BY <1>1, <1>4, CallOutcome, Names
  <2>2. unit[u] \in UnitState /\ u = InUse
        /\ worker[s].req.cmd # "set-trivalent-doh" /\ ~unit[NM].active
    BY <2>1 DEF TypeOK, UnitState, NetworkStepInv, Running, Menu
  <2>3. unit'[NM] = unit[NM]
    BY <1>1, <2>1, Names
  <2>4. CASE pc'[s] = After /\ unit'[u] = Apply("stop", unit[u])
    <3>1. ~unit'[u].active
      BY <1>1, <2>2, <2>4, ApplyFields
    <3>2. \A r \in Resolver : ~unit'[r].active
      BY <1>1, <2>1, <2>2, <3>1, Names DEF ActiveIsInUse
    <3>3. ActiveIsInUse' /\ NoResolverActive'
      BY <3>2, Names DEF ActiveIsInUse, NoResolverActive
    <3>4. After \notin {"closed", "stop-asks-resolved", "start-asks-resolved", "stop-resolver",
                        "start-resolver"}
      BY <1>1
    <3>5. worker'[s].req.cmd # "set-trivalent-doh" /\ ~unit'[NM].active
      BY <2>1, <2>2, <2>3, <2>4, <3>4
    <3> QED
      BY <2>4, <3>3, <3>4, <3>5 DEF NetworkStepInv
  <2>5. CASE pc'[s] \in {"stop-resolver", "closed"} /\ unit'[u] \in HalfDone("stop", unit[u])
    <3>1. unit'[u] = unit[u]
      BY <1>1, <2>2, <2>5, HalfDoneFields
    <3>2. \A r \in Unit : unit'[r] = unit[r]
      BY <2>1, <3>1
    <3>3. ActiveIsInUse' /\ InUse' = InUse
      BY <3>2, Names DEF ActiveIsInUse, InUse, Enabled
    <3> QED
      BY <1>2, <2>1, <2>2, <2>3, <2>5, <3>3 DEF NetworkStepInv, Running, Menu
  <2> QED
    BY <2>1, <2>4, <2>5
<1> QED
  BY <1>1, <1>3, <1>4, AskNet DEF StopNetwork

LEMMA StartNet ==
  ASSUME TypeOK, ActiveIsInUse, NEW s \in Session, NetworkStepInv(s), StartNetwork(s)
  PROVE  ActiveIsInUse' /\ NetworkStepInv(s)'
<1>1. /\ worker[s].target \in Resolver
      /\ {"start-asks-dnsconfd", "start-asks-resolved", "start-resolver", "start-nm"}
           \subseteq Steps
      /\ "start" \in Verb
  BY DEF TypeOK, Worker, Steps, StartSteps, Verb
<1>2. "start-nm" \notin OfflineSteps /\ "closed" \notin OfflineSteps
      /\ "start-resolver" \in OfflineSteps
  BY OfflineNames
     DEF OfflineSteps, Menu, UnboundSteps, ResolvedSteps, SettingSteps, CheckSteps, StartSteps
<1>3. CASE Systemctl(s, "start-resolver", "start", worker[s].target, "start-nm")
  <2> DEFINE u == worker[s].target
  <2>1. /\ u \in Unit /\ pc[s] = "start-resolver" /\ unit[u] \in UnitState
        /\ \A v \in Unit \ {u} : unit'[v] = unit[v]
        /\ \/ pc'[s] = "start-nm" /\ unit'[u] = Apply("start", unit[u])
           \/ pc'[s] \in {"start-resolver", "closed"} /\ unit'[u] \in HalfDone("start", unit[u])
        /\ pc'[s] # "closed" => worker'[s].req = worker[s].req /\ worker'[s].target = u
    BY <1>1, <1>3, CallOutcome, Names
  <2>2. /\ u = InUse /\ worker[s].req.cmd # "set-trivalent-doh" /\ ~unit[NM].active
        /\ NoResolverActive
    BY <1>2, <2>1 DEF NetworkStepInv, Running, Menu
  <2>3. unit'[NM] = unit[NM]
    BY <1>1, <2>1, Names
  <2>4. CASE pc'[s] = "start-nm" /\ unit'[u] = Apply("start", unit[u])
    <3>1. unit'[u].wanted = unit[u].wanted /\ unit'[u].masked = unit[u].masked
      BY <1>1, <2>1, <2>4, ApplyFields
    <3>2. InUse' = InUse
      BY <1>1, <2>1, <3>1, Names DEF InUse, Enabled
    <3>3. ActiveIsInUse'
      BY <1>1, <2>1, <2>2, <3>2, Names DEF ActiveIsInUse, NoResolverActive
    <3>4. worker'[s].req.cmd # "set-trivalent-doh" /\ ~unit'[NM].active
      BY <2>1, <2>2, <2>3, <2>4
    <3> QED
      BY <1>2, <2>4, <3>3, <3>4 DEF NetworkStepInv
  <2>5. CASE pc'[s] \in {"start-resolver", "closed"} /\ unit'[u] \in HalfDone("start", unit[u])
    <3>1. unit'[u] = unit[u]
      BY <1>1, <2>1, <2>5, HalfDoneFields
    <3>2. \A r \in Unit : unit'[r] = unit[r]
      BY <2>1, <3>1
    <3>3. ActiveIsInUse' /\ InUse' = InUse /\ NoResolverActive'
      BY <2>2, <3>2, Names DEF ActiveIsInUse, InUse, Enabled, NoResolverActive
    <3> QED
      BY <1>2, <2>1, <2>2, <2>3, <2>5, <3>3 DEF NetworkStepInv, Running, Menu
  <2> QED
    BY <2>1, <2>4, <2>5
<1>4. CASE Systemctl(s, "start-nm", "start", NM, "closed")
  <2>1. /\ \A r \in Resolver : unit'[r] = unit[r]
        /\ pc[s] = "start-nm"
        /\ \/ pc'[s] = "start-nm" /\ unit'[NM] \in HalfDone("start", unit[NM])
              /\ worker'[s].req = worker[s].req
           \/ pc'[s] = "closed"
    BY <1>1, <1>4, CallOutcome, Names
  <2>2. unit'[NM] \in HalfDone("start", unit[NM]) => unit'[NM] = unit[NM]
    BY <1>1, Names, HalfDoneFields DEF TypeOK, UnitState
  <2>3. ActiveIsInUse'
    BY <2>1, Names DEF ActiveIsInUse, InUse, Enabled
  <2> QED
    BY <1>2, <2>1, <2>2, <2>3 DEF NetworkStepInv, Running, Menu
<1> QED
  BY <1>1, <1>3, <1>4, AskNet DEF StartNetwork

-----------------------------------------------------------------------------
(* The invariant *)

\* With no two workers running, the invariant is a matter of the one that moves.
LEMMA WorkNet ==
  ASSUME TypeOK, ScriptInv, ResolverInv, NEW s \in Session, Work(s)
  PROVE  ResolverInv'
<1> SUFFICES ASSUME Serial PROVE ResolverInv'
  BY DEF ResolverInv
<1>1. ActiveIsInUse /\ NetworkStepInv(s)
  BY DEF ResolverInv
<1>2. ActiveIsInUse' /\ NetworkStepInv(s)'
  BY <1>1, SetUnboundNet, SetResolvedNet, SettingsNet, CheckNet, StopNet, StartNet DEF Work
<1>3. \A t \in Session \ {s} : ~Running(t)'
  BY WorkMovesOne DEF ScriptInv, Running
<1> QED
  BY <1>2, <1>3, IdleNet DEF ResolverInv

LEMMA LaunchNet ==
  ASSUME TypeOK, ResolverInv, NEW s \in Session, NEW r \in Requests, Launch(s, r)
  PROVE  ResolverInv'
<1> SUFFICES ASSUME Serial PROVE ResolverInv'
  BY DEF ResolverInv
<1>1. /\ \A t \in Session \ {s} : ~Running(t)'
      /\ UNCHANGED unit
      /\ pc'[s] = IF r.cmd = "set-trivalent-doh" THEN "set-doh" ELSE "stop-nm"
      /\ worker'[s].req = r
  BY DEF Launch, FirstStep, machine, TypeOK, Running, NewWorker
<1>2. ActiveIsInUse'
  BY <1>1 DEF ResolverInv, ActiveIsInUse, InUse, Enabled
<1>3. "stop-nm" \notin OfflineSteps
  BY OfflineNames
<1>4. NetworkStepInv(s)'
  BY <1>1, <1>3 DEF NetworkStepInv
<1> QED
  BY <1>1, <1>2, <1>4, IdleNet DEF ResolverInv

\* systemd starts the enabled resolver, and no other one.
LEMMA RebootNet ==
  ASSUME TypeOK, ScriptInv, ResolverInv, Reboot
  PROVE  ResolverInv'
<1> SUFFICES ASSUME Serial PROVE ResolverInv'
  BY DEF ResolverInv
<1>1. ASSUME NEW u \in Resolver
      PROVE  (Enabled(u)' <=> Enabled(u)) /\ (unit'[u].active => Enabled(u))
  <2>1. u \in Unit /\ u # NM /\ u \notin Sockets
    BY Names
  <2>2. ASSUME NEW b \in BOOLEAN,
               b = (u = NM \/ Enabled(u) \/ (u \in Sockets /\ Enabled(Dnsconfd)))
        PROVE  (Enabled(u)' <=> Enabled(u)) /\ (unit'[u].active => Enabled(u))
    <3>1. unit'[u] = [unit[u] EXCEPT !.active = b]
      BY <2>1, <2>2 DEF Reboot
    <3>2. unit'[u].wanted = unit[u].wanted /\ unit'[u].masked = unit[u].masked
          /\ unit'[u].active = b
      BY <2>1, <3>1 DEF TypeOK
    <3> QED
      BY <2>1, <2>2, <3>2 DEF Enabled
  <2> QED
    BY <2>2
<1>2. ~(Enabled(Dnsconfd) /\ Enabled(Resolved))
  BY DEF ScriptInv, OneResolverEnabled
<1>3. ActiveIsInUse'
  BY <1>1, <1>2, Names DEF ActiveIsInUse, InUse
<1>4. \A s \in Session : ~Running(s)'
  BY DEF Reboot, Running, Menu
<1> QED
  BY <1>3, <1>4, IdleNet DEF ResolverInv

LEMMA OtherNet ==
  ASSUME TypeOK, ResolverInv,
         \/ \E s \in Session : Open(s) \/ Leave(s) \/ Kill(s)
         \/ DnsconfdWrites \/ UNCHANGED vars
  PROVE  ResolverInv'
<1> SUFFICES ASSUME Serial PROVE ResolverInv'
  BY DEF ResolverInv
<1>1. UNCHANGED unit
  BY DEF Open, Leave, Kill, DnsconfdWrites, machine, vars
<1>2. ActiveIsInUse' /\ InUse' = InUse
  BY <1>1 DEF ResolverInv, ActiveIsInUse, InUse, Enabled
<1>3. \A t \in Session : ~Running(t)' \/ (pc'[t] = pc[t] /\ worker'[t] = worker[t])
  BY DEF Open, Leave, Kill, Exit, DnsconfdWrites, vars, machine, Running, Menu, TypeOK
<1>4. ASSUME NEW t \in Session
      PROVE  NetworkStepInv(t)'
  <2>1. CASE ~Running(t)'
    BY <2>1, IdleNet
  <2>2. CASE pc'[t] = pc[t] /\ worker'[t] = worker[t]
    <3>1. NetworkStepInv(t)
      BY DEF ResolverInv
    <3> QED
      BY <1>1, <1>2, <2>2, <3>1 DEF NetworkStepInv, Running, NoResolverActive, Enabled
  <2> QED
    BY <1>3, <2>1, <2>2
<1> QED
  BY <1>2, <1>4 DEF ResolverInv

LEMMA InitNet == Init => ResolverInv
<1> SUFFICES ASSUME Init PROVE ResolverInv
  OBVIOUS
<1>1. \A s \in Session : ~Running(s)
  BY DEF Init, Running, Menu
<1>2. Enabled(Dnsconfd) /\ ~unit[Resolved].active
  BY Names DEF Init, Enabled
<1>3. ActiveIsInUse
  BY <1>2, Names DEF ActiveIsInUse, InUse
<1>4. \A p \in OfflineSteps : p \notin Menu
  BY OfflineNames
<1>5. \A s \in Session : NetworkStepInv(s)
  BY <1>1, <1>4 DEF NetworkStepInv, Running, Menu
<1> QED
  BY <1>3, <1>5 DEF ResolverInv

\* The inductive invariant: a running resolver is always the one get_current
\* would name, and a worker past its stop leaves none running.
THEOREM NetworkCorrect == Spec => []ResolverInv
<1>1. TypeOK /\ ScriptInv /\ ResolverInv /\ [Next]_vars => ResolverInv'
  BY WorkNet, LaunchNet, RebootNet, OtherNet DEF Next
<1> QED
  BY <1>1, InitNet, TypeCorrect, ScriptCorrect, PTL DEF Spec

\* With workers launched one at a time the two resolvers never run side by
\* side: get_current().stop() stops the one that runs, also when the worker
\* before it failed, was killed, or was cut short by a reboot at any step.
THEOREM NeverTwoActive == Serial /\ Spec => []OneResolverActive
<1>1. Serial /\ ResolverInv => OneResolverActive
  BY Names DEF ResolverInv, ActiveIsInUse, OneResolverActive
<1>2. CASE Serial
  BY <1>1, <1>2, NetworkCorrect, PTL
<1>3. CASE ~Serial
  BY <1>3
<1> QED
  BY <1>2, <1>3

\* The steps that touch a file other than the DoH policy, or resolv.conf.
LEMMA Rewriters ==
  ASSUME TypeOK, NEW s \in Session, Work(s),
         resolv' # resolv \/ (\E f \in File \ {"doh"} : file'[f] # file[f])
  PROVE  pc[s] \in OfflineSteps \ {"set-doh", "chmod-doh"}
<1> USE DEF Systemctl, Write, Unlink, Chmod, FileStep, AskDnsconfd, AskResolved, machine
<1>1. CASE SetUnbound(s)
  <2>1. pc[s] \in UnboundSteps
    BY <1>1 DEF SetUnbound, UnlinkResolvConf, TouchResolvConf, ChownResolvConf, UnboundSteps
  <2> QED
    BY <2>1 DEF OfflineSteps, UnboundSteps
<1>2. CASE SetResolved(s)
  <2>1. pc[s] \in ResolvedSteps
    BY <1>2 DEF SetResolved, UnlinkResolvConf, SymlinkResolvConf, ResolvedSteps
  <2> QED
    BY <2>1 DEF OfflineSteps, ResolvedSteps
<1>3. CASE SetGlobalServers(s) \/ SetDnssecEnabled(s)
  <2>1. pc[s] \in {"set-global", "chmod-global", "set-dnssec", "chmod-dnssec"}
    BY <1>3 DEF SetGlobalServers, SetDnssecEnabled
  <2> QED
    BY <2>1 DEF OfflineSteps, SettingSteps
<1>4. CASE SetDohEndpoint(s)
  BY <1>4 DEF SetDohEndpoint, TypeOK
<1>5. CASE StopNetwork(s) \/ CheckGlobal(s) \/ StartNetwork(s)
  BY <1>5 DEF StopNetwork, CheckGlobal, StartNetwork
<1> QED
  BY <1>1, <1>2, <1>3, <1>4, <1>5 DEF Work

\* With workers launched one at a time no configuration file of the network
\* stack and no resolv.conf is rewritten by a worker while NetworkManager or a
\* resolver runs: stop_network has stopped all of them, or the worker is gone.
THEOREM AlwaysOffline == Serial /\ Spec => ConfiguresOffline
<1> DEFINE Rewrites == /\ resolv' # resolv \/ (\E f \in File \ {"doh"} : file'[f] # file[f])
                       /\ \E s \in Session : Work(s)
           Offline == ~unit[NM].active /\ \A r \in Resolver : ~unit[r].active
<1>1. Serial /\ TypeOK /\ ResolverInv => (Rewrites => Offline)
  <2> SUFFICES ASSUME Serial, TypeOK, ResolverInv, Rewrites PROVE Offline
    OBVIOUS
  <2>1. PICK s \in Session : Work(s)
    OBVIOUS
  <2>2. pc[s] \in OfflineSteps /\ pc[s] \notin {"set-doh", "chmod-doh"}
    BY <2>1, Rewriters
  <2>3. Running(s) /\ pc[s] # "stop-nm"
    BY <2>2, OfflineNames DEF Running
  <2> QED
    BY <2>2, <2>3, Names DEF ResolverInv, NetworkStepInv, NoResolverActive
<1>2. CASE Serial
  BY <1>1, <1>2, NetworkCorrect, TypeCorrect, PTL DEF ConfiguresOffline
<1>3. CASE ~Serial
  BY <1>3
<1> QED
  BY <1>2, <1>3

-----------------------------------------------------------------------------
(* Runs that nothing disturbs *)

Undisturbed == Serial /\ Faults = {}

UndisturbedRunSucceeds == \A s \in Session : outcome[s] # "failed"

SwitchSteps == UnboundSteps \cup ResolvedSteps

SomeEnabled == Enabled(Dnsconfd) \/ Enabled(Resolved)

\* No worker ever masks a socket or NetworkManager.
NeverMasked == \A u \in Sockets \cup {NM} : ~unit[u].masked

\* What a worker has prepared for its next step, which would fail without it.
PreparedInv(s) ==
  /\ pc[s] = "enable-dnsconfd" => ~unit[Dnsconfd].masked
  /\ pc[s] = "enable-resolved" => ~unit[Resolved].masked
  /\ pc[s] = "chmod-nm-dnsconfd" => file["nm-dnsconfd"] # "absent"
  /\ pc[s] = "chmod-global" => file["global"] # "absent"
  /\ pc[s] = "chmod-dnssec" => file["dnssec"] # "absent"
  /\ pc[s] = "chmod-doh" => file["doh"] # "absent"
  /\ pc[s] \in {"touch-resolv.conf", "symlink-resolv.conf"} => resolv = "missing"
  /\ pc[s] = "chown-resolv.conf" => resolv = "root"

\* Outside set_resolver one of the resolvers is enabled, so that the one
\* get_current names can be started.
SmoothInv ==
  Undisturbed =>
    /\ NeverMasked
    /\ UndisturbedRunSucceeds
    /\ (\A s \in Session : pc[s] \notin SwitchSteps) => SomeEnabled
    /\ \A s \in Session : PreparedInv(s)

\* What is to be shown of the one worker that moves.
SmoothStep(s) ==
  /\ NeverMasked'
  /\ outcome'[s] # "failed"
  /\ pc'[s] \notin SwitchSteps => SomeEnabled'
  /\ PreparedInv(s)'

\* A call that systemd can carry out succeeds at the first attempt.
LEMMA SureCall ==
  ASSUME TypeOK, Undisturbed, UndisturbedRunSucceeds,
         NEW s \in Session, NEW here \in Steps, NEW verb \in Verb,
         NEW u \in Unit, NEW next \in {"closed"} \cup Steps,
         Possible(verb, unit[u]),
         Systemctl(s, here, verb, u, next)
  PROVE  /\ UNCHANGED <<file, resolv>> /\ pc[s] = here /\ pc'[s] = next
         /\ outcome'[s] # "failed"
         /\ \A v \in Unit \ {u} : unit'[v] = unit[v]
         /\ verb # "mask" => (unit'[u].masked => unit[u].masked)
         /\ verb = "unmask" => ~unit'[u].masked
         /\ verb \in {"start", "stop", "enable", "enable-now"} =>
              (unit[u].wanted => unit'[u].wanted) /\ (unit'[u].masked = unit[u].masked)
         /\ verb = "enable" => unit'[u].wanted
<1>1. ~("systemctl" \in Faults \/ ~Possible(verb, unit[u]))
  BY DEF Undisturbed
<1>2. /\ UNCHANGED <<file, resolv>> /\ pc[s] = here /\ pc'[s] = next
      /\ outcome' = [outcome EXCEPT ![s] = "ok"] \/ outcome' = outcome
      /\ \A v \in Unit \ {u} : unit'[v] = unit[v]
      /\ unit[u] \in UnitState /\ unit'[u] = Apply(verb, unit[u])
  BY <1>1, CallOutcome
<1>3. outcome'[s] # "failed"
  BY <1>2 DEF UndisturbedRunSucceeds, TypeOK
<1> QED
  BY <1>2, <1>3, ApplyFields DEF Verb

\* A menu or a closed session has prepared nothing.
LEMMA IdlePrepared ==
  ASSUME NEW s \in Session, ~Running(s)'
  PROVE  PreparedInv(s)'
BY DEF PreparedInv, Running, Menu

LEMMA SetUnboundSmooth ==
  ASSUME TypeOK, Undisturbed, UndisturbedRunSucceeds, NeverMasked,
         NEW s \in Session, PreparedInv(s), SetUnbound(s)
  PROVE  SmoothStep(s)
<1> DEFINE After == AfterResolver(worker[s].req)
<1>1. /\ After \in Steps /\ After \in {"set-global", "set-dnssec", "start-asks-dnsconfd"}
      /\ {"mask", "unmask", "enable", "disable", "enable-now"} \subseteq Verb
      /\ Dnsconfd \in Unit /\ Resolved \in Unit /\ Resolved # Dnsconfd
      /\ Sockets \cup {NM} \subseteq Unit \ {Dnsconfd, Resolved}
      /\ {"unbound.socket", "unbound-control.socket"} \subseteq Sockets
      /\ UnboundSteps \subseteq Steps
  <2>1. worker[s].req \in AllRequests
    BY DEF TypeOK, Worker
  <2> QED
    BY <2>1, Names, AfterType DEF AfterResolver, Verb, Sockets
<1> HIDE DEF After
<1>2. CASE \/ Systemctl(s, "mask-resolved", "mask", Resolved, "disable-resolved")
           \/ Systemctl(s, "disable-resolved", "disable", Resolved, "write-nm-dnsconfd")
           \/ Systemctl(s, "unmask-dnsconfd", "unmask", Dnsconfd, "enable-dnsconfd")
  <2>1. /\ \A v \in Sockets \cup {NM} : unit'[v] = unit[v]
        /\ outcome'[s] # "failed"
        /\ pc'[s] \in {"disable-resolved", "write-nm-dnsconfd", "enable-dnsconfd"}
        /\ pc'[s] = "enable-dnsconfd" => ~unit'[Dnsconfd].masked
    BY <1>1, <1>2, SureCall DEF UnboundSteps, Possible
  <2> QED
    BY <2>1 DEF SmoothStep, NeverMasked, PreparedInv, SwitchSteps, UnboundSteps
<1>3. CASE \/ Systemctl(s, "enable-socket", "enable-now", "unbound.socket", "enable-control")
           \/ Systemctl(s, "enable-control", "enable-now", "unbound-control.socket", "unmask-dnsconfd")
  <2>1. /\ \A v \in Sockets \cup {NM} : ~unit'[v].masked
        /\ outcome'[s] # "failed"
        /\ pc'[s] \in {"enable-control", "unmask-dnsconfd"}
    <3>1. /\ ~unit["unbound.socket"].masked /\ ~unit["unbound-control.socket"].masked
          /\ {"enable-socket", "enable-control", "unmask-dnsconfd"} \subseteq Steps
      BY <1>1 DEF NeverMasked, UnboundSteps
    <3> QED
      BY <1>1, <1>3, <3>1, SureCall DEF Possible, NeverMasked
  <2> QED
    BY <2>1 DEF SmoothStep, NeverMasked, PreparedInv, SwitchSteps, UnboundSteps
<1>4. CASE Systemctl(s, "enable-dnsconfd", "enable", Dnsconfd, After)
  <2>1. pc[s] = "enable-dnsconfd"
    BY <1>4 DEF Systemctl
  <2>2. ~unit[Dnsconfd].masked /\ "enable-dnsconfd" \in Steps
    BY <1>1, <2>1 DEF PreparedInv, UnboundSteps
  <2>3. /\ \A v \in Sockets \cup {NM} : unit'[v] = unit[v]
        /\ outcome'[s] # "failed" /\ pc'[s] = After
        /\ unit'[Dnsconfd].wanted /\ ~unit'[Dnsconfd].masked
    BY <1>1, <1>4, <2>2, SureCall DEF Possible
  <2> QED
    BY <1>1, <2>3 DEF SmoothStep, NeverMasked, PreparedInv, SomeEnabled, Enabled
<1>5. CASE \/ Write(s, "write-nm-dnsconfd", "nm-dnsconfd", "chmod-nm-dnsconfd")
           \/ Chmod(s, "chmod-nm-dnsconfd", "nm-dnsconfd", "unlink-old-resolv.conf")
  <2>1. /\ UNCHANGED unit /\ outcome'[s] # "failed"
        /\ pc'[s] \in {"chmod-nm-dnsconfd", "unlink-old-resolv.conf"}
        /\ pc'[s] = "chmod-nm-dnsconfd" => file'["nm-dnsconfd"] # "absent"
    <3>1. CASE Write(s, "write-nm-dnsconfd", "nm-dnsconfd", "chmod-nm-dnsconfd")
      BY <3>1 DEF UndisturbedRunSucceeds, Write, FileStep, Goto, Proceed, TypeOK, File
    <3>2. CASE Chmod(s, "chmod-nm-dnsconfd", "nm-dnsconfd", "unlink-old-resolv.conf")
      <4>1. file["nm-dnsconfd"] # "absent"
        BY <3>2 DEF Chmod, PreparedInv
      <4> QED
        BY <3>2, <4>1 DEF UndisturbedRunSucceeds, Chmod, Goto, Proceed, TypeOK
    <3> QED
      BY <1>5, <3>1, <3>2
  <2> QED
    BY <2>1 DEF SmoothStep, NeverMasked, PreparedInv, SwitchSteps, UnboundSteps
<1>6. CASE \/ UnlinkResolvConf(s, "unlink-old-resolv.conf", "touch-resolv.conf")
           \/ TouchResolvConf(s, "chown-resolv.conf")
           \/ ChownResolvConf(s, "enable-socket")
  BY <1>6
     DEF SmoothStep, NeverMasked, PreparedInv, SwitchSteps, UnboundSteps, UndisturbedRunSucceeds,
         FileStep, UnlinkResolvConf, TouchResolvConf, ChownResolvConf, Exit, Goto, Proceed, TypeOK
<1> QED
  BY <1>2, <1>3, <1>4, <1>5, <1>6 DEF SetUnbound, After

LEMMA SetResolvedSmooth ==
  ASSUME TypeOK, Undisturbed, UndisturbedRunSucceeds, NeverMasked,
         NEW s \in Session, PreparedInv(s), SetResolved(s)
  PROVE  SmoothStep(s)
<1> DEFINE After == AfterResolver(worker[s].req)
<1>1. /\ After \in Steps /\ After \in {"set-global", "set-dnssec", "start-asks-dnsconfd"}
      /\ {"mask", "unmask", "enable", "disable", "disable-now"} \subseteq Verb
      /\ Dnsconfd \in Unit /\ Resolved \in Unit /\ Resolved # Dnsconfd
      /\ Sockets \cup {NM} \subseteq Unit \ {Dnsconfd, Resolved}
      /\ {"unbound.socket", "unbound-control.socket"} \subseteq Sockets
      /\ ResolvedSteps \subseteq Steps
  <2>1. worker[s].req \in AllRequests
    BY DEF TypeOK, Worker
  <2> QED
    BY <2>1, Names, AfterType DEF AfterResolver, Verb, Sockets
<1> HIDE DEF After
<1>2. CASE \/ Systemctl(s, "disable-dnsconfd", "disable", Dnsconfd, "mask-dnsconfd")
           \/ Systemctl(s, "mask-dnsconfd", "mask", Dnsconfd, "disable-socket")
           \/ Systemctl(s, "unmask-resolved", "unmask", Resolved, "enable-resolved")
  <2>1. /\ \A v \in Sockets \cup {NM} : unit'[v] = unit[v]
        /\ outcome'[s] # "failed"
        /\ pc'[s] \in {"mask-dnsconfd", "disable-socket", "enable-resolved"}
        /\ pc'[s] = "enable-resolved" => ~unit'[Resolved].masked
    BY <1>1, <1>2, SureCall DEF ResolvedSteps, Possible
  <2> QED
    BY <2>1 DEF SmoothStep, NeverMasked, PreparedInv, SwitchSteps, ResolvedSteps
<1>3. CASE \/ Systemctl(s, "disable-socket", "disable-now", "unbound.socket", "disable-control")
           \/ Systemctl(s, "disable-control", "disable-now", "unbound-control.socket", "unlink-nm-dnsconfd")
  <2>1. /\ \A v \in Sockets \cup {NM} : ~unit'[v].masked
        /\ outcome'[s] # "failed"
        /\ pc'[s] \in {"disable-control", "unlink-nm-dnsconfd"}
    <3>1. {"disable-socket", "disable-control", "unlink-nm-dnsconfd"} \subseteq Steps
      BY <1>1 DEF ResolvedSteps
    <3> QED
      BY <1>1, <1>3, <3>1, SureCall DEF Possible, NeverMasked
  <2> QED
    BY <2>1 DEF SmoothStep, NeverMasked, PreparedInv, SwitchSteps, ResolvedSteps
<1>4. CASE Systemctl(s, "enable-resolved", "enable", Resolved, After)
  <2>1. pc[s] = "enable-resolved"
    BY <1>4 DEF Systemctl
  <2>2. ~unit[Resolved].masked /\ "enable-resolved" \in Steps
    BY <1>1, <2>1 DEF PreparedInv, ResolvedSteps
  <2>3. /\ \A v \in Sockets \cup {NM} : unit'[v] = unit[v]
        /\ outcome'[s] # "failed" /\ pc'[s] = After
        /\ unit'[Resolved].wanted /\ ~unit'[Resolved].masked
    BY <1>1, <1>4, <2>2, SureCall DEF Possible
  <2> QED
    BY <1>1, <2>3 DEF SmoothStep, NeverMasked, PreparedInv, SomeEnabled, Enabled
<1>5. CASE \/ Unlink(s, "unlink-nm-dnsconfd", "nm-dnsconfd", "unlink-resolv.conf")
           \/ UnlinkResolvConf(s, "unlink-resolv.conf", "symlink-resolv.conf")
           \/ SymlinkResolvConf(s, "unmask-resolved")
  <2>1. /\ UNCHANGED unit /\ outcome'[s] # "failed"
        /\ pc'[s] \in {"unlink-resolv.conf", "symlink-resolv.conf", "unmask-resolved"}
        /\ pc'[s] = "symlink-resolv.conf" => resolv' = "missing"
    BY <1>5 DEF PreparedInv, UndisturbedRunSucceeds, Unlink, FileStep, UnlinkResolvConf,
                SymlinkResolvConf, Exit, Goto, Proceed, TypeOK
  <2> QED
    BY <2>1 DEF SmoothStep, NeverMasked, PreparedInv, SwitchSteps, ResolvedSteps
<1> QED
  BY <1>2, <1>3, <1>4, <1>5 DEF SetResolved, After

\* The other steps find a resolver enabled and leave it so.
LEMMA SettingsSmooth ==
  ASSUME TypeOK, Undisturbed, UndisturbedRunSucceeds, NeverMasked,
         NEW s \in Session, PreparedInv(s), pc[s] \notin SwitchSteps => SomeEnabled,
         SetGlobalServers(s) \/ SetDnssecEnabled(s) \/ SetDohEndpoint(s)
  PROVE  SmoothStep(s)
<1> DEFINE q == worker[s].req
<1>1. pc[s] \in SettingSteps /\ UNCHANGED <<unit, resolv>>
  BY DEF SetGlobalServers, SetDnssecEnabled, SetDohEndpoint, Write, Unlink, Chmod, FileStep,
         SettingSteps
<1>2. pc[s] \notin SwitchSteps
  BY <1>1 DEF SettingSteps, SwitchSteps, UnboundSteps, ResolvedSteps
<1>3. AfterDnssec(q) \in {"set-doh", "mask-resolved", "disable-dnsconfd", "start-asks-dnsconfd"}
      /\ AfterDoh(q) \in {"closed", "start-asks-dnsconfd"}
  BY DEF AfterDnssec, AfterDoh, FirstResolverStep
<1>4. /\ outcome'[s] # "failed"
      /\ pc'[s] \in {AfterDnssec(q), AfterDoh(q), "closed"} \cup SettingSteps
      /\ pc'[s] = "chmod-global" => file'["global"] # "absent"
      /\ pc'[s] = "chmod-dnssec" => file'["dnssec"] # "absent"
      /\ pc'[s] = "chmod-doh" => file'["doh"] # "absent"
  <2> USE DEF Write, Unlink, Chmod, FileStep, Exit, Proceed, Goto, TypeOK, SettingSteps,
              PreparedInv, UndisturbedRunSucceeds, File
  <2> HIDE DEF q
  <2>1. CASE SetGlobalServers(s)
    BY <2>1 DEF SetGlobalServers
  <2>2. CASE SetDnssecEnabled(s)
    BY <1>3, <2>2 DEF SetDnssecEnabled, q
  <2>3. CASE SetDohEndpoint(s)
    BY <1>3, <2>3 DEF SetDohEndpoint, q
  <2> QED
    BY <2>1, <2>2, <2>3
<1>5. SomeEnabled' /\ NeverMasked'
  BY <1>1, <1>2 DEF SomeEnabled, Enabled, NeverMasked
<1>6. PreparedInv(s)'
  BY <1>3, <1>4 DEF PreparedInv, SettingSteps
<1> QED
  BY <1>4, <1>5, <1>6 DEF SmoothStep

LEMMA NetworkSmooth ==
  ASSUME TypeOK, Undisturbed, UndisturbedRunSucceeds, NeverMasked,
         NEW s \in Session, NetworkStepInv(s), pc[s] \notin SwitchSteps => SomeEnabled,
         StopNetwork(s) \/ CheckGlobal(s) \/ StartNetwork(s)
  PROVE  SmoothStep(s)
<1> DEFINE After == AfterStop(worker[s].req)
           u == worker[s].target
           Done == /\ outcome'[s] # "failed"
                   /\ pc'[s] \notin {"enable-dnsconfd", "enable-resolved", "chmod-nm-dnsconfd",
                                     "chmod-global", "chmod-dnssec", "chmod-doh",
                                     "touch-resolv.conf", "symlink-resolv.conf",
                                     "chown-resolv.conf"}
                   /\ \A v \in Unit : /\ unit'[v].masked => unit[v].masked
                                      /\ unit[v].wanted => unit'[v].wanted
<1>1. /\ u \in Unit /\ u \in Resolver /\ NM \in Unit /\ After \in Steps
      /\ After \in {"mask-resolved", "global-asks-dnsconfd", "set-global"}
      /\ StopSteps \cup StartSteps \subseteq Steps /\ {"start", "stop"} \subseteq Verb
  <2>1. worker[s].req \in AllRequests /\ u \in Resolver
    BY DEF TypeOK, Worker
  <2> QED
    BY <2>1, Names, AfterType DEF AfterStop, Verb
<1>2. pc[s] \in StopSteps \cup CheckSteps \cup StartSteps
  BY DEF StopNetwork, CheckGlobal, StartNetwork, Systemctl, AskDnsconfd, AskResolved,
         StopSteps, CheckSteps, StartSteps
<1>3. SomeEnabled
  BY <1>2 DEF StopSteps, CheckSteps, StartSteps, SwitchSteps, UnboundSteps, ResolvedSteps
<1>4. Done
  <2> HIDE DEF u, After
  <2>1. CASE \/ Systemctl(s, "stop-nm", "stop", NM, "stop-asks-dnsconfd")
             \/ Systemctl(s, "stop-resolver", "stop", u, After)
    BY <1>1, <2>1, SureCall DEF StopSteps, Possible
  <2>2. CASE Systemctl(s, "start-resolver", "start", u, "start-nm")
    <3>1. pc[s] = "start-resolver"
      BY <2>2 DEF Systemctl
    <3>2. ~unit[u].masked
      BY <1>3, <3>1 DEF NetworkStepInv, InUse, SomeEnabled, Enabled, u
    <3> QED
      BY <1>1, <2>2, <3>2, SureCall DEF StartSteps, Possible
  <2>3. CASE Systemctl(s, "start-nm", "start", NM, "closed")
    <3>1. ~unit[NM].masked
      BY DEF NeverMasked
    <3> QED
      BY <1>1, <2>3, <3>1, SureCall DEF StartSteps, Possible
  <2>4. CASE \E here, next \in StopSteps \cup CheckSteps \cup StartSteps :
               AskDnsconfd(s, here, next) \/ AskResolved(s, here, next)
    <3>1. /\ UNCHANGED <<unit, outcome>>
          /\ pc'[s] \in StopSteps \cup CheckSteps \cup StartSteps
      BY <2>4 DEF AskDnsconfd, AskResolved, Proceed, machine, TypeOK
    <3> QED
      BY <3>1 DEF UndisturbedRunSucceeds, StopSteps, CheckSteps, StartSteps
  <2>5. CASE /\ Goto(s, "set-global") \/ Exit(s, "refused")
             /\ UNCHANGED machine
    BY <2>5 DEF Goto, Exit, Proceed, machine, TypeOK, UndisturbedRunSucceeds
  <2> QED
    BY <2>1, <2>2, <2>3, <2>4, <2>5
       DEF StopNetwork, CheckGlobal, StartNetwork, StopSteps, CheckSteps, StartSteps, u, After
<1>5. SomeEnabled' /\ NeverMasked'
  BY <1>3, <1>4, Names DEF SomeEnabled, Enabled, NeverMasked
<1> QED
  BY <1>4, <1>5 DEF SmoothStep, PreparedInv

LEMMA WorkSmooth ==
  ASSUME TypeOK, ScriptInv, ResolverInv, SmoothInv, NEW s \in Session, Work(s)
  PROVE  SmoothInv'
<1> SUFFICES ASSUME Undisturbed PROVE SmoothInv'
  BY DEF SmoothInv, Undisturbed
<1>1. \A t \in Session \ {s} : ~Running(t) /\ ~Running(t)'
  BY WorkMovesOne DEF ScriptInv, Undisturbed, Running
<1>2. \A t \in Session \ {s} : pc[t] \notin SwitchSteps
  BY <1>1, OfflineNames DEF Running, SwitchSteps, OfflineSteps
<1>3. /\ NeverMasked /\ UndisturbedRunSucceeds /\ PreparedInv(s) /\ NetworkStepInv(s)
      /\ pc[s] \notin SwitchSteps => SomeEnabled
  BY <1>2 DEF SmoothInv, ResolverInv, Undisturbed
<1>4. SmoothStep(s)
  BY <1>3, SetUnboundSmooth, SetResolvedSmooth, SettingsSmooth, NetworkSmooth DEF Work
<1>5. \A t \in Session \ {s} : PreparedInv(t)' /\ outcome'[t] = outcome[t]
  <2>1. \A t \in Session \ {s} : outcome'[t] = outcome[t]
    <3> USE DEF Systemctl, Write, Unlink, Chmod, FileStep, AskDnsconfd, AskResolved, Exit,
                Proceed, Goto, TypeOK
    <3>1. CASE SetUnbound(s)
      BY <3>1 DEF SetUnbound, UnlinkResolvConf, TouchResolvConf, ChownResolvConf
    <3>2. CASE SetResolved(s)
      BY <3>2 DEF SetResolved, UnlinkResolvConf, SymlinkResolvConf
    <3>3. CASE SetGlobalServers(s) \/ SetDnssecEnabled(s) \/ SetDohEndpoint(s)
      BY <3>3 DEF SetGlobalServers, SetDnssecEnabled, SetDohEndpoint
    <3>4. CASE StopNetwork(s) \/ CheckGlobal(s) \/ StartNetwork(s)
      BY <3>4 DEF StopNetwork, CheckGlobal, StartNetwork
    <3> QED
      BY <3>1, <3>2, <3>3, <3>4 DEF Work
  <2> QED
    BY <1>1, <2>1, IdlePrepared
<1> QED
  BY <1>3, <1>4, <1>5 DEF SmoothInv, SmoothStep, UndisturbedRunSucceeds

LEMMA OtherSmooth ==
  ASSUME TypeOK, SmoothInv,
         \/ \E s \in Session : Open(s) \/ Leave(s) \/ Kill(s)
         \/ \E s \in Session, r \in Requests : Launch(s, r)
         \/ DnsconfdWrites \/ Reboot \/ UNCHANGED vars
  PROVE  SmoothInv'
<1> SUFFICES ASSUME Undisturbed PROVE SmoothInv'
  BY DEF SmoothInv, Undisturbed
<1>1. ~Reboot /\ \A s \in Session : ~Kill(s)
  BY DEF Reboot, Kill, Undisturbed
<1>2. UNCHANGED <<unit, file>> /\ (resolv' = resolv \/ resolv = "dnsconfd")
  BY <1>1 DEF Open, Leave, Launch, DnsconfdWrites, machine, vars
<1>3. \A s \in Session : outcome'[s] = outcome[s] \/ outcome'[s] = "none"
  BY <1>1 DEF Open, Leave, Launch, DnsconfdWrites, machine, vars, TypeOK
<1>4. \A s \in Session : pc'[s] = pc[s]
                         \/ /\ pc[s] \in Menu
                            /\ pc'[s] \in {"closed", "short-menu", "full-menu", "stop-nm", "set-doh"}
  BY <1>1 DEF Open, Leave, Launch, FirstStep, DnsconfdWrites, machine, vars, TypeOK, Menu
<1>5. \A s \in Session : PreparedInv(s)'
  BY <1>2, <1>4 DEF SmoothInv, PreparedInv
<1>6. (\A s \in Session : pc'[s] \notin SwitchSteps) => SomeEnabled'
  <2>1. \A p \in SwitchSteps : p \notin Menu
    BY OfflineNames DEF SwitchSteps, OfflineSteps
  <2> QED
    BY <1>2, <1>4, <2>1 DEF SmoothInv, SomeEnabled, Enabled
<1> QED
  BY <1>2, <1>3, <1>5, <1>6 DEF SmoothInv, NeverMasked, UndisturbedRunSucceeds

LEMMA InitSmooth == Init => SmoothInv
<1> SUFFICES ASSUME Init PROVE SmoothInv
  OBVIOUS
<1>1. SomeEnabled /\ NeverMasked
  BY Names DEF Init, SomeEnabled, Enabled, NeverMasked
<1>2. UndisturbedRunSucceeds /\ \A s \in Session : PreparedInv(s)
  BY DEF Init, UndisturbedRunSucceeds, PreparedInv
<1> QED
  BY <1>1, <1>2 DEF SmoothInv

\* With no fault and no overlap no worker fails, whatever sequence of requests
\* the sessions make: no call meets a masked unit, no file operation finds its
\* file missing or in the way, from whatever menu and however late it is chosen.
\* (LoneRunSucceeds, which the runs check, has this of each lone run where others overlap.)
THEOREM UndisturbedRunsSucceed ==
  Serial /\ Faults = {} /\ Spec => []UndisturbedRunSucceeds
<1>1. TypeOK /\ ScriptInv /\ ResolverInv /\ SmoothInv /\ [Next]_vars => SmoothInv'
  BY WorkSmooth, OtherSmooth DEF Next
<1>2. Undisturbed /\ SmoothInv => UndisturbedRunSucceeds
  BY DEF SmoothInv
<1>3. CASE Undisturbed
  BY <1>1, <1>2, <1>3, InitSmooth, TypeCorrect, ScriptCorrect, NetworkCorrect, PTL DEF Spec
<1>4. CASE ~Undisturbed
  BY <1>4 DEF Undisturbed
<1> QED
  BY <1>3, <1>4
=============================================================================
