-------------------------- MODULE DnsRepairProofs ---------------------------
(* Theorems about a worker of DnsSelector that no other worker overlaps,     *)
(* whatever state it finds the machine in, for every set of sessions.        *)
EXTENDS DnsSelectorProofs

ResolverRun(s) == worker[s].req.cmd \in {"reset", "set-dnssec", "set-resolver"}

\* set_resolver has returned.
ResolverSet(s) ==
  \/ pc[s] \in StartSteps
  \/ worker[s].req.cmd # "set-resolver" /\ pc[s] \in SettingSteps

\* Which steps a run of the three commands can be at.
RunShape(s) ==
  LET q == worker[s].req IN
  /\ pc[s] \notin CheckSteps \cup {"chmod-global", "chmod-doh"}
  /\ pc[s] \in UnboundSteps => q.resolver = Dnsconfd
  /\ pc[s] \in ResolvedSteps => q.cmd = "set-resolver" /\ q.resolver = Resolved
  /\ pc[s] = "chmod-dnssec" => q.dnssec
  /\ pc[s] = "set-doh" => q.cmd = "reset"

\* What each step of set_resolver has done to the machine is still so at the
\* later ones: for Unbound,
UnboundDone(s) ==
  LET Since(before) == pc[s] \in UnboundSteps \ before \/ ResolverSet(s)
      B1 == {"mask-resolved"}
      B2 == B1 \cup {"disable-resolved", "write-nm-dnsconfd", "chmod-nm-dnsconfd"}
      B3 == B2 \cup {"unlink-old-resolv.conf", "touch-resolv.conf", "chown-resolv.conf"}
      B4 == B3 \cup {"enable-socket"}
      B5 == B4 \cup {"enable-control"}
      B6 == B5 \cup {"unmask-dnsconfd"} IN
  worker[s].req.resolver = Dnsconfd =>
    /\ Since(B1) => unit[Resolved].masked
    /\ Since(B2) => file["nm-dnsconfd"] = "public"
    /\ pc[s] = "touch-resolv.conf" => resolv = "missing"
    /\ pc[s] = "chown-resolv.conf" => resolv = "root"
    /\ Since(B3) => resolv \in {"dnsconfd", "loopback"}
    /\ Since(B4) => unit["unbound.socket"].wanted /\ unit["unbound.socket"].active
    /\ Since(B5) => unit["unbound-control.socket"].wanted /\ unit["unbound-control.socket"].active
    /\ Since(B6) => ~unit[Dnsconfd].masked
    /\ ResolverSet(s) => unit[Dnsconfd].wanted

\* and for systemd-resolved.
ResolvedDone(s) ==
  LET Since(before) == pc[s] \in ResolvedSteps \ before \/ ResolverSet(s)
      B1 == {"disable-dnsconfd"}
      B2 == B1 \cup {"mask-dnsconfd", "disable-socket"}
      B3 == B2 \cup {"disable-control"}
      B4 == B3 \cup {"unlink-nm-dnsconfd"}
      B5 == B4 \cup {"unlink-resolv.conf", "symlink-resolv.conf"}
      B6 == B5 \cup {"unmask-resolved"} IN
  worker[s].req.resolver = Resolved =>
    /\ Since(B1) => ~unit[Dnsconfd].wanted
    /\ Since(B2) => ~unit["unbound.socket"].wanted
    /\ Since(B3) => ~unit["unbound-control.socket"].wanted
    /\ Since(B4) => file["nm-dnsconfd"] = "absent"
    /\ Since(B5) => resolv = "stub"
    /\ Since(B6) => ~unit[Resolved].masked
    /\ ResolverSet(s) => unit[Resolved].wanted

\* The settings, in the order in which main() writes them.
SettingsDone(s) ==
  LET q == worker[s].req IN
  /\ q.cmd # "set-dnssec" /\ pc[s] \in {"set-dnssec", "chmod-dnssec", "set-doh"} \cup StartSteps
       => file["global"] = "absent"
  /\ q.cmd = "set-resolver" /\ pc[s] \in UnboundSteps \cup ResolvedSteps =>
       file["global"] = "absent" /\ file["dnssec"] = "absent"
  /\ pc[s] \in {"set-doh"} \cup StartSteps =>
       file["dnssec"] = IF q.dnssec THEN "public" ELSE "absent"
  /\ q.cmd = "reset" /\ pc[s] \in StartSteps => file["doh"] = "absent"

\* get_current then names the resolver asked for, which is started.
StartDone(s) ==
  LET r == worker[s].req.resolver IN
  /\ pc[s] = "start-asks-resolved" => (worker[s].seen <=> r = Dnsconfd)
  /\ pc[s] = "start-resolver" => worker[s].target = r
  /\ pc[s] = "start-nm" => unit[r].active

RunInv(s) ==
  RunShape(s) /\ UnboundDone(s) /\ ResolvedDone(s) /\ SettingsDone(s) /\ StartDone(s)

RepairInv ==
  \A s \in alone : /\ Running(s)
                   /\ \A t \in Session : Running(t) => t = s
                   /\ ResolverRun(s) => RunInv(s)

-----------------------------------------------------------------------------
(* One step of the run *)

\* What a call on a unit has done when the worker goes on, and what it can have
\* done when the worker is to try again.
LEMMA Call ==
  ASSUME TypeOK, NEW s \in Session, NEW here \in Steps, NEW verb \in Verb,
         NEW u \in Unit, NEW next \in Steps, here # next,
         Systemctl(s, here, verb, u, next), pc'[s] # "closed"
  PROVE  /\ UNCHANGED <<file, resolv>> /\ pc[s] = here /\ pc'[s] \in {here, next}
         /\ worker'[s].req = worker[s].req
         /\ \A v \in Unit \ {u} : unit'[v] = unit[v]
         /\ verb # "unmask" => (unit[u].masked => unit'[u].masked)
         /\ verb # "mask" => (unit'[u].masked => unit[u].masked)
         /\ verb \notin {"disable", "disable-now"} => (unit[u].wanted => unit'[u].wanted)
         /\ verb \notin {"enable", "enable-now"} => (unit'[u].wanted => unit[u].wanted)
         /\ verb \notin {"stop", "disable-now"} => (unit[u].active => unit'[u].active)
         /\ pc'[s] = next =>
              /\ verb = "mask" => unit'[u].masked
              /\ verb = "unmask" => ~unit'[u].masked
              /\ verb \in {"enable", "enable-now"} => unit'[u].wanted
              /\ verb \in {"disable", "disable-now"} => ~unit'[u].wanted
              /\ verb \in {"start", "enable-now"} => unit'[u].active
<1>1. /\ UNCHANGED <<file, resolv>> /\ pc[s] = here /\ pc'[s] \in {here, next}
      /\ worker'[s].req = worker[s].req
      /\ \A v \in Unit \ {u} : unit'[v] = unit[v]
      /\ unit[u] \in UnitState
      /\ \/ pc'[s] = next /\ unit'[u] = Apply(verb, unit[u])
         \/ pc'[s] = here /\ unit'[u] \in HalfDone(verb, unit[u])
  BY CallOutcome
<1>2. CASE pc'[s] = next /\ unit'[u] = Apply(verb, unit[u])
  BY <1>1, <1>2, ApplyFields DEF Verb
<1>3. CASE pc'[s] = here /\ unit'[u] \in HalfDone(verb, unit[u])
  BY <1>1, <1>3, HalfDoneFields DEF Verb
<1> QED
  BY <1>1, <1>2, <1>3

\* The requests of the three commands.
LEMMA RunRequest ==
  ASSUME NEW r \in AllRequests, r.cmd \in {"reset", "set-dnssec", "set-resolver"}
  PROVE  /\ r.resolver \in Resolver
         /\ r.cmd # "set-resolver" => r.resolver = Dnsconfd
         /\ r.cmd # "set-dnssec" => ~r.dnssec
         /\ ~r.doh
<1>1. CASE r = Reset
  BY <1>1 DEF Reset, Resolver
<1>2. CASE r \in SetDnssec \cup SetResolver
  BY <1>2 DEF SetDnssec, SetResolver, Resolver
<1>3. CASE r \in SetGlobal \cup SetDoh
  BY <1>3 DEF SetGlobal, SetDoh
<1> QED
  BY <1>1, <1>2, <1>3 DEF AllRequests

LEMMA SetUnboundRun ==
  ASSUME TypeOK, NEW s \in Session, ResolverRun(s), RunInv(s), SetUnbound(s),
         pc'[s] # "closed"
  PROVE  RunInv(s)' /\ worker'[s].req = worker[s].req
<1> DEFINE q == worker[s].req
           After == AfterResolver(q)
<1>1. /\ After \in Steps /\ After # "enable-dnsconfd"
      /\ {"mask", "unmask", "enable", "disable", "enable-now"} \subseteq Verb
      /\ Dnsconfd \in Unit /\ Resolved \in Unit /\ Resolved # Dnsconfd
      /\ {"unbound.socket", "unbound-control.socket"} \subseteq Unit \ {Dnsconfd, Resolved}
      /\ UnboundSteps \subseteq Steps
      /\ ~q.dnssec \/ q.cmd = "set-dnssec"
  <2>1. worker[s].req \in AllRequests
    BY DEF TypeOK, Worker
  <2> QED
    BY <2>1, AfterType, RunRequest
       DEF ResolverRun, AfterResolver, Verb, Sockets, Unit, Resolver, Dnsconfd, Resolved, Steps
<1>2. CASE Systemctl(s, "mask-resolved", "mask", Resolved, "disable-resolved")
  <2>1. /\ UNCHANGED <<file, resolv>> /\ pc[s] = "mask-resolved" /\ pc'[s] \in {"mask-resolved", "disable-resolved"}
        /\ worker'[s].req = q
        /\ \A v \in Unit \ {Resolved} : unit'[v] = unit[v]
        /\ pc'[s] = "disable-resolved" => unit'[Resolved].masked
    BY <1>1, <1>2, Call DEF UnboundSteps
  <2> QED
    BY <1>1, <2>1
       DEF RunInv, RunShape, UnboundDone, ResolvedDone, SettingsDone, StartDone, ResolverSet,
           ResolverRun, UnboundSteps, ResolvedSteps, SettingSteps, StartSteps, CheckSteps
<1>3. CASE Systemctl(s, "disable-resolved", "disable", Resolved, "write-nm-dnsconfd")
  <2>1. /\ UNCHANGED <<file, resolv>> /\ pc[s] = "disable-resolved" /\ pc'[s] \in {"disable-resolved", "write-nm-dnsconfd"}
        /\ worker'[s].req = q
        /\ \A v \in Unit \ {Resolved} : unit'[v] = unit[v]
        /\ unit[Resolved].masked => unit'[Resolved].masked
    BY <1>1, <1>3, Call DEF UnboundSteps
  <2> QED
    BY <1>1, <2>1
       DEF RunInv, RunShape, UnboundDone, ResolvedDone, SettingsDone, StartDone, ResolverSet,
           ResolverRun, UnboundSteps, ResolvedSteps, SettingSteps, StartSteps, CheckSteps
<1>4. CASE \/ Write(s, "write-nm-dnsconfd", "nm-dnsconfd", "chmod-nm-dnsconfd")
           \/ Chmod(s, "chmod-nm-dnsconfd", "nm-dnsconfd", "unlink-old-resolv.conf")
  <2>1. /\ UNCHANGED <<unit, resolv>> /\ worker'[s].req = q
        /\ \A f \in File \ {"nm-dnsconfd"} : file'[f] = file[f]
        /\ \/ pc[s] = "write-nm-dnsconfd" /\ pc'[s] = "chmod-nm-dnsconfd"
           \/ /\ pc[s] = "chmod-nm-dnsconfd" /\ pc'[s] = "unlink-old-resolv.conf"
              /\ file'["nm-dnsconfd"] = "public"
    BY <1>4 DEF Write, Chmod, FileStep, Exit, Goto, Proceed, TypeOK, File
  <2>2. {"global", "dnssec", "doh"} \subseteq File \ {"nm-dnsconfd"}
    BY DEF File
  <2> QED
    BY <1>1, <2>1, <2>2
       DEF RunInv, RunShape, UnboundDone, ResolvedDone, SettingsDone, StartDone, ResolverSet,
           ResolverRun, UnboundSteps, ResolvedSteps, SettingSteps, StartSteps, CheckSteps
<1>5. CASE \/ UnlinkResolvConf(s, "unlink-old-resolv.conf", "touch-resolv.conf")
           \/ TouchResolvConf(s, "chown-resolv.conf")
           \/ ChownResolvConf(s, "enable-socket")
  <2>1. /\ UNCHANGED <<unit, file>> /\ worker'[s].req = q
        /\ \/ pc[s] = "unlink-old-resolv.conf" /\ pc'[s] = "touch-resolv.conf" /\ resolv' = "missing"
           \/ /\ pc[s] = "touch-resolv.conf" /\ pc'[s] = "chown-resolv.conf"
              /\ resolv = "missing" => resolv' = "root"
           \/ /\ pc[s] = "chown-resolv.conf" /\ pc'[s] = "enable-socket"
              /\ resolv = "root" => resolv' = "dnsconfd"
    BY <1>5 DEF UnlinkResolvConf, TouchResolvConf, ChownResolvConf, FileStep, Exit, Goto,
                Proceed, TypeOK
  <2> QED
    BY <1>1, <2>1
       DEF RunInv, RunShape, UnboundDone, ResolvedDone, SettingsDone, StartDone, ResolverSet,
           ResolverRun, UnboundSteps, ResolvedSteps, SettingSteps, StartSteps, CheckSteps
<1>6. CASE Systemctl(s, "enable-socket", "enable-now", "unbound.socket", "enable-control")
  <2>1. /\ UNCHANGED <<file, resolv>> /\ pc[s] = "enable-socket" /\ pc'[s] \in {"enable-socket", "enable-control"}
        /\ worker'[s].req = q
        /\ \A v \in Unit \ {"unbound.socket"} : unit'[v] = unit[v]
        /\ pc'[s] = "enable-control" => unit'["unbound.socket"].wanted /\ unit'["unbound.socket"].active
    BY <1>1, <1>6, Call DEF UnboundSteps
  <2> QED
    BY <1>1, <2>1
       DEF RunInv, RunShape, UnboundDone, ResolvedDone, SettingsDone, StartDone, ResolverSet,
           ResolverRun, UnboundSteps, ResolvedSteps, SettingSteps, StartSteps, CheckSteps
<1>7. CASE Systemctl(s, "enable-control", "enable-now", "unbound-control.socket", "unmask-dnsconfd")
  <2>1. /\ UNCHANGED <<file, resolv>> /\ pc[s] = "enable-control" /\ pc'[s] \in {"enable-control", "unmask-dnsconfd"}
        /\ worker'[s].req = q
        /\ \A v \in Unit \ {"unbound-control.socket"} : unit'[v] = unit[v]
        /\ pc'[s] = "unmask-dnsconfd" => unit'["unbound-control.socket"].wanted /\ unit'["unbound-control.socket"].active
    BY <1>1, <1>7, Call DEF UnboundSteps
  <2> QED
    BY <1>1, <2>1
       DEF RunInv, RunShape, UnboundDone, ResolvedDone, SettingsDone, StartDone, ResolverSet,
           ResolverRun, UnboundSteps, ResolvedSteps, SettingSteps, StartSteps, CheckSteps
<1>8. CASE Systemctl(s, "unmask-dnsconfd", "unmask", Dnsconfd, "enable-dnsconfd")
  <2>1. /\ UNCHANGED <<file, resolv>> /\ pc[s] = "unmask-dnsconfd" /\ pc'[s] \in {"unmask-dnsconfd", "enable-dnsconfd"}
        /\ worker'[s].req = q
        /\ \A v \in Unit \ {Dnsconfd} : unit'[v] = unit[v]
        /\ pc'[s] = "enable-dnsconfd" => ~unit'[Dnsconfd].masked
    BY <1>1, <1>8, Call DEF UnboundSteps
  <2> QED
    BY <1>1, <2>1
       DEF RunInv, RunShape, UnboundDone, ResolvedDone, SettingsDone, StartDone, ResolverSet,
           ResolverRun, UnboundSteps, ResolvedSteps, SettingSteps, StartSteps, CheckSteps
<1>9. CASE Systemctl(s, "enable-dnsconfd", "enable", Dnsconfd, After)
  <2>1. /\ UNCHANGED <<file, resolv>> /\ pc[s] = "enable-dnsconfd" /\ pc'[s] \in {"enable-dnsconfd", After}
        /\ worker'[s].req = q
        /\ \A v \in Unit \ {Dnsconfd} : unit'[v] = unit[v]
        /\ unit'[Dnsconfd].masked => unit[Dnsconfd].masked
        /\ pc'[s] = After => unit'[Dnsconfd].wanted
    BY <1>1, <1>9, Call DEF UnboundSteps
  <2> QED
    BY <1>1, <2>1
       DEF AfterResolver, RunInv, RunShape, UnboundDone, ResolvedDone, SettingsDone, StartDone, ResolverSet,
           ResolverRun, UnboundSteps, ResolvedSteps, SettingSteps, StartSteps, CheckSteps
<1> QED
  BY <1>2, <1>3, <1>4, <1>5, <1>6, <1>7, <1>8, <1>9 DEF SetUnbound

LEMMA SetResolvedRun ==
  ASSUME TypeOK, NEW s \in Session, ResolverRun(s), RunInv(s), SetResolved(s),
         pc'[s] # "closed"
  PROVE  RunInv(s)' /\ worker'[s].req = worker[s].req
<1> DEFINE q == worker[s].req
           After == AfterResolver(q)
<1>1. /\ After \in Steps /\ After # "enable-resolved"
      /\ {"mask", "unmask", "enable", "disable", "disable-now"} \subseteq Verb
      /\ Dnsconfd \in Unit /\ Resolved \in Unit /\ Resolved # Dnsconfd
      /\ {"unbound.socket", "unbound-control.socket"} \subseteq Unit \ {Dnsconfd, Resolved}
      /\ ResolvedSteps \subseteq Steps
      /\ ~q.dnssec \/ q.cmd = "set-dnssec"
  <2>1. worker[s].req \in AllRequests
    BY DEF TypeOK, Worker
  <2> QED
    BY <2>1, AfterType, RunRequest
       DEF ResolverRun, AfterResolver, Verb, Sockets, Unit, Resolver, Dnsconfd, Resolved, Steps
<1>2. CASE Systemctl(s, "disable-dnsconfd", "disable", Dnsconfd, "mask-dnsconfd")
  <2>1. /\ UNCHANGED <<file, resolv>> /\ pc[s] = "disable-dnsconfd" /\ pc'[s] \in {"disable-dnsconfd", "mask-dnsconfd"}
        /\ worker'[s].req = q
        /\ \A v \in Unit \ {Dnsconfd} : unit'[v] = unit[v]
        /\ pc'[s] = "mask-dnsconfd" => ~unit'[Dnsconfd].wanted
    BY <1>1, <1>2, Call DEF ResolvedSteps
  <2> QED
    BY <1>1, <2>1
       DEF RunInv, RunShape, UnboundDone, ResolvedDone, SettingsDone, StartDone, ResolverSet,
           ResolverRun, UnboundSteps, ResolvedSteps, SettingSteps, StartSteps, CheckSteps
<1>3. CASE Systemctl(s, "mask-dnsconfd", "mask", Dnsconfd, "disable-socket")
  <2>1. /\ UNCHANGED <<file, resolv>> /\ pc[s] = "mask-dnsconfd" /\ pc'[s] \in {"mask-dnsconfd", "disable-socket"}
        /\ worker'[s].req = q
        /\ \A v \in Unit \ {Dnsconfd} : unit'[v] = unit[v]
        /\ unit'[Dnsconfd].wanted => unit[Dnsconfd].wanted
    BY <1>1, <1>3, Call DEF ResolvedSteps
  <2> QED
    BY <1>1, <2>1
       DEF RunInv, RunShape, UnboundDone, ResolvedDone, SettingsDone, StartDone, ResolverSet,
           ResolverRun, UnboundSteps, ResolvedSteps, SettingSteps, StartSteps, CheckSteps
<1>4. CASE Systemctl(s, "disable-socket", "disable-now", "unbound.socket", "disable-control")
  <2>1. /\ UNCHANGED <<file, resolv>> /\ pc[s] = "disable-socket" /\ pc'[s] \in {"disable-socket", "disable-control"}
        /\ worker'[s].req = q
        /\ \A v \in Unit \ {"unbound.socket"} : unit'[v] = unit[v]
        /\ pc'[s] = "disable-control" => ~unit'["unbound.socket"].wanted
    BY <1>1, <1>4, Call DEF ResolvedSteps
  <2> QED
    BY <1>1, <2>1
       DEF RunInv, RunShape, UnboundDone, ResolvedDone, SettingsDone, StartDone, ResolverSet,
           ResolverRun, UnboundSteps, ResolvedSteps, SettingSteps, StartSteps, CheckSteps
<1>5. CASE Systemctl(s, "disable-control", "disable-now", "unbound-control.socket", "unlink-nm-dnsconfd")
  <2>1. /\ UNCHANGED <<file, resolv>> /\ pc[s] = "disable-control" /\ pc'[s] \in {"disable-control", "unlink-nm-dnsconfd"}
        /\ worker'[s].req = q
        /\ \A v \in Unit \ {"unbound-control.socket"} : unit'[v] = unit[v]
        /\ pc'[s] = "unlink-nm-dnsconfd" => ~unit'["unbound-control.socket"].wanted
    BY <1>1, <1>5, Call DEF ResolvedSteps
  <2> QED
    BY <1>1, <2>1
       DEF RunInv, RunShape, UnboundDone, ResolvedDone, SettingsDone, StartDone, ResolverSet,
           ResolverRun, UnboundSteps, ResolvedSteps, SettingSteps, StartSteps, CheckSteps
<1>6. CASE \/ Unlink(s, "unlink-nm-dnsconfd", "nm-dnsconfd", "unlink-resolv.conf")
           \/ UnlinkResolvConf(s, "unlink-resolv.conf", "symlink-resolv.conf")
           \/ SymlinkResolvConf(s, "unmask-resolved")
  <2>1. /\ UNCHANGED unit /\ worker'[s].req = q
        /\ \A f \in File \ {"nm-dnsconfd"} : file'[f] = file[f]
        /\ \/ /\ pc[s] = "unlink-nm-dnsconfd" /\ pc'[s] = "unlink-resolv.conf"
              /\ file'["nm-dnsconfd"] = "absent"
           \/ /\ pc[s] = "unlink-resolv.conf" /\ pc'[s] = "symlink-resolv.conf"
              /\ UNCHANGED file
           \/ /\ pc[s] = "symlink-resolv.conf" /\ pc'[s] = "unmask-resolved"
              /\ UNCHANGED file /\ resolv' = "stub"
    BY <1>6 DEF Unlink, UnlinkResolvConf, SymlinkResolvConf, FileStep, Exit, Goto, Proceed,
                TypeOK, File
  <2>2. {"global", "dnssec", "doh"} \subseteq File \ {"nm-dnsconfd"}
    BY DEF File
  <2> QED
    BY <1>1, <2>1, <2>2
       DEF RunInv, RunShape, UnboundDone, ResolvedDone, SettingsDone, StartDone, ResolverSet,
           ResolverRun, UnboundSteps, ResolvedSteps, SettingSteps, StartSteps, CheckSteps
<1>7. CASE Systemctl(s, "unmask-resolved", "unmask", Resolved, "enable-resolved")
  <2>1. /\ UNCHANGED <<file, resolv>> /\ pc[s] = "unmask-resolved" /\ pc'[s] \in {"unmask-resolved", "enable-resolved"}
        /\ worker'[s].req = q
        /\ \A v \in Unit \ {Resolved} : unit'[v] = unit[v]
        /\ pc'[s] = "enable-resolved" => ~unit'[Resolved].masked
    BY <1>1, <1>7, Call DEF ResolvedSteps
  <2> QED
    BY <1>1, <2>1
       DEF RunInv, RunShape, UnboundDone, ResolvedDone, SettingsDone, StartDone, ResolverSet,
           ResolverRun, UnboundSteps, ResolvedSteps, SettingSteps, StartSteps, CheckSteps
<1>8. CASE Systemctl(s, "enable-resolved", "enable", Resolved, After)
  <2>1. /\ UNCHANGED <<file, resolv>> /\ pc[s] = "enable-resolved" /\ pc'[s] \in {"enable-resolved", After}
        /\ worker'[s].req = q
        /\ \A v \in Unit \ {Resolved} : unit'[v] = unit[v]
        /\ unit'[Resolved].masked => unit[Resolved].masked
        /\ pc'[s] = After => unit'[Resolved].wanted
    BY <1>1, <1>8, Call DEF ResolvedSteps
  <2> QED
    BY <1>1, <2>1
       DEF AfterResolver, RunInv, RunShape, UnboundDone, ResolvedDone, SettingsDone, StartDone, ResolverSet,
           ResolverRun, UnboundSteps, ResolvedSteps, SettingSteps, StartSteps, CheckSteps
<1> QED
  BY <1>2, <1>3, <1>4, <1>5, <1>6, <1>7, <1>8 DEF SetResolved

LEMMA SettingsRun ==
  ASSUME TypeOK, NEW s \in Session, ResolverRun(s), RunInv(s),
         SetGlobalServers(s) \/ SetDnssecEnabled(s) \/ SetDohEndpoint(s),
         pc'[s] # "closed"
  PROVE  RunInv(s)' /\ worker'[s].req = worker[s].req
<1> DEFINE q == worker[s].req
<1>1. /\ q.resolver \in Resolver
      /\ q.cmd # "set-resolver" => q.resolver = Dnsconfd
      /\ q.cmd # "set-dnssec" => ~q.dnssec
      /\ ~q.doh /\ q.cmd \in {"reset", "set-dnssec", "set-resolver"}
      /\ Resolved # Dnsconfd
  <2>1. worker[s].req \in AllRequests
    BY DEF TypeOK, Worker
  <2> QED
    BY <2>1, RunRequest DEF ResolverRun, Dnsconfd, Resolved
<1>2. {"global", "dnssec", "doh", "nm-dnsconfd"} = File
  BY DEF File
<1>3. CASE SetGlobalServers(s)
  <2>1. /\ UNCHANGED <<unit, resolv>> /\ worker'[s].req = q
        /\ pc[s] = "set-global" /\ pc'[s] = "set-dnssec"
        /\ \A f \in File \ {"global"} : file'[f] = file[f]
        /\ file'["global"] = "absent"
    BY <1>1, <1>2, <1>3 DEF RunInv, RunShape, SetGlobalServers, Write, Unlink, Chmod, FileStep,
                            Goto, Proceed, TypeOK
  <2> QED
    BY <1>1, <1>2, <2>1
       DEF RunInv, RunShape, UnboundDone, ResolvedDone, SettingsDone, StartDone, ResolverSet,
           ResolverRun, UnboundSteps, ResolvedSteps, SettingSteps, StartSteps, CheckSteps
<1>4. CASE SetDnssecEnabled(s)
  <2>1. /\ UNCHANGED <<unit, resolv>> /\ worker'[s].req = q
        /\ \A f \in File \ {"dnssec"} : file'[f] = file[f]
        /\ \/ q.dnssec /\ pc[s] = "set-dnssec" /\ pc'[s] = "chmod-dnssec"
           \/ /\ ~q.dnssec /\ pc[s] = "set-dnssec" /\ pc'[s] = AfterDnssec(q)
              /\ file'["dnssec"] = "absent"
           \/ /\ pc[s] = "chmod-dnssec" /\ pc'[s] = AfterDnssec(q)
              /\ file'["dnssec"] = "public"
    <3>1. AfterDnssec(q) # "closed"
      BY DEF AfterDnssec, FirstResolverStep
    <3> QED
      BY <1>2, <1>4, <3>1 DEF SetDnssecEnabled, Write, Unlink, Chmod, FileStep, Exit, Goto,
                              Proceed, TypeOK
  <2>2. /\ q.cmd = "reset" => AfterDnssec(q) = "set-doh"
        /\ q.cmd = "set-dnssec" => AfterDnssec(q) = "start-asks-dnsconfd"
        /\ q.cmd = "set-resolver" =>
             AfterDnssec(q) = IF q.resolver = Dnsconfd THEN "mask-resolved" ELSE "disable-dnsconfd"
    BY <1>1 DEF AfterDnssec, FirstResolverStep
  <2> QED
    BY <1>1, <1>2, <2>1, <2>2
       DEF Resolver, RunInv, RunShape, UnboundDone, ResolvedDone, SettingsDone, StartDone, ResolverSet,
           ResolverRun, UnboundSteps, ResolvedSteps, SettingSteps, StartSteps, CheckSteps
<1>5. CASE SetDohEndpoint(s)
  <2>1. /\ UNCHANGED <<unit, resolv>> /\ worker'[s].req = q
        /\ pc[s] = "set-doh" /\ pc'[s] = "start-asks-dnsconfd"
        /\ \A f \in File \ {"doh"} : file'[f] = file[f]
        /\ file'["doh"] = "absent"
    BY <1>1, <1>2, <1>5 DEF RunInv, RunShape, SetDohEndpoint, Write, Chmod, FileStep, AfterDoh,
                            Goto, Proceed, TypeOK
  <2> QED
    BY <1>1, <1>2, <2>1
       DEF RunInv, RunShape, UnboundDone, ResolvedDone, SettingsDone, StartDone, ResolverSet,
           ResolverRun, UnboundSteps, ResolvedSteps, SettingSteps, StartSteps, CheckSteps
<1> QED
  BY <1>3, <1>4, <1>5

LEMMA StopRun ==
  ASSUME TypeOK, NEW s \in Session, ResolverRun(s), RunInv(s), StopNetwork(s),
         pc'[s] # "closed"
  PROVE  RunInv(s)' /\ worker'[s].req = worker[s].req
<1> DEFINE q == worker[s].req
           After == AfterStop(q)
<1>1. /\ q.cmd \in {"reset", "set-dnssec", "set-resolver"}
      /\ q.cmd # "set-resolver" => q.resolver = Dnsconfd
      /\ worker[s].target \in Unit /\ NM \in Unit
      /\ After \in Steps /\ After # "stop-resolver"
      /\ StopSteps \subseteq Steps /\ "stop" \in Verb
  <2>1. worker[s].req \in AllRequests
    BY DEF TypeOK, Worker
  <2> QED
    BY <2>1, AfterType, RunRequest DEF ResolverRun, AfterStop, Steps, Verb, TypeOK, Worker, Unit
<1>2. After = IF q.cmd = "set-resolver" THEN "set-global" ELSE "mask-resolved"
  BY <1>1 DEF AfterStop
<1>3. pc'[s] \in StopSteps \cup {After} /\ worker'[s].req = q
  <2>1. CASE \/ Systemctl(s, "stop-nm", "stop", NM, "stop-asks-dnsconfd")
             \/ Systemctl(s, "stop-resolver", "stop", worker[s].target, After)
    BY <1>1, <2>1, Call DEF StopSteps
  <2>2. CASE \/ AskDnsconfd(s, "stop-asks-dnsconfd", "stop-asks-resolved")
             \/ AskResolved(s, "stop-asks-resolved", "stop-resolver")
    BY <2>2 DEF AskDnsconfd, AskResolved, Proceed, TypeOK, Worker, StopSteps
  <2> QED
    BY <2>1, <2>2 DEF StopNetwork
<1> QED
  BY <1>1, <1>2, <1>3
       DEF RunInv, RunShape, UnboundDone, ResolvedDone, SettingsDone, StartDone, ResolverSet,
           ResolverRun, UnboundSteps, ResolvedSteps, SettingSteps, StartSteps, CheckSteps, StopSteps

\* Between two of the last steps nothing that the earlier ones did is undone.
LEMMA KeepsDone ==
  ASSUME NEW s \in Session, ResolverRun(s), RunInv(s),
         pc[s] \in StartSteps, pc'[s] \in StartSteps,
         worker'[s].req = worker[s].req, UNCHANGED <<file, resolv>>,
         \A v \in Unit : /\ unit'[v].masked = unit[v].masked
                         /\ unit'[v].wanted = unit[v].wanted
                         /\ unit[v].active => unit'[v].active
  PROVE  RunShape(s)' /\ UnboundDone(s)' /\ ResolvedDone(s)' /\ SettingsDone(s)'
<1>1. {Dnsconfd, Resolved, "unbound.socket", "unbound-control.socket"} \subseteq Unit
  BY DEF Unit, Resolver, Sockets
<1> QED
  BY <1>1
       DEF RunInv, RunShape, UnboundDone, ResolvedDone, SettingsDone, StartDone, ResolverSet,
           ResolverRun, UnboundSteps, ResolvedSteps, SettingSteps, StartSteps, CheckSteps

LEMMA StartRun ==
  ASSUME TypeOK, NEW s \in Session, ResolverRun(s), RunInv(s), StartNetwork(s),
         pc'[s] # "closed"
  PROVE  RunInv(s)' /\ worker'[s].req = worker[s].req
<1> DEFINE q == worker[s].req
           r == q.resolver
<1>1. /\ r \in Resolver /\ r \in Unit /\ NM \in Unit /\ NM # r /\ Resolved # Dnsconfd
      /\ StartSteps \subseteq Steps /\ "start" \in Verb
      /\ worker[s].target \in Unit
  <2>1. worker[s].req \in AllRequests
    BY DEF TypeOK, Worker
  <2> QED
    BY <2>1, RunRequest
       DEF ResolverRun, Steps, Verb, TypeOK, Worker, Unit, Resolver, Dnsconfd, Resolved, NM
<1>2. /\ pc[s] \in StartSteps
      /\ pc[s] \in StartSteps /\ r = Dnsconfd =>
           Enabled(Dnsconfd) /\ ~Enabled(Resolved)
      /\ pc[s] \in StartSteps /\ r = Resolved =>
           ~Enabled(Dnsconfd) /\ Enabled(Resolved)
  <2>1. pc[s] \in StartSteps
    BY DEF StartNetwork, Systemctl, AskDnsconfd, AskResolved, StartSteps
  <2> QED
    BY <2>1 DEF RunInv, UnboundDone, ResolvedDone, ResolverSet, Enabled
<1>3. CASE AskDnsconfd(s, "start-asks-dnsconfd", "start-asks-resolved")
  <2>1. Enabled(Dnsconfd) \in BOOLEAN
    BY DEF Enabled, TypeOK, Unit, Resolver
  <2>2. ASSUME NEW b \in BOOLEAN, b = Enabled(Dnsconfd)
        PROVE  RunInv(s)' /\ worker'[s].req = q
    <3>1. /\ pc'[s] = "start-asks-resolved" /\ UNCHANGED machine
          /\ worker'[s].seen = b /\ worker'[s].req = q
      BY <1>3, <2>2 DEF AskDnsconfd, Proceed, TypeOK, Worker
    <3>2. b <=> r = Dnsconfd
      BY <1>1, <1>2, <2>2 DEF Resolver
    <3>3. StartDone(s)'
      BY <3>1, <3>2 DEF StartDone
    <3> QED
      BY <1>2, <3>1, <3>3, KeepsDone DEF RunInv, machine, StartSteps
  <2> QED
    BY <2>1, <2>2
<1>4. CASE AskResolved(s, "start-asks-resolved", "start-resolver")
  <2>1. /\ pc[s] = "start-asks-resolved" /\ pc'[s] = "start-resolver" /\ UNCHANGED machine
        /\ worker'[s].target = Current(s) /\ worker'[s].req = q
    BY <1>4 DEF AskResolved, Proceed, TypeOK, Worker
  <2>2. Current(s) = r
    BY <1>1, <1>2, <2>1 DEF Current, RunInv, StartDone, Resolver
  <2>3. StartDone(s)'
    BY <2>1, <2>2 DEF StartDone
  <2> QED
    BY <1>2, <2>1, <2>3, KeepsDone DEF RunInv, machine, StartSteps
<1>5. CASE Systemctl(s, "start-resolver", "start", worker[s].target, "start-nm")
  <2>1. pc[s] = "start-resolver" /\ worker[s].target = r
    BY <1>5 DEF Systemctl, RunInv, StartDone
  <2>2. /\ UNCHANGED <<file, resolv>> /\ pc'[s] \in {"start-resolver", "start-nm"}
        /\ worker'[s].req = q /\ worker'[s].target = worker[s].target
        /\ \A v \in Unit \ {r} : unit'[v] = unit[v]
        /\ unit'[r].masked = unit[r].masked /\ unit'[r].wanted = unit[r].wanted
        /\ unit[r].active => unit'[r].active
        /\ pc'[s] = "start-nm" => unit'[r].active
    <3>1. unit[r] \in UnitState /\ unit'[r] \in {Apply("start", unit[r])} \cup HalfDone("start", unit[r])
      BY <1>1, <1>5, <2>1, CallOutcome DEF StartSteps
    <3>2. unit'[r].masked = unit[r].masked /\ unit'[r].wanted = unit[r].wanted
      BY <1>1, <3>1, ApplyFields, HalfDoneFields
    <3>3. worker'[s].target = worker[s].target
      BY <1>1, <1>5, <2>1, CallOutcome DEF StartSteps
    <3> QED
      BY <1>1, <1>5, <2>1, <3>2, <3>3, Call DEF StartSteps
  <2>3. StartDone(s)'
    BY <2>1, <2>2 DEF StartDone
  <2>4. \A v \in Unit : /\ unit'[v].masked = unit[v].masked
                        /\ unit'[v].wanted = unit[v].wanted
                        /\ unit[v].active => unit'[v].active
    BY <2>2
  <2> QED
    BY <1>2, <2>2, <2>3, <2>4, KeepsDone DEF RunInv, StartSteps
<1>6. CASE Systemctl(s, "start-nm", "start", NM, "closed")
  <2>1. /\ UNCHANGED <<file, resolv>> /\ pc[s] = "start-nm" /\ pc'[s] = "start-nm"
        /\ worker'[s].req = q
        /\ \A v \in Unit \ {NM} : unit'[v] = unit[v]
        /\ unit'[NM] \in HalfDone("start", unit[NM]) /\ unit[NM] \in UnitState
    BY <1>1, <1>6, CallOutcome DEF StartSteps
  <2>2. unit'[NM] = unit[NM]
    BY <1>1, <2>1, HalfDoneFields
  <2>3. \A v \in Unit : unit'[v] = unit[v]
    BY <2>1, <2>2
  <2>4. StartDone(s)'
    BY <1>1, <2>1 DEF RunInv, StartDone
  <2> QED
    BY <1>2, <2>1, <2>3, <2>4, KeepsDone DEF RunInv
<1> QED
  BY <1>3, <1>4, <1>5, <1>6 DEF StartNetwork

-----------------------------------------------------------------------------
(* The invariant *)

\* A worker's step either goes on with the same command line, or ends the
\* worker, which is then no longer counted as running alone.
LEMMA WorkGoesOn ==
  ASSUME TypeOK, NEW s \in Session, Work(s)
  PROVE  \/ Running(s)' /\ alone' = alone /\ worker'[s].req = worker[s].req
         \/ pc'[s] = "closed" /\ alone' = alone \ {s}
<1> DEFINE Goal == \/ Running(s)' /\ alone' = alone /\ worker'[s].req = worker[s].req
                   \/ pc'[s] = "closed" /\ alone' = alone \ {s}
           q == worker[s].req
<1>1. /\ AfterResolver(q) \notin Menu /\ AfterDnssec(q) \notin Menu
      /\ AfterDoh(q) \notin {"short-menu", "full-menu"} /\ AfterStop(q) \notin Menu
  BY DEF AfterResolver, AfterDnssec, AfterDoh, AfterStop, FirstResolverStep, Menu
<1>2. \A b : /\ [worker[s] EXCEPT !.retried = b].req = q
             /\ [worker[s] EXCEPT !.seen = b].req = q
             /\ [worker[s] EXCEPT !.target = b].req = q
  BY DEF TypeOK, Worker
<1>3. ASSUME NEW here, NEW verb, NEW u, NEW next, Systemctl(s, here, verb, u, next),
             here \notin Menu, next \notin {"short-menu", "full-menu"}
      PROVE  Goal
  <2>1. \/ \E how : Exit(s, how)
        \/ \E to, m : to \notin Menu /\ m.req = q /\ Proceed(s, to, m)
    BY <1>2, <1>3 DEF Systemctl, Menu
  <2>2. CASE \E how : Exit(s, how)
    BY <2>2 DEF Exit, TypeOK
  <2>3. CASE \E to, m : to \notin Menu /\ m.req = q /\ Proceed(s, to, m)
    BY <2>3 DEF Proceed, TypeOK, Running
  <2> QED
    BY <2>1, <2>2, <2>3
<1>4. ASSUME NEW here, NEW next, here \notin Menu, next \notin Menu,
             AskDnsconfd(s, here, next) \/ AskResolved(s, here, next)
      PROVE  Goal
  <2>1. \E m : m.req = q /\ Proceed(s, next, m)
    BY <1>2, <1>4 DEF AskDnsconfd, AskResolved
  <2> QED
    BY <1>4, <2>1 DEF Proceed, TypeOK, Running
<1>5. ASSUME NEW next, next \notin {"short-menu", "full-menu"},
             \/ next # "closed" /\ Goto(s, next)
             \/ \E how : Exit(s, how)
      PROVE  Goal
  BY <1>5 DEF Goto, Exit, Proceed, TypeOK, Running, Menu
<1> HIDE DEF Goal, q
<1>6. CASE SetUnbound(s)
  <2>1. CASE \/ Systemctl(s, "mask-resolved", "mask", Resolved, "disable-resolved")
             \/ Systemctl(s, "disable-resolved", "disable", Resolved, "write-nm-dnsconfd")
             \/ Systemctl(s, "enable-socket", "enable-now", "unbound.socket", "enable-control")
             \/ Systemctl(s, "enable-control", "enable-now", "unbound-control.socket", "unmask-dnsconfd")
             \/ Systemctl(s, "unmask-dnsconfd", "unmask", Dnsconfd, "enable-dnsconfd")
             \/ Systemctl(s, "enable-dnsconfd", "enable", Dnsconfd, AfterResolver(q))
    BY <1>1, <1>3, <2>1 DEF Menu, Goal
  <2> QED
    BY <1>5, <1>6, <2>1
       DEF SetUnbound, Write, Chmod, FileStep, UnlinkResolvConf, TouchResolvConf,
           ChownResolvConf, q, Goal
<1>7. CASE SetResolved(s)
  <2>1. CASE \/ Systemctl(s, "disable-dnsconfd", "disable", Dnsconfd, "mask-dnsconfd")
             \/ Systemctl(s, "mask-dnsconfd", "mask", Dnsconfd, "disable-socket")
             \/ Systemctl(s, "disable-socket", "disable-now", "unbound.socket", "disable-control")
             \/ Systemctl(s, "disable-control", "disable-now", "unbound-control.socket", "unlink-nm-dnsconfd")
             \/ Systemctl(s, "unmask-resolved", "unmask", Resolved, "enable-resolved")
             \/ Systemctl(s, "enable-resolved", "enable", Resolved, AfterResolver(q))
    BY <1>1, <1>3, <2>1 DEF Menu, Goal
  <2> QED
    BY <1>5, <1>7, <2>1 DEF SetResolved, Unlink, FileStep, UnlinkResolvConf, SymlinkResolvConf,
                            q, Goal
<1>8. CASE SetGlobalServers(s) \/ SetDnssecEnabled(s) \/ SetDohEndpoint(s)
  BY <1>1, <1>5, <1>8 DEF SetGlobalServers, SetDnssecEnabled, SetDohEndpoint, Write, Unlink,
                          Chmod, FileStep, q, Menu, Goal
<1>9. CASE StopNetwork(s) \/ CheckGlobal(s) \/ StartNetwork(s)
  BY <1>1, <1>3, <1>4, <1>5, <1>9 DEF StopNetwork, CheckGlobal, StartNetwork, q, Menu, Goal
<1> QED
  BY <1>6, <1>7, <1>8, <1>9 DEF Work, Goal

LEMMA WorkRepair ==
  ASSUME TypeOK, RepairInv, NEW s \in Session, Work(s)
  PROVE  RepairInv'
<1> SUFFICES ASSUME NEW t \in alone'
             PROVE  /\ Running(t)'
                    /\ \A u \in Session : Running(u)' => u = t
                    /\ ResolverRun(t)' => RunInv(t)'
  BY DEF RepairInv
<1>1. Running(s) /\ \A u \in Session \ {s} : pc'[u] = pc[u]
  BY WorkMovesOne
<1>2. alone' \subseteq alone /\ alone \subseteq Session
  BY WorkGoesOn DEF TypeOK
<1>3. t = s /\ \A u \in Session \ {s} : ~Running(u)
  BY <1>1, <1>2 DEF RepairInv
<1>4. Running(s)' /\ worker'[s].req = worker[s].req
  BY <1>3, WorkGoesOn
<1>5. \A u \in Session : Running(u)' => u = s
  BY <1>1, <1>3 DEF Running
<1>6. ASSUME ResolverRun(s)
      PROVE  RunInv(s)'
  <2>1. RunInv(s) /\ pc'[s] # "closed"
    BY <1>2, <1>3, <1>4, <1>6 DEF RepairInv, Running, Menu
  <2>2. ~CheckGlobal(s)
    BY <2>1 DEF RunInv, RunShape, CheckGlobal, AskDnsconfd, CheckSteps
  <2> QED
    BY <1>6, <2>1, <2>2, SetUnboundRun, SetResolvedRun, SettingsRun, StopRun, StartRun DEF Work
<1> QED
  BY <1>3, <1>4, <1>5, <1>6 DEF ResolverRun

\* A worker begins where nothing is claimed of it yet.
LEMMA LaunchRepair ==
  ASSUME TypeOK, RepairInv, NEW s \in Session, NEW r \in Requests, Launch(s, r)
  PROVE  RepairInv'
<1>1. CASE \E t \in Session : Running(t)
  BY <1>1 DEF Launch, RepairInv
<1>2. CASE ~\E t \in Session : Running(t)
  <2>1. /\ alone' = {s} /\ pc'[s] = FirstStep(r) /\ worker'[s].req = r
        /\ \A t \in Session \ {s} : pc'[t] = pc[t]
    BY <1>2 DEF Launch, TypeOK, NewWorker
  <2>2. Running(s)' /\ \A t \in Session \ {s} : ~Running(t)'
    BY <1>2, <2>1 DEF Running, FirstStep, Menu
  <2>3. ResolverRun(s)' => pc'[s] = "stop-nm"
    BY <2>1 DEF ResolverRun, FirstStep
  <2>4. pc'[s] = "stop-nm" => RunInv(s)'
    BY DEF RunInv, RunShape, UnboundDone, ResolvedDone, SettingsDone, StartDone, ResolverSet,
           UnboundSteps, ResolvedSteps, SettingSteps, StartSteps, CheckSteps
  <2> QED
    BY <2>1, <2>2, <2>3, <2>4 DEF RepairInv
<1> QED
  BY <1>1, <1>2

\* Menus change nothing of the machine; dnsconfd only completes the resolv.conf
\* that the worker gave it.
LEMMA OtherRepair ==
  ASSUME TypeOK, RepairInv,
         \/ \E s \in Session : Open(s) \/ Leave(s) \/ Kill(s)
         \/ DnsconfdWrites \/ Reboot \/ UNCHANGED vars
  PROVE  RepairInv'
<1>1. CASE Reboot
  BY <1>1 DEF Reboot, RepairInv
<1>2. CASE \/ \E s \in Session : Open(s) \/ Leave(s) \/ Kill(s)
           \/ DnsconfdWrites \/ UNCHANGED vars
  <2>1. /\ UNCHANGED <<unit, file>> /\ alone' \subseteq alone
        /\ resolv' = resolv \/ (resolv = "dnsconfd" /\ resolv' = "loopback")
    BY <1>2 DEF Open, Leave, Kill, Exit, DnsconfdWrites, machine, vars
  <2>2. \A t \in Session : Running(t)' => Running(t)
    BY <1>2 DEF Open, Leave, Kill, Exit, DnsconfdWrites, machine, vars, Running, Menu, TypeOK
  <2>3. ASSUME NEW t \in alone'
        PROVE  /\ Running(t)'
               /\ \A u \in Session : Running(u)' => u = t
               /\ ResolverRun(t)' => RunInv(t)'
    <3>1. t \in Session /\ t \in alone /\ Running(t)
      BY <2>1, <2>3 DEF TypeOK, RepairInv
    <3>2. pc'[t] = pc[t] /\ worker'[t] = worker[t]
      BY <1>2, <2>3, <3>1 DEF Open, Leave, Kill, Exit, DnsconfdWrites, vars, Running, Menu, TypeOK
    <3>3. RunInv(t) => RunInv(t)'
      <4>1. RunShape(t) => RunShape(t)'
        BY <3>2 DEF RunShape
      <4>2. UnboundDone(t) => UnboundDone(t)'
        BY <2>1, <3>2 DEF UnboundDone, ResolverSet
      <4>3. ResolvedDone(t) => ResolvedDone(t)'
        BY <2>1, <3>2 DEF ResolvedDone, ResolverSet
      <4>4. SettingsDone(t) => SettingsDone(t)'
        BY <2>1, <3>2 DEF SettingsDone
      <4>5. StartDone(t) => StartDone(t)'
        BY <2>1, <3>2 DEF StartDone
      <4> QED
        BY <4>1, <4>2, <4>3, <4>4, <4>5 DEF RunInv
    <3> QED
      BY <2>2, <3>1, <3>2, <3>3 DEF RepairInv, ResolverRun, Running
  <2> QED
    BY <2>3 DEF RepairInv
<1> QED
  BY <1>1, <1>2

\* The inductive invariant: what an undisturbed run of reset, set-dnssec or
\* set-resolver has done so far, it still finds done.
THEOREM RepairCorrect == Spec => []RepairInv
<1>1. Init => RepairInv
  BY DEF Init, RepairInv
<1>2. TypeOK /\ RepairInv /\ [Next]_vars => RepairInv'
  BY WorkRepair, LaunchRepair, OtherRepair DEF Next
<1> QED
  BY <1>1, <1>2, TypeCorrect, PTL DEF Spec

-----------------------------------------------------------------------------
(* The end of the run *)

\* The only way out of such a run with success is the start of NetworkManager.
LEMMA LastStep ==
  ASSUME TypeOK, NEW s \in Session, ResolverRun(s), RunInv(s), Work(s),
         pc'[s] = "closed", outcome'[s] = "ok"
  PROVE  /\ pc[s] = "start-nm" /\ UNCHANGED <<file, resolv>>
         /\ \A v \in Unit \ {NM} : unit'[v] = unit[v]
         /\ unit'[NM].active
<1> DEFINE q == worker[s].req
           Target == worker[s].target
<1>1. /\ AfterResolver(q) \in Steps /\ AfterDnssec(q) \in Steps /\ AfterStop(q) \in Steps
      /\ AfterDoh(q) = "start-asks-dnsconfd"
      /\ UnboundSteps \cup ResolvedSteps \cup StopSteps \cup StartSteps \subseteq Steps
      /\ Resolver \cup Sockets \cup {NM} \subseteq Unit /\ Target \in Resolver
      /\ {"mask", "unmask", "enable", "disable", "enable-now", "disable-now", "start", "stop"}
           = Verb
      /\ "closed" \notin Steps
  <2>1. worker[s].req \in AllRequests /\ Target \in Resolver
    BY DEF TypeOK, Worker
  <2>2. "closed" \notin Steps
    BY DEF Steps, UnboundSteps, ResolvedSteps, SettingSteps, StopSteps, CheckSteps, StartSteps
  <2> QED
    BY <2>1, <2>2, AfterType DEF ResolverRun, AfterDoh, Steps, Unit, Verb
<1>2. ASSUME NEW here \in Steps, NEW verb \in Verb, NEW u \in Unit, NEW next \in Steps,
             Systemctl(s, here, verb, u, next)
      PROVE  FALSE
  <2>1. pc'[s] \in Steps \/ outcome' = [outcome EXCEPT ![s] = "failed"]
    BY <1>2, CallOutcome
  <2> QED
    BY <1>1, <2>1 DEF TypeOK
<1>3. \A how \in {"failed", "refused"} : ~Exit(s, how)
  BY DEF Exit, TypeOK
<1>4. \A next : next # "closed" => ~Goto(s, next)
  BY DEF Goto, Proceed, TypeOK
<1>5. CASE SetUnbound(s)
  <2>1. ~\/ Systemctl(s, "mask-resolved", "mask", Resolved, "disable-resolved")
         \/ Systemctl(s, "disable-resolved", "disable", Resolved, "write-nm-dnsconfd")
         \/ Systemctl(s, "enable-socket", "enable-now", "unbound.socket", "enable-control")
         \/ Systemctl(s, "enable-control", "enable-now", "unbound-control.socket", "unmask-dnsconfd")
         \/ Systemctl(s, "unmask-dnsconfd", "unmask", Dnsconfd, "enable-dnsconfd")
         \/ Systemctl(s, "enable-dnsconfd", "enable", Dnsconfd, AfterResolver(q))
    BY <1>1, <1>2 DEF UnboundSteps, Resolver, Sockets
  <2> QED
    BY <1>3, <1>4, <1>5, <2>1
       DEF SetUnbound, Write, Chmod, FileStep, UnlinkResolvConf, TouchResolvConf, ChownResolvConf
<1>6. CASE SetResolved(s)
  <2>1. ~\/ Systemctl(s, "disable-dnsconfd", "disable", Dnsconfd, "mask-dnsconfd")
         \/ Systemctl(s, "mask-dnsconfd", "mask", Dnsconfd, "disable-socket")
         \/ Systemctl(s, "disable-socket", "disable-now", "unbound.socket", "disable-control")
         \/ Systemctl(s, "disable-control", "disable-now", "unbound-control.socket", "unlink-nm-dnsconfd")
         \/ Systemctl(s, "unmask-resolved", "unmask", Resolved, "enable-resolved")
         \/ Systemctl(s, "enable-resolved", "enable", Resolved, AfterResolver(q))
    BY <1>1, <1>2 DEF ResolvedSteps, Resolver, Sockets
  <2> QED
    BY <1>3, <1>4, <1>6, <2>1
       DEF SetResolved, Unlink, FileStep, UnlinkResolvConf, SymlinkResolvConf
<1>7. CASE SetGlobalServers(s) \/ SetDnssecEnabled(s) \/ SetDohEndpoint(s)
  BY <1>1, <1>3, <1>4, <1>7
     DEF SetGlobalServers, SetDnssecEnabled, SetDohEndpoint, Write, Unlink, Chmod, FileStep
<1>8. CASE CheckGlobal(s)
  BY <1>8 DEF CheckGlobal, AskDnsconfd, RunInv, RunShape, CheckSteps
<1>9. CASE \E here, next \in StopSteps \cup StartSteps :
             AskDnsconfd(s, here, next) \/ AskResolved(s, here, next)
  BY <1>1, <1>9 DEF AskDnsconfd, AskResolved, Proceed, TypeOK
<1>10. CASE \/ Systemctl(s, "stop-nm", "stop", NM, "stop-asks-dnsconfd")
            \/ Systemctl(s, "stop-resolver", "stop", Target, AfterStop(q))
            \/ Systemctl(s, "start-resolver", "start", Target, "start-nm")
  BY <1>1, <1>2, <1>10 DEF StopSteps, StartSteps
<1>11. CASE Systemctl(s, "start-nm", "start", NM, "closed")
  <2>1. /\ UNCHANGED <<file, resolv>> /\ pc[s] = "start-nm" /\ unit[NM] \in UnitState
        /\ \A v \in Unit \ {NM} : unit'[v] = unit[v]
        /\ unit'[NM] = Apply("start", unit[NM]) \/ outcome' = [outcome EXCEPT ![s] = "failed"]
           \/ pc'[s] = "start-nm"
    <3>1. "start-nm" \in Steps /\ "start" \in Verb /\ NM \in Unit
      BY <1>1 DEF StartSteps
    <3> QED
      BY <1>11, <3>1, CallOutcome
  <2>2. unit'[NM] = Apply("start", unit[NM])
    BY <2>1 DEF TypeOK
  <2> QED
    BY <1>1, <2>1, <2>2, ApplyFields
<1> QED
  BY <1>5, <1>6, <1>7, <1>8, <1>9, <1>10, <1>11
     DEF Work, StopNetwork, StartNetwork, StopSteps, StartSteps

\* What the invariant says there is what the run had to leave behind.
LEMMA LastStepCoherent ==
  ASSUME TypeOK, NEW s \in Session, ResolverRun(s), RunInv(s), pc[s] = "start-nm",
         UNCHANGED <<file, resolv>>, \A v \in Unit \ {NM} : unit'[v] = unit[v],
         unit'[NM].active
  PROVE  /\ \A r \in Resolver : worker[s].req.resolver = r => Coherent(r)'
         /\ (file'["dnssec"] = "public") = worker[s].req.dnssec
         /\ worker[s].req.cmd # "set-dnssec" => file'["global"] = "absent"
         /\ worker[s].req.cmd = "reset" => file'["doh"] = "absent"
<1> DEFINE q == worker[s].req
<1>1. /\ pc[s] \in StartSteps /\ ResolverSet(s)
      /\ q.dnssec \in BOOLEAN
      /\ Sockets = {"unbound.socket", "unbound-control.socket"}
      /\ Resolver = {Dnsconfd, Resolved} /\ Dnsconfd # Resolved
      /\ Resolver \cup Sockets \subseteq Unit \ {NM}
  <2>1. q \in AllRequests
    BY DEF TypeOK, Worker
  <2>2. q.dnssec \in BOOLEAN
    <3>1. CASE q = Reset
      BY <3>1 DEF Reset
    <3>2. CASE q \in SetDnssec \cup SetGlobal
      BY <3>2 DEF SetDnssec, SetGlobal
    <3>3. CASE q \in SetResolver \cup SetDoh
      BY <3>3 DEF SetResolver, SetDoh
    <3> QED
      BY <2>1, <3>1, <3>2, <3>3 DEF AllRequests
  <2> QED
    BY <2>2 DEF StartSteps, ResolverSet, Sockets, Resolver, Dnsconfd, Resolved, Unit, NM
<1>2. \A u \in Resolver \cup Sockets : unit'[u] = unit[u]
  BY <1>1
<1>3. /\ file'["dnssec"] = IF q.dnssec THEN "public" ELSE "absent"
      /\ q.cmd # "set-dnssec" => file'["global"] = "absent"
      /\ q.cmd = "reset" => file'["doh"] = "absent"
      /\ unit[q.resolver].active
  BY <1>1 DEF RunInv, SettingsDone, StartDone
<1>4. ASSUME q.resolver = Dnsconfd
      PROVE  Coherent(Dnsconfd)'
  <2>1. /\ unit[Resolved].masked /\ file["nm-dnsconfd"] = "public"
        /\ resolv \in {"dnsconfd", "loopback"}
        /\ \A u \in Sockets : unit[u].wanted /\ unit[u].active
        /\ ~unit[Dnsconfd].masked /\ unit[Dnsconfd].wanted
    BY <1>1, <1>4 DEF RunInv, UnboundDone
  <2>2. InService' = {Dnsconfd}
    BY <1>1, <1>2, <2>1 DEF InService, Enabled
  <2> QED
    BY <1>1, <1>2, <1>3, <1>4, <2>1, <2>2 DEF Coherent
<1>5. ASSUME q.resolver = Resolved
      PROVE  Coherent(Resolved)'
  <2>1. /\ ~unit[Dnsconfd].wanted /\ file["nm-dnsconfd"] = "absent"
        /\ resolv = "stub" /\ \A u \in Sockets : ~unit[u].wanted
        /\ ~unit[Resolved].masked /\ unit[Resolved].wanted
    BY <1>1, <1>5 DEF RunInv, ResolvedDone
  <2>2. InService' = {Resolved}
    BY <1>1, <1>2, <2>1 DEF InService, Enabled
  <2>3. \A u \in Sockets : unit'[u].wanted = FALSE
    BY <1>1, <1>2, <2>1 DEF TypeOK
  <2> QED
    BY <1>1, <1>2, <1>3, <1>5, <2>1, <2>2, <2>3 DEF Coherent
<1> QED
  BY <1>1, <1>3, <1>4, <1>5

\* A reset, set-dnssec or set-resolver that no other worker overlapped and that
\* ends well leaves a coherent machine with the settings asked for, whatever
\* overlapping, failed, killed or rebooted runs had left it: no hypothesis is
\* made on the state it starts from, on faults or on what ran before it.
THEOREM RunsRepair == Spec => CompletedRunRepairs
<1>1. TypeOK /\ RepairInv /\ [Next]_vars => \A s \in Session : LeavesCoherent(s)
  <2> SUFFICES ASSUME TypeOK, RepairInv, [Next]_vars, NEW s \in Session, s \in alone,
                      ResolverRun(s), pc[s] # "closed", pc'[s] = "closed", outcome'[s] = "ok"
               PROVE  /\ \A r \in Resolver : worker[s].req.resolver = r => Coherent(r)'
                      /\ (file'["dnssec"] = "public") = worker[s].req.dnssec
                      /\ worker[s].req.cmd # "set-dnssec" => file'["global"] = "absent"
                      /\ worker[s].req.cmd = "reset" => file'["doh"] = "absent"
    BY DEF LeavesCoherent, ResolverRun
  <2>1. RunInv(s) /\ Running(s)
    BY DEF RepairInv
  <2>2. ASSUME NEW t \in Session, Work(t)
        PROVE  t = s
    BY <2>2, WorkMovesOne
  <2>3. Work(s)
    <3>1. ~\/ \E t \in Session : Open(t) \/ Leave(t) \/ Kill(t)
           \/ \E t \in Session, r \in Requests : Launch(t, r)
           \/ DnsconfdWrites \/ Reboot \/ UNCHANGED vars
      BY <2>1 DEF Open, Leave, Kill, Exit, Launch, FirstStep, DnsconfdWrites, Reboot, vars,
                  Running, Menu, TypeOK
    <3> QED
      BY <2>2, <3>1 DEF Next
  <2> QED
    BY <2>1, <2>3, LastStep, LastStepCoherent
<1> QED
  BY <1>1, RepairCorrect, TypeCorrect, PTL DEF Spec, CompletedRunRepairs
=============================================================================
