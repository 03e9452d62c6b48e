------------------------- MODULE DnsSelectorProofs -------------------------
(* Theorems about DnsSelector, for every set of sessions and of requests. *)
EXTENDS DnsSelector, TLAPS

UnitState == [wanted : BOOLEAN, masked : BOOLEAN, active : BOOLEAN]
Verb == {"mask", "unmask", "enable", "disable", "start", "stop",
         "enable-now", "disable-now"}

-----------------------------------------------------------------------------
(* Types *)

\* Every systemctl verb maps a unit's record to a unit's record.
LEMMA ApplyType ==
  ASSUME NEW r \in UnitState, NEW verb \in Verb
  PROVE  Apply(verb, r) \in UnitState
BY DEF UnitState, Verb, Apply

\* So does a call that fails half way.
LEMMA HalfDoneType ==
  ASSUME NEW r \in UnitState, NEW verb \in Verb
  PROVE  HalfDone(verb, r) \subseteq UnitState
<1>1. {"enable", "disable"} \subseteq Verb
  BY DEF Verb
<1>2. Apply("enable", r) \in UnitState /\ Apply("disable", r) \in UnitState
  BY <1>1, ApplyType
<1> QED
  BY <1>2 DEF HalfDone

\* A fresh worker is a worker.
LEMMA NewWorkerType ==
  ASSUME NEW r \in AllRequests
  PROVE  NewWorker(r) \in Worker
BY DEF NewWorker, Worker, Resolver, Dnsconfd

LEMMA ResetType == Reset \in AllRequests
BY DEF AllRequests

\* The three ways a session's control moves keep the control variables typed.
LEMMA ProceedType ==
  ASSUME TypeOK, NEW s \in Session, NEW next \in Menu \cup Steps,
         NEW m \in Worker, Proceed(s, next, m)
  PROVE  /\ pc' \in [Session -> Menu \cup Steps]
         /\ worker' \in [Session -> Worker]
         /\ outcome' \in [Session -> Outcome]
         /\ alone' \subseteq Session
BY DEF TypeOK, Proceed

LEMMA ExitType ==
  ASSUME TypeOK, NEW s \in Session, NEW how \in Outcome, Exit(s, how)
  PROVE  /\ pc' \in [Session -> Menu \cup Steps]
         /\ worker' \in [Session -> Worker]
         /\ outcome' \in [Session -> Outcome]
         /\ alone' \subseteq Session
BY NewWorkerType, ResetType DEF TypeOK, Exit, Menu

LEMMA SystemctlType ==
  ASSUME TypeOK, NEW s \in Session, NEW here \in Steps, NEW verb \in Verb,
         NEW u \in Unit, NEW next \in {"closed"} \cup Steps,
         Systemctl(s, here, verb, u, next)
  PROVE  TypeOK'
<1>1. /\ unit[u] \in UnitState
      /\ [worker[s] EXCEPT !.retried = TRUE] \in Worker
      /\ [worker[s] EXCEPT !.retried = FALSE] \in Worker
  BY DEF TypeOK, UnitState, Worker
<1>2. {"ok", "failed"} \subseteq Outcome /\ Steps \subseteq Menu \cup Steps
  BY DEF Outcome
<1>3. unit' \in [Unit -> UnitState]
  <2>1. unit \in [Unit -> UnitState]
    BY DEF TypeOK, UnitState
  <2>2. \/ unit' = [unit EXCEPT ![u] = Apply(verb, unit[u])]
        \/ \E r \in HalfDone(verb, unit[u]) : unit' = [unit EXCEPT ![u] = r]
    BY DEF Systemctl
  <2> QED
    BY <1>1, <2>1, <2>2, ApplyType, HalfDoneType
<1>4. \/ Exit(s, "ok") \/ Exit(s, "failed")
      \/ next \in Steps /\ Proceed(s, next, [worker[s] EXCEPT !.retried = FALSE])
      \/ Proceed(s, here, [worker[s] EXCEPT !.retried = TRUE])
  BY DEF Systemctl
<1>5. /\ pc' \in [Session -> Menu \cup Steps]
      /\ worker' \in [Session -> Worker]
      /\ outcome' \in [Session -> Outcome]
      /\ alone' \subseteq Session
  BY <1>1, <1>2, <1>4, ProceedType, ExitType
<1> QED
  BY <1>3, <1>5 DEF TypeOK, Systemctl, UnitState

LEMMA GotoType ==
  ASSUME TypeOK, NEW s \in Session, NEW next \in Steps, Goto(s, next)
  PROVE  /\ pc' \in [Session -> Menu \cup Steps]
         /\ worker' \in [Session -> Worker]
         /\ outcome' \in [Session -> Outcome]
         /\ alone' \subseteq Session
BY ProceedType DEF Goto, TypeOK

\* The file operations, and the steps that follow a script.
LEMMA WriteType ==
  ASSUME TypeOK, NEW s \in Session, NEW here \in Steps, NEW f \in File,
         NEW next \in Steps, Write(s, here, f, next) \/ Unlink(s, here, f, next)
  PROVE  TypeOK'
<1>1. Goto(s, next) /\ UNCHANGED <<unit, resolv>>
  BY DEF Write, Unlink, FileStep
<1>2. file' \in [File -> FileState]
  BY DEF TypeOK, Write, Unlink, FileState
<1> QED
  BY <1>1, <1>2, GotoType DEF TypeOK

LEMMA ChmodType ==
  ASSUME TypeOK, NEW s \in Session, NEW here \in Steps, NEW f \in File,
         NEW next \in {"closed"} \cup Steps, Chmod(s, here, f, next)
  PROVE  TypeOK'
<1>1. {"ok", "failed"} \subseteq Outcome
  BY DEF Outcome
<1>2. Exit(s, "ok") \/ Exit(s, "failed") \/ (next \in Steps /\ Goto(s, next))
  BY DEF Chmod
<1>3. file' \in [File -> FileState] /\ UNCHANGED <<unit, resolv>>
  BY DEF TypeOK, Chmod, FileState
<1> QED
  BY <1>1, <1>2, <1>3, GotoType, ExitType DEF TypeOK

LEMMA AfterType ==
  ASSUME NEW r \in AllRequests
  PROVE  /\ AfterResolver(r) \in Steps
         /\ AfterDnssec(r) \in Steps
         /\ AfterDoh(r) \in {"closed"} \cup Steps
         /\ AfterStop(r) \in Steps
BY DEF AfterResolver, AfterDnssec, AfterDoh, AfterStop, FirstResolverStep, Steps,
       UnboundSteps, ResolvedSteps, SettingSteps, StopSteps, CheckSteps, StartSteps

LEMMA SetUnboundType ==
  ASSUME TypeOK, NEW s \in Session, SetUnbound(s)
  PROVE  TypeOK'
<1>1. UnboundSteps \subseteq Steps /\ worker[s].req \in AllRequests
  BY DEF Steps, TypeOK, Worker
<1>2. AfterResolver(worker[s].req) \in Steps
  BY <1>1, AfterType
<1>3. /\ Resolver \cup Sockets \subseteq Unit
      /\ {"mask", "unmask", "enable", "disable", "enable-now"} \subseteq Verb
      /\ "nm-dnsconfd" \in File
  BY DEF Unit, Verb, File
<1>4. ASSUME NEW here \in UnboundSteps, NEW verb \in Verb, NEW u \in Unit,
             NEW next \in Steps, Systemctl(s, here, verb, u, next)
      PROVE  TypeOK'
  BY <1>1, <1>4, SystemctlType
<1>5. CASE \/ Systemctl(s, "mask-resolved", "mask", Resolved, "disable-resolved")
           \/ Systemctl(s, "disable-resolved", "disable", Resolved, "write-nm-dnsconfd")
           \/ Systemctl(s, "enable-socket", "enable-now", "unbound.socket", "enable-control")
           \/ Systemctl(s, "enable-control", "enable-now", "unbound-control.socket", "unmask-dnsconfd")
           \/ Systemctl(s, "unmask-dnsconfd", "unmask", Dnsconfd, "enable-dnsconfd")
           \/ Systemctl(s, "enable-dnsconfd", "enable", Dnsconfd, AfterResolver(worker[s].req))
  BY <1>1, <1>2, <1>3, <1>4, <1>5 DEF UnboundSteps, Resolver, Sockets
<1>6. CASE \/ Write(s, "write-nm-dnsconfd", "nm-dnsconfd", "chmod-nm-dnsconfd")
           \/ Chmod(s, "chmod-nm-dnsconfd", "nm-dnsconfd", "unlink-old-resolv.conf")
  BY <1>1, <1>3, <1>6, WriteType, ChmodType DEF UnboundSteps
<1>7. CASE \/ UnlinkResolvConf(s, "unlink-old-resolv.conf", "touch-resolv.conf")
           \/ TouchResolvConf(s, "chown-resolv.conf")
           \/ ChownResolvConf(s, "enable-socket")
  <2>1. \/ \E next \in UnboundSteps : Goto(s, next)
        \/ Exit(s, "failed")
    BY <1>7 DEF UnlinkResolvConf, TouchResolvConf, ChownResolvConf, FileStep, UnboundSteps
  <2>2. resolv' \in ResolvConf /\ UNCHANGED <<unit, file>>
    BY <1>7 DEF UnlinkResolvConf, TouchResolvConf, ChownResolvConf, FileStep, TypeOK, ResolvConf
  <2> QED
    BY <1>1, <2>1, <2>2, GotoType, ExitType DEF TypeOK, Outcome
<1> QED
  BY <1>5, <1>6, <1>7 DEF SetUnbound

LEMMA SetResolvedType ==
  ASSUME TypeOK, NEW s \in Session, SetResolved(s)
  PROVE  TypeOK'
<1>1. ResolvedSteps \subseteq Steps /\ worker[s].req \in AllRequests
  BY DEF Steps, TypeOK, Worker
<1>2. AfterResolver(worker[s].req) \in Steps
  BY <1>1, AfterType
<1>3. /\ Resolver \cup Sockets \subseteq Unit
      /\ {"mask", "unmask", "enable", "disable", "disable-now"} \subseteq Verb
      /\ "nm-dnsconfd" \in File
  BY DEF Unit, Verb, File
<1>4. ASSUME NEW here \in ResolvedSteps, NEW verb \in Verb, NEW u \in Unit,
             NEW next \in Steps, Systemctl(s, here, verb, u, next)
      PROVE  TypeOK'
  BY <1>1, <1>4, SystemctlType
<1>5. CASE \/ Systemctl(s, "disable-dnsconfd", "disable", Dnsconfd, "mask-dnsconfd")
           \/ Systemctl(s, "mask-dnsconfd", "mask", Dnsconfd, "disable-socket")
           \/ Systemctl(s, "disable-socket", "disable-now", "unbound.socket", "disable-control")
           \/ Systemctl(s, "disable-control", "disable-now", "unbound-control.socket", "unlink-nm-dnsconfd")
           \/ Systemctl(s, "unmask-resolved", "unmask", Resolved, "enable-resolved")
           \/ Systemctl(s, "enable-resolved", "enable", Resolved, AfterResolver(worker[s].req))
  BY <1>1, <1>2, <1>3, <1>4, <1>5 DEF ResolvedSteps, Resolver, Sockets
<1>6. CASE Unlink(s, "unlink-nm-dnsconfd", "nm-dnsconfd", "unlink-resolv.conf")
  BY <1>1, <1>3, <1>6, WriteType DEF ResolvedSteps
<1>7. CASE \/ UnlinkResolvConf(s, "unlink-resolv.conf", "symlink-resolv.conf")
           \/ SymlinkResolvConf(s, "unmask-resolved")
  <2>1. \/ \E next \in ResolvedSteps : Goto(s, next)
        \/ Exit(s, "failed")
    BY <1>7 DEF UnlinkResolvConf, SymlinkResolvConf, FileStep, ResolvedSteps
  <2>2. resolv' \in ResolvConf /\ UNCHANGED <<unit, file>>
    BY <1>7 DEF UnlinkResolvConf, SymlinkResolvConf, FileStep, TypeOK, ResolvConf
  <2> QED
    BY <1>1, <2>1, <2>2, GotoType, ExitType DEF TypeOK, Outcome
<1> QED
  BY <1>5, <1>6, <1>7 DEF SetResolved

LEMMA SettingsType ==
  ASSUME TypeOK, NEW s \in Session,
         SetGlobalServers(s) \/ SetDnssecEnabled(s) \/ SetDohEndpoint(s)
  PROVE  TypeOK'
<1> DEFINE q == worker[s].req
<1>1. SettingSteps \subseteq Steps /\ q \in AllRequests
  BY DEF Steps, TypeOK, Worker
<1>2. AfterDnssec(q) \in Steps /\ AfterDoh(q) \in {"closed"} \cup Steps
  BY <1>1, AfterType
<1>3. {"global", "dnssec", "doh"} \subseteq File
  BY DEF File
<1>4. CASE SetGlobalServers(s)
  BY <1>1, <1>3, <1>4, WriteType, ChmodType DEF SetGlobalServers, SettingSteps
<1>5. CASE SetDnssecEnabled(s)
  BY <1>1, <1>2, <1>3, <1>5, WriteType, ChmodType DEF SetDnssecEnabled, SettingSteps
<1>6. CASE SetDohEndpoint(s)
  <2>1. CASE Write(s, "set-doh", "doh", "chmod-doh") \/ Chmod(s, "chmod-doh", "doh", AfterDoh(q))
    BY <1>1, <1>2, <1>3, <2>1, WriteType, ChmodType DEF SettingSteps
  <2>2. CASE /\ file' = [file EXCEPT !["doh"] = "absent"]
             /\ Exit(s, "ok") \/ (AfterDoh(q) # "closed" /\ Goto(s, AfterDoh(q)))
             /\ UNCHANGED <<unit, resolv>>
    <3>1. file' \in [File -> FileState]
      BY <2>2 DEF TypeOK, FileState
    <3> QED
      BY <1>2, <2>2, <3>1, GotoType, ExitType DEF TypeOK, Outcome
  <2> QED
    BY <1>6, <2>1, <2>2 DEF SetDohEndpoint
<1> QED
  BY <1>4, <1>5, <1>6

LEMMA NetworkType ==
  ASSUME TypeOK, NEW s \in Session, StopNetwork(s) \/ CheckGlobal(s) \/ StartNetwork(s)
  PROVE  TypeOK'
<1> DEFINE q == worker[s].req
<1>1. /\ StopSteps \cup CheckSteps \cup StartSteps \cup {"set-global"} \subseteq Steps
      /\ q \in AllRequests /\ worker[s].target \in Unit /\ NM \in Unit
  BY DEF Steps, SettingSteps, TypeOK, Worker, Unit
<1>2. AfterStop(q) \in Steps
  BY <1>1, AfterType
<1>3. {"start", "stop"} \subseteq Verb
  BY DEF Verb
<1>4. CASE \/ Systemctl(s, "stop-nm", "stop", NM, "stop-asks-dnsconfd")
           \/ Systemctl(s, "stop-resolver", "stop", worker[s].target, AfterStop(q))
           \/ Systemctl(s, "start-resolver", "start", worker[s].target, "start-nm")
           \/ Systemctl(s, "start-nm", "start", NM, "closed")
  BY <1>1, <1>2, <1>3, <1>4, SystemctlType DEF StopSteps, StartSteps
<1>5. CASE \E here, next \in StopSteps \cup CheckSteps \cup StartSteps :
             AskDnsconfd(s, here, next) \/ AskResolved(s, here, next)
  <2>1. /\ [worker[s] EXCEPT !.seen = Enabled(Dnsconfd)] \in Worker
        /\ [worker[s] EXCEPT !.target = Current(s)] \in Worker
    <3>1. Enabled(Dnsconfd) \in BOOLEAN
      BY DEF Enabled, TypeOK, Unit, Resolver, Dnsconfd
    <3>2. Current(s) \in Resolver
      BY DEF Current, Resolver
    <3> QED
      BY <3>1, <3>2 DEF TypeOK, Worker
  <2> QED
    BY <1>1, <1>5, <2>1, ProceedType DEF AskDnsconfd, AskResolved, machine, TypeOK
<1>6. CASE (Goto(s, "set-global") \/ Exit(s, "refused")) /\ UNCHANGED machine
  BY <1>1, <1>6, GotoType, ExitType DEF machine, TypeOK, Outcome
<1> QED
  BY <1>4, <1>5, <1>6
     DEF StopNetwork, CheckGlobal, StartNetwork, StopSteps, CheckSteps, StartSteps

LEMMA MenuType ==
  ASSUME TypeOK, NEW s \in Session, Open(s) \/ Leave(s)
  PROVE  TypeOK'
<1>1. {"none"} \subseteq Outcome /\ Menu \subseteq Menu \cup Steps
  BY DEF Outcome
<1>2. CASE Open(s)
  BY <1>1, <1>2 DEF Open, TypeOK, machine, Menu
<1>3. CASE Leave(s)
  BY <1>1, <1>3 DEF Leave, TypeOK, machine, Menu
<1> QED
  BY <1>2, <1>3

LEMMA LaunchType ==
  ASSUME TypeOK, NEW s \in Session, NEW r \in Requests, Launch(s, r)
  PROVE  TypeOK'
<1>1. {"set-doh", "stop-nm"} \subseteq Steps
  BY DEF Steps, SettingSteps, StopSteps
<1>2. NewWorker(r) \in Worker
  BY RequestsAssumption, NewWorkerType
<1> QED
  BY <1>1, <1>2 DEF Launch, FirstStep, TypeOK, machine

LEMMA EnvironmentType ==
  ASSUME TypeOK, DnsconfdWrites \/ Reboot \/ (\E s \in Session : Kill(s))
  PROVE  TypeOK'
<1>1. CASE DnsconfdWrites
  BY <1>1 DEF DnsconfdWrites, TypeOK, ResolvConf
<1>2. CASE Reboot
  <2>1. /\ {"killed"} \subseteq Outcome /\ "closed" \in Menu
        /\ NewWorker(Reset) \in Worker
    BY ResetType, NewWorkerType DEF Outcome, Menu
  <2>2. unit' \in [Unit -> UnitState]
    <3>1. ASSUME NEW u \in Unit, NEW on \in BOOLEAN
          PROVE  [unit[u] EXCEPT !.active = on] \in UnitState
      BY DEF TypeOK, UnitState
    <3>2. \A u \in Unit : (u = NM \/ Enabled(u) \/ (u \in Sockets /\ Enabled(Dnsconfd))) \in BOOLEAN
      OBVIOUS
    <3> QED
      BY <1>2, <3>1, <3>2 DEF Reboot
  <2> QED
    BY <1>2, <2>1, <2>2 DEF Reboot, TypeOK, UnitState
<1>3. ASSUME NEW s \in Session, Kill(s)
      PROVE  TypeOK'
  BY <1>3, ExitType DEF Kill, TypeOK, machine, Outcome
<1> QED
  BY <1>1, <1>2, <1>3

LEMMA InitType == Init => TypeOK
<1> SUFFICES ASSUME Init PROVE TypeOK
  OBVIOUS
<1>1. unit \in [Unit -> UnitState]
  BY DEF Init, UnitState
<1>2. worker \in [Session -> Worker]
  BY ResetType, NewWorkerType DEF Init
<1> QED
  BY <1>1, <1>2 DEF Init, TypeOK, UnitState, FileState, ResolvConf, Menu, Outcome

LEMMA NextType == TypeOK /\ [Next]_vars => TypeOK'
<1> SUFFICES ASSUME TypeOK, [Next]_vars PROVE TypeOK'
  OBVIOUS
<1>1. ASSUME NEW s \in Session, Work(s)
      PROVE  TypeOK'
  BY <1>1, SetUnboundType, SetResolvedType, SettingsType, NetworkType DEF Work
<1>2. ASSUME NEW s \in Session, Open(s) \/ Leave(s)
      PROVE  TypeOK'
  BY <1>2, MenuType
<1>3. ASSUME NEW s \in Session, NEW r \in Requests, Launch(s, r)
      PROVE  TypeOK'
  BY <1>3, LaunchType
<1>4. CASE DnsconfdWrites \/ Reboot \/ (\E s \in Session : Kill(s))
  BY <1>4, EnvironmentType
<1>5. CASE UNCHANGED vars
  BY <1>5 DEF vars, TypeOK
<1> QED
  BY <1>1, <1>2, <1>3, <1>4, <1>5 DEF Next

\* Every variable of the DNS selector keeps to its type: no worker leaves the
\* script of inner/dns.py, whoever else runs and whatever fails.
THEOREM TypeCorrect == Spec => []TypeOK
BY InitType, NextType, PTL DEF Spec

-----------------------------------------------------------------------------
(* Workers that do not overlap *)

\* A session that is closed or at a menu has nothing to keep.
LEMMA IdleStepInv ==
  ASSUME NEW s \in Session, ~Running(s)
  PROVE  StepInv(s)
BY DEF Running, StepInv, Menu, UnboundSteps, ResolvedSteps

\* When only the running session moves, the invariant is a matter of that
\* session and of the machine.
LEMMA OneMoves ==
  ASSUME TypeOK, ScriptInv, NEW s \in Session, Running(s),
         \A t \in Session \ {s} : pc'[t] = pc[t],
         Serial => OneResolverEnabled' /\ ResolvedHasNoPolicy' /\ StepInv(s)'
  PROVE  ScriptInv'
<1> SUFFICES ASSUME Serial
             PROVE  /\ \A t, u \in Session : Running(t)' /\ Running(u)' => t = u
                    /\ \A t \in Session : StepInv(t)'
  BY DEF ScriptInv
<1>1. \A t \in Session \ {s} : ~Running(t)'
  BY DEF ScriptInv, Running
<1>2. ASSUME NEW t \in Session, ~Running(t)'
      PROVE  StepInv(t)'
  BY <1>2 DEF Running, StepInv, Menu, UnboundSteps, ResolvedSteps
<1> QED
  BY <1>1, <1>2

\* Every step of a worker is taken while it runs and moves its session only.
LEMMA WorkMovesOne ==
  ASSUME TypeOK, NEW s \in Session, Work(s)
  PROVE  Running(s) /\ \A t \in Session \ {s} : pc'[t] = pc[t]
<1> USE DEF Running, Menu, Systemctl, Write, Unlink, Chmod, FileStep, AskDnsconfd,
            AskResolved, Exit, Proceed, Goto, TypeOK
<1>1. CASE SetUnbound(s)
  BY <1>1 DEF SetUnbound, UnlinkResolvConf, TouchResolvConf, ChownResolvConf
<1>2. CASE SetResolved(s)
  BY <1>2 DEF SetResolved, UnlinkResolvConf, SymlinkResolvConf
<1>3. CASE SetGlobalServers(s) \/ SetDnssecEnabled(s) \/ SetDohEndpoint(s)
  BY <1>3 DEF SetGlobalServers, SetDnssecEnabled, SetDohEndpoint
<1>4. CASE StopNetwork(s) \/ CheckGlobal(s) \/ StartNetwork(s)
  BY <1>4 DEF StopNetwork, CheckGlobal, StartNetwork
<1> QED
  BY <1>1, <1>2, <1>3, <1>4 DEF Work

\* What a systemctl call can do to a unit's enablement, whether it succeeds,
\* fails or stops half way; and what it has done when the worker moves on.
LEMMA VerbEffect ==
  ASSUME NEW r \in UnitState, NEW verb \in Verb,
         NEW r2 \in {Apply(verb, r)} \cup HalfDone(verb, r)
  PROVE  /\ verb \notin {"mask", "unmask"} => r2.masked = r.masked
         /\ verb = "mask" => (r.masked => r2.masked)
         /\ verb \notin {"enable", "enable-now", "disable", "disable-now"}
              => r2.wanted = r.wanted
         /\ verb \in {"disable", "disable-now"} => (r2.wanted => r.wanted)
         /\ verb = "mask" /\ r2 = Apply(verb, r) => r2.masked
         /\ verb = "disable" /\ r2 = Apply(verb, r) => ~r2.wanted
BY DEF UnitState, Verb, Apply, HalfDone

LEMMA SystemctlEffect ==
  ASSUME TypeOK, NEW s \in Session, NEW here \in Steps, NEW verb \in Verb,
         NEW u \in Unit, NEW next \in {"closed"} \cup Steps,
         Systemctl(s, here, verb, u, next)
  PROVE  /\ UNCHANGED file /\ pc[s] = here
         /\ \A v \in Unit \ {u} : unit'[v] = unit[v]
         /\ unit[u] \in UnitState
         /\ unit'[u] \in {Apply(verb, unit[u])} \cup HalfDone(verb, unit[u])
         /\ \/ pc'[s] = "closed"
            \/ /\ pc'[s] \in {here, next}
               /\ worker'[s].req = worker[s].req /\ worker'[s].seen = worker[s].seen
         /\ pc'[s] \notin {"closed", here} => unit'[u] = Apply(verb, unit[u])
BY DEF Systemctl, Exit, Proceed, TypeOK, Worker, UnitState

\* What a systemctl verb leaves in each field of a unit's record, and what a
\* call that failed may have changed.
LEMMA ApplyFields ==
  ASSUME NEW r \in UnitState, NEW verb \in Verb
  PROVE  LET r2 == Apply(verb, r) IN
         /\ verb = "mask" => r2.masked
         /\ verb = "unmask" => ~r2.masked
         /\ verb \notin {"mask", "unmask"} => r2.masked = r.masked
         /\ verb \in {"enable", "enable-now"} => r2.wanted
         /\ verb \in {"disable", "disable-now"} => ~r2.wanted
         /\ verb \notin {"enable", "enable-now", "disable", "disable-now"}
              => r2.wanted = r.wanted
         /\ verb \in {"start", "enable-now"} => r2.active
         /\ verb \in {"stop", "disable-now"} => ~r2.active
         /\ verb \notin {"start", "enable-now", "stop", "disable-now"}
              => r2.active = r.active
BY DEF UnitState, Verb, Apply

LEMMA HalfDoneFields ==
  ASSUME NEW r \in UnitState, NEW verb \in Verb, NEW r2 \in HalfDone(verb, r)
  PROVE  /\ r2.masked = r.masked /\ r2.active = r.active
         /\ verb \notin {"enable-now", "disable-now"} => r2 = r
         /\ verb = "enable-now" => (r.wanted => r2.wanted)
         /\ verb = "disable-now" => (r2.wanted => r.wanted)
BY DEF UnitState, Verb, Apply, HalfDone

\* The three ways a systemctl call ends: done, tried again, given up.
LEMMA CallOutcome ==
  ASSUME TypeOK, NEW s \in Session, NEW here \in Steps, NEW verb \in Verb,
         NEW u \in Unit, NEW next \in {"closed"} \cup Steps,
         Systemctl(s, here, verb, u, next)
  PROVE  /\ UNCHANGED <<file, resolv>> /\ pc[s] = here
         /\ unit[u] \in UnitState
         /\ \A v \in Unit \ {u} : unit'[v] = unit[v]
         /\ \/ /\ pc'[s] = next
               /\ unit'[u] = Apply(verb, unit[u]) /\ Possible(verb, unit[u])
               /\ IF next = "closed"
                  THEN outcome' = [outcome EXCEPT ![s] = "ok"] /\ alone' = alone \ {s}
                  ELSE /\ worker'[s].req = worker[s].req /\ worker'[s].seen = worker[s].seen
                       /\ worker'[s].target = worker[s].target
                       /\ UNCHANGED <<outcome, alone>>
            \/ /\ pc'[s] = here /\ unit'[u] \in HalfDone(verb, unit[u])
               /\ "systemctl" \in Faults \/ ~Possible(verb, unit[u])
               /\ worker'[s].req = worker[s].req /\ worker'[s].seen = worker[s].seen
               /\ worker'[s].target = worker[s].target
               /\ UNCHANGED <<outcome, alone>>
            \/ /\ pc'[s] = "closed" /\ unit'[u] \in HalfDone(verb, unit[u])
               /\ "systemctl" \in Faults \/ ~Possible(verb, unit[u])
               /\ outcome' = [outcome EXCEPT ![s] = "failed"] /\ alone' = alone \ {s}
<1>1. /\ unit[u] \in UnitState /\ worker[s] \in Worker
      /\ unit \in [Unit -> UnitState]
      /\ pc \in [Session -> Menu \cup Steps] /\ worker \in [Session -> Worker]
  BY DEF TypeOK, UnitState
<1>2. ASSUME NEW b \in BOOLEAN
      PROVE  LET m == [worker[s] EXCEPT !.retried = b] IN
             /\ m.req = worker[s].req /\ m.seen = worker[s].seen
             /\ m.target = worker[s].target
  BY <1>1 DEF Worker
<1>3. CASE /\ Possible(verb, unit[u])
           /\ unit' = [unit EXCEPT ![u] = Apply(verb, @)]
           /\ IF next = "closed" THEN Exit(s, "ok")
              ELSE Proceed(s, next, [worker[s] EXCEPT !.retried = FALSE])
           /\ pc[s] = here /\ UNCHANGED <<file, resolv>>
  BY <1>1, <1>2, <1>3 DEF Exit, Proceed
<1>4. CASE /\ "systemctl" \in Faults \/ ~Possible(verb, unit[u])
           /\ \E r \in HalfDone(verb, unit[u]) : unit' = [unit EXCEPT ![u] = r]
           /\ IF worker[s].retried THEN Exit(s, "failed")
              ELSE Proceed(s, here, [worker[s] EXCEPT !.retried = TRUE])
           /\ pc[s] = here /\ UNCHANGED <<file, resolv>>
  BY <1>1, <1>2, <1>4 DEF Exit, Proceed
<1> QED
  BY <1>3, <1>4 DEF Systemctl

\* Two forms of SystemctlEffect, for the units the invariant speaks of and for
\* the others.
LEMMA ResolverCall ==
  ASSUME TypeOK, NEW s \in Session, NEW here \in Steps, NEW verb \in Verb,
         NEW u \in Resolver, NEW next \in {"closed"} \cup Steps,
         Systemctl(s, here, verb, u, next)
  PROVE  /\ UNCHANGED file /\ pc[s] = here
         /\ \A v \in Resolver \ {u} : unit'[v] = unit[v]
         /\ \/ pc'[s] = "closed"
            \/ /\ pc'[s] \in {here, next}
               /\ worker'[s].req = worker[s].req /\ worker'[s].seen = worker[s].seen
         /\ verb \notin {"mask", "unmask"} => unit'[u].masked = unit[u].masked
         /\ verb = "mask" => (unit[u].masked => unit'[u].masked)
         /\ verb \notin {"enable", "enable-now", "disable", "disable-now"}
              => unit'[u].wanted = unit[u].wanted
         /\ verb \in {"disable", "disable-now"} => (unit'[u].wanted => unit[u].wanted)
         /\ verb = "mask" /\ pc'[s] \notin {"closed", here} => unit'[u].masked
         /\ verb = "disable" /\ pc'[s] \notin {"closed", here} => ~unit'[u].wanted
<1>1. u \in Unit /\ Resolver \subseteq Unit
  BY DEF Unit
<1>2. /\ UNCHANGED file /\ pc[s] = here
      /\ \A v \in Unit \ {u} : unit'[v] = unit[v]
      /\ unit[u] \in UnitState
      /\ unit'[u] \in {Apply(verb, unit[u])} \cup HalfDone(verb, unit[u])
      /\ \/ pc'[s] = "closed"
         \/ /\ pc'[s] \in {here, next}
            /\ worker'[s].req = worker[s].req /\ worker'[s].seen = worker[s].seen
      /\ pc'[s] \notin {"closed", here} => unit'[u] = Apply(verb, unit[u])
  BY <1>1, SystemctlEffect
<1>3. /\ verb \notin {"mask", "unmask"} => unit'[u].masked = unit[u].masked
      /\ verb = "mask" => (unit[u].masked => unit'[u].masked)
      /\ verb \notin {"enable", "enable-now", "disable", "disable-now"}
           => unit'[u].wanted = unit[u].wanted
      /\ verb \in {"disable", "disable-now"} => (unit'[u].wanted => unit[u].wanted)
      /\ verb = "mask" /\ unit'[u] = Apply(verb, unit[u]) => unit'[u].masked
      /\ verb = "disable" /\ unit'[u] = Apply(verb, unit[u]) => ~unit'[u].wanted
  BY <1>2, VerbEffect
<1>4. \A v \in Resolver \ {u} : unit'[v] = unit[v]
  BY <1>1, <1>2
<1> QED
  BY <1>2, <1>3, <1>4

LEMMA OtherCall ==
  ASSUME TypeOK, NEW s \in Session, NEW here \in Steps, NEW verb \in Verb,
         NEW u \in Unit \ Resolver, NEW next \in {"closed"} \cup Steps,
         Systemctl(s, here, verb, u, next)
  PROVE  /\ UNCHANGED file /\ pc[s] = here
         /\ \A v \in Resolver : unit'[v] = unit[v]
         /\ \/ pc'[s] = "closed"
            \/ /\ pc'[s] \in {here, next}
               /\ worker'[s].req = worker[s].req /\ worker'[s].seen = worker[s].seen
<1>1. u \in Unit /\ \A v \in Resolver : v \in Unit \ {u}
  BY DEF Unit
<1> QED
  BY <1>1, SystemctlEffect

LEMMA SetUnboundInv ==
  ASSUME TypeOK, ScriptInv, Serial, NEW s \in Session, SetUnbound(s)
  PROVE  OneResolverEnabled' /\ ResolvedHasNoPolicy' /\ StepInv(s)'
<1> DEFINE After == AfterResolver(worker[s].req)
<1> USE DEF OneResolverEnabled, ResolvedHasNoPolicy, StepInv, Enabled, UnboundSteps,
            ResolvedSteps
<1>0. StepInv(s) /\ OneResolverEnabled /\ ResolvedHasNoPolicy
  BY DEF ScriptInv
<1>1. /\ UnboundSteps \subseteq Steps /\ After \in Steps
      /\ {"mask", "unmask", "enable", "disable", "enable-now"} \subseteq Verb
      /\ Resolved \in Resolver /\ Dnsconfd \in Resolver /\ Resolved # Dnsconfd
      /\ Sockets \subseteq Unit \ Resolver
  <2>1. worker[s].req \in AllRequests
    BY DEF TypeOK, Worker
  <2> QED
    BY <2>1, AfterType DEF Steps, Verb, Resolver, Resolved, Dnsconfd, Unit, Sockets
<1>2. ASSUME Systemctl(s, "mask-resolved", "mask", Resolved, "disable-resolved")
      PROVE  OneResolverEnabled' /\ ResolvedHasNoPolicy' /\ StepInv(s)'
  BY <1>0, <1>1, <1>2, ResolverCall
<1>3. ASSUME Systemctl(s, "disable-resolved", "disable", Resolved, "write-nm-dnsconfd")
      PROVE  OneResolverEnabled' /\ ResolvedHasNoPolicy' /\ StepInv(s)'
  BY <1>0, <1>1, <1>3, ResolverCall
<1>4. ASSUME \/ Write(s, "write-nm-dnsconfd", "nm-dnsconfd", "chmod-nm-dnsconfd")
             \/ Chmod(s, "chmod-nm-dnsconfd", "nm-dnsconfd", "unlink-old-resolv.conf")
      PROVE  OneResolverEnabled' /\ ResolvedHasNoPolicy' /\ StepInv(s)'
  BY <1>0, <1>4 DEF Write, Chmod, FileStep, File, Exit, Proceed, Goto, TypeOK
<1>5. ASSUME \/ UnlinkResolvConf(s, "unlink-old-resolv.conf", "touch-resolv.conf")
             \/ TouchResolvConf(s, "chown-resolv.conf")
             \/ ChownResolvConf(s, "enable-socket")
      PROVE  OneResolverEnabled' /\ ResolvedHasNoPolicy' /\ StepInv(s)'
  BY <1>0, <1>5
     DEF UnlinkResolvConf, TouchResolvConf, ChownResolvConf, FileStep, Exit, Proceed, Goto, TypeOK
<1>6. ASSUME \/ Systemctl(s, "enable-socket", "enable-now", "unbound.socket", "enable-control")
             \/ Systemctl(s, "enable-control", "enable-now", "unbound-control.socket", "unmask-dnsconfd")
      PROVE  OneResolverEnabled' /\ ResolvedHasNoPolicy' /\ StepInv(s)'
  <2>1. {"unbound.socket", "unbound-control.socket"} \subseteq Unit \ Resolver
    BY <1>1 DEF Sockets
  <2> QED
    BY <1>0, <1>1, <1>6, <2>1, OtherCall
<1>7. ASSUME Systemctl(s, "unmask-dnsconfd", "unmask", Dnsconfd, "enable-dnsconfd")
      PROVE  OneResolverEnabled' /\ ResolvedHasNoPolicy' /\ StepInv(s)'
  BY <1>0, <1>1, <1>7, ResolverCall
<1>8. ASSUME Systemctl(s, "enable-dnsconfd", "enable", Dnsconfd, After)
      PROVE  OneResolverEnabled' /\ ResolvedHasNoPolicy' /\ StepInv(s)'
  <2>1. After \in {"set-global", "set-dnssec", "start-asks-dnsconfd"}
        /\ (After = "set-dnssec" => worker[s].req.cmd = "set-dnssec")
    BY DEF AfterResolver
  <2> QED
    BY <1>0, <1>1, <1>8, <2>1, ResolverCall
<1> QED
  BY <1>2, <1>3, <1>4, <1>5, <1>6, <1>7, <1>8 DEF SetUnbound

LEMMA SetResolvedInv ==
  ASSUME TypeOK, ScriptInv, Serial, NEW s \in Session, SetResolved(s)
  PROVE  OneResolverEnabled' /\ ResolvedHasNoPolicy' /\ StepInv(s)'
<1> DEFINE After == AfterResolver(worker[s].req)
<1> USE DEF OneResolverEnabled, ResolvedHasNoPolicy, StepInv, Enabled, UnboundSteps,
            ResolvedSteps
<1>0. StepInv(s) /\ OneResolverEnabled /\ ResolvedHasNoPolicy
  BY DEF ScriptInv
<1>1. /\ ResolvedSteps \subseteq Steps /\ After \in Steps
      /\ {"mask", "unmask", "enable", "disable", "disable-now"} \subseteq Verb
      /\ Resolved \in Resolver /\ Dnsconfd \in Resolver /\ Resolved # Dnsconfd
      /\ Sockets \subseteq Unit \ Resolver
  <2>1. worker[s].req \in AllRequests
    BY DEF TypeOK, Worker
  <2> QED
    BY <2>1, AfterType DEF Steps, Verb, Resolver, Resolved, Dnsconfd, Unit, Sockets
<1>2. ASSUME Systemctl(s, "disable-dnsconfd", "disable", Dnsconfd, "mask-dnsconfd")
      PROVE  OneResolverEnabled' /\ ResolvedHasNoPolicy' /\ StepInv(s)'
  BY <1>0, <1>1, <1>2, ResolverCall
<1>3. ASSUME Systemctl(s, "mask-dnsconfd", "mask", Dnsconfd, "disable-socket")
      PROVE  OneResolverEnabled' /\ ResolvedHasNoPolicy' /\ StepInv(s)'
  BY <1>0, <1>1, <1>3, ResolverCall
<1>4. ASSUME \/ Systemctl(s, "disable-socket", "disable-now", "unbound.socket", "disable-control")
             \/ Systemctl(s, "disable-control", "disable-now", "unbound-control.socket", "unlink-nm-dnsconfd")
      PROVE  OneResolverEnabled' /\ ResolvedHasNoPolicy' /\ StepInv(s)'
  <2>1. {"unbound.socket", "unbound-control.socket"} \subseteq Unit \ Resolver
    BY <1>1 DEF Sockets
  <2> QED
    BY <1>0, <1>1, <1>4, <2>1, OtherCall
<1>5. ASSUME Unlink(s, "unlink-nm-dnsconfd", "nm-dnsconfd", "unlink-resolv.conf")
      PROVE  OneResolverEnabled' /\ ResolvedHasNoPolicy' /\ StepInv(s)'
  BY <1>0, <1>5 DEF Unlink, FileStep, File, Proceed, Goto, TypeOK
<1>6. ASSUME \/ UnlinkResolvConf(s, "unlink-resolv.conf", "symlink-resolv.conf")
             \/ SymlinkResolvConf(s, "unmask-resolved")
      PROVE  OneResolverEnabled' /\ ResolvedHasNoPolicy' /\ StepInv(s)'
  BY <1>0, <1>6 DEF UnlinkResolvConf, SymlinkResolvConf, FileStep, Exit, Proceed, Goto, TypeOK
<1>7. ASSUME Systemctl(s, "unmask-resolved", "unmask", Resolved, "enable-resolved")
      PROVE  OneResolverEnabled' /\ ResolvedHasNoPolicy' /\ StepInv(s)'
  BY <1>0, <1>1, <1>7, ResolverCall
<1>8. ASSUME Systemctl(s, "enable-resolved", "enable", Resolved, After)
      PROVE  OneResolverEnabled' /\ ResolvedHasNoPolicy' /\ StepInv(s)'
  <2>1. pc[s] = "enable-resolved"
    BY <1>1, <1>8, ResolverCall
  <2>2. After = "start-asks-dnsconfd"
    BY <1>0, <2>1 DEF AfterResolver
  <2> QED
    BY <1>0, <1>1, <1>8, <2>1, <2>2, ResolverCall
<1> QED
  BY <1>2, <1>3, <1>4, <1>5, <1>6, <1>7, <1>8 DEF SetResolved

\* DNSSEC is asked for by set-dnssec and set-global only.
LEMMA DnssecRequest ==
  ASSUME NEW r \in AllRequests, r.dnssec
  PROVE  r.cmd \in {"set-dnssec", "set-global"}
<1>1. CASE r = Reset
  BY <1>1 DEF Reset
<1>2. CASE r \in SetDnssec \cup SetGlobal
  BY <1>2 DEF SetDnssec, SetGlobal
<1>3. CASE r \in SetResolver \cup SetDoh
  BY <1>3 DEF SetResolver, SetDoh
<1> QED
  BY <1>1, <1>2, <1>3 DEF AllRequests

LEMMA SettingsInv ==
  ASSUME TypeOK, ScriptInv, Serial, NEW s \in Session,
         SetGlobalServers(s) \/ SetDnssecEnabled(s) \/ SetDohEndpoint(s)
  PROVE  OneResolverEnabled' /\ ResolvedHasNoPolicy' /\ StepInv(s)'
<1> DEFINE q == worker[s].req
<1> USE DEF OneResolverEnabled, ResolvedHasNoPolicy, StepInv, Enabled, UnboundSteps,
            ResolvedSteps, Exit, Proceed, Goto, TypeOK, File
<1>0. StepInv(s) /\ OneResolverEnabled /\ ResolvedHasNoPolicy
  BY DEF ScriptInv
<1>1. q \in AllRequests /\ (q.dnssec => q.cmd \in {"set-dnssec", "set-global"})
  BY DnssecRequest DEF Worker
<1>2. CASE SetGlobalServers(s)
  BY <1>0, <1>2 DEF SetGlobalServers, Write, Unlink, Chmod, FileStep
<1>3. CASE Write(s, "set-dnssec", "dnssec", "chmod-dnssec") /\ q.dnssec
  BY <1>0, <1>1, <1>3 DEF Write, FileStep
<1>4. CASE Unlink(s, "set-dnssec", "dnssec", AfterDnssec(q)) /\ ~q.dnssec
  BY <1>0, <1>1, <1>4 DEF Unlink, FileStep, AfterDnssec, FirstResolverStep
<1>5. CASE Chmod(s, "chmod-dnssec", "dnssec", AfterDnssec(q))
  BY <1>0, <1>1, <1>5 DEF Chmod, AfterDnssec, FirstResolverStep
<1>6. CASE SetDohEndpoint(s)
  BY <1>0, <1>6 DEF SetDohEndpoint, Write, Chmod, FileStep, AfterDoh
<1> QED
  BY <1>2, <1>3, <1>4, <1>5, <1>6 DEF SetDnssecEnabled

LEMMA NetworkInv ==
  ASSUME TypeOK, ScriptInv, Serial, NEW s \in Session,
         StopNetwork(s) \/ CheckGlobal(s) \/ StartNetwork(s)
  PROVE  OneResolverEnabled' /\ ResolvedHasNoPolicy' /\ StepInv(s)'
<1> DEFINE q == worker[s].req
           After == AfterStop(q)
<1> USE DEF OneResolverEnabled, ResolvedHasNoPolicy, StepInv, Enabled, UnboundSteps,
            ResolvedSteps
<1>0. StepInv(s) /\ OneResolverEnabled /\ ResolvedHasNoPolicy
  BY DEF ScriptInv
<1>1. /\ StopSteps \cup StartSteps \subseteq Steps /\ After \in Steps
      /\ {"start", "stop"} \subseteq Verb
      /\ worker[s] \in Worker /\ worker[s].target \in Resolver
      /\ Resolved \in Resolver /\ Dnsconfd \in Resolver /\ Resolved # Dnsconfd
      /\ NM \in Unit \ Resolver
  <2>1. worker[s].req \in AllRequests
    BY DEF TypeOK, Worker
  <2> QED
    BY <2>1, AfterType DEF Steps, Verb, Resolver, Resolved, Dnsconfd, Unit, NM, TypeOK, Worker
<1>2. ASSUME \/ Systemctl(s, "stop-nm", "stop", NM, "stop-asks-dnsconfd")
             \/ Systemctl(s, "start-nm", "start", NM, "closed")
      PROVE  OneResolverEnabled' /\ ResolvedHasNoPolicy' /\ StepInv(s)'
  <2>1. {"stop-nm", "start-nm", "stop-asks-dnsconfd"} \subseteq Steps
    BY <1>1 DEF StopSteps, StartSteps
  <2> QED
    BY <1>0, <1>1, <1>2, <2>1, OtherCall
<1>3. ASSUME Systemctl(s, "stop-resolver", "stop", worker[s].target, After)
      PROVE  OneResolverEnabled' /\ ResolvedHasNoPolicy' /\ StepInv(s)'
  <2>1. /\ After \in {"mask-resolved", "global-asks-dnsconfd", "set-global"}
        /\ After = "set-global" => q.cmd \notin {"set-dnssec", "set-global"}
        /\ "stop-resolver" \in Steps
    BY <1>1 DEF AfterStop, StopSteps
  <2> QED
    BY <1>0, <1>1, <1>3, <2>1, ResolverCall
<1>4. ASSUME Systemctl(s, "start-resolver", "start", worker[s].target, "start-nm")
      PROVE  OneResolverEnabled' /\ ResolvedHasNoPolicy' /\ StepInv(s)'
  <2>1. {"start-resolver", "start-nm"} \subseteq Steps
    BY <1>1 DEF StartSteps
  <2> QED
    BY <1>0, <1>1, <1>4, <2>1, ResolverCall
<1>5. ASSUME \/ AskDnsconfd(s, "stop-asks-dnsconfd", "stop-asks-resolved")
             \/ AskResolved(s, "stop-asks-resolved", "stop-resolver")
             \/ AskDnsconfd(s, "start-asks-dnsconfd", "start-asks-resolved")
             \/ AskResolved(s, "start-asks-resolved", "start-resolver")
      PROVE  OneResolverEnabled' /\ ResolvedHasNoPolicy' /\ StepInv(s)'
  BY <1>0, <1>5 DEF AskDnsconfd, AskResolved, Proceed, machine, TypeOK
<1>6. ASSUME CheckGlobal(s)
      PROVE  OneResolverEnabled' /\ ResolvedHasNoPolicy' /\ StepInv(s)'
  <2>1. CASE AskDnsconfd(s, "global-asks-dnsconfd", "global-asks-resolved")
    <3>1. Enabled(Dnsconfd) \in BOOLEAN
      BY DEF TypeOK, Unit, Resolver, Dnsconfd
    <3>2. ASSUME NEW b \in BOOLEAN, b = Enabled(Dnsconfd)
          PROVE  OneResolverEnabled' /\ ResolvedHasNoPolicy' /\ StepInv(s)'
      <4>1. /\ pc'[s] = "global-asks-resolved" /\ UNCHANGED <<unit, file>>
            /\ worker'[s].seen = b
        BY <1>1, <2>1, <3>2 DEF AskDnsconfd, Proceed, machine, TypeOK, Worker
      <4> QED
        BY <1>0, <3>2, <4>1
    <3> QED
      BY <3>1, <3>2
  <2>2. CASE /\ pc[s] = "global-asks-resolved" /\ UNCHANGED machine
             /\ \/ Current(s) = Dnsconfd /\ Goto(s, "set-global")
                \/ Exit(s, "refused")
    <3>1. Current(s) = Dnsconfd => ~Enabled(Resolved)
      BY <1>0, <1>1, <2>2 DEF Current
    <3> QED
      BY <1>0, <2>2, <3>1 DEF Exit, Goto, Proceed, machine, TypeOK
  <2> QED
    BY <1>6, <2>1, <2>2 DEF CheckGlobal
<1> QED
  BY <1>2, <1>3, <1>4, <1>5, <1>6 DEF StopNetwork, StartNetwork

LEMMA WorkInv ==
  ASSUME TypeOK, ScriptInv, NEW s \in Session, Work(s)
  PROVE  ScriptInv'
<1>1. Serial => OneResolverEnabled' /\ ResolvedHasNoPolicy' /\ StepInv(s)'
  BY SetUnboundInv, SetResolvedInv, SettingsInv, NetworkInv DEF Work
<1> QED
  BY <1>1, WorkMovesOne, OneMoves

\* A worker starts where nothing is claimed of it, and only when no other runs.
LEMMA LaunchInv ==
  ASSUME TypeOK, ScriptInv, NEW s \in Session, NEW r \in Requests, Launch(s, r)
  PROVE  ScriptInv'
<1> SUFFICES ASSUME Serial PROVE ScriptInv'
  BY DEF ScriptInv
<1>1. /\ \A t \in Session : ~Running(t)
      /\ UNCHANGED <<unit, file>>
      /\ pc'[s] \in {"set-doh", "stop-nm"}
      /\ \A t \in Session \ {s} : pc'[t] = pc[t]
  BY DEF Launch, FirstStep, machine, TypeOK
<1>2. \A t \in Session \ {s} : ~Running(t)'
  BY <1>1 DEF Running
<1>3. ASSUME NEW t \in Session, ~Running(t)' \/ pc'[t] \in {"set-doh", "stop-nm"}
      PROVE  StepInv(t)'
  BY <1>3 DEF Running, StepInv, Menu, UnboundSteps, ResolvedSteps
<1>4. OneResolverEnabled' /\ ResolvedHasNoPolicy'
  BY <1>1 DEF ScriptInv, OneResolverEnabled, ResolvedHasNoPolicy, Enabled
<1> QED
  BY <1>1, <1>2, <1>3, <1>4 DEF ScriptInv

\* Menus, kills, reboots and dnsconfd change no enablement and no file.
LEMMA OtherInv ==
  ASSUME TypeOK, ScriptInv,
         \/ \E s \in Session : Open(s) \/ Leave(s) \/ Kill(s)
         \/ DnsconfdWrites \/ Reboot \/ UNCHANGED vars
  PROVE  ScriptInv'
<1> SUFFICES ASSUME Serial PROVE ScriptInv'
  BY DEF ScriptInv
<1>1. /\ file' = file
      /\ \A u \in Resolver : Enabled(u)' = Enabled(u) /\ unit'[u].masked = unit[u].masked
                             /\ unit'[u].wanted = unit[u].wanted
  <2>1. CASE Reboot
    <3>1. ASSUME NEW u \in Resolver, NEW b \in BOOLEAN
          PROVE  /\ [unit[u] EXCEPT !.active = b].masked = unit[u].masked
                 /\ [unit[u] EXCEPT !.active = b].wanted = unit[u].wanted
      BY DEF TypeOK, Unit
    <3>2. Resolver \subseteq Unit
      BY DEF Unit
    <3> QED
      BY <2>1, <3>1, <3>2 DEF Reboot, Enabled
  <2>2. CASE UNCHANGED <<unit, file>>
    BY <2>2 DEF Enabled
  <2> QED
    BY <2>1, <2>2 DEF Open, Leave, Kill, DnsconfdWrites, machine, vars
<1>2. Dnsconfd \in Resolver /\ Resolved \in Resolver
  BY DEF Resolver
<1>3. \A t \in Session : ~Running(t)' \/ (pc'[t] = pc[t] /\ worker'[t] = worker[t])
  BY DEF Open, Leave, Kill, Exit, DnsconfdWrites, Reboot, vars, machine, Running, Menu, TypeOK
<1>4. ASSUME NEW t \in Session
      PROVE  StepInv(t)' /\ (Running(t)' => Running(t))
  <2>1. CASE ~Running(t)'
    BY <2>1 DEF Running, StepInv, Menu, UnboundSteps, ResolvedSteps
  <2>2. CASE pc'[t] = pc[t] /\ worker'[t] = worker[t]
    <3>1. StepInv(t)
      BY DEF ScriptInv
    <3> QED
      BY <1>1, <1>2, <2>2, <3>1 DEF StepInv, Running
  <2> QED
    BY <1>3, <2>1, <2>2
<1>5. OneResolverEnabled' /\ ResolvedHasNoPolicy'
  BY <1>1, <1>2 DEF ScriptInv, OneResolverEnabled, ResolvedHasNoPolicy
<1> QED
  BY <1>4, <1>5 DEF ScriptInv

LEMMA InitInv == Init => ScriptInv
<1> SUFFICES ASSUME Init PROVE ScriptInv
  OBVIOUS
<1>1. \A s \in Session : ~Running(s)
  BY DEF Init, Running, Menu
<1>2. ~Enabled(Resolved)
  BY DEF Init, Enabled, Unit, Resolver, Resolved, Dnsconfd, NM
<1> QED
  BY <1>1, <1>2, IdleStepInv DEF ScriptInv, OneResolverEnabled, ResolvedHasNoPolicy

\* The inductive invariant: with workers launched one at a time, each step of a
\* worker still finds what its earlier steps did to the resolver it replaces.
THEOREM ScriptCorrect == Spec => []ScriptInv
<1>1. TypeOK /\ ScriptInv /\ [Next]_vars => ScriptInv'
  BY WorkInv, LaunchInv, OtherInv DEF Next
<1> QED
  BY <1>1, InitInv, TypeCorrect, PTL DEF Spec

\* With workers launched one at a time the two resolvers are never both
\* enabled, whichever systemctl calls fail, workers are killed or reboots fall
\* between two steps of set_resolver.
THEOREM NeverTwoResolvers == Serial /\ Spec => []OneResolverEnabled
<1>1. Serial /\ ScriptInv => OneResolverEnabled
  BY DEF ScriptInv
<1>2. CASE Serial
  BY <1>1, <1>2, ScriptCorrect, PTL
<1>3. CASE ~Serial
  BY <1>3
<1> QED
  BY <1>2, <1>3

\* Under the same conditions systemd-resolved is never enabled while global
\* servers or DNSSEC validation are configured: set-resolver clears both before
\* it touches the resolvers, set-global and set-dnssec write them only while
\* systemd-resolved is out of service.
THEOREM ResolvedWithoutPolicy == Serial /\ Spec => []ResolvedHasNoPolicy
<1>1. Serial /\ ScriptInv => ResolvedHasNoPolicy
  BY DEF ScriptInv
<1>2. CASE Serial
  BY <1>1, <1>2, ScriptCorrect, PTL
<1>3. CASE ~Serial
  BY <1>3
<1> QED
  BY <1>2, <1>3

-----------------------------------------------------------------------------
(* Refinement *)

\* No step disturbs both resolvers, or a resolver and the policy.
LEMMA OneThingAtATime ==
  ASSUME TypeOK, [Next]_vars
  PROVE  \/ \E u \in Resolver : /\ \A v \in Resolver \ {u} : Enabled(v)' = Enabled(v)
                                /\ Policy' = Policy
         \/ \A v \in Resolver : Enabled(v)' = Enabled(v)
<1> DEFINE Goal ==
      \/ \E u \in Resolver : /\ \A v \in Resolver \ {u} : Enabled(v)' = Enabled(v)
                             /\ Policy' = Policy
      \/ \A v \in Resolver : Enabled(v)' = Enabled(v)
<1>1. ASSUME NEW s \in Session, NEW here, NEW verb, NEW u, NEW next,
             Systemctl(s, here, verb, u, next)
      PROVE  Goal
  <2>1. file' = file /\ \A v \in Unit \ {u} : unit'[v] = unit[v]
    BY <1>1 DEF Systemctl, TypeOK
  <2>2. Resolver \subseteq Unit
    BY DEF Unit
  <2> QED
    BY <2>1, <2>2 DEF Enabled, Policy
<1>2. CASE unit' = unit
  BY <1>2 DEF Enabled
<1>3. CASE Reboot
  <2>1. ASSUME NEW v \in Resolver
        PROVE  Enabled(v)' = Enabled(v)
    <3>1. ASSUME NEW b \in BOOLEAN
          PROVE  /\ [unit[v] EXCEPT !.active = b].masked = unit[v].masked
                 /\ [unit[v] EXCEPT !.active = b].wanted = unit[v].wanted
      BY DEF TypeOK, Unit
    <3>2. v \in Unit
      BY DEF Unit
    <3> QED
      BY <1>3, <3>1, <3>2 DEF Reboot, Enabled
  <2> QED
    BY <2>1
<1>4. ASSUME NEW s \in Session, Work(s)
      PROVE  Goal
  <2>1. CASE unit' = unit
    BY <1>2, <2>1
  <2>2. CASE \E here, verb, u, next : Systemctl(s, here, verb, u, next)
    BY <1>1, <2>2
  <2>3. CASE SetUnbound(s)
    BY <1>1, <1>2, <2>3
       DEF SetUnbound, Write, Chmod, FileStep, UnlinkResolvConf, TouchResolvConf, ChownResolvConf
  <2>4. CASE SetResolved(s)
    BY <1>1, <1>2, <2>4
       DEF SetResolved, Unlink, FileStep, UnlinkResolvConf, SymlinkResolvConf
  <2>5. CASE SetGlobalServers(s) \/ SetDnssecEnabled(s) \/ SetDohEndpoint(s)
    BY <1>2, <2>5
       DEF SetGlobalServers, SetDnssecEnabled, SetDohEndpoint, Write, Unlink, Chmod, FileStep
  <2>6. CASE StopNetwork(s) \/ CheckGlobal(s) \/ StartNetwork(s)
    BY <1>1, <1>2, <2>6
       DEF StopNetwork, CheckGlobal, StartNetwork, AskDnsconfd, AskResolved, machine
  <2> QED
    BY <1>4, <2>3, <2>4, <2>5, <2>6 DEF Work
<1>5. CASE \/ \E s \in Session : Open(s) \/ Leave(s) \/ Kill(s)
           \/ \E s \in Session, r \in Requests : Launch(s, r)
           \/ DnsconfdWrites \/ UNCHANGED vars
  BY <1>2, <1>5 DEF Open, Leave, Kill, Launch, DnsconfdWrites, machine, vars
<1> QED
  BY <1>3, <1>4, <1>5 DEF Next

\* A step between two states that keep the two invariants is a step of
\* ResolverSwitch.
LEMMA StepMaps ==
  ASSUME TypeOK, [Next]_vars,
         OneResolverEnabled, OneResolverEnabled',
         ResolvedHasNoPolicy, ResolvedHasNoPolicy'
  PROVE  [Switch!Next]_<<InService, Policy>>
<1> USE DEF Resolver, Dnsconfd, Resolved
<1>1. /\ InService = {u \in {"dnsconfd", "resolved"} : Enabled(u)}
      /\ InService' = {u \in {"dnsconfd", "resolved"} : Enabled(u)'}
  BY DEF InService
<1>2. /\ ~(Enabled("dnsconfd") /\ Enabled("resolved"))
      /\ ~(Enabled("dnsconfd")' /\ Enabled("resolved")')
      /\ ~(Enabled("resolved") /\ Policy) /\ ~(Enabled("resolved")' /\ Policy')
  BY DEF OneResolverEnabled, ResolvedHasNoPolicy, Policy
<1>3. ASSUME \A v \in Resolver : Enabled(v)' = Enabled(v)
      PROVE  [Switch!Next]_<<InService, Policy>>
  <2>1. InService' = InService
    BY <1>1, <1>3
  <2>2. CASE Policy' = Policy
    BY <2>1, <2>2
  <2>3. CASE Policy' # Policy
    <3>1. Policy \in BOOLEAN /\ Policy' \in BOOLEAN
      BY DEF Policy
    <3>2. "resolved" \notin InService
      <4>1. Policy \/ Policy'
        BY <2>3, <3>1
      <4>2. Enabled("resolved")' = Enabled("resolved")
        BY <1>3
      <4> QED
        BY <1>1, <1>2, <4>1, <4>2
    <3> QED
      BY <2>1, <2>3, <3>1, <3>2 DEF Switch!Next, Switch!ChangePolicy
  <2> QED
    BY <2>2, <2>3
<1>4. ASSUME NEW u \in Resolver, NEW v \in Resolver, v # u, Resolver = {u, v},
             Enabled(v)' = Enabled(v), Policy' = Policy, Enabled(u)' # Enabled(u)
      PROVE  [Switch!Next]_<<InService, Policy>>
  <2>0. Enabled(u) \in BOOLEAN /\ Enabled(u)' \in BOOLEAN
    BY DEF Enabled
  <2>1. CASE Enabled(u)
    <3>1. ~Enabled(u)'
      BY <1>4, <2>0, <2>1
    <3>2. InService' = InService \ {u} /\ u \in InService
      BY <1>1, <1>4, <2>1, <3>1
    <3> QED
      BY <1>4, <3>2 DEF Switch!Next, Switch!Retire
  <2>2. CASE ~Enabled(u)
    <3>1. Enabled(u)'
      BY <1>4, <2>0, <2>2
    <3>2. ~Enabled(v)'
      BY <1>2, <1>4, <3>1
    <3>3. ~Enabled(v)
      BY <1>4, <3>2
    <3>4. InService' = {u} /\ InService = {}
      BY <1>1, <1>4, <2>2, <3>1, <3>2, <3>3
    <3>5. u = "resolved" => ~Policy
      BY <1>2, <1>4, <3>1
    <3> QED
      BY <1>4, <3>4, <3>5 DEF Switch!Next, Switch!Adopt
  <2> QED
    BY <2>1, <2>2
<1> QED
  BY <1>3, <1>4, OneThingAtATime

\* With workers launched one at a time the DNS selector implements
\* ResolverSwitch: at no step, whatever fails or is interrupted, is a resolver
\* adopted before the other is retired, or systemd-resolved given a policy.
THEOREM SelectorImplementsSwitch == Serial /\ Spec => ImplementsSwitch
<1>1. Init => Switch!Init
  <2> SUFFICES ASSUME Init PROVE InService = {"dnsconfd"} /\ Policy = FALSE
    BY DEF Switch!Init
  <2>1. ~Policy
    BY DEF Init, Policy, File
  <2>2. Enabled(Dnsconfd) /\ ~Enabled(Resolved)
    BY DEF Init, Enabled, Unit, Resolver, Resolved, Dnsconfd, NM
  <2> QED
    BY <2>1, <2>2 DEF InService, Resolver, Dnsconfd, Resolved
<1>2. CASE Serial
  BY <1>1, <1>2, StepMaps, TypeCorrect, NeverTwoResolvers, ResolvedWithoutPolicy, PTL
     DEF Spec, ImplementsSwitch, Switch!Spec
<1>3. CASE ~Serial
  BY <1>3
<1> QED
  BY <1>2, <1>3
=============================================================================
