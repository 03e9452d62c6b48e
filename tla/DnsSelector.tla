---------------------------- MODULE DnsSelector ----------------------------
(***************************************************************************)
(* The DNS selector (`ujust dns-selector`): the unprivileged menu of       *)
(* dns_selector.py and the root worker inner/dns.py it launches.           *)
(*                                                                         *)
(* Several administrators' sessions share one machine: the systemd units,  *)
(* four configuration files and /etc/resolv.conf.  A session reads the     *)
(* effective resolver, shows a menu and some time later launches a worker; *)
(* the worker is a straight-line script of systemctl calls and file        *)
(* operations, each of which is one step here.  Nothing locks the machine, *)
(* a systemctl call may fail (it is retried once, then the worker exits),  *)
(* a worker may be killed between two steps, the machine may be rebooted.  *)
(***************************************************************************)
CONSTANTS
  Session,   \* the administrators' terminals
  Requests,  \* the requests considered, a subset of AllRequests
  Serial,    \* TRUE: no worker is launched while another one runs
  Faults     \* which of "systemctl", "kill" and "reboot" may happen

Dnsconfd == "dnsconfd"            \* DNSResolver.UNBOUND
Resolved == "resolved"            \* DNSResolver.RESOLVED
Resolver == {Dnsconfd, Resolved}
NM == "NetworkManager"
Sockets == {"unbound.socket", "unbound-control.socket"}
Unit == Resolver \cup Sockets \cup {NM}

\* The files of inner/dns.py, by the setting each one holds.
File == {"nm-dnsconfd", "global", "dnssec", "doh"}

\* A file written under the worker's umask stays private to root until the
\* chmod that follows: NetworkManager, dnsconfd and Trivalent need it public.
FileState == {"absent", "private", "public"}

\* /etc/resolv.conf: a regular file of root, an empty one given to dnsconfd,
\* one in which dnsconfd wrote 127.0.0.1, or the link to resolved's stub.
ResolvConf == {"missing", "root", "dnsconfd", "loopback", "stub"}

\* A request is the command line of the worker.
Reset       == [cmd |-> "reset", resolver |-> Dnsconfd, dnssec |-> FALSE, doh |-> FALSE]
SetDnssec   == [cmd : {"set-dnssec"}, resolver : {Dnsconfd}, dnssec : BOOLEAN, doh : {FALSE}]
SetGlobal   == [cmd : {"set-global"}, resolver : {Dnsconfd}, dnssec : BOOLEAN, doh : BOOLEAN]
SetResolver == [cmd : {"set-resolver"}, resolver : Resolver, dnssec : {FALSE}, doh : {FALSE}]
SetDoh      == [cmd : {"set-trivalent-doh"}, resolver : {Dnsconfd}, dnssec : {FALSE}, doh : BOOLEAN]
AllRequests == {Reset} \cup SetDnssec \cup SetGlobal \cup SetResolver \cup SetDoh

ASSUME RequestsAssumption == Requests \subseteq AllRequests
ASSUME SerialAssumption   == Serial \in BOOLEAN
ASSUME FaultsAssumption   == Faults \subseteq {"systemctl", "kill", "reboot"}

VARIABLES
  unit,      \* systemd's record of each unit
  file,      \* the configuration files
  resolv,    \* /etc/resolv.conf
  pc,        \* where each session is: closed, a menu, or a step of its worker
  worker,    \* the memory of its worker
  outcome,   \* how the session's last worker ended
  alone      \* the running worker, if no other one has run beside it

machine == <<unit, file, resolv>>
vars == <<unit, file, resolv, pc, worker, outcome, alone>>

Menu == {"closed", "short-menu", "full-menu"}
UnboundSteps  == {"mask-resolved", "disable-resolved", "write-nm-dnsconfd",
                  "chmod-nm-dnsconfd", "unlink-old-resolv.conf", "touch-resolv.conf",
                  "chown-resolv.conf", "enable-socket", "enable-control",
                  "unmask-dnsconfd", "enable-dnsconfd"}
ResolvedSteps == {"disable-dnsconfd", "mask-dnsconfd", "disable-socket",
                  "disable-control", "unlink-nm-dnsconfd", "unlink-resolv.conf",
                  "symlink-resolv.conf", "unmask-resolved", "enable-resolved"}
SettingSteps  == {"set-global", "chmod-global", "set-dnssec", "chmod-dnssec",
                  "set-doh", "chmod-doh"}
StopSteps     == {"stop-nm", "stop-asks-dnsconfd", "stop-asks-resolved",
                  "stop-resolver"}
CheckSteps    == {"global-asks-dnsconfd", "global-asks-resolved"}
StartSteps    == {"start-asks-dnsconfd", "start-asks-resolved",
                  "start-resolver", "start-nm"}
Steps == UnboundSteps \cup ResolvedSteps \cup SettingSteps \cup StopSteps
           \cup CheckSteps \cup StartSteps

\* A worker remembers its command line, that its systemctl call has failed once,
\* and get_current's first answer (dnsconfd is enabled) and result.
Worker == [req : AllRequests, retried : BOOLEAN, seen : BOOLEAN, target : Resolver]
NewWorker(r) == [req |-> r, retried |-> FALSE, seen |-> FALSE, target |-> Dnsconfd]

Running(s) == pc[s] \notin Menu
Outcome == {"none", "ok", "refused", "failed", "killed"}

TypeOK ==
  /\ unit \in [Unit -> [wanted : BOOLEAN, masked : BOOLEAN, active : BOOLEAN]]
  /\ file \in [File -> FileState]
  /\ resolv \in ResolvConf
  /\ pc \in [Session -> Menu \cup Steps]
  /\ worker \in [Session -> Worker]
  /\ outcome \in [Session -> Outcome]
  /\ alone \subseteq Session

-----------------------------------------------------------------------------
(* systemd *)

\* `systemctl is-enabled`: an install link exists and the unit is not masked.
Enabled(u) == unit[u].wanted /\ ~unit[u].masked

\* What a systemctl verb does to a unit's record.
Apply(verb, r) ==
  CASE verb = "mask"          -> [r EXCEPT !.masked = TRUE]
    [] verb = "unmask"        -> [r EXCEPT !.masked = FALSE]
    [] verb = "enable"        -> [r EXCEPT !.wanted = TRUE]
    [] verb = "disable"       -> [r EXCEPT !.wanted = FALSE]
    [] verb = "start"         -> [r EXCEPT !.active = TRUE]
    [] verb = "stop"          -> [r EXCEPT !.active = FALSE]
    [] verb = "enable-now"    -> [r EXCEPT !.wanted = TRUE, !.active = TRUE]
    [] verb = "disable-now"   -> [r EXCEPT !.wanted = FALSE, !.active = FALSE]

\* systemctl refuses to enable or start a masked unit.
Possible(verb, r) == verb \in {"enable", "enable-now", "start"} => ~r.masked

\* What is left of a call that failed: nothing, or its first half.
HalfDone(verb, r) ==
  {r} \cup (IF verb = "enable-now" /\ Possible(verb, r)
            THEN {Apply("enable", r)} ELSE {})
      \cup (IF verb = "disable-now" THEN {Apply("disable", r)} ELSE {})

-----------------------------------------------------------------------------
(* Control of a worker *)

Proceed(s, next, memory) ==
  /\ pc' = [pc EXCEPT ![s] = next]
  /\ worker' = [worker EXCEPT ![s] = memory]
  /\ UNCHANGED <<outcome, alone>>

Goto(s, next) == Proceed(s, next, worker[s])

Exit(s, how) ==
  /\ pc' = [pc EXCEPT ![s] = "closed"]
  /\ worker' = [worker EXCEPT ![s] = NewWorker(Reset)]
  /\ outcome' = [outcome EXCEPT ![s] = how]
  /\ alone' = alone \ {s}

\* A systemctl call of SystemdService: a first failure is retried after a
\* pause, a second one ends the worker with systemctl's exit status.
Systemctl(s, here, verb, u, next) ==
  /\ pc[s] = here
  /\ \/ /\ Possible(verb, unit[u])
        /\ unit' = [unit EXCEPT ![u] = Apply(verb, @)]
        /\ IF next = "closed" THEN Exit(s, "ok")
           ELSE Proceed(s, next, [worker[s] EXCEPT !.retried = FALSE])
     \/ /\ "systemctl" \in Faults \/ ~Possible(verb, unit[u])
        /\ \E r \in HalfDone(verb, unit[u]) : unit' = [unit EXCEPT ![u] = r]
        /\ IF worker[s].retried THEN Exit(s, "failed")
           ELSE Proceed(s, here, [worker[s] EXCEPT !.retried = TRUE])
  /\ UNCHANGED <<file, resolv>>

\* DNSResolver.get_current asks systemd twice.  Both or neither enabled is an
\* unsupported configuration, answered with Unbound.
AskDnsconfd(s, here, next) ==
  /\ pc[s] = here
  /\ Proceed(s, next, [worker[s] EXCEPT !.seen = Enabled(Dnsconfd)])
  /\ UNCHANGED machine

\* Wrong: only ever answers Unbound.
CurrentIsUnbound(s) == Dnsconfd
\* Wrong: answers neither when neither is enabled.
CurrentOrNone(s) ==
  CASE worker[s].seen -> Dnsconfd [] Enabled(Resolved) -> Resolved [] OTHER -> "none"

Current(s) == IF worker[s].seen \/ ~Enabled(Resolved) THEN Dnsconfd ELSE Resolved

AskResolved(s, here, next) ==
  /\ pc[s] = here
  /\ Proceed(s, next, [worker[s] EXCEPT !.target = Current(s)])
  /\ UNCHANGED machine

FileStep(s, here, next) ==
  /\ pc[s] = here
  /\ Goto(s, next)
  /\ UNCHANGED unit

\* write_text keeps the mode of a file that is there already.
Write(s, here, f, next) ==
  /\ FileStep(s, here, next)
  /\ file' = [file EXCEPT ![f] = IF @ = "absent" THEN "private" ELSE @]
  /\ UNCHANGED resolv

Unlink(s, here, f, next) ==
  /\ FileStep(s, here, next)
  /\ file' = [file EXCEPT ![f] = "absent"]
  /\ UNCHANGED resolv

\* chmod raises FileNotFoundError when another worker has unlinked the file.
Chmod(s, here, f, next) ==
  /\ pc[s] = here
  /\ IF file[f] = "absent"
     THEN Exit(s, "failed") /\ UNCHANGED file
     ELSE file' = [file EXCEPT ![f] = "public"]
          /\ IF next = "closed" THEN Exit(s, "ok") ELSE Goto(s, next)
  /\ UNCHANGED <<unit, resolv>>

-----------------------------------------------------------------------------
(* set_resolver *)

\* Wrong: a reset forgets the global servers.
AfterResolverKeepsGlobal(r) ==
  IF r.cmd \in {"reset", "set-dnssec"} THEN "set-dnssec" ELSE "start-asks-dnsconfd"
\* Wrong: set-resolver returns without restarting the network.
AfterResolverReturns(r) ==
  IF r.cmd = "set-resolver" THEN "closed" ELSE "set-dnssec"

AfterResolver(r) ==
  CASE r.cmd = "reset"      -> "set-global"
    [] r.cmd = "set-dnssec" -> "set-dnssec"
    [] OTHER                -> "start-asks-dnsconfd"

UnlinkResolvConf(s, here, next) ==
  /\ FileStep(s, here, next)
  /\ resolv' = "missing"
  /\ UNCHANGED file

\* touch creates the file unless something, even a link, is already there.
TouchResolvConf(s, next) ==
  /\ FileStep(s, "touch-resolv.conf", next)
  /\ resolv' = IF resolv = "missing" THEN "root" ELSE resolv
  /\ UNCHANGED file

\* chmod and chown of resolv.conf.  They raise when another worker has removed
\* it, and may when it has become a link out of the writable /etc.
ChownResolvConf(s, next) ==
  /\ pc[s] = "chown-resolv.conf"
  /\ \/ /\ resolv # "missing"
        /\ resolv' = IF resolv = "root" THEN "dnsconfd" ELSE resolv
        /\ Goto(s, next)
     \/ /\ resolv \in {"missing", "stub"}
        /\ Exit(s, "failed")
        /\ UNCHANGED resolv
  /\ UNCHANGED <<unit, file>>

\* symlink_to raises FileExistsError when something is in its place.
SymlinkResolvConf(s, next) ==
  /\ pc[s] = "symlink-resolv.conf"
  /\ IF resolv = "missing"
     THEN resolv' = "stub" /\ Goto(s, next)
     ELSE Exit(s, "failed") /\ UNCHANGED resolv
  /\ UNCHANGED <<unit, file>>

SetUnbound(s) ==
  \/ Systemctl(s, "mask-resolved", "mask", Resolved, "disable-resolved")
  \/ Systemctl(s, "disable-resolved", "disable", Resolved, "write-nm-dnsconfd")
  \/ Write(s, "write-nm-dnsconfd", "nm-dnsconfd", "chmod-nm-dnsconfd")
  \/ Chmod(s, "chmod-nm-dnsconfd", "nm-dnsconfd", "unlink-old-resolv.conf")
  \/ UnlinkResolvConf(s, "unlink-old-resolv.conf", "touch-resolv.conf")
  \/ TouchResolvConf(s, "chown-resolv.conf")
  \/ ChownResolvConf(s, "enable-socket")
  \/ Systemctl(s, "enable-socket", "enable-now", "unbound.socket", "enable-control")
  \/ Systemctl(s, "enable-control", "enable-now", "unbound-control.socket", "unmask-dnsconfd")
  \/ Systemctl(s, "unmask-dnsconfd", "unmask", Dnsconfd, "enable-dnsconfd")
  \/ Systemctl(s, "enable-dnsconfd", "enable", Dnsconfd, AfterResolver(worker[s].req))

SetResolved(s) ==
  \/ Systemctl(s, "disable-dnsconfd", "disable", Dnsconfd, "mask-dnsconfd")
  \/ Systemctl(s, "mask-dnsconfd", "mask", Dnsconfd, "disable-socket")
  \/ Systemctl(s, "disable-socket", "disable-now", "unbound.socket", "disable-control")
  \/ Systemctl(s, "disable-control", "disable-now", "unbound-control.socket", "unlink-nm-dnsconfd")
  \/ Unlink(s, "unlink-nm-dnsconfd", "nm-dnsconfd", "unlink-resolv.conf")
  \/ UnlinkResolvConf(s, "unlink-resolv.conf", "symlink-resolv.conf")
  \/ SymlinkResolvConf(s, "unmask-resolved")
  \/ Systemctl(s, "unmask-resolved", "unmask", Resolved, "enable-resolved")
  \/ Systemctl(s, "enable-resolved", "enable", Resolved, AfterResolver(worker[s].req))

\* Wrong: leaves systemd-resolved in service.
FirstResolverStepKeepsOld(r) ==
  IF r.resolver = Dnsconfd THEN "write-nm-dnsconfd" ELSE "disable-dnsconfd"

FirstResolverStep(r) ==
  IF r.resolver = Dnsconfd THEN "mask-resolved" ELSE "disable-dnsconfd"

-----------------------------------------------------------------------------
(* The other settings, and the order main() puts everything in *)

\* set_global_nm_servers: only set-global passes servers.
SetGlobalServers(s) ==
  \/ /\ worker[s].req.cmd = "set-global"
     /\ Write(s, "set-global", "global", "chmod-global")
  \/ /\ worker[s].req.cmd # "set-global"
     /\ Unlink(s, "set-global", "global", "set-dnssec")
  \/ Chmod(s, "chmod-global", "global", "set-dnssec")

AfterDnssec(r) ==
  CASE r.cmd \in {"reset", "set-global"} -> "set-doh"
    [] r.cmd = "set-resolver"            -> FirstResolverStep(r)
    [] OTHER                             -> "start-asks-dnsconfd"

\* set_dnssec_enabled
SetDnssecEnabled(s) ==
  \/ /\ worker[s].req.dnssec
     /\ Write(s, "set-dnssec", "dnssec", "chmod-dnssec")
  \/ /\ ~worker[s].req.dnssec
     /\ Unlink(s, "set-dnssec", "dnssec", AfterDnssec(worker[s].req))
  \/ Chmod(s, "chmod-dnssec", "dnssec", AfterDnssec(worker[s].req))

\* set_trivalent_doh_endpoint; set-trivalent-doh does nothing else.
AfterDoh(r) ==
  IF r.cmd = "set-trivalent-doh" THEN "closed" ELSE "start-asks-dnsconfd"

SetDohEndpoint(s) ==
  \/ /\ worker[s].req.doh
     /\ Write(s, "set-doh", "doh", "chmod-doh")
  \/ /\ pc[s] = "set-doh"
     /\ ~worker[s].req.doh
     /\ file' = [file EXCEPT !["doh"] = "absent"]
     /\ IF AfterDoh(worker[s].req) = "closed" THEN Exit(s, "ok") ELSE Goto(s, AfterDoh(worker[s].req))
     /\ UNCHANGED <<unit, resolv>>
  \/ Chmod(s, "chmod-doh", "doh", AfterDoh(worker[s].req))

\* Wrong: set-resolver keeps the policy of the resolver it replaces.
AfterStopKeepsPolicy(r) ==
  CASE r.cmd = "set-global"   -> "global-asks-dnsconfd"
    [] r.cmd = "set-resolver" -> FirstResolverStep(r)
    [] OTHER                  -> "mask-resolved"
\* Wrong: set-global does not ask which resolver is in use.
AfterStopUnchecked(r) ==
  IF r.cmd \in {"reset", "set-dnssec"} THEN "mask-resolved" ELSE "set-global"

AfterStop(r) ==
  CASE r.cmd \in {"reset", "set-dnssec"} -> "mask-resolved"
    [] r.cmd = "set-global"              -> "global-asks-dnsconfd"
    [] OTHER                             -> "set-global"

StopNetwork(s) ==
  \/ Systemctl(s, "stop-nm", "stop", NM, "stop-asks-dnsconfd")
  \/ AskDnsconfd(s, "stop-asks-dnsconfd", "stop-asks-resolved")
  \/ AskResolved(s, "stop-asks-resolved", "stop-resolver")
  \/ Systemctl(s, "stop-resolver", "stop", worker[s].target, AfterStop(worker[s].req))

\* set-global is refused unless Unbound is the resolver: main() returns there
\* and then, with exit status 0.
CheckGlobal(s) ==
  \/ AskDnsconfd(s, "global-asks-dnsconfd", "global-asks-resolved")
  \/ /\ pc[s] = "global-asks-resolved"
     /\ IF Current(s) = Dnsconfd THEN Goto(s, "set-global") ELSE Exit(s, "refused")
     /\ UNCHANGED machine

StartNetwork(s) ==
  \/ AskDnsconfd(s, "start-asks-dnsconfd", "start-asks-resolved")
  \/ AskResolved(s, "start-asks-resolved", "start-resolver")
  \/ Systemctl(s, "start-resolver", "start", worker[s].target, "start-nm")
  \/ Systemctl(s, "start-nm", "start", NM, "closed")

Work(s) ==
  \/ StopNetwork(s) \/ CheckGlobal(s) \/ SetUnbound(s) \/ SetResolved(s)
  \/ SetGlobalServers(s) \/ SetDnssecEnabled(s) \/ SetDohEndpoint(s)
  \/ StartNetwork(s)

-----------------------------------------------------------------------------
(* The menu *)

\* DNSResolver.detect reads resolv.conf, not systemd: Unbound is in use when
\* its first known nameserver is 127.0.0.1.
DetectsUnbound == resolv = "loopback"

\* run_interactive, or the command line of main(): what is offered depends on
\* the resolver detected when the session is opened.
Open(s) ==
  /\ pc[s] = "closed"
  /\ pc' = [pc EXCEPT ![s] = IF DetectsUnbound THEN "full-menu" ELSE "short-menu"]
  /\ outcome' = [outcome EXCEPT ![s] = "none"]
  /\ UNCHANGED <<machine, worker, alone>>

\* DNSSEC and global DNS are offered to a session that detected Unbound.
Offered(r, menu) ==
  r.cmd \in {"set-dnssec", "set-global"} => menu = "full-menu"

\* Wrong: NetworkManager is left running.
FirstStepOnline(r) ==
  IF r.cmd = "set-trivalent-doh" THEN "set-doh" ELSE "stop-asks-dnsconfd"

\* set-trivalent-doh does not bring the network down.
FirstStep(r) == IF r.cmd = "set-trivalent-doh" THEN "set-doh" ELSE "stop-nm"

\* The session's choice, after any time spent at the prompts.
Launch(s, r) ==
  /\ pc[s] \in {"short-menu", "full-menu"}
  /\ Offered(r, pc[s])
  /\ Serial => \A t \in Session : ~Running(t)
  /\ worker' = [worker EXCEPT ![s] = NewWorker(r)]
  /\ pc' = [pc EXCEPT ![s] = FirstStep(r)]
  /\ alone' = IF \E t \in Session : Running(t) THEN {} ELSE {s}
  /\ UNCHANGED <<machine, outcome>>

\* Ctrl+C at a prompt, or a command that only prints the status.
Leave(s) ==
  /\ pc[s] \in {"short-menu", "full-menu"}
  /\ pc' = [pc EXCEPT ![s] = "closed"]
  /\ UNCHANGED <<machine, worker, outcome, alone>>

-----------------------------------------------------------------------------
(* The environment *)

\* dnsconfd, once told of the network by NetworkManager, fills in the
\* resolv.conf it owns.
DnsconfdWrites ==
  /\ unit[Dnsconfd].active /\ unit[NM].active
  /\ resolv = "dnsconfd"
  /\ resolv' = "loopback"
  /\ UNCHANGED <<unit, file, pc, worker, outcome, alone>>

\* Ctrl+C, a crash, the end of the login session.
Kill(s) ==
  /\ "kill" \in Faults
  /\ Running(s)
  /\ Exit(s, "killed")
  /\ UNCHANGED machine

\* Every worker dies, and systemd starts what is enabled; Unbound pulls its
\* sockets in.
Reboot ==
  /\ "reboot" \in Faults
  /\ unit' = [u \in Unit |->
       [unit[u] EXCEPT !.active =
          \/ u = NM
          \/ Enabled(u)
          \/ u \in Sockets /\ Enabled(Dnsconfd)]]
  /\ pc' = [s \in Session |-> "closed"]
  /\ worker' = [s \in Session |-> NewWorker(Reset)]
  /\ outcome' = [s \in Session |-> IF Running(s) THEN "killed" ELSE outcome[s]]
  /\ alone' = {}
  /\ UNCHANGED <<file, resolv>>

\* The image as shipped, its network up.
Init ==
  /\ unit = [u \in Unit |-> [wanted |-> u \in {Dnsconfd, NM},
                             masked |-> FALSE,
                             active |-> u # Resolved]]
  /\ file = [f \in File |-> IF f = "nm-dnsconfd" THEN "public" ELSE "absent"]
  /\ resolv = "loopback"
  /\ pc = [s \in Session |-> "closed"]
  /\ worker = [s \in Session |-> NewWorker(Reset)]
  /\ outcome = [s \in Session |-> "none"]
  /\ alone = {}

Next ==
  \/ \E s \in Session : Work(s) \/ Open(s) \/ Leave(s) \/ Kill(s)
  \/ \E s \in Session, r \in Requests : Launch(s, r)
  \/ DnsconfdWrites
  \/ Reboot

Spec == Init /\ [][Next]_vars

\* The scheduler keeps running a live worker; nobody is obliged to launch one.
FairSpec == Spec /\ \A s \in Session : WF_vars(Work(s))

-----------------------------------------------------------------------------
(* Properties *)

\* The two resolvers are never both enabled: set_resolver takes the old one
\* out of service before it enables the new one, whatever an earlier run that
\* failed or was killed left behind.
OneResolverEnabled == ~(Enabled(Dnsconfd) /\ Enabled(Resolved))

\* The two resolvers never run side by side: get_current().stop() finds the one
\* that runs even after runs that were cut short.
OneResolverActive == ~(unit[Dnsconfd].active /\ unit[Resolved].active)

\* "Only support global DNS for Unbound" (inner/dns.py): systemd-resolved is
\* never enabled while global servers or DNSSEC validation are configured.
ResolvedHasNoPolicy ==
  Enabled(Resolved) => file["global"] = "absent" /\ file["dnssec"] = "absent"

\* What a worker has already done to the old resolver, and to the settings,
\* still holds at each of its later steps.
StepInv(s) ==
  LET q == worker[s].req IN
  /\ pc[s] \in UnboundSteps \ {"mask-resolved"} => unit[Resolved].masked
  /\ pc[s] \in ResolvedSteps \ {"disable-dnsconfd"} => ~unit[Dnsconfd].wanted
  /\ pc[s] \in ResolvedSteps =>
       /\ q.cmd = "set-resolver"
       /\ file["global"] = "absent" /\ file["dnssec"] = "absent"
  /\ pc[s] = "set-dnssec" /\ q.cmd = "set-resolver" => file["global"] = "absent"
  /\ pc[s] = "chmod-global" => q.cmd = "set-global"
  /\ pc[s] = "chmod-dnssec" => q.dnssec
  /\ pc[s] \in {"set-global", "chmod-global", "set-dnssec", "chmod-dnssec"}
     /\ q.cmd \in {"set-dnssec", "set-global"} => ~Enabled(Resolved)
  /\ pc[s] = "global-asks-resolved" /\ worker[s].seen => Enabled(Dnsconfd)

\* When workers do not overlap the two invariants above hold because every step
\* of set_resolver and of main() can still rely on the earlier ones, also after
\* failed calls, kills and reboots: StepInv of each session.
ScriptInv ==
  Serial =>
    /\ \A s, t \in Session : Running(s) /\ Running(t) => s = t
    /\ OneResolverEnabled
    /\ ResolvedHasNoPolicy
    /\ \A s \in Session : StepInv(s)

InService == {u \in Resolver : Enabled(u)}
Policy    == file["global"] # "absent" \/ file["dnssec"] # "absent"

\* What a run that sets the resolver to r has to leave behind.
Coherent(r) ==
  /\ InService = {r}
  /\ unit[r].active /\ unit[NM].active
  /\ \A u \in Sockets : unit[u].wanted = (r = Dnsconfd) /\ (r = Dnsconfd => unit[u].active)
  /\ resolv \in (IF r = Dnsconfd THEN {"dnsconfd", "loopback"} ELSE {"stub"})
  /\ file["nm-dnsconfd"] = (IF r = Dnsconfd THEN "public" ELSE "absent")

\* A reset, set-dnssec or set-resolver that no other worker overlapped and
\* that ends well leaves a coherent machine with only public files and with
\* the settings asked for, whatever state earlier runs (overlapping, failed,
\* killed, cut by a reboot) left it in.
LeavesCoherent(s) ==
  (/\ s \in alone
   /\ worker[s].req.cmd \in {"reset", "set-dnssec", "set-resolver"}
   /\ pc[s] # "closed" /\ pc'[s] = "closed" /\ outcome'[s] = "ok")
  => /\ \A r \in Resolver : worker[s].req.resolver = r => Coherent(r)'
     /\ (file'["dnssec"] = "public") = worker[s].req.dnssec
     /\ worker[s].req.cmd # "set-dnssec" => file'["global"] = "absent"
     /\ worker[s].req.cmd = "reset" => file'["doh"] = "absent"

CompletedRunRepairs == [][\A s \in Session : LeavesCoherent(s)]_vars

\* The configuration of the network stack is rewritten only while the stack is
\* down: no worker touches its files or resolv.conf while NetworkManager or a
\* resolver that could read them half-written is running.
ConfiguresOffline ==
  [][/\ resolv' # resolv \/ \E f \in File \ {"doh"} : file'[f] # file[f]
     /\ \E s \in Session : Work(s)
     => ~unit[NM].active /\ \A r \in Resolver : ~unit[r].active]_vars

\* On a machine without faults, a worker that no other overlaps does not fail,
\* whatever mixture of masks, links and files overlapping workers have left it:
\* it meets no masked unit, and no file that is missing or in the way.
LoneRunSucceeds ==
  [][\A s \in Session : s \in alone /\ outcome[s] # "failed" => outcome'[s] # "failed"]_vars

\* A worker that finds the network down, its own doing or another's, ends with
\* NetworkManager running again unless it fails, is refused or is killed.
WorkerRestoresNetwork ==
  \A s \in Session :
    (Running(s) /\ worker[s].req.cmd # "set-trivalent-doh" /\ ~unit[NM].active)
      ~> (unit[NM].active \/ outcome[s] \in {"failed", "refused", "killed"})

\* "Your connection will be reset. Please wait." (inner/dns.py): with no fault
\* of the machine, a network taken down comes back.
ConnectionIsReset == ~unit[NM].active ~> unit[NM].active

\* What it amounts to: resolvers change hands as ResolverSwitch says.
Switch == INSTANCE ResolverSwitch WITH enabled <- InService, policy <- Policy

\* With workers launched one at a time every step of the selector is a step of
\* ResolverSwitch or changes nothing there.
ImplementsSwitch == Switch!Spec
=============================================================================
