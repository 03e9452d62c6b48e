# Formal model of secureblue

TLA+ modules, TLC configurations and TLAPS proofs about the programs that
secureblue installs in `/usr/libexec`.  Paths below are relative to
`files/system/usr/libexec/secureblue/` unless they start elsewhere; `desktop:`
stands for `files/system/desktop/usr/libexec/secureblue/`.

## 1. The system

secureblue is an image-based Linux system.  Its own programs are small Python
and shell scripts behind `ujust` commands, systemd services and timers.  They
keep no process alive; their state is the machine's: systemd units, files under
`/etc` and `/var`, firmware variables, key slots, deployments.  Most have two
halves: an unprivileged one that reads the machine and asks the user, and a
root worker (`inner/*.py`) that it launches through `run0`
(`shared/sandbox.py`) and that changes the machine one call at a time.  Nothing
locks anything, every call may fail, and a worker may stop between two calls.

| Component | State | Operations | Hard behaviour | What makes it correct |
|---|---|---|---|---|
| **DNS selector** (`dns_selector.py`, `inner/dns.py`, `SystemdService`) | units of two resolvers, Unbound's sockets, NetworkManager; four configuration files; `/etc/resolv.conf` | reset, DNSSEC, global servers, switch of resolver, DoH | menus used long after they were printed, half-finished workers, retried `systemctl`, reboots, two workers at once | one resolver at a time, policies only with Unbound, network back up, a good run repairs |
| **Auditor** (`auditor/`, `audit_secureblue.py`, `audit_utils/`) | the queue of checks, the dictionary checks share, reports, recommendations | register, skip, run, print, JSON | checks that raise; dependencies that were skipped or failed; expectations | a check finds what it depends on; no recommendation is lost; the audit ends and tells of errors |
| **Flatpak audit and hardening** (`audit_flatpak/`, `desktop:harden_flatpak.py`) | permissions of an application, overrides | parse, merge, compare | precedence of overrides, negation, nested paths | the merged permission is what flatpak grants |
| **Update pipeline** (`desktop:upgrade-on-boot`, `update_system.py`, `system-update-available`, `verify-provenance.sh`, `bootc-upgrade.*`, `bootc-status.service`, notifications, `rebase-secureblue`) | the registry's tag, the booted and staged deployment, `/run/bootc/status.json`, stamp files | check, verify, stage, reboot, notify | a tag that moves, several actors staging, a stale cache, retries, a reboot loop | only verified images are booted; an update is booted eventually; no endless reboot |
| **First-boot services** (`securebluecleanup`, `desktop:secureblueflatpaksetup`) | stamp file, authselect and flatpak configuration, deployment | clean up, retry, stamp | a failure or a power cut before the stamp | done at least once, no effect undone by a repetition |
| **Secure Boot enrolment** (`enroll_secure_boot_keys.py`, `inner/secure_boot.py`, `shared/secure_boot.py`) | db, KEK, PK, MokNew, MokAuth, two boot loaders | enrol keys, queue a MOK, update the loaders | a crash between two writes, immutable variables, retries | PK last; MokAuth matches MokNew; a loader that was a copy stays one |
| **LUKS unlock** (`files/system/usr/libexec/luks-*.sh`) | key slots, `/etc/crypttab` and its backup, initramfs arguments | enable, disable TPM2 and FIDO2 | `set -e` exits, wipe before enrol, stale dumps | never without a way to unlock; the backup is a good one |
| **Kernel arguments** (`set_kargs_hardening.py`, `shared/kargs_hardening.py`, `inner/set_kargs_uki.py`) | arguments or add-on files | add, remove | partial copies, inconsistent requests | the arguments asked for, or a failure reported |
| **Toggles** (`bluetooth_main.py`, `webcam_main.py`, `set_cups.py`, `dhcp_*`, `desktop:brew_main.py`, `set_libvirt_daemons.py`, `desktop:set_xwayland.py`, `override-*`) | modprobe files, units, mounts | on, off, status | read-then-act over a password prompt; half-done workers the "already set" test skips | status tells the truth; on and off can be repeated |
| **SELinux toggles** (`set_container_userns.py`, `set_unconfined_userns.py`, `set_ptrace.py`) | modules, booleans, running containers | on, off, container | containers started between stop and module change | off leaves nothing running that needs it |
| **Administrator creation** (`create_admin.py`, `inner/admin.py`) | accounts, group wheel | useradd, passwd, userdel, gpasswd | each step may fail or be interrupted | never without an administrator, no account without a password in wheel |

The components meet only through the machine: the DNS selector and the toggles
through `SystemdService` and NetworkManager (the DHCP toggle restarts it), the
auditor reads what all the others write, the update pipeline and the first-boot
service through the staged deployment.

## 2. Plan

Done first, because it has the most steps, actors and faults, and because a
wrong order of steps cuts the machine off the network:

1. `DnsSelector`, its abstract specification `ResolverSwitch`, its proofs
   (`DnsSelectorProofs`, `DnsNetworkProofs`, `DnsRepairProofs`).  **Done.**

2. `UpdatePipeline`: a registry whose tag moves, the actors that verify and
   stage (`upgrade-on-boot`, the timer, `ujust update-system`), reboots, and its
   proofs (`UpdatePipelineProofs`).  **Done**, but for `rebase-secureblue`.

3. `Auditor`: registration, skip, run with a shared dictionary and exceptions,
   and its proofs (`AuditorProofs`).  **Done.**

4. `Script`, one model of all programs of the shape "read, ask for a password,
   make a fixed sequence of calls", and the programs as data: `Toggles`
   (hardware, services, desktop, libvirt, kernel arguments), `Policies` (SELinux,
   containers, administrators), `KeyScripts` (Secure Boot, LUKS), put together in
   `HostScripts`; its proofs (`ScriptProofs`, and `HostProofs` about three of the
   programs).  **Done**, but for two shell toggles.

5. `FlatpakAudit` and, over it, `FlatpakOverrides`; its proofs (`FlatpakProofs`).
   **Done**, but for the audit of the remotes.

Not done: `rebase-secureblue`, the two first-boot services, two
shell toggles (section 8), and the individual checks of `audit_secureblue.py`, beside those that
`Toggles`, `Policies` and `FlatpakAudit` compare with the programs they advise.

The modules and what they extend:

| Module | Extends | What it is |
|---|---|---|
| `ResolverSwitch` | | promise of the DNS selector |
| `DnsSelector`, `DnsSelectorProofs`, `MCDnsSelector` | instance of `ResolverSwitch` | sessions and workers of the DNS selector |
| `DnsNetworkProofs`, `DnsRepairProofs` | `DnsSelectorProofs` | what runs, and what an undisturbed run leaves |
| `UpdatePipeline`, `UpdatePipelineProofs`, `MCUpdatePipeline` | | registry, machine, actors |
| `Auditor`, `AuditorProofs`, `MCAuditor` | | the framework of the audit |
| `Calls` | | how scripts are written down |
| `Script`, `ScriptProofs` | `Calls` | sessions that run any such script |
| `Toggles`; `Policies`, `KeyScripts` | `Calls`; `Toggles` | eighteen programs as data |
| `HostScripts`, `HostProofs`, `MCScripts` | `Script`, `Policies`, `KeyScripts` | all of them together |
| `FlatpakAudit` | | what the audit reports of an app |
| `FlatpakOverrides`, `FlatpakProofs`, `MCFlatpak` | `FlatpakAudit` | the programs that write overrides |

## 3. The DNS selector

### Model

`DnsSelector.tla` models sessions (`Session`) that share one machine.

* `unit`: for every unit, an install link (`wanted`), a mask and whether it
  runs.  `Enabled(u)` is what `systemctl is-enabled` answers.
* `file`: the four files of `inner/dns.py`.  The worker's umask hides a new file
  until its `chmod`, hence `absent`, `private`, `public`.
* `resolv`: `/etc/resolv.conf`, a file of root, one owned by dnsconfd, one in
  which dnsconfd has put 127.0.0.1, resolved's link, or missing.
* `pc[s]`, `worker[s]`, `outcome[s]`: where the session is; its worker's command
  line, whether its `systemctl` call is being retried, and the answers of
  `get_current`; how its last worker ended.
* `alone`: history variable, the running worker if none has overlapped it.

`Open` reads resolv.conf and shows one of two menus; `Launch` starts a worker at
any later time, for any request that menu offers (the command line's requests
are among them).  A worker is the script of `main()`; each `systemctl` call, each
of the two `is-enabled` calls of `get_current` and each file operation is one
step, so `SetUnbound`, `SetResolved`, `StopNetwork`, ... are disjunctions in the
order of the source, and `FirstStep`, `AfterStop`, `AfterResolver`,
`AfterDnssec`, `AfterDoh` are the branches of `main()`.

What can go wrong: a `systemctl` call fails (always possible when it enables or
starts a masked unit), possibly after the first half of an `enable --now`; it is
retried once, then the worker exits.  A `chmod`, `chown` or `symlink_to` raises
when another worker has changed the file.  A worker is killed.  The machine
reboots: workers die and systemd starts what is enabled.

External, modelled from how the code uses it: systemd's verbs (`Apply`,
`Possible`, `HalfDone`), the boot (`Reboot`; Unbound pulls its sockets in),
dnsconfd writing the resolv.conf it owns (`DnsconfdWrites`), `Kill`.

Abstractions: the chmod and the chown of resolv.conf are one step; every
provider has addresses, so `set-global` always writes its file; a VPN client
that rewrites resolv.conf is left out; prompts and printing change nothing.

`Serial = TRUE` lets a worker start only while no other runs.  The code has no
lock, so this is an assumption about the administrators; the claims that need it
say so, and `DnsOverlap` shows what remains without it.  (With two overlapping
workers both resolvers can be enabled, a state `get_current` expects and warns
of.)

`ResolverSwitch.tla` is the promise: at most one resolver in service, one
retired before another is adopted, global servers and DNSSEC only with Unbound.
`Switch == INSTANCE ResolverSwitch WITH enabled <- InService, policy <- Policy`.

### Runs

| Run | Instance | Question |
|---|---|---|
| `dns_serial` | 2 sessions, all 10 requests, all faults, serial | two resolvers never enabled (`OneResolverEnabled`) nor running (`OneResolverActive`); files change only with the network down (`ConfiguresOffline`); a run that ends well repairs (`CompletedRunRepairs`); the inductive invariant `ScriptInv`, `ResolvedHasNoPolicy`, `ImplementsSwitch`, with menus that went stale |
| `dns_overlap` | 2 sessions, 3 requests, interleaved workers, no fault, fair | a later lone run fails nowhere (`LoneRunSucceeds`) and repairs any mixture (`CompletedRunRepairs`); every worker brings NetworkManager back (`WorkerRestoresNetwork`) |
| `dns_refused` | 2 sessions, 3 requests, serial, no fault, fair | violated: `ConnectionIsReset` |

Bounds.  A third session adds nothing that two do not show, since a worker sees
the others only through the machine.  The state is finite without any cap.  The
three requests of `dns_overlap` and `dns_refused` are one per script; the ones
left out (`set-dnssec`, `set-resolver unbound`, `set-trivalent-doh`) run the
same steps as the ones kept. Sessions are interchangeable, hence the symmetry of
`dns_serial`, which has no liveness.

Fairness.  `FairSpec` has weak fairness on a worker's steps only: the scheduler
runs a live process.  Nobody is obliged to open a menu, choose or leave, and no
fault is assumed to happen or to stop.

### Finding

`dns_refused`: `main()` stops NetworkManager and the resolver, then refuses
`set-global` when Unbound is not the current resolver by returning (line 248),
without the start at lines 267-268 and with exit status 0.  Line 224 promises
"Your connection will be reset".  It takes a menu opened under Unbound, a switch
to systemd-resolved from another terminal, then option 4.

### Proofs

`DnsSelectorProofs.tla`, for any set of sessions, any subset of the requests and
any faults:

* `TypeCorrect`: `Spec => []TypeOK`, overlapping workers included.
* `ScriptCorrect`: `Spec => []ScriptInv`.  `OneResolverEnabled` is not
  inductive: `enable` at the end of `set_resolver` is safe only because the
  other resolver was masked, or lost its link, eight calls before, and because
  nothing in between undoes that.  `StepInv` says, for each step, what earlier
  steps have established: the mask of systemd-resolved during `SetUnbound`, the
  missing link of dnsconfd during `SetResolved`, the removed policy files before
  it, the answer of `get_current` during `set-global`.  The proof has one lemma
  per group of steps and one for the other actions.
* `NeverTwoResolvers`, `ResolvedWithoutPolicy`: the two consequences under
  `Serial`.
* `SelectorImplementsSwitch`: the refinement under `Serial`; `OneThingAtATime`
  shows that a step changes one resolver or the policy, `StepMaps` maps it.

`DnsNetworkProofs.tla` adds what runs, with the inductive `ResolverInv`
(`NetworkCorrect`): a resolver that runs, left by whatever failed or was cut short,
is the one that `get_current` will name, so that the next worker's stop finds it;
and each step of a worker knows what it has stopped and what `get_current` has
answered it so far.

* `NeverTwoActive`: `OneResolverActive` under `Serial`.  `OneResolverEnabled` does
  not give this: it is about links, and a unit runs on when its link is removed.
* `AlwaysOffline`: `ConfiguresOffline` under `Serial`.
* `UndisturbedRunsSucceed`: under `Serial` and without faults no worker ever fails
  (`UndisturbedRunSucceeds`; what `LoneRunSucceeds` says where others overlap is
  model-checked only).  `SmoothInv` says why no call is refused: what is to be enabled has been
  unmasked, a file is there when its mode is set, and outside `set_resolver` one of
  the resolvers is enabled, so that the one `get_current` names can be started.

`DnsRepairProofs.tla` proves `CompletedRunRepairs` (`RunsRepair`) with no
assumption but those on the constants: overlapping workers and any faults
included.  `RepairInv` speaks of the worker that is `alone`: no other runs, and
whatever it has found, unit by unit and file by file all that its request asks for
up to its current step has been done and stands.

The constants' assumptions (`RequestsAssumption`, `SerialAssumption`,
`FaultsAssumption`) only give their ranges.  Model-checked only:
`LoneRunSucceeds` where workers overlap, and `WorkerRestoresNetwork`: liveness is
out of the prover's reach.

## 4. The update pipeline

### Model

`UpdatePipeline.tla` has one registry tag and one machine with three actors:

* `boot`: `desktop:upgrade-on-boot` with the `ExecCondition` of its unit
  (`BootCondition`), `bootc upgrade --check` or `system-update-available`
  (`BootCheck`), verification, upgrade, and the reboot (`BootStatus`).  It runs
  before the login screen; `Cancel` is Q on the splash.
* `timer`: `bootc-upgrade.service`, or `rpm-ostreed-automatic.service` with
  secureblue's drop-ins: `ExecCondition` (`TimerSkips`), `ExecStartPre`
  (`Verify`), `ExecStart` (`Upgrade`), `ExecStop` (`Stamp`), then, on composefs,
  `bootc-status.service` (`Truncate`, `Refresh`).  `starts` counts towards
  `StartLimitBurst`.
* `user`: `update_system.py`.

`machine` never changes: its `Backend` is the deployment system, `composefs`,
`ostree`, or `layered` (ostree with local packages, where `upgrade-on-boot`
takes its other branch), its `Faults` what may go wrong.  `tag`, `booted`,
`staged` are images; `cache` is `/run/bootc/status.json`, with `missing` for a
file not written yet or just truncated, which its readers treat alike;
`verified[a]` is the image that actor `a` verified in its current run; `old` and
`always` are what the `ExecCondition` tests; `notifier`, `recent` and `told` are
the notification script, its stamps of today, and the image that was staged when
the user was last notified since the boot; `splash` is the boot splash.

External, modelled from how the code uses it: what an upgrade leaves staged
(`Fetched`), a shutdown finalising the staged deployment (`Reboot`), a power cut
losing it (`PowerCut`), the registry and the clock.  `Update` says what each
image brings, as rpm-ostree's cached update reports it.

Abstractions: an upgrade is one step, since a call that stops half-way leaves
nothing staged; calls that conflict fail like calls without a network; an image
that is still installed as the rollback deployment is treated as new by the
check; the notification that `update_system.py` starts and the one the path unit
starts are one script that does not overlap itself.  `StampsRead` is a constant
because the script reads its stamps with `$(2>/dev/null <file)`: bash 5.2 reads
a file only for a `$(<file)` with no other redirection, and finds this one
empty, so that the once-a-day limit has no effect there, and `recent` stays empty.  The
runs have both values.

The verified image and the staged one may differ, since the tag is resolved
once by the verification and again by the upgrade: `OnlyVerifiersStage` speaks
of the run that stages, not of the image.

### Runs

| Run | Instance | Question |
|---|---|---|
| `update_safety` | each backend with failing calls and power cuts, and composefs without power cuts | `TypeOK`, `OnlyVerifiersStage`, `NoRebootLoop`, `StatusFileTrue`; `LoginReached` without power cuts |
| `update_live` | composefs and ostree, no fault, fair | `UpdateArrives`, `StatusFileCatchesUp` (composefs), `UrgentIsAnnounced` (ostree) |
| `update_notice` | composefs, no fault | violated: `NotifiesUnconditionally` |
| `update_failure` | every backend, failing calls | violated: `FailureIsShown` |

Bounds.  Three images and `MaxMoves` = 2 moves of the tag: an image can be
staged, superseded by another before the reboot, and the tag can return to the
one that is booted or staged.  The third image cannot be verified in
`update_safety`.  One image brings nothing,
one a critical advisory hidden among low ones, one a kernel and an advisory of
unknown severity.  `starts` is bounded by the code itself.  The violations need
one move.

Fairness.  `FairSpec` lets live processes run on (weak fairness of the boot's
and the timer's steps, of the status service and of the notification script)
and days pass.  The timer is started again and again, whenever systemd's limit
allows it, and not always on a metered connection (strong fairness of
`TimerStart`: it is disabled while the service runs or the limit is reached).
Nothing is required of the user, who may reboot at any time; the properties
therefore speak of a machine that is left running.  A notification that is left
open for ever keeps every later one from coming, since the script waits for it:
`UrgentIsAnnounced` therefore has a condition, that the user closes notifications
(again and again none is open), which is no fairness of the code's and only
that property's.  Without it TLC finds an image staged while the first
notification is open, and never announced.  With it, each urgent image is
announced itself, not only the first since the boot.  Liveness is checked without
power cuts, and but for `LoginReached` without failing calls: a registry that
never answers delivers nothing.

### Findings

* `update_notice`: `bootc-upgrade.service` writes the stamp in `ExecStop` (line
  19); the path unit of the session starts the notification on it; the status
  file it reads is refreshed later, by `OnSuccess=bootc-status.service` (line
  12).  `security-update-notification:37` says "If there's been a bootc/composefs
  upgrade, then unconditionally notify."  The user learns of the image after the
  next run of the timer at the earliest.
* `update_failure`: `set -euox pipefail` ends `upgrade-on-boot` at a failing
  upgrade (lines 35, 62, 95); the message of line 7, "Update failed, booting
  existing deployment...", is never shown.

### Proofs

`UpdatePipelineProofs.tla`, for any images, any machines and any number of
moves of the tag, from the named assumptions on the constants
(ranges only).  The inductive invariant `PipelineInv` joins the types to three
facts: an actor at its upgrade has verified (`UpgradersVerified`), what is
staged is not what is booted, and `StatusFileTrue`.  `NoRebootLoop` is not a
consequence of `BootStatus` alone, which tests only that something is staged: it
needs the second fact, which every upgrade by every actor must keep.

* `TypeCorrect`, `StatusFileIsTrue`: invariants.
* `BootsAdvance`, `VerifiersStage`: the action properties `NoRebootLoop` and
  `OnlyVerifiersStage`.

Model-checked only: the liveness properties.

## 5. The auditor

### Model

`Auditor.tla` is the framework of `auditor/__init__.py` and the program around it
in `audit_secureblue.py`.  `queue` is `Audit.checks`, filled by `@audit` as the
program is imported: `AddCheck`, or `RefuseCheck` (`DependencyError`).  The order
in which the decorators stand is left open, so that the properties also hold of
a source in which a check has moved.  `Configure` and `BadConfig` are `main()`.
Each check then takes its turn: `Skip`, or `Begin`, `SetKeys` (it has looked at
the machine and left its facts in `Audit.state`), any number of `Yield`s, and
`Finish`; or, at any point, `Raise`, and `MissesKey` when it reads a fact that is
not there.  `Error` is the difference between the two ways of running: `run()`
hands the exception to its consumer and goes on, `run_json()` lets it end the
program.  `checkRecs` and `recs` are `Check.recs` and `Audit.recs`.  `End` prints
the recommendations; `Interrupt` is Ctrl-C.

A check either reads a key before its first report or on some machines not at
all; so `SetKeys` is always possible and `MissesKey` only without the key.  What
`Reads`, `Writes` and `Deps` must satisfy, that a check reads only keys its
dependencies write, is `KeyAssumption`.

Abstractions: what a check inspects is any reports in any number; a
recommendation is represented by its report, so the merging of equal ones in
`_print_recs` is left out; an expectation names a check instead of the wording
of a report.

### Runs

The instance is four of the program's checks with their real dependencies and
keys: container user namespaces, modprobe, ptrace, and flatpak permissions,
which depends on the last two and has two categories.

| Run | Instance | Question |
|---|---|---|
| `audit_reports` | 2 reports per check, fair | `DependenciesFirst`, `KeyErrorExplained`, `AuditIsComplete`, `Ends` |
| `audit_advice` | the same | violated: `AdviceIsShown` |

`AuditIsComplete` is about the audit's end: all checks dealt with, the advice of
those that went well printed, a status that tells of the others; in JSON, where a
check that raises ends the program, the advice of all that was printed, and no
status 0 before the last check.

Bounds.  A chain of two dependencies and a check with two of them occur in the
program no longer than here.  `MaxReports` = 2 lets a check raise between two
reports; the checks that do not depend on each other only repeat each other.
The user skips nothing, one check that others depend on, or a category; root
adds one.

Fairness.  `FairSpec` has weak fairness of the run's steps: the event loop runs
on and the programs that checks start end, which the code assumes (no call has a
timeout).

### Findings

* `audit_advice`: `Audit.run` "Runs each stored check, prints their reports, then
  prints their recommendations." (line 345).  When a check raises after it has
  reported, its recommendations are never added to the audit's (line 359):
  `checkRecs` is emptied by `Error`.  So one application that is uninstalled while
  the audit runs costs the user the advice for all those reported before it.
* Not a run: `add_check` says "'{check.name}' requires '{dep}' to be run first" (line 340),
  but skipping looks at a check's own name and categories only: with `--skip
  audit_modprobe` the flatpak audit ends in a `KeyError` (`MissesKey`), which
  `KeyErrorExplained` allows.

`Omitted` shows that the `expected` table of the configuration does nothing
in JSON: `run_json` runs the checks without it (line 374).

### Proofs

`AuditorProofs.tla`, for any checks, dependencies, keys, skipped names and
expectations, from the named assumptions of `Auditor`.  The inductive invariant
`AuditInv` joins the types to: the queue holds each check once, its dependencies
before it (`Ordered`); the checks dealt with are those before `next` (`Dealt`); a
check that is done or reporting has left its keys (`FactsLeft`); and where each
recommendation is (`Kept`, `Ended`).  `DependenciesFirst` needs the first two
together; `KeyErrorExplained` is preserved only because of all three.

* `TypeCorrect`, `DependenciesComeFirst`, `KeyErrorsExplained`,
  `AuditsComplete`: the invariants of `audit_reports`.

Model-checked only: `Ends`.

## 6. Toggles, policies and keys

### Model

Eighteen programs have one shape (`bluetooth_main.py` with `inner/bluetooth.py`
is the shortest): an unprivileged half reads the machine, says "already" or asks
for a password; a worker then makes a fixed sequence of calls.  So there is one
state machine, `Script`, and the programs are its data.

A machine is a set of facts ("the file exists", "the unit is masked", "the key
is in db").  A call (`Calls.tla`) is a record: what must hold for it not to raise
(`need`), its clauses (`does`), what the script saw earlier that rules it out
(`seen`, from the last `look`), and what the script takes back when it fails
(`undo`, the `userdel` of `inner/admin.py`).  A program is the facts it is about,
the machines it may find (`start`), for each mode when it says "already", its
calls and its goal, what other things do to these facts (`outside`, containers
for instance), what a boot does, and the machines on which `audit_secureblue.py`
advises it (`audit`).

`Script.tla`: each session has a `mode`, the number `at` of calls it has made,
and the calls it will `skip`.  `SayAlready` and `Start` are the first half;
`Start` ends where the password prompt begins, so any number of other runs may
come between what it read and its first call.  `Call`, `Finish` and `Raise` are
the worker (`Raise`: the call cannot do what it should on this machine);
`GiveUp` is a refused password, a call that fails for its own reasons, or a kill;
`Outside` and `Reboot` the rest of the world.  `touched`, `wish`, `met` and
`clash` are history variables: has anybody else changed the machine during a
run, before its first call or after; what everybody has asked for since the
machine was last in order; has somebody gone through since then; have two runs
ever been mixed.

| Operator | Code |
|---|---|
| `Bluetooth`, `Webcam`, `Dhcp` | `*_main.py` and `inner/*.py`: a file that is opened, written, made readable, and units |
| `Cups` | `set_cups.py`, `inner/cups.py`: enabled, masked, avahi, reload |
| `Brew` | `desktop:brew_main.py`, `inner/brew.py`; systemd-tmpfiles opens the directory again at boot |
| `ModuleOverride` | `override-enable-module`, `override-reset-module` |
| `Xwayland`, `UpgradeOnBoot`, `Flathub` | one file, one stamp, one remote |
| `Libvirt` | `set_libvirt_daemons.py`: all, none, or the difference between a dialog and what was read before it |
| `KargsOstree`, `KargsUki` | `set_kargs_hardening.py`, `shared/kargs_hardening.py`, `inner/set_kargs_uki.py`, `remove_kargs_hardening.py`, the nvidia scripts |
| `Unconfined`, `Containers` | `set_unconfined_userns.py`, `set_container_userns.py`, `set_ptrace.py`, `desktop:enable_dangerzone.py` |
| `CreateAdmin` | `create_admin.py`, `inner/admin.py` |
| `PlatformKey`, `MachineOwnerKey` | `enroll_secure_boot_keys.py`, `inner/secure_boot.py`, `shared/secure_boot.py` |
| `DiskUnlock` | `luks-enable-*`, `luks-disable-*` |

External: systemd, NetworkManager, semodule, rpm-ostree, firmware and
MokManager, modelled from how the code calls them.

Abstractions.  The questions a program asks are reduced to the modes that can
come of them.  libvirt's single `systemctl` call is modelled per daemon, so that
it may stop anywhere in between.  Two of the daemons and six of the kernel
arguments stand for all.  Certificates are equal or not.  The last step of the
LUKS scripts, `rpm-ostree initramfs`, changes none of the facts.  The one line of
crypttab is as the installer wrote it, names the FIDO2 device, or has another
form; the last is left as it is by `sed`, silently (`EditCrypttab`), so that the
goal of `fidoOn` is only that the line is not the installer's any more: on such a
machine the script says that all is configured, and the device is not in
crypttab.  systemd-tmpfiles
at boot, the commands of containers and the beta remote are the `outside` and
`boot` of their programs.

### Properties and runs

| Run | Instance | Question |
|---|---|---|
| `scripts` | every program in turn, 2 terminals, failing calls, kills, reboots | all of the below |
| `luks_follow_up` | the LUKS scripts, 1 terminal | violated: `FidoStaysConfigured` |

* `CompletedRunSets`: a run that ends with status 0 and whose calls nobody has
  come between leaves what was asked, whatever it found, however stale what it
  had read before its first call, and whatever a look then ruled out.  It says
  nothing of runs that were mixed: the libvirt dialog's difference and the
  containers stopped before the policy changes are safe only from changes that
  come before the run's first call.
* `SameWishAgrees`: sessions that all ask for the same do not break it for each
  other, though one of them may fail to remove a file that is gone.
* `AlreadyIsSet`: "already" is true, after any runs cut short and while one is
  under way, as long as two have not been mixed.  The eight programs of `HalfTold`
  are left out: they tell from the first of several writes, so a run that was cut
  short can make them say "already" too early.  For containers it is about the
  user's own: `podman stop --all` and `killall` reach no others, and when another
  user's catatonit is seen, `set_container_userns.py` asks for a reboot, sets the
  policy and ends with status 0 (`StopContainers`; `"theirs"` then runs on until
  the boot).
* `AlwaysRepairable`: those included, the user can get either side by running
  the program, by way of another mode if need be.  `OutOfReach` lists what this
  cannot repair: a beta remote counts as unfiltered; a user that is left behind
  when `create_admin.py` is killed blocks its name; a unified kernel image has no
  add-on with nvidia's arguments, so `set_kargs_nvidia.py` exits with status 1.
* `AdviceWorks`: what the audit advises has work to do, succeeds, and after a
  boot the warning is gone.
* `NeverHarmed`: the firmware leaves Setup Mode only with all three keys;
  somebody in wheel can log in; no foreign boot loader is overwritten.

Bounds.  Two terminals: a run sees others only through the machine, and two
suffice for a run to be overtaken before its first call and between calls.
Three users let an administrator be made by one who was.  The facts are finite;
nothing is capped.  No fairness is assumed, since these are properties of
states and steps.  Deadlock is checked.

### Finding

`luks_follow_up`: `luks-enable-fido2-unlock.sh` saves the crypttab *before* it
names the FIDO2 device there (line 107), and ends with "Your system is now
configured to use FIDO2 unlocking via the hardware key you used earlier. If you
previously used TPM luks unlocking, ensure you run 'ujust
remove-luks-tpm-unlock'." (line 136).  That script moves the saved copy back,
whoever made it, and the FIDO2 device is out of crypttab again.  A second FIDO2
enrolment overwrites the saved copy with one that names the device.

### Proofs

`ScriptProofs.tla`, for any programs and any set of terminals.  What it needs to
know of the programs are assumptions about their text, which TLC evaluates for
the eighteen: a program that is wrong makes one of them false, an error in how
scripts are run (a worker that goes on after an error, a skipped call counted as
made) breaks the proof.

* `ProgramAssumption`: the descriptions fit together.
* `SteadyAssumption`: for each part of each goal some call `Leaves` it whatever
  the machine, or because of what earlier calls have assured, or is left out only
  when it holds (`Bound`: on no machine that the program can come to does the look
  rule the call out and the part not hold); and no later call undoes it.
* `AgreeingAssumption`: every mode `CommitsAt` one of its calls: until then it
  undoes nothing of its goal, and from then on each call finds what it needs, even
  if others make the same calls.

The inductive invariants:

* `RunInv`: on an undisturbed run, what its calls have settled is so, and what a
  look has ruled out was so and still is.  The second part is what the programs
  that act on what they have seen need (libvirt's difference between two lists,
  the boot loader's second copy); it needs `BoundInv` about the machine.
* `WishInv`: of each part of what all ask for, either it holds or some session
  past its point of no return is still to settle it (`Covered`).  So it holds when
  nobody runs, though along the way each of them may have undone it.
* `LinkInv`: while no two runs have been mixed, a fact that a program tells from
  lets a part of the goal be concluded, since the call that makes the fact true
  comes when its own run has settled that part (`Linked`).

The theorems: `TypeCorrect` (`TypeOK`), `CompletedRunSetsHolds`
(`CompletedRunSets`), `WishesAgree` (`SameWishAgrees`).

`HostProofs.tla` has `AlreadyIsTrue` (`AlreadyIsSet`), from `LinkInv` and
`ToldAssumption`: what each program outside `HalfTold` looks at is linked to every
part of its goal.

It proves `NeverHarmed` (`NobodyIsHarmed`) for the programs of
`HostScripts` on any number of terminals.  It first reads the workers as they
stand (`PlatformCalls`, `MachineOwnerCalls`, `AdminCalls`: which call writes which
key, looks, copies, and what each may take back), then strengthens each of the
three facts:

* `KeysInv`: a run that has made three calls has left db, six calls KEK, and no
  run takes them away; so the ninth, which ends Setup Mode, finds both.
* `LoaderInv`: the second copy is somebody else's from the start or not at all,
  so every run that has looked has ruled out its own copy, however long ago it
  looked and whoever has enrolled since.  It needs `RunInv` of `ScriptProofs` for
  the calls that no look rules out.
* `AdminInv`: a run that has created its user is the only one to have created it,
  the user has a password after the third call and not before; so what a failing
  `passwd` takes back is never an account that somebody could log in with, and
  `gpasswd -d` comes when the new administrator is complete.

`NeverHarmed` is not inductive for any of the three.

Model-checked only: `AlwaysRepairable` and `AdviceWorks`.  They speak of what a
whole run would do (`Run` folds the worker's calls), and what a fold computes
takes induction over data.

## 7. Flatpak permissions and overrides

### Model

`FlatpakAudit.tla` has the checks of `audit_flatpak/` as operators from
permissions to findings.  Permissions are a function from keys to values; a key
is a sequence, the category and then the components of a path or the words of a
bus name, so that prefixes mean what they mean in the code.  A finding is what
the check is about, its status, and the override that its recommendation sets.
`CanonPath` are the aliases of `filesystem.py`; `Dictionaries` the dictionary
that keeps one of two names of a directory, depending on flatpak's order.

`FlatpakOverrides.tla` has one app, its manifest, the two override files, and
those who write them: `HardenAll` and the four steps of `harden_flatpak.py` for
one app (read the global overrides, read the app's file, write it back without
what is in the way, call `flatpak override`), the lists of
`flatpak-permissions-lockdown` one after the other, `ResetGlobal`, the user who
follows one piece of advice, and the user or Flatseal setting something else.
The steps interleave, and the programs may be killed.  `calm` and `done` are
history variables: what is under way undisturbed, and what has ended so with no
edit or reset since.

External: flatpak, which merges overrides over the manifest (`Merged`).

Abstractions.  Five of the aliases stand for twelve, no table naming the others; the lists of the lockdown
are taken two at a time, and of their bus names those that the audit's table
knows; values of `LD_PRELOAD` are this machine's library, the same in another
directory, the light one, and another; apps other than this one keep their own
overrides.  An app with `host` is still told to have `host-os`, as in the code.
A second reset overwrites the first `global.save`, which nothing reads.

### Run

| Run | Instance | Question |
|---|---|---|
| `flatpak` | seven apps, 4 edits, `MaxEdits` = 2 | all of the below |

* `HardenSilences`: what `harden_flatpak.py` has hardened, the audit takes for
  hardened, in whatever order the global and the app's own overrides came about.
* `HardenKeepsOverrides`: the file it writes back loses nobody else's override,
  unless somebody writes it between the read and the write.
* `LockdownSuffices`: the shell script's lists cover the audit's Python table.
* `AdviceIsNotRepeated`, `AdviceSuffices`: the option that is advised sets the
  entry that the check looks at; all of a report, followed twice where a
  directory is named twice, leaves nothing worse than a note.  With one exception
  (`ReadOnlyByOneName`): an app that has the overrides' directory read-only by one
  name and writable by another is reported or not as flatpak lists the two, and a
  user who follows two reports may be told of it only in a third.

Bounds.  Each app asks for entries of several tables, three of them for one
directory under two names.  `MaxEdits` counts edits, resets and pieces of advice
that are followed; one can undo what a program did and one what a program relies
on.  The two properties of the advice look at states with no program under way,
and every state of the overrides is also one of those.  No fairness.

### Proofs

`FlatpakProofs.tla`, for any apps and manifests, any edits and any number of
them; `InstalledAssumption` and `EditsAssumption` only give the constants'
ranges.  The inductive invariant `HardenInv` joins the shape
of the variables to `RunInv` (what a run has read in the global overrides is
still granted there, what it read of the app is still there, and after the
rewriting nothing is in its way) and `DoneInv` (what is hardened is so by its own
file or by the global one, and so would be the file that a run is about to
write).  `HardenSilences` alone is not inductive: the lockdown and the advice
write the same files, and the proof needs that none of their entries is one of
the two (`ListsMiss`, `FlatsealMisses`, `AdviceOnHostOs`).

* `HardenedIsSilent`: `HardenSilences`.
* `OthersKept`: `HardenKeepsOverrides`.
* `TypeCorrect`: `TypeOK`, with the shape of the file that a hardening run holds in
  its hands (`TypeInv`).
* `LockdownIsEnough`: `LockdownSuffices`.  `LockdownInv`: the lists that an
  undisturbed lockdown has gone through are denied in the global overrides, and
  the hardening of all apps, which writes the same file, grants none of them
  again.  `TablesAgree` compares the tables: every permission of the audit's
  is on one of the script's first two lists.

* `AdviceIsForGood`: `AdviceIsNotRepeated`, a consequence of `TypeOK`, for any
  overrides whatever.  `WhatIsReported` and `ItIsReported` say what a report
  holds, check by check; `WhatIsAdvised`, that advice is one of three kinds
  (`Advice`); `GrantedAfter`, `PermissionsAfter`, `BusesAfter` and `LibraryAfter`,
  what is granted when such advice is set over it.  The dictionary of the report
  before is rebuilt from that of the report after (`NothingNewIsReported`), since
  flatpak may list the entries in another order.
* `AdviceIsComplete`: `AdviceSuffices`.  An entry that a third report complains of
  has been there all the time, and so have the two that were denied; three names
  of one directory are one too many (`TwoNames`: the canonical one and an alias,
  by the table of aliases).  The exception above was met in this proof: the
  overrides' directory is the only one that is looked at for how it is granted.

Keys are sequences of any words (`IsKey`), so that none of this depends on which
applications, paths and bus names there are.  All invariants are proved.

## 8. Not modelled

* First-boot services (`securebluecleanup`, `desktop:secureblueflatpaksetup`):
  one sequential script each, that systemd starts again until it has gone
  through.
* `toggle-mac-randomization` and `toggle-bash-environment-lockdown`: they cannot
  be asked for one side or the other, each turns round what it finds.  (So a
  lockdown that was cut short in `chattr`, after `.bashrc`, is undone by the
  command that the audit advises for it, `audit_secureblue.py:1172`.)
* The checks of the LUKS scripts before their first change, and the last step,
  `rpm-ostree initramfs`.
* `rebase-secureblue`.
* The checks of `audit_secureblue.py` that no program answers: each reads one
  thing and prints; what can go wrong between checks is in `Auditor`.
* `audit_flatpak_remotes`, the choice of a microarchitecture, finding an app's
  full name, environment variables that an override unsets, and
  `ELECTRON_OZONE_PLATFORM_HINT`.
* The scripts that build the image (`files/scripts`, `uki`, `recipes`,
  `modules`), which run once and leave nothing behind when they fail; static
  configuration and SELinux policy; translations; scripts that print or start
  one command (`bios.py`, `clean-system`, `*notify`).

Met while modelling: an app with the overrides' directory under two names is
judged by the one that `flatpak info` lists last (`audit_flatpak/filesystem.py:233`,
section 7).  And, covered by no property: the severities of
`security-update-notification:73` are compared as numbers, so that one that is
unknown (0) counts less than a low one; `audit_secureblue.py:132` sets the status
of the sysctl check to a warning though it may have failed before, and line 1243
prints the status of the wrong unit; `remove_kargs_hardening.py` cannot remove
the arguments in a unified kernel image; the audit advises enabling timers of
Homebrew that may be masked.
