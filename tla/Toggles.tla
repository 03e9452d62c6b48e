------------------------------ MODULE Toggles ------------------------------
(***************************************************************************)
(* The toggles of hardware, services, desktop, libvirt and kernel          *)
(* arguments, as descriptions for Script.  Each has two halves in the      *)
(* source: what it reads and says, and the calls of its worker.            *)
(*                                                                         *)
(* A description's `audit` gives the advice of audit_secureblue.py: the    *)
(* mode that it tells the user to run, and on which machines.              *)
(***************************************************************************)
EXTENDS Naturals, Sequences, FiniteSets, SequencesExt, Calls

NoAudit   == [md \in {} |-> {}]
NoOutside == {}
NoBoot    == {{}}

OnOff(a, b) == [md \in {"on", "off"} |-> IF md = "on" THEN a ELSE b]

-----------------------------------------------------------------------------
(* A file under /etc is created by open(), filled by write(), and made      *)
(* readable by chmod(); os.remove raises if it is not there.  chmod() does, *)
(* too; what is written to a file that has been removed is lost, so that    *)
(* the model stops at the write.                                            *)

Written  == {"file", "text", "readable"}
IfThere(c) == Needs(c, On({"file"}))

WriteFile  == <<Do({"file"}, {"text"}), IfThere(Put("text")), IfThere(Put("readable"))>>
RemoveFile == <<IfThere(Do({}, Written))>>

\* Enabling a masked unit fails.
Enable == Needs(Put("enabled"), Off({"masked"}))

BluetoothWorker ==
  OnOff(WriteFile \o <<Drop("masked"), Enable>>,
        RemoveFile \o <<Drop("enabled"), Put("masked")>>)

\* The override lets the modules be loaded; the unit is masked in the image.
Bluetooth ==
  [facts   |-> Written \cup {"masked", "enabled"},
   start   |-> {{"masked"}},
   already |-> OnOff({On({"file"})}, {Off({"file"})}),
   worker  |-> BluetoothWorker,
   goal    |-> OnOff(Both(Written \cup {"enabled"}, {"masked"}), Both({"masked"}, {"file", "enabled"})),
   outside |-> NoOutside, boot |-> NoBoot, audit |-> NoAudit]

WebcamWorker == OnOff(RemoveFile, WriteFile)

WebcamAudit == [md \in {"off"} |-> {Off({"file"})}]

\* The override keeps the module from being loaded, at the next boot.
Webcam ==
  [facts   |-> Written \cup {"loaded"},
   start   |-> {{"loaded"}},
   already |-> OnOff({Off({"file"})}, {On({"file"})}),
   worker  |-> WebcamWorker,
   goal    |-> OnOff(Off(Written), On(Written)),
   outside |-> NoOutside,
   boot    |-> {{Clause(On({"text"}), {}, {"loaded"}), Clause(Off({"text"}), {"loaded"}, {})}},
   audit   |-> WebcamAudit]

\* The shell scripts append to the file, and do not mind if it is gone already.
ModuleOverride ==
  [facts   |-> Written,
   start   |-> {{}},
   already |-> OnOff({On({"file"})}, {Off({"file"})}),
   worker  |-> OnOff(<<Put("file")>> \o Tail(WriteFile), <<Do({}, Written)>>),
   goal    |-> OnOff(On(Written), Off(Written)),
   outside |-> NoOutside, boot |-> NoBoot, audit |-> NoAudit]

-----------------------------------------------------------------------------
(* "applied": NetworkManager has been restarted since the file changed.     *)

RestartNM == Put("applied")
Unapplied(c) == [c EXCEPT !.does = {[x EXCEPT !.del = @ \cup {"applied"}] : x \in c.does}]

DhcpWorker ==
  OnOff(<<Unapplied(RemoveFile[1]), RestartNM>>,
        <<Unapplied(WriteFile[1]), Unapplied(WriteFile[2]), WriteFile[3], RestartNM>>)

Dhcp ==
  [facts   |-> Written \cup {"applied"},
   start   |-> {{"applied"}},
   already |-> OnOff({Off({"file"})}, {On({"file"})}),
   worker  |-> DhcpWorker,
   goal    |-> OnOff(Both({"applied"}, Written), On(Written \cup {"applied"})),
   outside |-> NoOutside,
   boot    |-> {{Clause(Always, {"applied"}, {})}},
   audit   |-> NoAudit]

-----------------------------------------------------------------------------
(* One systemctl call masks all units; avahi's are masked, never disabled.  *)

AllMasked == {"masked", "avahi masked"}
Reload    == Do({}, {})

CupsWorker ==
  OnOff(<<Do({}, AllMasked), Enable, Reload>>,
        <<Drop("enabled"), Do(AllMasked, {}), Reload>>)

CupsAudit == [md \in {"off"} |-> {Off({"masked"})}]

Cups ==
  [facts   |-> AllMasked \cup {"enabled"},
   start   |-> {AllMasked},
   already |-> OnOff({Both({"enabled"}, {"masked"})}, {On({"masked"})}),
   worker  |-> CupsWorker,
   goal    |-> OnOff(Both({"enabled"}, AllMasked), Both(AllMasked, {"enabled"})),
   outside |-> NoOutside, boot |-> NoBoot, audit |-> CupsAudit]

-----------------------------------------------------------------------------
(* "home": users can enter /home/linuxbrew; "blocked": the override that    *)
(* keeps systemd-tmpfiles from opening it again.                            *)

MakeHome == If(Off({"blocked"}), {"home"}, {})

BrewWorker ==
  OnOff(<<Drop("blocked"), MakeHome, Put("profile"), Put("completions"), Drop("masked")>>,
        <<Put("blocked"), Drop("home"), Drop("profile"), Drop("completions"), Put("masked")>>)

Shell == {"profile", "completions"}

Brew ==
  [facts   |-> Shell \cup {"home", "blocked", "masked"},
   start   |-> {Shell \cup {"home"}},
   already |-> OnOff({On({"home"})}, {Off({"home"})}),
   worker  |-> BrewWorker,
   goal    |-> OnOff(Both(Shell \cup {"home"}, {"blocked", "masked"}),
                     Both({"blocked", "masked"}, Shell \cup {"home"})),
   outside |-> NoOutside,
   boot    |-> {MakeHome.does},
   audit   |-> NoAudit]

-----------------------------------------------------------------------------
(* Toggles of one file, or of one remote.                                   *)

XwaylandAudit == [md \in {"off"} |-> {Off({"override"})}]

Xwayland ==
  [facts   |-> {"override"},
   start   |-> {{"override"}},
   already |-> OnOff({Off({"override"})}, {On({"override"})}),
   worker  |-> OnOff(<<Drop("override")>>, <<Put("override")>>),
   goal    |-> OnOff(Off({"override"}), On({"override"})),
   outside |-> NoOutside, boot |-> NoBoot, audit |-> XwaylandAudit]

StampWorker == OnOff(<<Put("stamp"), Put("stamp")>>, <<Drop("stamp")>>)

UpgradeOnBoot ==
  [facts   |-> {"stamp"},
   start   |-> {{}},
   already |-> OnOff({On({"stamp"})}, {Off({"stamp"})}),
   worker  |-> StampWorker,
   goal    |-> OnOff(On({"stamp"}), Off({"stamp"})),
   outside |-> NoOutside, boot |-> NoBoot, audit |-> NoAudit]

\* The user may have added the beta remote, which counts as unfiltered too.
Flathub ==
  [facts   |-> {"flathub", "beta"},
   start   |-> {{}},
   already |-> OnOff({On({"flathub"}), On({"beta"})}, {Off({"flathub", "beta"})}),
   worker  |-> OnOff(<<Put("flathub")>>, <<Needs(Drop("flathub"), On({"flathub"}))>>),
   goal    |-> OnOff(On({"flathub"}), Off({"flathub"})),
   outside |-> {Put("beta"), Drop("beta")},
   boot    |-> NoBoot, audit |-> NoAudit]

-----------------------------------------------------------------------------
(* libvirt: the units of some of the daemons, one that has a read-only      *)
(* socket and whose service is enabled, and one without.                    *)

Daemon == {"qemu", "lock"}

Units(kind, S)   == {<<d, kind>> : d \in S}
EnabledUnits(S)  == Units("service", S \cap {"qemu"}) \cup Units("socket", S)
                    \cup Units("ro", S \ {"lock"}) \cup Units("admin", S)
DisabledUnits(S) ==
  LET rest == Daemon \ S
  IN UNION {Units(k, rest) : k \in {"service", "socket", "admin"}} \cup Units("ro", rest \ {"lock"})

Monolithic        == <<"libvirtd", "socket">>
DisableMonolithic == If(On({Monolithic}), {}, {Monolithic})

EnableDaemon(d)  == Seen(Do(EnabledUnits({d}), {}), Off(Units("socket", {d})))
DisableDaemon(d) == Seen(Do({}, DisabledUnits(Daemon \ {d})), On(Units("socket", {d})))

Each(F(_), S) == [i \in 1..Cardinality(S) |-> F(SetToSeq(S)[i])]

\* The dialog shows what is enabled; the difference with what is ticked is applied.
PickWorker(S) ==
  <<DisableMonolithic, Look>> \o Each(EnableDaemon, S) \o Each(DisableDaemon, Daemon \ S)

Picks == [pickNone |-> {}, pickQemu |-> {"qemu"}, pickLock |-> {"lock"}, pickBoth |-> Daemon]

LibvirtWorker ==
  [on  |-> <<DisableMonolithic, Do(EnabledUnits(Daemon), {})>>,
   off |-> <<DisableMonolithic, Do({}, DisabledUnits({}))>>]
  @@ [md \in DOMAIN Picks |-> PickWorker(Picks[md])]

LibvirtGoal(S) == Both(EnabledUnits(S), DisabledUnits(S) \cup {Monolithic})

Libvirt ==
  [facts   |-> EnabledUnits(Daemon) \cup {Monolithic},
   start   |-> {{}, {Monolithic}},
   already |-> [md \in DOMAIN LibvirtWorker |-> {}],
   worker  |-> LibvirtWorker,
   goal    |-> [on |-> LibvirtGoal(Daemon), off |-> LibvirtGoal({})]
               @@ [md \in DOMAIN Picks |-> LibvirtGoal(Picks[md])],
   outside |-> NoOutside, boot |-> NoBoot, audit |-> NoAudit]

-----------------------------------------------------------------------------
(* Kernel arguments: two sets of answers to the three questions, the        *)
(* arguments that the image sets, nvidia's, and a group that is added by    *)
(* one answer.                                                              *)

Default  == {"pti=on"}
Unstable == {"oops=panic", "debugfs=off"}
Optional == {"nosmt=force"} \cup Unstable
Nvidia   == {"nvidia-drm.modeset=1"}
Karg     == Default \cup Optional \cup Nvidia

Configured(K) == {<<"set", k>> : k \in K}
Booted(K)     == {<<"booted", k>> : k \in K}

\* What each command asks apply_kargs to add; the rest of what it names is removed.
Answers  == [plain |-> {}, nosmt |-> {"nosmt=force"}, all |-> Optional, remove |-> {}]
ToAdd(md, defaults)    == Answers[md] \cup (IF md = "remove" THEN {} ELSE defaults)
ToRemove(md, defaults) == (Optional \ Answers[md]) \cup (IF md = "remove" THEN defaults ELSE {})

KargsGoal == [md \in DOMAIN Answers |->
  Both(Configured(Answers[md]), Configured(Optional \ Answers[md]))]

\* rpm-ostree does all in one transaction.
OstreeKargs(add, remove) == <<Do(Configured(add), Configured(remove))>>

\* Add-ons are copied and removed one by one, those that the image has; then all is checked.
UkiAvailable == Optional
Refuse == Check(Both(Configured({"none"}), Configured({"none"})))
UkiKargs(add, remove) ==
  (IF add \subseteq UkiAvailable THEN <<>> ELSE <<Refuse>>)
  \o Each(LAMBDA k : Put(<<"set", k>>), add) \o Each(LAMBDA k : Drop(<<"set", k>>), remove)
  \o <<Check(Both(Configured(add \ remove), Configured(remove)))>>

\* A boot takes what is configured; the arguments in a unified kernel image stay.
BootKargs(always) ==
  {{Clause(On({<<"set", k>>}), {<<"booted", k>>}, {}) : k \in Karg}
   \cup {Clause(Off({<<"set", k>>}), {}, {<<"booted", k>>}) : k \in Karg \ always}}

KargsAudit == [md \in {"all"} |-> {Off(Booted({k})) : k \in Default \cup Optional}]

KargsOstree ==
  [facts   |-> Configured(Karg) \cup Booted(Karg),
   start   |-> {Configured(Default) \cup Booted(Default)},
   already |-> [md \in DOMAIN Answers \cup {"nvidia", "removeNvidia"} |-> {}],
   worker  |-> [md \in DOMAIN Answers |-> OstreeKargs(ToAdd(md, Default), ToRemove(md, Default))]
               @@ [nvidia |-> OstreeKargs(Nvidia, {}), removeNvidia |-> OstreeKargs({}, Nvidia)],
   goal    |-> KargsGoal
               @@ [nvidia |-> On(Configured(Nvidia)), removeNvidia |-> Off(Configured(Nvidia))],
   outside |-> NoOutside,
   boot    |-> BootKargs({}),
   audit   |-> KargsAudit]

KargsUki ==
  [facts   |-> Configured(Karg) \cup Booted(Karg),
   start   |-> {Booted(Default)},
   already |-> [md \in DOMAIN Answers \cup {"nvidia"} |-> {}],
   worker  |-> [md \in DOMAIN Answers |-> UkiKargs(ToAdd(md, {}), ToRemove(md, Default))]
               @@ [nvidia |-> UkiKargs(Nvidia, {})],
   goal    |-> KargsGoal @@ [nvidia |-> On(Configured(Nvidia))],
   outside |-> NoOutside,
   boot    |-> BootKargs(Default),
   audit   |-> KargsAudit]
=============================================================================
