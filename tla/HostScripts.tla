---------------------------- MODULE HostScripts ----------------------------
(***************************************************************************)
(* Properties of the programs of Toggles, Policies and KeyScripts beyond   *)
(* those that hold of any script: what a half-done run leaves behind, what *)
(* the audit's advice is worth, and states no machine may be in.           *)
(***************************************************************************)
EXTENDS Script, Policies, KeyScripts

Programs ==
  [bluetooth     |-> Bluetooth,     webcam       |-> Webcam,
   dhcp          |-> Dhcp,          cups         |-> Cups,
   brew          |-> Brew,          xwayland     |-> Xwayland,
   upgradeOnBoot |-> UpgradeOnBoot, flathub      |-> Flathub,
   libvirt       |-> Libvirt,       kargsOstree  |-> KargsOstree,
   kargsUki      |-> KargsUki,      unconfined   |-> Unconfined,
   containers    |-> Containers,    createAdmin  |-> CreateAdmin,
   platformKey   |-> PlatformKey,   machineOwnerKey |-> MachineOwnerKey,
   diskUnlock    |-> DiskUnlock,    moduleOverride |-> ModuleOverride]

-----------------------------------------------------------------------------
(* A whole run, on a machine that nobody else changes.                      *)

Made(run, c) ==
  IF run.failed \/ ~Holds(c.seen, run.saw) THEN run
  ELSE IF ~Holds(c.need, run.machine) THEN [run EXCEPT !.failed = TRUE]
  ELSE [run EXCEPT !.machine = Effect(c.does, @), !.saw = IF c.look THEN run.machine ELSE @]

Run(md, m) == FoldLeft(Made, [machine |-> m, saw |-> m, failed |-> FALSE], this.worker[md])

\* The program, asked for md, does something, and exits with status 0.
Works(md, m)   == (\A p \in this.already[md] : ~Holds(p, m)) /\ ~Run(md, m).failed
Reaches(md, m) == Works(md, m) /\ Holds(this.goal[md], Run(md, m).machine)

-----------------------------------------------------------------------------

\* Whether these are set is told from the first of several writes (or, for the machine
\* owner key, from something other than what the program sets).
HalfTold == {"bluetooth", "webcam", "moduleOverride", "dhcp", "brew", "flathub", "createAdmin",
             "machineOwnerKey"}

\* What all other programs look at before they say that there is nothing to do lets each fact
\* of their goals be concluded.
ASSUME ToldAssumption ==
  \A n \in DOMAIN Program \ HalfTold : \A md \in DOMAIN Program[n].worker :
    \A a \in Program[n].already[md] : \A l \in Parts(Program[n].goal[md]) :
      l \in Parts(a) \/ \E k \in Parts(a) : Linked(Program[n], k, l)

(***************************************************************************)
(* They are right, with whatever runs cut short, at whatever call, before, *)
(* and whatever runs now, as long as two have not been at it at once:      *)
(* enroll_secure_boot_keys.py, which asks only for the Platform Key,       *)
(* writes it last; set_cups.py masks after it has disabled; namespaces are *)
(* forbidden to containers after the user's own have ended (those of       *)
(* others run on until the reboot that the program asks for).              *)
(***************************************************************************)
AlreadyIsSet ==
  ~clash /\ name \notin HalfTold => \A md \in Mode : Already(md) => Goal(md)

\* What running the program does not repair: a remote of the user's own that counts as
\* unfiltered, a user whose creation was cut short, an add-on that is not in the image.
\* (A machine owner key that is enrolled needs no repair.)
OutOfReach(md) ==
  \/ name = "flathub" /\ "beta" \in machine
  \/ name = "createAdmin"
  \/ name = "kargsUki" /\ md = "nvidia"
  \/ name = "machineOwnerKey" /\ "mok" \in machine

(***************************************************************************)
(* From whatever runs cut short have left, the user can have either side   *)
(* of a toggle by running the program: once if it does not say "already",  *)
(* and by way of another mode if it does, though the state was half-set.   *)
(***************************************************************************)
AlwaysRepairable ==
  Quiet => \A md \in Mode :
    \/ Goal(md) \/ OutOfReach(md)
    \/ Reaches(md, machine)
    \/ \E other \in Mode : Works(other, machine) /\ Reaches(md, Run(other, machine).machine)

(***************************************************************************)
(* Where audit_secureblue.py warns, the command that it advises has work   *)
(* to do, does not fail, and after it, and a boot, the warning is gone:    *)
(* what the audit and the toggle take for hardened agree, on machines that *)
(* half-done runs have left too.                                           *)
(***************************************************************************)
Warns(md, m) == \E p \in this.audit[md] : Holds(p, m)

AdviceWorks ==
  Quiet => \A md \in DOMAIN this.audit :
    Warns(md, machine) =>
      Works(md, machine) /\ \A C \in this.boot : ~Warns(md, Effect(C, Run(md, machine).machine))

(***************************************************************************)
(* States that no crash, and no other session, may bring about.  The       *)
(* firmware leaves Setup Mode only with all three keys.  Somebody is an    *)
(* administrator who can log in: inner/admin.py takes nobody out of wheel  *)
(* before the new one has a password.  A boot loader of somebody else's is *)
(* not overwritten.                                                        *)
(***************************************************************************)
NeverHarmed ==
  /\ name = "platformKey" /\ "setup" \notin machine => {"db", "KEK", "PK"} \subseteq machine
  /\ name = "createAdmin" => \E u \in User : Account(u) \subseteq machine
  /\ name \in {"platformKey", "machineOwnerKey"} => ~({"boot other", "boot copied"} \subseteq machine)

(***************************************************************************)
(* luks-enable-fido2-unlock.sh tells the user that the system "is now      *)
(* configured to use FIDO2 unlocking" and to remove the TPM2 key slot with *)
(* remove-luks-tpm-unlock: after a run that has gone through (the recovery *)
(* key is made last) this leaves the FIDO2 device in crypttab.             *)
(***************************************************************************)
FidoStaysConfigured ==
  [][\A s \in Session :
       mode[s] = "tpmOff" /\ (Call(s) \/ Finish(s)) /\ {"fido2", "tab", "recovery"} \subseteq machine
         => "tab" \in machine']_vars
=============================================================================
