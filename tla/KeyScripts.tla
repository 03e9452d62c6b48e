----------------------------- MODULE KeyScripts -----------------------------
(***************************************************************************)
(* Secure Boot keys, the boot loader's copies, and the LUKS key slots, as  *)
(* descriptions for Script.                                                *)
(***************************************************************************)
EXTENDS Toggles

(* systemd-boot ("sd"), where it is used, has two copies.  The second,      *)
(* BOOTX64.EFI, equals the old version of the first ("boot copy"), has been *)
(* made equal to the new one ("boot copied"), or is somebody else's ("boot  *)
(* other").                                                                 *)

Loader  == {"sd", "sd new", "boot copy", "boot copied", "boot other"}
Loaders == {{"sd", "boot copy"}, {"sd", "boot other"}, {"boot other"}}

UpdateSystemdBoot ==
  <<Look,
    Seen(Put("sd new"), Both({"sd"}, {"sd new"})),
    Seen(Do({"boot copied"}, {"boot copy"}), Both({"sd", "boot copy"}, {"sd new"}))>>

-----------------------------------------------------------------------------
(* An EFI variable that exists is immutable until chattr has been called.   *)

\* Wrong: without chattr, only a variable that does not exist can be written.
WriteEfiWithoutChattr(write, immutable) ==
  <<Reload, Needs(write, Off({immutable})), Put(immutable)>>

WriteEfi(write, immutable) ==
  <<Drop(immutable), Needs(write, Off({immutable})), Put(immutable)>>

\* A key is enrolled if its certificate is in one of its variable's signature lists.
Enrolled(K) == On(K)

\* Setup Mode, which the enrolment of a Platform Key ends.
SetupMode  == On({"setup"})
InSetup(c) == Needs(c, Both(SetupMode.has, c.need.lacks))

EnrollEfiKeys ==
  LET Key(write, immutable) ==
        [i \in 1..3 |-> IF i = 2 THEN InSetup(WriteEfi(write, immutable)[2])
                                 ELSE WriteEfi(write, immutable)[i]]
  IN Key(Put("db"), "db immutable") \o Key(Put("KEK"), "KEK immutable")
     \o Key(Do({"PK"}, {"setup"}), "PK immutable")

\* The vendor's db and KEK may still be there when its PK has been removed.
PlatformKey ==
  [facts   |-> Loader \cup {"setup", "db", "KEK", "PK",
                            "db immutable", "KEK immutable", "PK immutable"},
   start   |-> UNION {{l \cup {"setup"}, l \cup {"setup", "db immutable", "KEK immutable"}} : l \in Loaders},
   already |-> [enroll |-> {Enrolled({"PK"})}],
   worker  |-> [enroll |-> <<Check(SetupMode)>> \o EnrollEfiKeys
                           \o UpdateSystemdBoot \o <<Check(Enrolled({"PK"}))>>],
   goal    |-> [enroll |-> Enrolled({"db", "KEK", "PK"})],
   outside |-> NoOutside, boot |-> NoBoot, audit |-> NoAudit]

-----------------------------------------------------------------------------
(* A request to MokManager: the key and the hash of key and password, ours  *)
(* or somebody else's.                                                      *)

Pending == {"new", "auth", "other new", "other auth"}

EnrollMokKey ==
  WriteEfi(Do({"new"}, {"other new"}), "new immutable")
  \o WriteEfi(Do({"auth"}, {"other auth"}), "auth immutable")

\* MokManager takes a request whose two halves match, if the user confirms, and forgets any.
MokManager ==
  LET forget == Clause(Always, {}, Pending \cup {"new immutable", "auth immutable"})
  IN {{forget}, {forget, Clause(On({"new", "auth"}), {"mok"}, {})}}

MachineOwnerKey ==
  [facts   |-> Loader \cup Pending \cup {"mok", "new immutable", "auth immutable"},
   start   |-> UNION {{l, l \cup {"other new", "other auth", "new immutable", "auth immutable"}} : l \in Loaders},
   already |-> [enroll |-> {Enrolled({"mok"})}],
   worker  |-> [enroll |-> EnrollMokKey \o UpdateSystemdBoot],
   goal    |-> [enroll |-> Both({"new", "auth"}, {"other new", "other auth"})],
   outside |-> NoOutside, boot |-> MokManager, audit |-> NoAudit]

-----------------------------------------------------------------------------
(* LUKS: the slots of TPM2 and FIDO2, the recovery key, crypttab, whose one *)
(* line is as the installer wrote it ("plain"), names the FIDO2 device      *)
(* ("tab") or has another form, and crypttab.known-good, a copy of it       *)
(* ("good", and its line).                                                  *)

Slot(s, preferred) == {s, preferred}

\* What was seen in the dump decides on the wipe, and on the slot to prefer.
EnableTpm2 ==
  <<Look,
    Seen(Do({}, Slot("tpm2", "tpm2 preferred")), On({"tpm2"})),
    Put("tpm2"),
    Seen(Put("tpm2 preferred"), On({"tpm2"}))>>

SaveCrypttab ==
  Does({Clause(Always, {"good"}, {}),
        Clause(On({"tab"}), {"good tab"}, {}),     Clause(Off({"tab"}), {}, {"good tab"}),
        Clause(On({"plain"}), {"good plain"}, {}), Clause(Off({"plain"}), {}, {"good plain"})})

RestoreCrypttab ==
  Does({Clause(On({"good", "good tab"}), {"tab"}, {}),     Clause(Both({"good"}, {"good tab"}), {}, {"tab"}),
        Clause(On({"good", "good plain"}), {"plain"}, {}), Clause(Both({"good"}, {"good plain"}), {}, {"plain"}),
        Clause(Always, {}, {"good", "good tab", "good plain"})})

\* sed leaves a line of another form as it is, and does not say so.
EditCrypttab == If(On({"plain"}), {"tab"}, {"plain"})

EnableFido2 ==
  <<Look,
    Seen(Do({}, Slot("fido2", "fido2 preferred")), On({"fido2"})),
    Put("fido2"),
    SaveCrypttab,
    EditCrypttab,
    If(On({"fido2"}), {"fido2 preferred"}, {}),
    Put("recovery")>>

DisableTpm2  == <<RestoreCrypttab, Do({}, Slot("tpm2", "tpm2 preferred"))>>
DisableFido2 == <<RestoreCrypttab, Do({}, Slot("fido2", "fido2 preferred"))>>

DiskUnlock ==
  [facts   |-> {"tpm2", "tpm2 preferred", "fido2", "fido2 preferred",
                "recovery", "plain", "tab", "good", "good plain", "good tab"},
   start   |-> {{"plain"}, {}},
   already |-> [md \in {"tpmOn", "tpmOff", "fidoOn", "fidoOff"} |-> {}],
   worker  |-> [tpmOn |-> EnableTpm2, tpmOff |-> DisableTpm2,
                fidoOn |-> EnableFido2, fidoOff |-> DisableFido2],
   goal    |-> [tpmOn |-> On({"tpm2"}), tpmOff |-> Off({"tpm2"}),
                fidoOn |-> Both({"fido2", "good", "recovery"}, {"plain"}), fidoOff |-> Off({"fido2"})],
   outside |-> NoOutside, boot |-> NoBoot, audit |-> NoAudit]
=============================================================================
