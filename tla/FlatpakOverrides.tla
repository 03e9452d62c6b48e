-------------------------- MODULE FlatpakOverrides --------------------------
(***************************************************************************)
(* The overrides of one user, and the programs that write them:            *)
(* harden_flatpak.py, flatpak-permissions-lockdown and                     *)
(* flatpak-reset-global-overrides, the user following the audit's advice,  *)
(* and the user (or Flatseal) setting whatever they like meanwhile.        *)
(***************************************************************************)
EXTENDS FlatpakAudit

CONSTANTS Installed,  \* records: on what host an app is audited, and the manifest it comes with
          UserEdits,  \* what the user sets: triples of a layer, a key and a value
          MaxEdits    \* bound on what the user does by hand

Layers == {"global", "app"}

\* What an override may set an entry to; "other" is a library that is none of ours.
Settings == {"no", "ro", "rw", "talk", "malloc", "old malloc", "other"}

ASSUME InstalledAssumption ==
  \A i \in Installed :
    i = [host |-> i.host, manifest |-> i.manifest] /\ \A k \in DOMAIN i.manifest : IsKey(k)

ASSUME EditsAssumption ==
  /\ \A e \in UserEdits : e[1] \in Layers /\ IsKey(e[2]) /\ e[3] \in Settings
  /\ MaxEdits \in Nat

VARIABLES
  host,        \* the app's name, and what audit_modprobe and audit_ptrace have found
  manifest,
  overrides,   \* the files "global" and the app's own, in ~/.local/share/flatpak/overrides
  hardening,   \* the run of harden_flatpak.py for the app
  locking,     \* the lists flatpak-permissions-lockdown has gone through
  calm,        \* the programs under way during which nobody else has touched the overrides
  done,        \* the programs that have finished calm, with no edit and no reset since
  edits

vars == <<host, manifest, overrides, hardening, locking, calm, done, edits>>

NoOverrides == [k \in {} |-> "no"]

Overlay(top, base) ==
  [k \in DOMAIN top \cup DOMAIN base |-> IF k \in DOMAIN top THEN top[k] ELSE base[k]]

\* flatpak: the app's overrides win over the global ones, these over the manifest.
Merged(layers) == Overlay(layers.app, Overlay(layers.global, manifest))
Perms == Merged(overrides)

Override(layer, set) == [overrides EXCEPT ![layer] = Overlay(set, @)]

Idle == [step |-> "idle", has |-> {}, file |-> NoOverrides]

Init ==
  /\ \E i \in Installed : host = i.host /\ manifest = i.manifest
  /\ overrides = [layer \in Layers |-> NoOverrides]
  /\ hardening = Idle /\ locking = 0
  /\ calm = {} /\ done = {} /\ edits = 0

-----------------------------------------------------------------------------
(* harden_flatpak.py                                                        *)

\* Wrong: the path is made of a microarchitecture that is not known.
MallocOfNone == [k \in {HostOs, Preload} |-> IF k = HostOs THEN "ro" ELSE "None"]

Malloc == [k \in {HostOs, Preload} |-> IF k = HostOs THEN "ro" ELSE "malloc"]

\* Without an app: for all apps.
HardenAll ==
  /\ overrides' = Override("global", Malloc)
  /\ done' = done \cup {"all"}
  /\ UNCHANGED <<host, manifest, hardening, locking, calm, edits>>

\* current_override_status: access in any mode, but exactly this library.
OverrideStatus(file) ==
  (IF Value(file, HostOs) \in {"ro", "rw"} THEN {HostOs} ELSE {})
    \cup (IF Value(file, Preload) = "malloc" THEN {Preload} ELSE {})

HardenReadsGlobal ==
  /\ hardening.step = "idle"
  /\ hardening' = [step |-> IF OverrideStatus(overrides.global) = {} THEN "apply" ELSE "read",
                   has  |-> OverrideStatus(overrides.global), file |-> NoOverrides]
  /\ calm' = calm \cup {"harden"}
  /\ UNCHANGED <<host, manifest, overrides, locking, done, edits>>

HardenReadsApp ==
  /\ hardening.step = "read"
  /\ hardening' = [hardening EXCEPT !.step = "rewrite", !.file = overrides.app]
  /\ UNCHANGED <<host, manifest, overrides, locking, calm, done, edits>>

\* Wrong: the whole line of paths goes, not "!host-os" alone.
UnwantedLine(file, has) ==
  (IF HostOs \in has /\ Value(file, HostOs) = "no" THEN Of(file, "filesystems") ELSE {})
    \cup (has \cap {Preload})

\* Wrong: a library that is set already is left alone.
UnwantedAccess(file, has) == {k \in has \cap {HostOs} : Value(file, k) = "no"}

Unwanted(file, has) ==
  {k \in has \cap {HostOs} : Value(file, k) = "no"} \cup (has \cap {Preload})

Without(file, keys) == [k \in DOMAIN file \ keys |-> file[k]]

\* The file is written as it was read, but for these; if there are none, not at all.
HardenRewritesApp ==
  /\ hardening.step = "rewrite"
  /\ LET gone == Unwanted(hardening.file, hardening.has)
     IN  overrides' = IF gone \cap DOMAIN hardening.file = {} THEN overrides
                      ELSE [overrides EXCEPT !.app = Without(hardening.file, gone)]
  /\ hardening' = [hardening EXCEPT !.step = "apply", !.file = NoOverrides]
  /\ UNCHANGED <<host, manifest, locking, calm, done, edits>>

\* What the global overrides do not do.
HardenApplies ==
  /\ hardening.step = "apply"
  /\ overrides' = Override("app", Without(Malloc, hardening.has))
  /\ done' = done \cup (IF "harden" \in calm THEN {"harden"} ELSE {})
  /\ hardening' = Idle /\ calm' = calm \ {"harden"}
  /\ UNCHANGED <<host, manifest, locking, edits>>

HardenKilled ==
  /\ hardening.step # "idle"
  /\ hardening' = Idle /\ calm' = calm \ {"harden"}
  /\ UNCHANGED <<host, manifest, overrides, locking, done, edits>>

-----------------------------------------------------------------------------
(* flatpak-permissions-lockdown                                             *)

InCategory(category, names) == {<<category, n>> : n \in names}

\* Wrong: a socket is missing from the list.
ListsWithoutAgent ==
  << InCategory("shared", {"network", "ipc"}) \cup InCategory("sockets", {"system-bus", "x11"}),
     InCategory("devices", {"all", "shm", "kvm", "input", "usb"}),
     InCategory("filesystems", {"home", "host", "/var/home"}),
     {<<"session", "org", "freedesktop", "Flatpak">>} >>

\* The lists, two at a time; of the bus names those that the audit knows, too.
Lists ==
  << InCategory("shared", {"network", "ipc"})
       \cup InCategory("sockets", {"inherit-wayland-socket", "gpg-agent", "cups", "pcsc", "ssh-auth",
                                   "system-bus", "session-bus", "pulseaudio", "fallback-x11", "x11"}),
     InCategory("devices", {"all", "shm", "kvm", "input", "usb"})
       \cup InCategory("features", {"per-app-dev-shm", "canbus", "bluetooth", "multiarch", "devel"}),
     InCategory("filesystems", {"home", "host-etc", "host", "/home", "/var/home", "/var", "/media",
                                "/run/media", "/run", "/mnt"})
       \cup {<<"filesystems", "~", ".bashrc">>, <<"filesystems", "~", ".bash_profile">>},
     { <<"session", "org", "kde", "*">>, <<"session", "org", "freedesktop", "Flatpak">>,
       <<"session", "org", "freedesktop", "impl", "portal", "PermissionStore">>,
       <<"system", "org", "freedesktop", "systemd1">>, <<"system", "org", "freedesktop", "login1">> } >>

FlatsealNames ==
  { <<"session", "org", "gnome", "Software">>,
    <<"session", "org", "freedesktop", "impl", "portal", "PermissionStore">> }

LockdownDenies ==
  /\ locking < Len(Lists)
  /\ overrides' = Override("global", [k \in Lists[locking + 1] |-> "no"])
  /\ locking' = locking + 1
  /\ calm' = IF locking = 0 THEN calm \cup {"lockdown"} ELSE calm
  /\ UNCHANGED <<host, manifest, hardening, done, edits>>

\* The last calls are for Flatseal, whose overrides are another app's if this is not Flatseal.
LockdownGrantsFlatseal ==
  /\ locking = Len(Lists)
  /\ overrides' = IF host.name = "Flatseal"
                  THEN Override("app", [k \in FlatsealNames |-> "talk"]) ELSE overrides
  /\ done' = done \cup (IF "lockdown" \in calm THEN {"lockdown"} ELSE {})
  /\ locking' = 0
  /\ calm' = calm \ (IF host.name = "Flatseal" THEN {"lockdown", "harden"} ELSE {"lockdown"})
  /\ UNCHANGED <<host, manifest, hardening, edits>>

LockdownStops ==
  /\ locking > 0
  /\ locking' = 0 /\ calm' = calm \ {"lockdown"}
  /\ UNCHANGED <<host, manifest, overrides, hardening, done, edits>>

-----------------------------------------------------------------------------
(* The user.                                                                *)

\* mv of the file to global.save, which fails where there is none.
ResetGlobal ==
  /\ overrides.global # NoOverrides
  /\ edits < MaxEdits /\ edits' = edits + 1
  /\ overrides' = [overrides EXCEPT !.global = NoOverrides]
  /\ calm' = {} /\ done' = {}
  /\ UNCHANGED <<host, manifest, hardening, locking>>

UserEdit(layer, k, v) ==
  /\ edits < MaxEdits /\ edits' = edits + 1
  /\ overrides' = Override(layer, [x \in {k} |-> v])
  /\ calm' = {} /\ done' = {}
  /\ UNCHANGED <<host, manifest, hardening, locking>>

\* "flatpak override -u --no...=...", or the access that is missing; harden_flatpak.py is
\* modelled on its own.
Followed(f) == Override("app", [k \in {f.key} |-> f.value])

FollowAdvice(f) ==
  /\ f.key \notin {NoKey, Preload}
  /\ edits < MaxEdits /\ edits' = edits + 1
  /\ overrides' = Followed(f)
  /\ calm' = calm \ {"harden"}
  /\ UNCHANGED <<host, manifest, hardening, locking, done>>

Advised == UNION Reports(host, Perms)

Next ==
  \/ HardenAll \/ HardenReadsGlobal \/ HardenReadsApp \/ HardenRewritesApp
  \/ HardenApplies \/ HardenKilled
  \/ LockdownDenies \/ LockdownGrantsFlatseal \/ LockdownStops
  \/ ResetGlobal
  \/ \E e \in UserEdits : UserEdit(e[1], e[2], e[3])
  \/ \E f \in Advised : FollowAdvice(f)

Spec == Init /\ [][Next]_vars

-----------------------------------------------------------------------------
(* Properties.                                                              *)

\* The overrides stay overrides, the programs at one of their steps.
TypeOK ==
  /\ [host |-> host, manifest |-> manifest] \in Installed
  /\ DOMAIN overrides = Layers
  /\ \A layer \in Layers : \A k \in DOMAIN overrides[layer] :
       IsKey(k) /\ overrides[layer][k] \in Settings
  /\ hardening.step \in {"idle", "read", "rewrite", "apply"}
  /\ locking \in 0..Len(Lists)
  /\ calm \subseteq {"harden", "lockdown"} /\ done \subseteq {"harden", "all", "lockdown"}
  /\ edits \in 0..MaxEdits

(***************************************************************************)
(* What harden_flatpak.py has hardened, the audit takes for hardened: an   *)
(* app by its own run, whatever overrides for it or for all apps it found, *)
(* and however it relied on the global ones, until the user changes them;  *)
(* all apps by a global run, but for those with overrides of their own.    *)
(***************************************************************************)
HardenSilences ==
  ( \/ "harden" \in done
    \/ "all" \in done /\ {HostOs, Preload} \cap DOMAIN overrides.app = {} )
  => /\ \A dict \in Dictionaries(Perms) : MallocAccessFindings(dict) = {}
     /\ PreloadFindings(Perms) = {}

(***************************************************************************)
(* harden_flatpak.py rewrites a file that is not its own.  Unless somebody *)
(* writes it at the same time, no override but the two that it is about is *)
(* lost or changed.                                                        *)
(***************************************************************************)
Others(layers) == [layer \in Layers |-> Without(layers[layer], {HostOs, Preload})]

HardenKeepsOverrides ==
  [][ (HardenRewritesApp /\ "harden" \in calm) \/ HardenApplies \/ HardenAll
        => Others(overrides') = Others(overrides) ]_vars

(***************************************************************************)
(* After the lockdown, no app has a permission of the audit's table but by *)
(* an override of its own: the lists of the script and the table of the    *)
(* audit, in two languages, agree, and nothing that harden_flatpak.py and  *)
(* the advice set undoes it.                                               *)
(***************************************************************************)
LockdownSuffices ==
  "lockdown" \in done =>
    \A f \in PredefinedFindings([host EXCEPT !.bluetooth = TRUE, !.ptrace = TRUE], Perms) :
      f.about \in DOMAIN overrides.app

\* Every state of the overrides is also one with no program under way: they can be stopped.
AtRest == hardening = Idle /\ locking = 0

\* Of two entries for the same directory the audit reports one.
NamedTwice(path) ==
  \E k, l \in Granted(Perms, "filesystems") :
    k # l /\ CanonPath(Tail(k)) = path /\ CanonPath(Tail(l)) = path

(***************************************************************************)
(* Advice that is followed is not given again, and what was not reported   *)
(* before is not reported because of it: the option that is advised sets   *)
(* the very entry that the check looks at, aliases of paths and both buses *)
(* included.                                                               *)
(***************************************************************************)
AdviceIsNotRepeated ==
  AtRest => \A f \in {g \in Advised : g.key # NoKey} :
    LET after == {g.about : g \in UNION Reports(host, Merged(Followed(f)))}
    IN  /\ f.about \in after => NamedTwice(f.about)
        /\ after \subseteq {g.about : g \in Advised}

\* All advice of one report.
Obeyed(findings, layers) ==
  LET todo == {f \in findings : f.key # NoKey}
  IN  [layers EXCEPT !.app =
         Overlay([k \in {f.key : f \in todo} |-> (CHOOSE f \in todo : f.key = k).value], @)]

\* The overrides' directory under two names, by one of which it can be written; flatpak's
\* order decides which of the two the audit looks at.
ReadOnlyByOneName ==
  \E k, l \in Granted(Perms, "filesystems") :
    /\ CanonPath(Tail(k)) = OverridesPath /\ Perms[k] = "ro"
    /\ CanonPath(Tail(l)) = OverridesPath /\ Perms[l] # "ro"

(***************************************************************************)
(* The advice is complete: a user who follows all of a report, twice where *)
(* a directory is named twice, is left with nothing worse than a note that *)
(* the app is expected to need what it has (or with what no report may     *)
(* have told of).  Nothing else fails without a way to mend it.            *)
(***************************************************************************)
AdviceSuffices ==
  AtRest => \A first \in Reports(host, Perms) :
    \A second \in Reports(host, Merged(Obeyed(first, overrides))) :
      \A rest \in Reports(host, Merged(Obeyed(second, Obeyed(first, overrides)))) :
        \/ Status(rest) = "pass"
        \/ Status(rest) = "info" /\ host.name \in Expected
        \/ ReadOnlyByOneName /\ {f.about : f \in rest} \subseteq {OverridesPath, NoKey}
=============================================================================
