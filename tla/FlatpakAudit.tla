---------------------------- MODULE FlatpakAudit ----------------------------
(***************************************************************************)
(* What audit_flatpak reports of one installed app, from the permissions   *)
(* that flatpak computes for it (audit_flatpak/__init__.py, filesystem.py).*)
(*                                                                         *)
(* Permissions are a function from keys to values.  A key is a sequence:   *)
(* its category, and the permission, which for a path is one component     *)
(* after the other and for a bus name one word after the other.            *)
(***************************************************************************)
EXTENDS Sequences, SequencesExt, Functions, FiniteSetsExt, Naturals

IsKey(k) == k \in Seq(Range(k)) \ {<<>>}

Statuses == <<"pass", "info", "warn", "fail">>
Severity(status) == CHOOSE i \in DOMAIN Statuses : Statuses[i] = status

Expected == {"Flatseal", "Bazaar"}

HostOs  == <<"filesystems", "host-os">>
Preload == <<"env", "LD_PRELOAD">>

Of(perms, category)   == {k \in DOMAIN perms : Head(k) = category}
Value(perms, k)       == IF k \in DOMAIN perms THEN perms[k] ELSE "unset"
\* A permission that is negated is shown as "!permission".
Granted(perms, category) == {k \in Of(perms, category) : perms[k] # "no"}

\* about: the check; key, value: the override that the recommendation sets (NoKey for none).
Finding(about, status, key, value) ==
  [about |-> about, status |-> status, key |-> key, value |-> value]
NoKey == <<>>

-----------------------------------------------------------------------------
(* The table of permissions.                                                *)

PermissionChecks ==
  { <<"shared", "network", "info">>,     <<"shared", "ipc", "info">>,
    <<"sockets", "x11", "fail">>,         <<"sockets", "pulseaudio", "warn">>,
    <<"sockets", "session-bus", "fail">>, <<"sockets", "system-bus", "fail">>,
    <<"sockets", "ssh-auth", "warn">>,    <<"sockets", "gpg-agent", "fail">>,
    <<"devices", "all", "fail">>,         <<"devices", "input", "info">>,
    <<"devices", "kvm", "warn">>,         <<"devices", "shm", "fail">>,
    <<"devices", "usb", "warn">>,
    <<"features", "bluetooth", "warn">>,  <<"features", "devel", "warn">> }

\* host: what the audit knows beside the permissions, that is the app's name, and whether
\* audit_modprobe and audit_ptrace have found bluetooth loaded and ptrace allowed.
Irrelevant(host) ==
  (IF host.bluetooth THEN {} ELSE {<<"features", "bluetooth">>})
    \cup (IF host.ptrace THEN {} ELSE {<<"features", "devel">>})

Permission(c) == <<c[1], c[2]>>

PredefinedFindings(host, perms) ==
  {Finding(Permission(c), c[3], Permission(c), "no") :
     c \in {d \in PermissionChecks :
              Permission(d) \notin Irrelevant(host) /\ Value(perms, Permission(d)) = "yes"}}

-----------------------------------------------------------------------------
(* Paths.                                                                   *)

\* In the order in which they are tried, the last one being a prefix of the others; one
\* stands for the eight that no table names.  The code compares characters: a path that
\* shares part of a component with an alias is in no table.
Aliases ==
  << <<<<"~", ".cache">>, "xdg-cache">>,       <<<<"~", ".config">>, "xdg-config">>,
     <<<<"~", ".local", "share">>, "xdg-data">>, <<<<"~", "Downloads">>, "xdg-downloads">>,
     <<<<"~">>, "home">> >>

IsAliased(path) == \E i \in DOMAIN Aliases : IsPrefix(Aliases[i][1], path)

CanonPath(path) ==
  IF ~IsAliased(path) THEN path
  ELSE LET i == Min({j \in DOMAIN Aliases : IsPrefix(Aliases[j][1], path)})
       IN  <<Aliases[i][2]>> \o SubSeq(path, Len(Aliases[i][1]) + 1, Len(path))

\* The dictionary from canonical paths to entries: of two that name the same directory
\* the later one stays, in the order of flatpak's list, which is any.
Dictionaries(perms) ==
  LET entries == Granted(perms, "filesystems")
      paths   == {CanonPath(Tail(k)) : k \in entries}
  IN  {d \in [paths -> entries] : \A p \in paths : CanonPath(Tail(d[p])) = p}

MallocAccessFindings(dict) ==
  IF <<"host-os">> \in DOMAIN dict THEN {} ELSE {Finding(HostOs, "warn", HostOs, "ro")}

OverridesPath == <<"xdg-data", "flatpak", "overrides">>

OverridesFindings(host, perms, dict) ==
  IF host.name \in Expected \/ OverridesPath \notin DOMAIN dict THEN {}
  ELSE IF perms[dict[OverridesPath]] = "ro" THEN {}
  ELSE {Finding(OverridesPath, "fail", dict[OverridesPath], "no")}

DirectoryChecks ==
  { <<"host-root">>, <<"host">>, <<"home">>, <<"/var/home">>, <<"xdg-config">>,
    <<"xdg-config", "autostart">>, <<"xdg-config", "environment.d">>,
    <<"xdg-config", "systemd">>, <<"xdg-config", "systemd", "user">>, <<"xdg-cache">>,
    <<"home", ".local">>, <<"xdg-data">>, <<"xdg-data", "flatpak">>, <<"home", ".var">>,
    <<"home", ".var", "app">>, <<"home", ".bashrc">>, <<"home", ".bashrc.d">>,
    <<"home", ".bash_login">>, <<"home", ".bash_logout">>, <<"home", ".bash_profile">>,
    <<"home", ".profile">>, <<"xdg-config", "bash_completion">> }

ArbitraryDirectories == {<<"host-root">>, <<"xdg-data", "flatpak">>}

\* Wrong: the recommendation names the canonical path, not the one the app has asked for.
DirectoryFindingsByCheck(dict) ==
  {Finding(p, "fail", <<"filesystems">> \o p, "no") : p \in DirectoryChecks \cap DOMAIN dict}

DirectoryFindings(dict) ==
  {Finding(p, "fail", IF IsAliased(Tail(dict[p])) THEN dict[p] ELSE <<"filesystems">> \o p, "no") :
     p \in DirectoryChecks \cap DOMAIN dict}

-----------------------------------------------------------------------------
(* Bus names, LD_PRELOAD, and the report.                                   *)

BusNames ==
  { <<"org", "freedesktop", "*">>, <<"org", "gnome", "*">>, <<"org", "kde", "*">>,
    <<"org", "freedesktop", "DBus">>, <<"org", "freedesktop", "systemd1">>,
    <<"org", "freedesktop", "login1">>, <<"org", "kde", "KWin">>, <<"org", "kde", "plasmashell">> }
SessionBusNames ==
  { <<"org", "freedesktop", "Flatpak">>,
    <<"org", "freedesktop", "impl", "portal", "PermissionStore">> }
BusPrefixes == { <<"org", "freedesktop", "Flatpak">>, <<"org", "freedesktop", "DBus">> }

GrantsArbitrary(bus, isSession) ==
  \/ \E p \in BusPrefixes : IsStrictPrefix(p, bus)
  \/ bus \in BusNames
  \/ isSession /\ bus \in SessionBusNames

DangerousBuses(perms) ==
  {k \in Of(perms, "session") : perms[k] = "talk" /\ GrantsArbitrary(Tail(k), TRUE)}
    \cup {k \in Of(perms, "system") : perms[k] = "talk" /\ GrantsArbitrary(Tail(k), FALSE)}

\* Wrong: the same option for both buses.
BusFindingsOnSession(host, perms) ==
  IF host.name \in Expected THEN {}
  ELSE {Finding(k, "fail", <<"session">> \o Tail(k), "no") : k \in DangerousBuses(perms)}

BusFindings(host, perms) ==
  IF host.name \in Expected THEN {}
  ELSE {Finding(k, "fail", k, "no") : k \in DangerousBuses(perms)}

\* "malloc" is the library for this machine, "old malloc" the same in another directory.
PreloadFindings(perms) ==
  LET lib == Value(perms, Preload)
  IN  IF lib \in {"malloc", "old malloc"} THEN {}
      ELSE {Finding(Preload, IF lib = "light malloc" THEN "info" ELSE "warn", Preload, "malloc")}

\* The note on arbitrary permissions comes without a recommendation.
ArbitraryFindings(host, perms, dict) ==
  IF \/ OverridesFindings(host, perms, dict) # {}
     \/ ArbitraryDirectories \cap DOMAIN dict # {}
     \/ DangerousBuses(perms) # {}
  THEN {Finding(NoKey, IF host.name \in Expected THEN "info" ELSE "fail", NoKey, "none")}
  ELSE {}

Findings(host, perms, dict) ==
  PredefinedFindings(host, perms) \cup MallocAccessFindings(dict)
    \cup OverridesFindings(host, perms, dict) \cup DirectoryFindings(dict)
    \cup BusFindings(host, perms) \cup PreloadFindings(perms)
    \cup ArbitraryFindings(host, perms, dict)

\* downgrade_to: the most severe.
Status(findings) == Statuses[Max({1} \cup {Severity(f.status) : f \in findings})]

Reports(host, perms) == {Findings(host, perms, dict) : dict \in Dictionaries(perms)}
=============================================================================
