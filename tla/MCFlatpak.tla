----------------------------- MODULE MCFlatpak -----------------------------
(***************************************************************************)
(* Model checking of FlatpakOverrides: apps that ask for one entry of each *)
(* of the audit's tables, and for one directory under two names.           *)
(***************************************************************************)
EXTENDS FlatpakOverrides, TLC

Path(p) == <<"filesystems">> \o p

App(name, loaded, perms) ==
  [host |-> [name |-> name, bluetooth |-> loaded, ptrace |-> loaded], manifest |-> perms]

MCInstalled ==
  { App("Editor", FALSE, <<"sockets", "gpg-agent">> :> "yes" @@ <<"features", "devel">> :> "yes"
                           @@ Preload :> "light malloc"),
    App("Editor", TRUE, Path(<<"~", ".config">>) :> "rw" @@ Path(<<"xdg-config">>) :> "ro"),
    App("Editor", TRUE, Path(<<"~", ".local", "share", "flatpak">>) :> "ro" @@ HostOs :> "ro"),
    App("Editor", TRUE, Path(<<"xdg-data", "flatpak", "overrides">>) :> "rw"
                          @@ Path(<<"home">>) :> "rw"),
    App("Editor", TRUE, Path(<<"xdg-data", "flatpak", "overrides">>) :> "ro"
                          @@ Path(<<"~", ".local", "share", "flatpak", "overrides">>) :> "rw"),
    App("Flatseal", TRUE, Path(<<"~", ".local", "share", "flatpak", "overrides">>) :> "rw"
                            @@ <<"session", "org", "freedesktop", "Flatpak">> :> "talk"),
    App("Editor", TRUE, <<"system", "org", "freedesktop", "systemd1">> :> "talk"
                          @@ <<"session", "org", "freedesktop", "Flatpak">> :> "own"
                          @@ <<"session", "org", "freedesktop", "Flatpak", "X">> :> "talk") }

MCUserEdits ==
  { <<"app", HostOs, "no">>, <<"app", Preload, "other">>,
    <<"global", HostOs, "no">>, <<"global", Preload, "old malloc">> }
=============================================================================
