---------------------------- MODULE FlatpakProofs ----------------------------
(***************************************************************************)
(* Proofs about FlatpakOverrides, for any apps and manifests, any edits of *)
(* the user and any number of them.                                        *)
(***************************************************************************)
EXTENDS FlatpakOverrides, SequenceTheorems, TLAPS

-----------------------------------------------------------------------------
(* The keys.                                                                *)

\* The two keys that harden_flatpak.py is about differ.
LEMMA TwoKeys == HostOs # Preload /\ Head(HostOs) = "filesystems"
BY DEF HostOs, Preload

\* Of the aliases that filesystem.py tries, none is a part of the path "host-os".
LEMMA HostOsIsNoAlias == ~IsAliased(<<"host-os">>)
<1> SUFFICES ASSUME NEW i \in 1..5, IsPrefix(Aliases[i][1], <<"host-os">>)
             PROVE  FALSE
  BY DEF IsAliased, Aliases
<1> DEFINE p == Aliases[i][1]
           Word == {"~", ".cache", ".config", ".local", "share", "Downloads"}
<1>1. Len(p) \in Nat \ {0} /\ p[1] = "~" /\ p \in Seq(Word)
  <2>1. \/ p = <<"~", ".cache">> \/ p = <<"~", ".config">> \/ p = <<"~", ".local", "share">>
        \/ p = <<"~", "Downloads">> \/ p = <<"~">>
    BY DEF Aliases
  <2> HIDE DEF p
  <2>2. Len(p) \in Nat \ {0} BY <2>1
  <2>3. p[1] = "~" BY <2>1
  <2>4. p \in Seq(Word)
    <3>1. CASE p = <<"~", ".cache">> BY <3>1
    <3>2. CASE p = <<"~", ".config">> BY <3>2
    <3>3. CASE p = <<"~", ".local", "share">> BY <3>3
    <3>4. CASE p = <<"~", "Downloads">> BY <3>4
    <3>5. CASE p = <<"~">> BY <3>5
    <3> QED BY <2>1, <3>1, <3>2, <3>3, <3>4, <3>5
  <2> QED BY <2>2, <2>3, <2>4
<1>2. p[1] = <<"host-os">>[1]
  BY <1>1 DEF IsPrefix
<1> QED BY <1>1, <1>2

\* The path of the access that the library needs is not changed by the aliases.
LEMMA HostOsCanon == CanonPath(Tail(HostOs)) = <<"host-os">>
<1>1. Tail(HostOs) = <<"host-os">>
  BY DEF HostOs
<1> QED BY <1>1, HostOsIsNoAlias DEF CanonPath

\* None of the lists of flatpak-permissions-lockdown has one of the two keys.
LEMMA ListsMiss ==
  ASSUME NEW i \in 1..4
  PROVE  Len(Lists) = 4 /\ HostOs \notin Lists[i] /\ Preload \notin Lists[i]
<1>1. Len(Lists) = 4 BY DEF Lists
<1>2. CASE i = 1 BY <1>1, <1>2 DEF Lists, InCategory, HostOs, Preload
<1>3. CASE i = 2 BY <1>1, <1>3 DEF Lists, InCategory, HostOs, Preload
<1>4. CASE i = 3 BY <1>1, <1>4 DEF Lists, InCategory, HostOs, Preload
<1>5. CASE i = 4 BY <1>1, <1>5 DEF Lists, InCategory, HostOs, Preload
<1> QED BY <1>1, <1>2, <1>3, <1>4, <1>5

\* Nor has what it grants to Flatseal.
LEMMA FlatsealMisses == HostOs \notin FlatsealNames /\ Preload \notin FlatsealNames
BY DEF FlatsealNames, HostOs, Preload

-----------------------------------------------------------------------------
(* Overrides.                                                               *)

\* What a set of overrides that has not the key leaves there.
LEMMA OverlayMisses ==
  ASSUME NEW top, NEW base, NEW k, k \notin DOMAIN top
  PROVE  /\ Value(Overlay(top, base), k) = Value(base, k)
         /\ k \in DOMAIN Overlay(top, base) <=> k \in DOMAIN base
BY DEF Overlay, Value

\* And what one that has the key sets.
LEMMA OverlaySets ==
  ASSUME NEW top, NEW base, NEW k, k \in DOMAIN top
  PROVE  /\ Value(Overlay(top, base), k) = top[k]
         /\ k \in DOMAIN Overlay(top, base)
BY DEF Overlay, Value

\* Nothing else is changed by a set of overrides for the two keys alone.
LEMMA OverlayKeepsOthers ==
  ASSUME NEW top, NEW base, DOMAIN top \subseteq {HostOs, Preload}
  PROVE  Without(Overlay(top, base), {HostOs, Preload}) = Without(base, {HostOs, Preload})
BY DEF Overlay, Without

\* What is removed from an app's file.
LEMMA WithoutMisses ==
  ASSUME NEW file, NEW keys, NEW k, k \notin keys
  PROVE  /\ Value(Without(file, keys), k) = Value(file, k)
         /\ k \in DOMAIN Without(file, keys) <=> k \in DOMAIN file
BY DEF Without, Value

-----------------------------------------------------------------------------
(* The findings whose advice is about the two keys.                         *)

\* "host-os" is none of the directories that are dangerous.
LEMMA DirectoriesAreOthers ==
  ASSUME NEW q \in DirectoryChecks
  PROVE  q # <<"host-os">> /\ <<"filesystems">> \o q # HostOs
<1> DEFINE Word == {"host-root", "host", "home", "/var/home", "xdg-config", "autostart",
                    "environment.d", "systemd", "user", "xdg-cache", ".local", "xdg-data",
                    "flatpak", ".var", "app", ".bashrc", ".bashrc.d", ".bash_login",
                    ".bash_logout", ".bash_profile", ".profile", "bash_completion"}
<1>1. q[1] \in Word /\ Len(q) \in Nat \ {0}
  BY DEF DirectoryChecks
<1>2. q \in Seq(Word)
  <2>1. \/ q = <<q[1]>> /\ q[1] \in Word
        \/ q = <<q[1], q[2]>> /\ q[1] \in Word /\ q[2] \in Word
        \/ q = <<q[1], q[2], q[3]>> /\ q[1] \in Word /\ q[2] \in Word /\ q[3] \in Word
    BY DEF DirectoryChecks
  <2> HIDE DEF Word
  <2> QED BY <2>1
<1>3. (<<"filesystems">> \o q)[2] = q[1]
  BY <1>1, <1>2
<1>4. q[1] # "host-os"
  BY <1>1
<1>5. <<"filesystems">> \o q # HostOs
  <2>1. HostOs[2] = "host-os"
    BY DEF HostOs
  <2> QED BY <2>1, <1>3, <1>4
<1> QED BY <1>4, <1>5

\* What a finding consists of.
LEMMA FindingFields ==
  ASSUME NEW a, NEW s, NEW k, NEW v
  PROVE  Finding(a, s, k, v).key = k /\ Finding(a, s, k, v).value = v
BY DEF Finding

\* No check but the one for the access gives advice on it, and that grants it.
LEMMA AdviceOnHostOs ==
  ASSUME NEW f \in Advised, f.key = HostOs
  PROVE  f.value = "ro"
<1>1. PICK dict \in Dictionaries(Perms) : f \in Findings(host, Perms, dict)
  BY DEF Advised, Reports
<1>2. f \notin PredefinedFindings(host, Perms)
  <2> SUFFICES ASSUME NEW c \in PermissionChecks, Permission(c) = HostOs
               PROVE  FALSE
    BY DEF PredefinedFindings, Finding
  <2>1. c[1] # "filesystems"
    BY DEF PermissionChecks
  <2> QED BY <2>1 DEF Permission, HostOs
<1>3. f \in MallocAccessFindings(dict) => f.value = "ro"
  BY DEF MallocAccessFindings, Finding
<1>4. f \notin OverridesFindings(host, Perms, dict)
  <2> SUFFICES ASSUME OverridesPath \in DOMAIN dict, dict[OverridesPath] = HostOs
               PROVE  FALSE
    BY DEF OverridesFindings, Finding
  <2>1. CanonPath(Tail(dict[OverridesPath])) = OverridesPath
    BY DEF Dictionaries
  <2> QED BY <2>1, HostOsCanon DEF OverridesPath
<1>5. f \notin DirectoryFindings(dict)
  <2> SUFFICES ASSUME f \in DirectoryFindings(dict)
               PROVE  FALSE
    OBVIOUS
  <2> PICK q \in DirectoryChecks \cap DOMAIN dict :
         \E k \in {dict[q], <<"filesystems">> \o q} : f = Finding(q, "fail", k, "no")
    BY DEF DirectoryFindings
  <2> PICK k \in {dict[q], <<"filesystems">> \o q} : f = Finding(q, "fail", k, "no")
    OBVIOUS
  <2>3. f.key = k
    BY FindingFields
  <2>1. CASE dict[q] = HostOs
    <3>1. CanonPath(Tail(dict[q])) = q
      BY DEF Dictionaries
    <3> QED BY <2>1, <3>1, HostOsCanon, DirectoriesAreOthers
  <2>2. CASE <<"filesystems">> \o q = HostOs
    BY <2>2, DirectoriesAreOthers
  <2> QED BY <2>1, <2>2, <2>3
<1>6. f \notin BusFindings(host, Perms)
  <2>1. \A k \in DangerousBuses(Perms) : Head(k) # "filesystems"
    BY DEF DangerousBuses, Of
  <2> QED BY <2>1, TwoKeys DEF BusFindings, Finding
<1>7. f \notin PreloadFindings(Perms)
  <2>1. \A g \in PreloadFindings(Perms) : g.key = Preload
    <3>1. CASE Value(Perms, Preload) \in {"malloc", "old malloc"}
      BY <3>1 DEF PreloadFindings
    <3>2. CASE Value(Perms, Preload) \notin {"malloc", "old malloc"}
      <4>1. PICK s : PreloadFindings(Perms) = {Finding(Preload, s, Preload, "malloc")}
        BY <3>2 DEF PreloadFindings
      <4> QED BY <4>1 DEF Finding
    <3> QED BY <3>1, <3>2
  <2> QED BY <2>1, TwoKeys
<1>8. f \notin ArbitraryFindings(host, Perms, dict)
  <2>1. PICK s : ArbitraryFindings(host, Perms, dict) \subseteq {Finding(NoKey, s, NoKey, "none")}
    BY DEF ArbitraryFindings
  <2>2. NoKey # HostOs
    BY DEF NoKey, HostOs
  <2> QED BY <2>1, <2>2, FindingFields
<1> QED BY <1>1, <1>2, <1>3, <1>4, <1>5, <1>6, <1>7, <1>8 DEF Findings
-----------------------------------------------------------------------------
(* The inductive invariant.                                                 *)

\* Each variable that is updated in part has its fields.
Shape ==
  /\ overrides = [layer \in Layers |-> overrides[layer]]
  /\ hardening = [step |-> hardening.step, has |-> hardening.has, file |-> hardening.file]
  /\ hardening.step \in {"idle", "read", "rewrite", "apply"}
  /\ hardening.has \subseteq {HostOs, Preload}
  /\ locking \in 0..4

\* What the global overrides grant to an app without its own.
Global == OverrideStatus(overrides.global)

\* An app with these overrides, beside the global ones, is hardened.
HardFile(file) ==
  /\ Value(file, HostOs) # "no"
  /\ HostOs \in DOMAIN file \/ HostOs \in Global
  /\ Value(file, Preload) = "malloc" \/ (Preload \notin DOMAIN file /\ Preload \in Global)

\* What a run relies on is still there, and after the rewriting nothing of the app's own
\* is in its way.
RunInv ==
  /\ "harden" \in calm \cup done /\ hardening.step # "idle" => hardening.has \subseteq Global
  /\ "harden" \in calm /\ hardening.step = "rewrite" => hardening.file = overrides.app
  /\ "harden" \in calm /\ hardening.step = "apply" =>
       /\ HostOs \in hardening.has => Value(overrides.app, HostOs) # "no"
       /\ Preload \in hardening.has => Preload \notin DOMAIN overrides.app

\* What has been hardened stays so, and will be when a further run writes what it has read.
DoneInv ==
  /\ "harden" \in done => HardFile(overrides.app)
  /\ "harden" \in done /\ hardening.step = "rewrite" => HardFile(hardening.file)
  /\ "all" \in done => {HostOs, Preload} \subseteq Global

HardenInv == Shape /\ RunInv /\ DoneInv

\* At first nothing is overridden, and nothing done.
LEMMA HardenInit == Init => HardenInv
BY DEF Init, HardenInv, Shape, RunInv, DoneInv, Idle, Layers

\* A step that changes no override of the two keys in the global file leaves Global alone.
LEMMA SameGlobal ==
  ASSUME Value(overrides'.global, HostOs) = Value(overrides.global, HostOs),
         Value(overrides'.global, Preload) = Value(overrides.global, Preload)
  PROVE  Global' = Global
BY DEF Global, OverrideStatus

\* HardenAll makes the global overrides grant both.
LEMMA HardenAllPreserves == HardenInv /\ HardenAll => HardenInv'
<1> SUFFICES ASSUME HardenInv, HardenAll PROVE HardenInv'
  OBVIOUS
<1>1. overrides' = [overrides EXCEPT !["global"] = Overlay(Malloc, overrides.global)]
  BY DEF HardenAll, Override, HardenInv, Shape, Layers
<1>2. overrides'.app = overrides.app /\ overrides'.global = Overlay(Malloc, overrides.global)
  BY <1>1 DEF HardenInv, Shape, Layers
<1>3. DOMAIN Malloc = {HostOs, Preload} /\ Malloc[HostOs] = "ro" /\ Malloc[Preload] = "malloc"
  BY TwoKeys DEF Malloc
<1>4. Global' = {HostOs, Preload}
  BY <1>2, <1>3, OverlaySets DEF Global, OverrideStatus
<1>5. Shape'
  BY <1>1 DEF HardenAll, HardenInv, Shape, Layers
<1>6. RunInv'
  BY <1>2, <1>4, <1>5 DEF HardenAll, HardenInv, RunInv, Shape
<1>7. DoneInv'
  BY <1>2, <1>4 DEF HardenAll, HardenInv, DoneInv, HardFile
<1> QED BY <1>5, <1>6, <1>7 DEF HardenInv

\* A run begins: what it is going to rely on is there.
LEMMA HardenReadsGlobalPreserves == HardenInv /\ HardenReadsGlobal => HardenInv'
<1> SUFFICES ASSUME HardenInv, HardenReadsGlobal PROVE HardenInv'
  OBVIOUS
<1>1. overrides' = overrides /\ Global' = Global
  BY DEF HardenReadsGlobal, Global, OverrideStatus
<1>2. /\ hardening'.step \in {"apply", "read"} /\ hardening'.has = Global
      /\ hardening'.step = "apply" => Global = {}
  BY DEF HardenReadsGlobal, Global
<1>3. Shape'
  <2>1. Global \subseteq {HostOs, Preload}
    BY DEF Global, OverrideStatus
  <2> QED BY <1>1, <1>2, <2>1 DEF HardenReadsGlobal, HardenInv, Shape
<1>4. RunInv'
  BY <1>1, <1>2 DEF HardenInv, RunInv
<1>5. DoneInv'
  BY <1>1, <1>2 DEF HardenReadsGlobal, HardenInv, DoneInv, HardFile
<1> QED BY <1>3, <1>4, <1>5 DEF HardenInv

\* The file is read: it is the app's, and hard if that is.
LEMMA HardenReadsAppPreserves == HardenInv /\ HardenReadsApp => HardenInv'
<1> SUFFICES ASSUME HardenInv, HardenReadsApp PROVE HardenInv'
  OBVIOUS
<1>1. overrides' = overrides /\ Global' = Global
  BY DEF HardenReadsApp, Global, OverrideStatus
<1>2. hardening' = [step |-> "rewrite", has |-> hardening.has, file |-> overrides.app]
  BY DEF HardenReadsApp, HardenInv, Shape
<1>3. Shape'
  BY <1>1, <1>2 DEF HardenReadsApp, HardenInv, Shape
<1>4. RunInv'
  BY <1>1, <1>2 DEF HardenReadsApp, HardenInv, RunInv
<1>5. DoneInv'
  BY <1>1, <1>2 DEF HardenReadsApp, HardenInv, DoneInv, HardFile
<1> QED BY <1>3, <1>4, <1>5 DEF HardenInv

\* What is removed is of the two keys.
LEMMA UnwantedKeys ==
  ASSUME NEW file, NEW has
  PROVE  /\ Unwanted(file, has) \subseteq {HostOs, Preload}
         /\ HostOs \in Unwanted(file, has) <=> HostOs \in has /\ Value(file, HostOs) = "no"
         /\ Preload \in Unwanted(file, has) <=> Preload \in has
BY TwoKeys DEF Unwanted

\* The file is written: without what is in the way, and still hard if it was.
LEMMA HardenRewritesAppPreserves == HardenInv /\ HardenRewritesApp => HardenInv'
<1> SUFFICES ASSUME HardenInv, HardenRewritesApp PROVE HardenInv'
  OBVIOUS
<1> DEFINE gone == Unwanted(hardening.file, hardening.has)
<1>1. \/ overrides' = overrides /\ gone \cap DOMAIN hardening.file = {}
      \/ overrides' = [overrides EXCEPT !["app"] = Without(hardening.file, gone)]
  BY DEF HardenRewritesApp
<1>2. overrides'.global = overrides.global /\ Global' = Global
  BY <1>1 DEF HardenInv, Shape, Layers, Global, OverrideStatus
<1>3. \/ overrides'.app = overrides.app /\ gone \cap DOMAIN hardening.file = {}
      \/ overrides'.app = Without(hardening.file, gone)
  BY <1>1 DEF HardenInv, Shape, Layers
<1>4. hardening' = [step |-> "apply", has |-> hardening.has, file |-> NoOverrides]
  BY DEF HardenRewritesApp, HardenInv, Shape
<1>5. Shape'
  BY <1>1, <1>4 DEF HardenRewritesApp, HardenInv, Shape, Layers
<1>6. RunInv'
  <2>1. ASSUME "harden" \in calm
        PROVE  /\ HostOs \in hardening.has => Value(overrides'.app, HostOs) # "no"
               /\ Preload \in hardening.has => Preload \notin DOMAIN overrides'.app
    <3>1. hardening.file = overrides.app
      BY <2>1 DEF HardenRewritesApp, HardenInv, RunInv
    <3>2. CASE overrides'.app = overrides.app /\ gone \cap DOMAIN hardening.file = {}
      BY <3>1, <3>2, UnwantedKeys DEF Value
    <3>3. CASE overrides'.app = Without(hardening.file, gone)
      BY <3>3, UnwantedKeys DEF Without, Value
    <3> QED BY <1>3, <3>2, <3>3
  <2> QED BY <1>2, <1>4, <2>1 DEF HardenRewritesApp, HardenInv, RunInv
<1>7. DoneInv'
  <2>1. ASSUME "harden" \in done
        PROVE  HardFile(overrides.app)' /\ hardening.has \subseteq Global
    <3>1. HardFile(hardening.file) /\ HardFile(overrides.app) /\ hardening.has \subseteq Global
      BY <2>1 DEF HardenRewritesApp, HardenInv, DoneInv, RunInv
    <3>2. CASE overrides'.app = overrides.app
      BY <1>2, <3>1, <3>2 DEF HardFile
    <3>3. CASE overrides'.app = Without(hardening.file, gone)
      <4>1. HostOs \notin gone /\ (Preload \in gone <=> Preload \in hardening.has)
        BY <3>1, UnwantedKeys DEF HardFile
      <4>2. /\ Value(overrides'.app, HostOs) = Value(hardening.file, HostOs)
            /\ HostOs \in DOMAIN overrides'.app <=> HostOs \in DOMAIN hardening.file
        BY <3>3, <4>1, WithoutMisses
      <4>3. CASE Preload \in gone
        <5>1. Preload \notin DOMAIN overrides'.app
          BY <3>3, <4>3 DEF Without
        <5> QED BY <1>2, <3>1, <4>1, <4>2, <4>3, <5>1 DEF HardFile
      <4>4. CASE Preload \notin gone
        <5>1. /\ Value(overrides'.app, Preload) = Value(hardening.file, Preload)
              /\ Preload \in DOMAIN overrides'.app <=> Preload \in DOMAIN hardening.file
          BY <3>3, <4>4, WithoutMisses
        <5> QED BY <1>2, <3>1, <4>2, <5>1 DEF HardFile
      <4> QED BY <4>3, <4>4
    <3> QED BY <1>3, <3>1, <3>2, <3>3
  <2> QED BY <1>2, <1>4, <2>1 DEF HardenRewritesApp, HardenInv, DoneInv
<1> QED BY <1>5, <1>6, <1>7 DEF HardenInv

\* What harden_flatpak.py leaves to the app's own overrides.
LEMMA MallocWithout ==
  ASSUME NEW has
  PROVE  LET rest == Without(Malloc, has)
         IN  /\ DOMAIN rest = {HostOs, Preload} \ has
             /\ HostOs \in DOMAIN rest => rest[HostOs] = "ro"
             /\ Preload \in DOMAIN rest => rest[Preload] = "malloc"
BY TwoKeys DEF Without, Malloc

\* The rest is applied: the app is hardened if the run was calm, or if it was before.
LEMMA HardenAppliesPreserves == HardenInv /\ HardenApplies => HardenInv'
<1> SUFFICES ASSUME HardenInv, HardenApplies PROVE HardenInv'
  OBVIOUS
<1> DEFINE rest == Without(Malloc, hardening.has)
<1>1. overrides' = [overrides EXCEPT !["app"] = Overlay(rest, overrides.app)]
  BY DEF HardenApplies, Override
<1>2. overrides'.global = overrides.global /\ Global' = Global
  BY <1>1 DEF HardenInv, Shape, Layers, Global, OverrideStatus
<1>3. overrides'.app = Overlay(rest, overrides.app)
  BY <1>1 DEF HardenInv, Shape, Layers
<1>4. hardening' = Idle
  BY DEF HardenApplies
<1>5. Shape'
  BY <1>1, <1>4 DEF HardenApplies, HardenInv, Shape, Layers, Idle
<1>6. RunInv'
  BY <1>4 DEF RunInv, Idle
<1>7. /\ HostOs \in DOMAIN rest <=> HostOs \notin hardening.has
      /\ Preload \in DOMAIN rest <=> Preload \notin hardening.has
      /\ HostOs \in DOMAIN rest => rest[HostOs] = "ro"
      /\ Preload \in DOMAIN rest => rest[Preload] = "malloc"
  BY MallocWithout
<1> HIDE DEF rest
<1>8. ASSUME "harden" \in calm \cup done
      PROVE  HardFile(overrides.app)'
  <2>1. hardening.has \subseteq Global
    BY <1>8 DEF HardenApplies, HardenInv, RunInv
  <2>2. Value(overrides'.app, HostOs) # "no" /\ (HostOs \in DOMAIN overrides'.app \/ HostOs \in Global')
    <3>1. CASE HostOs \in hardening.has
      <4>1. Value(overrides.app, HostOs) # "no"
        BY <1>8, <3>1 DEF HardenApplies, HardenInv, RunInv, DoneInv, HardFile
      <4>2. HostOs \notin DOMAIN rest
        BY <1>7, <3>1
      <4>3. Value(overrides'.app, HostOs) = Value(overrides.app, HostOs)
        BY <1>3, <4>2, OverlayMisses
      <4> QED BY <1>2, <2>1, <3>1, <4>1, <4>3
    <3>2. CASE HostOs \notin hardening.has
      <4>1. HostOs \in DOMAIN rest /\ rest[HostOs] = "ro"
        BY <1>7, <3>2
      <4> QED BY <1>3, <4>1, OverlaySets
    <3> QED BY <3>1, <3>2
  <2>3. \/ Value(overrides'.app, Preload) = "malloc"
        \/ Preload \notin DOMAIN overrides'.app /\ Preload \in Global'
    <3>1. CASE Preload \in hardening.has
      <4>1. /\ Value(overrides'.app, Preload) = Value(overrides.app, Preload)
            /\ Preload \in DOMAIN overrides'.app <=> Preload \in DOMAIN overrides.app
        <5>1. Preload \notin DOMAIN rest
          BY <1>7, <3>1
        <5> QED BY <1>3, <5>1, OverlayMisses
      <4>2. \/ Preload \notin DOMAIN overrides.app
            \/ Value(overrides.app, Preload) = "malloc"
        BY <1>8, <3>1 DEF HardenApplies, HardenInv, RunInv, DoneInv, HardFile
      <4> QED BY <1>2, <2>1, <3>1, <4>1, <4>2
    <3>2. CASE Preload \notin hardening.has
      <4>1. Preload \in DOMAIN rest /\ rest[Preload] = "malloc"
        BY <1>7, <3>2
      <4> QED BY <1>3, <4>1, OverlaySets
    <3> QED BY <3>1, <3>2
  <2> QED BY <2>2, <2>3 DEF HardFile
<1>9. DoneInv'
  BY <1>2, <1>4, <1>8 DEF HardenApplies, HardenInv, DoneInv, Idle
<1> QED BY <1>5, <1>6, <1>9 DEF HardenInv

\* A run that is killed leaves nothing that a later one relies on.
LEMMA HardenKilledPreserves == HardenInv /\ HardenKilled => HardenInv'
<1> SUFFICES ASSUME HardenInv, HardenKilled PROVE HardenInv'
  OBVIOUS
<1>1. overrides' = overrides /\ Global' = Global /\ hardening' = Idle
  BY DEF HardenKilled, Global, OverrideStatus
<1> QED BY <1>1 DEF HardenKilled, HardenInv, Shape, RunInv, DoneInv, HardFile, Idle

\* The lockdown denies other things than the two keys.
LEMMA LockdownDeniesPreserves == HardenInv /\ LockdownDenies => HardenInv'
<1> SUFFICES ASSUME HardenInv, LockdownDenies PROVE HardenInv'
  OBVIOUS
<1> DEFINE denied == [k \in Lists[locking + 1] |-> "no"]
<1>1. Len(Lists) = 4
  BY DEF Lists
<1>2. locking + 1 \in 1..4
  BY <1>1 DEF LockdownDenies, HardenInv, Shape
<1>3. overrides' = [overrides EXCEPT !["global"] = Overlay(denied, overrides.global)]
  BY DEF LockdownDenies, Override
<1>4. overrides'.app = overrides.app /\ overrides'.global = Overlay(denied, overrides.global)
  BY <1>3 DEF HardenInv, Shape, Layers
<1>5. HostOs \notin DOMAIN denied /\ Preload \notin DOMAIN denied
  BY <1>2, ListsMiss
<1>6. Global' = Global
  BY <1>4, <1>5, OverlayMisses, SameGlobal
<1>7. Shape'
  BY <1>2, <1>3 DEF LockdownDenies, HardenInv, Shape, Layers
<1>8. RunInv' /\ DoneInv'
  BY <1>4, <1>6 DEF LockdownDenies, HardenInv, RunInv, DoneInv, HardFile
<1> QED BY <1>7, <1>8 DEF HardenInv

\* And grants Flatseal other things, after which a run for Flatseal is not calm.
LEMMA LockdownGrantsPreserves == HardenInv /\ LockdownGrantsFlatseal => HardenInv'
<1> SUFFICES ASSUME HardenInv, LockdownGrantsFlatseal PROVE HardenInv'
  OBVIOUS
<1>1. CASE host.name # "Flatseal"
  <2>1. overrides' = overrides /\ Global' = Global /\ hardening' = hardening
        /\ calm' \subseteq calm /\ ("harden" \in done' => "harden" \in done)
        /\ ("all" \in done' => "all" \in done) /\ locking' = 0
    BY <1>1 DEF LockdownGrantsFlatseal, Global, OverrideStatus
  <2> QED BY <2>1 DEF HardenInv, Shape, RunInv, DoneInv, HardFile
<1>2. CASE host.name = "Flatseal"
  <2> DEFINE granted == [k \in FlatsealNames |-> "talk"]
  <2>1. overrides' = [overrides EXCEPT !["app"] = Overlay(granted, overrides.app)]
    BY <1>2 DEF LockdownGrantsFlatseal, Override
  <2>2. overrides'.global = overrides.global /\ Global' = Global
    BY <2>1 DEF HardenInv, Shape, Layers, Global, OverrideStatus
  <2>3. overrides'.app = Overlay(granted, overrides.app)
    BY <2>1 DEF HardenInv, Shape, Layers
  <2>4. hardening' = hardening /\ "harden" \notin calm' /\ locking' = 0
        /\ ("harden" \in done' => "harden" \in done) /\ ("all" \in done' => "all" \in done)
    BY <1>2 DEF LockdownGrantsFlatseal
  <2>5. HardFile(overrides.app) => HardFile(overrides.app)'
    BY <2>2, <2>3, FlatsealMisses, OverlayMisses DEF HardFile
  <2> HIDE DEF granted
  <2>6. Shape'
    <3>1. overrides' = [layer \in Layers |-> overrides'[layer]]
      BY <2>1 DEF HardenInv, Shape, Layers
    <3> QED BY <2>4, <3>1 DEF HardenInv, Shape
  <2>7. RunInv'
    BY <2>2, <2>4 DEF HardenInv, RunInv
  <2>8. HardFile(hardening.file) => HardFile(hardening.file)'
    BY <2>2, <2>4 DEF HardFile
  <2>9. DoneInv'
    BY <2>2, <2>4, <2>5, <2>8 DEF HardenInv, DoneInv
  <2> QED BY <2>6, <2>7, <2>9 DEF HardenInv
<1> QED BY <1>1, <1>2

\* Advice that is followed grants the access, or is about something else.
LEMMA FollowAdvicePreserves ==
  ASSUME HardenInv, NEW f \in Advised, FollowAdvice(f)
  PROVE  HardenInv'
<1> DEFINE set == [k \in {f.key} |-> f.value]
<1>1. overrides' = [overrides EXCEPT !["app"] = Overlay(set, overrides.app)]
  BY DEF FollowAdvice, Followed, Override
<1>2. overrides'.global = overrides.global /\ Global' = Global
  BY <1>1 DEF HardenInv, Shape, Layers, Global, OverrideStatus
<1>3. overrides'.app = Overlay(set, overrides.app)
  BY <1>1 DEF HardenInv, Shape, Layers
<1>4. ASSUME HardFile(overrides.app)
      PROVE  HardFile(overrides.app)'
  <2>1. /\ Value(overrides'.app, Preload) = Value(overrides.app, Preload)
        /\ Preload \in DOMAIN overrides'.app <=> Preload \in DOMAIN overrides.app
    BY <1>3, OverlayMisses DEF FollowAdvice
  <2>2. CASE f.key = HostOs
    <3>1. f.value = "ro"
      BY <2>2, AdviceOnHostOs
    <3> QED BY <1>2, <1>3, <1>4, <2>1, <2>2, <3>1, OverlaySets DEF HardFile
  <2>3. CASE f.key # HostOs
    BY <1>2, <1>3, <1>4, <2>1, <2>3, OverlayMisses DEF HardFile
  <2> QED BY <2>2, <2>3
<1> QED BY <1>1, <1>2, <1>4 DEF FollowAdvice, HardenInv, Shape, Layers, RunInv, DoneInv, HardFile

\* Stopping the lockdown, edits and resets either change nothing or end every claim.
LEMMA OthersPreserve ==
  ASSUME HardenInv
  PROVE  /\ LockdownStops => HardenInv'
         /\ ResetGlobal => HardenInv'
         /\ \A e \in UserEdits : UserEdit(e[1], e[2], e[3]) => HardenInv'
         /\ UNCHANGED vars => HardenInv'
<1>1. ASSUME LockdownStops PROVE HardenInv'
  <2>1. overrides' = overrides /\ Global' = Global /\ hardening' = hardening
    BY <1>1 DEF LockdownStops, Global, OverrideStatus
  <2> QED BY <1>1, <2>1 DEF LockdownStops, HardenInv, Shape, RunInv, DoneInv, HardFile
<1>2. ASSUME ResetGlobal PROVE HardenInv'
  BY <1>2 DEF ResetGlobal, HardenInv, Shape, Layers, RunInv, DoneInv
<1>3. ASSUME NEW e \in UserEdits, UserEdit(e[1], e[2], e[3]) PROVE HardenInv'
  BY <1>3 DEF UserEdit, Override, HardenInv, Shape, Layers, RunInv, DoneInv
<1>4. ASSUME UNCHANGED vars PROVE HardenInv'
  BY <1>4 DEF vars, HardenInv, Shape, RunInv, DoneInv, HardFile, Global, OverrideStatus
<1> QED BY <1>1, <1>2, <1>3, <1>4

\* No step breaks the invariant.
LEMMA HardenStep == HardenInv /\ [Next]_vars => HardenInv'
<1> SUFFICES ASSUME HardenInv, [Next]_vars PROVE HardenInv'
  OBVIOUS
<1>1. CASE HardenAll BY <1>1, HardenAllPreserves
<1>2. CASE HardenReadsGlobal BY <1>2, HardenReadsGlobalPreserves
<1>3. CASE HardenReadsApp BY <1>3, HardenReadsAppPreserves
<1>4. CASE HardenRewritesApp BY <1>4, HardenRewritesAppPreserves
<1>5. CASE HardenApplies BY <1>5, HardenAppliesPreserves
<1>6. CASE HardenKilled BY <1>6, HardenKilledPreserves
<1>7. CASE LockdownDenies BY <1>7, LockdownDeniesPreserves
<1>8. CASE LockdownGrantsFlatseal BY <1>8, LockdownGrantsPreserves
<1>9. CASE \E f \in Advised : FollowAdvice(f) BY <1>9, FollowAdvicePreserves
<1> QED BY <1>1, <1>2, <1>3, <1>4, <1>5, <1>6, <1>7, <1>8, <1>9, OthersPreserve DEF Next

-----------------------------------------------------------------------------
(* Theorems.                                                                *)

\* The invariant holds always.
THEOREM HardenCorrect == Spec => []HardenInv
BY HardenInit, HardenStep, PTL DEF Spec

\* The audit reports neither of the two of an app that is hardened.
LEMMA HardIsSilent ==
  ASSUME HardFile(overrides.app)
  PROVE  /\ \A dict \in Dictionaries(Perms) : MallocAccessFindings(dict) = {}
         /\ PreloadFindings(Perms) = {}
<1> DEFINE below == Overlay(overrides.global, manifest)
<1>1. Perms = Overlay(overrides.app, below)
  BY DEF Perms, Merged
<1>2. HostOs \in DOMAIN Perms /\ Perms[HostOs] # "no"
  <2>1. CASE HostOs \in DOMAIN overrides.app
    BY <1>1, <2>1 DEF HardFile, Overlay, Value
  <2>2. CASE HostOs \notin DOMAIN overrides.app
    <3>1. HostOs \in DOMAIN overrides.global /\ overrides.global[HostOs] # "no"
      BY <2>2, TwoKeys DEF HardFile, Global, OverrideStatus, Value
    <3> QED BY <1>1, <2>2, <3>1 DEF Overlay
  <2> QED BY <2>1, <2>2
<1>3. Value(Perms, Preload) = "malloc"
  <2>1. CASE Preload \in DOMAIN overrides.app
    BY <1>1, <2>1 DEF HardFile, Overlay, Value
  <2>2. CASE Preload \notin DOMAIN overrides.app
    <3>1. Preload \in DOMAIN overrides.global /\ overrides.global[Preload] = "malloc"
      BY <2>2, TwoKeys DEF HardFile, Global, OverrideStatus, Value
    <3> QED BY <1>1, <2>2, <3>1 DEF Overlay, Value
  <2> QED BY <2>1, <2>2
<1>4. ASSUME NEW dict \in Dictionaries(Perms) PROVE MallocAccessFindings(dict) = {}
  <2>1. HostOs \in Granted(Perms, "filesystems")
    BY <1>2, TwoKeys DEF Granted, Of
  <2>2. <<"host-os">> \in DOMAIN dict
    BY <2>1, HostOsCanon DEF Dictionaries
  <2> QED BY <2>2 DEF MallocAccessFindings
<1>5. PreloadFindings(Perms) = {}
  BY <1>3 DEF PreloadFindings
<1> QED BY <1>4, <1>5

\* For any app, manifest and edits: harden_flatpak.py ends what the audit reports of it, as
\* long as nobody edits or resets the overrides.
THEOREM HardenedIsSilent == Spec => []HardenSilences
<1>1. HardenInv => HardenSilences
  <2> SUFFICES ASSUME HardenInv,
                      \/ "harden" \in done
                      \/ "all" \in done /\ {HostOs, Preload} \cap DOMAIN overrides.app = {}
               PROVE  HardFile(overrides.app)
    BY HardIsSilent DEF HardenSilences
  <2> QED BY DEF HardenInv, DoneInv, HardFile, Value
<1> QED BY <1>1, HardenCorrect, PTL

\* For any app, manifest and edits: a run loses no override of anybody else's, but for those
\* that are set while it is under way.
THEOREM OthersKept == Spec => HardenKeepsOverrides
<1>1. ASSUME HardenInv, HardenRewritesApp, "harden" \in calm
      PROVE  Others(overrides') = Others(overrides)
  <2> DEFINE gone == Unwanted(hardening.file, hardening.has)
  <2>1. hardening.file = overrides.app
    BY <1>1 DEF HardenRewritesApp, HardenInv, RunInv
  <2>2. Without(Without(overrides.app, gone), {HostOs, Preload}) = Without(overrides.app, {HostOs, Preload})
    BY UnwantedKeys DEF Without
  <2>3. \/ overrides' = overrides
        \/ overrides' = [overrides EXCEPT !["app"] = Without(overrides.app, gone)]
    BY <1>1, <2>1 DEF HardenRewritesApp
  <2>4. overrides'.global = overrides.global
        /\ Without(overrides'.app, {HostOs, Preload}) = Without(overrides.app, {HostOs, Preload})
    BY <1>1, <2>2, <2>3 DEF HardenInv, Shape, Layers
  <2> QED BY <2>4 DEF Others, Layers
<1>2. ASSUME HardenInv, HardenApplies
      PROVE  Others(overrides') = Others(overrides)
  <2> DEFINE rest == Without(Malloc, hardening.has)
  <2>1. overrides' = [overrides EXCEPT !["app"] = Overlay(rest, overrides.app)]
    BY <1>2 DEF HardenApplies, Override
  <2>2. overrides'.global = overrides.global /\ overrides'.app = Overlay(rest, overrides.app)
    BY <1>2, <2>1 DEF HardenInv, Shape, Layers
  <2>3. DOMAIN rest \subseteq {HostOs, Preload}
    BY MallocWithout
  <2>4. Without(overrides'.app, {HostOs, Preload}) = Without(overrides.app, {HostOs, Preload})
    BY <2>2, <2>3, OverlayKeepsOthers
  <2> QED BY <2>2, <2>4 DEF Others, Layers
<1>3. ASSUME HardenInv, HardenAll
      PROVE  Others(overrides') = Others(overrides)
  <2>1. overrides' = [overrides EXCEPT !["global"] = Overlay(Malloc, overrides.global)]
    BY <1>3 DEF HardenAll, Override
  <2>2. overrides'.app = overrides.app /\ overrides'.global = Overlay(Malloc, overrides.global)
    BY <1>3, <2>1 DEF HardenInv, Shape, Layers
  <2>3. DOMAIN Malloc \subseteq {HostOs, Preload}
    BY DEF Malloc
  <2>4. Without(overrides'.global, {HostOs, Preload}) = Without(overrides.global, {HostOs, Preload})
    BY <2>2, <2>3, OverlayKeepsOthers
  <2> QED BY <2>2, <2>4 DEF Others, Layers
<1>4. HardenInv /\ [Next]_vars =>
        [(HardenRewritesApp /\ "harden" \in calm) \/ HardenApplies \/ HardenAll
           => Others(overrides') = Others(overrides)]_vars
  BY <1>1, <1>2, <1>3
<1> QED BY <1>4, HardenCorrect, PTL DEF Spec, HardenKeepsOverrides

-----------------------------------------------------------------------------
(* Keys are sequences.                                                      *)

\* A sequence is a key, whatever its words.
LEMMA SequencesAreKeys ==
  ASSUME NEW S, NEW k \in Seq(S), k # <<>>
  PROVE  IsKey(k)
BY SeqOfRange DEF IsKey

LEMMA ShortKeys == \A a, b, c : IsKey(<<a>>) /\ IsKey(<<a, b>>) /\ IsKey(<<a, b, c>>)
<1> TAKE a, b, c
<1> DEFINE S == {a, b, c}
<1>1. <<a>> \in Seq(S) /\ <<a, b>> \in Seq(S) /\ <<a, b, c>> \in Seq(S)
  OBVIOUS
<1> QED BY <1>1, SequencesAreKeys

LEMMA LongKeys == \A a, b, c, d, e, f : IsKey(<<a, b, c, d>>) /\ IsKey(<<a, b, c, d, e, f>>)
<1> TAKE a, b, c, d, e, f
<1> DEFINE S == {a, b, c, d, e, f}
<1>1. <<a, b, c, d>> \in Seq(S) /\ <<a, b, c, d, e, f>> \in Seq(S)
  OBVIOUS
<1> QED BY <1>1, SequencesAreKeys

LEMMA FirstAndRest ==
  ASSUME NEW R, NEW q \in Seq(R), NEW a
  PROVE  /\ <<a>> \o q # <<>> /\ <<a>> \o q \in Seq(R \cup {a})
         /\ Head(<<a>> \o q) = a /\ Tail(<<a>> \o q) = q
<1> DEFINE S == R \cup {a}
<1>1. q \in Seq(S)
  BY SeqMonotonic
<1>2. <<a>> \in Seq(S) /\ Len(<<a>>) = 1 /\ <<a>>[1] = a
  OBVIOUS
<1> HIDE DEF S
<1>3. <<a>> \o q \in Seq(S) /\ Len(<<a>> \o q) = 1 + Len(q)
      /\ \A i \in 1..(1 + Len(q)) : (<<a>> \o q)[i] = IF i <= 1 THEN <<a>>[i] ELSE q[i - 1]
  BY <1>1, <1>2, ConcatProperties
<1>4. Len(q) \in Nat
  BY <1>1, LenProperties
<1>5. <<a>> \o q # <<>>
  BY <1>3, <1>4
<1>6. Tail(<<a>> \o q) \in Seq(S) /\ Len(Tail(<<a>> \o q)) = Len(q)
      /\ \A i \in 1..Len(q) : Tail(<<a>> \o q)[i] = q[i]
  BY <1>3, <1>4, <1>5, HeadTailProperties
<1>7. Tail(<<a>> \o q) = q
  BY <1>1, <1>6, SeqEqual
<1>8. Head(<<a>> \o q) = a
  BY <1>2, <1>3, <1>4
<1> QED BY <1>3, <1>5, <1>7, <1>8 DEF S

\* A path is a key, too; and with the category before it.
LEMMA LongerKey ==
  ASSUME NEW q, IsKey(q), NEW a
  PROVE  IsKey(<<a>> \o q)
<1>1. q \in Seq(Range(q))
  BY DEF IsKey
<1>2. <<a>> \o q \in Seq(Range(q) \cup {a}) /\ <<a>> \o q # <<>>
  BY <1>1, FirstAndRest
<1> QED BY <1>2, SequencesAreKeys

\* A key is its first word and the others.
LEMMA KeyIsBoth ==
  ASSUME NEW k, IsKey(k)
  PROVE  /\ k = <<Head(k)>> \o Tail(k)
         /\ Tail(k) \in Seq(Range(k))
<1>1. k \in Seq(Range(k)) /\ k # <<>>
  BY DEF IsKey
<1> DEFINE S == Range(k)
<1> HIDE DEF S
<1>2. Head(k) = k[1] /\ k[1] \in S /\ Tail(k) \in Seq(S) /\ Len(Tail(k)) = Len(k) - 1
      /\ \A i \in 1..Len(Tail(k)) : Tail(k)[i] = k[i + 1]
  BY <1>1, HeadTailProperties DEF S
<1>3. <<Head(k)>> \in Seq(S) /\ Len(<<Head(k)>>) = 1 /\ <<Head(k)>>[1] = k[1]
  BY <1>2
<1>4. Len(k) \in Nat \ {0}
  BY <1>1, EmptySeq DEF S
<1>5. /\ <<Head(k)>> \o Tail(k) \in Seq(S)
      /\ Len(<<Head(k)>> \o Tail(k)) = Len(k)
      /\ \A i \in 1..Len(k) : (<<Head(k)>> \o Tail(k))[i] = IF i <= 1 THEN <<Head(k)>>[i] ELSE Tail(k)[i - 1]
  BY <1>2, <1>3, <1>4, ConcatProperties
<1>6. \A i \in 1..Len(k) : (<<Head(k)>> \o Tail(k))[i] = k[i]
  BY <1>2, <1>3, <1>4, <1>5
<1> QED BY <1>1, <1>2, <1>5, <1>6, SeqEqual DEF S

\* The keys that the programs write, and the audit's tables have.
LEMMA TheseAreKeys ==
  /\ IsKey(HostOs) /\ IsKey(Preload)
  /\ \A i \in 1..4 : \A k \in Lists[i] : IsKey(k)
  /\ \A k \in FlatsealNames : IsKey(k)
  /\ \A c \in PermissionChecks : IsKey(Permission(c))
  /\ \A q \in DirectoryChecks : IsKey(q) /\ IsKey(<<"filesystems">> \o q)
<1>1. IsKey(HostOs) /\ IsKey(Preload)
  BY ShortKeys DEF HostOs, Preload
<1>2. \A c \in PermissionChecks : IsKey(Permission(c))
  BY ShortKeys DEF Permission
<1>3. \A k \in Lists[1] : IsKey(k)
  BY ShortKeys DEF Lists, InCategory
<1>4. \A k \in Lists[2] : IsKey(k)
  BY ShortKeys DEF Lists, InCategory
<1>5. \A k \in Lists[3] : IsKey(k)
  BY ShortKeys DEF Lists, InCategory
<1>6. ASSUME NEW k \in Lists[4] PROVE IsKey(k)
  <2>1. k = <<"session", "org", "kde", "*">> \/ k = <<"session", "org", "freedesktop", "Flatpak">>
        \/ k = <<"session", "org", "freedesktop", "impl", "portal", "PermissionStore">>
        \/ k = <<"system", "org", "freedesktop", "systemd1">> \/ k = <<"system", "org", "freedesktop", "login1">>
    BY <1>6 DEF Lists
  <2> QED BY <2>1, LongKeys, Zenon
<1>7. ASSUME NEW k \in FlatsealNames PROVE IsKey(k)
  <2>1. k = <<"session", "org", "gnome", "Software">>
        \/ k = <<"session", "org", "freedesktop", "impl", "portal", "PermissionStore">>
    BY DEF FlatsealNames
  <2> QED BY <2>1, LongKeys, Zenon
<1>8. \A q \in DirectoryChecks : IsKey(q)
  BY ShortKeys DEF DirectoryChecks
<1> QED BY <1>1, <1>2, <1>3, <1>4, <1>5, <1>6, <1>7, <1>8, LongerKey

-----------------------------------------------------------------------------
(* What the audit reports, of any permissions.                              *)

Keyed(p) == \A k \in DOMAIN p : IsKey(k)

Paths(p) == {CanonPath(Tail(k)) : k \in Granted(p, "filesystems")}

LEMMA Entry ==
  ASSUME NEW p, NEW dict \in Dictionaries(p)
  PROVE  /\ DOMAIN dict = Paths(p)
         /\ \A q \in DOMAIN dict :
              dict[q] \in Granted(p, "filesystems") /\ CanonPath(Tail(dict[q])) = q
BY DEF Dictionaries, Paths

\* The option that is advised for a directory names the entry that the app has.
LEMMA NamedAsGranted ==
  ASSUME NEW k, IsKey(k), Head(k) = "filesystems", ~IsAliased(Tail(k))
  PROVE  k = <<"filesystems">> \o CanonPath(Tail(k))
BY KeyIsBoth DEF CanonPath

LEMMA DirectoryAdvice ==
  ASSUME NEW p, Keyed(p), NEW dict \in Dictionaries(p)
  PROVE  DirectoryFindings(dict) = {Finding(q, "fail", dict[q], "no") : q \in DirectoryChecks \cap DOMAIN dict}
<1>1. ASSUME NEW q \in DirectoryChecks \cap DOMAIN dict, ~IsAliased(Tail(dict[q]))
      PROVE  dict[q] = <<"filesystems">> \o q
  <2>1. /\ dict[q] \in DOMAIN p /\ Head(dict[q]) = "filesystems"
        /\ CanonPath(Tail(dict[q])) = q
    BY Entry DEF Granted, Of
  <2> QED BY <1>1, <2>1, NamedAsGranted DEF Keyed
<1>2. \A q \in DirectoryChecks \cap DOMAIN dict :
        (IF IsAliased(Tail(dict[q])) THEN dict[q] ELSE <<"filesystems">> \o q) = dict[q]
  BY <1>1
<1> QED BY <1>2, Zenon DEF DirectoryFindings

\* What is reported, and what is advised.
PermissionTold(h, p, f) ==
  \E c \in PermissionChecks :
    /\ Permission(c) \notin Irrelevant(h) /\ Value(p, Permission(c)) = "yes"
    /\ f.about = Permission(c) /\ f.key = Permission(c) /\ f.value = "no"

AccessTold(dict, f) ==
  <<"host-os">> \notin DOMAIN dict /\ f.about = HostOs /\ f.key = HostOs /\ f.value = "ro"

OverridesOpen(h, p, dict) ==
  h.name \notin Expected /\ OverridesPath \in DOMAIN dict /\ p[dict[OverridesPath]] # "ro"

OverridesTold(h, p, dict, f) ==
  /\ OverridesOpen(h, p, dict)
  /\ f.about = OverridesPath /\ f.key = dict[OverridesPath] /\ f.value = "no"

DirectoryTold(dict, f) ==
  \E q \in DirectoryChecks \cap DOMAIN dict : f.about = q /\ f.key = dict[q] /\ f.value = "no"

BusTold(h, p, f) ==
  /\ h.name \notin Expected
  /\ \E k \in DangerousBuses(p) : f.about = k /\ f.key = k /\ f.value = "no"

PreloadTold(p, f) ==
  /\ Value(p, Preload) \notin {"malloc", "old malloc"}
  /\ f.about = Preload /\ f.key = Preload /\ f.value = "malloc"

ArbitraryTold(h, p, dict, f) ==
  /\ \/ OverridesOpen(h, p, dict) \/ ArbitraryDirectories \cap DOMAIN dict # {}
     \/ DangerousBuses(p) # {}
  /\ f.about = NoKey /\ f.key = NoKey
  /\ f.status = IF h.name \in Expected THEN "info" ELSE "fail"

Reported(h, p, dict, f) ==
  \/ PermissionTold(h, p, f) \/ AccessTold(dict, f) \/ OverridesTold(h, p, dict, f)
  \/ DirectoryTold(dict, f) \/ BusTold(h, p, f) \/ PreloadTold(p, f)
  \/ ArbitraryTold(h, p, dict, f)

LEMMA FindingIs ==
  ASSUME NEW a, NEW s, NEW k, NEW v
  PROVE  LET f == Finding(a, s, k, v) IN f.about = a /\ f.status = s /\ f.key = k /\ f.value = v
BY DEF Finding

LEMMA WhatIsReported ==
  ASSUME NEW h, NEW p, Keyed(p), NEW dict \in Dictionaries(p), NEW f \in Findings(h, p, dict)
  PROVE  Reported(h, p, dict, f)
<1>1. CASE f \in PredefinedFindings(h, p)
  <2>1. PICK c \in PermissionChecks :
           /\ Permission(c) \notin Irrelevant(h) /\ Value(p, Permission(c)) = "yes"
           /\ f = Finding(Permission(c), c[3], Permission(c), "no")
    BY <1>1 DEF PredefinedFindings
  <2>3. f.about = Permission(c) /\ f.key = Permission(c) /\ f.value = "no"
    BY <2>1, FindingIs
  <2>4. PermissionTold(h, p, f)
    BY <2>1, <2>3 DEF PermissionTold
  <2> QED BY <2>4 DEF Reported
<1>2. CASE f \in MallocAccessFindings(dict)
  <2>1. <<"host-os">> \notin DOMAIN dict /\ f = Finding(HostOs, "warn", HostOs, "ro")
    BY <1>2 DEF MallocAccessFindings
  <2>3. f.about = HostOs /\ f.key = HostOs /\ f.value = "ro"
    BY <2>1, FindingIs
  <2>4. AccessTold(dict, f)
    BY <2>1, <2>3 DEF AccessTold
  <2> QED BY <2>4 DEF Reported
<1>3. CASE f \in OverridesFindings(h, p, dict)
  <2>1. /\ h.name \notin Expected /\ OverridesPath \in DOMAIN dict /\ p[dict[OverridesPath]] # "ro"
        /\ f = Finding(OverridesPath, "fail", dict[OverridesPath], "no")
    BY <1>3 DEF OverridesFindings
  <2>3. f.about = OverridesPath /\ f.key = dict[OverridesPath] /\ f.value = "no"
    BY <2>1, FindingIs
  <2>4. OverridesTold(h, p, dict, f)
    BY <2>1, <2>3 DEF OverridesTold, OverridesOpen
  <2> QED BY <2>4 DEF Reported
<1>4. CASE f \in DirectoryFindings(dict)
  <2>1. PICK q \in DirectoryChecks \cap DOMAIN dict : f = Finding(q, "fail", dict[q], "no")
    BY <1>4, DirectoryAdvice
  <2>3. f.about = q /\ f.key = dict[q] /\ f.value = "no"
    BY <2>1, FindingIs
  <2>4. DirectoryTold(dict, f)
    BY <2>1, <2>3 DEF DirectoryTold
  <2> QED BY <2>4 DEF Reported
<1>5. CASE f \in BusFindings(h, p)
  <2>1. PICK k \in DangerousBuses(p) : h.name \notin Expected /\ f = Finding(k, "fail", k, "no")
    BY <1>5 DEF BusFindings
  <2>3. f.about = k /\ f.key = k /\ f.value = "no"
    BY <2>1, FindingIs
  <2>4. BusTold(h, p, f)
    BY <2>1, <2>3 DEF BusTold
  <2> QED BY <2>4 DEF Reported
<1>6. CASE f \in PreloadFindings(p)
  <2>1. Value(p, Preload) \notin {"malloc", "old malloc"}
    BY <1>6 DEF PreloadFindings
  <2>2. PICK s \in {"info", "warn"} : f = Finding(Preload, s, Preload, "malloc")
    BY <1>6, <2>1 DEF PreloadFindings
  <2>3. f.about = Preload /\ f.key = Preload /\ f.value = "malloc"
    BY <2>2, FindingIs
  <2>4. PreloadTold(p, f)
    BY <2>1, <2>3 DEF PreloadTold
  <2> QED BY <2>4 DEF Reported
<1>7. CASE f \in ArbitraryFindings(h, p, dict)
  <2> DEFINE status == IF h.name \in Expected THEN "info" ELSE "fail"
  <2>1. /\ \/ OverridesFindings(h, p, dict) # {} \/ ArbitraryDirectories \cap DOMAIN dict # {}
           \/ DangerousBuses(p) # {}
        /\ f = Finding(NoKey, status, NoKey, "none")
    BY <1>7 DEF ArbitraryFindings
  <2>2. OverridesFindings(h, p, dict) # {} => OverridesOpen(h, p, dict)
    BY DEF OverridesFindings, OverridesOpen
  <2>3. f.about = NoKey /\ f.key = NoKey /\ f.status = status
    <3> HIDE DEF status
    <3> QED BY <2>1, FindingIs
  <2>4. ArbitraryTold(h, p, dict, f)
    BY <2>1, <2>2, <2>3 DEF ArbitraryTold
  <2> QED BY <2>4 DEF Reported
<1> QED BY <1>1, <1>2, <1>3, <1>4, <1>5, <1>6, <1>7 DEF Findings

\* The converse, for each of the checks.
Told(h, p, dict, a, k) == \E f \in Findings(h, p, dict) : f.about = a /\ f.key = k

LEMMA ItIsReported ==
  ASSUME NEW h, NEW p, Keyed(p), NEW dict \in Dictionaries(p)
  PROVE  /\ \A c \in PermissionChecks :
              Permission(c) \notin Irrelevant(h) /\ Value(p, Permission(c)) = "yes"
                => Told(h, p, dict, Permission(c), Permission(c))
         /\ <<"host-os">> \notin DOMAIN dict => Told(h, p, dict, HostOs, HostOs)
         /\ OverridesOpen(h, p, dict) => Told(h, p, dict, OverridesPath, dict[OverridesPath])
         /\ \A q \in DirectoryChecks \cap DOMAIN dict : Told(h, p, dict, q, dict[q])
         /\ h.name \notin Expected => \A k \in DangerousBuses(p) : Told(h, p, dict, k, k)
         /\ Value(p, Preload) \notin {"malloc", "old malloc"} => Told(h, p, dict, Preload, Preload)
         /\ OverridesOpen(h, p, dict) \/ ArbitraryDirectories \cap DOMAIN dict # {}
            \/ DangerousBuses(p) # {} => Told(h, p, dict, NoKey, NoKey)
<1>0. \A a, s, k, v : Finding(a, s, k, v) \in Findings(h, p, dict) => Told(h, p, dict, a, k)
  BY FindingIs DEF Told
<1>1. ASSUME NEW c \in PermissionChecks, Permission(c) \notin Irrelevant(h), Value(p, Permission(c)) = "yes"
      PROVE  Told(h, p, dict, Permission(c), Permission(c))
  <2>1. Finding(Permission(c), c[3], Permission(c), "no") \in PredefinedFindings(h, p)
    BY <1>1 DEF PredefinedFindings
  <2> QED BY <1>0, <2>1 DEF Findings
<1>2. ASSUME <<"host-os">> \notin DOMAIN dict PROVE Told(h, p, dict, HostOs, HostOs)
  <2>1. Finding(HostOs, "warn", HostOs, "ro") \in MallocAccessFindings(dict)
    BY <1>2 DEF MallocAccessFindings
  <2> QED BY <1>0, <2>1 DEF Findings
<1>3. ASSUME OverridesFindings(h, p, dict) # {} \/ ArbitraryDirectories \cap DOMAIN dict # {}
             \/ DangerousBuses(p) # {}
      PROVE  Told(h, p, dict, NoKey, NoKey)
  <2>1. \E s : Finding(NoKey, s, NoKey, "none") \in ArbitraryFindings(h, p, dict)
    BY <1>3 DEF ArbitraryFindings
  <2> QED BY <1>0, <2>1 DEF Findings
<1>4. ASSUME OverridesOpen(h, p, dict)
      PROVE  Told(h, p, dict, OverridesPath, dict[OverridesPath])
             /\ OverridesFindings(h, p, dict) # {}
  <2>1. Finding(OverridesPath, "fail", dict[OverridesPath], "no") \in OverridesFindings(h, p, dict)
    BY <1>4 DEF OverridesFindings, OverridesOpen
  <2> QED BY <1>0, <2>1 DEF Findings
<1>5. ASSUME NEW q \in DirectoryChecks \cap DOMAIN dict PROVE Told(h, p, dict, q, dict[q])
  <2>1. Finding(q, "fail", dict[q], "no") \in DirectoryFindings(dict)
    BY DirectoryAdvice
  <2> QED BY <1>0, <2>1 DEF Findings
<1>6. ASSUME h.name \notin Expected, NEW k \in DangerousBuses(p) PROVE Told(h, p, dict, k, k)
  <2>1. Finding(k, "fail", k, "no") \in BusFindings(h, p)
    BY <1>6 DEF BusFindings
  <2> QED BY <1>0, <2>1 DEF Findings
<1>7. ASSUME Value(p, Preload) \notin {"malloc", "old malloc"} PROVE Told(h, p, dict, Preload, Preload)
  <2>1. \E s : Finding(Preload, s, Preload, "malloc") \in PreloadFindings(p)
    BY <1>7 DEF PreloadFindings
  <2> QED BY <1>0, <2>1 DEF Findings
<1> QED BY <1>1, <1>2, <1>3, <1>4, <1>5, <1>6, <1>7

\* Each check has its own categories.
LEMMA Heads ==
  /\ Head(HostOs) = "filesystems" /\ Head(Preload) = "env"
  /\ \A c \in PermissionChecks : Head(Permission(c)) \in {"shared", "sockets", "devices", "features"}
  /\ \A p : \A k \in DangerousBuses(p) :
       k \in DOMAIN p /\ Head(k) \in {"session", "system"} /\ p[k] = "talk"
<1>1. Head(HostOs) = "filesystems" /\ Head(Preload) = "env"
  BY DEF HostOs, Preload
<1>2. ASSUME NEW c \in PermissionChecks
      PROVE  Head(Permission(c)) \in {"shared", "sockets", "devices", "features"}
  BY DEF PermissionChecks, Permission
<1>3. ASSUME NEW p, NEW k \in DangerousBuses(p)
      PROVE  k \in DOMAIN p /\ Head(k) \in {"session", "system"} /\ p[k] = "talk"
  BY DEF DangerousBuses, Of
<1> QED BY <1>1, <1>2, <1>3

\* All advice: to grant the access, to load the library, or to deny something else.
Directories == DirectoryChecks \cup {OverridesPath}

Advice(k, v) ==
  \/ k = HostOs /\ v = "ro"
  \/ k = Preload /\ v = "malloc"
  \/ /\ k \notin {HostOs, Preload} /\ v = "no"
     /\ Head(k) = "filesystems" => CanonPath(Tail(k)) \in Directories

LEMMA DirectoryIsNotHostOs == \A q \in Directories : q # <<"host-os">>
BY DirectoriesAreOthers DEF Directories, OverridesPath

LEMMA WhatIsAdvised ==
  ASSUME NEW h, NEW p, Keyed(p), NEW dict \in Dictionaries(p), NEW f, Reported(h, p, dict, f),
         f.key # NoKey
  PROVE  IsKey(f.key) /\ Advice(f.key, f.value)
<1>1. CASE PermissionTold(h, p, f)
  <2>1. PICK c \in PermissionChecks : f.key = Permission(c) /\ f.value = "no"
    BY <1>1 DEF PermissionTold
  <2> QED BY <2>1, Heads, TheseAreKeys DEF Advice
<1>2. CASE AccessTold(dict, f)
  BY <1>2, TheseAreKeys DEF AccessTold, Advice
<1>3. ASSUME NEW q \in Directories \cap DOMAIN dict, f.key = dict[q], f.value = "no"
      PROVE  IsKey(f.key) /\ Advice(f.key, f.value)
  <2>1. /\ dict[q] \in DOMAIN p /\ Head(dict[q]) = "filesystems"
        /\ CanonPath(Tail(dict[q])) = q
    BY <1>3, Entry DEF Granted, Of
  <2>2. dict[q] # HostOs /\ dict[q] # Preload
    BY <2>1, HostOsCanon, DirectoryIsNotHostOs, Heads
  <2> QED BY <1>3, <2>1, <2>2 DEF Keyed, Advice
<1>4. CASE OverridesTold(h, p, dict, f)
  BY <1>3, <1>4 DEF OverridesTold, OverridesOpen, Directories
<1>5. CASE DirectoryTold(dict, f)
  BY <1>3, <1>5 DEF DirectoryTold, Directories
<1>6. CASE BusTold(h, p, f)
  <2>1. PICK k \in DangerousBuses(p) : f.key = k /\ f.value = "no"
    BY <1>6 DEF BusTold
  <2> QED BY <2>1, Heads DEF Keyed, Advice
<1>7. CASE PreloadTold(p, f)
  BY <1>7, TheseAreKeys DEF PreloadTold, Advice
<1> QED BY <1>1, <1>2, <1>4, <1>5, <1>6, <1>7 DEF Reported, ArbitraryTold

-----------------------------------------------------------------------------
(* What following advice does.                                              *)

\* Overrides each of which is advised.
AllAdvised(set) == \A k \in DOMAIN set : Advice(k, set[k])

LEMMA OverlayOfOverlay ==
  \A top, middle, base : Overlay(top, Overlay(middle, base)) = Overlay(Overlay(top, middle), base)
<1> TAKE top, middle, base
<1> DEFINE f == Overlay(top, Overlay(middle, base))
           g == Overlay(Overlay(top, middle), base)
<1>1. DOMAIN f = DOMAIN g
  BY DEF Overlay
<1>2. \A k \in DOMAIN f : f[k] = g[k]
  BY DEF Overlay
<1>3. f = [k \in DOMAIN f |-> f[k]] /\ g = [k \in DOMAIN g |-> g[k]]
  BY DEF Overlay
<1> HIDE DEF f, g
<1>4. [k \in DOMAIN f |-> f[k]] = [k \in DOMAIN g |-> g[k]]
  BY <1>1, <1>2
<1>5. f = g
  BY <1>3, <1>4, Zenon
<1> QED BY <1>5 DEF f, g

\* Set in the app's file, it is set over all permissions.
LEMMA SetForApp ==
  ASSUME NEW layers, "app" \in DOMAIN layers, "global" \in DOMAIN layers, NEW set
  PROVE  Merged([layers EXCEPT !.app = Overlay(set, @)]) = Overlay(set, Merged(layers))
<1> DEFINE after == [layers EXCEPT !["app"] = Overlay(set, layers["app"])]
<1>1. after["app"] = Overlay(set, layers["app"]) /\ after["global"] = layers["global"]
  OBVIOUS
<1> QED BY <1>1, OverlayOfOverlay DEF Merged

\* What is granted after it was so before, but for the access that the library needs.
LEMMA GrantedAfter ==
  ASSUME NEW p, NEW set, AllAdvised(set), NEW k
  PROVE  LET after == Overlay(set, p)
         IN /\ k \in Granted(after, "filesystems") /\ k # HostOs =>
                 k \in Granted(p, "filesystems") /\ k \notin DOMAIN set /\ after[k] = p[k]
            /\ k \in Granted(p, "filesystems") /\ k \notin DOMAIN set => k \in Granted(after, "filesystems")
            /\ k = HostOs /\ k \in DOMAIN set => k \in Granted(after, "filesystems")
            /\ k = HostOs /\ k \notin DOMAIN set =>
                 (k \in Granted(after, "filesystems") <=> k \in Granted(p, "filesystems"))
<1> DEFINE after == Overlay(set, p)
<1>1. /\ k \in DOMAIN after <=> k \in DOMAIN set \cup DOMAIN p
      /\ k \in DOMAIN set => after[k] = set[k]
      /\ k \in DOMAIN p /\ k \notin DOMAIN set => after[k] = p[k]
  BY DEF Overlay
<1>2. k \in DOMAIN set => Advice(k, set[k])
  BY DEF AllAdvised
<1>3. k \in DOMAIN set /\ Head(k) = "filesystems" /\ k # HostOs => set[k] = "no"
  BY <1>2, Heads DEF Advice
<1>4. k \in DOMAIN set /\ k = HostOs => set[k] = "ro"
  BY <1>2, TwoKeys DEF Advice
<1> HIDE DEF after
<1>5. k \in DOMAIN set => (k \in Granted(after, "filesystems") <=> k = HostOs)
  BY <1>1, <1>3, <1>4, Heads DEF Granted, Of
<1>6. k \notin DOMAIN set => (k \in Granted(after, "filesystems") <=> k \in Granted(p, "filesystems"))
  BY <1>1 DEF Granted, Of
<1>7. k \in Granted(after, "filesystems") /\ k \notin DOMAIN set => after[k] = p[k]
  BY <1>1 DEF Granted, Of
<1>8. QED BY <1>5, <1>6, <1>7 DEF after

\* The access is not taken away.
LEMMA AccessStays ==
  ASSUME NEW p, NEW set, AllAdvised(set)
  PROVE  <<"host-os">> \in Paths(p) => <<"host-os">> \in Paths(Overlay(set, p))
<1> SUFFICES ASSUME NEW k \in Granted(p, "filesystems"), CanonPath(Tail(k)) = <<"host-os">>
             PROVE  k \in Granted(Overlay(set, p), "filesystems")
  BY Zenon DEF Paths
<1>1. CASE k \notin DOMAIN set
  BY <1>1, GrantedAfter
<1>2. CASE k = HostOs /\ k \in DOMAIN set
  BY <1>2, GrantedAfter
<1>3. CASE k # HostOs /\ k \in DOMAIN set
  <2>1. Head(k) = "filesystems"
    BY DEF Granted, Of
  <2>2. CanonPath(Tail(k)) \in Directories
    BY <1>3, <2>1, Heads DEF AllAdvised, Advice
  <2> QED BY <2>2, DirectoryIsNotHostOs
<1> QED BY <1>1, <1>2, <1>3

LEMMA PermissionsAfter ==
  ASSUME NEW p, NEW set, AllAdvised(set), NEW c \in PermissionChecks,
         Value(Overlay(set, p), Permission(c)) = "yes"
  PROVE  Value(p, Permission(c)) = "yes" /\ Permission(c) \notin DOMAIN set
<1>1. ASSUME Permission(c) \in DOMAIN set PROVE FALSE
  <2>1. set[Permission(c)] = "yes"
    BY <1>1, OverlaySets
  <2>2. set[Permission(c)] \in {"ro", "malloc", "no"}
    BY <1>1 DEF AllAdvised, Advice
  <2> QED BY <2>1, <2>2
<1> QED BY <1>1, OverlayMisses

LEMMA BusesAfter ==
  ASSUME NEW p, NEW set, AllAdvised(set), NEW k \in DangerousBuses(Overlay(set, p))
  PROVE  k \in DangerousBuses(p) /\ k \notin DOMAIN set
<1> DEFINE after == Overlay(set, p)
<1>1. k \in DOMAIN after /\ after[k] = "talk"
  BY Heads
<1>2. k \notin DOMAIN set
  <2>1. k \in DOMAIN set => after[k] = set[k] /\ set[k] \in {"ro", "malloc", "no"}
    BY DEF AllAdvised, Advice, Overlay
  <2> QED BY <1>1, <2>1
<1>3. k \in DOMAIN p /\ p[k] = "talk"
  BY <1>1, <1>2 DEF Overlay
<1> QED BY <1>2, <1>3 DEF DangerousBuses, Of

LEMMA NotSet == \A set, p, k : k \notin DOMAIN set => Value(Overlay(set, p), k) = Value(p, k)
BY OverlayMisses

LEMMA LibraryAfter ==
  ASSUME NEW p, NEW set, AllAdvised(set),
         Value(Overlay(set, p), Preload) \notin {"malloc", "old malloc"}
  PROVE  Value(p, Preload) \notin {"malloc", "old malloc"} /\ Preload \notin DOMAIN set
<1>1. ASSUME Preload \in DOMAIN set PROVE FALSE
  <2>1. set[Preload] = "malloc"
    <3>1. Advice(Preload, set[Preload])
      BY <1>1 DEF AllAdvised
    <3> QED BY <3>1, TwoKeys DEF Advice
  <2> QED BY <1>1, <2>1, OverlaySets
<1>2. Value(Overlay(set, p), Preload) = Value(p, Preload)
  BY <1>1, Zenon, NotSet
<1> QED BY <1>1, <1>2, Zenon

\* What is reported of the permissions after was reported before, by one of the dictionaries.
LEMMA NothingNewIsReported ==
  ASSUME NEW h, NEW p, Keyed(p), NEW set, AllAdvised(set), Keyed(Overlay(set, p)),
         NEW dict \in Dictionaries(Overlay(set, p)),
         NEW f, Reported(h, Overlay(set, p), dict, f)
  PROVE  \E d \in Dictionaries(p) : \E k : Told(h, p, d, f.about, k)
<1> DEFINE after == Overlay(set, p)
           entries == Granted(p, "filesystems")
           d == [q \in Paths(p) |->
                  IF q \in DOMAIN dict /\ dict[q] \in entries THEN dict[q]
                  ELSE CHOOSE k \in entries : CanonPath(Tail(k)) = q]
<1>1. d \in Dictionaries(p)
  <2>1. ASSUME NEW q \in Paths(p) PROVE d[q] \in entries /\ CanonPath(Tail(d[q])) = q
    <3>1. \E k \in entries : CanonPath(Tail(k)) = q
      BY DEF Paths
    <3>2. q \in DOMAIN dict => CanonPath(Tail(dict[q])) = q
      BY Entry
    <3> QED BY <3>1, <3>2
  <2>2. DOMAIN d = Paths(p) /\ d = [q \in Paths(p) |-> d[q]]
    OBVIOUS
  <2> HIDE DEF d
  <2>3. d \in [Paths(p) -> entries]
    BY <2>1, <2>2
  <2> QED BY <2>1, <2>3 DEF Dictionaries, Paths
<1>2. ASSUME NEW q \in Directories \cap DOMAIN dict
      PROVE  q \in DOMAIN d /\ d[q] = dict[q] /\ after[dict[q]] = p[dict[q]]
  <2>1. dict[q] \in Granted(after, "filesystems") /\ CanonPath(Tail(dict[q])) = q
    BY Entry
  <2>2. dict[q] # HostOs
    BY <2>1, HostOsCanon, DirectoryIsNotHostOs
  <2>3. dict[q] \in entries /\ after[dict[q]] = p[dict[q]]
    BY <2>1, <2>2, GrantedAfter
  <2>4. q \in Paths(p)
    BY <2>1, <2>3 DEF Paths
  <2> QED BY <2>3, <2>4
<1> HIDE DEF d
<1>3. CASE PermissionTold(h, after, f)
  <2>1. PICK c \in PermissionChecks :
          /\ Permission(c) \notin Irrelevant(h) /\ Value(after, Permission(c)) = "yes"
          /\ f.about = Permission(c)
    BY <1>3 DEF PermissionTold
  <2>2. Value(p, Permission(c)) = "yes"
    BY <2>1, PermissionsAfter
  <2> QED BY <1>1, <2>1, <2>2, ItIsReported
<1>4. CASE AccessTold(dict, f)
  <2>1. <<"host-os">> \notin DOMAIN d /\ f.about = HostOs
    BY <1>1, <1>4, Entry, AccessStays DEF AccessTold
  <2> QED BY <1>1, <2>1, ItIsReported
<1>5. ASSUME OverridesOpen(h, after, dict)
      PROVE  OverridesOpen(h, p, d)
  BY <1>2, <1>5 DEF OverridesOpen, Directories
<1>6. CASE OverridesTold(h, after, dict, f)
  <2>1. f.about = OverridesPath /\ OverridesOpen(h, p, d)
    BY <1>5, <1>6 DEF OverridesTold
  <2> QED BY <1>1, <2>1, ItIsReported
<1>7. CASE DirectoryTold(dict, f)
  <2>1. f.about \in DirectoryChecks \cap DOMAIN d
    BY <1>2, <1>7 DEF DirectoryTold, Directories
  <2> QED BY <1>1, <2>1, ItIsReported
<1>8. CASE BusTold(h, after, f)
  <2>1. h.name \notin Expected /\ f.about \in DangerousBuses(p)
    BY <1>8, BusesAfter DEF BusTold
  <2> QED BY <1>1, <2>1, ItIsReported
<1>9. CASE PreloadTold(after, f)
  <2>1. Value(p, Preload) \notin {"malloc", "old malloc"} /\ f.about = Preload
    BY <1>9, LibraryAfter DEF PreloadTold
  <2> QED BY <1>1, <2>1, ItIsReported
<1>10. CASE ArbitraryTold(h, after, dict, f)
  <2>1. \/ OverridesOpen(h, p, d) \/ ArbitraryDirectories \cap DOMAIN d # {}
        \/ DangerousBuses(p) # {}
    <3>1. ArbitraryDirectories \subseteq Directories
      BY DEF ArbitraryDirectories, DirectoryChecks, Directories
    <3>2. ArbitraryDirectories \cap DOMAIN dict \subseteq DOMAIN d
      BY <1>2, <3>1
    <3>3. DangerousBuses(after) \subseteq DangerousBuses(p)
      BY BusesAfter
    <3> QED BY <1>5, <1>10, <3>2, <3>3 DEF ArbitraryTold
  <2>2. f.about = NoKey
    BY <1>10 DEF ArbitraryTold
  <2> QED BY <1>1, <2>1, <2>2, ItIsReported
<1> QED BY <1>3, <1>4, <1>6, <1>7, <1>8, <1>9, <1>10 DEF Reported

\* The first word tells which check a finding comes from.
PermissionWords == {"shared", "sockets", "devices", "features"}
DirectoryWords  == {"host-root", "host", "home", "/var/home", "xdg-config", "xdg-cache", "xdg-data"}
BusWords        == {"session", "system"}

LEMMA DirectoryIsKey == \A q \in Directories : IsKey(q) /\ Head(q) \in DirectoryWords
<1>1. IsKey(OverridesPath) /\ Head(OverridesPath) \in DirectoryWords
  <2>1. IsKey(OverridesPath)
    BY ShortKeys, Zenon DEF OverridesPath
  <2>2. Head(OverridesPath) = "xdg-data"
    BY DEF OverridesPath
  <2> QED BY <2>1, <2>2 DEF DirectoryWords
<1>2. ASSUME NEW q \in DirectoryChecks PROVE Head(q) \in DirectoryWords
  <2>1. q[1] \in DirectoryWords
    BY DEF DirectoryChecks, DirectoryWords
  <2>2. q \in Seq(Range(q)) /\ q # <<>>
    BY TheseAreKeys DEF IsKey
  <2>3. Head(q) = q[1]
    BY <2>2
  <2> QED BY <2>1, <2>3
<1> QED BY <1>1, <1>2, TheseAreKeys DEF Directories

LEMMA FirstWord ==
  ASSUME NEW h, NEW p, Keyed(p), NEW dict, NEW f
  PROVE  /\ PermissionTold(h, p, f) => IsKey(f.about) /\ Head(f.about) \in PermissionWords
         /\ AccessTold(dict, f) => IsKey(f.about) /\ Head(f.about) = "filesystems"
         /\ OverridesTold(h, p, dict, f) \/ DirectoryTold(dict, f) =>
              /\ IsKey(f.about) /\ Head(f.about) \in DirectoryWords
              /\ f.about \in Directories \cap DOMAIN dict /\ f.key = dict[f.about] /\ f.value = "no"
         /\ BusTold(h, p, f) => IsKey(f.about) /\ Head(f.about) \in BusWords
         /\ PreloadTold(p, f) => IsKey(f.about) /\ Head(f.about) = "env"
         /\ ArbitraryTold(h, p, dict, f) => ~IsKey(f.about) /\ f.key = NoKey
<1>1. ASSUME PermissionTold(h, p, f) PROVE IsKey(f.about) /\ Head(f.about) \in PermissionWords
  <2>1. PICK c \in PermissionChecks : f.about = Permission(c)
    BY <1>1 DEF PermissionTold
  <2> QED BY <2>1, Heads, TheseAreKeys DEF PermissionWords
<1>2. ASSUME AccessTold(dict, f) PROVE IsKey(f.about) /\ Head(f.about) = "filesystems"
  <2>1. f.about = HostOs
    BY <1>2 DEF AccessTold
  <2> QED BY <2>1, Heads, TheseAreKeys
<1>3. ASSUME OverridesTold(h, p, dict, f) \/ DirectoryTold(dict, f)
      PROVE  /\ IsKey(f.about) /\ Head(f.about) \in DirectoryWords
             /\ f.about \in Directories \cap DOMAIN dict /\ f.key = dict[f.about] /\ f.value = "no"
  <2>1. f.about \in Directories \cap DOMAIN dict /\ f.key = dict[f.about] /\ f.value = "no"
    BY <1>3 DEF OverridesTold, OverridesOpen, DirectoryTold, Directories
  <2> QED BY <2>1, DirectoryIsKey
<1>4. ASSUME BusTold(h, p, f) PROVE IsKey(f.about) /\ Head(f.about) \in BusWords
  <2>1. f.about \in DangerousBuses(p)
    BY <1>4 DEF BusTold
  <2> QED BY <2>1, Heads DEF Keyed, BusWords
<1>5. ASSUME PreloadTold(p, f) PROVE IsKey(f.about) /\ Head(f.about) = "env"
  <2>1. f.about = Preload
    BY <1>5 DEF PreloadTold
  <2> QED BY <2>1, Heads, TheseAreKeys
<1>6. ASSUME ArbitraryTold(h, p, dict, f) PROVE ~IsKey(f.about) /\ f.key = NoKey
  BY <1>6 DEF ArbitraryTold, NoKey, IsKey
<1> QED BY <1>1, <1>2, <1>3, <1>4, <1>5, <1>6

\* A finding whose advice is followed is made again only of a directory with a second name.
LEMMA NotAgain ==
  ASSUME NEW h, NEW p, Keyed(p), NEW dict \in Dictionaries(p), NEW f, Reported(h, p, dict, f),
         f.key # NoKey, NEW set, DOMAIN set = {f.key}, set[f.key] = f.value, Keyed(Overlay(set, p)),
         NEW later \in Dictionaries(Overlay(set, p)), NEW g, Reported(h, Overlay(set, p), later, g),
         g.about = f.about
  PROVE  \E k, l \in Granted(p, "filesystems") :
           k # l /\ CanonPath(Tail(k)) = f.about /\ CanonPath(Tail(l)) = f.about
<1> DEFINE after == Overlay(set, p)
<1>1. AllAdvised(set)
  BY WhatIsAdvised DEF AllAdvised
<1>2. IsKey(f.about)
  BY FirstWord DEF Reported
<1>3. CASE PermissionTold(h, p, f)
  <2>1. PermissionTold(h, after, g)
    BY <1>2, <1>3, FirstWord DEF Reported, PermissionWords, DirectoryWords, BusWords
  <2>2. PICK c \in PermissionChecks : Value(after, Permission(c)) = "yes" /\ g.about = Permission(c)
    BY <2>1 DEF PermissionTold
  <2>3. Permission(c) \notin DOMAIN set
    BY <1>1, <2>2, PermissionsAfter
  <2> QED BY <1>3, <2>2, <2>3 DEF PermissionTold
<1>4. CASE AccessTold(dict, f)
  <2>1. AccessTold(later, g)
    BY <1>2, <1>4, FirstWord DEF Reported, PermissionWords, DirectoryWords, BusWords
  <2>2. HostOs \in Granted(after, "filesystems")
    BY <1>1, <1>4, GrantedAfter DEF AccessTold
  <2>3. <<"host-os">> \in Paths(after)
    BY <2>2, HostOsCanon DEF Paths
  <2> QED BY <2>1, <2>3, Entry DEF AccessTold
<1>5. CASE OverridesTold(h, p, dict, f) \/ DirectoryTold(dict, f)
  <2>1. OverridesTold(h, after, later, g) \/ DirectoryTold(later, g)
    BY <1>2, <1>5, FirstWord DEF Reported, PermissionWords, DirectoryWords, BusWords
  <2> DEFINE q == f.about
  <2>2. /\ q \in Directories /\ q \in DOMAIN dict /\ q \in DOMAIN later /\ f.key = dict[q]
    BY <1>5, <2>1, FirstWord
  <2>3. dict[q] \in Granted(p, "filesystems") /\ CanonPath(Tail(dict[q])) = q
    BY <2>2, Entry
  <2>4. later[q] \in Granted(after, "filesystems") /\ CanonPath(Tail(later[q])) = q
    BY <2>2, Entry
  <2>5. later[q] # HostOs
    BY <2>2, <2>4, HostOsCanon, DirectoryIsNotHostOs
  <2>6. later[q] \in Granted(p, "filesystems") /\ later[q] \notin DOMAIN set
    BY <1>1, <2>4, <2>5, GrantedAfter
  <2> QED BY <2>2, <2>3, <2>4, <2>6
<1>6. CASE BusTold(h, p, f)
  <2>1. BusTold(h, after, g)
    BY <1>2, <1>6, FirstWord DEF Reported, PermissionWords, DirectoryWords, BusWords
  <2>2. g.about \notin DOMAIN set
    BY <1>1, <2>1, BusesAfter DEF BusTold
  <2> QED BY <1>6, <2>2 DEF BusTold
<1>7. CASE PreloadTold(p, f)
  <2>1. PreloadTold(after, g)
    BY <1>2, <1>7, FirstWord DEF Reported, PermissionWords, DirectoryWords, BusWords
  <2>2. Preload \notin DOMAIN set
    BY <1>1, <2>1, LibraryAfter DEF PreloadTold
  <2> QED BY <1>7, <2>2 DEF PreloadTold
<1>8. CASE ArbitraryTold(h, p, dict, f)
  BY <1>8, FirstWord
<1> QED BY <1>3, <1>4, <1>5, <1>6, <1>7, <1>8 DEF Reported

-----------------------------------------------------------------------------
(* A directory has at most two names.                                       *)

LEMMA LeastOfThese ==
  ASSUME NEW S \in SUBSET (1..5), S # {}
  PROVE  Min(S) \in S
<1>1. \E x \in S : \A y \in S : x =< y
  <2> DEFINE Least(n) == n \in S /\ \A y \in S : n =< y
  <2>1. PICK z \in 1..5 : z \in S
    OBVIOUS
  <2>2. \A y \in S : y = 1 \/ y = 2 \/ y = 3 \/ y = 4 \/ y = 5
    OBVIOUS
  <2>3. CASE 1 \in S
    <3>1. Least(1) BY <2>2, <2>3
    <3> QED BY <3>1
  <2>4. CASE 1 \notin S /\ 2 \in S
    <3>1. Least(2) BY <2>2, <2>4
    <3> QED BY <3>1
  <2>5. CASE 1 \notin S /\ 2 \notin S /\ 3 \in S
    <3>1. Least(3) BY <2>2, <2>5
    <3> QED BY <3>1
  <2>6. CASE 1 \notin S /\ 2 \notin S /\ 3 \notin S /\ 4 \in S
    <3>1. Least(4) BY <2>2, <2>6
    <3> QED BY <3>1
  <2>7. CASE 1 \notin S /\ 2 \notin S /\ 3 \notin S /\ 4 \notin S
    <3>1. Least(5) BY <2>1, <2>2, <2>7
    <3> QED BY <3>1
  <2> QED BY <2>3, <2>4, <2>5, <2>6, <2>7
<1> QED BY <1>1 DEF Min

LEMMA AliasTable ==
  /\ DOMAIN Aliases = 1..5
  /\ \A i \in 1..5 : Len(Aliases[i][1]) \in Nat
  /\ \A i, j \in 1..5 : Aliases[i][2] = Aliases[j][2] => i = j
<1>1. DOMAIN Aliases = 1..5
  BY DEF Aliases
<1>2. \A i \in 1..5 : Len(Aliases[i][1]) \in Nat
  BY DEF Aliases
<1>3. /\ Aliases[1][2] = "xdg-cache" /\ Aliases[2][2] = "xdg-config" /\ Aliases[3][2] = "xdg-data"
      /\ Aliases[4][2] = "xdg-downloads" /\ Aliases[5][2] = "home"
  BY DEF Aliases
<1> QED BY <1>1, <1>2, <1>3

LEMMA CanonOfAliased ==
  ASSUME NEW t, IsAliased(t)
  PROVE  \E i \in 1..5 :
           /\ IsPrefix(Aliases[i][1], t)
           /\ CanonPath(t) = <<Aliases[i][2]>> \o SubSeq(t, Len(Aliases[i][1]) + 1, Len(t))
<1> DEFINE fit == {j \in DOMAIN Aliases : IsPrefix(Aliases[j][1], t)}
           i   == Min(fit)
<1>1. fit \in SUBSET (1..5) /\ fit # {}
  BY AliasTable DEF IsAliased
<1>2. i \in fit
  BY <1>1, LeastOfThese
<1>3. CanonPath(t) = <<Aliases[i][2]>> \o SubSeq(t, Len(Aliases[i][1]) + 1, Len(t))
  BY DEF CanonPath
<1> HIDE DEF i
<1> QED BY <1>1, <1>2, <1>3

\* A path is what it begins with and the rest.
LEMMA PrefixAndRest ==
  ASSUME NEW S, NEW t \in Seq(S), NEW u \in Seq(S), NEW w, Len(w) \in Nat,
         IsPrefix(w, t), IsPrefix(w, u),
         SubSeq(t, Len(w) + 1, Len(t)) = SubSeq(u, Len(w) + 1, Len(u))
  PROVE  t = u
<1> DEFINE n == Len(w)
<1>1. n \in Nat /\ Len(t) \in Nat /\ Len(u) \in Nat /\ n <= Len(t) /\ n <= Len(u)
  BY LenProperties DEF IsPrefix
<1>2. \A i \in 1..Len(t) : t[i] \in S
  BY ElementOfSeq
<1>3. \A i \in 1..Len(u) : u[i] \in S
  BY ElementOfSeq
<1>4. \A i \in 1..n : t[i] = u[i]
  <2>1. SubSeq(t, 1, n) = SubSeq(u, 1, n)
    BY DEF IsPrefix
  <2>2. \A i \in 1..n : SubSeq(t, 1, n)[i] = t[i]
    <3>1. \A i \in 1..n : t[i] \in S
      BY <1>1, <1>2
    <3>2. \A i \in 1..(n - 1 + 1) : SubSeq(t, 1, n)[i] = t[1 + i - 1]
      BY <1>1, <3>1, SubSeqProperties
    <3> QED BY <1>1, <3>2
  <2>3. \A i \in 1..n : SubSeq(u, 1, n)[i] = u[i]
    <3>1. \A i \in 1..n : u[i] \in S
      BY <1>1, <1>3
    <3>2. \A i \in 1..(n - 1 + 1) : SubSeq(u, 1, n)[i] = u[1 + i - 1]
      BY <1>1, <3>1, SubSeqProperties
    <3> QED BY <1>1, <3>2
  <2> QED BY <2>1, <2>2, <2>3
<1> DEFINE tRest == SubSeq(t, n + 1, Len(t))
           uRest == SubSeq(u, n + 1, Len(u))
<1>5. /\ Len(tRest) = Len(t) - n
      /\ \A i \in 1..(Len(t) - n) : tRest[i] = t[n + i]
  <2>1. \A i \in (n + 1)..Len(t) : t[i] \in S
    BY <1>1, <1>2
  <2>2. /\ Len(tRest) = IF n + 1 <= Len(t) THEN Len(t) - (n + 1) + 1 ELSE 0
        /\ \A i \in 1..(Len(t) - (n + 1) + 1) : tRest[i] = t[n + 1 + i - 1]
    BY <1>1, <2>1, SubSeqProperties
  <2> HIDE DEF tRest
  <2> QED BY <1>1, <2>2
<1>6. /\ Len(uRest) = Len(u) - n
      /\ \A i \in 1..(Len(u) - n) : uRest[i] = u[n + i]
  <2>1. \A i \in (n + 1)..Len(u) : u[i] \in S
    BY <1>1, <1>3
  <2>2. /\ Len(uRest) = IF n + 1 <= Len(u) THEN Len(u) - (n + 1) + 1 ELSE 0
        /\ \A i \in 1..(Len(u) - (n + 1) + 1) : uRest[i] = u[n + 1 + i - 1]
    BY <1>1, <2>1, SubSeqProperties
  <2> HIDE DEF uRest
  <2> QED BY <1>1, <2>2
<1>7. tRest = uRest
  OBVIOUS
<1> HIDE DEF tRest, uRest
<1>8. Len(t) = Len(u)
  BY <1>1, <1>5, <1>6, <1>7
<1>9. ASSUME NEW i \in 1..Len(t) PROVE t[i] = u[i]
  <2>1. CASE i <= n
    BY <1>1, <1>4, <2>1
  <2>2. CASE i > n
    <3>1. i - n \in 1..(Len(t) - n) /\ n + (i - n) = i
      BY <1>1, <2>2
    <3> QED BY <1>5, <1>6, <1>7, <1>8, <3>1
  <2> QED BY <1>1, <2>1, <2>2
<1> QED BY <1>8, <1>9, SeqEqual

LEMMA AliasedOnce ==
  ASSUME NEW S, NEW t \in Seq(S), NEW u \in Seq(S), IsAliased(t), IsAliased(u),
         CanonPath(t) = CanonPath(u)
  PROVE  t = u
<1>1. PICK i \in 1..5 :
         /\ IsPrefix(Aliases[i][1], t)
         /\ CanonPath(t) = <<Aliases[i][2]>> \o SubSeq(t, Len(Aliases[i][1]) + 1, Len(t))
  BY CanonOfAliased
<1>2. PICK j \in 1..5 :
         /\ IsPrefix(Aliases[j][1], u)
         /\ CanonPath(u) = <<Aliases[j][2]>> \o SubSeq(u, Len(Aliases[j][1]) + 1, Len(u))
  BY CanonOfAliased
<1>3. ASSUME NEW v \in Seq(S), NEW n \in Nat, n >= 1
      PROVE  SubSeq(v, n, Len(v)) \in Seq(S)
  <2>1. Len(v) \in Nat /\ \A x \in 1..Len(v) : v[x] \in S
    BY LenProperties, ElementOfSeq
  <2>2. \A x \in n..Len(v) : v[x] \in S
    BY <1>3, <2>1
  <2> QED BY <2>1, <2>2, SubSeqProperties
<1>4. /\ SubSeq(t, Len(Aliases[i][1]) + 1, Len(t)) \in Seq(S)
      /\ SubSeq(u, Len(Aliases[j][1]) + 1, Len(u)) \in Seq(S)
  BY <1>3, AliasTable
<1> DEFINE tRest == SubSeq(t, Len(Aliases[i][1]) + 1, Len(t))
           uRest == SubSeq(u, Len(Aliases[j][1]) + 1, Len(u))
           x == Aliases[i][2]
           y == Aliases[j][2]
<1>5. x = y /\ tRest = uRest
  <2>1. tRest \in Seq(S) /\ uRest \in Seq(S) /\ <<x>> \o tRest = <<y>> \o uRest
    BY <1>1, <1>2, <1>4
  <2> HIDE DEF tRest, uRest, x, y
  <2>2. Head(<<x>> \o tRest) = x /\ Tail(<<x>> \o tRest) = tRest
    BY <2>1, FirstAndRest
  <2>3. Head(<<y>> \o uRest) = y /\ Tail(<<y>> \o uRest) = uRest
    BY <2>1, FirstAndRest
  <2> QED BY <2>1, <2>2, <2>3
<1>6. i = j
  BY <1>5, AliasTable
<1>7. SubSeq(t, Len(Aliases[i][1]) + 1, Len(t)) = SubSeq(u, Len(Aliases[i][1]) + 1, Len(u))
  BY <1>5, <1>6
<1> QED BY <1>1, <1>2, <1>6, <1>7, AliasTable, PrefixAndRest

\* The canonical one, and an alias.
LEMMA TwoNames ==
  ASSUME NEW p, Keyed(p), NEW k \in Granted(p, "filesystems"), NEW l \in Granted(p, "filesystems"),
         NEW m \in Granted(p, "filesystems"),
         CanonPath(Tail(k)) = CanonPath(Tail(l)), CanonPath(Tail(l)) = CanonPath(Tail(m))
  PROVE  k = l \/ l = m \/ k = m
<1>1. ASSUME NEW a \in {k, l, m}, NEW b \in {k, l, m}, IsAliased(Tail(a)) <=> IsAliased(Tail(b))
      PROVE  a = b
  <2>1. /\ IsKey(a) /\ Head(a) = "filesystems" /\ IsKey(b) /\ Head(b) = "filesystems"
        /\ CanonPath(Tail(a)) = CanonPath(Tail(b))
    BY DEF Granted, Of, Keyed
  <2> DEFINE S == Range(a) \cup Range(b)
  <2>2. Tail(a) \in Seq(Range(a)) /\ Tail(b) \in Seq(Range(b))
    BY <2>1, KeyIsBoth
  <2>3. Tail(a) \in Seq(S) /\ Tail(b) \in Seq(S)
    BY <2>2, SeqMonotonic
  <2>4. Tail(a) = Tail(b)
    BY <1>1, <2>1, <2>3, AliasedOnce DEF CanonPath
  <2>5. a = <<Head(a)>> \o Tail(a) /\ b = <<Head(b)>> \o Tail(b)
    BY <2>1, KeyIsBoth
  <2> QED BY <2>1, <2>4, <2>5
<1> QED BY <1>1

-----------------------------------------------------------------------------
(* Following all advice.                                                    *)

LEMMA OverlayKeyed ==
  ASSUME NEW p, Keyed(p), NEW set, \A k \in DOMAIN set : IsKey(k)
  PROVE  Keyed(Overlay(set, p))
BY DEF Keyed, Overlay

\* The overrides that a user sets who follows all advice of a report.
Set(findings) ==
  LET todo == {f \in findings : f.key # NoKey}
  IN  [k \in {f.key : f \in todo} |-> (CHOOSE f \in todo : f.key = k).value]

\* All that is reported with an entry is set.
Heeded(h, p, dict, set) ==
  /\ AllAdvised(set) /\ Keyed(Overlay(set, p))
  /\ \A a, k : Told(h, p, dict, a, k) /\ IsKey(k) => k \in DOMAIN set

LEMMA AllIsHeeded ==
  ASSUME NEW h, NEW p, Keyed(p), NEW dict \in Dictionaries(p)
  PROVE  Heeded(h, p, dict, Set(Findings(h, p, dict)))
<1> DEFINE todo == {f \in Findings(h, p, dict) : f.key # NoKey}
           set  == Set(Findings(h, p, dict))
<1>1. DOMAIN set = {f.key : f \in todo} /\ \A k \in DOMAIN set : set[k] = (CHOOSE f \in todo : f.key = k).value
  BY DEF Set
<1>2. ASSUME NEW f \in todo PROVE IsKey(f.key) /\ Advice(f.key, f.value)
  BY WhatIsReported, WhatIsAdvised
<1>3. ASSUME NEW k \in DOMAIN set PROVE IsKey(k) /\ Advice(k, set[k])
  <2> DEFINE g == CHOOSE f \in todo : f.key = k
  <2>1. g \in todo /\ g.key = k
    BY <1>1
  <2>2. set[k] = g.value
    BY <1>1
  <2> HIDE DEF g, set
  <2> QED BY <1>2, <2>1, <2>2
<1> HIDE DEF set
<1>4. Keyed(Overlay(set, p))
  BY <1>3, OverlayKeyed
<1>5. ASSUME NEW a, NEW k, Told(h, p, dict, a, k), IsKey(k) PROVE k \in DOMAIN set
  <2>1. k # NoKey
    BY <1>5 DEF IsKey, NoKey
  <2>2. PICK f \in Findings(h, p, dict) : f.key = k
    BY <1>5 DEF Told
  <2> QED BY <1>1, <2>1, <2>2
<1> QED BY <1>3, <1>4, <1>5 DEF Heeded, AllAdvised, set

LEMMA ObeyedSets ==
  ASSUME NEW layers, "app" \in DOMAIN layers, "global" \in DOMAIN layers, NEW findings
  PROVE  /\ Merged(Obeyed(findings, layers)) = Overlay(Set(findings), Merged(layers))
         /\ DOMAIN Obeyed(findings, layers) = DOMAIN layers
BY SetForApp, Zenon DEF Obeyed, Set

\* An entry that is granted in the end was all the time, and nobody has been told to deny it.
LEMMA GrantedThroughout ==
  ASSUME NEW p, NEW set, AllAdvised(set), NEW dict \in Dictionaries(Overlay(set, p)),
         NEW q \in Directories \cap DOMAIN dict
  PROVE  /\ dict[q] \in Granted(p, "filesystems") /\ CanonPath(Tail(dict[q])) = q
         /\ dict[q] \notin DOMAIN set /\ Overlay(set, p)[dict[q]] = p[dict[q]]
         /\ q \in Paths(p)
<1>1. dict[q] \in Granted(Overlay(set, p), "filesystems") /\ CanonPath(Tail(dict[q])) = q
  BY Entry
<1>2. dict[q] # HostOs
  BY <1>1, HostOsCanon, DirectoryIsNotHostOs
<1>3. /\ dict[q] \in Granted(p, "filesystems") /\ dict[q] \notin DOMAIN set
      /\ Overlay(set, p)[dict[q]] = p[dict[q]]
  BY <1>1, <1>2, GrantedAfter
<1>4. q \in Paths(p)
  BY <1>1, <1>3 DEF Paths
<1> QED BY <1>1, <1>3, <1>4

\* A directory that is reported three times over would have three names.
LEMMA DeniedByNow ==
  ASSUME NEW p, Keyed(p), NEW d1 \in Dictionaries(p), NEW set1, AllAdvised(set1),
         NEW d2 \in Dictionaries(Overlay(set1, p)), NEW set2, AllAdvised(set2),
         NEW d3 \in Dictionaries(Overlay(set2, Overlay(set1, p))),
         NEW q \in Directories \cap DOMAIN d3
  PROVE  /\ q \in DOMAIN d1 /\ q \in DOMAIN d2
         /\ d1[q] \notin DOMAIN set1 \/ d2[q] \notin DOMAIN set2
         /\ \A i \in {d1[q], d2[q], d3[q]} : i \in Granted(p, "filesystems") /\ CanonPath(Tail(i)) = q
         /\ Overlay(set1, p)[d2[q]] = p[d2[q]]
         /\ Overlay(set2, Overlay(set1, p))[d3[q]] = p[d3[q]]
<1> DEFINE p1 == Overlay(set1, p)
           p2 == Overlay(set2, p1)
           k  == d3[q]
<1>1. /\ k \in Granted(p1, "filesystems") /\ CanonPath(Tail(k)) = q
      /\ k \notin DOMAIN set2 /\ p2[k] = p1[k] /\ q \in Paths(p1)
  BY GrantedThroughout
<1>2. k # HostOs
  BY <1>1, HostOsCanon, DirectoryIsNotHostOs
<1>3. k \in Granted(p, "filesystems") /\ k \notin DOMAIN set1 /\ p1[k] = p[k]
  BY <1>1, <1>2, GrantedAfter
<1>4. q \in DOMAIN d2
  BY <1>1, Entry
<1>5. /\ d2[q] \in Granted(p, "filesystems") /\ CanonPath(Tail(d2[q])) = q
      /\ d2[q] \notin DOMAIN set1 /\ p1[d2[q]] = p[d2[q]] /\ q \in Paths(p)
  BY <1>4, GrantedThroughout
<1>6. q \in DOMAIN d1 /\ d1[q] \in Granted(p, "filesystems") /\ CanonPath(Tail(d1[q])) = q
  BY <1>5, Entry
<1>7. k = d1[q] \/ k = d2[q] \/ d1[q] = d2[q]
  BY <1>1, <1>3, <1>5, <1>6, TwoNames
<1>8. p2[k] = p[k]
  BY <1>1, <1>3
<1> HIDE DEF p1, p2
<1>9. d1[q] \notin DOMAIN set1 \/ d2[q] \notin DOMAIN set2
  BY <1>1, <1>3, <1>5, <1>7
<1>10. \A i \in {d1[q], d2[q], d3[q]} : i \in Granted(p, "filesystems") /\ CanonPath(Tail(i)) = q
  BY <1>1, <1>3, <1>5, <1>6
<1> QED BY <1>4, <1>5, <1>6, <1>8, <1>9, <1>10 DEF p1, p2

\* The same with the path that is granted in the manner of ReadOnlyByOneName.
ReadOnlyIn(p) ==
  \E k, l \in Granted(p, "filesystems") :
    /\ CanonPath(Tail(k)) = OverridesPath /\ p[k] = "ro"
    /\ CanonPath(Tail(l)) = OverridesPath /\ p[l] # "ro"

\* What is reported when two reports have been heeded.
LEMMA LeftOver ==
  ASSUME NEW h, NEW p, Keyed(p), NEW d1 \in Dictionaries(p), NEW set1, Heeded(h, p, d1, set1),
         NEW d2 \in Dictionaries(Overlay(set1, p)), NEW set2, Heeded(h, Overlay(set1, p), d2, set2),
         NEW d3 \in Dictionaries(Overlay(set2, Overlay(set1, p))),
         NEW f, Reported(h, Overlay(set2, Overlay(set1, p)), d3, f)
  PROVE  \/ h.name \in Expected /\ f.status = "info"
         \/ h.name \notin Expected /\ ReadOnlyIn(p) /\ f.about \in {OverridesPath, NoKey}
<1> DEFINE p1 == Overlay(set1, p)
           p2 == Overlay(set2, p1)
<1>1. AllAdvised(set1) /\ AllAdvised(set2) /\ Keyed(p1) /\ Keyed(p2)
  BY DEF Heeded
<1>2. /\ \A a, k : Told(h, p, d1, a, k) /\ IsKey(k) => k \in DOMAIN set1
      /\ \A a, k : Told(h, p1, d2, a, k) /\ IsKey(k) => k \in DOMAIN set2
  BY DEF Heeded
<1>3. ASSUME PermissionTold(h, p2, f) PROVE FALSE
  <2>1. PICK c \in PermissionChecks : Permission(c) \notin Irrelevant(h) /\ Value(p2, Permission(c)) = "yes"
    BY <1>3 DEF PermissionTold
  <2>2. Value(p1, Permission(c)) = "yes"
    BY <1>1, <2>1, PermissionsAfter
  <2>3. Value(p, Permission(c)) = "yes" /\ Permission(c) \notin DOMAIN set1
    BY <1>1, <2>2, PermissionsAfter
  <2>4. Told(h, p, d1, Permission(c), Permission(c))
    BY <2>1, <2>3, ItIsReported
  <2> QED BY <1>2, <2>3, <2>4, TheseAreKeys
<1>4. ASSUME h.name \notin Expected, NEW k \in DangerousBuses(p2) PROVE FALSE
  <2>1. k \in DangerousBuses(p1)
    BY <1>1, BusesAfter
  <2>2. k \in DangerousBuses(p) /\ k \notin DOMAIN set1
    BY <1>1, <2>1, BusesAfter
  <2>3. Told(h, p, d1, k, k)
    BY <1>4, <2>2, ItIsReported
  <2>4. IsKey(k)
    BY <2>2, Heads DEF Keyed
  <2> QED BY <1>2, <2>2, <2>3, <2>4
<1>5. ASSUME PreloadTold(p2, f) PROVE FALSE
  <2>1. Value(p1, Preload) \notin {"malloc", "old malloc"}
    BY <1>1, <1>5, LibraryAfter DEF PreloadTold
  <2>2. Value(p, Preload) \notin {"malloc", "old malloc"} /\ Preload \notin DOMAIN set1
    BY <1>1, <2>1, LibraryAfter
  <2>3. Told(h, p, d1, Preload, Preload)
    BY <2>2, ItIsReported
  <2> QED BY <1>2, <2>2, <2>3, TheseAreKeys
<1>6. ASSUME AccessTold(d3, f) PROVE FALSE
  <2>1. <<"host-os">> \notin Paths(p1) /\ <<"host-os">> \notin Paths(p)
    BY <1>1, <1>6, Entry, AccessStays DEF AccessTold
  <2>2. Told(h, p, d1, HostOs, HostOs)
    BY <2>1, Entry, ItIsReported
  <2>3. HostOs \in DOMAIN set1
    BY <1>2, <2>2, TheseAreKeys
  <2>4. HostOs \in Granted(p1, "filesystems")
    BY <1>1, <2>3, GrantedAfter
  <2> QED BY <2>1, <2>4, HostOsCanon DEF Paths
<1>7. ASSUME NEW q \in DirectoryChecks \cap DOMAIN d3 PROVE FALSE
  <2>1. /\ q \in DOMAIN d1 /\ q \in DOMAIN d2
        /\ d1[q] \notin DOMAIN set1 \/ d2[q] \notin DOMAIN set2
    BY <1>1, DeniedByNow DEF Directories
  <2>2. Told(h, p, d1, q, d1[q]) /\ Told(h, p1, d2, q, d2[q])
    BY <1>1, <2>1, ItIsReported
  <2>3. IsKey(d1[q]) /\ IsKey(d2[q])
    BY <1>1, <2>1, Entry DEF Keyed, Granted, Of
  <2> QED BY <1>2, <2>1, <2>2, <2>3
<1>8. ASSUME OverridesOpen(h, p2, d3) PROVE ReadOnlyIn(p) /\ h.name \notin Expected
  <2> DEFINE q == OverridesPath
  <2>1. q \in Directories \cap DOMAIN d3 /\ p2[d3[q]] # "ro" /\ h.name \notin Expected
    BY <1>8 DEF OverridesOpen, Directories
  <2> HIDE DEF q
  <2>2. /\ q \in DOMAIN d1 /\ q \in DOMAIN d2
        /\ d1[q] \notin DOMAIN set1 \/ d2[q] \notin DOMAIN set2
        /\ \A i \in {d1[q], d2[q], d3[q]} : i \in Granted(p, "filesystems") /\ CanonPath(Tail(i)) = q
        /\ p1[d2[q]] = p[d2[q]]
        /\ p2[d3[q]] = p[d3[q]]
    BY <1>1, <2>1, DeniedByNow
  <2>3. IsKey(d1[q]) /\ IsKey(d2[q])
    BY <1>1, <2>2, Entry DEF Keyed, Granted, Of
  <2>4. p[d1[q]] = "ro" \/ d1[q] \in DOMAIN set1
    BY <1>2, <2>1, <2>2, <2>3, ItIsReported DEF OverridesOpen, q
  <2>5. p1[d2[q]] = "ro" \/ d2[q] \in DOMAIN set2
    BY <1>1, <1>2, <2>1, <2>2, <2>3, ItIsReported DEF OverridesOpen, q
  <2>6. PICK k \in {d1[q], d2[q]} : p[k] = "ro"
    BY <2>2, <2>4, <2>5
  <2>7. /\ k \in Granted(p, "filesystems") /\ CanonPath(Tail(k)) = q
        /\ d3[q] \in Granted(p, "filesystems") /\ CanonPath(Tail(d3[q])) = q /\ p[d3[q]] # "ro"
    BY <2>1, <2>2
  <2> QED BY <2>1, <2>6, <2>7 DEF ReadOnlyIn, q
<1>9. CASE OverridesTold(h, p2, d3, f)
  BY <1>8, <1>9 DEF OverridesTold
<1>10. CASE ArbitraryTold(h, p2, d3, f)
  <2>1. ArbitraryDirectories \subseteq DirectoryChecks
    BY DEF ArbitraryDirectories, DirectoryChecks
  <2>2. h.name \in Expected \/ OverridesOpen(h, p2, d3)
    BY <1>4, <1>7, <1>10, <2>1 DEF ArbitraryTold
  <2> QED BY <1>8, <1>10, <2>2 DEF ArbitraryTold
<1>11. ~DirectoryTold(d3, f)
  BY <1>7 DEF DirectoryTold
<1>12. ~BusTold(h, p2, f)
  BY <1>4 DEF BusTold
<1> QED BY <1>3, <1>5, <1>6, <1>9, <1>10, <1>11, <1>12 DEF Reported

LEMMA StatusOfNotes ==
  ASSUME NEW F, \A f \in F : f.status = "info"
  PROVE  /\ Status(F) \in {"pass", "info"}
         /\ F = {} => Status(F) = "pass"
<1> DEFINE all == {1} \cup {Severity(f.status) : f \in F}
<1>1. Severity("info") = 2
  BY DEF Severity, Statuses
<1>2. all = {1} \/ all = {1, 2}
  BY <1>1
<1>3. F = {} => all = {1}
  OBVIOUS
<1> HIDE DEF all
<1>4. Max({1}) = 1 /\ Max({1, 2}) = 2
  BY DEF Max
<1>5. Statuses[1] = "pass" /\ Statuses[2] = "info"
  BY DEF Statuses
<1> QED BY <1>2, <1>3, <1>4, <1>5 DEF Status, all

-----------------------------------------------------------------------------
(* Types.                                                                   *)

\* A function from keys to settings of overrides.
Overriding(f) == \A k \in DOMAIN f : IsKey(k) /\ f[k] \in Settings

\* The same setting for several keys.
LEMMA SetAll ==
  ASSUME NEW S, \A k \in S : IsKey(k), NEW v \in Settings
  PROVE  Overriding([k \in S |-> v])
BY DEF Overriding

\* A run holds what it has read of the app's file, until it writes it back.
TypeInv == TypeOK /\ Overriding(hardening.file)

LEMMA OverlayOverriding ==
  ASSUME NEW top, NEW base, Overriding(top), Overriding(base)
  PROVE  Overriding(Overlay(top, base))
BY DEF Overriding, Overlay

LEMMA WithoutOverriding ==
  ASSUME NEW file, NEW keys, Overriding(file)
  PROVE  Overriding(Without(file, keys))
BY DEF Overriding, Without

\* What a step leaves in the files that sets overrides in one of them.
LEMMA OverridesTyped ==
  ASSUME TypeOK, Shape, NEW layer \in Layers, NEW set, Overriding(set),
         overrides' = Override(layer, set)
  PROVE  /\ DOMAIN overrides' = Layers
         /\ \A l \in Layers : Overriding(overrides'[l])
<1>1. overrides' = [overrides EXCEPT ![layer] = Overlay(set, overrides[layer])]
  BY DEF Override
<1>2. \A l \in Layers : Overriding(overrides[l])
  BY DEF TypeOK, Overriding
<1>3. Overriding(Overlay(set, overrides[layer]))
  BY <1>2, OverlayOverriding
<1> QED BY <1>1, <1>2, <1>3 DEF Shape, Layers

LEMMA PermsKeyed ==
  ASSUME TypeOK
  PROVE  Keyed(Perms)
<1>1. \A k \in DOMAIN overrides["app"] \cup DOMAIN overrides["global"] : IsKey(k)
  BY DEF TypeOK, Layers
<1>2. \A k \in DOMAIN manifest : IsKey(k)
  BY InstalledAssumption DEF TypeOK
<1> QED BY <1>1, <1>2 DEF Keyed, Perms, Merged, Overlay

LEMMA TypeInit == Init => TypeInv
<1> SUFFICES ASSUME Init PROVE TypeInv
  OBVIOUS
<1>1. [host |-> host, manifest |-> manifest] \in Installed
  BY InstalledAssumption DEF Init
<1>2. TypeOK
  BY <1>1, EditsAssumption DEF Init, TypeOK, Idle, NoOverrides, Lists
<1>3. Overriding(hardening.file)
  BY DEF Init, Idle, NoOverrides, Overriding
<1> QED BY <1>2, <1>3 DEF TypeInv

\* What is left of the type invariant is about the small variables.
SmallOK ==
  /\ [host |-> host, manifest |-> manifest] \in Installed
  /\ calm \subseteq {"harden", "lockdown"} /\ done \subseteq {"harden", "all", "lockdown"}
  /\ edits \in 0..MaxEdits

LEMMA TypeOKParts ==
  ASSUME Shape
  PROVE  TypeOK <=> SmallOK /\ DOMAIN overrides = Layers /\ \A l \in Layers : Overriding(overrides[l])
<1>1. Len(Lists) = 4
  BY DEF Lists
<1> QED BY <1>1 DEF TypeOK, SmallOK, Shape, Overriding

LEMMA SmallStep == SmallOK /\ [Next]_vars => SmallOK'
<1> SUFFICES ASSUME SmallOK, [Next]_vars PROVE SmallOK'
  OBVIOUS
<1>1. UNCHANGED <<host, manifest>>
  BY DEF Next, vars, HardenAll, HardenReadsGlobal, HardenReadsApp, HardenRewritesApp, HardenApplies,
         HardenKilled, LockdownDenies, LockdownGrantsFlatseal, LockdownStops, ResetGlobal, UserEdit,
         FollowAdvice
<1>2. /\ calm' \subseteq {"harden", "lockdown"}
      /\ done' \subseteq {"harden", "all", "lockdown"}
  BY DEF SmallOK, Next, vars, HardenAll, HardenReadsGlobal, HardenReadsApp, HardenRewritesApp,
         HardenApplies, HardenKilled, LockdownDenies, LockdownGrantsFlatseal, LockdownStops,
         ResetGlobal, UserEdit, FollowAdvice
<1>3. edits' \in 0..MaxEdits
  <2>1. edits' = edits \/ (edits < MaxEdits /\ edits' = edits + 1)
    BY DEF Next, vars, HardenAll, HardenReadsGlobal, HardenReadsApp, HardenRewritesApp,
           HardenApplies, HardenKilled, LockdownDenies, LockdownGrantsFlatseal, LockdownStops,
           ResetGlobal, UserEdit, FollowAdvice
  <2> QED BY <2>1, EditsAssumption DEF SmallOK
<1> QED BY <1>1, <1>2, <1>3 DEF SmallOK

\* What is set is a setting, and what is read of a file, or left of it, was one.
LEMMA FilesStep ==
  ASSUME TypeInv, HardenInv, [Next]_vars
  PROVE  /\ DOMAIN overrides' = Layers
         /\ \A l \in Layers : Overriding(overrides'[l])
         /\ Overriding(hardening'.file)
<1> DEFINE Files == /\ DOMAIN overrides' = Layers
                    /\ \A l \in Layers : Overriding(overrides'[l])
                    /\ Overriding(hardening'.file)
<1>0. /\ TypeOK /\ Shape /\ Overriding(hardening.file) /\ DOMAIN overrides = Layers
      /\ \A l \in Layers : Overriding(overrides[l])
  BY DEF TypeInv, HardenInv, TypeOK, Overriding
<1>a. Overriding(NoOverrides)
  BY DEF Overriding, NoOverrides
<1>b. Overriding(Malloc)
  <2>1. DOMAIN Malloc = {HostOs, Preload} /\ \A k \in DOMAIN Malloc : Malloc[k] \in {"ro", "malloc"}
    BY DEF Malloc
  <2> QED BY <2>1, TheseAreKeys DEF Overriding, Settings
<1>1. CASE HardenAll
  BY <1>0, <1>1, <1>b, OverridesTyped DEF HardenAll, Layers
<1>2. CASE HardenReadsGlobal
  BY <1>0, <1>2, <1>a DEF HardenReadsGlobal
<1>3. CASE HardenReadsApp
  <2>1. hardening'.file = overrides.app
    BY <1>0, <1>3 DEF HardenReadsApp, Shape
  <2> QED BY <1>0, <1>3, <2>1 DEF HardenReadsApp, Layers
<1>4. CASE HardenRewritesApp
  <2>1. hardening'.file = NoOverrides
    BY <1>0, <1>4 DEF HardenRewritesApp, Shape
  <2>2. \/ overrides' = overrides
        \/ \E keys : overrides' = [overrides EXCEPT !["app"] = Without(hardening.file, keys)]
    BY <1>4 DEF HardenRewritesApp
  <2>3. \A keys : Overriding(Without(hardening.file, keys))
    BY <1>0, WithoutOverriding
  <2> QED BY <1>0, <1>a, <2>1, <2>2, <2>3 DEF Shape, Layers
<1>5. CASE HardenApplies
  <2>1. Overriding(Without(Malloc, hardening.has))
    BY <1>b, WithoutOverriding
  <2>2. overrides' = Override("app", Without(Malloc, hardening.has)) /\ hardening' = Idle
    BY <1>5 DEF HardenApplies
  <2> QED BY <1>0, <1>a, <2>1, <2>2, OverridesTyped DEF Layers, Idle
<1>6. CASE HardenKilled
  BY <1>0, <1>6, <1>a DEF HardenKilled, Idle
<1>7. CASE LockdownDenies
  <2>1. Overriding([k \in Lists[locking + 1] |-> "no"])
    <3>1. locking + 1 \in 1..4
      BY <1>0, <1>7 DEF LockdownDenies, Shape, Lists
    <3> QED BY <3>1, TheseAreKeys, SetAll DEF Settings
  <2>2. overrides' = Override("global", [k \in Lists[locking + 1] |-> "no"]) /\ hardening' = hardening
    BY <1>7 DEF LockdownDenies
  <2> QED BY <1>0, <2>1, <2>2, OverridesTyped DEF Layers
<1>8. CASE LockdownGrantsFlatseal
  <2>1. Overriding([k \in FlatsealNames |-> "talk"])
    BY TheseAreKeys, SetAll DEF Settings
  <2>2. \/ overrides' = overrides
        \/ overrides' = Override("app", [k \in FlatsealNames |-> "talk"])
    BY <1>8 DEF LockdownGrantsFlatseal
  <2>3. hardening' = hardening
    BY <1>8 DEF LockdownGrantsFlatseal
  <2> QED BY <1>0, <2>1, <2>2, <2>3, OverridesTyped DEF Layers
<1>9. CASE LockdownStops
  BY <1>0, <1>9 DEF LockdownStops
<1>10. CASE ResetGlobal
  BY <1>0, <1>10, <1>a DEF ResetGlobal, Shape, Layers
<1>11. ASSUME NEW e \in UserEdits, UserEdit(e[1], e[2], e[3]) PROVE Files
  <2>1. Overriding([x \in {e[2]} |-> e[3]]) /\ e[1] \in Layers
    BY EditsAssumption DEF Overriding
  <2>2. overrides' = Override(e[1], [x \in {e[2]} |-> e[3]]) /\ hardening' = hardening
    BY <1>11 DEF UserEdit
  <2> QED BY <1>0, <2>1, <2>2, OverridesTyped
<1>12. ASSUME NEW f \in Advised, FollowAdvice(f) PROVE Files
  <2>1. Overriding([k \in {f.key} |-> f.value])
    <3>1. PICK dict \in Dictionaries(Perms) : f \in Findings(host, Perms, dict)
      BY <1>12 DEF Advised, Reports
    <3>2. IsKey(f.key) /\ Advice(f.key, f.value)
      BY <1>0, <1>12, <3>1, PermsKeyed, WhatIsReported, WhatIsAdvised DEF FollowAdvice
    <3>3. f.value \in Settings
      BY <3>2 DEF Advice, Settings
    <3> QED BY <3>2, <3>3, SetAll
  <2>2. overrides' = Override("app", [k \in {f.key} |-> f.value]) /\ hardening' = hardening
    BY <1>12 DEF FollowAdvice, Followed
  <2> QED BY <1>0, <2>1, <2>2, OverridesTyped DEF Layers
<1>13. CASE UNCHANGED vars
  BY <1>0, <1>13 DEF vars
<1> QED BY <1>1, <1>2, <1>3, <1>4, <1>5, <1>6, <1>7, <1>8, <1>9, <1>10, <1>11, <1>12, <1>13 DEF Next

LEMMA TypeStep == TypeInv /\ HardenInv /\ [Next]_vars => TypeInv'
<1> SUFFICES ASSUME TypeInv, HardenInv, [Next]_vars PROVE TypeInv'
  OBVIOUS
<1>1. Shape /\ Shape'
  BY HardenStep DEF HardenInv
<1>2. SmallOK'
  BY <1>1, TypeOKParts, SmallStep DEF TypeInv
<1>3. TypeOK'
  <2>1. Shape' => (TypeOK' <=> SmallOK' /\ DOMAIN overrides' = Layers
                                /\ \A l \in Layers : Overriding(overrides'[l]))
    BY DEF Shape, TypeOK, SmallOK, Overriding, Lists
  <2> QED BY <1>1, <1>2, <2>1, FilesStep
<1> QED BY <1>3, FilesStep DEF TypeInv

\* For any apps that are installed and any edits of the user: the overrides stay overrides,
\* and the programs at one of their steps.
THEOREM TypeCorrect == Spec => []TypeOK
<1>1. TypeInv => TypeOK
  BY DEF TypeInv
<1> QED BY <1>1, TypeInit, TypeStep, HardenCorrect, PTL DEF Spec


-----------------------------------------------------------------------------
(* The lockdown.                                                            *)

\* All that a list names is denied to every app that has no override of its own for it.
Denied(i) == \A k \in Lists[i] : Value(overrides.global, k) = "no"

\* A lockdown that nobody disturbs has denied the lists that it has gone through; the first two
\* (of four) stay denied after it.
LockdownInv ==
  /\ "lockdown" \in calm => \A i \in 1..locking : Denied(i)
  /\ "lockdown" \in done => Denied(1) /\ Denied(2)

\* A step that leaves the global file alone, or sets in it what is on no list, denies no less.
LEMMA StillDenied ==
  ASSUME NEW i \in 1..4, Denied(i),
         \A k \in Lists[i] : Value(overrides'.global, k) = Value(overrides.global, k)
  PROVE  Denied(i)'
BY DEF Denied

LEMMA LockdownDeniesMore ==
  ASSUME HardenInv, LockdownInv, LockdownDenies
  PROVE  LockdownInv'
<1> DEFINE denied == [k \in Lists[locking + 1] |-> "no"]
<1>1. locking \in 0..3 /\ locking' = locking + 1
  BY DEF LockdownDenies, HardenInv, Shape, Lists
<1>2. overrides'.global = Overlay(denied, overrides.global)
  <2>1. overrides' = [overrides EXCEPT !["global"] = Overlay(denied, overrides.global)]
    BY DEF LockdownDenies, Override
  <2> QED BY <2>1 DEF HardenInv, Shape, Layers
<1>3. ASSUME NEW k PROVE /\ k \in Lists[locking + 1] => Value(overrides'.global, k) = "no"
                         /\ Value(overrides.global, k) = "no" => Value(overrides'.global, k) = "no"
  BY <1>2, OverlayMisses, OverlaySets
<1>4. ASSUME NEW i \in 1..4, i = locking + 1 \/ Denied(i)
      PROVE  Denied(i)'
  BY <1>3, <1>4 DEF Denied
<1>5. \A i \in 1..locking' : i \in 1..4 /\ (i \in 1..locking \/ i = locking + 1)
  BY <1>1
<1>6. "lockdown" \in calm' => "lockdown" \in calm \/ locking = 0
  BY DEF LockdownDenies
<1>7. "lockdown" \in calm' => \A i \in 1..locking' : Denied(i)'
  <2>1. CASE locking = 0
    BY <1>1, <1>4, <2>1
  <2>2. CASE "lockdown" \in calm
    BY <1>4, <1>5, <2>2 DEF LockdownInv
  <2> QED BY <1>6, <2>1, <2>2
<1>8. "lockdown" \in done' => Denied(1)' /\ Denied(2)'
  BY <1>4 DEF LockdownInv, LockdownDenies
<1> QED BY <1>7, <1>8 DEF LockdownInv

LEMMA LockdownEnds ==
  ASSUME HardenInv, LockdownInv, LockdownGrantsFlatseal
  PROVE  LockdownInv'
<1>1. overrides'.global = overrides.global
  <2>1. overrides' = overrides \/ \E file : overrides' = [overrides EXCEPT !["app"] = file]
    BY DEF LockdownGrantsFlatseal, Override
  <2> QED BY <2>1 DEF HardenInv, Shape, Layers
<1>2. Denied(1) => Denied(1)'
  BY <1>1 DEF Denied
<1>3. Denied(2) => Denied(2)'
  BY <1>1 DEF Denied
<1>4. locking = 4 /\ "lockdown" \notin calm' /\ ("lockdown" \in done' => "lockdown" \in calm \cup done)
  BY DEF LockdownGrantsFlatseal, Lists
<1> QED BY <1>2, <1>3, <1>4 DEF LockdownInv

\* What all other steps set in the global overrides is not on the lists, unless it is by hand.
LEMMA LockdownStands ==
  ASSUME HardenInv, LockdownInv, [Next]_vars, ~LockdownDenies, ~LockdownGrantsFlatseal
  PROVE  LockdownInv'
<1>1. CASE "lockdown" \in calm' \cup done'
  <2>1. ~ResetGlobal /\ \A e \in UserEdits : ~UserEdit(e[1], e[2], e[3])
    BY <1>1 DEF ResetGlobal, UserEdit
  <2>2. \/ overrides'.global = overrides.global
        \/ overrides'.global = Overlay(Malloc, overrides.global)
    <3>1. HardenAll => overrides'.global = Overlay(Malloc, overrides.global)
      BY DEF HardenAll, Override, HardenInv, Shape, Layers
    <3>2. \/ overrides' = overrides \/ HardenAll
          \/ \E file : overrides' = [overrides EXCEPT !["app"] = file]
      BY <2>1 DEF Next, vars, HardenReadsGlobal, HardenReadsApp, HardenRewritesApp, HardenApplies,
                  HardenKilled, LockdownStops, FollowAdvice, Followed, Override
    <3> QED BY <3>1, <3>2 DEF HardenInv, Shape, Layers
  <2>3. ASSUME NEW i \in 1..4, Denied(i) PROVE Denied(i)'
    <3>1. DOMAIN Malloc = {HostOs, Preload}
      BY DEF Malloc
    <3>2. \A k \in Lists[i] : k \notin DOMAIN Malloc
      BY <3>1, ListsMiss
    <3>3. \A k \in Lists[i] : Value(overrides'.global, k) = Value(overrides.global, k)
      BY <2>2, <3>2, OverlayMisses
    <3> QED BY <2>3, <3>3, StillDenied
  <2>4. /\ "lockdown" \in calm' => "lockdown" \in calm /\ locking' = locking
        /\ "lockdown" \in done' => "lockdown" \in done
    BY <2>1 DEF Next, vars, HardenAll, HardenReadsGlobal, HardenReadsApp, HardenRewritesApp,
                HardenApplies, HardenKilled, LockdownStops, FollowAdvice
  <2>5. locking \in 0..4
    BY DEF HardenInv, Shape
  <2> QED BY <2>3, <2>4, <2>5 DEF LockdownInv
<1>2. CASE "lockdown" \notin calm' \cup done'
  BY <1>2 DEF LockdownInv
<1> QED BY <1>1, <1>2

LEMMA LockdownStep == HardenInv /\ LockdownInv /\ [Next]_vars => LockdownInv'
BY LockdownDeniesMore, LockdownEnds, LockdownStands

\* Every permission of the audit's table is on one of the first two lists of the lockdown.
LEMMA TablesAgree == \A c \in PermissionChecks : Permission(c) \in Lists[1] \cup Lists[2]
BY DEF PermissionChecks, Permission, Lists, InCategory

\* For any apps and manifests, any edits and any overrides that the lockdown finds: once it has
\* gone through undisturbed, the audit's table finds nothing but by an override of the app's own.
THEOREM LockdownIsEnough == Spec => []LockdownSuffices
<1>1. Init => LockdownInv
  BY DEF Init, LockdownInv
<1>2. LockdownInv => LockdownSuffices
  <2> SUFFICES ASSUME LockdownInv, "lockdown" \in done, NEW h, NEW f \in PredefinedFindings(h, Perms),
                      f.about \notin DOMAIN overrides.app
               PROVE  FALSE
    BY DEF LockdownSuffices
  <2>1. PICK c \in PermissionChecks : f = Finding(Permission(c), c[3], Permission(c), "no")
                                      /\ Value(Perms, Permission(c)) = "yes"
    BY DEF PredefinedFindings
  <2>2. f.about = Permission(c)
    BY <2>1 DEF Finding
  <2>3. Value(overrides.global, Permission(c)) = "no"
    BY TablesAgree DEF LockdownInv, Denied
  <2>4. Value(Perms, Permission(c)) = Value(Overlay(overrides.global, manifest), Permission(c))
    BY <2>2, OverlayMisses DEF Perms, Merged
  <2>5. Permission(c) \in DOMAIN overrides.global
    BY <2>3 DEF Value
  <2>6. Value(Perms, Permission(c)) = "no"
    BY <2>3, <2>4, <2>5, OverlaySets DEF Value
  <2> QED BY <2>1, <2>6
<1> QED BY <1>1, <1>2, LockdownStep, HardenCorrect, PTL DEF Spec
-----------------------------------------------------------------------------
(* Advice.                                                                  *)

\* For any apps and manifests, and whatever overrides are found: advice that is followed is not
\* given again, but for a directory's second name, and brings nothing new upon the app.
THEOREM AdviceIsForGood == Spec => []AdviceIsNotRepeated
<1>1. TypeOK => AdviceIsNotRepeated
  <2> SUFFICES ASSUME TypeOK, NEW f \in Advised, f.key # NoKey
               PROVE  LET after == {g.about : g \in UNION Reports(host, Merged(Followed(f)))}
                      IN  /\ f.about \in after => NamedTwice(f.about)
                          /\ after \subseteq {g.about : g \in Advised}
    BY Zenon DEF AdviceIsNotRepeated
  <2> DEFINE set == [k \in {f.key} |-> f.value]
             after == Overlay(set, Perms)
  <2>1. Keyed(Perms)
    BY PermsKeyed
  <2>2. PICK dict \in Dictionaries(Perms) : f \in Findings(host, Perms, dict)
    BY DEF Advised, Reports
  <2>3. Reported(host, Perms, dict, f)
    BY <2>1, <2>2, WhatIsReported
  <2>4. IsKey(f.key) /\ Advice(f.key, f.value)
    BY <2>1, <2>3, WhatIsAdvised
  <2>5. AllAdvised(set) /\ Keyed(after)
    BY <2>1, <2>4, OverlayKeyed DEF AllAdvised
  <2>6. Merged(Followed(f)) = after
    BY SetForApp DEF TypeOK, Layers, Followed, Override, Perms
  <2>7. DOMAIN set = {f.key} /\ set[f.key] = f.value
    OBVIOUS
  <2> HIDE DEF set
  <2>8. ASSUME NEW g \in UNION Reports(host, after)
        PROVE  /\ g.about = f.about => NamedTwice(f.about)
               /\ \E e \in Advised : e.about = g.about
    <3>1. PICK later \in Dictionaries(after) : g \in Findings(host, after, later)
      BY <2>8 DEF Reports
    <3>2. Reported(host, after, later, g)
      BY <2>5, <3>1, WhatIsReported
    <3>3. g.about = f.about => NamedTwice(f.about)
      BY <2>1, <2>3, <2>5, <2>7, <3>2, NotAgain DEF NamedTwice
    <3>4. PICK d \in Dictionaries(Perms) : \E k : Told(host, Perms, d, g.about, k)
      BY <2>1, <2>5, <3>2, NothingNewIsReported
    <3>5. \E e \in Findings(host, Perms, d) : e.about = g.about
      BY <3>4 DEF Told
    <3>6. Findings(host, Perms, d) \subseteq Advised
      BY DEF Advised, Reports
    <3> QED BY <3>3, <3>5, <3>6
  <2> HIDE DEF after
  <2> QED BY <2>6, <2>8
<1> QED BY <1>1, TypeCorrect, PTL

\* For any apps and manifests, and whatever overrides are found: all the advice of two reports
\* leaves nothing to mend.
THEOREM AdviceIsComplete == Spec => []AdviceSuffices
<1>1. TypeOK => AdviceSuffices
  <2> SUFFICES ASSUME TypeOK, NEW first \in Reports(host, Perms),
                      NEW second \in Reports(host, Merged(Obeyed(first, overrides))),
                      NEW rest \in Reports(host, Merged(Obeyed(second, Obeyed(first, overrides))))
               PROVE  \/ Status(rest) = "pass"
                      \/ Status(rest) = "info" /\ host.name \in Expected
                      \/ ReadOnlyByOneName /\ {f.about : f \in rest} \subseteq {OverridesPath, NoKey}
    BY Zenon DEF AdviceSuffices
  <2> DEFINE p1 == Overlay(Set(first), Perms)
             p2 == Overlay(Set(second), p1)
  <2>1. Keyed(Perms)
    BY PermsKeyed
  <2>2. Merged(Obeyed(first, overrides)) = p1 /\ DOMAIN Obeyed(first, overrides) = DOMAIN overrides
    BY ObeyedSets DEF TypeOK, Layers, Perms
  <2>3. Merged(Obeyed(second, Obeyed(first, overrides))) = p2
    BY <2>2, ObeyedSets DEF TypeOK, Layers
  <2>4. PICK d1 \in Dictionaries(Perms) : first = Findings(host, Perms, d1)
    BY DEF Reports
  <2>5. Heeded(host, Perms, d1, Set(first))
    BY <2>1, <2>4, AllIsHeeded
  <2>6. Keyed(p1)
    BY <2>5 DEF Heeded
  <2>7. PICK d2 \in Dictionaries(p1) : second = Findings(host, p1, d2)
    BY <2>2 DEF Reports
  <2>8. Heeded(host, p1, d2, Set(second))
    BY <2>6, <2>7, AllIsHeeded
  <2>9. Keyed(p2)
    BY <2>8 DEF Heeded
  <2>10. PICK d3 \in Dictionaries(p2) : rest = Findings(host, p2, d3)
    BY <2>3 DEF Reports
  <2>11. ASSUME NEW f \in rest
         PROVE  \/ host.name \in Expected /\ f.status = "info"
                \/ host.name \notin Expected /\ ReadOnlyIn(Perms) /\ f.about \in {OverridesPath, NoKey}
    BY <2>1, <2>5, <2>8, <2>9, <2>10, WhatIsReported, LeftOver
  <2>12. CASE host.name \in Expected
    BY <2>11, <2>12, StatusOfNotes
  <2>13. CASE host.name \notin Expected /\ rest # {}
    BY <2>11, <2>13 DEF ReadOnlyIn, ReadOnlyByOneName
  <2>14. CASE rest = {}
    BY <2>14, StatusOfNotes
  <2> QED BY <2>12, <2>13, <2>14
<1> QED BY <1>1, TypeCorrect, PTL
=============================================================================
