--------------------------- MODULE UpdatePipeline ---------------------------
(***************************************************************************)
(* How a machine gets a new image: upgrade-on-boot, the timer's service,   *)
(* `ujust update-system`, and the notification that asks for a reboot.     *)
(*                                                                         *)
(* Three actors verify what the registry's tag points to and stage it,     *)
(* each without regard to the others; the tag may move under them.  On a   *)
(* composefs system a root service writes bootc's status to a file in /run *)
(* that verification and notification read instead of bootc.               *)
(***************************************************************************)
EXTENDS Naturals

CONSTANTS
  Image,     \* the images the tag may point to
  First,     \* the one installed
  Proven,    \* those whose build provenance can be verified
  Update,    \* what each one brings: upgraded packages, advisories' severities
  Machines,  \* the machines: backend and faults
  StampsRead,  \* does the shell read the file in $(2>/dev/null <file)
  MaxMoves   \* bound: how often the tag moves

None == "none"
Package == {"kernel", "trivalent"}

ASSUME ImageAssumption   == First \in Image /\ Proven \subseteq Image /\ None \notin Image
ASSUME UpdateAssumption  ==
  Update \in [Image -> [packages : SUBSET Package, severities : SUBSET Nat]]
ASSUME MachineAssumption == Machines \subseteq
  [backend : {"composefs", "ostree", "layered"},   \* layered: ostree with local packages
   faults  : SUBSET {"network", "power"}]          \* what may go wrong
ASSUME ShellAssumption   == StampsRead \in BOOLEAN
ASSUME BoundAssumption   == MaxMoves \in Nat

VARIABLES
  machine,   \* the machine, which stays the same
  tag,       \* the image the registry's tag points to
  moves,     \* how often it has moved
  booted,    \* the booted deployment
  staged,    \* the deployment staged for the next boot, or None
  old,       \* the booted image is more than a week old
  always,    \* always-upgrade-on-boot.stamp exists
  pc,        \* where upgrade-on-boot, the timer's service and the user's update are
  verified,  \* the image each has verified
  starts,    \* starts of the timer's service in the current 24 hours
  cache,     \* /run/bootc/status.json: is an image staged
  splash,    \* what the boot splash says
  notifier,  \* the notification script
  recent,    \* the notifications already given today, if the stamps can be read
  told       \* what was staged when the user was last notified since the boot, or None

world    == <<machine, tag, moves>>
disk     == <<booted, staged>>
desktop  == <<cache, notifier, recent, told>>
vars == <<world, disk, old, always, pc, verified, starts, splash, desktop>>

Backend == machine.backend
Faults  == machine.faults

Actor == {"boot", "timer", "user"}
BootSteps  == {"condition", "check", "verify", "upgrade", "status", "login"}
TimerSteps == {"idle", "retry", "verify", "upgrade", "stamp", "truncate", "refresh"}
UserSteps  == {"idle", "verify", "upgrade"}
StartLimit == 3                   \* StartLimitBurst
Kind == {"critical", "normal"}    \* of notification

TypeOK ==
  /\ machine \in Machines
  /\ tag \in Image /\ moves \in 0..MaxMoves
  /\ booted \in Image /\ staged \in Image \cup {None}
  /\ old \in BOOLEAN /\ always \in BOOLEAN
  /\ pc \in [Actor -> BootSteps \cup TimerSteps \cup UserSteps]
  /\ pc["boot"] \in BootSteps /\ pc["timer"] \in TimerSteps /\ pc["user"] \in UserSteps
  /\ verified \in [Actor -> Image \cup {None}]
  /\ starts \in 0..StartLimit
  /\ cache \in {"missing", "nothing-staged", "staged"}
  /\ splash \in {"booting", "updating", "Update failed"}
  /\ notifier \in {"idle", "read", "expired"} \cup Kind
  /\ recent \subseteq Kind /\ told \in Image \cup {None}

StartOfBoot == [a \in Actor |-> IF a = "boot" THEN "condition" ELSE "idle"]
Goto(a, step) == pc' = [pc EXCEPT ![a] = step]

-----------------------------------------------------------------------------
(* Verifying and staging, which the three actors have in common *)

\* Wrong: it looks for the staged image in the status file.
KnowsImageStaged == Backend = "composefs" => cache = "staged"
\* verify-provenance.sh needs the name of the booted image: on composefs it
\* reads it from the status file.
KnowsImage == Backend = "composefs" => cache # "missing"

\* Where an actor is left by a failure: upgrade-on-boot lets the boot go on, the
\* service is restarted later, the user is told.
AfterFailure(a) ==
  CASE a = "boot" -> "login" [] a = "timer" -> "retry" [] OTHER -> "idle"

\* Wrong: an image that cannot be verified is staged all the same.
AfterRefusalStages(a) == "upgrade"
AfterRefusal(a) == AfterFailure(a)

\* verify-provenance.sh: the tag is resolved once, to the digest verified.
Verify(a) ==
  /\ pc[a] = "verify"
  /\ \/ /\ KnowsImage /\ tag \in Proven
        /\ verified' = [verified EXCEPT ![a] = tag]
        /\ splash' = IF a = "boot" THEN "updating" ELSE splash
        /\ Goto(a, "upgrade")
     \/ /\ ~KnowsImage \/ tag \notin Proven \/ "network" \in Faults
        /\ Goto(a, AfterRefusal(a))
        /\ UNCHANGED <<verified, splash>>
  /\ UNCHANGED <<world, disk, old, always, starts, desktop>>

\* What bootc upgrade or rpm-ostree upgrade leaves staged: they resolve the tag
\* again, and stage nothing when it is the booted image.
Fetched == IF tag = booted THEN staged ELSE tag

AfterUpgrade(a) ==
  CASE a = "boot" -> "status" [] a = "timer" -> "stamp" [] OTHER -> "idle"

\* After an update on ostree update_system.py starts the notification itself.
StartsNotifier(a) == a = "user" /\ Backend # "composefs"

\* A failed upgrade ends upgrade-on-boot there and then (set -e).
Upgrade(a) ==
  /\ pc[a] = "upgrade"
  /\ \/ /\ staged' = Fetched
        /\ Goto(a, AfterUpgrade(a))
        /\ notifier' = IF StartsNotifier(a) /\ notifier = "idle" THEN "read" ELSE notifier
     \/ /\ "network" \in Faults
        /\ Goto(a, AfterFailure(a))
        /\ UNCHANGED <<staged, notifier>>
  /\ verified' = [verified EXCEPT ![a] = None]
  /\ UNCHANGED <<world, booted, old, always, starts, splash, cache, recent, told>>

-----------------------------------------------------------------------------
(* upgrade-on-boot *)

\* Wrong: the service starts anew until the registry answers.
AfterNoAnswerRetries == "condition"
AfterNoAnswer == "login"

\* ExecCondition: always-upgrade-on-boot, or an image more than a week old.  On
\* composefs its age is read from the status file.
WantsUpgrade == always \/ (KnowsImage /\ old)

BootCondition ==
  /\ pc["boot"] = "condition"
  /\ Goto("boot", IF WantsUpgrade THEN "check" ELSE "login")
  /\ UNCHANGED <<world, disk, old, always, verified, starts, splash, desktop>>

\* The images that are no news: bootc upgrade --check knows every one that is
\* here, system-update-available, used with local packages, the first to boot.
Here == IF Backend = "layered" /\ staged # None THEN {staged} ELSE {booted, staged}

\* Without an answer the boot goes on; bootc's failures other than the one the
\* script looks for are taken for an update.
BootCheck ==
  /\ pc["boot"] = "check"
  /\ \/ Goto("boot", IF tag \in Here THEN "login" ELSE "verify")
     \/ "network" \in Faults /\ Goto("boot", AfterNoAnswer)
     \/ "network" \in Faults /\ Backend # "layered" /\ Goto("boot", "verify")
  /\ UNCHANGED <<world, disk, old, always, verified, starts, splash, desktop>>

\* Wrong: the status file outlives the boot.
StatusFileKept == cache
StatusFileAtBoot == "missing"    \* /run is empty

\* Everything that starts over at a boot.
Restart ==
  /\ pc' = StartOfBoot
  /\ verified' = [a \in Actor |-> None]
  /\ staged' = None
  /\ starts' = 0
  /\ cache' = StatusFileAtBoot /\ splash' = "booting"
  /\ notifier' = "idle" /\ told' = None
  /\ UNCHANGED <<world, always, recent>>

\* An orderly reboot finalises the staged deployment.
Reboot ==
  /\ booted' = IF staged = None THEN booted ELSE staged
  /\ old' \in IF staged = None THEN {old} ELSE BOOLEAN
  /\ Restart

\* Wrong: reboots after every upgrade that succeeded.
ReadyToRebootAlways == TRUE
ReadyToReboot == staged # None

\* The script reboots into the staged deployment, or lets the boot go on.
BootStatus ==
  /\ pc["boot"] = "status"
  /\ IF ReadyToReboot THEN Reboot
     ELSE /\ Goto("boot", "login")
          /\ UNCHANGED <<world, disk, old, always, verified, starts, splash, desktop>>

\* Q on the boot splash stops the service, whatever it is doing.
Cancel ==
  /\ pc["boot"] \in {"check", "verify", "upgrade", "status"}
  /\ Goto("boot", "login")
  /\ UNCHANGED <<world, disk, old, always, verified, starts, splash, desktop>>

-----------------------------------------------------------------------------
(* The timer's service: bootc-upgrade, or rpm-ostreed-automatic *)

\* Wrong: one start too many.
MayStartOnceMore == starts <= StartLimit
MayStart == starts < StartLimit

\* Started by the timer, or an hour after a failure; three times in 24 hours.
TimerStart ==
  /\ pc["timer"] \in {"idle", "retry"}
  /\ MayStart
  /\ starts' = starts + 1
  /\ Goto("timer", "verify")
  /\ UNCHANGED <<world, disk, old, always, verified, splash, desktop>>

\* Wrong: the status file is not refreshed.
OnSuccessNothing == "idle"
\* What follows when the service goes inactive.
OnSuccess == IF Backend = "composefs" THEN "truncate" ELSE "idle"

\* ExecCondition fails on a metered connection.
TimerSkips ==
  /\ pc["timer"] \in {"idle", "retry"}
  /\ MayStart
  /\ starts' = starts + 1
  /\ Goto("timer", OnSuccess)
  /\ UNCHANGED <<world, disk, old, always, verified, splash, desktop>>

\* ExecStop changes the stamp, for which the session's path unit waits; a change
\* made while the notification runs, or with nobody logged in, goes unseen.
Stamp ==
  /\ pc["timer"] = "stamp"
  /\ Goto("timer", OnSuccess)
  /\ notifier' = IF pc["boot"] = "login" /\ notifier = "idle" THEN "read" ELSE notifier
  /\ UNCHANGED <<world, disk, old, always, verified, starts, splash, cache, recent, told>>

StatusFile == IF staged = None THEN "nothing-staged" ELSE "staged"

\* bootc-status, started when the service has ended well: the file is truncated
\* when the unit starts and written when bootc has answered.
Truncate ==
  /\ pc["timer"] = "truncate"
  /\ Goto("timer", "refresh")
  /\ cache' = "missing"
  /\ UNCHANGED <<world, disk, old, always, verified, starts, splash, notifier, recent, told>>

Refresh ==
  /\ pc["timer"] = "refresh"
  /\ Goto("timer", "idle")
  /\ cache' = StatusFile
  /\ UNCHANGED <<world, disk, old, always, verified, starts, splash, notifier, recent, told>>

\* bootc-status at boot; nothing orders it before upgrade-on-boot.
StatusAtBoot ==
  /\ Backend = "composefs"
  /\ cache = "missing" /\ pc["timer"] # "refresh"
  /\ cache' = StatusFile
  /\ UNCHANGED <<world, disk, old, always, pc, verified, starts, splash, notifier, recent, told>>

-----------------------------------------------------------------------------
(* The user *)

LoggedIn == pc["boot"] = "login"

\* update_system.py
UserStart ==
  /\ LoggedIn /\ pc["user"] = "idle"
  /\ Goto("user", "verify")
  /\ UNCHANGED <<world, disk, old, always, verified, starts, splash, desktop>>

\* set_always_upgrade_on_boot.py creates or deletes the stamp file.
SetAlways ==
  /\ LoggedIn
  /\ always' = ~always
  /\ UNCHANGED <<world, disk, old, pc, verified, starts, splash, desktop>>

UserReboots == LoggedIn /\ Reboot

-----------------------------------------------------------------------------
(* The notification script *)

\* The greatest severity of an image's advisories: 1 is low, 4 critical; any
\* other number is unknown.
Severity(s) ==
  IF s = {} THEN "none"
  ELSE LET top == CHOOSE n \in s : \A m \in s : m <= n
       IN CASE top = 1 -> "low" [] top = 2 -> "moderate" [] top = 3 -> "important"
            [] top = 4 -> "critical" [] OTHER -> "unknown"

\* rpm-ostree's cached update tells what the staged image brings.
Urgency(u) ==
  CASE "trivalent" \in u.packages \/ Severity(u.severities) = "critical" -> "critical"
    [] "kernel" \in u.packages \/ Severity(u.severities) \in {"important", "unknown"} -> "normal"
    [] OTHER -> "none"

\* How urgent the script finds what is staged: on composefs, always the same.
Staged ==
  CASE Backend = "composefs" -> IF cache = "staged" THEN "critical" ELSE "none"
    [] Backend # "composefs" /\ staged # None -> Urgency(Update[staged])
    [] OTHER -> "none"

\* Wrong: one notification of a boot is enough.
RecentlyAny(kind) == StampsRead /\ told # None
Recently(kind) == StampsRead /\ kind \in recent

NotifierReads ==
  /\ notifier = "read"
  /\ \/ /\ Staged = "none" \/ Recently("critical") \/ Recently(Staged)
        /\ notifier' = "idle"
        /\ UNCHANGED told
     \/ /\ Staged # "none" /\ ~Recently("critical") /\ ~Recently(Staged)
        /\ notifier' = Staged
        /\ told' = staged
  /\ UNCHANGED <<world, disk, old, always, pc, verified, starts, splash, cache, recent>>

NotificationOpen == notifier \in Kind \cup {"expired"}

\* notify-send waits for the user; only then is the day written down, the one on
\* which the script was started.
NotifierCloses ==
  /\ NotificationOpen
  /\ notifier' = "idle"
  /\ recent' = IF StampsRead THEN recent \cup ({notifier} \cap Kind) ELSE recent
  /\ UNCHANGED <<world, disk, old, always, pc, verified, starts, splash, cache, told>>

-----------------------------------------------------------------------------
(* The environment *)

TagMoves ==
  /\ moves < MaxMoves
  /\ moves' = moves + 1
  /\ tag' \in Image \ {tag}
  /\ UNCHANGED <<machine, disk, old, always, pc, verified, starts, splash, desktop>>

Ages ==
  /\ ~old
  /\ old' = TRUE
  /\ UNCHANGED <<world, disk, always, pc, verified, starts, splash, desktop>>

\* The 24 hours in which systemd counts the starts are over.
WindowEnds ==
  /\ starts' = 0
  /\ UNCHANGED <<world, disk, old, always, pc, verified, splash, desktop>>

DateChanges ==
  /\ recent' = {}
  /\ notifier' = IF notifier \in Kind THEN "expired" ELSE notifier
  /\ UNCHANGED <<world, disk, old, always, pc, verified, starts, splash, cache, told>>

\* A staged deployment is recorded in /run until it is finalised.
PowerCut ==
  /\ "power" \in Faults
  /\ Restart
  /\ UNCHANGED <<booted, old>>

Init ==
  /\ machine \in Machines
  /\ tag = First /\ moves = 0
  /\ booted = First /\ staged = None
  /\ old = FALSE /\ always = FALSE
  /\ pc = StartOfBoot
  /\ verified = [a \in Actor |-> None]
  /\ starts = 0 /\ cache = "missing" /\ splash = "booting"
  /\ notifier = "idle" /\ recent = {} /\ told = None

BootStep  == BootCondition \/ BootCheck \/ Verify("boot") \/ Upgrade("boot") \/ BootStatus
TimerStep == Verify("timer") \/ Upgrade("timer") \/ Stamp \/ Truncate \/ Refresh
UserStep  == Verify("user") \/ Upgrade("user")

Next ==
  \/ BootStep \/ Cancel
  \/ TimerStart \/ TimerSkips \/ TimerStep \/ StatusAtBoot
  \/ UserStart \/ UserStep \/ SetAlways \/ UserReboots
  \/ NotifierReads \/ NotifierCloses
  \/ TagMoves \/ Ages \/ WindowEnds \/ DateChanges \/ PowerCut

Spec == Init /\ [][Next]_vars

\* Live processes run on; days pass; the timer fires again and again, and not
\* always on a metered connection.  No user and no registry has to do anything.
FairSpec ==
  /\ Spec
  /\ WF_vars(BootStep) /\ WF_vars(TimerStep) /\ WF_vars(StatusAtBoot) /\ WF_vars(NotifierReads)
  /\ WF_vars(WindowEnds) /\ WF_vars(DateChanges) /\ SF_vars(TimerStart)

-----------------------------------------------------------------------------
(* Properties *)

\* An image is staged only by an actor that has verified one since it last
\* started: no path through the three scripts reaches the upgrade without
\* verify-provenance.sh having succeeded, whatever failed, was cancelled or cut.
OnlyVerifiersStage ==
  [][staged' \notin {staged, None} =>
       \E a \in Actor : pc[a] = "upgrade" /\ verified[a] \in Proven]_vars

\* upgrade-on-boot reboots only into another image, so that no boot repeats the
\* one before, whatever the timer staged meanwhile and wherever the tag went.
NoRebootLoop ==
  [][BootStatus => (booted' # booted \/ LoggedIn')]_vars

\* /run/bootc/status.json may be late, but never says that an image is staged
\* when none is: nothing unstages an image without emptying /run.
StatusFileTrue == cache = "staged" => staged # None

\* Without power cuts every boot gets to the login screen, though the registry
\* may not answer and images arrive while upgrade-on-boot runs.
LoginReached == ("power" \notin Faults /\ pc["boot"] = "condition") ~> LoggedIn

\* A machine left running stages the tag's image, if it can be verified and is
\* not booted: the timer, its start limit and its retries do not give up on it,
\* and an image staged earlier does not keep a newer one out.
UpdateArrives ==
  (Faults = {} /\ LoggedIn /\ tag \in Proven)
    ~> (tag \in {booted, staged} \cup (Image \ Proven) \/ ~LoggedIn)

\* On composefs the status file catches up with what is staged, whoever staged it.
StatusFileCatchesUp ==
  (Backend = "composefs" /\ Faults = {} /\ staged # None) ~> (cache = "staged" \/ ~LoggedIn)

\* With rpm-ostree, a user whose staged image brings a new kernel or browser, or
\* an important or critical fix, is told of that image while the machine runs -
\* of each such image, though another may have been announced before, the kind
\* may be suppressed for the day, and it may come while a notification is open -
\* if the user does not leave a notification open for ever.
Urgent ==
  /\ staged # None
  /\ Update[staged].packages # {} \/ Update[staged].severities \cap {3, 4} # {}
UrgentIsAnnounced ==
  []<>~NotificationOpen =>
    ((Backend # "composefs" /\ Faults = {} /\ LoggedIn /\ Urgent)
       ~> (told = staged \/ ~Urgent \/ ~LoggedIn))

\* What security-update-notification says of itself: "If there's been a
\* bootc/composefs upgrade, then unconditionally notify."  It is started by the
\* stamp, which is written before the status file it reads is refreshed.
NotifiesUnconditionally ==
  [][NotifierReads /\ staged # None /\ ~Recently("critical") => told' = staged]_vars

\* What upgrade-on-boot is written to do when an upgrade fails: show
\* "Update failed, booting existing deployment...".  set -e ends it before.
FailureIsShown ==
  [][Upgrade("boot") /\ LoggedIn' => splash' = "Update failed"]_vars
=============================================================================
