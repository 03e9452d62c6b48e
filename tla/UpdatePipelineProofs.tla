------------------------ MODULE UpdatePipelineProofs ------------------------
(***************************************************************************)
(* Theorems about UpdatePipeline, for every set of images and updates,     *)
(* every backend and set of faults, and any number of moves of the tag.    *)
(*                                                                         *)
(* The argument: an actor at its upgrade has verified an image since it    *)
(* was last idle, since every way to the upgrade is through Verify and     *)
(* every way back forgets what was verified or leaves the upgrade; what is *)
(* staged is never what is booted, since an upgrade to the booted image    *)
(* stages nothing; and the status file is ahead of nothing, since what is  *)
(* staged is only lost together with /run.                                 *)
(***************************************************************************)
EXTENDS UpdatePipeline, TLAPS

\* Actors at their upgrade have verified.
UpgradersVerified == \A a \in Actor : pc[a] = "upgrade" => verified[a] \in Proven

\* The actors' part of the types, and of the invariant.
ActorsOK ==
  /\ pc \in [Actor -> BootSteps \cup TimerSteps \cup UserSteps]
  /\ pc["boot"] \in BootSteps /\ pc["timer"] \in TimerSteps /\ pc["user"] \in UserSteps
  /\ verified \in [Actor -> Image \cup {None}]
  /\ UpgradersVerified

PipelineInv ==
  /\ TypeOK
  /\ UpgradersVerified
  /\ staged # booted
  /\ StatusFileTrue

\* The pipeline starts as it should be.
LEMMA InitPipelineInv == Init => PipelineInv
<1> SUFFICES ASSUME Init PROVE PipelineInv OBVIOUS
<1>1. ActorsOK
  BY DEF Init, StartOfBoot, ActorsOK, UpgradersVerified, Actor, BootSteps, TimerSteps, UserSteps
<1>2. /\ tag \in Image /\ moves \in 0..MaxMoves
      /\ booted \in Image /\ staged \in Image \cup {None} /\ staged # booted
      /\ starts \in 0..StartLimit
  BY ImageAssumption, BoundAssumption DEF Init, StartLimit
<1>3. old \in BOOLEAN /\ always \in BOOLEAN /\ told \in Image \cup {None}
  BY DEF Init
<1> QED BY <1>1, <1>2, <1>3 DEF Init, ActorsOK, PipelineInv, TypeOK, StatusFileTrue

USE DEF Actor, BootSteps, TimerSteps, UserSteps

\* A step of one actor's that keeps or forgets what it has verified, to anywhere
\* but its upgrade, and touches nothing else that the invariant is about.
LEMMA GotoKeeps ==
  ASSUME PipelineInv, NEW a \in Actor, NEW s, Goto(a, s), s # "upgrade",
         (a = "boot" => s \in BootSteps), (a = "timer" => s \in TimerSteps),
         (a = "user" => s \in UserSteps),
         verified' = verified \/ verified' = [verified EXCEPT ![a] = None]
  PROVE  ActorsOK'
  BY DEF ActorsOK, PipelineInv, TypeOK, UpgradersVerified, Goto

\* Nor does a step of nobody's touch it.
LEMMA FrameKeeps ==
  ASSUME PipelineInv, UNCHANGED <<pc, verified>>
  PROVE  ActorsOK'
  BY DEF ActorsOK, PipelineInv, TypeOK, UpgradersVerified

\* Verification leaves the invariant standing.
LEMMA VerifyKeeps ==
  ASSUME PipelineInv, NEW a \in Actor, Verify(a)
  PROVE  PipelineInv'
<1> USE ImageAssumption
<1>1. CASE /\ tag \in Proven /\ verified' = [verified EXCEPT ![a] = tag]
           /\ splash' = IF a = "boot" THEN "updating" ELSE splash
           /\ Goto(a, "upgrade")
  <2>1. TypeOK'
    BY <1>1 DEF PipelineInv, TypeOK, Verify, Goto, world, disk, desktop
  <2>2. UpgradersVerified'
    BY <1>1 DEF PipelineInv, TypeOK, UpgradersVerified, Goto
  <2> QED BY <2>1, <2>2 DEF PipelineInv, Verify, StatusFileTrue, disk, desktop
<1>2. CASE Goto(a, AfterRefusal(a)) /\ UNCHANGED <<verified, splash>>
  <2> DEFINE s == AfterRefusal(a)
  <2>1. /\ s # "upgrade" /\ (a = "boot" => s \in BootSteps)
        /\ (a = "timer" => s \in TimerSteps) /\ (a = "user" => s \in UserSteps)
    BY DEF AfterRefusal, AfterFailure
  <2>2. Goto(a, s) BY <1>2
  <2> HIDE DEF s
  <2>3. TypeOK' /\ UpgradersVerified'
    BY <2>1, <2>2, <1>2, GotoKeeps DEF ActorsOK, PipelineInv, TypeOK, Verify, world, disk, desktop
  <2> QED BY <2>3 DEF PipelineInv, Verify, StatusFileTrue, disk, desktop
<1> QED BY <1>1, <1>2 DEF Verify

\* What an upgrade leaves staged is an image, and not the booted one.
LEMMA FetchedIsNew ==
  ASSUME PipelineInv
  PROVE  /\ Fetched \in Image \cup {None} /\ Fetched # booted
         /\ (staged # None => Fetched # None)
  BY ImageAssumption DEF PipelineInv, TypeOK, Fetched

\* So does an upgrade.
LEMMA UpgradeKeeps ==
  ASSUME PipelineInv, NEW a \in Actor, Upgrade(a)
  PROVE  PipelineInv'
<1>1. PICK s : /\ Goto(a, s) /\ s # "upgrade"
               /\ (a = "boot" => s \in BootSteps) /\ (a = "timer" => s \in TimerSteps)
               /\ (a = "user" => s \in UserSteps)
  BY DEF Upgrade, AfterUpgrade, AfterFailure
<1>2. verified' = [verified EXCEPT ![a] = None] BY DEF Upgrade
<1>3. /\ staged' \in Image \cup {None} /\ staged' # booted
      /\ (staged # None => staged' # None)
  BY FetchedIsNew DEF Upgrade, PipelineInv, TypeOK
<1>4. notifier' \in {"read", notifier} BY DEF Upgrade
<1>5. TypeOK' /\ UpgradersVerified'
  BY <1>1, <1>2, <1>3, <1>4, GotoKeeps DEF ActorsOK, PipelineInv, TypeOK, Upgrade, world
<1> QED BY <1>3, <1>5 DEF PipelineInv, Upgrade, StatusFileTrue

\* A boot starts from nothing.
LEMMA RestartKeeps ==
  ASSUME PipelineInv, Restart, booted' \in Image, old' \in BOOLEAN
  PROVE  PipelineInv'
<1>1. ActorsOK'
  BY DEF Restart, StartOfBoot, ActorsOK, UpgradersVerified
<1>2. told' \in Image \cup {None} BY DEF Restart
<1>3. starts' \in 0..StartLimit BY DEF Restart, StartLimit
<1>4. staged' \in Image \cup {None} /\ staged' # booted'
  BY ImageAssumption DEF Restart
<1> QED BY <1>1, <1>2, <1>3, <1>4
        DEF PipelineInv, TypeOK, ActorsOK, Restart, StatusFileAtBoot, StatusFileTrue, world

\* An orderly reboot installs what is staged.
LEMMA RebootKeeps ==
  ASSUME PipelineInv, Reboot
  PROVE  PipelineInv'
<1>1. booted' \in Image /\ old' \in BOOLEAN
  BY DEF Reboot, PipelineInv, TypeOK
<1> QED BY <1>1, RestartKeeps DEF Reboot

\* Every step of the pipeline keeps the invariant.
LEMMA NextPipelineInv ==
  ASSUME PipelineInv, [Next]_vars
  PROVE  PipelineInv'
<1> USE DEF world, disk, desktop
<1>1. ASSUME NEW s \in BootSteps, s # "upgrade", Goto("boot", s),
             UNCHANGED <<world, disk, old, always, verified, starts, splash, desktop>>
      PROVE  PipelineInv'
  BY <1>1, GotoKeeps DEF ActorsOK, PipelineInv, TypeOK, StatusFileTrue
<1>2. ASSUME NEW s \in TimerSteps, s # "upgrade", Goto("timer", s),
             starts' \in 0..StartLimit, cache' \in {"missing", cache, StatusFile},
             notifier' \in {"read", notifier},
             UNCHANGED <<world, disk, old, always, verified, splash, recent, told>>
      PROVE  PipelineInv'
  BY <1>2, GotoKeeps DEF ActorsOK, PipelineInv, TypeOK, StatusFileTrue, StatusFile
<1>3. CASE BootCondition BY <1>1, <1>3 DEF BootCondition
<1>4. CASE BootCheck BY <1>1, <1>4 DEF BootCheck, AfterNoAnswer
<1>5. CASE BootStatus BY <1>1, <1>5, RebootKeeps DEF BootStatus
<1>6. CASE Cancel BY <1>1, <1>6 DEF Cancel
<1>7. CASE \E a \in Actor : Verify(a) BY <1>7, VerifyKeeps
<1>8. CASE \E a \in Actor : Upgrade(a) BY <1>8, UpgradeKeeps
<1>9. starts \in 0..StartLimit BY DEF PipelineInv, TypeOK
<1>10. ASSUME MayStart PROVE starts + 1 \in 0..StartLimit
  BY <1>10, <1>9 DEF MayStart, StartLimit
<1>11. OnSuccess \in TimerSteps /\ OnSuccess # "upgrade" BY DEF OnSuccess
<1>12. CASE TimerStart BY <1>2, <1>10, <1>12 DEF TimerStart
<1>13. CASE TimerSkips BY <1>2, <1>10, <1>11, <1>13 DEF TimerSkips
<1>14. CASE Stamp BY <1>2, <1>11, <1>9, <1>14 DEF Stamp
<1>15. CASE Truncate BY <1>2, <1>9, <1>15 DEF Truncate
<1>16. CASE Refresh BY <1>2, <1>9, <1>16 DEF Refresh
<1>17. CASE StatusAtBoot
  BY <1>17, FrameKeeps DEF StatusAtBoot, StatusFile, PipelineInv, TypeOK, ActorsOK, StatusFileTrue
<1>18. CASE UserStart
  <2>1. Goto("user", "verify") /\ verified' = verified BY <1>18 DEF UserStart
  <2>2. ActorsOK' BY <2>1, GotoKeeps
  <2> QED BY <2>2, <1>18 DEF UserStart, PipelineInv, TypeOK, ActorsOK, StatusFileTrue
<1>19. CASE SetAlways
  BY <1>19, FrameKeeps DEF SetAlways, PipelineInv, TypeOK, ActorsOK, StatusFileTrue
<1>20. CASE UserReboots BY <1>20, RebootKeeps DEF UserReboots
<1>21. CASE NotifierReads
  <2>1. told \in Image \cup {None} BY DEF PipelineInv, TypeOK
  <2>2. Staged \in {"none"} \cup Kind BY DEF Staged, Urgency, Kind
  <2>3. notifier' \in {"idle"} \cup Kind BY <1>21, <2>2 DEF NotifierReads
  <2>4. told' \in Image \cup {None} BY <1>21, <2>1 DEF NotifierReads, PipelineInv, TypeOK
  <2> QED BY <2>3, <2>4, <1>21, FrameKeeps
          DEF NotifierReads, PipelineInv, TypeOK, ActorsOK, StatusFileTrue
<1>22. CASE NotifierCloses
  <2>1. recent' \subseteq Kind BY <1>22 DEF NotifierCloses, NotificationOpen, PipelineInv, TypeOK
  <2> QED
    BY <2>1, <1>22, FrameKeeps DEF NotifierCloses, PipelineInv, TypeOK, ActorsOK, StatusFileTrue
<1>23. CASE TagMoves
  <2>1. moves \in 0..MaxMoves BY DEF PipelineInv, TypeOK
  <2>2. moves' \in 0..MaxMoves BY <1>23, <2>1, BoundAssumption DEF TagMoves
  <2>3. tag' \in Image BY <1>23 DEF TagMoves
  <2> QED
    BY <2>2, <2>3, <1>23, FrameKeeps
    DEF TagMoves, PipelineInv, TypeOK, ActorsOK, StatusFileTrue
<1>24. CASE Ages
  BY <1>24, FrameKeeps DEF Ages, PipelineInv, TypeOK, ActorsOK, StatusFileTrue
<1>25. CASE WindowEnds
  <2>1. starts' \in 0..StartLimit BY <1>25 DEF WindowEnds, StartLimit
  <2> QED
    BY <2>1, <1>25, FrameKeeps DEF WindowEnds, PipelineInv, TypeOK, ActorsOK, StatusFileTrue
<1>26. CASE DateChanges
  BY <1>26, FrameKeeps DEF DateChanges, PipelineInv, TypeOK, ActorsOK, StatusFileTrue
<1>27. CASE PowerCut
  BY <1>27, RestartKeeps DEF PowerCut, PipelineInv, TypeOK
<1>28. CASE UNCHANGED vars
  BY <1>28, FrameKeeps DEF vars, PipelineInv, TypeOK, ActorsOK, StatusFileTrue
<1> QED
  BY <1>3, <1>4, <1>5, <1>6, <1>7, <1>8, <1>12, <1>13, <1>14, <1>15, <1>16, <1>17, <1>18,
     <1>19, <1>20, <1>21, <1>22, <1>23, <1>24, <1>25, <1>26, <1>27, <1>28
  DEF Next, BootStep, TimerStep, UserStep

\* The inductive invariant holds of every behaviour.
THEOREM PipelineCorrect == Spec => []PipelineInv
BY InitPipelineInv, NextPipelineInv, PTL DEF Spec

\* Every variable has its type: upgrade-on-boot, the service and the update
\* command are always at one of their steps.
THEOREM TypeCorrect == Spec => []TypeOK
<1>1. PipelineInv => TypeOK BY DEF PipelineInv
<1> QED BY <1>1, PipelineCorrect, PTL

\* The status file never says that an image is staged when none is.
THEOREM StatusFileIsTrue == Spec => []StatusFileTrue
<1>1. PipelineInv => StatusFileTrue BY DEF PipelineInv
<1> QED BY <1>1, PipelineCorrect, PTL

\* upgrade-on-boot never reboots into the image that is running.
THEOREM BootsAdvance == Spec => NoRebootLoop
<1>1. PipelineInv /\ BootStatus => booted' # booted \/ LoggedIn'
  BY DEF PipelineInv, TypeOK, BootStatus, ReadyToReboot, Reboot, Goto, LoggedIn
<1>2. PipelineInv /\ [Next]_vars => [BootStatus => booted' # booted \/ LoggedIn']_vars
  BY <1>1
<1> QED BY <1>2, PipelineCorrect, PTL DEF Spec, NoRebootLoop

\* Only an actor that has verified an image in its current run stages one.
THEOREM VerifiersStage == Spec => OnlyVerifiersStage
<1> DEFINE Verified == \E a \in Actor : pc[a] = "upgrade" /\ verified[a] \in Proven
<1>1. ASSUME PipelineInv, Next, staged' \notin {staged, None} PROVE Verified
  <2>1. PICK a \in Actor : Upgrade(a)
    BY <1>1 DEF Next, BootStep, BootCondition, BootCheck, BootStatus, Reboot, Restart, Cancel,
       TimerStart, TimerSkips, TimerStep, Verify, Stamp, Truncate, Refresh, StatusAtBoot,
       UserStart, UserStep, SetAlways, UserReboots, NotifierReads, NotifierCloses, TagMoves,
       Ages, WindowEnds, DateChanges, PowerCut, disk, world, desktop
  <2> QED BY <2>1, <1>1 DEF Upgrade, PipelineInv, UpgradersVerified
<1>2. PipelineInv /\ [Next]_vars => [staged' \notin {staged, None} => Verified]_vars
  BY <1>1
<1> QED BY <1>2, PipelineCorrect, PTL DEF Spec, OnlyVerifiersStage
=============================================================================
