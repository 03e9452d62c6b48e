----------------------------- MODULE HostProofs -----------------------------
(***************************************************************************)
(* Proofs about HostScripts, for any number of terminals: what no crash,   *)
(* and no other session, brings about, and that "already" is true.         *)
(***************************************************************************)
EXTENDS HostScripts, ScriptProofs, SequenceTheorems

-----------------------------------------------------------------------------
(* What the calls of a worker are.                                          *)

IsCall(c) == c = [f \in {"look", "seen", "need", "does", "undo"} |-> c[f]]

IsLook(c) == c.look

\* A call of one clause that is done on every machine, unless it was ruled out.
Plain(c, seen, F, G) ==
  IsCall(c) /\ ~IsLook(c) /\ c.seen = seen /\ c.does = {Clause(Always, F, G)} /\ c.undo = {}

LEMMA DoIs ==
  ASSUME NEW F, NEW G
  PROVE  Plain(Do(F, G), Always, F, G) /\ Do(F, G).need = Always
BY DEF Do, Does, Plain, IsCall, IsLook

LEMMA NeedsIs ==
  ASSUME NEW c, NEW seen, NEW F, NEW G, NEW p, Plain(c, seen, F, G)
  PROVE  Plain(Needs(c, p), seen, F, G) /\ Needs(c, p).need = p
BY DEF Needs, Plain, IsCall, IsLook

LEMMA SeenIs ==
  ASSUME NEW c, NEW seen, NEW F, NEW G, NEW p, Plain(c, seen, F, G)
  PROVE  Plain(Seen(c, p), p, F, G) /\ Seen(c, p).need = c.need
BY DEF Seen, Plain, IsCall, IsLook

LEMMA CheckIs ==
  ASSUME NEW p
  PROVE  LET c == Check(p)
         IN  ~IsLook(c) /\ c.seen = Always /\ c.need = p /\ c.does = {} /\ c.undo = {}
BY DEF Check, Does, IsLook

LEMMA LookIs == IsLook(Look) /\ Look.seen = Always /\ Look.does = {} /\ Look.undo = {}
BY DEF Look, Does, IsLook

\* What one clause adds and takes away.
LEMMA PlainAdds ==
  ASSUME NEW c, NEW seen, NEW F, NEW G, Plain(c, seen, F, G), NEW f
  PROVE  /\ Adds(c, f) <=> f \in F
         /\ Takes(c, f) <=> f \in G
BY DEF Plain, Adds, Takes, Clause

LEMMA NothingAdds ==
  ASSUME NEW c, c.does = {}, NEW f
  PROVE  ~Adds(c, f) /\ ~Takes(c, f)
BY DEF Adds, Takes

\* Pieces of three calls each, one after the other.
LEMMA NineCalls ==
  ASSUME NEW a1, NEW a2, NEW a3, NEW b1, NEW b2, NEW b3, NEW c1, NEW c2, NEW c3
  PROVE  LET w == <<a1, a2, a3>> \o <<b1, b2, b3>> \o <<c1, c2, c3>>
         IN  /\ w \in Seq({a1, a2, a3, b1, b2, b3, c1, c2, c3}) /\ Len(w) = 9
             /\ w[1] = a1 /\ w[2] = a2 /\ w[3] = a3 /\ w[4] = b1 /\ w[5] = b2 /\ w[6] = b3
             /\ w[7] = c1 /\ w[8] = c2 /\ w[9] = c3
<1> DEFINE S == {a1, a2, a3, b1, b2, b3, c1, c2, c3}
<1>1. <<a1, a2, a3>> \in Seq(S) /\ <<b1, b2, b3>> \in Seq(S) /\ <<c1, c2, c3>> \in Seq(S)
  OBVIOUS
<1> QED BY <1>1

\* A variable is written by three calls, the second of which writes.
LEMMA WriteEfiCalls ==
  ASSUME NEW write, NEW F, NEW G, Plain(write, Always, F, G), NEW im
  PROVE  \E unlock, set, lock :
           /\ WriteEfi(write, im) = <<unlock, set, lock>>
           /\ Plain(unlock, Always, {}, {im}) /\ Plain(set, Always, F, G) /\ Plain(lock, Always, {im}, {})
<1>1. WriteEfi(write, im) = <<Drop(im), Needs(write, Off({im})), Put(im)>>
  BY DEF WriteEfi
<1>2. Plain(Drop(im), Always, {}, {im}) /\ Plain(Put(im), Always, {im}, {})
  BY DoIs DEF Drop, Put
<1>3. Plain(Needs(write, Off({im})), Always, F, G)
  BY NeedsIs
<1> QED BY <1>1, <1>2, <1>3

\* What the workers that enrol keys have in common: after the only look, the call after next
\* replaces the boot loader's second copy if it was seen to be a copy; no other call does.
LoaderCopies == {"boot other", "boot copy", "boot copied"}
BootCopy     == "boot copy"
BootCopied   == "boot copied"

Apart(c)   == ~IsLook(c) /\ c.undo = {} /\ \A f \in LoaderCopies : ~Adds(c, f)
Looking(c) == IsLook(c) /\ c.undo = {} /\ \A f : ~Adds(c, f)
Copying(c) == /\ ~IsLook(c) /\ c.undo = {} /\ \A f \in LoaderCopies : Adds(c, f) => f = BootCopied
              /\ BootCopy \in c.seen.has

CopiesAfterLook(w, look) ==
  /\ Len(w) \in Nat /\ look \in Nat /\ look + 2 \in 1..Len(w)
  /\ \A i \in 1..Len(w) : i # look /\ i # look + 2 => Apart(w[i])
  /\ Looking(w[look]) /\ Copying(w[look + 2])

LEMMA PlainIsApart ==
  ASSUME NEW c, NEW seen, NEW F, NEW G, Plain(c, seen, F, G), F \cap LoaderCopies = {}
  PROVE  Apart(c)
BY PlainAdds DEF Plain, Apart

LEMMA LookIsLooking == Looking(Look)
BY LookIs, NothingAdds DEF Looking

\* What platform firmware keeps: its mode, and the keys.
Firmware == {"setup", "db", "KEK", "PK"}
Keeps(c) == \A f \in Firmware : ~Takes(c, f)

LEMMA PlainKeeps ==
  ASSUME NEW c, NEW seen, NEW F, NEW G, Plain(c, seen, F, G), G \cap Firmware = {}
  PROVE  Keeps(c)
BY PlainAdds DEF Keeps

\* The calls of UpdateSystemdBoot, and of a variable that is written with a plain call.
LEMMA UpdateCalls ==
  \E put, copy :
    /\ UpdateSystemdBoot = <<Look, put, copy>>
    /\ Apart(put) /\ Copying(copy) /\ Keeps(put) /\ Keeps(copy)
<1> DEFINE old    == Both({"sd"}, {"sd new"})
           copied == Both({"sd", "boot copy"}, {"sd new"})
           put    == Seen(Put("sd new"), old)
           copy   == Seen(Do({"boot copied"}, {"boot copy"}), copied)
<1>1. UpdateSystemdBoot = <<Look, put, copy>>
  BY DEF UpdateSystemdBoot
<1>2. Plain(put, old, {"sd new"}, {})
  BY DoIs, SeenIs DEF Put
<1>3. Plain(copy, copied, {"boot copied"}, {"boot copy"})
  BY DoIs, SeenIs
<1>4. BootCopy \in copied.has
  BY DEF Both, BootCopy
<1> HIDE DEF old, copied, put, copy
<1>5. Apart(put)
  BY <1>2, PlainIsApart DEF LoaderCopies
<1>6. Copying(copy)
  <2>1. \A f : Adds(copy, f) => f = BootCopied
    BY <1>3, PlainAdds DEF BootCopied
  <2>2. BootCopy \in copy.seen.has
    <3>1. copy.seen = copied
      BY <1>3 DEF Plain
    <3> QED BY <1>4, <3>1
  <2> QED BY <1>3, <2>1, <2>2 DEF Plain, Copying
<1>7. Keeps(put) /\ Keeps(copy)
  BY <1>2, <1>3, PlainKeeps DEF Firmware
<1> QED BY <1>1, <1>5, <1>6, <1>7

LEMMA WriteCalls ==
  ASSUME NEW F, NEW G, NEW im, F \cap LoaderCopies = {}, im \notin LoaderCopies
  PROVE  \E unlock, set, lock :
           /\ WriteEfi(Do(F, G), im) = <<unlock, set, lock>>
           /\ Plain(unlock, Always, {}, {im}) /\ Plain(set, Always, F, G) /\ Plain(lock, Always, {im}, {})
           /\ Apart(unlock) /\ Apart(set) /\ Apart(lock)
<1> DEFINE write == Do(F, G)
<1>1. Plain(write, Always, F, G)
  BY DoIs
<1> HIDE DEF write
<1>2. PICK unlock, set, lock :
           /\ WriteEfi(write, im) = <<unlock, set, lock>>
           /\ Plain(unlock, Always, {}, {im}) /\ Plain(set, Always, F, G) /\ Plain(lock, Always, {im}, {})
  BY <1>1, WriteEfiCalls
<1>3. Apart(unlock) /\ Apart(set) /\ Apart(lock)
  BY <1>2, PlainIsApart
<1> QED BY <1>2, <1>3 DEF write

LEMMA MachineOwnerCalls ==
  /\ DOMAIN MachineOwnerKey.worker = {"enroll"}
  /\ CopiesAfterLook(MachineOwnerKey.worker["enroll"], 7)
<1> DEFINE w == EnrollMokKey \o UpdateSystemdBoot
           New == {"new"}       OtherNew  == {"other new"}
           Auth == {"auth"}     OtherAuth == {"other auth"}
           newIm == "new immutable"
           authIm == "auth immutable"
<1>1. DOMAIN MachineOwnerKey.worker = {"enroll"} /\ MachineOwnerKey.worker["enroll"] = w
  BY DEF MachineOwnerKey
<1>2. w = WriteEfi(Do(New, OtherNew), newIm) \o WriteEfi(Do(Auth, OtherAuth), authIm)
          \o UpdateSystemdBoot
  BY DEF EnrollMokKey
<1>3. /\ New \cap LoaderCopies = {} /\ Auth \cap LoaderCopies = {}
      /\ newIm \notin LoaderCopies /\ authIm \notin LoaderCopies
  BY DEF LoaderCopies
<1> HIDE DEF New, OtherNew, Auth, OtherAuth, newIm, authIm, w
<1>4. PICK a1, a2, a3 :
        /\ WriteEfi(Do(New, OtherNew), newIm) = <<a1, a2, a3>>
        /\ Plain(a1, Always, {}, {newIm}) /\ Plain(a2, Always, New, OtherNew) /\ Plain(a3, Always, {newIm}, {})
        /\ Apart(a1) /\ Apart(a2) /\ Apart(a3)
  BY <1>3, WriteCalls
<1>5. PICK b1, b2, b3 :
        /\ WriteEfi(Do(Auth, OtherAuth), authIm) = <<b1, b2, b3>>
        /\ Plain(b1, Always, {}, {authIm}) /\ Plain(b2, Always, Auth, OtherAuth) /\ Plain(b3, Always, {authIm}, {})
        /\ Apart(b1) /\ Apart(b2) /\ Apart(b3)
  BY <1>3, WriteCalls
<1>6. PICK put, copy : UpdateSystemdBoot = <<Look, put, copy>> /\ Apart(put) /\ Copying(copy)
  BY UpdateCalls
<1>7. w = <<a1, a2, a3>> \o <<b1, b2, b3>> \o <<Look, put, copy>>
  BY <1>2, <1>4, <1>5, <1>6
<1>8. /\ Len(w) = 9
      /\ w[1] = a1 /\ w[2] = a2 /\ w[3] = a3 /\ w[4] = b1 /\ w[5] = b2 /\ w[6] = b3
      /\ w[7] = Look /\ w[8] = put /\ w[9] = copy
  BY <1>7, NineCalls
<1>9. \A i \in 1..9 : i # 7 /\ i # 9 => Apart(w[i])
  <2> TAKE i \in 1..9
  <2>1. \A c \in {a1, a2, a3, b1, b2, b3, put} : Apart(c)
    BY <1>4, <1>5, <1>6
  <2>2. i # 7 /\ i # 9 => w[i] \in {a1, a2, a3, b1, b2, b3, put}
    BY <1>8
  <2> QED BY <2>1, <2>2
<1>10. CopiesAfterLook(w, 7)
  BY <1>6, <1>8, <1>9, LookIsLooking DEF CopiesAfterLook
<1> QED BY <1>1, <1>10

\* The three keys are written in this order; the last write takes Setup Mode away, and no other
\* call takes any of this away.
Db    == {"db"}
Kek   == {"KEK"}
Pk    == {"PK"}
Setup == {"setup"}

EnrollsInOrder(w) ==
  /\ Len(w) = 14
  /\ Plain(w[3], Always, Db, {}) /\ Plain(w[6], Always, Kek, {}) /\ Plain(w[9], Always, Pk, Setup)
  /\ \A i \in 1..14 : i # 9 => Keeps(w[i])

LEMMA LockKeeps ==
  ASSUME NEW im, im \notin Firmware, NEW unlock, NEW lock,
         Plain(unlock, Always, {}, {im}), Plain(lock, Always, {im}, {})
  PROVE  Keeps(unlock) /\ Keeps(lock)
BY PlainKeeps

\* One call, nine, three and one.
Joined(w, a, b, c, d) ==
  /\ Len(w) = 14 /\ w[1] = a[1]
  /\ w[2] = b[1] /\ w[3] = b[2] /\ w[4] = b[3] /\ w[5] = b[4] /\ w[6] = b[5]
  /\ w[7] = b[6] /\ w[8] = b[7] /\ w[9] = b[8] /\ w[10] = b[9]
  /\ w[11] = c[1] /\ w[12] = c[2] /\ w[13] = c[3] /\ w[14] = d[1]

LEMMA Fourteen ==
  ASSUME NEW S, NEW a \in Seq(S), NEW b \in Seq(S), NEW c \in Seq(S), NEW d \in Seq(S),
         Len(a) = 1, Len(b) = 9, Len(c) = 3, Len(d) = 1
  PROVE  Joined(a \o b \o c \o d, a, b, c, d)
<1> DEFINE ab == a \o b
           abc == ab \o c
<1>1. /\ ab \in Seq(S) /\ Len(ab) = 10
      /\ \A i \in 1..10 : ab[i] = IF i <= 1 THEN a[i] ELSE b[i - 1]
  <2>1. /\ ab \in Seq(S) /\ Len(ab) = Len(a) + Len(b)
        /\ \A i \in 1..(Len(a) + Len(b)) : ab[i] = IF i <= Len(a) THEN a[i] ELSE b[i - Len(a)]
    BY ConcatProperties
  <2> HIDE DEF ab
  <2> QED BY <2>1
<1> HIDE DEF ab
<1>2. /\ abc \in Seq(S) /\ Len(abc) = 13
      /\ \A i \in 1..13 : abc[i] = IF i <= 10 THEN ab[i] ELSE c[i - 10]
  <2>1. /\ abc \in Seq(S) /\ Len(abc) = Len(ab) + Len(c)
        /\ \A i \in 1..(Len(ab) + Len(c)) : abc[i] = IF i <= Len(ab) THEN ab[i] ELSE c[i - Len(ab)]
    BY <1>1, ConcatProperties
  <2> HIDE DEF abc
  <2> QED BY <1>1, <2>1
<1> HIDE DEF abc
<1> DEFINE w == abc \o d
<1>3. /\ Len(w) = 14
      /\ \A i \in 1..14 : w[i] = IF i <= 13 THEN abc[i] ELSE d[i - 13]
  <2>1. /\ Len(w) = Len(abc) + Len(d)
        /\ \A i \in 1..(Len(abc) + Len(d)) : w[i] = IF i <= Len(abc) THEN abc[i] ELSE d[i - Len(abc)]
    BY <1>2, ConcatProperties
  <2> HIDE DEF w
  <2> QED BY <1>2, <2>1
<1>5. a \o b \o c \o d = w
  BY DEF ab, abc
<1> HIDE DEF w
<1>4. abc[1] = a[1] /\ (\A i \in 2..10 : abc[i] = b[i - 1]) /\ \A i \in 11..13 : abc[i] = c[i - 10]
  BY <1>1, <1>2
<1>7. /\ Len(w) = 14 /\ w[1] = a[1] /\ w[14] = d[1]
      /\ \A i \in 2..10 : w[i] = b[i - 1]
      /\ \A i \in 11..13 : w[i] = c[i - 10]
  BY <1>3, <1>4
<1>8. /\ w[2] = b[1] /\ w[3] = b[2] /\ w[4] = b[3] /\ w[5] = b[4] /\ w[6] = b[5]
      /\ w[7] = b[6] /\ w[8] = b[7] /\ w[9] = b[8] /\ w[10] = b[9]
  BY <1>7
<1>9. w[11] = c[1] /\ w[12] = c[2] /\ w[13] = c[3]
  BY <1>7
<1>10. Joined(w, a, b, c, d)
  BY <1>7, <1>8, <1>9 DEF Joined
<1> QED BY <1>5, <1>10

LEMMA FourteenCalls ==
  ASSUME NEW x, NEW a1, NEW a2, NEW a3, NEW b1, NEW b2, NEW b3, NEW c1, NEW c2, NEW c3,
         NEW d1, NEW d2, NEW d3, NEW y
  PROVE  LET w == <<x>> \o (<<a1, a2, a3>> \o <<b1, b2, b3>> \o <<c1, c2, c3>>)
                    \o <<d1, d2, d3>> \o <<y>>
         IN  /\ Len(w) = 14
             /\ w[1] = x
             /\ w[2] = a1 /\ w[3] = a2 /\ w[4] = a3 /\ w[5] = b1 /\ w[6] = b2 /\ w[7] = b3
             /\ w[8] = c1 /\ w[9] = c2 /\ w[10] = c3 /\ w[11] = d1 /\ w[12] = d2 /\ w[13] = d3
             /\ w[14] = y
<1> DEFINE S == {x, a1, a2, a3, b1, b2, b3, c1, c2, c3, d1, d2, d3, y}
           sx  == <<x>>
           abc == <<a1, a2, a3>> \o <<b1, b2, b3>> \o <<c1, c2, c3>>
           sd  == <<d1, d2, d3>>
           sy  == <<y>>
<1>1. /\ sx \in Seq(S) /\ sd \in Seq(S) /\ sy \in Seq(S)
      /\ <<a1, a2, a3>> \in Seq(S) /\ <<b1, b2, b3>> \in Seq(S) /\ <<c1, c2, c3>> \in Seq(S)
  OBVIOUS
<1> HIDE DEF S
<1>2. /\ abc \in Seq(S) /\ Len(abc) = 9
      /\ abc[1] = a1 /\ abc[2] = a2 /\ abc[3] = a3 /\ abc[4] = b1 /\ abc[5] = b2 /\ abc[6] = b3
      /\ abc[7] = c1 /\ abc[8] = c2 /\ abc[9] = c3
  BY NineCalls DEF S
<1>3. /\ Len(sx) = 1 /\ Len(sd) = 3 /\ Len(sy) = 1
      /\ sx[1] = x /\ sd[1] = d1 /\ sd[2] = d2 /\ sd[3] = d3 /\ sy[1] = y
  OBVIOUS
<1>4. sx \o abc \o sd \o sy
        = <<x>> \o (<<a1, a2, a3>> \o <<b1, b2, b3>> \o <<c1, c2, c3>>) \o <<d1, d2, d3>> \o <<y>>
  OBVIOUS
<1> HIDE DEF sx, abc, sd, sy
<1> DEFINE w == sx \o abc \o sd \o sy
<1>5. Joined(w, sx, abc, sd, sy)
  <2>1. sx \in Seq(S) /\ abc \in Seq(S) /\ sd \in Seq(S) /\ sy \in Seq(S)
    BY <1>1, <1>2
  <2>2. Len(sx) = 1 /\ Len(abc) = 9 /\ Len(sd) = 3 /\ Len(sy) = 1
    BY <1>2, <1>3
  <2> QED BY <2>1, <2>2, Fourteen
<1> HIDE DEF w
<1>6. /\ Len(w) = 14 /\ w[1] = x
      /\ w[2] = a1 /\ w[3] = a2 /\ w[4] = a3 /\ w[5] = b1 /\ w[6] = b2 /\ w[7] = b3
      /\ w[8] = c1 /\ w[9] = c2 /\ w[10] = c3 /\ w[11] = d1 /\ w[12] = d2 /\ w[13] = d3
      /\ w[14] = y
  BY <1>2, <1>3, <1>5 DEF Joined
<1>7. w = <<x>> \o (<<a1, a2, a3>> \o <<b1, b2, b3>> \o <<c1, c2, c3>>) \o <<d1, d2, d3>> \o <<y>>
  BY <1>4 DEF w
<1> QED BY <1>6, <1>7

\* As WriteCalls, for a key that can be written in Setup Mode only.
SetupWrite(F, G, im) ==
  [i \in 1..3 |-> IF i = 2 THEN InSetup(WriteEfi(Do(F, G), im)[2]) ELSE WriteEfi(Do(F, G), im)[i]]

LEMMA SetupWriteCalls ==
  ASSUME NEW F, NEW G, NEW im, F \cap LoaderCopies = {}, im \notin LoaderCopies
  PROVE  \E unlock, set, lock :
           /\ SetupWrite(F, G, im) = <<unlock, set, lock>>
           /\ Plain(unlock, Always, {}, {im}) /\ Plain(set, Always, F, G) /\ Plain(lock, Always, {im}, {})
           /\ Apart(unlock) /\ Apart(set) /\ Apart(lock)
<1> DEFINE W == WriteEfi(Do(F, G), im)
<1>1. PICK unlock, set, lock :
           /\ W = <<unlock, set, lock>>
           /\ Plain(unlock, Always, {}, {im}) /\ Plain(set, Always, F, G) /\ Plain(lock, Always, {im}, {})
           /\ Apart(unlock) /\ Apart(set) /\ Apart(lock)
  BY WriteCalls
<1> HIDE DEF W
<1> DEFINE write == InSetup(set)
<1>2. Plain(write, Always, F, G)
  BY <1>1, NeedsIs DEF InSetup
<1>3. Apart(write)
  BY <1>2, PlainIsApart
<1>4. SetupWrite(F, G, im) = <<unlock, write, lock>>
  <2>0. SetupWrite(F, G, im) = [i \in 1..3 |-> IF i = 2 THEN InSetup(W[2]) ELSE W[i]]
    BY DEF SetupWrite, W
  <2> HIDE DEF write
  <2>1. W[1] = unlock /\ W[2] = set /\ W[3] = lock
    BY <1>1
  <2>2. InSetup(W[2]) = write
    BY <2>1 DEF write
  <2> QED BY <2>0, <2>1, <2>2
<1> HIDE DEF write
<1> QED BY <1>1, <1>2, <1>3, <1>4

LEMMA CheckIsApart ==
  ASSUME NEW p
  PROVE  Apart(Check(p)) /\ Keeps(Check(p))
BY CheckIs, NothingAdds DEF Apart, Keeps

LEMMA PlatformCalls ==
  /\ DOMAIN PlatformKey.worker = {"enroll"}
  /\ CopiesAfterLook(PlatformKey.worker["enroll"], 11)
  /\ EnrollsInOrder(PlatformKey.worker["enroll"])
<1> DEFINE x == Check(SetupMode)
           y == Check(Enrolled({"PK"}))
           dbIm == "db immutable"
           kekIm == "KEK immutable"
           pkIm == "PK immutable"
           w == <<x>> \o EnrollEfiKeys \o UpdateSystemdBoot \o <<y>>
<1>1. DOMAIN PlatformKey.worker = {"enroll"} /\ PlatformKey.worker["enroll"] = w
  BY DEF PlatformKey
<1>2. EnrollEfiKeys = SetupWrite(Db, {}, dbIm) \o SetupWrite(Kek, {}, kekIm) \o SetupWrite(Pk, Setup, pkIm)
  BY DEF EnrollEfiKeys, Put, SetupWrite, Db, Kek, Pk, Setup
<1>3. /\ Db \cap LoaderCopies = {} /\ Kek \cap LoaderCopies = {} /\ Pk \cap LoaderCopies = {}
      /\ dbIm \notin LoaderCopies /\ kekIm \notin LoaderCopies /\ pkIm \notin LoaderCopies
  BY DEF LoaderCopies, Db, Kek, Pk
<1>4. dbIm \notin Firmware /\ kekIm \notin Firmware /\ pkIm \notin Firmware
  BY DEF Firmware
<1> HIDE DEF x, y, dbIm, kekIm, pkIm, w
<1>5. PICK a1, a2, a3 :
        /\ SetupWrite(Db, {}, dbIm) = <<a1, a2, a3>>
        /\ Plain(a1, Always, {}, {dbIm}) /\ Plain(a2, Always, Db, {}) /\ Plain(a3, Always, {dbIm}, {})
        /\ Apart(a1) /\ Apart(a2) /\ Apart(a3)
  BY <1>3, SetupWriteCalls
<1>6. PICK b1, b2, b3 :
        /\ SetupWrite(Kek, {}, kekIm) = <<b1, b2, b3>>
        /\ Plain(b1, Always, {}, {kekIm}) /\ Plain(b2, Always, Kek, {}) /\ Plain(b3, Always, {kekIm}, {})
        /\ Apart(b1) /\ Apart(b2) /\ Apart(b3)
  BY <1>3, SetupWriteCalls
<1>7. PICK c1, c2, c3 :
        /\ SetupWrite(Pk, Setup, pkIm) = <<c1, c2, c3>>
        /\ Plain(c1, Always, {}, {pkIm}) /\ Plain(c2, Always, Pk, Setup) /\ Plain(c3, Always, {pkIm}, {})
        /\ Apart(c1) /\ Apart(c2) /\ Apart(c3)
  BY <1>3, SetupWriteCalls
<1>8. PICK put, copy :
    /\ UpdateSystemdBoot = <<Look, put, copy>>
    /\ Apart(put) /\ Copying(copy) /\ Keeps(put) /\ Keeps(copy)
  BY UpdateCalls
<1>9. w = <<x>> \o (<<a1, a2, a3>> \o <<b1, b2, b3>> \o <<c1, c2, c3>>) \o <<Look, put, copy>> \o <<y>>
  BY <1>2, <1>5, <1>6, <1>7, <1>8 DEF w
<1>10. /\ Len(w) = 14
       /\ w[1] = x
       /\ w[2] = a1 /\ w[3] = a2 /\ w[4] = a3 /\ w[5] = b1 /\ w[6] = b2 /\ w[7] = b3
       /\ w[8] = c1 /\ w[9] = c2 /\ w[10] = c3 /\ w[11] = Look /\ w[12] = put /\ w[13] = copy
       /\ w[14] = y
  BY <1>9, FourteenCalls
<1>11. Apart(x) /\ Apart(y) /\ Keeps(x) /\ Keeps(y)
  BY CheckIsApart DEF x, y
<1>12. \A i \in 1..14 : i # 11 /\ i # 13 => Apart(w[i])
  <2> TAKE i \in 1..14
  <2>1. \A c \in {x, a1, a2, a3, b1, b2, b3, c1, c2, c3, put, y} : Apart(c)
    BY <1>5, <1>6, <1>7, <1>8, <1>11
  <2>2. i # 11 /\ i # 13 => w[i] \in {x, a1, a2, a3, b1, b2, b3, c1, c2, c3, put, y}
    BY <1>10
  <2> QED BY <2>1, <2>2
<1>13. \A i \in 1..14 : i # 9 => Keeps(w[i])
  <2> TAKE i \in 1..14
  <2>1. /\ Keeps(a1) /\ Keeps(a3) /\ Keeps(b1) /\ Keeps(b3) /\ Keeps(c1) /\ Keeps(c3)
    BY <1>4, <1>5, <1>6, <1>7, LockKeeps
  <2>2. Keeps(a2) /\ Keeps(b2) /\ Keeps(Look)
    BY <1>5, <1>6, PlainKeeps, LookIs, NothingAdds DEF Keeps
  <2>3. \A c \in {x, a1, a2, a3, b1, b2, b3, c1, c3, Look, put, copy, y} : Keeps(c)
    BY <1>8, <1>11, <2>1, <2>2
  <2>4. i # 9 => w[i] \in {x, a1, a2, a3, b1, b2, b3, c1, c3, Look, put, copy, y}
    BY <1>10
  <2> QED BY <2>3, <2>4
<1>14. CopiesAfterLook(w, 11)
  BY <1>8, <1>10, <1>12, LookIsLooking DEF CopiesAfterLook
<1>15. EnrollsInOrder(w)
  <2>1. Plain(w[3], Always, Db, {}) /\ Plain(w[6], Always, Kek, {}) /\ Plain(w[9], Always, Pk, Setup)
    BY <1>5, <1>6, <1>7, <1>10
  <2> QED BY <1>10, <1>13, <2>1 DEF EnrollsInOrder
<1> QED BY <1>1, <1>14, <1>15

-----------------------------------------------------------------------------
(* The steps of a program that nothing but its own sessions and the boot    *)
(* interferes with.                                                         *)

OthersStay(s) == \A t \in Session \ {s} : mode'[t] = mode[t] /\ at'[t] = at[t] /\ skip'[t] = skip[t]

\* The next call is done, or left out.
MovesOn(s, i, c) ==
  /\ mode[s] # "none" /\ i = at[s] + 1 /\ i \in 1..Len(Worker(s)) /\ c = Worker(s)[i]
  /\ \/ i \in skip[s] /\ machine' = machine
     \/ i \notin skip[s] /\ Holds(c.need, machine) /\ machine' = Effect(c.does, machine)
  /\ \/ mode'[s] = "none"
     \/ /\ mode'[s] = mode[s] /\ at'[s] = i
        /\ skip'[s] = IF IsLook(c) THEN RuledOut(s, i) ELSE skip[s]
  /\ OthersStay(s)

\* A run ends with a call that may take something back.
Ends(s, c) ==
  /\ mode[s] # "none" /\ at[s] + 1 \in 1..Len(Worker(s)) /\ c = Worker(s)[at[s] + 1]
  /\ machine' = machine \/ machine' = machine \ c.undo
  /\ mode'[s] = "none" /\ OthersStay(s)

Begins(s) == machine' = machine /\ at'[s] = 0 /\ skip'[s] = {} /\ OthersStay(s)

Boots == \E C \in this.boot : machine' = Effect(C, machine) /\ \A t \in Session : mode'[t] = "none"

LEMMA Steps ==
  ASSUME TypeOK, [Next]_vars, this.outside = {}
  PROVE  /\ name' = name
         /\ \/ \E s \in Session : \E i, c : MovesOn(s, i, c)
            \/ \E s \in Session : \E c : Ends(s, c)
            \/ \E s \in Session : Begins(s)
            \/ Boots
            \/ UNCHANGED <<machine, mode, at, skip>>
<1>1. ASSUME NEW s \in Session, NEW md \in Mode, SayAlready(s, md)
      PROVE  name' = name /\ UNCHANGED <<machine, mode, at, skip>>
  BY <1>1 DEF SayAlready, sessions
<1>2. ASSUME NEW s \in Session, NEW md \in Mode, Start(s, md) PROVE name' = name /\ Begins(s)
  BY <1>2 DEF Start, TypeOK, Begins, OthersStay
<1>3. ASSUME NEW s \in Session, Rest(s)
      PROVE  mode'[s] = "none" /\ OthersStay(s)
  BY <1>3 DEF TypeOK, Rest, OthersStay
<1>4. ASSUME NEW s \in Session, Call(s) \/ Finish(s)
      PROVE  name' = name /\ \E i, c : MovesOn(s, i, c)
  <2> DEFINE i == at[s] + 1
             c == Worker(s)[i]
  <2>1. mode[s] # "none" /\ i \in 1..Len(Worker(s)) /\ Forward(s) /\ name' = name
    BY <1>4, ForwardDoes DEF Call, Finish, Forward
  <2>2. \/ i \in skip[s] /\ machine' = machine
        \/ i \notin skip[s] /\ Holds(c.need, machine) /\ machine' = Effect(c.does, machine)
    BY <2>1 DEF Forward
  <2>3. CASE Call(s)
    <3>1. /\ at' = [at EXCEPT ![s] = i] /\ UNCHANGED mode
          /\ skip' = [skip EXCEPT ![s] = IF c.look THEN RuledOut(s, i) ELSE @]
      BY <2>3 DEF Call
    <3>2. /\ mode'[s] = mode[s] /\ at'[s] = i /\ OthersStay(s)
          /\ skip'[s] = IF IsLook(c) THEN RuledOut(s, i) ELSE skip[s]
      BY <3>1 DEF TypeOK, OthersStay, IsLook
    <3> QED BY <2>1, <2>2, <3>2 DEF MovesOn
  <2>4. CASE Finish(s)
    <3>1. mode'[s] = "none" /\ OthersStay(s)
      BY <1>3, <2>4 DEF Finish
    <3> QED BY <2>1, <2>2, <3>1 DEF MovesOn
  <2> QED BY <1>4, <2>3, <2>4
<1>5. ASSUME NEW s \in Session, Raise(s) \/ GiveUp(s)
      PROVE  name' = name /\ \E c : Ends(s, c)
  <2>1. mode[s] # "none" /\ at[s] + 1 \in 1..Len(Worker(s)) /\ name' = name /\ Rest(s)
    <3>1. mode[s] # "none" /\ name' = name /\ Rest(s)
      BY <1>5 DEF Raise, GiveUp
    <3> QED BY <3>1, WorkerHasCalls DEF TypeOK
  <2>2. machine' = machine \/ machine' = machine \ Worker(s)[at[s] + 1].undo
    BY <1>5 DEF Raise, GiveUp
  <2> QED BY <1>3, <2>1, <2>2 DEF Ends
<1>6. ~Outside
  BY DEF Outside
<1>7. ASSUME Reboot PROVE name' = name /\ Boots
  BY <1>7 DEF Reboot, Boots
<1>8. CASE UNCHANGED vars
  BY <1>8 DEF vars, sessions
<1> QED BY <1>1, <1>2, <1>4, <1>5, <1>6, <1>7, <1>8 DEF Next

LEMMA NameStays ==
  ASSUME [Next]_vars
  PROVE  name' = name
<1>1. CASE UNCHANGED vars
  BY <1>1 DEF vars
<1>2. ASSUME NEW s \in Session, NEW md \in Mode, SayAlready(s, md) \/ Start(s, md)
      PROVE  name' = name
  BY <1>2 DEF SayAlready, Start
<1>3. ASSUME NEW s \in Session, Call(s) \/ Finish(s) \/ Raise(s) \/ GiveUp(s)
      PROVE  name' = name
  BY <1>3 DEF Call, Finish, Raise, GiveUp
<1>4. CASE Outside \/ Reboot
  BY <1>4 DEF Outside, Reboot
<1> QED BY <1>1, <1>2, <1>3, <1>4 DEF Next

LEMMA NothingTakenBack ==
  ASSUME NEW w, NEW look, CopiesAfterLook(w, look), NEW i \in 1..Len(w)
  PROVE  w[i].undo = {}
<1>1. CASE i = look
  BY <1>1 DEF CopiesAfterLook, Looking
<1>2. CASE i = look + 2
  BY <1>2 DEF CopiesAfterLook, Copying
<1>3. CASE i # look /\ i # look + 2
  BY <1>3 DEF CopiesAfterLook, Apart
<1> QED BY <1>1, <1>2, <1>3

\* A call that every run is to do is not left out.
LEMMA NotLeftOut ==
  ASSUME RunInv, NEW s \in Session, NEW i, NEW c, MovesOn(s, i, c), c.seen = Always
  PROVE  i \notin skip[s] /\ Holds(c.need, machine) /\ machine' = Effect(c.does, machine)
BY DEF RunInv, Undisturbed, SkipsLooked, MovesOn

-----------------------------------------------------------------------------
(* The invariants behind NeverHarmed, one for each of its states.           *)

\* Setup Mode ends when the third key is written, and a run gets there with the two that it has
\* written before: no run takes them away.
KeysInv ==
  name = "platformKey" =>
    /\ "setup" \notin machine => {"db", "KEK", "PK"} \subseteq machine
    /\ \A s \in Session : mode[s] # "none" =>
         /\ at[s] >= 3 => "db" \in machine
         /\ at[s] >= 6 => "KEK" \in machine

\* A copy of somebody else's is nobody's to replace: every run that has looked has seen that, for
\* it has been so from the start.
LookAt == [n \in {"platformKey", "machineOwnerKey"} |-> IF n = "platformKey" THEN 11 ELSE 7]

LoaderInv ==
  name \in DOMAIN LookAt /\ "boot other" \in machine =>
    /\ "boot copy" \notin machine /\ "boot copied" \notin machine
    /\ \A s \in Session : mode[s] # "none" /\ at[s] >= LookAt[name] => LookAt[name] + 2 \in skip[s]

\* The accounts: whoever has a password has a user; a run that has made its user is the only one
\* to have done so, has it still, and has given it a password after its third call and not before.
UserOf(u)     == <<"user", u>>
PasswordOf(u) == <<"password", u>>
WheelOf(u)    == <<"wheel", u>>

Asker(s)    == Asks[mode[s]][1]
Newcomer(s) == Asks[mode[s]][2]
HasMade(s)  == mode[s] # "none" /\ at[s] >= 2

AdminInv ==
  name = "createAdmin" =>
    /\ \E u \in User : {UserOf(u), PasswordOf(u), WheelOf(u)} \subseteq machine
    /\ \A u \in User : PasswordOf(u) \in machine => UserOf(u) \in machine
    /\ \A s \in Session : skip[s] = {}
    /\ \A s \in Session : HasMade(s) =>
         /\ UserOf(Newcomer(s)) \in machine
         /\ PasswordOf(Newcomer(s)) \in machine <=> at[s] >= 3
    /\ \A s, t \in Session : HasMade(s) /\ HasMade(t) /\ Newcomer(s) = Newcomer(t) => s = t

HarmInv == KeysInv /\ LoaderInv /\ AdminInv

-----------------------------------------------------------------------------
(* Setup Mode.                                                              *)

LEMMA PlatformIs ==
  ASSUME Program = Programs, name = "platformKey", TypeOK
  PROVE  /\ this.outside = {} /\ this.boot = {{}}
         /\ \A s \in Session : mode[s] # "none" => Worker(s) = PlatformKey.worker["enroll"]
<1>1. this = PlatformKey
  BY DEF this, Programs
<1>2. this.outside = {} /\ this.boot = {{}}
  BY <1>1 DEF PlatformKey, NoOutside, NoBoot
<1>3. Mode = {"enroll"}
  BY <1>1, PlatformCalls DEF Mode
<1> QED BY <1>1, <1>2, <1>3 DEF TypeOK, Worker

\* What is in the firmware stays, whatever call of the run is made; the ninth takes Setup Mode away.
LEMMA KeysStay ==
  ASSUME NEW w, EnrollsInOrder(w), NEW i \in 1..14
  PROVE  /\ \A f \in {"db", "KEK", "PK"} : ~Takes(w[i], f)
         /\ i # 9 => ~Takes(w[i], "setup")
<1>1. CASE i # 9
  BY <1>1 DEF EnrollsInOrder, Keeps, Firmware
<1>2. CASE i = 9
  <2>1. Plain(w[9], Always, Pk, Setup)
    BY DEF EnrollsInOrder
  <2>2. \A f : Takes(w[9], f) <=> f \in Setup
    BY <2>1, PlainAdds
  <2> QED BY <1>2, <2>2 DEF Setup
<1> QED BY <1>1, <1>2

\* A plain call that is made leaves what it adds.
LEMMA PlainSets ==
  ASSUME NEW c, NEW F, NEW G, Plain(c, Always, F, G), NEW f \in F, NEW m
  PROVE  f \in Effect(c.does, m)
<1> DEFINE x == Clause(Always, F, G)
<1>1. x \in c.does /\ x.when = Always /\ x.add = F
  BY DEF Plain, Clause
<1> HIDE DEF x
<1>2. Holds(x.when, m)
  BY <1>1, AlwaysHolds
<1> QED BY <1>1, <1>2 DEF Effect

LEMMA EmptyEffect == \A m : Effect({}, m) = m
BY DEF Effect

LEMMA KeysInvInit ==
  ASSUME Program = Programs, Init
  PROVE  KeysInv
<1> SUFFICES ASSUME name = "platformKey"
             PROVE  "setup" \in machine /\ \A s \in Session : mode[s] = "none"
  BY DEF KeysInv
<1>1. this = PlatformKey
  BY DEF this, Programs
<1>2. "setup" \in machine
  BY <1>1 DEF Init, PlatformKey
<1> QED BY <1>2 DEF Init

LEMMA KeysInvNext ==
  ASSUME Program = Programs, TypeOK, TypeOK', RunInv, KeysInv, [Next]_vars
  PROVE  KeysInv'
<1> DEFINE Ended(m) == "setup" \notin m => {"db", "KEK", "PK"} \subseteq m
<1> SUFFICES ASSUME name = "platformKey", name' = name
             PROVE  /\ Ended(machine')
                    /\ \A s \in Session : mode'[s] # "none" =>
                         /\ at'[s] >= 3 => "db" \in machine'
                         /\ at'[s] >= 6 => "KEK" \in machine'
  BY NameStays DEF KeysInv
<1> DEFINE w == PlatformKey.worker["enroll"]
<1>1. /\ this.outside = {} /\ this.boot = {{}}
      /\ \A s \in Session : mode[s] # "none" => Worker(s) = w
  BY PlatformIs
<1>2. EnrollsInOrder(w) /\ CopiesAfterLook(w, 11)
  BY PlatformCalls
<1> HIDE DEF w
<1>3. /\ Ended(machine)
      /\ \A s \in Session : mode[s] # "none" =>
           /\ at[s] >= 3 => "db" \in machine
           /\ at[s] >= 6 => "KEK" \in machine
  BY DEF KeysInv
<1>4. at \in [Session -> Nat] /\ at' \in [Session -> Nat]
  BY DEF TypeOK
<1>5. ASSUME NEW s \in Session, NEW i, NEW c, MovesOn(s, i, c)
      PROVE  /\ Ended(machine')
             /\ \A t \in Session : mode'[t] # "none" =>
                  /\ at'[t] >= 3 => "db" \in machine'
                  /\ at'[t] >= 6 => "KEK" \in machine'
  <2>1. /\ i = at[s] + 1 /\ i \in 1..14 /\ c = w[i] /\ mode[s] # "none" /\ OthersStay(s)
        /\ machine' = machine \/ machine' = Effect(c.does, machine)
        /\ mode'[s] # "none" => mode'[s] = mode[s] /\ at'[s] = i
    BY <1>1, <1>2, <1>5 DEF MovesOn, EnrollsInOrder
  <2>2. \A f \in {"db", "KEK", "PK"} : f \in machine => f \in machine'
    <3> TAKE f \in {"db", "KEK", "PK"}
    <3>1. ~Takes(c, f)
      BY <1>2, <2>1, KeysStay
    <3> QED BY <2>1, <3>1, KeepsWhatItDoesNotTake
  <2>3. ASSUME i # 9, "setup" \in machine PROVE "setup" \in machine'
    <3> DEFINE f == "setup"
    <3>1. ~Takes(c, f)
      BY <1>2, <2>1, <2>3, KeysStay
    <3> HIDE DEF f
    <3>2. f \in machine => f \in Effect(c.does, machine)
      BY <3>1, KeepsWhatItDoesNotTake
    <3>3. f \in machine'
      BY <2>1, <2>3, <3>2 DEF f
    <3> QED BY <3>3 DEF f
  <2>4. i = 3 => "db" \in machine'
    <3>1. ASSUME i = 3 PROVE Plain(c, Always, Db, {})
      BY <1>2, <2>1, <3>1 DEF EnrollsInOrder
    <3>2. ASSUME i = 3 PROVE machine' = Effect(c.does, machine)
      BY <1>5, <3>1, <3>2, NotLeftOut DEF Plain
    <3> QED BY <3>1, <3>2, PlainSets DEF Db
  <2>5. i = 6 => "KEK" \in machine'
    <3>1. ASSUME i = 6 PROVE Plain(c, Always, Kek, {})
      BY <1>2, <2>1, <3>1 DEF EnrollsInOrder
    <3>2. ASSUME i = 6 PROVE machine' = Effect(c.does, machine)
      BY <1>5, <3>1, <3>2, NotLeftOut DEF Plain
    <3> QED BY <3>1, <3>2, PlainSets DEF Kek
  <2>6. i = 9 => "PK" \in machine'
    <3>1. ASSUME i = 9 PROVE Plain(c, Always, Pk, Setup)
      BY <1>2, <2>1, <3>1 DEF EnrollsInOrder
    <3>2. ASSUME i = 9 PROVE machine' = Effect(c.does, machine)
      BY <1>5, <3>1, <3>2, NotLeftOut DEF Plain
    <3> QED BY <3>1, <3>2, PlainSets DEF Pk
  <2>7. Ended(machine')
    <3>1. CASE i = 9
      BY <1>3, <1>4, <2>1, <2>2, <2>6, <3>1
    <3>2. CASE i # 9
      BY <1>3, <2>2, <2>3, <3>2
    <3> QED BY <3>1, <3>2
  <2>8. ASSUME NEW t \in Session, mode'[t] # "none"
        PROVE  /\ at'[t] >= 3 => "db" \in machine'
               /\ at'[t] >= 6 => "KEK" \in machine'
    <3>1. CASE t = s
      BY <1>3, <1>4, <2>1, <2>2, <2>4, <2>5, <2>8, <3>1
    <3>2. CASE t # s
      BY <1>3, <2>1, <2>2, <2>8, <3>2 DEF OthersStay
    <3> QED BY <3>1, <3>2
  <2> QED BY <2>7, <2>8
<1>6. ASSUME NEW s \in Session, NEW c, Ends(s, c)
      PROVE  machine' = machine /\ \A t \in Session : mode'[t] # "none" => mode[t] # "none" /\ at'[t] = at[t]
  <2>1. at[s] + 1 \in 1..Len(w) /\ c = w[at[s] + 1]
    BY <1>1, <1>6 DEF Ends
  <2>2. c.undo = {}
    BY <1>2, <2>1, NothingTakenBack
  <2> QED BY <1>6, <2>2 DEF Ends, OthersStay
<1>7. ASSUME NEW s \in Session, Begins(s)
      PROVE  machine' = machine /\ \A t \in Session : mode'[t] # "none" => at'[t] = 0 \/ (mode[t] # "none" /\ at'[t] = at[t])
  BY <1>7 DEF Begins, OthersStay
<1>8. ASSUME Boots
      PROVE  machine' = machine /\ \A t \in Session : mode'[t] = "none"
  BY <1>1, <1>8, EmptyEffect DEF Boots
<1>9. ASSUME machine' = machine,
             \A t \in Session : mode'[t] # "none" => at'[t] = 0 \/ (mode[t] # "none" /\ at'[t] = at[t])
      PROVE  /\ Ended(machine')
             /\ \A t \in Session : mode'[t] # "none" =>
                  /\ at'[t] >= 3 => "db" \in machine'
                  /\ at'[t] >= 6 => "KEK" \in machine'
  BY <1>3, <1>9
<1> HIDE DEF Ended
<1> QED BY <1>1, <1>5, <1>6, <1>7, <1>8, <1>9, Steps

-----------------------------------------------------------------------------
(* The boot loader's second copy.                                           *)

LEMMA EnrolmentIs ==
  ASSUME Program = Programs, name \in DOMAIN LookAt, TypeOK
  PROVE  /\ this.outside = {}
         /\ \A C \in this.boot : \A x \in C : x.add \cap LoaderCopies = {}
         /\ \A s \in Session : mode[s] # "none" => CopiesAfterLook(Worker(s), LookAt[name])
<1>1. CASE name = "platformKey"
  <2>1. LookAt[name] = 11
    BY <1>1 DEF LookAt
  <2>2. \A C \in this.boot : C = {}
    BY <1>1, PlatformIs
  <2> QED BY <1>1, <2>1, <2>2, PlatformIs, PlatformCalls
<1>2. CASE name = "machineOwnerKey"
  <2>1. this = MachineOwnerKey /\ LookAt[name] = 7
    BY <1>2 DEF this, Programs, LookAt
  <2>2. this.outside = {} /\ this.boot = MokManager
    BY <2>1 DEF MachineOwnerKey, NoOutside
  <2>3. \A C \in MokManager : \A x \in C : x.add \cap LoaderCopies = {}
    <3> DEFINE forget == Clause(Always, {}, Pending \cup {"new immutable", "auth immutable"})
               enroll == Clause(On({"new", "auth"}), {"mok"}, {})
    <3> SUFFICES ASSUME NEW C \in MokManager, NEW x \in C
                 PROVE  x.add \cap LoaderCopies = {}
      OBVIOUS
    <3>1. x = forget \/ x = enroll
      BY DEF MokManager
    <3>2. forget.add = {} /\ enroll.add = {"mok"}
      BY DEF Clause
    <3> HIDE DEF forget, enroll
    <3> QED BY <3>1, <3>2 DEF LoaderCopies
  <2>4. Mode = {"enroll"}
    BY <2>1, MachineOwnerCalls DEF Mode
  <2>5. \A s \in Session : mode[s] # "none" => Worker(s) = MachineOwnerKey.worker["enroll"]
    BY <2>1, <2>4 DEF TypeOK, Worker
  <2> QED BY <2>1, <2>2, <2>3, <2>5, MachineOwnerCalls
<1> QED BY <1>1, <1>2 DEF LookAt

\* What the calls of an enrolment add to the copies.
LEMMA CopiesAdd ==
  ASSUME NEW w, NEW look, CopiesAfterLook(w, look), NEW i \in 1..Len(w)
  PROVE  /\ \A f \in LoaderCopies : Adds(w[i], f) => f = BootCopied /\ i = look + 2
         /\ IsLook(w[i]) => i = look
<1>1. CASE i = look
  BY <1>1 DEF CopiesAfterLook, Looking
<1>2. CASE i = look + 2
  BY <1>2 DEF CopiesAfterLook, Copying
<1>3. CASE i # look /\ i # look + 2
  BY <1>3 DEF CopiesAfterLook, Apart
<1> QED BY <1>1, <1>2, <1>3

LEMMA OneLoader ==
  ASSUME NEW l \in Loaders, NEW X, X \cap LoaderCopies = {}, "boot other" \in l \cup X
  PROVE  "boot copy" \notin l \cup X /\ "boot copied" \notin l \cup X
<1>1. \A f \in LoaderCopies : f \notin X
  OBVIOUS
<1>2. "boot other" \in l /\ "boot copy" \notin X /\ "boot copied" \notin X
  BY <1>1 DEF LoaderCopies
<1>3. CASE l = {"sd", "boot copy"}
  BY <1>2, <1>3
<1>4. CASE l \in {{"sd", "boot other"}, {"boot other"}}
  BY <1>2, <1>4
<1> QED BY <1>3, <1>4 DEF Loaders

LEMMA LoaderInvInit ==
  ASSUME Program = Programs, Init
  PROVE  LoaderInv
<1> SUFFICES ASSUME name \in DOMAIN LookAt, "boot other" \in machine
             PROVE  /\ "boot copy" \notin machine /\ "boot copied" \notin machine
                    /\ \A s \in Session : mode[s] = "none"
  BY DEF LoaderInv
<1>1. ASSUME name = "platformKey" PROVE "boot copy" \notin machine /\ "boot copied" \notin machine
  <2>1. this = PlatformKey
    BY <1>1 DEF this, Programs
  <2> DEFINE X == {"setup"}
             Y == {"setup", "db immutable", "KEK immutable"}
  <2>2. PICK l \in Loaders : machine \in {l \cup X, l \cup Y}
    BY <2>1 DEF Init, PlatformKey
  <2>3. X \cap LoaderCopies = {} /\ Y \cap LoaderCopies = {}
    BY DEF LoaderCopies
  <2> HIDE DEF X, Y
  <2> QED BY <2>2, <2>3, OneLoader
<1>2. ASSUME name = "machineOwnerKey" PROVE "boot copy" \notin machine /\ "boot copied" \notin machine
  <2>1. this = MachineOwnerKey
    BY <1>2 DEF this, Programs
  <2> DEFINE X == {}
             Y == {"other new", "other auth", "new immutable", "auth immutable"}
  <2>2. PICK l \in Loaders : machine \in {l, l \cup Y}
    BY <2>1 DEF Init, MachineOwnerKey
  <2>3. l = l \cup X /\ X \cap LoaderCopies = {} /\ Y \cap LoaderCopies = {}
    BY DEF LoaderCopies
  <2> HIDE DEF X, Y
  <2> QED BY <2>2, <2>3, OneLoader
<1>3. name = "platformKey" \/ name = "machineOwnerKey"
  BY DEF LookAt
<1> QED BY <1>1, <1>2, <1>3 DEF Init

LEMMA LoaderInvNext ==
  ASSUME Program = Programs, TypeOK, TypeOK', LoaderInv, [Next]_vars
  PROVE  LoaderInv'
<1> DEFINE look == LookAt[name]
           other == "boot other"
           copy == BootCopy
           copied == BootCopied
<1> SUFFICES ASSUME name \in DOMAIN LookAt, name' = name, other \in machine'
             PROVE  /\ copy \notin machine' /\ copied \notin machine'
                    /\ \A s \in Session : mode'[s] # "none" /\ at'[s] >= look => look + 2 \in skip'[s]
  BY NameStays DEF LoaderInv, BootCopy, BootCopied
<1>1. /\ this.outside = {}
      /\ \A C \in this.boot : \A x \in C : x.add \cap LoaderCopies = {}
      /\ \A s \in Session : mode[s] # "none" => CopiesAfterLook(Worker(s), look)
  BY EnrolmentIs
<1>2. other \in machine =>
        /\ copy \notin machine /\ copied \notin machine
        /\ \A s \in Session : mode[s] # "none" /\ at[s] >= look => look + 2 \in skip[s]
  BY DEF LoaderInv, BootCopy, BootCopied
<1>3. /\ other \in LoaderCopies /\ copy \in LoaderCopies /\ copied \in LoaderCopies
      /\ other # copy /\ other # copied /\ copy # copied
  BY DEF LoaderCopies, BootCopy, BootCopied
<1>4. look \in Nat /\ at \in [Session -> Nat] /\ at' \in [Session -> Nat]
  BY DEF LookAt, TypeOK
<1> HIDE DEF look, other, copy, copied
<1>5. ASSUME NEW s \in Session, NEW i, NEW c, MovesOn(s, i, c)
      PROVE  /\ copy \notin machine' /\ copied \notin machine'
             /\ \A t \in Session : mode'[t] # "none" /\ at'[t] >= look => look + 2 \in skip'[t]
  <2>1. /\ i = at[s] + 1 /\ i \in 1..Len(Worker(s)) /\ c = Worker(s)[i] /\ mode[s] # "none" /\ OthersStay(s)
        /\ CopiesAfterLook(Worker(s), look)
        /\ mode'[s] # "none" =>
             mode'[s] = mode[s] /\ at'[s] = i /\ skip'[s] = IF IsLook(c) THEN RuledOut(s, i) ELSE skip[s]
    BY <1>1, <1>5 DEF MovesOn
  <2>2. \/ i \in skip[s] /\ machine' = machine
        \/ i \notin skip[s] /\ machine' = Effect(c.does, machine)
    BY <1>5 DEF MovesOn
  <2>3. /\ \A f \in LoaderCopies : Adds(c, f) => f = copied /\ i = look + 2
        /\ IsLook(c) => i = look
    BY <2>1, CopiesAdd DEF copied
  <2>4. other \in machine
    BY <1>3, <2>2, <2>3, AddsNothingElse
  <2>5. copy \notin machine'
    BY <1>2, <1>3, <2>2, <2>3, <2>4, AddsNothingElse
  <2>6. copied \notin machine'
    <3>1. CASE i = look + 2
      <4>1. i \in skip[s]
        BY <1>2, <1>4, <2>1, <2>4, <3>1
      <4> QED BY <1>2, <2>2, <2>4, <4>1
    <3>2. CASE i # look + 2
      BY <1>2, <1>3, <2>2, <2>3, <2>4, <3>2, AddsNothingElse
    <3> QED BY <3>1, <3>2
  <2>7. ASSUME IsLook(c) PROVE look + 2 \in RuledOut(s, i)
    <3>1. i = look /\ look + 2 \in 1..Len(Worker(s)) /\ Len(Worker(s)) \in Nat
      BY <2>1, <2>3, <2>7 DEF CopiesAfterLook
    <3>2. copy \in Worker(s)[look + 2].seen.has
      BY <2>1 DEF CopiesAfterLook, Copying, copy
    <3>3. ~Holds(Worker(s)[look + 2].seen, machine)
      BY <1>2, <2>4, <3>2 DEF Holds
    <3> QED BY <1>4, <3>1, <3>3 DEF RuledOut
  <2>8. ASSUME NEW t \in Session, mode'[t] # "none", at'[t] >= look
        PROVE  look + 2 \in skip'[t]
    <3>1. CASE t = s /\ IsLook(c)
      BY <2>1, <2>7, <2>8, <3>1
    <3>2. CASE t = s /\ ~IsLook(c)
      <4>1. Worker(s)[look] = c \/ at[s] >= look
        BY <1>4, <2>1, <2>8, <3>2
      <4>2. at[s] >= look
        BY <2>1, <3>2, <4>1 DEF CopiesAfterLook, Looking
      <4> QED BY <1>2, <2>1, <2>4, <2>8, <3>2, <4>2
    <3>3. CASE t # s
      BY <1>2, <2>1, <2>4, <2>8, <3>3 DEF OthersStay
    <3> QED BY <3>1, <3>2, <3>3
  <2> QED BY <2>5, <2>6, <2>8
<1>6. ASSUME NEW s \in Session, NEW c, Ends(s, c)
      PROVE  /\ machine' = machine
             /\ \A t \in Session : mode'[t] # "none" => mode[t] # "none" /\ at'[t] = at[t] /\ skip'[t] = skip[t]
  <2>1. c.undo = {}
    BY <1>1, <1>6, NothingTakenBack DEF Ends
  <2> QED BY <1>6, <2>1 DEF Ends, OthersStay
<1>7. ASSUME NEW s \in Session, Begins(s)
      PROVE  /\ machine' = machine
             /\ \A t \in Session : mode'[t] # "none" =>
                  at'[t] = 0 \/ (mode[t] # "none" /\ at'[t] = at[t] /\ skip'[t] = skip[t])
  BY <1>7 DEF Begins, OthersStay
<1>8. ASSUME Boots
      PROVE  copy \notin machine' /\ copied \notin machine' /\ \A t \in Session : mode'[t] = "none"
  <2>1. PICK C \in this.boot : machine' = Effect(C, machine) /\ \A t \in Session : mode'[t] = "none"
    BY <1>8 DEF Boots
  <2>2. \A f \in LoaderCopies : f \in machine' => f \in machine
    BY <1>1, <2>1 DEF Effect
  <2> QED BY <1>2, <1>3, <2>1, <2>2
<1>9. ASSUME machine' = machine,
             \A t \in Session : mode'[t] # "none" =>
               at'[t] = 0 \/ (mode[t] # "none" /\ at'[t] = at[t] /\ skip'[t] = skip[t])
      PROVE  /\ copy \notin machine' /\ copied \notin machine'
             /\ \A t \in Session : mode'[t] # "none" /\ at'[t] >= look => look + 2 \in skip'[t]
  <2>1. look > 0
    BY DEF look, LookAt
  <2> QED BY <1>2, <1>4, <1>9, <2>1
<1> QED BY <1>1, <1>5, <1>6, <1>7, <1>8, <1>9, Steps

-----------------------------------------------------------------------------
(* Administrators.                                                          *)

LEMMA FactsOfUsers ==
  \A u, v :
    /\ UserOf(u) = UserOf(v) <=> u = v
    /\ PasswordOf(u) = PasswordOf(v) <=> u = v
    /\ WheelOf(u) = WheelOf(v) <=> u = v
    /\ UserOf(u) # PasswordOf(v) /\ UserOf(u) # WheelOf(v) /\ PasswordOf(u) # WheelOf(v)
BY DEF UserOf, PasswordOf, WheelOf

LEMMA AccountIs == \A u : Account(u) = {UserOf(u), PasswordOf(u), WheelOf(u)}
BY DEF Account, UserOf, PasswordOf, WheelOf

\* The last call's clause, and what the four calls are that make `new` an administrator.
Taking(by, new) == Clause(On({WheelOf(by), WheelOf(new)}), {}, {WheelOf(by)})

LEMMA AdminCalls ==
  ASSUME NEW by, NEW new
  PROVE  LET w == AdminWorker(by, new)
         IN  /\ Len(w) = 4
             /\ \A i \in 1..4 : ~IsLook(w[i])
             /\ \A i \in {1, 2, 4} : w[i].undo = {}
             /\ w[1].does = {}
             /\ w[2].need = Off({UserOf(new)}) /\ w[2].does = {Clause(Always, {UserOf(new), WheelOf(new)}, {})}
             /\ w[3].does = {Clause(Always, {PasswordOf(new)}, {})} /\ w[3].undo = Account(new)
             /\ w[4].does = {Taking(by, new)}
<1> DEFINE c1 == Check(On({<<"user", by>>, <<"password", by>>}))
           c2 == Needs(Do({<<"user", new>>, <<"wheel", new>>}, {}), Off({<<"user", new>>}))
           c3 == OrUndo(Put(<<"password", new>>), Account(new))
           c4 == If(On({<<"wheel", by>>, <<"wheel", new>>}), {}, {<<"wheel", by>>})
           w == AdminWorker(by, new)
<1>1. w = <<c1, c2, c3, c4>>
  BY DEF AdminWorker
<1>2. ~IsLook(c1) /\ c1.does = {} /\ c1.undo = {}
  BY CheckIs
<1>3. ~IsLook(c2) /\ c2.undo = {} /\ c2.need = Off({UserOf(new)})
      /\ c2.does = {Clause(Always, {UserOf(new), WheelOf(new)}, {})}
  <2> DEFINE F == {<<"user", new>>, <<"wheel", new>>}
             q == Off({<<"user", new>>})
  <2>1. F = {UserOf(new), WheelOf(new)} /\ q = Off({UserOf(new)})
    BY DEF UserOf, WheelOf
  <2> HIDE DEF F, q
  <2>2. Plain(c2, Always, F, {}) /\ c2.need = q
    BY DoIs, NeedsIs DEF F, q
  <2> QED BY <2>1, <2>2 DEF Plain
<1>4. ~IsLook(c3) /\ c3.undo = Account(new) /\ c3.does = {Clause(Always, {PasswordOf(new)}, {})}
  <2> DEFINE f == <<"password", new>>
             A == Account(new)
  <2>1. f = PasswordOf(new)
    BY DEF PasswordOf
  <2> HIDE DEF f, A
  <2>2. ~IsLook(OrUndo(Put(f), A)) /\ OrUndo(Put(f), A).undo = A
        /\ OrUndo(Put(f), A).does = {Clause(Always, {f}, {})}
    BY DEF OrUndo, Put, Do, Does, IsLook
  <2> QED BY <2>1, <2>2 DEF f, A
<1>5. ~IsLook(c4) /\ c4.undo = {} /\ c4.does = {Taking(by, new)}
  <2> DEFINE q == On({<<"wheel", by>>, <<"wheel", new>>})
             G == {<<"wheel", by>>}
  <2>1. Clause(q, {}, G) = Taking(by, new)
    BY DEF Taking, WheelOf
  <2> HIDE DEF q, G
  <2>2. ~IsLook(If(q, {}, G)) /\ If(q, {}, G).undo = {} /\ If(q, {}, G).does = {Clause(q, {}, G)}
    BY DEF If, Does, IsLook
  <2> QED BY <2>1, <2>2 DEF q, G
<1> HIDE DEF c1, c2, c3, c4, w
<1>6. Len(w) = 4 /\ w[1] = c1 /\ w[2] = c2 /\ w[3] = c3 /\ w[4] = c4
  BY <1>1
<1> QED BY <1>2, <1>3, <1>4, <1>5, <1>6 DEF w

LEMMA AddingEffect ==
  ASSUME NEW F, NEW m
  PROVE  Effect({Clause(Always, F, {})}, m) = m \cup F
<1> DEFINE x == Clause(Always, F, {})
<1>1. x.when = Always /\ x.add = F /\ x.del = {}
  BY DEF Clause
<1> HIDE DEF x
<1>2. Holds(x.when, m)
  BY <1>1, AlwaysHolds
<1> QED BY <1>1, <1>2 DEF Effect, x

LEMMA TakingEffect ==
  ASSUME NEW q, NEW G, NEW m
  PROVE  /\ Holds(q, m)  => Effect({Clause(q, {}, G)}, m) = m \ G
         /\ ~Holds(q, m) => Effect({Clause(q, {}, G)}, m) = m
<1> DEFINE x == Clause(q, {}, G)
<1>1. x.when = q /\ x.add = {} /\ x.del = G
  BY DEF Clause
<1> HIDE DEF x
<1> QED BY <1>1 DEF Effect, x

LEMMA AdminIs ==
  ASSUME Program = Programs, name = "createAdmin", TypeOK
  PROVE  /\ this.outside = {} /\ this.boot = {{}}
         /\ \A s \in Session : mode[s] # "none" =>
              /\ Worker(s) = AdminWorker(Asker(s), Newcomer(s))
              /\ Asker(s) \in User /\ Newcomer(s) \in User /\ Asker(s) # Newcomer(s)
<1>1. this = CreateAdmin
  BY DEF this, Programs
<1>2. this.outside = {} /\ this.boot = {{}}
  BY <1>1 DEF CreateAdmin, NoOutside, NoBoot
<1>3. Mode = DOMAIN Asks /\ \A md \in DOMAIN Asks : this.worker[md] = AdminWorker(Asks[md][1], Asks[md][2])
  BY <1>1 DEF CreateAdmin, Mode
<1>4. \A md \in DOMAIN Asks : Asks[md][1] \in User /\ Asks[md][2] \in User /\ Asks[md][1] # Asks[md][2]
  BY DEF Asks, User
<1>5. ASSUME NEW s \in Session, mode[s] # "none" PROVE mode[s] \in DOMAIN Asks
  BY <1>3, <1>5 DEF TypeOK
<1> QED BY <1>2, <1>3, <1>4, <1>5 DEF Worker, Asker, Newcomer

\* What a call does to the accounts.
LEMMA AdminMoves ==
  ASSUME Program = Programs, name = "createAdmin", TypeOK, AdminInv,
         NEW s \in Session, NEW i, NEW c, MovesOn(s, i, c)
  PROVE  /\ i = at[s] + 1 /\ i \in 1..4
         /\ mode'[s] # "none" => mode'[s] = mode[s] /\ at'[s] = i /\ skip'[s] = {}
         /\ \/ i \in {1, 4} /\ machine' = machine
            \/ /\ i = 2 /\ UserOf(Newcomer(s)) \notin machine
               /\ machine' = machine \cup {UserOf(Newcomer(s)), WheelOf(Newcomer(s))}
            \/ i = 3 /\ machine' = machine \cup {PasswordOf(Newcomer(s))}
            \/ /\ i = 4 /\ WheelOf(Newcomer(s)) \in machine
               /\ machine' = machine \ {WheelOf(Asker(s))}
<1> DEFINE by == Asker(s)
           new == Newcomer(s)
           w == AdminWorker(by, new)
<1>1. /\ Worker(s) = w /\ i = at[s] + 1 /\ i \in 1..Len(w) /\ c = w[i]
      /\ mode'[s] # "none" =>
           mode'[s] = mode[s] /\ at'[s] = i /\ skip'[s] = IF IsLook(c) THEN RuledOut(s, i) ELSE skip[s]
  BY AdminIs DEF MovesOn
<1>2. skip[s] = {}
  BY DEF AdminInv
<1>3. Holds(c.need, machine) /\ machine' = Effect(c.does, machine)
  BY <1>2 DEF MovesOn
<1> HIDE DEF by, new
<1>4. /\ Len(w) = 4
      /\ \A k \in 1..4 : ~IsLook(w[k])
      /\ w[1].does = {}
      /\ w[2].need = Off({UserOf(new)}) /\ w[2].does = {Clause(Always, {UserOf(new), WheelOf(new)}, {})}
      /\ w[3].does = {Clause(Always, {PasswordOf(new)}, {})}
      /\ w[4].does = {Taking(by, new)}
  BY AdminCalls
<1> HIDE DEF w
<1>5. i \in 1..4 /\ (mode'[s] # "none" => mode'[s] = mode[s] /\ at'[s] = i /\ skip'[s] = {})
  BY <1>1, <1>2, <1>4
<1>6. CASE i = 1
  <2>1. c.does = {}
    BY <1>1, <1>4, <1>6
  <2>2. machine' = machine
    BY <1>3, <2>1, EmptyEffect
  <2> QED BY <1>1, <1>5, <1>6, <2>2
<1>7. CASE i = 2
  <2>1. UserOf(new) \notin machine
    BY <1>1, <1>3, <1>4, <1>7 DEF Holds, Off, Both
  <2>2. machine' = machine \cup {UserOf(new), WheelOf(new)}
    <3>1. c.does = {Clause(Always, {UserOf(new), WheelOf(new)}, {})}
      BY <1>1, <1>4, <1>7
    <3> QED BY <1>3, <3>1, AddingEffect
  <2> QED BY <1>1, <1>5, <1>7, <2>1, <2>2 DEF new
<1>8. CASE i = 3
  <2>1. machine' = machine \cup {PasswordOf(new)}
    <3>1. c.does = {Clause(Always, {PasswordOf(new)}, {})}
      BY <1>1, <1>4, <1>8
    <3> QED BY <1>3, <3>1, AddingEffect
  <2> QED BY <1>1, <1>5, <1>8, <2>1 DEF new
<1>9. CASE i = 4
  <2> DEFINE q == On({WheelOf(by), WheelOf(new)})
  <2>1. machine' = machine \/ (Holds(q, machine) /\ machine' = machine \ {WheelOf(by)})
    <3> DEFINE G == {WheelOf(by)}
    <3>1. c.does = {Taking(by, new)} /\ Taking(by, new) = Clause(q, {}, G)
      BY <1>1, <1>4, <1>9 DEF Taking
    <3> HIDE DEF q, G
    <3>2. machine' = Effect({Clause(q, {}, G)}, machine)
      BY <1>3, <3>1
    <3>3. \/ Effect({Clause(q, {}, G)}, machine) = machine
          \/ Holds(q, machine) /\ Effect({Clause(q, {}, G)}, machine) = machine \ G
      BY TakingEffect
    <3> QED BY <3>2, <3>3 DEF G
  <2>2. Holds(q, machine) => WheelOf(new) \in machine
    BY DEF Holds, On, Both
  <2> QED BY <1>1, <1>5, <1>9, <2>1, <2>2 DEF by, new
<1> QED BY <1>1, <1>5, <1>6, <1>7, <1>8, <1>9

LEMMA AdminInvInit ==
  ASSUME Program = Programs, Init
  PROVE  AdminInv
<1> SUFFICES ASSUME name = "createAdmin" PROVE AdminInv
  BY DEF AdminInv
<1>1. this = CreateAdmin
  BY DEF this, Programs
<1>2. machine = Account("me")
  BY <1>1 DEF Init, CreateAdmin
<1>3. \E u \in User : {UserOf(u), PasswordOf(u), WheelOf(u)} \subseteq machine
  BY <1>2, AccountIs DEF User
<1>4. \A u \in User : PasswordOf(u) \in machine => UserOf(u) \in machine
  <2> TAKE u \in User
  <2> DEFINE me == "me"
  <2> HIDE DEF me
  <2>1. machine = {UserOf(me), PasswordOf(me), WheelOf(me)}
    BY <1>2, AccountIs DEF me
  <2> QED BY <2>1, FactsOfUsers
<1>5. \A s \in Session : mode[s] = "none" /\ skip[s] = {}
  BY DEF Init
<1> QED BY <1>3, <1>4, <1>5 DEF AdminInv, HasMade

LEMMA AdminInvNext ==
  ASSUME Program = Programs, TypeOK, TypeOK', AdminInv, [Next]_vars
  PROVE  AdminInv'
<1> DEFINE Someone(m) == \E u \in User : {UserOf(u), PasswordOf(u), WheelOf(u)} \subseteq m
           Known(m)   == \A u \in User : PasswordOf(u) \in m => UserOf(u) \in m
           Given(t, m) == UserOf(Newcomer(t)) \in m /\ (PasswordOf(Newcomer(t)) \in m <=> at[t] >= 3)
<1> SUFFICES ASSUME name = "createAdmin", name' = name PROVE AdminInv'
  BY NameStays DEF AdminInv
<1>1. /\ this.outside = {} /\ this.boot = {{}}
      /\ \A s \in Session : mode[s] # "none" =>
           /\ Worker(s) = AdminWorker(Asker(s), Newcomer(s))
           /\ Asker(s) \in User /\ Newcomer(s) \in User /\ Asker(s) # Newcomer(s)
  BY AdminIs
<1>2. /\ Someone(machine) /\ Known(machine)
      /\ \A s \in Session : skip[s] = {}
      /\ \A s \in Session : HasMade(s) => Given(s, machine)
      /\ \A s, t \in Session : HasMade(s) /\ HasMade(t) /\ Newcomer(s) = Newcomer(t) => s = t
  BY DEF AdminInv
<1>3. /\ at \in [Session -> Nat] /\ at' \in [Session -> Nat]
      /\ \A s \in Session : mode'[s] = "none" => skip'[s] = {}
  BY DEF TypeOK
<1>4. ASSUME Someone(machine'), Known(machine'), \A s \in Session : skip'[s] = {},
             \A s \in Session : HasMade(s)' => Given(s, machine)',
             \A s, t \in Session : HasMade(s)' /\ HasMade(t)' /\ Newcomer(s)' = Newcomer(t)' => s = t
      PROVE  AdminInv'
  BY <1>4 DEF AdminInv
<1>5. ASSUME NEW t \in Session, mode'[t] = mode[t], at'[t] = at[t], skip'[t] = skip[t]
      PROVE  /\ HasMade(t)' <=> HasMade(t)
             /\ Newcomer(t)' = Newcomer(t) /\ skip'[t] = {}
  BY <1>2, <1>5 DEF HasMade, Newcomer
<1>6. ASSUME NEW s \in Session, NEW i, NEW c, MovesOn(s, i, c)
      PROVE  AdminInv'
  <2> DEFINE new == Newcomer(s)
  <2>1. /\ i = at[s] + 1 /\ i \in 1..4 /\ mode[s] # "none" /\ OthersStay(s)
        /\ mode'[s] # "none" => mode'[s] = mode[s] /\ at'[s] = i /\ skip'[s] = {}
    BY <1>6, AdminMoves DEF MovesOn
  <2>2. \/ i \in {1, 4} /\ machine' = machine
        \/ i = 2 /\ UserOf(new) \notin machine /\ machine' = machine \cup {UserOf(new), WheelOf(new)}
        \/ i = 3 /\ machine' = machine \cup {PasswordOf(new)}
        \/ i = 4 /\ WheelOf(new) \in machine /\ machine' = machine \ {WheelOf(Asker(s))}
    BY <1>6, AdminMoves
  <2>3. new \in User /\ Asker(s) \in User /\ Asker(s) # new
    BY <1>1, <2>1
  <2>4. i \in {3, 4} <=> HasMade(s)
    BY <1>3, <2>1 DEF HasMade
  <2>5. i \in {3, 4} => UserOf(new) \in machine /\ (PasswordOf(new) \in machine <=> i = 4)
    BY <1>2, <1>3, <2>1, <2>4
  <2> HIDE DEF new
  <2>6. Someone(machine')
    <3>1. CASE machine \subseteq machine'
      BY <1>2, <3>1
    <3>2. CASE i = 4 /\ WheelOf(new) \in machine /\ machine' = machine \ {WheelOf(Asker(s))}
      BY <2>3, <2>5, <3>2, FactsOfUsers
    <3> QED BY <2>2, <3>1, <3>2
  <2>7. \A u : UserOf(u) \in machine => UserOf(u) \in machine'
    BY <2>2, FactsOfUsers
  <2>8. \A u : PasswordOf(u) \in machine' <=> PasswordOf(u) \in machine \/ (i = 3 /\ u = new)
    BY <2>2, FactsOfUsers
  <2>9. Known(machine')
    BY <1>2, <2>5, <2>7, <2>8
  <2>10. \A t \in Session : skip'[t] = {}
    <3> TAKE t \in Session
    <3>1. CASE t = s
      BY <1>3, <2>1, <3>1
    <3>2. CASE t # s
      BY <1>5, <2>1, <3>2 DEF OthersStay
    <3> QED BY <3>1, <3>2
  <2>11. HasMade(s)' => i \in 2..4 /\ at'[s] = i /\ Newcomer(s)' = new
    BY <2>1 DEF HasMade, Newcomer, new
  <2>12. i = 2 => UserOf(new) \in machine' /\ UserOf(new) \notin machine /\ PasswordOf(new) \notin machine
    <3>1. i = 2 => UserOf(new) \in machine' /\ UserOf(new) \notin machine
      BY <2>2
    <3> QED BY <1>2, <2>3, <3>1
  <2>13. ASSUME HasMade(s)' PROVE Given(s, machine)'
    BY <2>5, <2>7, <2>8, <2>11, <2>12, <2>13
  <2>14. ASSUME NEW t \in Session, t # s, HasMade(t)'
         PROVE  HasMade(t) /\ Newcomer(t)' = Newcomer(t) /\ at'[t] = at[t]
    BY <1>5, <2>1, <2>14 DEF OthersStay
  <2>15. ASSUME NEW t \in Session, t # s, HasMade(t)' PROVE Given(t, machine)'
    <3>1. HasMade(t) /\ Newcomer(t)' = Newcomer(t) /\ at'[t] = at[t] /\ Given(t, machine)
      BY <1>2, <2>14, <2>15
    <3>2. ~(i = 3 /\ Newcomer(t) = new)
      BY <1>2, <2>4, <2>15, <3>1 DEF new
    <3> QED BY <2>7, <2>8, <3>1, <3>2
  <2>16. ASSUME NEW t \in Session, t # s, HasMade(t)', HasMade(s)'
         PROVE  Newcomer(t)' # Newcomer(s)'
    <3>1. HasMade(t) /\ Newcomer(t)' = Newcomer(t) /\ UserOf(Newcomer(t)) \in machine
      BY <1>2, <2>14, <2>16
    <3>2. CASE i = 2
      BY <2>11, <2>12, <2>16, <3>1, <3>2
    <3>3. CASE i \in {3, 4}
      BY <1>2, <2>4, <2>11, <2>16, <3>1, <3>3 DEF new
    <3> QED BY <2>11, <2>16, <3>2, <3>3
  <2>17. ASSUME NEW t \in Session, NEW u \in Session, HasMade(t)', HasMade(u)', Newcomer(t)' = Newcomer(u)'
         PROVE  t = u
    <3>1. CASE t # s /\ u # s
      BY <1>2, <2>14, <2>17, <3>1
    <3>2. CASE t = s \/ u = s
      BY <2>16, <2>17, <3>2
    <3> QED BY <3>1, <3>2
  <2>18. \A t \in Session : HasMade(t)' => Given(t, machine)'
    BY <2>13, <2>15
  <2> HIDE DEF Someone, Known, Given
  <2> QED BY <1>4, <2>6, <2>9, <2>10, <2>17, <2>18
<1>7. ASSUME NEW s \in Session, NEW c, Ends(s, c)
      PROVE  AdminInv'
  <2> DEFINE new == Newcomer(s)
             w == AdminWorker(Asker(s), new)
  <2>1. /\ mode[s] # "none" /\ at[s] + 1 \in 1..Len(w) /\ c = w[at[s] + 1]
        /\ machine' = machine \/ machine' = machine \ c.undo
        /\ mode'[s] = "none" /\ OthersStay(s)
    BY <1>1, <1>7 DEF Ends
  <2>2. /\ Len(w) = 4
        /\ \A i \in {1, 2, 4} : w[i].undo = {}
        /\ w[3].undo = Account(new)
    BY AdminCalls
  <2> HIDE DEF w
  <2>3. \/ machine' = machine
        \/ HasMade(s) /\ PasswordOf(new) \notin machine /\ machine' = machine \ Account(new)
    <3>1. CASE at[s] + 1 = 3
      <4>1. HasMade(s) /\ at[s] = 2
        BY <1>3, <2>1, <3>1 DEF HasMade
      <4>2. PasswordOf(new) \notin machine
        BY <1>2, <4>1 DEF new
      <4> QED BY <2>1, <2>2, <3>1, <4>1, <4>2
    <3>2. CASE at[s] + 1 \in {1, 2, 4}
      BY <2>1, <2>2, <3>2
    <3> QED BY <2>1, <2>2, <3>1, <3>2
  <2>4. \A t \in Session : HasMade(t)' => t # s /\ HasMade(t) /\ Newcomer(t)' = Newcomer(t) /\ at'[t] = at[t]
    BY <1>5, <2>1 DEF OthersStay, HasMade
  <2>5. \A t \in Session : skip'[t] = {}
    <3> TAKE t \in Session
    <3>1. CASE t = s
      BY <1>3, <2>1, <3>1
    <3>2. CASE t # s
      BY <1>5, <2>1, <3>2 DEF OthersStay
    <3> QED BY <3>1, <3>2
  <2>6. CASE machine' = machine
    BY <1>2, <1>4, <2>4, <2>5, <2>6
  <2>7. CASE HasMade(s) /\ PasswordOf(new) \notin machine /\ machine' = machine \ Account(new)
    <3>1. \A u : u # new =>
            /\ UserOf(u) \in machine' <=> UserOf(u) \in machine
            /\ PasswordOf(u) \in machine' <=> PasswordOf(u) \in machine
            /\ WheelOf(u) \in machine' <=> WheelOf(u) \in machine
      BY <2>7, AccountIs, FactsOfUsers
    <3>2. PasswordOf(new) \notin machine'
      BY <2>7
    <3> HIDE DEF new
    <3>3. Someone(machine') /\ Known(machine')
      BY <1>2, <2>7, <3>1, <3>2
    <3>4. \A t \in Session : HasMade(t)' => Newcomer(t) # new
      BY <1>2, <2>4, <2>7 DEF new
    <3>5. \A t \in Session : HasMade(t)' => Given(t, machine)'
      BY <1>2, <2>4, <3>1, <3>4
    <3> QED BY <1>2, <1>4, <2>4, <2>5, <3>3, <3>5
  <2> QED BY <2>3, <2>6, <2>7
<1>8. ASSUME machine' = machine, \A s \in Session : skip'[s] = {},
             \A s \in Session : HasMade(s)' => HasMade(s) /\ Newcomer(s)' = Newcomer(s) /\ at'[s] = at[s]
      PROVE  AdminInv'
  BY <1>2, <1>4, <1>8
<1>9. ASSUME NEW s \in Session, Begins(s) PROVE AdminInv'
  <2>1. machine' = machine /\ at'[s] = 0 /\ skip'[s] = {}
    BY <1>9 DEF Begins
  <2>2. ~HasMade(s)'
    BY <2>1 DEF HasMade
  <2>3. \A t \in Session : t # s => mode'[t] = mode[t] /\ at'[t] = at[t] /\ skip'[t] = skip[t]
    BY <1>9 DEF Begins, OthersStay
  <2> QED BY <1>5, <1>8, <2>1, <2>2, <2>3
<1>10. ASSUME Boots PROVE AdminInv'
  <2>1. machine' = machine /\ \A t \in Session : mode'[t] = "none"
    BY <1>1, <1>10, EmptyEffect DEF Boots
  <2> QED BY <1>3, <1>8, <2>1 DEF HasMade
<1>11. ASSUME UNCHANGED <<machine, mode, at, skip>> PROVE AdminInv'
  BY <1>5, <1>8, <1>11
<1> QED BY <1>1, <1>6, <1>7, <1>9, <1>10, <1>11, Steps

-----------------------------------------------------------------------------

LEMMA HarmInvSuffices ==
  ASSUME HarmInv
  PROVE  NeverHarmed
<1>1. name = "platformKey" /\ "setup" \notin machine => {"db", "KEK", "PK"} \subseteq machine
  BY DEF HarmInv, KeysInv
<1>2. name = "createAdmin" => \E u \in User : Account(u) \subseteq machine
  BY AccountIs DEF HarmInv, AdminInv
<1>3. name \in {"platformKey", "machineOwnerKey"} => ~({"boot other", "boot copied"} \subseteq machine)
  BY DEF HarmInv, LoaderInv, LookAt
<1> QED BY <1>1, <1>2, <1>3 DEF NeverHarmed

(***************************************************************************)
(* On any machine with any number of terminals, whatever is killed, and    *)
(* whatever fails, at whatever call: platform firmware has all three keys  *)
(* when Setup Mode ends; somebody is an administrator who can log in; and  *)
(* a boot loader of somebody else's stays.                                 *)
(***************************************************************************)
THEOREM NobodyIsHarmed == Program = Programs /\ Spec => []NeverHarmed
<1>1. Program = Programs /\ Init => HarmInv
  BY KeysInvInit, LoaderInvInit, AdminInvInit DEF HarmInv
<1>2. Program = Programs /\ TypeOK /\ TypeOK' /\ RunInv /\ HarmInv /\ [Next]_vars => HarmInv'
  BY KeysInvNext, LoaderInvNext, AdminInvNext DEF HarmInv
<1>3. HarmInv => NeverHarmed
  BY HarmInvSuffices
<1>4. Program = Programs => (Spec => []NeverHarmed)
  <2> SUFFICES ASSUME Program = Programs PROVE Spec => []NeverHarmed
    OBVIOUS
  <2>1. Init => HarmInv
    BY <1>1
  <2>2. TypeOK /\ TypeOK' /\ RunInv /\ HarmInv /\ [Next]_vars => HarmInv'
    BY <1>2
  <2> QED BY <1>3, <2>1, <2>2, InitTypeOK, NextTypeOK, InitRunInv, NextRunInv, PTL DEF Spec
<1> QED BY <1>4

-----------------------------------------------------------------------------
(* "Already".                                                               *)

LEMMA ToldIsSet ==
  ASSUME TypeOK, LinkInv
  PROVE  AlreadyIsSet
<1> SUFFICES ASSUME ~clash, name \notin HalfTold, NEW md \in Mode, Already(md)
             PROVE  Goal(md)
  BY DEF AlreadyIsSet
<1>1. name \in DOMAIN Program \ HalfTold /\ md \in DOMAIN Program[name].worker
  BY DEF TypeOK, Mode, this
<1>2. \A a \in this.already[md] : \A l \in Parts(this.goal[md]) :
        l \in Parts(a) \/ \E k \in Parts(a) : Linked(this, k, l)
  BY <1>1, ToldAssumption DEF this
<1> QED BY <1>2, ToldTheTruth

(***************************************************************************)
(* A program that does not tell from the first of several writes, and that *)
(* says that there is nothing to do, is right about all that the goal of   *)
(* its description names (for containers: the policy, and that the user's  *)
(* own have ended; another user's, "theirs", may run on): on any number of *)
(* terminals, whatever runs were cut short at whatever call, as long as no *)
(* run's calls have come between another's.                                *)
(***************************************************************************)
THEOREM AlreadyIsTrue == Spec => []AlreadyIsSet
BY ToldIsSet, InitTypeOK, NextTypeOK, InitRunInv, NextRunInv, InitLinkInv, NextLinkInv, PTL DEF Spec
=============================================================================
