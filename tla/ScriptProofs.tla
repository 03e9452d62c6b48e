---------------------------- MODULE ScriptProofs ----------------------------
(***************************************************************************)
(* For any programs that are steady, and any number of terminals: the      *)
(* variables keep their types; a run whose calls nobody has come between   *)
(* leaves what was asked; and sessions that all ask for the same get it.   *)
(***************************************************************************)
EXTENDS Script, TLAPS

-----------------------------------------------------------------------------
(* What one call does to one fact, or to its absence.                       *)

Literal(l) == \E f : l = On({f}) \/ l = Off({f})

LEMMA PartsAreLiterals == \A q : \A l \in Parts(q) : Literal(l)
BY DEF Parts, Literal

\* A condition holds if all its parts do.
LEMMA HoldsByParts == \A q, m : Holds(q, m) <=> \A l \in Parts(q) : Holds(l, m)
<1> SUFFICES ASSUME NEW q, NEW m PROVE Holds(q, m) <=> \A l \in Parts(q) : Holds(l, m)
  OBVIOUS
<1>1. \A f : (Holds(On({f}), m) <=> f \in m) /\ (Holds(Off({f}), m) <=> f \notin m)
  BY DEF Holds, On, Off, Both
<1>2. Holds(q, m) <=> (\A f \in q.has : f \in m) /\ \A f \in q.lacks : f \notin m
  BY DEF Holds
<1>3. (\A l \in Parts(q) : Holds(l, m)) <=>
        (\A f \in q.has : Holds(On({f}), m)) /\ \A f \in q.lacks : Holds(Off({f}), m)
  BY DEF Parts
<1> QED BY <1>1, <1>2, <1>3

\* The clauses that say Always are done on every machine.
LEMMA AlwaysHolds == \A m : Holds(Always, m)
BY DEF Holds, Always, Both

\* What no clause undoes stays.
LEMMA KeepsWhatItDoesNotUndo ==
  ASSUME NEW c, NEW l, NEW m, ~Undoes(c, l), Holds(l, m)
  PROVE  Holds(l, Effect(c.does, m))
BY DEF Undoes, Takes, Adds, Holds, Effect

\* In particular a fact that no clause takes away, and one that no clause adds.
LEMMA KeepsWhatItDoesNotTake ==
  ASSUME NEW c, NEW f, NEW m, ~Takes(c, f), f \in m
  PROVE  f \in Effect(c.does, m)
BY DEF Takes, Effect

LEMMA AddsNothingElse ==
  ASSUME NEW c, NEW f, NEW m, ~Adds(c, f), f \notin m
  PROVE  f \notin Effect(c.does, m)
BY DEF Adds, Effect

\* A clause that is done brings about what it is to.
LEMMA BringsAbout ==
  ASSUME NEW c, NEW l, NEW m, ~Undoes(c, l), NEW x \in c.does, Brings(x, l), Holds(x.when, m)
  PROVE  Holds(l, Effect(c.does, m))
BY DEF Undoes, Adds, Brings, Holds, Effect

\* What else a clause asks for is enough: if l holds already, nothing undoes it.
LEMMA BesideIsEnough ==
  ASSUME NEW c, NEW l, Literal(l), NEW m, ~Undoes(c, l), NEW x \in c.does, Brings(x, l),
         Holds(Beside(x, l), m)
  PROVE  Holds(l, Effect(c.does, m))
<1>1. CASE Holds(l, m)
  BY <1>1, KeepsWhatItDoesNotUndo
<1>2. CASE ~Holds(l, m)
  <2>1. l.lacks \subseteq m /\ l.has \cap m = {}
    BY <1>2 DEF Literal, Holds, On, Off, Both
  <2>2. x.when.has \ l.lacks \subseteq m /\ (x.when.lacks \ l.has) \cap m = {}
    BY DEF Beside, Holds, Both
  <2>3. Holds(x.when, m)
    BY <2>1, <2>2 DEF Holds
  <2> QED BY <2>3, BringsAbout
<1> QED BY <1>1, <1>2

\* The negation of a literal.
LEMMA NotIs ==
  ASSUME NEW l, Literal(l), NEW m
  PROVE  Literal(Not(l)) /\ (Holds(Not(l), m) <=> ~Holds(l, m))
<1>1. ASSUME NEW f, l = On({f}) PROVE Not(l) = Off({f})
  BY <1>1 DEF Not, On, Off, Both
<1>2. ASSUME NEW f, l = Off({f}) PROVE Not(l) = On({f})
  BY <1>2 DEF Not, On, Off, Both
<1>3. \A f : (Holds(On({f}), m) <=> f \in m) /\ (Holds(Off({f}), m) <=> f \notin m)
  BY DEF Holds, On, Off, Both
<1> QED BY <1>1, <1>2, <1>3 DEF Literal

\* A call that leaves l has done so, if it did not raise an error.
LEMMA LeavesIt ==
  ASSUME NEW c, NEW l, Literal(l), NEW m, Leaves(c, l), Holds(c.need, m)
  PROVE  Holds(l, Effect(c.does, m))
<1>1. ~Undoes(c, l)
  BY DEF Leaves
<1>2. CASE \E x \in c.does : Brings(x, l) /\ Beside(x, l) = Always
  BY <1>1, <1>2, AlwaysHolds, BesideIsEnough
<1>3. CASE \E x, y \in c.does : Brings(x, l) /\ Brings(y, l)
             /\ \E f \in x.when.has : x.when = On({f}) /\ y.when = Off({f})
  <2>1. PICK x \in c.does, y \in c.does : Brings(x, l) /\ Brings(y, l)
               /\ \E f \in x.when.has : x.when = On({f}) /\ y.when = Off({f})
    BY <1>3
  <2>2. Holds(x.when, m) \/ Holds(y.when, m)
    BY <2>1 DEF Holds, On, Off, Both
  <2> QED BY <1>1, <2>1, <2>2, BringsAbout
<1>4. CASE l.has \subseteq c.need.has /\ l.lacks \subseteq c.need.lacks
  <2>1. Holds(l, m)
    BY <1>4 DEF Holds
  <2> QED BY <1>1, <2>1, KeepsWhatItDoesNotUndo
<1> QED BY <1>2, <1>3, <1>4 DEF Leaves

\* The i-th call establishes l if what the calls before it have assured is so.
LEMMA EstablishesIt ==
  ASSUME NEW p, NEW w, NEW i \in Nat, NEW l, Literal(l), NEW m, Establishes(p, w, i + 1, l),
         Holds(w[i + 1].need, m),
         \A k : Literal(k) /\ Assured(p, w, i, k) => Holds(k, m)
  PROVE  Holds(l, Effect(w[i + 1].does, m))
<1>1. CASE Leaves(w[i + 1], l)
  BY <1>1, LeavesIt
<1>2. CASE ~Undoes(w[i + 1], l) /\ \E x \in w[i + 1].does : Brings(x, l) /\ Firm(p, w, i, Beside(x, l))
  <2>1. PICK x \in w[i + 1].does : Brings(x, l) /\ Firm(p, w, i, Beside(x, l))
    BY <1>2
  <2>2. Holds(Beside(x, l), m)
    BY <2>1, PartsAreLiterals, HoldsByParts DEF Firm
  <2> QED BY <1>2, <2>1, <2>2, BesideIsEnough
<1>3. i + 1 - 1 = i
  OBVIOUS
<1> QED BY <1>1, <1>2, <1>3 DEF Establishes

\* A call that a look rules out establishes nothing, and one that establishes l leaves it.
LEMMA EstablishesOnlyIf ==
  ASSUME NEW p, NEW w, NEW i, NEW l, Establishes(p, w, i, l)
  PROVE  w[i].seen = Always /\ ~Undoes(w[i], l)
BY DEF Establishes, Leaves

\* Before the first call nothing is settled, and one call more settles what it establishes, or
\* assures.
LEMMA NothingSettledYet == \A p, w, l : ~SettledBy(p, w, 0, l) /\ ~Assured(p, w, 0, l)
BY DEF SettledBy, Assured

LEMMA AssuredOneMore ==
  ASSUME NEW p, NEW w, NEW i \in Nat, NEW l, Assured(p, w, i + 1, l)
  PROVE  Assures(p, w, i + 1, l) \/ Assured(p, w, i, l)
<1>1. PICK j \in 1..(i + 1) : Assures(p, w, j, l)
  BY DEF Assured
<1>2. j = i + 1 \/ j \in 1..i
  OBVIOUS
<1> QED BY <1>1, <1>2 DEF Assured

LEMMA SettledByOneMore ==
  ASSUME NEW p, NEW w, NEW i \in Nat, i + 1 \in 1..Len(w), NEW l, SettledBy(p, w, i + 1, l)
  PROVE  \/ Establishes(p, w, i + 1, l)
         \/ Assures(p, w, i + 1, l)
         \/ SettledBy(p, w, i, l) /\ ~Undoes(w[i + 1], l)
<1>1. CASE Assured(p, w, i + 1, l)
  <2>1. ~Undoes(w[i + 1], l)
    BY <1>1 DEF Assured, Assures
  <2> QED BY <1>1, <2>1, AssuredOneMore DEF SettledBy
<1>2. CASE \E j \in 1..(i + 1) : /\ Establishes(p, w, j, l)
                                 /\ \A k \in (j + 1)..(i + 1) : ~Undoes(w[k], l)
  <2>1. PICK j \in 1..(i + 1) : /\ Establishes(p, w, j, l)
                                /\ \A k \in (j + 1)..(i + 1) : ~Undoes(w[k], l)
    BY <1>2
  <2>2. CASE j = i + 1
    BY <2>1, <2>2
  <2>3. CASE j \in 1..i
    <3>1. i + 1 \in (j + 1)..(i + 1) /\ \A k \in (j + 1)..i : k \in (j + 1)..(i + 1)
      BY <2>3
    <3> QED BY <2>1, <2>3, <3>1 DEF SettledBy
  <2> QED BY <2>2, <2>3
<1> QED BY <1>1, <1>2 DEF SettledBy

\* What a call undoes is not settled after it.
LEMMA UndoneIsNotSettled ==
  ASSUME NEW p, NEW w, NEW i \in Nat, i + 1 \in 1..Len(w), NEW l, Undoes(w[i + 1], l)
  PROVE  ~SettledBy(p, w, i + 1, l)
BY SettledByOneMore, EstablishesOnlyIf DEF Assures

\* Where k implied l, it does so after a call that respects this.
LEMMA RespectsIt ==
  ASSUME NEW c, NEW k, Literal(k), NEW l, Literal(l), NEW known, Respects(c, k, l, known), NEW m,
         Holds(c.need, m), Holds(k, m) => Holds(l, m), known => Holds(l, Effect(c.does, m))
  PROVE  Holds(k, Effect(c.does, m)) => Holds(l, Effect(c.does, m))
<1> DEFINE n == Effect(c.does, m)
<1>1. /\ Literal(Not(k)) /\ (Holds(Not(k), m) <=> ~Holds(k, m))
      /\ Holds(Not(k), n) <=> ~Holds(k, n)
  BY NotIs
<1>2. CASE Undoes(c, l)
  <2>1. Holds(Not(k), n)
    BY <1>1, <1>2, LeavesIt DEF Respects
  <2> QED BY <1>1, <2>1
<1>3. CASE ~Undoes(c, l) /\ Undoes(c, Not(k))
  BY <1>3, LeavesIt DEF Respects
<1>4. CASE ~Undoes(c, l) /\ ~Undoes(c, Not(k))
  BY <1>1, <1>4, KeepsWhatItDoesNotUndo
<1> QED BY <1>2, <1>3, <1>4

\* What a call leaves is made of what was there and of what its clauses add.
LEMMA EffectWithin ==
  ASSUME NEW C, NEW m, NEW F, m \subseteq F, \A x \in C : x.add \subseteq F
  PROVE  Effect(C, m) \subseteq F
BY DEF Effect

-----------------------------------------------------------------------------
(* What a description promises of the program that runs.                    *)

LEMMA ThisIsDescribed ==
  ASSUME name \in DOMAIN Program
  PROVE  Described(this) /\ "none" \notin Mode /\ "mixed" \notin Mode
BY ProgramAssumption DEF this, Mode

LEMMA WorkerHasCalls ==
  ASSUME TypeOK, NEW s \in Session, mode[s] # "none"
  PROVE  /\ mode[s] \in Mode
         /\ Len(Worker(s)) \in Nat \ {0}
         /\ \A i \in 1..Len(Worker(s)) : Within(Worker(s)[i].does, this)
<1>1. mode[s] \in Mode
  BY DEF TypeOK
<1> QED BY <1>1, ThisIsDescribed DEF TypeOK, Described, Worker, Mode

\* The number of the next call, and what a move forward does to the machine.
LEMMA ForwardDoes ==
  ASSUME TypeOK, NEW s \in Session, Forward(s)
  PROVE  /\ at[s] \in Nat /\ at[s] + 1 \in 1..Len(Worker(s)) /\ Len(Worker(s)) \in Nat
         /\ \/ at[s] + 1 \in skip[s] /\ machine' = machine
            \/ /\ Holds(Worker(s)[at[s] + 1].need, machine)
               /\ machine' = Effect(Worker(s)[at[s] + 1].does, machine)
BY WorkerHasCalls DEF TypeOK, Forward

-----------------------------------------------------------------------------
(* Types.                                                                   *)

THEOREM InitTypeOK == Init => TypeOK
<1> SUFFICES ASSUME Init PROVE TypeOK
  OBVIOUS
<1>1. machine \subseteq this.facts
  BY ThisIsDescribed DEF Init, Described
<1> QED BY <1>1 DEF Init, TypeOK

\* A call, the last one included, stays within the facts.
LEMMA ForwardTyped ==
  ASSUME TypeOK, NEW s \in Session, Forward(s)
  PROVE  machine' \subseteq this.facts
<1>1. at[s] + 1 \in 1..Len(Worker(s))
  BY WorkerHasCalls DEF TypeOK, Forward
<1>2. Within(Worker(s)[at[s] + 1].does, this)
  BY <1>1, WorkerHasCalls DEF Forward
<1> QED BY <1>2, EffectWithin DEF TypeOK, Forward, Within

LEMMA DisturbTyped ==
  ASSUME TypeOK, NEW others, Disturb(others)
  PROVE  touched' \in [Session -> {"no", "stale", "mixed"}]
BY DEF TypeOK, Disturb

LEMMA RestTyped ==
  ASSUME TypeOK, NEW s \in Session, Rest(s), UNCHANGED name
  PROVE  /\ mode' \in [Session -> Mode \cup {"none"}]
         /\ at' \in [Session -> Nat] /\ skip' \in [Session -> SUBSET Nat]
         /\ \A t \in Session :
              IF mode'[t] = "none" THEN at'[t] = 0 /\ skip'[t] = {}
              ELSE at'[t] < Len(this.worker[mode'[t]])
BY DEF TypeOK, Rest, Worker

THEOREM NextTypeOK == TypeOK /\ [Next]_vars => TypeOK'
<1> SUFFICES ASSUME TypeOK, [Next]_vars PROVE TypeOK'
  OBVIOUS
<1> USE DEF Worker
<1>1. ASSUME NEW s \in Session, NEW md \in Mode, SayAlready(s, md) PROVE TypeOK'
  BY <1>1 DEF SayAlready, Asked, TypeOK, sessions, this, Mode
<1>2. ASSUME NEW s \in Session, NEW md \in Mode, Start(s, md) PROVE TypeOK'
  <2>1. Len(this.worker[md]) \in Nat \ {0}
    BY ThisIsDescribed DEF TypeOK, Described, Mode
  <2>2. /\ mode' \in [Session -> Mode \cup {"none"}]
        /\ wish' \in Mode \cup {"none", "mixed"} /\ met' \in BOOLEAN
    BY <1>2 DEF Start, Asked, TypeOK
  <2>3. UNCHANGED <<name, machine, at, skip, touched, clash>> /\ mode' = [mode EXCEPT ![s] = md]
    BY <1>2 DEF Start
  <2>4. at[s] = 0 /\ md # "none"
    BY <1>2, ThisIsDescribed DEF Start, TypeOK
  <2>5. ASSUME NEW t \in Session
        PROVE  IF mode'[t] = "none" THEN at[t] = 0 /\ skip[t] = {}
               ELSE at[t] < Len(this.worker[mode'[t]])
    <3>1. CASE t = s
      BY <2>1, <2>3, <2>4, <3>1 DEF TypeOK
    <3>2. CASE t # s
      BY <2>3, <3>2 DEF TypeOK
    <3> QED BY <3>1, <3>2
  <2> QED BY <2>2, <2>3, <2>5 DEF TypeOK, this, Mode
<1>3. ASSUME NEW s \in Session, Call(s) PROVE TypeOK'
  <2>1. machine' \subseteq this.facts /\ touched' \in [Session -> {"no", "stale", "mixed"}]
    BY <1>3, ForwardTyped, DisturbTyped DEF Call
  <2>2. mode[s] # "none" /\ Len(Worker(s)) \in Nat /\ at[s] \in Nat
    BY <1>3, WorkerHasCalls DEF TypeOK, Call, Forward
  <2>3. RuledOut(s, at[s] + 1) \subseteq Nat
    BY <2>2 DEF RuledOut
  <2>4. at' \in [Session -> Nat] /\ skip' \in [Session -> SUBSET Nat]
    BY <1>3, <2>2, <2>3 DEF Call, TypeOK
  <2>5. ASSUME NEW t \in Session
        PROVE  IF mode[t] = "none" THEN at'[t] = 0 /\ skip'[t] = {}
               ELSE at'[t] < Len(this.worker[mode[t]])
    <3>1. CASE t = s
      BY <1>3, <2>2, <3>1 DEF Call, TypeOK
    <3>2. CASE t # s
      BY <1>3, <3>2 DEF Call, TypeOK
    <3> QED BY <3>1, <3>2
  <2> QED BY <1>3, <2>1, <2>4, <2>5 DEF Call, Clash, TypeOK, this, Mode
<1>4. ASSUME NEW s \in Session, Finish(s) PROVE TypeOK'
  <2>1. machine' \subseteq this.facts /\ touched' \in [Session -> {"no", "stale", "mixed"}]
    BY <1>4, ForwardTyped, DisturbTyped DEF Finish
  <2> QED BY <1>4, <2>1, RestTyped DEF Finish, Clash, TypeOK, this, Mode
<1>5. ASSUME NEW s \in Session, Raise(s) PROVE TypeOK'
  <2>1. touched' \in [Session -> {"no", "stale", "mixed"}]
    BY <1>5, DisturbTyped DEF Raise
  <2> QED BY <1>5, <2>1, RestTyped DEF Raise, Clash, TypeOK, this, Mode
<1>6. ASSUME NEW s \in Session, GiveUp(s) PROVE TypeOK'
  <2>1. touched' \in [Session -> {"no", "stale", "mixed"}]
    BY <1>6, DisturbTyped DEF GiveUp
  <2>2. machine' \subseteq this.facts
    BY <1>6 DEF GiveUp, TypeOK
  <2> QED BY <1>6, <2>1, <2>2, RestTyped DEF GiveUp, Clash, TypeOK, this, Mode
<1>7. ASSUME Outside PROVE TypeOK'
  <2>1. touched' \in [Session -> {"no", "stale", "mixed"}]
    BY <1>7, DisturbTyped DEF Outside
  <2>2. PICK c \in this.outside : machine' = Effect(c.does, machine)
    BY <1>7 DEF Outside
  <2>3. \A x \in c.does : x.add \subseteq this.facts
    BY ThisIsDescribed DEF TypeOK, Described, Within
  <2>4. machine' \subseteq this.facts
    BY <2>2, <2>3, EffectWithin DEF TypeOK
  <2> QED BY <1>7, <2>1, <2>4 DEF Outside, Clash, TypeOK, this, Mode
<1>8. ASSUME Reboot PROVE TypeOK'
  <2> PICK C \in this.boot : machine' = Effect(C, machine)
    BY <1>8 DEF Reboot
  <2>0. \A x \in C : x.add \subseteq this.facts
    BY ThisIsDescribed DEF TypeOK, Described, Within
  <2>1. machine' \subseteq this.facts
    BY <2>0, EffectWithin DEF TypeOK
  <2>2. /\ mode' \in [Session -> Mode \cup {"none"}] /\ at' \in [Session -> Nat]
        /\ skip' \in [Session -> SUBSET Nat] /\ touched' \in [Session -> {"no", "stale", "mixed"}]
    BY <1>8 DEF Reboot
  <2>3. \A s \in Session : mode'[s] = "none" /\ at'[s] = 0 /\ skip'[s] = {}
    BY <1>8 DEF Reboot
  <2>4. UNCHANGED <<name, met, clash>> /\ wish' = "mixed"
    BY <1>8 DEF Reboot
  <2> QED BY <2>1, <2>2, <2>3, <2>4 DEF TypeOK, this, Mode
<1>9. CASE UNCHANGED vars
  BY <1>9 DEF vars, sessions, history, TypeOK, this, Mode
<1> QED BY <1>1, <1>2, <1>3, <1>4, <1>5, <1>6, <1>7, <1>8, <1>9 DEF Next

\* Every variable keeps its type.
THEOREM TypeCorrect == Spec => []TypeOK
BY InitTypeOK, NextTypeOK, PTL DEF Spec

-----------------------------------------------------------------------------
(* What a step does to the machine.                                         *)

LEMMA Changes ==
  ASSUME TypeOK, [Next]_vars
  PROVE  /\ name' = name
         /\ \/ machine' = machine
            \/ \E s \in Session : Forward(s) /\ (Call(s) \/ Finish(s))
            \/ \E md \in Mode : \E i \in 1..Len(this.worker[md]) :
                 machine' = machine \ this.worker[md][i].undo
            \/ \E c \in this.outside : Holds(c.need, machine) /\ machine' = Effect(c.does, machine)
            \/ \E C \in this.boot : machine' = Effect(C, machine)
<1>1. ASSUME NEW s \in Session, NEW md \in Mode, SayAlready(s, md) \/ Start(s, md)
      PROVE  name' = name /\ machine' = machine
  BY <1>1 DEF SayAlready, Start
<1>2. ASSUME NEW s \in Session, Call(s) \/ Finish(s)
      PROVE  name' = name /\ Forward(s)
  BY <1>2 DEF Call, Finish
<1>3. ASSUME NEW s \in Session, Raise(s) PROVE name' = name /\ machine' = machine
  BY <1>3 DEF Raise
<1>4. ASSUME NEW s \in Session, GiveUp(s)
      PROVE  /\ name' = name
             /\ \/ machine' = machine
                \/ \E md \in Mode : \E i \in 1..Len(this.worker[md]) :
                     machine' = machine \ this.worker[md][i].undo
  <2>1. /\ name' = name /\ mode[s] \in Mode /\ at[s] + 1 \in 1..Len(this.worker[mode[s]])
    BY <1>4, WorkerHasCalls DEF GiveUp, TypeOK, Worker
  <2>2. machine' = machine \/ machine' = machine \ this.worker[mode[s]][at[s] + 1].undo
    BY <1>4 DEF GiveUp, Worker
  <2> QED BY <2>1, <2>2
<1>5. CASE Outside
  BY <1>5 DEF Outside
<1>6. CASE Reboot
  BY <1>6 DEF Reboot
<1>7. CASE UNCHANGED vars
  BY <1>7 DEF vars
<1> QED BY <1>1, <1>2, <1>3, <1>4, <1>5, <1>6, <1>7 DEF Next

\* The calls by which a boot, and a call that takes something back, are judged.
TakeBack(F) == Do({}, F)

LEMMA StandsFor ==
  /\ \A C : Does(C).does = C /\ Does(C).need = Always
  /\ \A F, m : Effect(TakeBack(F).does, m) = m \ F /\ TakeBack(F).need = Always
<1>1. \A C : Does(C).does = C /\ Does(C).need = Always
  BY DEF Does
<1>2. ASSUME NEW F, NEW m PROVE Effect(TakeBack(F).does, m) = m \ F /\ TakeBack(F).need = Always
  <2> DEFINE x == Clause(Always, {}, F)
  <2>1. x.when = Always /\ x.add = {} /\ x.del = F
    BY DEF Clause
  <2>2. TakeBack(F).does = {x} /\ TakeBack(F).need = Always
    BY <1>1 DEF TakeBack, Do
  <2> HIDE DEF x
  <2> QED BY <2>1, <2>2, AlwaysHolds DEF Effect
<1> QED BY <1>1, <1>2

\* Where k implied l, it does so after all that happens beside the calls.
LEMMA AroundIt ==
  ASSUME TypeOK, [Next]_vars, ~\E s \in Session : Forward(s) /\ (Call(s) \/ Finish(s)),
         NEW k, Literal(k), NEW l, Literal(l), Around(this, k, l), Holds(k, machine) => Holds(l, machine)
  PROVE  Holds(k, machine') => Holds(l, machine')
<1>1. ASSUME NEW md \in Mode, NEW i \in 1..Len(this.worker[md]),
             machine' = machine \ this.worker[md][i].undo
      PROVE  Holds(k, machine') => Holds(l, machine')
  <2> DEFINE F == this.worker[md][i].undo
             c == TakeBack(F)
  <2>1. Respects(c, k, l, FALSE)
    BY DEF Around, Mode, TakeBack
  <2>0. machine' = machine \ F
    BY <1>1
  <2> HIDE DEF F
  <2>2. machine' = Effect(c.does, machine) /\ Holds(c.need, machine)
    <3>1. Effect(TakeBack(F).does, machine) = machine \ F
      BY ONLY StandsFor
    <3>2. Holds(TakeBack(F).need, machine)
      BY ONLY StandsFor, AlwaysHolds
    <3> QED BY <2>0, <3>1, <3>2
  <2> HIDE DEF c
  <2> QED BY <2>1, <2>2, RespectsIt
<1>2. ASSUME NEW c \in this.outside, Holds(c.need, machine), machine' = Effect(c.does, machine)
      PROVE  Holds(k, machine') => Holds(l, machine')
  <2>1. Respects(c, k, l, FALSE)
    BY DEF Around
  <2> QED BY <1>2, <2>1, RespectsIt
<1>3. ASSUME NEW C \in this.boot, machine' = Effect(C, machine)
      PROVE  Holds(k, machine') => Holds(l, machine')
  <2> DEFINE c == Does(C)
  <2>1. Respects(c, k, l, FALSE)
    BY DEF Around
  <2>2. machine' = Effect(c.does, machine) /\ Holds(c.need, machine)
    BY <1>3, StandsFor, AlwaysHolds
  <2> HIDE DEF c
  <2> QED BY <2>1, <2>2, RespectsIt
<1> QED BY <1>1, <1>2, <1>3, Changes

-----------------------------------------------------------------------------
(* A run that nobody comes between.  What its calls so far have settled is  *)
(* so on the machine, though what it had read before its first call may not *)
(* have been; and a call that it will not make is one that settles nothing, *)
(* or that was ruled out because what it would have done was so already.    *)

Settled(s) ==
  \A l : Literal(l) /\ SettledBy(this, Worker(s), at[s], l) => Holds(l, machine)

SeenSo(s) ==
  \A l, j : Literal(l) /\ j \in skip[s] /\ Assures(this, Worker(s), j, l) => Holds(l, machine)

SkipsLooked(s) == \A j \in skip[s] : Worker(s)[j].seen # Always

BoundInv ==
  \A k, l : Literal(k) /\ Literal(l) /\ Bound(this, k, l) /\ Holds(k, machine) => Holds(l, machine)

Undisturbed(s) ==
  /\ SkipsLooked(s)
  /\ at[s] = 0 => skip[s] = {}
  /\ touched[s] # "mixed" => Settled(s) /\ SeenSo(s)

RunInv ==
  /\ BoundInv
  /\ \A s \in Session : mode[s] # "none" => Undisturbed(s)

\* What binds two facts of a machine holds of it from the start, and after each step.
LEMMA InitBoundInv == Init => BoundInv
BY DEF Init, BoundInv, Bound, Around

LEMMA NextBoundInv == TypeOK /\ BoundInv /\ [Next]_vars => BoundInv'
<1>0. TypeOK /\ [Next]_vars => this' = this
  BY Changes DEF this
<1> SUFFICES ASSUME TypeOK, BoundInv, [Next]_vars,
                    NEW k, Literal(k), NEW l, Literal(l), Bound(this, k, l)
             PROVE  Holds(k, machine') => Holds(l, machine')
  BY <1>0 DEF BoundInv
<1>1. Around(this, k, l) /\ (Holds(k, machine) => Holds(l, machine))
  BY DEF Bound, BoundInv
<1>2. ASSUME NEW s \in Session, Forward(s) PROVE Holds(k, machine') => Holds(l, machine')
  <2> DEFINE c == Worker(s)[at[s] + 1]
  <2>1. mode[s] \in Mode /\ at[s] + 1 \in 1..Len(Worker(s))
    BY <1>2, ForwardDoes, WorkerHasCalls DEF Forward
  <2>2. Respects(c, k, l, FALSE)
    BY <2>1 DEF Bound, Worker, Mode
  <2>3. machine' = machine \/ (Holds(c.need, machine) /\ machine' = Effect(c.does, machine))
    BY <1>2, ForwardDoes
  <2> HIDE DEF c
  <2>4. CASE machine' = machine
    BY <1>1, <2>4
  <2>5. CASE Holds(c.need, machine) /\ machine' = Effect(c.does, machine)
    BY <1>1, <2>2, <2>5, RespectsIt
  <2> QED BY <2>3, <2>4, <2>5
<1> QED BY <1>1, <1>2, AroundIt

\* When a look rules a call out, what that call would have assured is so.
LEMMA RuledOutIsSo ==
  ASSUME BoundInv, NEW s \in Session, NEW i, NEW j \in RuledOut(s, i),
         NEW l, Literal(l), Assures(this, Worker(s), j, l)
  PROVE  Holds(l, machine)
<1>1. PICK q \in Parts(Worker(s)[j].seen) : ~Holds(q, machine)
  BY HoldsByParts DEF RuledOut
<1>2. Literal(Not(q)) /\ Holds(Not(q), machine)
  BY <1>1, NotIs, PartsAreLiterals
<1>3. Bound(this, Not(q), l)
  BY DEF Assures
<1> QED BY <1>2, <1>3 DEF BoundInv

\* What a run has assured, and what it has seen to be so, stays so when it moves on.
LEMMA ForwardKeepsSeen ==
  ASSUME TypeOK, BoundInv, NEW s \in Session, Forward(s), SeenSo(s),
         NEW j, j \in skip[s] \/ j \in RuledOut(s, at[s] + 1),
         NEW l, Literal(l), Assures(this, Worker(s), j, l)
  PROVE  Holds(l, machine')
<1>1. Holds(l, machine)
  BY RuledOutIsSo DEF SeenSo
<1>2. ~Undoes(Worker(s)[at[s] + 1], l)
  BY ForwardDoes DEF Assures
<1> QED BY <1>1, <1>2, ForwardDoes, KeepsWhatItDoesNotUndo

\* The next call assures what it would, made or not.
LEMMA ForwardAssures ==
  ASSUME TypeOK, NEW s \in Session, Forward(s), SeenSo(s),
         NEW l, Literal(l), Assures(this, Worker(s), at[s] + 1, l)
  PROVE  Holds(l, machine')
<1>1. CASE at[s] + 1 \in skip[s]
  BY <1>1 DEF Forward, SeenSo
<1>2. CASE at[s] + 1 \notin skip[s]
  BY <1>2, LeavesIt DEF Forward, Assures
<1> QED BY <1>1, <1>2

\* The step of an undisturbed run: after it, what the calls up to it settle is so.
LEMMA ForwardSettles ==
  ASSUME TypeOK, RunInv, NEW s \in Session, Forward(s), touched[s] # "mixed",
         NEW l, Literal(l), SettledBy(this, Worker(s), at[s] + 1, l)
  PROVE  Holds(l, machine')
<1> DEFINE w == Worker(s)
           c == w[at[s] + 1]
<1>1. SkipsLooked(s) /\ Settled(s) /\ SeenSo(s) /\ mode[s] # "none"
  BY DEF RunInv, Undisturbed, Forward
<1>2. at[s] \in Nat /\ at[s] + 1 \in 1..Len(w)
  BY ForwardDoes
<1>3. CASE Establishes(this, w, at[s] + 1, l)
  <2>1. at[s] + 1 \notin skip[s]
    BY <1>1, <1>3, EstablishesOnlyIf DEF SkipsLooked
  <2>2. Holds(c.need, machine) /\ machine' = Effect(c.does, machine)
    BY <2>1, ForwardDoes
  <2>3. \A k : Literal(k) /\ Assured(this, w, at[s], k) => Holds(k, machine)
    BY <1>1 DEF Settled, SettledBy
  <2> HIDE DEF w
  <2> QED BY <1>2, <1>3, <2>2, <2>3, EstablishesIt
<1>4. CASE SettledBy(this, w, at[s], l) /\ ~Undoes(c, l)
  <2>1. Holds(l, machine)
    BY <1>1, <1>4 DEF Settled
  <2>2. machine' = machine \/ machine' = Effect(c.does, machine)
    BY ForwardDoes
  <2> HIDE DEF c
  <2> QED BY <1>4, <2>1, <2>2, KeepsWhatItDoesNotUndo
<1>5. CASE Assures(this, w, at[s] + 1, l)
  BY <1>1, <1>5, ForwardAssures
<1> HIDE DEF w
<1> QED BY <1>2, <1>3, <1>4, <1>5, SettledByOneMore DEF w

\* A run that somebody else's step leaves undisturbed: it has made no call yet, or the
\* machine is as it was.
LEMMA OthersKeepRunInv ==
  ASSUME TypeOK, RunInv, NEW others, Disturb(others), NEW t \in Session,
         t \in others \/ machine' = machine,
         mode'[t] = mode[t], at'[t] = at[t], skip'[t] = skip[t], UNCHANGED name,
         mode'[t] # "none"
  PROVE  Undisturbed(t)'
<1>1. Worker(t)' = Worker(t) /\ this' = this
  BY DEF Worker, this
<1>2. SkipsLooked(t)' /\ (at'[t] = 0 => skip'[t] = {})
  BY <1>1 DEF RunInv, Undisturbed, SkipsLooked
<1>3. ASSUME touched'[t] # "mixed" PROVE Settled(t)' /\ SeenSo(t)'
  <2>1. CASE machine' = machine
    <3>1. touched[t] # "mixed"
      BY <1>3, <2>1 DEF Disturb
    <3> QED BY <1>1, <2>1, <3>1 DEF RunInv, Undisturbed, Settled, SeenSo
  <2>2. CASE machine' # machine
    <3>1. at'[t] = 0 /\ skip'[t] = {}
      BY <1>2, <1>3, <2>2 DEF Disturb
    <3> QED BY <3>1, NothingSettledYet DEF Settled, SeenSo
  <2> QED BY <2>1, <2>2
<1> QED BY <1>2, <1>3 DEF Undisturbed

THEOREM InitRunInv == Init => RunInv
BY InitBoundInv DEF Init, RunInv

\* A session that rests keeps the others' invariant.
LEMMA RestKeepsRunInv ==
  ASSUME TypeOK, RunInv, BoundInv', NEW s \in Session, Rest(s), Disturb(Session \ {s}), UNCHANGED name
  PROVE  RunInv'
<1> SUFFICES ASSUME NEW t \in Session, mode'[t] # "none"
             PROVE  Undisturbed(t)'
  BY DEF RunInv
<1>1. t # s /\ mode'[t] = mode[t] /\ at'[t] = at[t] /\ skip'[t] = skip[t]
  BY DEF TypeOK, Rest
<1> QED BY <1>1, OthersKeepRunInv

THEOREM NextRunInv == TypeOK /\ RunInv /\ [Next]_vars => RunInv'
<1> SUFFICES ASSUME TypeOK, RunInv, [Next]_vars PROVE RunInv'
  OBVIOUS
<1>0. BoundInv /\ BoundInv'
  BY NextBoundInv DEF RunInv
<1>1. ASSUME UNCHANGED <<name, machine, sessions>> PROVE RunInv'
  BY <1>0, <1>1 DEF sessions, RunInv, Undisturbed, SkipsLooked, Settled, SeenSo, Worker, this
<1>2. ASSUME NEW s \in Session, NEW md \in Mode, Start(s, md) PROVE RunInv'
  <2>1. at'[s] = 0 /\ skip'[s] = {}
    BY <1>2 DEF Start, TypeOK
  <2> SUFFICES ASSUME NEW t \in Session, mode'[t] # "none" PROVE Undisturbed(t)'
    BY <1>0 DEF RunInv
  <2>2. CASE t = s
    BY <2>1, <2>2, NothingSettledYet DEF Undisturbed, SkipsLooked, Settled, SeenSo
  <2>3. CASE t # s
    <3>1. mode'[t] = mode[t] /\ UNCHANGED <<name, machine, at, skip, touched>>
      BY <1>2, <2>3 DEF Start, TypeOK
    <3> QED BY <3>1 DEF RunInv, Undisturbed, SkipsLooked, Settled, SeenSo, Worker, this
  <2> QED BY <2>2, <2>3
<1>3. ASSUME NEW s \in Session, Call(s) PROVE RunInv'
  <2> SUFFICES ASSUME NEW t \in Session, mode'[t] # "none" PROVE Undisturbed(t)'
    BY <1>0 DEF RunInv
  <2>1. UNCHANGED <<name, mode>> /\ Disturb(Session \ {s}) /\ Forward(s)
    BY <1>3 DEF Call
  <2>2. Worker(t)' = Worker(t) /\ this' = this
    BY <2>1 DEF Worker, this
  <2>3. CASE t = s
    <3>1. at'[s] = at[s] + 1 /\ at'[s] # 0 /\ touched'[s] = touched[s]
      BY <1>3, <2>1, <2>3 DEF Call, Disturb, TypeOK
    <3>2. \A j \in skip'[s] : j \in skip[s] \/ j \in RuledOut(s, at[s] + 1)
      BY <1>3 DEF Call, TypeOK
    <3>3. touched'[t] # "mixed" => Settled(t)'
      BY <2>1, <2>2, <2>3, <3>1, ForwardSettles DEF Settled
    <3>4. touched'[t] # "mixed" => SeenSo(t)'
      <4>1. touched[s] # "mixed" => SeenSo(s)
        BY <2>1 DEF RunInv, Undisturbed, Forward
      <4> QED BY <1>0, <2>1, <2>2, <2>3, <3>1, <3>2, <4>1, ForwardKeepsSeen DEF SeenSo
    <3>5. \A j \in RuledOut(s, at[s] + 1) : Worker(s)[j].seen # Always
      BY AlwaysHolds DEF RuledOut
    <3>6. SkipsLooked(t)'
      BY <2>1, <2>2, <2>3, <3>2, <3>5 DEF RunInv, Undisturbed, Forward, SkipsLooked
    <3> QED BY <2>3, <3>1, <3>3, <3>4, <3>6 DEF Undisturbed
  <2>4. CASE t # s
    <3>1. at'[t] = at[t] /\ skip'[t] = skip[t] /\ mode'[t] = mode[t]
      BY <1>3, <2>4 DEF Call, TypeOK
    <3> QED BY <2>1, <2>4, <3>1, OthersKeepRunInv
  <2> QED BY <2>3, <2>4
<1>4. ASSUME NEW s \in Session, Finish(s) \/ Raise(s) \/ GiveUp(s) PROVE RunInv'
  BY <1>0, <1>4, RestKeepsRunInv DEF Finish, Raise, GiveUp
<1>5. ASSUME Outside PROVE RunInv'
  <2>1. UNCHANGED <<name, mode, at, skip>> /\ Disturb(Session)
    BY <1>5 DEF Outside
  <2> QED BY <1>0, <2>1, OthersKeepRunInv DEF RunInv
<1>6. ASSUME Reboot PROVE RunInv'
  BY <1>0, <1>6 DEF Reboot, RunInv
<1> QED BY <1>1, <1>2, <1>3, <1>4, <1>5, <1>6 DEF Next, SayAlready, vars

-----------------------------------------------------------------------------

\* The last call of an undisturbed run settles the goal.
THEOREM FinishSets ==
  ASSUME TypeOK, RunInv, NEW s \in Session, Finish(s), touched[s] # "mixed"
  PROVE  Holds(this.goal[mode[s]], machine')
<1>1. Forward(s) /\ at[s] + 1 = Len(Worker(s)) /\ mode[s] # "none"
  BY DEF Finish, Forward
<1>2. name \in DOMAIN Program /\ mode[s] \in DOMAIN Program[name].worker
  BY <1>1, WorkerHasCalls DEF TypeOK, Mode, this
<1>3. \A l \in Parts(this.goal[mode[s]]) : SettledBy(this, Worker(s), Len(Worker(s)), l)
  BY <1>2, SteadyAssumption DEF this, Worker
<1> QED BY <1>1, <1>3, ForwardSettles, PartsAreLiterals, HoldsByParts

\* A run that goes through, its calls with nobody else's in between, leaves the machine as was
\* asked.
THEOREM CompletedRunSetsHolds == Spec => CompletedRunSets
<1>1. TypeOK /\ RunInv /\ [Next]_vars =>
        [\A s \in Session : Finish(s) /\ touched[s] # "mixed"
           => Holds(this.goal[mode[s]], machine')]_vars
  BY FinishSets
<1> QED BY <1>1, InitTypeOK, NextTypeOK, InitRunInv, NextRunInv, PTL DEF Spec, CompletedRunSets

-----------------------------------------------------------------------------
(* What can be concluded while no two runs have clashed.                    *)

LinkInv ==
  ~clash =>
    /\ \A s \in Session : touched[s] # "mixed"
    /\ \A k, l : Literal(k) /\ Literal(l) /\ Linked(this, k, l) /\ Holds(k, machine) => Holds(l, machine)

LEMMA InitLinkInv == Init => LinkInv
BY DEF Init, LinkInv, Linked, Around

\* No run has been come between: a clash would have been noted.
LEMMA ClashIsNoted ==
  ASSUME LinkInv, [Next]_vars, ~clash'
  PROVE  ~clash /\ \A s \in Session : touched'[s] # "mixed"
<1>1. ASSUME Clash PROVE ~clash /\ \A s \in Session : touched'[s] # "mixed"
  BY <1>1 DEF Clash
<1>2. ASSUME UNCHANGED <<touched, clash>> PROVE ~clash /\ \A s \in Session : touched'[s] # "mixed"
  BY <1>2 DEF LinkInv
<1>3. CASE Reboot
  BY <1>3 DEF Reboot
<1>4. ASSUME NEW s \in Session, Call(s) \/ Finish(s) \/ Raise(s) \/ GiveUp(s) PROVE Clash
  BY <1>4 DEF Call, Finish, Raise, GiveUp
<1>5. ASSUME NEW s \in Session, NEW md \in Mode, SayAlready(s, md) \/ Start(s, md)
      PROVE  UNCHANGED <<touched, clash>>
  BY <1>5 DEF SayAlready, Start, sessions
<1>6. ASSUME Outside PROVE Clash
  BY <1>6 DEF Outside
<1>7. ASSUME UNCHANGED vars PROVE UNCHANGED <<touched, clash>>
  BY <1>7 DEF vars, sessions, history
<1> QED BY <1>1, <1>2, <1>3, <1>4, <1>5, <1>6, <1>7 DEF Next

LEMMA NextLinkInv == TypeOK /\ RunInv /\ LinkInv /\ [Next]_vars => LinkInv'
<1>0. TypeOK /\ [Next]_vars => this' = this
  BY Changes DEF this
<1> SUFFICES ASSUME TypeOK, RunInv, LinkInv, [Next]_vars, ~clash',
                    NEW k, Literal(k), NEW l, Literal(l), Linked(this, k, l)
             PROVE  Holds(k, machine') => Holds(l, machine')
  BY <1>0, ClashIsNoted DEF LinkInv
<1>1. /\ \A s \in Session : touched[s] # "mixed"
      /\ Around(this, k, l) /\ (Holds(k, machine) => Holds(l, machine))
  BY ClashIsNoted DEF Linked, LinkInv
<1>2. ASSUME NEW s \in Session, Forward(s) PROVE Holds(k, machine') => Holds(l, machine')
  <2> DEFINE c == Worker(s)[at[s] + 1]
             known == SettledBy(this, Worker(s), at[s] + 1, l)
  <2>1. mode[s] \in Mode /\ at[s] + 1 \in 1..Len(Worker(s))
    BY <1>2, ForwardDoes, WorkerHasCalls DEF Forward
  <2>2. Respects(c, k, l, known)
    BY <2>1 DEF Linked, Worker, Mode
  <2>3. machine' = machine \/ (Holds(c.need, machine) /\ machine' = Effect(c.does, machine))
    BY <1>2, ForwardDoes
  <2>4. known => Holds(l, machine')
    BY <1>1, <1>2, ForwardSettles
  <2> HIDE DEF c, known
  <2> QED BY <1>1, <2>2, <2>3, <2>4, RespectsIt
<1> QED BY <1>1, <1>2, AroundIt

\* So whoever is told "already" is told the truth, if what that asks for is linked to the goal.
LEMMA ToldTheTruth ==
  ASSUME LinkInv, ~clash, NEW md \in Mode, Already(md),
         \A a \in this.already[md] : \A l \in Parts(this.goal[md]) :
           l \in Parts(a) \/ \E k \in Parts(a) : Linked(this, k, l)
  PROVE  Goal(md)
<1>1. PICK a \in this.already[md] : Holds(a, machine)
  BY DEF Already
<1>2. \A k \in Parts(a) : Holds(k, machine)
  BY <1>1, HoldsByParts
<1>3. \A l \in Parts(this.goal[md]) : Holds(l, machine)
  BY <1>1, <1>2, PartsAreLiterals DEF LinkInv
<1> QED BY <1>3, HoldsByParts DEF Goal

-----------------------------------------------------------------------------
(* Sessions that all ask for the same.  Each part of the goal holds, or     *)
(* some session that is past its point of no return is still to settle it:  *)
(* so when nobody runs any more, it holds.                                  *)

CommitOf(p, w, g, answers) == CHOOSE b \in 1..Len(w) : CommitsAt(p, w, b, g, answers)

Commit(md)   == CommitOf(this, this.worker[md], this.goal[md], this.already[md])
Committed(s) == mode[s] # "none" /\ at[s] >= Commit(mode[s])

Covered(l) ==
  Holds(l, machine) \/ \E s \in Session : Committed(s) /\ ~SettledBy(this, Worker(s), at[s], l)

AgreedInv ==
  /\ \A s \in Session : mode[s] # "none" =>
       /\ mode[s] = wish
       /\ SeenSo(s)
       /\ \A l : Literal(l) /\ Assured(this, Worker(s), at[s], l) => Holds(l, machine)
       /\ \A l \in Parts(this.goal[wish]) : SettledBy(this, Worker(s), at[s], l) => Covered(l)
  /\ met \/ Already(wish) => \A l \in Parts(this.goal[wish]) : Covered(l)

WishInv ==
  /\ wish = "none" => Quiet /\ machine \in this.start /\ ~met
  /\ wish \in Mode => AgreedInv

\* What the text of the program that runs says.
LEMMA SteadySays ==
  ASSUME name \in DOMAIN Program, NEW md \in Mode, Len(this.worker[md]) \in Nat
  PROVE  LET w == this.worker[md]
         IN  /\ Commit(md) \in 1..Len(w)
             /\ CommitsAt(this, w, Commit(md), this.goal[md], this.already[md])
             /\ \A l \in Parts(this.goal[md]) : SettledBy(this, w, Len(w), l)
             /\ \A m \in this.start : (\E p \in this.already[md] : Holds(p, m)) => Holds(this.goal[md], m)
<1>1. md \in DOMAIN Program[name].worker
  BY DEF Mode, this
<1>2. \E b \in 1..Len(this.worker[md]) : CommitsAt(this, this.worker[md], b, this.goal[md], this.already[md])
  BY <1>1, AgreeingAssumption DEF this
<1>3. \A l \in Parts(this.goal[md]) : SettledBy(this, this.worker[md], Len(this.worker[md]), l)
  BY <1>1, SteadyAssumption DEF this
<1>4. \A m \in this.start : (\E p \in this.already[md] : Holds(p, m)) => Holds(this.goal[md], m)
  BY <1>1, AgreeingAssumption DEF this
<1> QED BY <1>2, <1>3, <1>4 DEF Commit, CommitOf

\* One session moves on, by a call or its last call.
LEMMA ForwardAgrees ==
  ASSUME TypeOK, RunInv, wish \in Mode, AgreedInv, UNCHANGED <<name, wish>>,
         NEW s \in Session, Forward(s),
         \A t \in Session \ {s} : mode'[t] = mode[t] /\ at'[t] = at[t] /\ skip'[t] = skip[t],
         \/ /\ mode'[s] = mode[s] /\ at'[s] = at[s] + 1 /\ at[s] + 1 < Len(Worker(s)) /\ met' = met
            /\ \A j \in skip'[s] : j \in skip[s] \/ j \in RuledOut(s, at[s] + 1)
         \/ mode'[s] = "none" /\ at[s] + 1 = Len(Worker(s))
  PROVE  AgreedInv'
<1> DEFINE w == this.worker[wish]
           i == at[s] + 1
           b == Commit(wish)
           G == Parts(this.goal[wish])
<1>1. /\ mode[s] # "none" /\ mode[s] = wish /\ wish # "none"
      /\ \A t \in Session : mode[t] # "none" => mode[t] = wish /\ Worker(t) = w
      /\ at[s] \in Nat /\ i \in 1..Len(w) /\ Len(w) \in Nat /\ name \in DOMAIN Program
      /\ \A t \in Session : mode[t] # "none" => SeenSo(t)
  BY ForwardDoes DEF TypeOK, Forward, AgreedInv, Worker
<1>2. /\ this' = this /\ Parts(this.goal[wish])' = G /\ Commit(wish)' = b
      /\ \A t \in Session : mode'[t] # "none" => mode[t] # "none" /\ mode'[t] = wish /\ Worker(t)' = w
  BY <1>1 DEF this, Commit, Worker
<1>3. /\ b \in 1..Len(w) /\ CommitsAt(this, w, b, this.goal[wish], this.already[wish])
      /\ \A l \in G : Literal(l) /\ SettledBy(this, w, Len(w), l)
  BY <1>1, SteadySays, PartsAreLiterals
<1>4. \/ i \in skip[s] /\ w[i].seen # Always /\ machine' = machine
      \/ Holds(w[i].need, machine) /\ machine' = Effect(w[i].does, machine)
  BY <1>1, ForwardDoes DEF RunInv, Undisturbed, SkipsLooked
<1>5. /\ \A t \in Session : mode[t] # "none" =>
           \A l : Literal(l) /\ Assured(this, w, at[t], l) => Holds(l, machine)
      /\ \A t \in Session : mode[t] # "none" => \A l \in G : SettledBy(this, w, at[t], l) => Covered(l)
      /\ met \/ Already(wish) => \A l \in G : Covered(l)
  BY <1>1 DEF AgreedInv
<1>6. \A t \in Session : Committed(t) <=> mode[t] # "none" /\ at[t] >= b
  BY <1>1 DEF Committed
<1>7. \A t \in Session : Committed(t)' <=> mode'[t] # "none" /\ at'[t] >= b
  BY <1>1, <1>2 DEF Committed
<1> HIDE DEF w, b, G
\* What the call does not undo stays; what it establishes comes about.
<1>8. ASSUME NEW l, Holds(l, machine), ~Undoes(w[i], l) PROVE Holds(l, machine')
  BY <1>4, <1>8, KeepsWhatItDoesNotUndo
<1>9. ASSUME NEW l, Literal(l), Establishes(this, w, i, l) PROVE Holds(l, machine')
  <2>1. Holds(w[i].need, machine) /\ machine' = Effect(w[i].does, machine)
    BY <1>4, <1>9, EstablishesOnlyIf
  <2>2. \A k : Literal(k) /\ Assured(this, w, at[s], k) => Holds(k, machine)
    BY <1>1, <1>5
  <2> QED BY <1>1, <1>9, <2>1, <2>2, EstablishesIt
<1>18. ASSUME NEW l, Literal(l), Assures(this, w, i, l) PROVE Holds(l, machine')
  BY <1>1, <1>18, ForwardAssures
<1>19. ASSUME NEW t \in Session, mode'[t] # "none" PROVE SeenSo(t)'
  <2>1. CASE t = s
    <3>1. \A j \in skip'[s] : j \in skip[s] \/ j \in RuledOut(s, i)
      BY <1>19, <2>1
    <3>2. BoundInv /\ SeenSo(s)
      BY <1>1 DEF RunInv
    <3> QED BY <1>1, <1>2, <1>19, <2>1, <3>1, <3>2, ForwardKeepsSeen DEF SeenSo
  <2>2. CASE t # s
    <3>1. \A l, j : Assures(this, w, j, l) => ~Undoes(w[i], l)
      BY <1>1 DEF Assures
    <3> QED BY <1>1, <1>2, <1>8, <1>19, <2>2, <3>1 DEF SeenSo
  <2> QED BY <2>1, <2>2
<1>10. ASSUME NEW t \in Session, mode'[t] # "none", NEW l, Literal(l), Assured(this, w, at'[t], l)
       PROVE  Holds(l, machine')
  <2>1. CASE Assured(this, w, at[t], l)
    BY <1>1, <1>2, <1>5, <1>8, <1>10, <2>1 DEF Assured, Assures
  <2>2. CASE t = s /\ Assures(this, w, i, l)
    BY <1>1, <1>10, <2>2, ForwardAssures
  <2> QED BY <1>1, <1>10, <2>1, <2>2, AssuredOneMore
\* A call past which l is not settled is not the last.
<1>11. ASSUME NEW l \in G, ~SettledBy(this, w, i, l)
       PROVE  mode'[s] = mode[s] /\ at'[s] = i
  BY <1>1, <1>3, <1>11
<1>12. ASSUME NEW l \in G, i >= b, ~SettledBy(this, w, i, l)
       PROVE  Covered(l)'
  BY <1>1, <1>2, <1>7, <1>11, <1>12 DEF Covered
<1>13. ASSUME NEW l \in G, Covered(l) PROVE Covered(l)'
  <2>1. CASE Holds(l, machine) /\ ~Undoes(w[i], l)
    BY <1>8, <2>1 DEF Covered
  <2>2. CASE Undoes(w[i], l)
    <3>1. i >= b
      BY <1>1, <1>3, <2>2 DEF CommitsAt, G
    <3>2. ~SettledBy(this, w, i, l)
      BY <1>1, <2>2, UndoneIsNotSettled
    <3> QED BY <1>12, <3>1, <3>2
  <2>3. ASSUME NEW t \in Session \ {s}, Committed(t), ~SettledBy(this, Worker(t), at[t], l)
        PROVE  Covered(l)'
    BY <1>1, <1>2, <1>6, <1>7, <2>3 DEF Covered
  <2>4. CASE Committed(s) /\ ~SettledBy(this, Worker(s), at[s], l)
    <3>1. i >= b
      BY <1>1, <1>3, <1>6, <2>4
    <3>2. CASE SettledBy(this, w, i, l)
      BY <1>1, <1>3, <1>9, <1>18, <2>4, <3>2, SettledByOneMore DEF Covered
    <3>3. CASE ~SettledBy(this, w, i, l)
      BY <1>12, <3>1, <3>3
    <3> QED BY <3>2, <3>3
  <2> QED BY <1>13, <2>1, <2>2, <2>3, <2>4 DEF Covered
<1>14. ASSUME NEW l \in G, SettledBy(this, w, i, l) PROVE Covered(l)'
  <2>1. CASE Establishes(this, w, i, l)
    BY <1>3, <1>9, <2>1 DEF Covered
  <2>2. CASE SettledBy(this, w, at[s], l)
    BY <1>1, <1>5, <1>13, <2>2
  <2>3. CASE Assures(this, w, i, l)
    BY <1>3, <1>18, <2>3 DEF Covered
  <2> QED BY <1>1, <1>14, <2>1, <2>2, <2>3, SettledByOneMore
<1>15. ASSUME NEW t \in Session, mode'[t] # "none", NEW l \in G, SettledBy(this, w, at'[t], l)
       PROVE  Covered(l)'
  BY <1>1, <1>2, <1>5, <1>13, <1>14, <1>15
<1>16. ASSUME i >= b, NEW l \in G PROVE Covered(l)'
  BY <1>12, <1>14, <1>16
<1>17. ASSUME met' \/ Already(wish)', NEW l \in G PROVE Covered(l)'
  <2>1. CASE met \/ Already(wish)
    BY <1>5, <1>13, <2>1
  <2>2. CASE met' /\ ~met
    BY <1>1, <1>3, <1>14, <2>2
  <2>3. ASSUME Already(wish)', ~Already(wish) PROVE i >= b
    <3>1. PICK p \in this.already[wish] : Holds(p, machine') /\ ~Holds(p, machine)
      BY <1>2, <2>3 DEF Already
    <3>2. PICK k \in Parts(p) : Holds(k, machine') /\ ~Holds(k, machine)
      BY <3>1, HoldsByParts
    <3>3. /\ Literal(k) /\ Holds(Not(k), machine) /\ ~Holds(Not(k), machine')
      BY <3>2, NotIs, PartsAreLiterals
    <3>4. Undoes(w[i], Not(k))
      BY <1>8, <3>3
    <3> QED BY <1>1, <1>3, <3>1, <3>4 DEF CommitsAt
  <2> QED BY <1>16, <1>17, <2>1, <2>2, <2>3
<1> QED BY <1>2, <1>10, <1>15, <1>17, <1>19 DEF AgreedInv, G

\* A session ends, with an error, that is not past its point of no return.
LEMMA RaiseAgrees ==
  ASSUME TypeOK, wish \in Mode, AgreedInv, NEW s \in Session, Raise(s)
  PROVE  AgreedInv'
<1> DEFINE w == this.worker[wish]
           i == at[s] + 1
           b == Commit(wish)
           G == Parts(this.goal[wish])
<1>1. /\ mode[s] # "none" /\ wish # "none"
      /\ \A t \in Session : mode[t] # "none" => mode[t] = wish /\ Worker(t) = w
      /\ at[s] \in Nat /\ i \in 1..Len(w) /\ Len(w) \in Nat /\ name \in DOMAIN Program
  BY WorkerHasCalls DEF TypeOK, Raise, AgreedInv, Worker
<1>2. /\ UNCHANGED <<name, machine, wish, met>> /\ mode'[s] = "none"
      /\ \A t \in Session \ {s} : mode'[t] = mode[t] /\ at'[t] = at[t] /\ skip'[t] = skip[t]
      /\ ~Holds(w[i].need, machine)
  BY <1>1 DEF TypeOK, Raise, Rest
<1>3. /\ this' = this /\ Parts(this.goal[wish])' = G /\ Commit(wish)' = b
      /\ \A t \in Session : mode'[t] # "none" => t # s /\ mode[t] # "none" /\ Worker(t)' = w
  BY <1>1, <1>2 DEF this, Commit, Worker
<1>4. CommitsAt(this, w, b, this.goal[wish], this.already[wish]) /\ b \in 1..Len(w)
  BY <1>1, SteadySays
<1>5. ~Committed(s)
  <2> SUFFICES ASSUME at[s] >= b PROVE Holds(w[i].need, machine)
    BY <1>1, <1>2 DEF Committed
  <2>1. i \in (b + 1)..Len(w) /\ i - 1 = at[s]
    BY <1>1, <1>4
  <2>2. Firm(this, w, at[s], w[i].need)
    BY <1>4, <2>1 DEF CommitsAt
  <2>3. \A l : Literal(l) /\ Assured(this, w, at[s], l) => Holds(l, machine)
    BY <1>1 DEF AgreedInv
  <2> QED BY <2>2, <2>3, HoldsByParts, PartsAreLiterals DEF Firm
<1>6. ASSUME NEW l \in G, Covered(l) PROVE Covered(l)'
  <2>1. CASE Holds(l, machine)
    BY <1>2, <2>1 DEF Covered
  <2>2. ASSUME NEW t \in Session, Committed(t), ~SettledBy(this, Worker(t), at[t], l) PROVE Covered(l)'
    <3>1. t # s /\ mode[t] = wish /\ Worker(t) = w
      BY <1>1, <1>5, <2>2 DEF Committed
    <3>2. Committed(t)' /\ Worker(t)' = w /\ at'[t] = at[t]
      BY <1>1, <1>2, <1>3, <2>2, <3>1 DEF Committed
    <3> QED BY <1>3, <2>2, <3>1, <3>2 DEF Covered
  <2> QED BY <1>6, <2>1, <2>2 DEF Covered
<1>7. Already(wish)' <=> Already(wish)
  BY <1>2, <1>3 DEF Already
<1>8. ASSUME NEW t \in Session, mode'[t] # "none"
      PROVE  /\ mode'[t] = wish /\ SeenSo(t)'
             /\ \A l : Literal(l) /\ Assured(this, w, at'[t], l) => Holds(l, machine')
             /\ \A l \in G : SettledBy(this, w, at'[t], l) => Covered(l)'
  BY <1>1, <1>2, <1>3, <1>6, <1>8 DEF AgreedInv, SeenSo
<1> HIDE DEF w, b, G
<1>9. met' \/ Already(wish)' => \A l \in G : Covered(l)'
  BY <1>2, <1>6, <1>7 DEF AgreedInv, G
<1> QED BY <1>2, <1>3, <1>8, <1>9 DEF AgreedInv

\* On a machine that is calm, or has just been installed, nothing runs and "already" is true.
Settling(md) ==
  /\ Quiet
  /\ Already(md) => Goal(md)

LEMMA CalmSettles ==
  ASSUME TypeOK, WishInv, NEW md \in Mode, Calm \/ wish = "none"
  PROVE  Settling(md)
<1>1. CASE Calm
  BY <1>1 DEF Calm, Settling
<1>2. CASE wish = "none"
  <2>1. Len(this.worker[md]) \in Nat /\ name \in DOMAIN Program
    BY ThisIsDescribed DEF TypeOK, Described, Mode
  <2> QED BY <1>2, <2>1, SteadySays DEF WishInv, Settling, Already, Goal
<1> QED BY <1>1, <1>2

LEMMA SayAlreadyAgrees ==
  ASSUME TypeOK, WishInv, NEW s \in Session, NEW md \in Mode, SayAlready(s, md),
         wish' \in Mode
  PROVE  AgreedInv'
<1>1. wish' = md /\ UNCHANGED <<name, machine, mode, at, skip>>
  BY ThisIsDescribed DEF TypeOK, SayAlready, Asked, sessions
<1>2. this' = this /\ \A l : Covered(l)' <=> Covered(l)
  BY <1>1 DEF this, Covered, Committed, Commit, Worker
<1>3. CASE Calm \/ wish = "none"
  <2>1. Quiet /\ Goal(md)
    BY <1>3, CalmSettles DEF Settling, SayAlready
  <2>2. \A l \in Parts(this.goal[md]) : Covered(l)
    BY <2>1, HoldsByParts DEF Covered, Goal
  <2> QED BY <1>1, <1>2, <2>1, <2>2 DEF AgreedInv, Quiet
<1>4. CASE wish = md
  <2>1. AgreedInv /\ Already(md)
    BY <1>4 DEF WishInv, SayAlready
  <2> QED BY <1>1, <1>2, <1>4, <2>1 DEF AgreedInv, SeenSo, Worker
<1> QED BY <1>1, <1>3, <1>4, ThisIsDescribed DEF TypeOK, SayAlready, Asked

LEMMA StartAgrees ==
  ASSUME TypeOK, WishInv, NEW s \in Session, NEW md \in Mode, Start(s, md),
         wish' \in Mode
  PROVE  AgreedInv'
<1>1. /\ wish' = md /\ UNCHANGED <<name, machine, at, skip>> /\ ~Already(md) /\ mode[s] = "none"
      /\ mode'[s] = md /\ at[s] = 0 /\ skip[s] = {} /\ \A t \in Session \ {s} : mode'[t] = mode[t]
      /\ met' = (met /\ ~Calm) /\ (Calm \/ wish \in {"none", md})
  BY ThisIsDescribed DEF TypeOK, Start, Asked
<1>2. this' = this /\ ~Already(md)' /\ \A t \in Session \ {s} : Worker(t)' = Worker(t)
  BY <1>1 DEF this, Already, Worker
<1>3. ASSUME NEW l, Covered(l) PROVE Covered(l)'
  <2>1. ASSUME NEW t \in Session, Committed(t), ~SettledBy(this, Worker(t), at[t], l) PROVE Covered(l)'
    <3>1. t # s
      BY <1>1, <2>1 DEF Committed
    <3> QED BY <1>1, <1>2, <2>1, <3>1 DEF Covered, Committed, Commit
  <2> QED BY <1>1, <1>3, <2>1 DEF Covered
<1>4. /\ \A l : ~Assured(this, Worker(s)', at'[s], l)
      /\ \A l : ~SettledBy(this, Worker(s)', at'[s], l)
      /\ SeenSo(s)'
  BY <1>1, NothingSettledYet DEF SeenSo
<1>5. CASE Calm \/ wish = "none"
  <2>1. ~met' /\ \A t \in Session \ {s} : mode'[t] = "none"
    BY <1>1, <1>5 DEF Calm, Quiet, WishInv
  <2> QED BY <1>1, <1>2, <1>4, <2>1 DEF AgreedInv
<1>6. CASE wish = md
  <2>1. AgreedInv
    BY <1>6 DEF WishInv
  <2>2. \A t \in Session \ {s} : mode'[t] # "none" =>
          /\ mode'[t] = md /\ SeenSo(t)'
          /\ \A l : Literal(l) /\ Assured(this, Worker(t)', at'[t], l) => Holds(l, machine')
          /\ \A l \in Parts(this.goal[md]) : SettledBy(this, Worker(t)', at'[t], l) => Covered(l)'
    BY <1>1, <1>2, <1>3, <1>6, <2>1 DEF AgreedInv, SeenSo
  <2>3. met' => \A l \in Parts(this.goal[md]) : Covered(l)'
    BY <1>1, <1>3, <1>6, <2>1 DEF AgreedInv
  <2> QED BY <1>1, <1>2, <1>4, <2>2, <2>3 DEF AgreedInv
<1> QED BY <1>1, <1>5, <1>6

LEMMA InitWishInv == Init => WishInv
<1> SUFFICES ASSUME Init PROVE WishInv
  OBVIOUS
<1>1. name \in DOMAIN Program /\ wish = "none" /\ Quiet /\ machine \in this.start /\ ~met
  BY DEF Init, Quiet
<1> QED BY <1>1, ThisIsDescribed DEF WishInv

LEMMA NextWishInv == TypeOK /\ RunInv /\ WishInv /\ [Next]_vars => WishInv'
<1> SUFFICES ASSUME TypeOK, RunInv, WishInv, [Next]_vars PROVE WishInv'
  OBVIOUS
<1>1. name \in DOMAIN Program /\ "none" \notin Mode /\ "mixed" \notin Mode
  BY ThisIsDescribed DEF TypeOK
<1>2. ASSUME wish' = "mixed", UNCHANGED name PROVE WishInv'
  BY <1>1, <1>2 DEF WishInv, Mode, this
<1>3. ASSUME NEW s \in Session, NEW md \in Mode, SayAlready(s, md) PROVE WishInv'
  <2>1. name' = name /\ wish' # "none" /\ Mode' = Mode
    BY <1>1, <1>3 DEF SayAlready, Asked, Mode, this
  <2> QED BY <1>3, <2>1, SayAlreadyAgrees DEF WishInv
<1>4. ASSUME NEW s \in Session, NEW md \in Mode, Start(s, md) PROVE WishInv'
  <2>1. name' = name /\ wish' # "none" /\ Mode' = Mode
    BY <1>1, <1>4 DEF Start, Asked, Mode, this
  <2> QED BY <1>4, <2>1, StartAgrees DEF WishInv
\* Before anybody has asked, nobody runs.
<1>5. ASSUME NEW s \in Session, mode[s] # "none", UNCHANGED <<name, wish>>
      PROVE  /\ wish' # "none" /\ Mode' = Mode
             /\ (wish \in Mode => AgreedInv') => WishInv'
  <2>1. wish # "none" /\ Mode' = Mode
    BY <1>5 DEF WishInv, Quiet, Mode, this
  <2> QED BY <1>5, <2>1 DEF WishInv
<1>6. ASSUME NEW s \in Session, Call(s) PROVE WishInv'
  <2>1. /\ Forward(s) /\ UNCHANGED <<name, wish, met, mode>> /\ mode[s] # "none"
        /\ \A t \in Session \ {s} : at'[t] = at[t] /\ skip'[t] = skip[t]
        /\ at'[s] = at[s] + 1 /\ at[s] + 1 < Len(Worker(s))
        /\ \A j \in skip'[s] : j \in skip[s] \/ j \in RuledOut(s, at[s] + 1)
    BY <1>6 DEF Call, Forward, TypeOK
  <2>2. wish \in Mode => AgreedInv'
    BY <2>1, ForwardAgrees DEF WishInv
  <2> QED BY <1>5, <2>1, <2>2
<1>7. ASSUME NEW s \in Session, Finish(s) PROVE WishInv'
  <2>1. /\ Forward(s) /\ UNCHANGED <<name, wish>> /\ mode[s] # "none"
        /\ \A t \in Session \ {s} : mode'[t] = mode[t] /\ at'[t] = at[t] /\ skip'[t] = skip[t]
        /\ mode'[s] = "none" /\ at[s] + 1 = Len(Worker(s))
    BY <1>7 DEF Finish, Forward, Rest, TypeOK
  <2>2. wish \in Mode => AgreedInv'
    BY <2>1, ForwardAgrees DEF WishInv
  <2> QED BY <1>5, <2>1, <2>2
<1>8. ASSUME NEW s \in Session, Raise(s) PROVE WishInv'
  <2>1. UNCHANGED <<name, wish>> /\ mode[s] # "none"
    BY <1>8 DEF Raise
  <2>2. wish \in Mode => AgreedInv'
    BY <1>8, RaiseAgrees DEF WishInv
  <2> QED BY <1>5, <2>1, <2>2
<1>9. ASSUME NEW s \in Session, GiveUp(s) PROVE WishInv'
  BY <1>2, <1>9 DEF GiveUp
<1>10. CASE Outside \/ Reboot
  BY <1>2, <1>10 DEF Outside, Reboot
<1>11. CASE UNCHANGED vars
  BY <1>11 DEF vars, sessions, history, WishInv, AgreedInv, SeenSo, Covered, Committed, Commit, Worker,
               this, Mode, Quiet, Already
<1> QED BY <1>3, <1>4, <1>6, <1>7, <1>8, <1>9, <1>10, <1>11 DEF Next

\* Sessions that all ask for the same have got it when all have ended.
LEMMA AgreedIsSo ==
  ASSUME TypeOK, WishInv
  PROVE  SameWishAgrees
<1> SUFFICES ASSUME Quiet, met, wish \in Mode PROVE Goal(wish)
  BY DEF SameWishAgrees
<1>1. \A l \in Parts(this.goal[wish]) : Holds(l, machine)
  BY DEF WishInv, AgreedInv, Covered, Committed, Quiet
<1> QED BY <1>1, HoldsByParts DEF Goal

(***************************************************************************)
(* Whoever asks for what the others ask for does not get into their way:   *)
(* for all programs that are steady, and any number of terminals.          *)
(***************************************************************************)
THEOREM WishesAgree == Spec => []SameWishAgrees
<1>1. TypeOK /\ WishInv => SameWishAgrees
  BY AgreedIsSo
<1> QED
  BY <1>1, InitTypeOK, NextTypeOK, InitRunInv, NextRunInv, InitWishInv, NextWishInv, PTL DEF Spec
=============================================================================
