--------------------------- MODULE AuditorProofs ---------------------------
(***************************************************************************)
(* Theorems about Auditor, for every set of checks, dependencies, keys,    *)
(* skipped names and expectations, and any number of reports.              *)
(*                                                                         *)
(* The argument: the queue grows only by checks whose dependencies it      *)
(* holds, so every dependency stands before what depends on it; the run    *)
(* goes through the queue from the front, so the checks dealt with are     *)
(* those before next; a check that is done went through "set" and left its *)
(* keys, which nothing removes; and a recommendation is kept with the      *)
(* check that gave it until that check is over.                            *)
(***************************************************************************)
EXTENDS Auditor, TLAPS

Current(c) == next <= Len(queue) /\ c = queue[next]

\* No check stands twice in the queue, and dependencies stand first.
Ordered ==
  /\ \A i, j \in DOMAIN queue : queue[i] = queue[j] => i = j
  /\ \A i \in DOMAIN queue : \A d \in Deps[queue[i]] : \E j \in 1..(i - 1) : queue[j] = d

\* The checks dealt with are those before next.
Dealt ==
  /\ \A i \in DOMAIN queue : result[queue[i]] = "none" <=> i >= next
  /\ \A c \in Check : result[c] # "none" => c \in Names
  /\ phase = "import" => next = 1 /\ stage = "waiting"

\* A check that is done, or reporting, has left its keys.
FactsLeft ==
  \A c \in Check :
    result[c] = "done" \/ (Current(c) /\ stage = "set") => Writes[c] \subseteq keys

\* The whole queue is run, and the exit status tells.
Ended ==
  /\ phase \in {"run", "exit"} => Names = Check
  /\ phase = "exit" => next > Len(queue) /\ exit = ExitStatus
  /\ exit = 0 => phase = "exit"

\* Where the recommendations are.
Kept ==
  /\ phase = "import" => printed = {}
  /\ \A r \in printed : result[r.check] = "none" => Current(r.check)
  /\ checkRecs \cup recs \subseteq Advice(printed)
  /\ \A r \in Advice(printed) : result[r.check] = "none" => r \in checkRecs
  /\ \A r \in Advice(printed) : result[r.check] = "done" => json \/ r \in recs
  /\ json => Advice(printed) \subseteq shown
  /\ shown \subseteq Advice(printed)
  /\ phase = "exit" => json \/ shown = recs

AuditInv == TypeOK /\ Ordered /\ Dealt /\ FactsLeft /\ KeyErrorExplained /\ Ended /\ Kept

\* What a check depends on stands before it and has been dealt with when its
\* turn comes.
LEMMA OrderedDealtFirst ==
  ASSUME TypeOK, Ordered, Dealt
  PROVE  \A c \in Check : (Current(c) \/ result[c] # "none") => \A d \in Deps[c] : result[d] # "none"
<1> SUFFICES ASSUME NEW c \in Check, Current(c) \/ result[c] # "none", NEW d \in Deps[c]
             PROVE  result[d] # "none"
  OBVIOUS
<1>1. PICK i \in DOMAIN queue : c = queue[i] /\ i <= next
  <2>1. CASE Current(c)
    BY <2>1 DEF TypeOK, Current
  <2>2. CASE result[c] # "none"
    <3>1. PICK i \in DOMAIN queue : c = queue[i]
      BY <2>2 DEF Dealt, Names
    <3>2. ~(i >= next)
      BY <2>2, <3>1 DEF Dealt
    <3> QED BY <3>1, <3>2 DEF TypeOK
  <2> QED BY <2>1, <2>2
<1>2. PICK j \in 1..(i - 1) : queue[j] = d
  BY <1>1 DEF Ordered
<1>3. j \in DOMAIN queue /\ ~(j >= next)
  BY <1>1, <1>2 DEF TypeOK
<1> QED BY <1>2, <1>3 DEF Dealt

\* The audit starts as it should be.
LEMMA InitAuditInv == Init => AuditInv
<1> SUFFICES ASSUME Init PROVE AuditInv OBVIOUS
<1>1. TypeOK
  <2>1. queue \in Seq(Check) /\ next \in 1..Len(queue) + 1 BY DEF Init
  <2>2. exit \in 0..2 BY DEF Init
  <2>3. json \in BOOLEAN BY Zenon DEF Init
  <2> QED BY <2>1, <2>2, <2>3 DEF Init, TypeOK
<1>2. Ordered BY DEF Init, Ordered
<1>3. Dealt BY DEF Init, Dealt, Names
<1>4. FactsLeft /\ KeyErrorExplained BY DEF Init, FactsLeft, KeyErrorExplained
<1>5. Ended BY DEF Init, Ended
<1>6. Kept BY DEF Init, Kept, Advice
<1> QED BY <1>1, <1>2, <1>3, <1>4, <1>5, <1>6 DEF AuditInv

\* Nothing that ends the program disturbs anything.
LEMMA AbortKeeps ==
  ASSUME AuditInv, Abort, UNCHANGED <<queue, config, next, stage, keys, result, output>>
  PROVE  AuditInv'
<1> USE DEF config, output, Abort, AuditInv
<1>1. TypeOK' BY DEF TypeOK, Report
<1>2. Ordered' /\ Dealt' BY DEF Ordered, Dealt, Names
<1>3. FactsLeft' /\ KeyErrorExplained' BY DEF FactsLeft, KeyErrorExplained, Current
<1>4. Ended' BY DEF Ended
<1>5. Kept' BY DEF Kept, Advice, Current
<1> QED BY <1>1, <1>2, <1>3, <1>4, <1>5

\* Registration keeps the order.
LEMMA AddCheckKeeps ==
  ASSUME AuditInv, NEW c \in Check, AddCheck(c)
  PROVE  AuditInv'
<1> USE DEF config, output, AuditInv
<1>1. /\ queue \in Seq(Check) /\ queue' \in Seq(Check)
      /\ Len(queue') = Len(queue) + 1
      /\ queue'[Len(queue) + 1] = c
      /\ \A i \in 1..Len(queue) : queue'[i] = queue[i]
      /\ \A i \in 1..Len(queue) : queue[i] # c
      /\ UNCHANGED <<phase, config, next, stage, keys, result, output, exit>>
      /\ phase = "import" /\ next = 1 /\ stage = "waiting"
  BY DEF AddCheck, TypeOK, Names, Dealt
<1>2. TypeOK' BY <1>1 DEF TypeOK, Report
<1>3. Ordered'
  <2>1. \A i, j \in DOMAIN queue' : queue'[i] = queue'[j] => i = j
    BY <1>1 DEF Ordered
  <2>2. ASSUME NEW i \in DOMAIN queue', NEW d \in Deps[queue'[i]]
        PROVE  \E j \in 1..(i - 1) : queue'[j] = d
    <3>1. CASE i = Len(queue) + 1
      <4>1. PICK j \in DOMAIN queue : queue[j] = d
        BY <1>1, <3>1, <2>2 DEF AddCheck, Satisfied, Names
      <4> QED BY <1>1, <3>1, <4>1
    <3>2. CASE i \in 1..Len(queue)
      <4>1. PICK j \in 1..(i - 1) : queue[j] = d
        BY <1>1, <3>2, <2>2 DEF Ordered
      <4> QED BY <1>1, <3>2, <4>1
    <3> QED BY <1>1, <3>1, <3>2
  <2> QED BY <2>1, <2>2 DEF Ordered
<1>4. Dealt'
  <2>1. \A i \in DOMAIN queue : result[queue[i]] = "none"
    BY <1>1 DEF Dealt
  <2>2. result[c] = "none"
    BY <1>1 DEF Dealt, Names
  <2>3. \A i \in DOMAIN queue' : result'[queue'[i]] = "none" /\ i >= next'
    BY <1>1, <2>1, <2>2
  <2>4. \A d \in Check : result'[d] # "none" => d \in Names'
    BY <1>1, <2>1 DEF Dealt, Names
  <2> QED BY <1>1, <2>3, <2>4 DEF Dealt
<1>5. FactsLeft' /\ KeyErrorExplained'
  BY <1>1 DEF FactsLeft, KeyErrorExplained, Current
<1>6. Ended' BY <1>1 DEF Ended
<1>7. Kept' BY <1>1 DEF Kept, Advice, Current
<1> QED BY <1>2, <1>3, <1>4, <1>5, <1>6, <1>7

\* The run starts with every check in the queue and nothing printed.
LEMMA ConfigureKeeps ==
  ASSUME AuditInv, Configure
  PROVE  AuditInv'
<1> USE DEF config, output, AuditInv, Configure
<1>1. TypeOK' BY ConfigAssumption, CheckAssumption DEF TypeOK, Report
<1>2. Ordered' BY DEF Ordered
<1>3. Dealt' BY DEF Dealt, Names
<1>4. FactsLeft' /\ KeyErrorExplained' BY DEF FactsLeft, KeyErrorExplained, Current
<1>5. Ended' BY DEF Ended, Names
<1>6. Kept' BY DEF Kept, Advice, Current
<1> QED BY <1>1, <1>2, <1>3, <1>4, <1>5, <1>6

\* The end of a check's turn.  What the ways to end it differ in are hypotheses:
\* the keys of a check that is done are there, one that misses a key has a
\* dependency that explains it, and the recommendations of one that is done are
\* gathered.
LEMMA EndCheckKeeps ==
  ASSUME AuditInv, NEW c \in Check, Turn(c),
         NEW how \in {"skipped", "done", "raised", "KeyError"},
         EndCheck(c, how, next + 1),
         UNCHANGED <<phase, queue, config, keys, printed, shown, exit>>,
         how = "done" => Writes[c] \subseteq keys,
         how = "KeyError" => ~(Reads[c] \subseteq keys),
         recs' = recs \/ recs' = recs \cup checkRecs,
         how = "done" => json \/ recs' = recs \cup checkRecs
  PROVE  AuditInv'
<1> USE DEF config, output, AuditInv
<1>1. /\ result \in [Check -> {"none", "skipped", "done", "raised", "KeyError"}]
      /\ result' = [result EXCEPT ![c] = how]
      /\ next' = next + 1 /\ stage' = "waiting" /\ checkRecs' = {}
      /\ queue \in Seq(Check) /\ next \in 1..Len(queue) /\ c = queue[next] /\ phase = "run"
  BY DEF EndCheck, Turn, TypeOK
<1>2. result[c] = "none"
  BY <1>1 DEF Dealt
<1>3. /\ \A d \in Check : d # c => result'[d] = result[d]
      /\ result'[c] = how /\ how # "none"
  BY <1>1
<1>4. TypeOK'
  <2>1. result' \in [Check -> {"none", "skipped", "done", "raised", "KeyError"}]
    BY <1>1
  <2>2. next' \in 1..Len(queue') + 1 /\ queue' \in Seq(Check)
    BY <1>1
  <2>3. recs' \subseteq Report' /\ checkRecs' \subseteq Report' /\ printed' \subseteq Report'
    BY <1>1 DEF TypeOK, Report
  <2>4. shown' \subseteq Report'
    BY DEF TypeOK, Report
  <2> QED BY <1>1, <2>1, <2>2, <2>3, <2>4 DEF TypeOK
<1>5. Ordered' BY DEF Ordered
<1>6. Dealt'
  <2>1. ASSUME NEW i \in DOMAIN queue
        PROVE  result'[queue[i]] = "none" <=> i >= next + 1
    <3>1. CASE i = next BY <1>1, <1>3, <3>1
    <3>2. CASE i # next
      <4>1. queue[i] # c /\ queue[i] \in Check
        BY <1>1, <3>2 DEF Ordered
      <4>2. result[queue[i]] = "none" <=> i >= next
        BY DEF Dealt
      <4> QED BY <1>1, <1>3, <3>2, <4>1, <4>2
    <3> QED BY <3>1, <3>2
  <2>2. \A d \in Check : result'[d] # "none" => d \in Names
    BY <1>1, <1>3 DEF Dealt, Names
  <2> QED BY <1>1, <2>1, <2>2 DEF Dealt, Names
<1>7. FactsLeft'
  BY <1>1, <1>3 DEF FactsLeft, Current
<1>8. KeyErrorExplained'
  <2> SUFFICES ASSUME NEW e \in Check, result'[e] = "KeyError"
               PROVE  \E d \in Deps[e] : result'[d] \in {"skipped", "raised", "KeyError"}
    BY DEF KeyErrorExplained
  <2>1. CASE e # c
    <3>1. PICK d \in Deps[e] : result[d] \in {"skipped", "raised", "KeyError"}
      BY <1>3, <2>1 DEF KeyErrorExplained
    <3>2. d \in Check /\ d # c
      BY <1>2, <3>1, CheckAssumption
    <3> QED BY <1>3, <3>1, <3>2
  <2>2. CASE e = c
    <3>1. PICK d \in Deps[c] : ~(Writes[d] \subseteq keys)
      BY <1>3, <2>2, KeyAssumption
    <3>2. d \in Check /\ result[d] # "none"
      <4>1. Current(c)
        BY <1>1 DEF Current
      <4>2. d \in Check
        BY <3>1, CheckAssumption
      <4>3. \A f \in Deps[c] : result[f] # "none"
        BY <4>1, OrderedDealtFirst
      <4> QED BY <3>1, <4>2, <4>3
    <3>3. result[d] # "done"
      BY <3>1, <3>2 DEF FactsLeft
    <3>4. result[d] \in {"skipped", "raised", "KeyError"} /\ d # c
      BY <1>1, <1>2, <3>2, <3>3
    <3> QED BY <1>3, <2>2, <3>2, <3>4
  <2> QED BY <2>1, <2>2
<1>9. Ended' BY <1>1 DEF Ended, Names
<1>10. Kept'
  <2>1. \A r \in printed : r.check \in Check
    BY DEF TypeOK, Report
  <2>2. \A r \in printed : result'[r.check] # "none"
    BY <1>1, <1>3, <2>1 DEF Kept, Current
  <2>3. /\ recs' \subseteq Advice(printed)
        /\ recs \subseteq recs'
    BY DEF Kept
  <2>4. \A r \in Advice(printed) : result'[r.check] = "done" => json \/ r \in recs'
    BY <1>2, <1>3, <2>1, <2>3 DEF Kept, Advice
  <2> QED BY <1>1, <2>2, <2>3, <2>4 DEF Kept, Advice
<1> QED BY <1>4, <1>5, <1>6, <1>7, <1>8, <1>9, <1>10

\* A check begins, and leaves its keys.
LEMMA BeginKeeps ==
  ASSUME AuditInv, NEW c \in Check, Begin(c) \/ SetKeys(c)
  PROVE  AuditInv'
<1> USE DEF config, output, AuditInv
<1>1. /\ UNCHANGED <<phase, queue, config, next, result, output, exit>>
      /\ stage' \in {"begun", "set"} /\ phase = "run" /\ c = queue[next]
      /\ keys \subseteq keys' /\ keys' \subseteq Key
      /\ stage' = "set" => Writes[c] \subseteq keys'
  BY KeyAssumption DEF Begin, SetKeys, Turn, Sets, TypeOK
<1>2. TypeOK' BY <1>1 DEF TypeOK, Report
<1>3. Ordered' /\ Dealt' BY <1>1 DEF Ordered, Dealt, Names
<1>4. FactsLeft' BY <1>1 DEF FactsLeft, Current
<1>5. KeyErrorExplained' BY <1>1 DEF KeyErrorExplained
<1>6. Ended' BY <1>1 DEF Ended, Names
<1>7. Kept' BY <1>1 DEF Kept, Advice, Current
<1> QED BY <1>2, <1>3, <1>4, <1>5, <1>6, <1>7

\* A report is printed, and its recommendation kept with the check.
LEMMA YieldKeeps ==
  ASSUME AuditInv, NEW c \in Check, NEW r \in Report, Yield(c, r)
  PROVE  AuditInv'
<1> USE DEF config, output, AuditInv
<1>1. /\ UNCHANGED <<phase, queue, config, next, stage, keys, result, recs, exit>>
      /\ phase = "run" /\ Current(c) /\ r.check = c
      /\ printed' = printed \cup {r}
      /\ checkRecs' = checkRecs \cup Advice({r})
      /\ shown' = IF json THEN shown \cup Advice({r}) ELSE shown
  BY DEF Yield, Turn, Current
<1>2. Advice(printed') = Advice(printed) \cup Advice({r}) /\ Advice({r}) \subseteq {r}
  BY <1>1 DEF Advice
<1>3. TypeOK'
  <2>1. /\ printed' \subseteq Report' /\ checkRecs' \subseteq Report'
        /\ shown' \subseteq Report' /\ recs' \subseteq Report'
    <3>1. Report' = Report BY DEF Report
    <3> QED BY <1>1, <1>2, <3>1 DEF TypeOK
  <2>2. TypeOK /\ UNCHANGED <<phase, queue, skip, expected, json, next, stage, keys, result, exit>>
    BY <1>1
  <2> HIDE DEF config, output, AuditInv
  <2> QED BY <2>1, <2>2 DEF TypeOK
<1>4. Ordered' /\ Dealt' BY <1>1 DEF Ordered, Dealt, Names
<1>5. FactsLeft' /\ KeyErrorExplained' BY <1>1 DEF FactsLeft, KeyErrorExplained, Current
<1>6. Ended' BY <1>1 DEF Ended, Names
<1>7. Kept'
  <2>1. result[c] = "none"
    BY <1>1 DEF Dealt, Current, TypeOK
  <2>2. \A p \in printed' : result'[p.check] = "none" => Current(p.check)'
    BY <1>1 DEF Kept, Current
  <2>3. checkRecs' \cup recs' \subseteq Advice(printed') /\ shown' \subseteq Advice(printed')
    BY <1>1, <1>2 DEF Kept
  <2>4. \A p \in Advice(printed') : result'[p.check] = "none" => p \in checkRecs'
    BY <1>1, <1>2 DEF Kept
  <2>5. \A p \in Advice(printed') : result'[p.check] = "done" => json' \/ p \in recs'
    BY <1>1, <1>2, <2>1 DEF Kept
  <2>6. json' => Advice(printed') \subseteq shown'
    BY <1>1, <1>2 DEF Kept
  <2> QED BY <1>1, <2>2, <2>3, <2>4, <2>5, <2>6 DEF Kept
<1> QED BY <1>3, <1>4, <1>5, <1>6, <1>7

\* A check that raises ends its turn, or the program.
LEMMA ErrorKeeps ==
  ASSUME AuditInv, NEW c \in Check, MissesKey(c) \/ Raise(c)
  PROVE  AuditInv'
<1>1. CASE MissesKey(c)
  <2>1. CASE ~json /\ EndCheck(c, "KeyError", next + 1)
             /\ UNCHANGED <<phase, queue, config, keys, printed, recs, shown, exit>>
    BY <1>1, <2>1, EndCheckKeeps DEF MissesKey
  <2> QED BY <1>1, <2>1, AbortKeeps DEF MissesKey, Error, AfterError
<1>2. CASE Raise(c)
  <2>1. CASE ~json /\ EndCheck(c, "raised", next + 1)
             /\ UNCHANGED <<phase, queue, config, keys, printed, recs, shown, exit>>
    BY <1>2, <2>1, EndCheckKeeps DEF Raise
  <2> QED BY <1>2, <2>1, AbortKeeps DEF Raise, Error, AfterError
<1> QED BY <1>1, <1>2

\* The recommendations are printed.
LEMMA EndKeeps ==
  ASSUME AuditInv, End
  PROVE  AuditInv'
<1> USE DEF config, output, AuditInv, End
<1>1. TypeOK' BY DEF TypeOK, Report, ExitStatus
<1>2. Ordered' /\ Dealt' BY DEF Ordered, Dealt, Names
<1>3. FactsLeft' /\ KeyErrorExplained' BY DEF FactsLeft, KeyErrorExplained, Current
<1>4. Ended' BY DEF Ended, Names, ExitStatus, Failed
<1>5. Kept' BY DEF Kept, Advice, Current
<1> QED BY <1>1, <1>2, <1>3, <1>4, <1>5

\* Every step keeps the invariant.
LEMMA NextKeeps == AuditInv /\ [Next]_vars => AuditInv'
<1> SUFFICES ASSUME AuditInv, [Next]_vars PROVE AuditInv' OBVIOUS
<1>1. ASSUME NEW c \in Check, AddCheck(c) PROVE AuditInv'
  BY <1>1, AddCheckKeeps
<1>2. ASSUME NEW c \in Check, RefuseCheck(c) PROVE AuditInv'
  BY <1>2, AbortKeeps DEF RefuseCheck
<1>3. CASE Configure BY <1>3, ConfigureKeeps
<1>4. CASE BadConfig BY <1>4, AbortKeeps DEF BadConfig
<1>5. CASE Interrupt BY <1>5, AbortKeeps DEF Interrupt
<1>6. CASE End BY <1>6, EndKeeps
<1>7. ASSUME NEW c \in Check, Step(c) PROVE AuditInv'
  <2>1. CASE Skip(c)
    <3>1. UNCHANGED <<phase, queue, config, keys, printed, shown, exit>> /\ recs' = recs
      BY <2>1 DEF Skip
    <3> QED BY <2>1, <3>1, EndCheckKeeps DEF Skip
  <2>2. CASE Finish(c)
    <3>1. Writes[c] \subseteq keys
      BY <2>2 DEF AuditInv, FactsLeft, Finish, Turn, Current
    <3>2. (recs' = recs \/ recs' = recs \cup checkRecs) /\ (json \/ recs' = recs \cup checkRecs)
      BY <2>2 DEF Finish, Gathered
    <3> QED BY <2>2, <3>1, <3>2, EndCheckKeeps DEF Finish
  <2>3. CASE Begin(c) \/ SetKeys(c) BY <2>3, BeginKeeps
  <2>4. CASE MissesKey(c) \/ Raise(c) BY <2>4, ErrorKeeps
  <2>5. ASSUME NEW n \in 1..MaxReports, NEW s \in Statuses, NEW a \in BOOLEAN,
               Yield(c, [check |-> c, number |-> n, status |-> s, advice |-> a])
        PROVE  AuditInv'
    <3>1. [check |-> c, number |-> n, status |-> s, advice |-> a] \in Report
      BY ReportAssumption DEF Report
    <3> QED BY <2>5, <3>1, YieldKeeps
  <2> QED BY <1>7, <2>1, <2>2, <2>3, <2>4, <2>5 DEF Step
<1>8. CASE UNCHANGED vars
  <2> USE <1>8 DEF vars, config, output, AuditInv
  <2>1. TypeOK' BY DEF TypeOK, Report
  <2>2. Ordered' /\ Dealt' BY DEF Ordered, Dealt, Names
  <2>3. FactsLeft' /\ KeyErrorExplained' BY DEF FactsLeft, KeyErrorExplained, Current
  <2>4. Ended' BY DEF Ended, Names, ExitStatus, Failed
  <2>5. Kept' BY DEF Kept, Advice, Current
  <2> QED BY <2>1, <2>2, <2>3, <2>4, <2>5
<1> QED BY <1>1, <1>2, <1>3, <1>4, <1>5, <1>6, <1>7, <1>8 DEF Next

\* The invariant holds in every behaviour of the audit.
LEMMA AuditCorrect == Spec => []AuditInv
  BY InitAuditInv, NextKeeps, PTL DEF Spec

-----------------------------------------------------------------------------
\* Every variable of auditor/__init__.py's run keeps its type.
THEOREM TypeCorrect == Spec => []TypeOK
  BY AuditCorrect, PTL DEF AuditInv

\* In whatever order the decorated checks stand in the source: either add_check
\* refuses it, or every dependency has been dealt with when a check's turn comes.
THEOREM DependenciesComeFirst == Spec => []DependenciesFirst
<1>1. AuditInv => DependenciesFirst
  BY OrderedDealtFirst DEF AuditInv, DependenciesFirst, Turn, Current
<1> QED BY <1>1, AuditCorrect, PTL

\* A check only misses a key of the shared state when a check that it depends on
\* was skipped or failed.
THEOREM KeyErrorsExplained == Spec => []KeyErrorExplained
  BY AuditCorrect, PTL DEF AuditInv

\* An audit that ends has dealt with every check, has shown the recommendations
\* of the checks that went well, and its exit status tells of the others; one in
\* JSON has shown all of what it printed, and status 0 is that of a whole audit.
THEOREM AuditsComplete == Spec => []AuditIsComplete
<1>1. ASSUME AuditInv, phase = "exit" PROVE \A c \in Check : result[c] # "none"
  <2> SUFFICES ASSUME NEW c \in Check PROVE result[c] # "none" OBVIOUS
  <2>1. PICK i \in DOMAIN queue : c = queue[i]
    BY <1>1 DEF AuditInv, Ended, Names
  <2>2. ~(i >= next)
    BY <1>1 DEF AuditInv, Ended, TypeOK
  <2> QED BY <1>1, <2>1, <2>2 DEF AuditInv, Dealt
<1>2. ASSUME AuditInv, exit = 0 PROVE \A c \in Check : result[c] \in {"done", "skipped"}
  <2>1. phase = "exit" /\ Failed = {}
    BY <1>2 DEF AuditInv, Ended, ExitStatus
  <2> QED BY <1>1, <1>2, <2>1 DEF Failed, AuditInv, TypeOK
<1>3. AuditInv => AuditIsComplete
  BY <1>1, <1>2 DEF AuditInv, AuditIsComplete, Ended, Kept, ExitStatus, Advice
<1> QED BY <1>3, AuditCorrect, PTL
=============================================================================
