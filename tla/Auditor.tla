------------------------------ MODULE Auditor ------------------------------
(***************************************************************************)
(* The framework behind `ujust audit-secureblue`: checks are registered    *)
(* while the program is imported, each after those it depends on; the      *)
(* audit runs them in that order, one at a time, leaving out the skipped   *)
(* ones.  Checks hand facts to later ones through a shared dictionary.     *)
(*                                                                         *)
(* A check is a generator of reports that may raise at any point.  What it *)
(* inspects is left open: any reports, in any number up to MaxReports.  A  *)
(* recommendation is represented by the report that carries it.            *)
(***************************************************************************)
EXTENDS Naturals, Sequences, FiniteSets

CONSTANTS
  Check,         \* the checks
  Category,      \* their categories, and names that can be skipped like them
  Deps,          \* the checks each one depends on
  Categories,    \* the categories of each one
  Key,           \* the keys of the shared dictionary
  Reads, Writes, \* the keys that each check reads (not on every machine) and sets
  Root,          \* the category skipped when running as root
  Skips,         \* what the user may ask to skip
  Expectations,  \* what the configuration file may expect: pairs of check, status
  Statuses,      \* the statuses that reports are given
  MaxReports     \* bound: reports of one check

Status == {"pass", "info", "warn", "fail", "unknown"}

ASSUME CheckAssumption ==
  /\ IsFiniteSet(Check) /\ Check \cap Category = {} /\ Root \in Category
  /\ Deps \in [Check -> SUBSET Check]
  /\ Categories \in [Check -> SUBSET Category]
ASSUME KeyAssumption ==
  /\ Reads \in [Check -> SUBSET Key] /\ Writes \in [Check -> SUBSET Key]
  /\ \A c \in Check : Reads[c] \subseteq UNION {Writes[d] : d \in Deps[c]}
ASSUME ConfigAssumption ==
  /\ Skips \subseteq SUBSET (Check \cup Category)
  /\ Expectations \subseteq SUBSET (Check \X Status)
ASSUME ReportAssumption == Statuses \subseteq Status /\ MaxReports \in Nat

VARIABLES
  phase,     \* of the program
  queue,     \* Audit.checks
  skip,      \* Audit.skip
  expected,  \* Audit.expected
  json,      \* run_json instead of run
  next,      \* the place in the queue of the check that runs next, or is running
  stage,     \* of that check: has it begun, and set its keys
  keys,      \* the keys set in Audit.state
  result,    \* how each check has ended
  printed,   \* the reports printed
  checkRecs, \* Check.recs of the running check
  recs,      \* Audit.recs
  shown,     \* the recommendations printed
  exit       \* the exit status; 2 while the program runs

config == <<skip, expected, json>>
output == <<printed, checkRecs, recs, shown>>
vars   == <<phase, queue, config, next, stage, keys, result, output, exit>>

Report == [check : Check, number : 1..MaxReports, status : Status, advice : BOOLEAN]

TypeOK ==
  /\ phase \in {"import", "run", "exit", "aborted"}
  /\ queue \in Seq(Check)
  /\ skip \subseteq Check \cup Category
  /\ expected \subseteq Check \X Status /\ json \in BOOLEAN
  /\ next \in 1..Len(queue) + 1
  /\ stage \in {"waiting", "begun", "set"}
  /\ keys \subseteq Key
  /\ result \in [Check -> {"none", "skipped", "done", "raised", "KeyError"}]
  /\ printed \subseteq Report /\ checkRecs \subseteq Report
  /\ recs \subseteq Report /\ shown \subseteq Report
  /\ exit \in 0..2

Names == {queue[i] : i \in DOMAIN queue}

\* The reports that carry a recommendation.
Advice(reports) == {r \in reports : r.advice}

\* An exception that nothing handles, or sys.exit.
Abort == phase' = "aborted" /\ exit' = 1

-----------------------------------------------------------------------------
(* Registration and configuration *)

\* Wrong: dependencies are not looked up.
SatisfiedAlways(c) == TRUE
Satisfied(c) == Deps[c] \subseteq Names

\* @audit, as the module is imported.  The order is left open: of the orders in
\* which the decorators could stand, add_check refuses the wrong ones.
AddCheck(c) ==
  /\ phase = "import" /\ c \notin Names
  /\ Satisfied(c)
  /\ queue' = Append(queue, c)
  /\ UNCHANGED <<phase, config, next, stage, keys, result, output, exit>>

\* DependencyError, which nothing handles.
RefuseCheck(c) ==
  /\ phase = "import" /\ c \notin Names
  /\ ~Satisfied(c)
  /\ Abort
  /\ UNCHANGED <<queue, config, next, stage, keys, result, output>>

\* main(): the configuration file, the arguments, and the user's id.
Configure ==
  /\ phase = "import" /\ Names = Check
  /\ phase' = "run"
  /\ \E s \in Skips, root \in {{}, {Root}} : skip' = s \cup root
  /\ expected' \in Expectations
  /\ json' \in BOOLEAN
  /\ UNCHANGED <<queue, next, stage, keys, result, output, exit>>

\* A configuration file that cannot be used: AuditError or ValueError.
BadConfig ==
  /\ phase = "import" /\ Names = Check
  /\ Abort
  /\ UNCHANGED <<queue, config, next, stage, keys, result, output>>

-----------------------------------------------------------------------------
(* The run *)

Skipped(c) == c \in skip \/ Categories[c] \cap skip # {}

\* The check whose turn it is.
Turn(c) == phase = "run" /\ next <= Len(queue) /\ c = queue[next]

\* The check is over, and it is the turn of the n-th.
EndCheck(c, how, n) ==
  /\ result' = [result EXCEPT ![c] = how]
  /\ next' = n
  /\ stage' = "waiting"
  /\ checkRecs' = {}

Skip(c) ==
  /\ Turn(c) /\ stage = "waiting" /\ Skipped(c)
  /\ EndCheck(c, "skipped", next + 1)
  /\ UNCHANGED <<phase, queue, config, keys, printed, recs, shown, exit>>

Begin(c) ==
  /\ Turn(c) /\ stage = "waiting" /\ ~Skipped(c)
  /\ stage' = "begun"
  /\ UNCHANGED <<phase, queue, config, next, keys, result, output, exit>>

\* Wrong: a check may forget to leave its facts.
SetsNothing(c) == {}
Sets(c) == Writes[c]

\* The check has looked at the machine, and leaves its facts to later ones.
SetKeys(c) ==
  /\ Turn(c) /\ stage = "begun"
  /\ stage' = "set"
  /\ keys' = keys \cup Sets(c)
  /\ UNCHANGED <<phase, queue, config, next, result, output, exit>>

\* A report is as expected, and left out; run_json is not told what to expect.
Omitted(r) == ~json /\ <<r.check, r.status>> \in expected

\* In JSON a report carries its recommendations.
Yield(c, r) ==
  /\ Turn(c) /\ stage = "set"
  /\ r.check = c /\ r.number = Cardinality({p \in printed : p.check = c}) + 1
  /\ ~Omitted(r)
  /\ printed' = printed \cup {r}
  /\ checkRecs' = checkRecs \cup Advice({r})
  /\ shown' = IF json THEN shown \cup Advice({r}) ELSE shown
  /\ UNCHANGED <<phase, queue, config, next, stage, keys, result, recs, exit>>

\* Wrong: the recommendations of the last check replace the others.
GatheredLast == IF json THEN recs ELSE checkRecs
Gathered == IF json THEN recs ELSE recs \cup checkRecs

Finish(c) ==
  /\ Turn(c) /\ stage = "set"
  /\ EndCheck(c, "done", next + 1)
  /\ recs' = Gathered
  /\ UNCHANGED <<phase, queue, config, keys, printed, shown, exit>>

\* Wrong: a check that raised is run again.
AfterErrorAgain == next
AfterError == next + 1

\* run() reports the error and goes on, without the recommendations of the
\* reports that came before it; run_json lets it end the program.
Error(c, how) ==
  \/ /\ ~json
     /\ EndCheck(c, how, AfterError)
     /\ UNCHANGED <<phase, queue, config, keys, printed, recs, shown, exit>>
  \/ /\ json
     /\ Abort
     /\ UNCHANGED <<queue, config, next, stage, keys, result, output>>

\* A fact that an earlier check should have left is missing.
MissesKey(c) ==
  /\ Turn(c) /\ stage = "begun" /\ ~(Reads[c] \subseteq keys)
  /\ Error(c, "KeyError")

\* A command failed, a file could not be read, an application was uninstalled.
Raise(c) ==
  /\ Turn(c) /\ stage \in {"begun", "set"}
  /\ Error(c, "raised")

Failed == {c \in Check : result[c] \in {"raised", "KeyError"}}

\* Wrong: errors are forgotten.
StatusZero == 0
\* Wrong: their number is the status.
StatusCount == Cardinality(Failed)
ExitStatus == IF Failed # {} THEN 1 ELSE 0

\* After the last check run() prints the recommendations.
End ==
  /\ phase = "run" /\ next > Len(queue)
  /\ phase' = "exit" /\ exit' = ExitStatus
  /\ shown' = IF json THEN shown ELSE recs
  /\ UNCHANGED <<queue, config, next, stage, keys, result, printed, checkRecs, recs>>

\* Ctrl-C: the handler's sys.exit raises SystemExit, which run() does not catch.
Interrupt ==
  /\ phase = "run"
  /\ Abort
  /\ UNCHANGED <<queue, config, next, stage, keys, result, output>>

Init ==
  /\ phase = "import" /\ queue = <<>>
  /\ skip = {} /\ expected = {} /\ json = FALSE
  /\ next = 1 /\ stage = "waiting" /\ keys = {}
  /\ result = [c \in Check |-> "none"]
  /\ printed = {} /\ checkRecs = {} /\ recs = {} /\ shown = {}
  /\ exit = 2

Step(c) ==
  \/ Skip(c) \/ Begin(c) \/ SetKeys(c) \/ MissesKey(c) \/ Raise(c) \/ Finish(c)
  \/ \E n \in 1..MaxReports, s \in Statuses, a \in BOOLEAN :
       Yield(c, [check |-> c, number |-> n, status |-> s, advice |-> a])

Next ==
  \/ \E c \in Check : AddCheck(c) \/ RefuseCheck(c) \/ Step(c)
  \/ Configure \/ BadConfig \/ End \/ Interrupt

Spec == Init /\ [][Next]_vars

\* The event loop runs on, and the programs that a check starts end.
FairSpec == Spec /\ WF_vars(End \/ \E c \in Check : Step(c))

-----------------------------------------------------------------------------
(* Properties *)

\* When a check's turn comes, what it depends on has been dealt with: it has
\* run, or was left out, or failed, but it is not still to come, in whatever
\* order the checks stand in the source.
DependenciesFirst ==
  \A c \in Check : (Turn(c) \/ result[c] # "none") => \A d \in Deps[c] : result[d] # "none"

\* A fact is missing only because of a dependency that was skipped or failed,
\* never because a check that went well forgot to leave it.
KeyErrorExplained ==
  \A c \in Check :
    result[c] = "KeyError" => \E d \in Deps[c] : result[d] \in {"skipped", "raised", "KeyError"}

\* An audit that comes to its end has dealt with every check, shows the
\* recommendations of every report of a check that went well, and no other than
\* those of printed reports; its exit status says whether any check failed.  One
\* in JSON, which a check that raises ends there and then, has not kept back the
\* recommendations of what it printed, and never ends with status 0 short of a
\* check that was not to be skipped.
AuditIsComplete ==
  /\ phase = "exit" =>
       /\ \A c \in Check : result[c] # "none"
       /\ \A r \in Advice(printed) : result[r.check] = "done" => r \in shown
       /\ exit = 1 <=> Failed # {}
  /\ json /\ phase \in {"exit", "aborted"} => Advice(printed) \subseteq shown
  /\ shown \subseteq Advice(printed)
  /\ exit = 0 => \A c \in Check : result[c] \in {"done", "skipped"}

\* What Audit.run says of itself: "Runs each stored check, prints their reports,
\* then prints their recommendations."  Those of a check that raises, when it has
\* reported some of what it looks at, are never added to the audit's.
AdviceIsShown == phase = "exit" => Advice(printed) \subseteq shown

\* Every audit ends, though checks raise and depend on others that did.
Ends == (phase = "run") ~> (phase \in {"exit", "aborted"})
=============================================================================
