------------------------------- MODULE Script -------------------------------
(***************************************************************************)
(* The programs behind `ujust set-...`, `enroll-...`, `create-admin` and   *)
(* the LUKS commands have one shape.  An unprivileged half reads the       *)
(* machine, says "already" or asks for a password; then a privileged half  *)
(* makes a fixed sequence of calls.  Nothing is locked, a password prompt  *)
(* lasts as long as the user likes, every call may fail, and a program may *)
(* be killed between two calls.                                            *)
(*                                                                         *)
(* Sessions run one such program on one machine, in any of its modes, over *)
(* and over.  The programs are data: see Toggles, Policies and KeyScripts. *)
(***************************************************************************)
EXTENDS Naturals, Sequences, Calls

CONSTANTS
  Session,  \* terminals
  Program   \* the programs: a function from their names to their descriptions

(***************************************************************************)
(* A description: the facts a program is about; the machines it may first  *)
(* find; for each mode the conditions on which it says "already", its      *)
(* calls and its goal; what else changes these facts; and what a boot does *)
(* (one of several sets of clauses).                                       *)
(***************************************************************************)
Within(C, p) == \A x \in C : x.add \subseteq p.facts

Described(p) ==
  /\ p.start \subseteq SUBSET p.facts
  /\ DOMAIN p.already = DOMAIN p.worker /\ DOMAIN p.goal = DOMAIN p.worker
  /\ \A md \in DOMAIN p.worker :
       /\ Len(p.worker[md]) \in Nat \ {0}
       /\ \A i \in 1..Len(p.worker[md]) : Within(p.worker[md][i].does, p)
  /\ \A c \in p.outside : Within(c.does, p)
  /\ \A C \in p.boot : Within(C, p)

ASSUME ProgramAssumption ==
  \A n \in DOMAIN Program :
    /\ Described(Program[n])
    /\ {"none", "mixed"} \cap DOMAIN Program[n].worker = {}

-----------------------------------------------------------------------------
(* What the text of a program says of every run of it.                      *)

\* Single facts, and the absence of single facts.
Parts(q) == {On({f}) : f \in q.has} \cup {Off({f}) : f \in q.lacks}
Not(l)   == Both(l.lacks, l.has)

Adds(c, f)   == \E x \in c.does : f \in x.add
Takes(c, f)  == \E x \in c.does : f \in x.del
Undoes(c, l) == (\E f \in l.has : Takes(c, f)) \/ \E f \in l.lacks : Adds(c, f)

\* A clause brings l about, if what it asks for holds beside Not(l).
Brings(x, l) == l.has \subseteq x.add /\ l.lacks \subseteq x.del
Beside(x, l) == Both(x.when.has \ l.lacks, x.when.lacks \ l.has)

\* After call c, if it is made, l holds, whatever the machine.
Leaves(c, l) ==
  /\ ~Undoes(c, l)
  /\ \/ \E x \in c.does : Brings(x, l) /\ Beside(x, l) = Always
     \/ \E x, y \in c.does : Brings(x, l) /\ Brings(y, l)
          /\ \E f \in x.when.has : x.when = On({f}) /\ y.when = Off({f})
     \/ l.has \subseteq c.need.has /\ l.lacks \subseteq c.need.lacks

\* Where k implied l, it does so after call c, too; or l is known to hold then.
Respects(c, k, l, known) ==
  /\ Undoes(c, l) => Leaves(c, Not(k))
  /\ Undoes(c, Not(k)) => known \/ Leaves(c, l)

\* The machine, as first found, and all that happens to it beside the calls, let k imply l.
Around(p, k, l) ==
  /\ \A m \in p.start : Holds(k, m) => Holds(l, m)
  /\ \A c \in p.outside : Respects(c, k, l, FALSE)
  /\ \A C \in p.boot : Respects(Does(C), k, l, FALSE)
  /\ \A md \in DOMAIN p.worker : \A i \in 1..Len(p.worker[md]) :
       Respects(Do({}, p.worker[md][i].undo), k, l, FALSE)

\* On each of p's machines, k implies l.
Bound(p, k, l) ==
  /\ Around(p, k, l)
  /\ \A md \in DOMAIN p.worker : \A i \in 1..Len(p.worker[md]) :
       Respects(p.worker[md][i], k, l, FALSE)

\* The j-th call of w leaves l, or is left out because l holds already, and no call undoes it.
Assures(p, w, j, l) ==
  /\ Leaves(w[j], l) /\ \A q \in Parts(w[j].seen) : Bound(p, Not(q), l)
  /\ \A k \in 1..Len(w) : ~Undoes(w[k], l)

\* One of the first i calls has done so.
Assured(p, w, i, l) == \E j \in 1..i : Assures(p, w, j, l)

Firm(p, w, i, q) == \A l \in Parts(q) : Assured(p, w, i, l)

\* After the i-th call, l holds: because of it, or because of it and of those before.
Establishes(p, w, i, l) ==
  /\ w[i].seen = Always
  /\ \/ Leaves(w[i], l)
     \/ ~Undoes(w[i], l) /\ \E x \in w[i].does : Brings(x, l) /\ Firm(p, w, i - 1, Beside(x, l))

\* One of the first i calls has established l, and those after it have left it.
SettledBy(p, w, i, l) ==
  \/ Assured(p, w, i, l)
  \/ \E j \in 1..i : Establishes(p, w, j, l) /\ \A k \in (j + 1)..i : ~Undoes(w[k], l)

\* Each program's calls settle what its modes are to reach.
ASSUME SteadyAssumption ==
  \A n \in DOMAIN Program : \A md \in DOMAIN Program[n].worker :
    \A l \in Parts(Program[n].goal[md]) :
      SettledBy(Program[n], Program[n].worker[md], Len(Program[n].worker[md]), l)

(***************************************************************************)
(* A run is committed with call b: until then it undoes nothing of the     *)
(* goal g, and nobody is told "already" because of it; and from then on    *)
(* each call finds what it needs, if others only make the same calls.      *)
(***************************************************************************)
CommitsAt(p, w, b, g, answers) ==
  /\ \A i \in 1..(b - 1) :
       /\ \A l \in Parts(g) : ~Undoes(w[i], l)
       /\ \A q \in answers : \A l \in Parts(q) : ~Undoes(w[i], Not(l))
  /\ \A i \in (b + 1)..Len(w) : Firm(p, w, i - 1, w[i].need)

\* Every mode has such a call, and no machine makes it lie at first.
ASSUME AgreeingAssumption ==
  \A n \in DOMAIN Program : \A md \in DOMAIN Program[n].worker :
    LET p == Program[n]
        w == p.worker[md]
    IN /\ \E b \in 1..Len(w) : CommitsAt(p, w, b, p.goal[md], p.already[md])
       /\ \A m \in p.start : (\E q \in p.already[md] : Holds(q, m)) => Holds(p.goal[md], m)

\* While no two runs have clashed, k implies l: a call that lets k hold comes when its own run
\* has settled l.
Linked(p, k, l) ==
  /\ Around(p, k, l)
  /\ \A md \in DOMAIN p.worker : \A i \in 1..Len(p.worker[md]) :
       Respects(p.worker[md][i], k, l, SettledBy(p, p.worker[md], i, l))

VARIABLES
  name,     \* of the program; it never changes
  machine,  \* the facts that hold
  mode,     \* of each session's program; "none" when none runs
  at,       \* how many calls it has made
  skip,     \* the calls that it will not make, after what it has seen
  touched,  \* has anybody else changed the machine since it started?  "no";
            \* "stale": before its first call; "mixed": after it
  wish,     \* what everybody has asked for since the machine was last calm: "none",
            \* one mode, or "mixed"
  met,      \* has a session been told "already", or gone through, since then?
  clash     \* has anybody else's change ever come between the calls of a run?

sessions == <<mode, at, skip, touched>>
history  == <<wish, met, clash>>
vars     == <<name, machine, sessions, history>>

this      == Program[name]
Mode      == DOMAIN this.worker
Worker(s) == this.worker[mode[s]]
Goal(md)  == Holds(this.goal[md], machine)
Quiet     == \A s \in Session : mode[s] = "none"

Already(md) == \E p \in this.already[md] : Holds(p, machine)

\* What a change of the machine by somebody else means to the other sessions.
Disturb(others) ==
  touched' = [t \in Session |->
    IF mode'[t] = "none" THEN "no"
    ELSE IF t \notin others \/ machine' = machine THEN touched[t]
    ELSE IF at[t] = 0 THEN "stale" ELSE "mixed"]

Clash == clash' = (clash \/ \E t \in Session : touched'[t] = "mixed")

\* Wrong: a launcher that forgets to reset the count.
RestHalfWay(s) ==
  /\ mode' = [mode EXCEPT ![s] = "none"]
  /\ skip' = [skip EXCEPT ![s] = {}]
  /\ UNCHANGED at

Rest(s) ==
  /\ mode' = [mode EXCEPT ![s] = "none"]
  /\ at' = [at EXCEPT ![s] = 0]
  /\ skip' = [skip EXCEPT ![s] = {}]

-----------------------------------------------------------------------------

\* Nothing runs, the machine is as some mode wants it, and "already" would be true.
Calm == Quiet /\ (\E md \in Mode : Goal(md)) /\ \A md \in Mode : Already(md) => Goal(md)

Asked(md) == wish' = IF Calm \/ wish \in {"none", md} THEN md ELSE "mixed"

\* The program finds that there is nothing to do.
SayAlready(s, md) ==
  /\ mode[s] = "none" /\ Already(md)
  /\ Asked(md) /\ met' = TRUE
  /\ UNCHANGED <<name, machine, sessions, clash>>

\* It asks for a password.
Start(s, md) ==
  /\ mode[s] = "none" /\ ~Already(md)
  /\ mode' = [mode EXCEPT ![s] = md]
  /\ Asked(md) /\ met' = (met /\ ~Calm)
  /\ UNCHANGED <<name, machine, at, skip, touched, clash>>

\* The calls that a look rules out.
RuledOut(s, i) ==
  {j \in (i + 1)..Len(Worker(s)) : ~Holds(Worker(s)[j].seen, machine)}

\* Wrong: a call whose failure nobody looks at.
ForwardUnchecked(s) ==
  LET i == at[s] + 1
      c == Worker(s)[i]
  IN /\ mode[s] # "none"
     /\ machine' \in {machine} \cup (IF i \in skip[s] THEN {} ELSE {Effect(c.does, machine)})

Forward(s) ==
  LET i == at[s] + 1
      c == Worker(s)[i]
  IN /\ mode[s] # "none"
     /\ i \in skip[s] \/ Holds(c.need, machine)
     /\ machine' = IF i \in skip[s] THEN machine ELSE Effect(c.does, machine)

\* One call.
Call(s) ==
  LET i == at[s] + 1
  IN /\ Forward(s)
     /\ i < Len(Worker(s))
     /\ at' = [at EXCEPT ![s] = i]
     /\ skip' = [skip EXCEPT ![s] = IF Worker(s)[i].look THEN RuledOut(s, i) ELSE @]
     /\ UNCHANGED mode /\ Disturb(Session \ {s}) /\ Clash
     /\ UNCHANGED <<name, wish, met>>

\* Wrong: a worker that exits with status 0 whatever has been done.
FinishEarly(s) ==
  /\ Forward(s)
  /\ Rest(s) /\ Disturb(Session \ {s}) /\ Clash
  /\ met' = TRUE
  /\ UNCHANGED <<name, wish>>

\* The last call; the script exits with status 0.
Finish(s) ==
  /\ Forward(s)
  /\ at[s] + 1 = Len(Worker(s))
  /\ Rest(s) /\ Disturb(Session \ {s}) /\ Clash
  /\ met' = TRUE
  /\ UNCHANGED <<name, wish>>

\* Wrong: an error that does not show in the exit status.
RaiseUnnoticed(s) ==
  /\ mode[s] # "none"
  /\ at[s] + 1 \notin skip[s] /\ ~Holds(Worker(s)[at[s] + 1].need, machine)
  /\ UNCHANGED machine
  /\ Rest(s) /\ Disturb(Session \ {s}) /\ Clash
  /\ met' = TRUE
  /\ UNCHANGED <<name, wish>>

\* A call cannot do what it should on this machine: the script exits with an error.
Raise(s) ==
  LET i == at[s] + 1
  IN /\ mode[s] # "none"
     /\ i \notin skip[s] /\ ~Holds(Worker(s)[i].need, machine)
     /\ UNCHANGED machine
     /\ Rest(s) /\ Disturb(Session \ {s}) /\ Clash
     /\ UNCHANGED <<name, wish, met>>

\* The password is refused, a call fails, or the program is killed.
GiveUp(s) ==
  /\ mode[s] # "none"
  /\ \E F \in {{}, Worker(s)[at[s] + 1].undo} : machine' = machine \ F
  /\ Rest(s) /\ Disturb(Session \ {s}) /\ Clash
  /\ wish' = "mixed"
  /\ UNCHANGED <<name, met>>

\* Something else changes the machine.
Outside ==
  \E c \in this.outside :
    /\ Holds(c.need, machine)
    /\ machine' = Effect(c.does, machine)
    /\ UNCHANGED <<mode, at, skip>> /\ Disturb(Session) /\ Clash
    /\ wish' = "mixed"
    /\ UNCHANGED <<name, met>>

\* The machine is rebooted, or loses power.
Reboot ==
  \E C \in this.boot :
    /\ machine' = Effect(C, machine)
    /\ mode' = [s \in Session |-> "none"]
    /\ at' = [s \in Session |-> 0]
    /\ skip' = [s \in Session |-> {}]
    /\ touched' = [s \in Session |-> "no"]
    /\ wish' = "mixed"
    /\ UNCHANGED <<name, met, clash>>

-----------------------------------------------------------------------------

Init ==
  /\ name \in DOMAIN Program
  /\ machine \in this.start
  /\ mode = [s \in Session |-> "none"]
  /\ at = [s \in Session |-> 0]
  /\ skip = [s \in Session |-> {}]
  /\ touched = [s \in Session |-> "no"]
  /\ wish = "none" /\ met = FALSE /\ clash = FALSE

Next ==
  \/ \E s \in Session :
       \/ \E md \in Mode : SayAlready(s, md) \/ Start(s, md)
       \/ Call(s) \/ Finish(s) \/ Raise(s) \/ GiveUp(s)
  \/ Outside
  \/ Reboot

Spec == Init /\ [][Next]_vars

-----------------------------------------------------------------------------

\* Every variable has its type.
TypeOK ==
  /\ name \in DOMAIN Program
  /\ machine \subseteq this.facts
  /\ mode \in [Session -> Mode \cup {"none"}]
  /\ at \in [Session -> Nat] /\ skip \in [Session -> SUBSET Nat]
  /\ \A s \in Session : IF mode[s] = "none" THEN at[s] = 0 /\ skip[s] = {} ELSE at[s] < Len(Worker(s))
  /\ touched \in [Session -> {"no", "stale", "mixed"}]
  /\ wish \in Mode \cup {"none", "mixed"} /\ met \in BOOLEAN /\ clash \in BOOLEAN

(***************************************************************************)
(* A run that ends with status 0, and whose calls no other session's have  *)
(* come between, has left the machine as was asked: whatever earlier runs, *)
(* cut anywhere, had left, however stale what it had read when it made its *)
(* first call, and whatever a look then ruled out.                         *)
(***************************************************************************)
CompletedRunSets ==
  [][\A s \in Session :
       Finish(s) /\ touched[s] # "mixed" => Holds(this.goal[mode[s]], machine')]_vars

(***************************************************************************)
(* Sessions that all ask for the same do not get into each other's way:    *)
(* when none has been stopped and one has gone through, or has been told   *)
(* that it is so already, it is so once all have ended - though the files  *)
(* that one of them is about to remove may be gone.                        *)
(***************************************************************************)
SameWishAgrees == Quiet /\ met /\ wish \in Mode => Goal(wish)
=============================================================================
