-------------------------------- MODULE Calls --------------------------------
(***************************************************************************)
(* How the scripts are written down.  A machine is the set of facts that   *)
(* are true of it; a script is a sequence of calls; a call does, in one    *)
(* step, each of its clauses whose condition holds.                        *)
(***************************************************************************)

\* Conditions: facts that the machine has, and facts that it lacks.
Both(F, G) == [has |-> F, lacks |-> G]
On(F)      == Both(F, {})
Off(F)     == Both({}, F)
Always     == Both({}, {})

Holds(p, m) == p.has \subseteq m /\ p.lacks \cap m = {}

Clause(p, F, G) == [when |-> p, add |-> F, del |-> G]

(***************************************************************************)
(* A call is made unless what the script looked at told it not to (`seen`).*)
(* It raises an error, and ends the script, unless the machine is as it    *)
(* needs (`need`).  A `look` changes nothing.  If the call fails for a     *)
(* reason of its own, the script may take something back (`undo`).         *)
(***************************************************************************)
Does(C) == [look |-> FALSE, seen |-> Always, need |-> Always, does |-> C, undo |-> {}]

Do(F, G)    == Does({Clause(Always, F, G)})
Put(f)      == Do({f}, {})
Drop(f)     == Do({}, {f})
If(p, F, G) == Does({Clause(p, F, G)})
Look        == [Does({}) EXCEPT !.look = TRUE]
Check(p)    == [Does({}) EXCEPT !.need = p]

Needs(c, p)    == [c EXCEPT !.need = p]
Seen(c, p)     == [c EXCEPT !.seen = p]
OrUndo(c, F)   == [c EXCEPT !.undo = F]

\* The machine after a call's clauses.
Effect(C, m) ==
  LET done == {x \in C : Holds(x.when, m)}
  IN (m \ UNION {x.del : x \in done}) \cup UNION {x.add : x \in done}
=============================================================================
