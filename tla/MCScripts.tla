------------------------------ MODULE MCScripts ------------------------------
(***************************************************************************)
(* Model checking of HostScripts: every program in turn, on one machine    *)
(* with two terminals.                                                     *)
(***************************************************************************)
EXTENDS HostScripts

CONSTANTS t1, t2

MCSession == {t1, t2}
Terminals == Permutations(MCSession)

\* The LUKS commands alone.
MCLuks == [diskUnlock |-> DiskUnlock]
=============================================================================
