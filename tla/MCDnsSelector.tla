--------------------------- MODULE MCDnsSelector ---------------------------
(* Instances of DnsSelector for TLC. *)
EXTENDS DnsSelector, TLC

\* For runs with overlapping workers: every script except the DoH-only one,
\* once each.
FewRequests ==
  {Reset} \cup {r \in SetResolver : r.resolver = Resolved}
    \cup {r \in SetGlobal : ~r.dnssec /\ ~r.doh}

\* The sessions are interchangeable.
SessionSymmetry == Permutations(Session)
=============================================================================
