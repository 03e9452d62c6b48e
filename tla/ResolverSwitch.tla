--------------------------- MODULE ResolverSwitch ---------------------------
(***************************************************************************)
(* What the DNS selector promises of the system resolver: at most one is   *)
(* in service, one is retired before the other is adopted, and Unbound is  *)
(* the only one that is ever given global servers or DNSSEC validation.    *)
(***************************************************************************)
VARIABLES
  enabled,   \* the resolvers whose service is enabled
  policy     \* global servers or DNSSEC validation are configured

Init == enabled = {"dnsconfd"} /\ policy = FALSE

Retire(r) ==
  /\ r \in enabled
  /\ enabled' = enabled \ {r}
  /\ UNCHANGED policy

Adopt(r) ==
  /\ enabled = {}
  /\ r = "resolved" => ~policy
  /\ enabled' = {r}
  /\ UNCHANGED policy

ChangePolicy ==
  /\ "resolved" \notin enabled
  /\ policy' = ~policy
  /\ UNCHANGED enabled

Next ==
  \/ \E r \in {"dnsconfd", "resolved"} : Retire(r) \/ Adopt(r)
  \/ ChangePolicy

Spec == Init /\ [][Next]_<<enabled, policy>>
=============================================================================
