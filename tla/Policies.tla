------------------------------ MODULE Policies ------------------------------
(***************************************************************************)
(* SELinux modules and booleans, and the creation of an administrator, as  *)
(* descriptions for Script.                                                *)
(***************************************************************************)
EXTENDS Toggles

\* semodule enables and disables the module that forbids user namespaces.
UnconfinedWorker == OnOff(<<Drop("hardened")>>, <<Put("hardened")>>)
UsernsAudit      == [md \in {"off"} |-> {Off({"hardened"})}]

Unconfined ==
  [facts   |-> {"hardened"},
   start   |-> {{"hardened"}},
   already |-> OnOff({Off({"hardened"})}, {On({"hardened"})}),
   worker  |-> UnconfinedWorker,
   goal    |-> OnOff(Off({"hardened"}), On({"hardened"})),
   outside |-> NoOutside, boot |-> NoBoot, audit |-> UsernsAudit]

-----------------------------------------------------------------------------
(* What containers may do: user namespaces (the module is not "hardened"),  *)
(* and ptrace (the booleans deny_ptrace and container_allow_ptrace).        *)
(* The user's containers and podman's pause process, catatonit, are started *)
(* while namespaces are allowed; and so are another user's ("theirs").      *)

Running == {"container", "catatonit"}

\* Both are the user's own.  Another user's catatonit is seen and warned of: "Reboot your
\* machine to reset podman state".  Then the script goes on, and its status is 0 all the same.
StopContainers == <<Drop("container"), Drop("catatonit")>>

\* Both of dangerzone's commands, neither of which minds that it is done already.
DangerzoneWorker == <<Drop("hardened"), Do({"deny", "allow"}, {})>>

PtraceWorker ==
  [ptraceOn        |-> <<Drop("deny")>>,
   ptraceContainer |-> <<Do({"deny", "allow"}, {})>>,
   ptraceOff       |-> <<Do({"deny"}, {"allow"})>>]

UsernsWorker ==
  [usernsOn  |-> <<Drop("hardened")>>,
   usernsOff |-> StopContainers \o <<Put("hardened")>>]

\* Wrong: a warning unless containers have ptrace.
PtraceAuditOfContainers == {Off({"deny"}), Both({"deny"}, {"allow"})}

PtraceAudit == {Off({"deny"}), On({"deny", "allow"})}

Containers ==
  [facts   |-> Running \cup {"theirs", "hardened", "deny", "allow"},
   start   |-> {{"hardened", "deny"}},
   already |-> [usernsOn        |-> {Off({"hardened"})},
                usernsOff       |-> {On({"hardened"})},
                ptraceOn        |-> {Off({"deny"})},
                ptraceContainer |-> {On({"deny", "allow"})},
                ptraceOff       |-> {Both({"deny"}, {"allow"})},
                dangerzone      |-> {}],
   worker  |-> UsernsWorker @@ PtraceWorker @@ [dangerzone |-> DangerzoneWorker],
   goal    |-> [usernsOn        |-> Off({"hardened"}),
                usernsOff       |-> Both({"hardened"}, Running),
                ptraceOn        |-> Off({"deny"}),
                ptraceContainer |-> On({"deny", "allow"}),
                ptraceOff       |-> Both({"deny"}, {"allow"}),
                dangerzone      |-> Both({"deny", "allow"}, {"hardened"})],
   outside |-> {Needs(Do(Running, {}), Off({"hardened"})), Needs(Put("theirs"), Off({"hardened"}))},
   boot    |-> {{Clause(Always, {}, Running \cup {"theirs"})}},
   audit   |-> [usernsOff |-> UsernsAudit["off"], ptraceOff |-> PtraceAudit]]

-----------------------------------------------------------------------------
(* Accounts: `me` is the administrator who installed the machine.           *)

User == {"me", "a", "b"}

Account(u) == {<<"user", u>>, <<"password", u>>, <<"wheel", u>>}

\* Wrong: the old administrator leaves the group before the new one has a password.
AdminWorkerHandsOver(by, new) ==
  <<Check(On({<<"user", by>>, <<"password", by>>})),
    Needs(Do({<<"user", new>>, <<"wheel", new>>}, {}), Off({<<"user", new>>})),
    If(On({<<"wheel", by>>, <<"wheel", new>>}), {}, {<<"wheel", by>>}),
    OrUndo(Put(<<"password", new>>), Account(new))>>

\* Made by `by`, who has to have an account to run it, and wheel's password.
AdminWorker(by, new) ==
  <<Check(On({<<"user", by>>, <<"password", by>>})),
    Needs(Do({<<"user", new>>, <<"wheel", new>>}, {}), Off({<<"user", new>>})),
    OrUndo(Put(<<"password", new>>), Account(new)),
    If(On({<<"wheel", by>>, <<"wheel", new>>}), {}, {<<"wheel", by>>})>>

Asks == [myA |-> <<"me", "a">>, myB |-> <<"me", "b">>, aB |-> <<"a", "b">>]

CreateAdmin ==
  [facts   |-> UNION {Account(u) : u \in User},
   start   |-> {Account("me")},
   already |-> [md \in DOMAIN Asks |-> {On({<<"user", Asks[md][2]>>})}],
   worker  |-> [md \in DOMAIN Asks |-> AdminWorker(Asks[md][1], Asks[md][2])],
   goal    |-> [md \in DOMAIN Asks |-> Both(Account(Asks[md][2]), {<<"wheel", Asks[md][1]>>})],
   outside |-> NoOutside, boot |-> NoBoot, audit |-> NoAudit]
=============================================================================
