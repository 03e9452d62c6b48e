----------------------------- MODULE MCAuditor -----------------------------
(* Instances of Auditor for TLC: the checks of audit_secureblue.py that share *)
(* the state of containers, ptrace and modules.                              *)
EXTENDS Auditor

CONSTANTS userns, modprobe, ptrace, flatpak

TheCategory == {"flatpak", "skip-if-root"}

TheDeps ==
  [c \in Check |-> CASE c = ptrace  -> {userns}
                     [] c = flatpak -> {modprobe, ptrace}
                     [] OTHER       -> {}]

TheCategories == [c \in Check |-> IF c = flatpak THEN TheCategory ELSE {}]

TheKey == {"container_userns_enabled", "bluetooth_loaded", "ptrace_allowed"}

TheWrites ==
  [c \in Check |-> CASE c = userns   -> {"container_userns_enabled"}
                     [] c = modprobe -> {"bluetooth_loaded"}
                     [] c = ptrace   -> {"ptrace_allowed"}
                     [] OTHER        -> {}]

TheReads ==
  [c \in Check |-> CASE c = ptrace  -> {"container_userns_enabled"}
                     [] c = flatpak -> {"bluetooth_loaded", "ptrace_allowed"}
                     [] OTHER       -> {}]

\* Nothing, one check, a category.
TheSkips == {{}, {ptrace}, {"flatpak"}}

\* Nothing, or that ptrace is allowed.
TheExpectations == {{}, {<<ptrace, "fail">>}}
=============================================================================
