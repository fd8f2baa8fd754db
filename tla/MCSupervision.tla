---------------------------- MODULE MCSupervision ----------------------------
(* Supervision on a small instance: a bridge with and without a service manager, in both   *)
(* modes, next to a bridge that can be restarted, and once to one whose environment cannot *)
(* be recovered.                                                                           *)
EXTENDS SupervisionProperties

B(m, k, e, n) == [mode |-> m, keeper |-> k, env |-> e, notice |-> n]
Second == B("attach", "none", "proc", FALSE)
MCInstallations ==
  { <<B("attach", "systemd", "proc", TRUE), B("attach", "none", "none", FALSE)>> }
    \cup { <<x, Second>> :
             x \in {B("attach", "systemd", "proc", TRUE), B("oneshot", "systemd", "proc", TRUE),
                   B("attach", "launchd", "file", TRUE), B("oneshot", "none", "proc", TRUE)} }
=============================================================================
