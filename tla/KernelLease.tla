---------------------------- MODULE KernelLease -----------------------------
(***************************************************************************)
(* What AcquireMainProbe promises (core/engine/main_probe.go:44), without  *)
(* locks, goroutines or configuration: a kernel that is up is neither      *)
(* withdrawn nor replaced while somebody uses it.  A kernel may crash at   *)
(* any time; only then, or when nobody uses it, is it withdrawn, and the   *)
(* next one is launched when the last user has left.                       *)
(***************************************************************************)
CONSTANTS Users, Procs, NoProc

VARIABLES kernel, up, users

vars == <<kernel, up, users>>

Init == kernel = NoProc /\ up = FALSE /\ users = {}

Launch(p) ==
  /\ kernel = NoProc /\ users = {}
  /\ kernel' = p /\ up' = TRUE
  /\ UNCHANGED users

Crash == up /\ up' = FALSE /\ UNCHANGED <<kernel, users>>

Withdraw ==
  /\ kernel # NoProc
  /\ users = {} \/ ~ up
  /\ kernel' = NoProc /\ up' = FALSE
  /\ UNCHANGED users

Join(u) ==
  /\ kernel # NoProc
  /\ users' = users \union {u}
  /\ UNCHANGED <<kernel, up>>

Leave(u) ==
  /\ u \in users
  /\ users' = users \ {u}
  /\ UNCHANGED <<kernel, up>>

Next ==
  \/ \E p \in Procs : Launch(p)
  \/ Crash \/ Withdraw
  \/ \E u \in Users : Join(u) \/ Leave(u)

Spec == Init /\ [][Next]_vars
=============================================================================
