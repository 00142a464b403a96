-------------------------- MODULE EvolveLockProps --------------------------
(* What data/evolve.lock promises. *)
EXTENDS EvolveLock

(***************************************************************************)
(* One holder. Two processes are between their write_text and their unlink *)
(* only after one of three events: two processes were past acquire_lock's  *)
(* check before the first had written its pid (Contended); a process       *)
(* judged a pid that it had read before another holder replaced the file   *)
(* (Outdated); a holder worked longer than stale_seconds (Overrun).        *)
(* Crashes, recycled pids and refused unlinks never lead there.            *)
(***************************************************************************)
OneHolder ==
  ~raced => \A p, q \in Procs : Holds(p) /\ Holds(q) => p = q

(***************************************************************************)
(* Until one of these three events, a holder that has written its pid      *)
(* keeps its lock file until it removes it: the unconditional unlink of    *)
(* another process, or a takeover, never takes it away.                    *)
(***************************************************************************)
HolderKeepsFile ==
  ~raced => \A p \in Procs :
              Holds(p) /\ pc[p] # "fill" => present /\ owner = p /\ ~aged

(***************************************************************************)
(* Whoever looks at the lock gets on, without any deadline: a lock file    *)
(* left behind by a crash, a refused unlink or under a recycled pid never  *)
(* keeps evolve or a waiting program polling for good.                     *)
(***************************************************************************)
NobodyWedged ==
  \A p \in Procs : pc[p] \in {"check", "ask"} ~> pc[p] \notin {"check", "ask"}

=============================================================================
