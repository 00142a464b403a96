---- MODULE MCEvolveLock ----
(* Small instances of EvolveLock. *)
EXTENDS EvolveLockProps, TLC

CONSTANTS p1, p2, p3, p4

Four == (p1 :> "evolve" @@ p2 :> "health" @@ p3 :> "ingest" @@ p4 :> "outside")
====
