----------------------------- MODULE EvolveLock -----------------------------
(***************************************************************************)
(* The lock file data/evolve.lock (predictor/ops/lock.py) and the programs *)
(* that take it: daily.py, evolve.py, health_check.py, autopick_ingest.py. *)
(* Programs outside the protocol (resolve.py, pm_resolve.py, the CLI) only *)
(* meet the others at the DuckDB file, which one process at a time can     *)
(* have open for writing.                                                  *)
(*                                                                         *)
(* A process is one run of a program, and its name stands for its pid.     *)
(* The file holds `pid|ts`: `owner` is the pid, `aged` says that ts is     *)
(* stale_seconds (6 hours) old, and an owner of Nobody is a file that does *)
(* not parse, such as one that write_text has truncated and not yet        *)
(* filled.                                                                 *)
(***************************************************************************)
EXTENDS Naturals

CONSTANTS
  Procs,        \* the runs of the programs
  Program,      \* the program that each run executes
  Nobody,       \* not a process
  Windows       \* TRUE if a file that another process has open cannot be removed

Programs == {"daily", "evolve", "health", "ingest", "outside"}

ASSUME NobodyAssumption == Nobody \notin Procs
ASSUME ProgramAssumption == Program \in [Procs -> Programs]
ASSUME WindowsAssumption == Windows \in BOOLEAN

VARIABLES
  pc,         \* where each process is
  present,    \* the lock file exists
  owner,      \* the pid in the lock file
  aged,       \* the timestamp in the lock file is stale
  fds,        \* processes in the middle of write_text on the present file
  seen,       \* the pid that each process in the middle of lock_state has read
  waiting,    \* processes in the loop of wait_acquire
  conn,       \* processes with the DuckDB file open
  recycled,   \* processes that are gone and whose pid another program now has
  raced       \* history: see Contended, Outdated and Overrun below

vars == <<pc, present, owner, aged, fds, seen, waiting, conn, recycled, raced>>

(***************************************************************************)
(* pc: check -> (ask) -> write -> fill -> open -> body -> close ->         *)
(* unlink -> exit -> done, or crashed. lock_state reads the file in check  *)
(* and judges the pid that it has read in ask.                             *)
(***************************************************************************)
Gone == {"done", "crashed"}
Holding == {"fill", "open", "body", "close", "unlink"}
Labels == {"check", "ask", "write", "exit"} \cup Holding \cup Gone

Waits == {"health", "ingest"}                  \* they call wait_acquire
ClosesInBody == {"daily", "health", "ingest"}  \* the database is closed inside the lock

\* Between its write_text and its unlink.
Holds(p) == Program[p] # "outside" /\ pc[p] \in Holding

Goto(p, label) == pc' = [pc EXCEPT ![p] = label]
pid_alive(p) == pc[p] \notin Gone \/ p \in recycled

Variant_FreeVerdict_ageless(p) ==
  \/ pc[p] = "check" /\ (~present \/ owner = Nobody)
  \/ pc[p] = "ask" /\ ~pid_alive(seen[p])

(***************************************************************************)
(* lock_state answers "none" or "stale". At the file: it is missing (to    *)
(* exists, or to read_text a moment later), does not parse, or is old. At  *)
(* the pid that was read: it is dead; or the timestamp read with it has    *)
(* turned old before line 59, which holds of the file that is still there  *)
(* if that is old by now, and may hold of a content replaced meanwhile.    *)
(***************************************************************************)
FreeVerdict(p) ==
  \/ pc[p] = "check" /\ (~present \/ owner = Nobody \/ aged)
  \/ pc[p] = "ask" /\ (~pid_alive(seen[p]) \/ aged \/ owner # seen[p])

\* lock_state answers "active".
ActiveVerdict(p) == pc[p] = "ask" /\ pid_alive(seen[p])

(* The three ways in which two processes come to hold the lock. *)

\* A process passes its check while another has passed it and not yet written
\* its pid.
Contended(p) == \E q \in Procs \ {p} : pc[q] \in {"write", "fill"}
\* A process judges a content of the file that another holder has replaced.
Outdated(p) ==
  pc[p] = "ask" /\ owner \in Procs \ {seen[p]} /\ Holds(owner)
\* A process still at work has held the lock for stale_seconds.
Overrun == owner \in Procs /\ Holds(owner)

TypeOK ==
  /\ pc \in [Procs -> Labels]
  /\ present \in BOOLEAN /\ aged \in BOOLEAN /\ raced \in BOOLEAN
  /\ owner \in Procs \cup {Nobody}
  /\ seen \in [Procs -> Procs \cup {Nobody}]
  /\ fds \subseteq Procs /\ waiting \subseteq Procs /\ recycled \subseteq Procs
  /\ conn \subseteq Procs /\ \A p, q \in conn : p = q

Init ==
  /\ pc = [p \in Procs |-> "check"]
  /\ present = FALSE /\ owner = Nobody /\ aged = FALSE
  /\ seen = [p \in Procs |-> Nobody]
  /\ waiting = {p \in Procs : Program[p] \in Waits}
  /\ fds = {} /\ conn = {} /\ recycled = {} /\ raced = FALSE

file == <<present, owner, aged, fds>>
look == <<seen, waiting>>

-----------------------------------------------------------------------------
(* Taking the lock *)

\* lock_state reads pid|ts of a file that is not old.
Read(p) ==
  /\ pc[p] = "check" /\ Program[p] # "outside"
  /\ ~FreeVerdict(p)
  /\ seen' = [seen EXCEPT ![p] = owner]
  /\ Goto(p, "ask")
  /\ UNCHANGED <<file, waiting, conn, recycled, raced>>

\* wait_acquire: the loop ends, and acquire_lock looks at the file again.
StopWaiting(p) ==
  /\ p \in waiting /\ FreeVerdict(p)
  /\ waiting' = waiting \ {p}
  /\ seen' = [seen EXCEPT ![p] = Nobody]
  /\ Goto(p, "check")
  /\ UNCHANGED <<file, conn, recycled, raced>>

Variant_PassCheck_blind(p) ==
  /\ Program[p] # "outside" /\ p \notin waiting
  /\ pc[p] \in {"check", "ask"}
  /\ raced' = (raced \/ Contended(p) \/ Outdated(p))
  /\ seen' = [seen EXCEPT ![p] = Nobody]
  /\ Goto(p, "write")
  /\ UNCHANGED <<file, waiting, conn, recycled>>

\* acquire_lock finds the lock free.
PassCheck(p) ==
  /\ Program[p] # "outside" /\ p \notin waiting
  /\ FreeVerdict(p)
  /\ raced' = (raced \/ Contended(p) \/ Outdated(p))
  /\ seen' = [seen EXCEPT ![p] = Nobody]
  /\ Goto(p, "write")
  /\ UNCHANGED <<file, waiting, conn, recycled>>

\* The programs that look again when the lock is active.
Polls(p) == p \in waiting \/ Program[p] = "evolve"

\* They sleep for twenty seconds.
Poll(p) ==
  /\ Polls(p) /\ ActiveVerdict(p)
  /\ seen' = [seen EXCEPT ![p] = Nobody]
  /\ Goto(p, "check")
  /\ UNCHANGED <<file, waiting, conn, recycled, raced>>

Variant_Refused_unlinks(p) ==
  /\ ~Polls(p) /\ ActiveVerdict(p)
  /\ seen' = [seen EXCEPT ![p] = Nobody]
  /\ Goto(p, "unlink")
  /\ UNCHANGED <<file, waiting, conn, recycled, raced>>

\* acquire_lock raises SystemExit: the end of daily, and of a program that has
\* left the loop of wait_acquire.
Refused(p) ==
  /\ ~Polls(p) /\ ActiveVerdict(p)
  /\ seen' = [seen EXCEPT ![p] = Nobody]
  /\ Goto(p, "done")
  /\ UNCHANGED <<file, waiting, conn, recycled, raced>>

\* The deadline of evolve or of wait_acquire is over.
GiveUp(p) ==
  /\ Polls(p) /\ ActiveVerdict(p)
  /\ seen' = [seen EXCEPT ![p] = Nobody]
  /\ Goto(p, "done")
  /\ UNCHANGED <<file, waiting, conn, recycled, raced>>

\* write_text opens the file, which truncates it ...
Truncate(p) ==
  /\ pc[p] = "write"
  /\ present' = TRUE /\ owner' = Nobody /\ aged' = FALSE
  /\ fds' = fds \cup {p}
  /\ Goto(p, "fill")
  /\ UNCHANGED <<look, conn, recycled, raced>>

\* ... and writes pid|ts, into a file that may have been removed meanwhile.
Fill(p) ==
  /\ pc[p] = "fill"
  /\ owner' = IF p \in fds THEN p ELSE owner
  /\ aged' = IF p \in fds THEN FALSE ELSE aged
  /\ fds' = fds \ {p}
  /\ Goto(p, "open")
  /\ UNCHANGED <<present, look, conn, recycled, raced>>

-----------------------------------------------------------------------------
(* The round: DuckDB, body, release *)

\* duckdb.connect succeeds: no other process has the file open.
OpenDB(p) ==
  /\ \/ pc[p] = "open"
     \/ pc[p] = "check" /\ Program[p] = "outside"
  /\ conn = {}
  /\ conn' = {p}
  /\ Goto(p, "body")
  /\ UNCHANGED <<file, look, recycled, raced>>

\* duckdb.connect raises IOException (health_check has tried six times by then).
OpenRefused(p) ==
  /\ conn # {}
  /\ \/ pc[p] = "open" /\ Goto(p, "unlink")
     \/ pc[p] = "check" /\ Program[p] = "outside" /\ Goto(p, "done")
  /\ UNCHANGED <<file, look, conn, recycled, raced>>

\* The body ends. evolve.main keeps its Storage until the process exits.
EndBody(p) ==
  /\ pc[p] = "body"
  /\ Goto(p, IF Program[p] \in ClosesInBody \cup {"outside"} THEN "close" ELSE "unlink")
  /\ UNCHANGED <<file, look, conn, recycled, raced>>

\* The body raises: the traceback keeps the Storage alive while the lock is
\* released; only ingest has a finally that closes it.
FailBody(p) ==
  /\ pc[p] = "body" /\ Program[p] # "outside"
  /\ Goto(p, IF Program[p] = "ingest" THEN "close" ELSE "unlink")
  /\ UNCHANGED <<file, look, conn, recycled, raced>>

CloseDB(p) ==
  /\ pc[p] = "close"
  /\ conn' = conn \ {p}
  /\ Goto(p, IF Program[p] = "outside" THEN "done" ELSE "unlink")
  /\ UNCHANGED <<file, look, recycled, raced>>

\* lock_path.unlink(missing_ok=True), whoever's pid the file holds. Windows
\* refuses it while another process writes or reads the file.
Remove(p) ==
  /\ pc[p] = "unlink"
  /\ Windows => fds = {}
  /\ present' = FALSE /\ owner' = Nobody /\ aged' = FALSE /\ fds' = {}
  /\ Goto(p, "exit")
  /\ UNCHANGED <<look, conn, recycled, raced>>

RemoveRefused(p) ==
  /\ pc[p] = "unlink" /\ Windows /\ present
  /\ \/ fds # {}
     \/ \E q \in Procs \ {p} : Program[q] # "outside" /\ pc[q] \in {"check", "ask"}
  /\ Goto(p, "exit")
  /\ UNCHANGED <<file, look, conn, recycled, raced>>

Exit(p) ==
  /\ pc[p] = "exit"
  /\ conn' = conn \ {p}
  /\ Goto(p, "done")
  /\ UNCHANGED <<file, look, recycled, raced>>

-----------------------------------------------------------------------------
(* The environment *)

\* The process is killed; the system closes its files, the lock file stays. One
\* killed before it has passed its check leaves nothing behind.
Crash(p) ==
  /\ pc[p] \notin Gone \cup {"check", "ask"}
  /\ fds' = fds \ {p} /\ conn' = conn \ {p}
  /\ Goto(p, "crashed")
  /\ UNCHANGED <<present, owner, aged, look, recycled, raced>>

\* Six hours pass since the timestamp in the file.
Age ==
  /\ present /\ owner # Nobody /\ ~aged
  /\ aged' = TRUE
  /\ raced' = (raced \/ Overrun)
  /\ UNCHANGED <<pc, present, owner, fds, look, conn, recycled>>

\* Another program is given the pid of a process that is gone.
RecyclePid(p) ==
  /\ pc[p] \in Gone /\ p \notin recycled
  /\ recycled' = recycled \cup {p}
  /\ UNCHANGED <<pc, file, look, conn, raced>>

AllGone == (\A p \in Procs : pc[p] \in Gone) /\ UNCHANGED vars

Step(p) ==
  \/ Read(p) \/ StopWaiting(p) \/ PassCheck(p) \/ Poll(p) \/ Refused(p)
  \/ Truncate(p) \/ Fill(p)
  \/ OpenDB(p) \/ OpenRefused(p) \/ EndBody(p) \/ FailBody(p)
  \/ CloseDB(p) \/ Remove(p) \/ RemoveRefused(p) \/ Exit(p)

Next ==
  \/ \E p \in Procs : Step(p) \/ GiveUp(p) \/ Crash(p) \/ RecyclePid(p)
  \/ Age
  \/ AllGone

Spec == Init /\ [][Next]_vars

(***************************************************************************)
(* The scheduler runs every live process and time passes. GiveUp is left   *)
(* out: the properties must not rest on a deadline.                        *)
(***************************************************************************)
FairSpec ==
  /\ Spec
  /\ WF_vars(Age)
  /\ \A p \in Procs : WF_vars(Step(p))

=============================================================================
