---------------------------- MODULE AtomicStore ----------------------------
(***************************************************************************)
(* What a Session may rely on: its commits form a log, each is wholly in   *)
(* the log or not at all, and what it reads is the log replayed. Only a    *)
(* power loss takes commits away, and only the last ones.                  *)
(***************************************************************************)
EXTENDS Integers, Sequences

CONSTANT StateOf(_)  \* what a log amounts to

VARIABLES
  log,
  up,
  store,  \* what reads return
  lossy   \* whether a power loss is allowed for


Extended == Len(log') = Len(log) + 1 /\ SubSeq(log', 1, Len(log)) = log

Init == log = <<>> /\ up = FALSE /\ store = StateOf(<<>>) /\ lossy \in BOOLEAN

Commit == up /\ up' /\ Extended /\ store' = StateOf(log')

\* A commit that is underway may be in the log though it did not return.
Stop ==
  /\ up /\ ~up'
  /\ log' = log \/ Extended
  /\ store' = StateOf(<<>>)

Lose ==
  /\ lossy /\ ~up
  /\ \E n \in 0..Len(log) : log' = SubSeq(log, 1, n)
  /\ UNCHANGED <<up, store>>

Open == ~up /\ up' /\ store' = StateOf(log) /\ UNCHANGED log

Next == (Commit \/ Stop \/ Lose \/ Open) /\ UNCHANGED lossy

Spec == Init /\ [][Next]_<<log, up, store, lossy>>
=============================================================================
