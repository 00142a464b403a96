-------------------------- MODULE MCTaskScheduler --------------------------
(* Instances of TaskScheduler for TLC. *)
EXTENDS TaskSchedulerProps

Task(place, bg, ab) ==
    [place |-> place, background |-> bg, abandonOnRestart |-> ab]

Foreground == {Task("peer", FALSE, FALSE)}
Child == {Task("child", FALSE, FALSE)}
Awaited == {Task("child", FALSE, TRUE)}
Owned == {Task("owned", TRUE, FALSE), Task("owned", FALSE, FALSE),
          Task("peer", FALSE, FALSE)}
None == {}

\* which tasks commit a checkpoint, a wait or a sleep
Never == [t \in Tasks |-> 0]
First == [t \in Tasks |-> IF t = 1 THEN 1 ELSE 0]
Second == [t \in Tasks |-> IF t = 2 THEN 1 ELSE 0]
=============================================================================
