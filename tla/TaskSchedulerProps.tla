------------------------ MODULE TaskSchedulerProps ------------------------
(***************************************************************************)
(* What the task scheduler promises: the spec's rules on structured        *)
(* concurrency (docs/spec.md 5.4 - 5.6), and that the indexes it keeps up  *)
(* incrementally lose no work.                                             *)
(***************************************************************************)
EXTENDS TaskScheduler

Records ==
    [status : LiveStatuses \cup {"none", "terminal"}, conv : Convs,
     owner : 0 .. MaxTasks, above : SUBSET Tasks, background : BOOLEAN,
     abandonOnRestart : BOOLEAN, mark : {"none", "restart", "request"},
     restarts : Nat, checkpoint : Nat, on : SUBSET Tasks,
     policy : {"none"} \cup Policies,
     outcome : Outcomes \cup {"none"}, born : Nat]

Invocations ==
    [mode : {"none", "run", "abort"}, pc : {"none", "first", "phase"},
     checkpoint : Nat, registry : Nat]

(* The types of the scheduler's state; a record waits exactly while it     *)
(* names the tasks it waits on, and an outcome is decided exactly in the   *)
(* two last statuses.                                                      *)
TypeOK ==
    /\ task \in [Tasks -> Records]
    /\ convs \subseteq Tasks /\ queued \subseteq Convs
    /\ registry \in Nat /\ due \subseteq Tasks /\ stops \in Nat /\ crashes \in Nat
    /\ {installed, up, enabled, closing, reserving, timer, dirty, cascade, recon} \subseteq BOOLEAN
    /\ runnable \subseteq Tasks /\ finalize \subseteq Tasks
    /\ checks \subseteq Tasks /\ abandoned \subseteq Tasks
    /\ stopped \subseteq Tasks
    /\ pass \in [queued : BOOLEAN, cascade : BOOLEAN, checks : SUBSET Tasks]
    /\ inv \in [Tasks -> Invocations]
    /\ \A t \in Tasks :
        /\ Waits(task, t) <=> task[t].on # {}
        /\ task[t].status \in {"completing", "terminal"}
             <=> task[t].outcome # "none"

(* No lost wakeup: a task that could be reserved now is a candidate of a   *)
(* pass that is wanted or underway.  #runnable drops a candidate that is   *)
(* not eligible and must get it back whatever made it eligible: the end of *)
(* a task it waits for, of the work below it, of its invocation, of its    *)
(* sleep, a retry, a registry change.                                      *)
Eligible(t) ==
    /\ Live(task, t) /\ ~Completing(task, t)
    /\ inv[t].mode = "none"
    /\ WaitingOn(task, t) = {}
    /\ ~NotDue(task, t) /\ ~Parked(task, t)

NoLostWakeup ==
    up /\ enabled /\ ~closing =>
        \A t \in Tasks : Eligible(t) =>
            /\ t \in runnable \/ t \in DueSleepers
            /\ \/ dirty \/ reserving
               \/ t \in DueSleepers /\ timer
               \/ ~Fits(t) /\ task[t].mark # "request"
               \/ Withheld(t) /\ ~Marked(task, t)

(* No lost cascade: once no reconcile pass is scheduled or queued, every   *)
(* live foreground task below an owner with cancellation intent is marked, *)
(* a request has replaced the restart mark of a task below a request, no   *)
(* input is queued below such an owner, and no held outcome could be       *)
(* written.                                                                *)
NoLostCascade ==
    up /\ ~closing /\ ~recon /\ ~pass.queued =>
        /\ \A t \in Tasks : Live(task, t) /\ ~task[t].background =>
             \A p \in CancellingOwner(task, t) :
                IF task[p].mark = "restart" /\ ~FailedOutcome(task, p)
                THEN Marked(task, t) ELSE task[t].mark = "request"
        /\ \A c \in queued : ~BelowCancelled(task, Through(task, c))
        /\ \A t \in Tasks : Completing(task, t) => OwnedLive(task, t) # {}

(* wake() strands no work: while the Session reports that it needs no      *)
(* process, there is no task to reserve and nothing to reconcile, so a     *)
(* host that lets the process go loses nothing but sleeps not yet due.     *)
NoStrandedWork ==
    up /\ ~WakeActive =>
        /\ \A t \in Tasks : Eligible(t) =>
             ~Fits(t) /\ task[t].mark # "request"
        /\ \A t \in Tasks : Live(task, t) =>
             /\ ~Withheld(t) \/ Marked(task, t)
             /\ Completing(task, t) => OwnedLive(task, t) # {}

(* The wait-for graph is acyclic: from any set of tasks some task leads    *)
(* out of it, so no set of tasks waits only for its own members.           *)
WaitsAcyclic ==
    \A S \in SUBSET {t \in Tasks : Live(task, t)} :
        S # {} => \E t \in S : WaitEdges(task, t) \cap S = {}

(* A child task lives inside its owner: no task owned by another is live   *)
(* once that one is terminal, whatever order marks, holds, faults, orphans *)
(* and restarts came in.                                                   *)
ChildInsideOwner ==
    \A t \in Tasks :
        Live(task, t) /\ task[t].owner # 0 => Live(task, task[t].owner)

(* A task finishes only after its ordinary owned work drained: when its    *)
(* terminal record is written nothing it owns is left live, counting work  *)
(* created or started by the very commit that ends it.                     *)
FinishesDrained ==
    [][\A t \in Tasks :
         Live(task, t) /\ ~Live(task', t) => OwnedLive(task', t) = {}]_vars

(* Abort runs bottom-up: while an abort handler of a task runs, no task it *)
(* owns directly is live, so the handler sees final outcomes below it and  *)
(* no owned work starts under it.                                          *)
AbortBottomUp ==
    \A t \in Tasks : inv[t].mode = "abort" =>
        \A d \in Tasks : task[d].owner = t => ~Live(task, d)

(* A task that its creator awaits only in memory does not resume after a   *)
(* restart: no phase of it runs in a process other than the one that       *)
(* created it, whether that one crashed or closed.                         *)
AbandonedNotResumed ==
    \A t \in Tasks :
        task[t].abandonOnRestart /\ inv[t].mode = "run" => task[t].born = stops

(* An outcome is final and orphaning never holds: a decided outcome is     *)
(* never replaced, a held one only becomes terminal, a terminal record     *)
(* never changes, and a mark is never taken back or weakened.              *)
OutcomeIsFinal ==
    [][\A t \in Tasks :
         /\ task[t].outcome # "none" => task'[t].outcome = task[t].outcome
         /\ Completing(task, t) => task'[t].status \in {"completing", "terminal"}
         /\ task[t].status = "terminal" => task'[t] = task[t]
         /\ Live(task', t) =>
              /\ task[t].mark = "request" => task'[t].mark = "request"
              /\ Marked(task, t) => Marked(task', t)]_vars

(* spec.md 5.4: "an orphaned outcome never holds", as a task is orphaned   *)
(* only when nothing it owns is live.                                      *)
OrphanNeverHolds ==
    \A t \in Tasks : Completing(task, t) => task[t].outcome # "orphaned"

(* spec.md 5.4: "a close does not count", so a task's restart count is     *)
(* never above the crashes there were.                                     *)
CloseCountsNoRestart ==
    \A t \in Tasks : task[t].restarts <= crashes

-----------------------------------------------------------------------------
(* Fairness: the event loop.  While a callback of the scheduler is ready,  *)
(* the drain loop, a reconcile pass, a timer, a handler that returns, one  *)
(* runs; a host reopens a Session and resumes scheduling.  No handler need *)
(* commit, and none of the steps is preferred.                             *)
Progress ==
    \/ Resume \/ Open \/ CloseDone
    \/ Timer \/ StartPass \/ Reconcile
    \/ \E t \in Tasks : Tick(t) \/ Step(t)
    \/ Reservation

FairSpec == Spec /\ WF_vars(Progress)

(* A requested abort is carried out: in the end no live task has one       *)
(* pending, whatever the task was doing and whatever it owns, through      *)
(* crashes, closes and with its definition gone.                           *)
AbortTakesEffect ==
    <>[](\A t \in Tasks : Live(task, t) => task[t].mark # "request")

(* Every task settles, unless some task is parked or blocked: no set of    *)
(* tasks waits on itself and no wakeup is lost for good.                   *)
Stalled ==
    \E t \in Tasks : Live(task, t) /\ (Parked(task, t) \/ ~Fits(t))
EverySettles ==
    <>[](Stalled \/ \A t \in Tasks : ~Live(task, t))
=============================================================================
