--------------------------- MODULE TaskScheduler ---------------------------
(***************************************************************************)
(* The durable task scheduler of the shell (packages/durable,              *)
(* src/harness/scheduler.ts): task records on a Session line that runs one *)
(* commit at a time, invocations that run task code off the line, the      *)
(* ownership tree, abort marks that cascade down it, outcomes held until   *)
(* owned work drained, waits, sleeps, and the recovery after a crash or a  *)
(* close.                                                                  *)
(*                                                                         *)
(* A commit is one atomic step: the Session adopts and publishes it before *)
(* it starts the next (session.ts), so an action below is a commit with    *)
(* the scheduler's commit listener.  The one commit taken apart is the     *)
(* reservation, whose callback awaits between its check of #closing and    *)
(* its writes, so that a close may fall in between.                        *)
(*                                                                         *)
(* A conversation is named by the task that owns it, Root being the        *)
(* ownerless one: a task owns at most one conversation here.  The indexes  *)
(* over the tree (#edges, #below, #settled, #unloaded) are a cache of the  *)
(* records' owners, which never change; a record carries `above`, the      *)
(* owners a walk up from it reaches, instead.                              *)
(***************************************************************************)
EXTENDS Integers

CONSTANTS
    MaxTasks,       \* bound: tasks ever created
    MaxHost,        \* bound: the host creates only the first of them
    Extension,      \* tasks whose definition an extension installs
    Shapes,         \* kinds of tasks a running task may create
    HostShapes,     \* kinds of tasks the host may create
    Policies,       \* join policies the tasks wait with
    RestartLimit,   \* settings.restartLimit
    MaxPhase,       \* bound: last checkpoint of each task
    Changes,        \* kinds of changes around the scheduler
    MaxChanges,     \* bound: such changes in all
    InputConvs,     \* conversations inputs are submitted to
    AbortTasks,     \* tasks the host aborts
    AbortConvs      \* conversations the host aborts

Tasks == 1 .. MaxTasks
Root == 0
Convs == 0 .. MaxTasks

ASSUME BoundsAssumption ==
    /\ MaxTasks \in Nat \ {0} /\ MaxHost \in 1 .. MaxTasks
    /\ RestartLimit \in Nat \ {0}
    /\ MaxPhase \in [Tasks -> Nat] /\ MaxChanges \in Nat
    /\ Changes \subseteq {"crash", "close", "registry"}
    /\ Extension \subseteq Tasks /\ InputConvs \subseteq Convs
    /\ AbortTasks \subseteq Tasks /\ AbortConvs \subseteq Convs
    /\ Policies \subseteq {"failFast", "allSettled"}

(* What a creator chooses of a task: whether a task owns it, it lives in   *)
(* the conversation its creator owns, or in its creator's own              *)
(* conversation; whether it is background; whether a restart abandons it.  *)
ShapeSet == [place : {"child", "owned", "peer"}, background : BOOLEAN,
             abandonOnRestart : BOOLEAN]

ASSUME ShapesAssumption ==
    /\ Shapes \subseteq ShapeSet /\ HostShapes \subseteq ShapeSet
    /\ \A s \in Shapes : s.place = "child" => ~s.background
    /\ \A s \in HostShapes : s.place = "peer"

VARIABLES
    \* durable records
    task,       \* task records
    convs,      \* tasks that own a conversation
    queued,     \* conversations with queued inputs
    registry,   \* registry changes so far
    installed,  \* the extension is installed
    due,        \* sleeping tasks whose time has come on the Harness clock
    \* the process
    up,         \* a Harness is open on the Session
    enabled,    \* #enabled
    closing,    \* #closing
    reserving,  \* a reservation commit is underway and holds the line
    timer,      \* the timer of a sleep that is due has to fire
    dirty,      \* #dirty: a reservation pass is wanted
    runnable,   \* #runnable
    finalize,   \* #finalizeChecks
    checks,     \* #failFastChecks
    cascade,    \* #cascadePending
    recon,      \* #reconcileScheduled
    pass,       \* the reconcile pass queued on the line
    abandoned,  \* #abandoned
    inv,        \* #invocations
    stopped,    \* the invocations join() waits for
    \* history
    stops,      \* crashes and closes so far
    crashes     \* crashes so far

durable == <<task, due, convs, queued>>
environment == <<registry, installed, stops, crashes>>
indexes == <<runnable, finalize, checks, cascade, recon>>
process == <<up, enabled, closing, reserving, timer, stopped>>
vars == <<task, convs, queued, registry, installed, due, up, enabled, closing,
          reserving, timer, dirty, runnable, finalize, checks, cascade, recon, pass,
          abandoned, inv, stopped, stops, crashes>>

-----------------------------------------------------------------------------
(* Records *)

(* "failed" stands for failed, aborted and faulted, which the scheduler    *)
(* treats alike.                                                           *)
Outcomes == {"completed", "failed", "orphaned"}
RunStatuses == {"pending", "running", "waiting", "sleeping"}
LiveStatuses == RunStatuses \cup {"completing"}

NoTask == [status |-> "none", conv |-> Root, owner |-> 0, above |-> {},
           background |-> FALSE, abandonOnRestart |-> FALSE, mark |-> "none",
           restarts |-> 0, checkpoint |-> 0, on |-> {}, policy |-> "none",
           outcome |-> "none", born |-> 0]

NoInv == [mode |-> "none", pc |-> "none", checkpoint |-> 0, registry |-> 0]
NoPass == [queued |-> FALSE, cascade |-> FALSE, checks |-> {}]

Exists(tk, t) == tk[t].status # "none"
Live(tk, t) == tk[t].status \in LiveStatuses
Waits(tk, t) == tk[t].status = "waiting"
Completing(tk, t) == tk[t].status = "completing"
Marked(tk, t) == tk[t].mark # "none"

(* Whether the record holds or ends with an outcome other than completed.  *)
FailedOutcome(tk, t) ==
    /\ tk[t].status \in {"completing", "terminal"}
    /\ tk[t].outcome # "completed"

(* A live owner's durable cancellation intent.                             *)
CancellationIntent(tk, t) ==
    /\ Live(tk, t)
    /\ Marked(tk, t) \/ FailedOutcome(tk, t)

(* A state the task is left with carries nothing of the wait or the sleep  *)
(* before it; memos are not modelled.                                      *)
WithState(r, status) ==
    [r EXCEPT !.status = status, !.on = {}, !.policy = "none"]

(* An outcome also drops the checkpoint and the restart count; nothing     *)
(* reads the mark of a terminal record.                                    *)
WithOutcome(r, status, outcome) ==
    [WithState(r, status) EXCEPT
        !.outcome = outcome, !.restarts = 0, !.checkpoint = 0,
        !.mark = IF status = "terminal" THEN "none" ELSE @]

Progressed(r) == [r EXCEPT !.restarts = 0]

(* A request replaces a restart mark; the restart count starts over, for   *)
(* the abort handler.                                                      *)
WithAbortMark(r, reason) == [r EXCEPT !.mark = reason, !.restarts = 0]

-----------------------------------------------------------------------------
(* The ownership tree *)

(* Owners a walk up from a node below owner p meets, crossing no background*)
(* owner.                                                                  *)
Through(tk, p) ==
    IF p = Root THEN {}
    ELSE {p} \cup (IF tk[p].background THEN {} ELSE tk[p].above)

(* The live ordinary owned work of t: the live foreground tasks below it   *)
(* that a walk down reaches without entering a background task.            *)
OwnedLive(tk, t) ==
    {d \in Tasks : Live(tk, d) /\ ~tk[d].background /\ t \in tk[d].above}

(* The nearest live task above t, in a set of at most one.                 *)
NearestLiveAbove(tk, t) ==
    LET holders == IF tk[t].background THEN {}
                   ELSE {p \in tk[t].above : Live(tk, p)}
    IN {p \in holders : \A q \in holders : q <= p}

(* Whether a live owner's cancellation intent reaches what hangs below the *)
(* owners `above`.                                                         *)
BelowCancelled(tk, above) == \E p \in above : CancellationIntent(tk, p)

(* The owner whose walk down marks t: the nearest with intent.             *)
CancellingOwner(tk, t) ==
    LET owners == {p \in tk[t].above : CancellationIntent(tk, p)}
    IN {p \in owners : \A q \in owners : q <= p}

(* The conversations a walk up from t reaches, stopping at a background    *)
(* owner unless `cross`.                                                   *)
Scopes(tk, cross) ==
    LET Up(f, p) == IF p = Root \/ (tk[p].background /\ ~cross)
                    THEN {} ELSE f[p]
        scope[t \in 0 .. MaxTasks] ==
            IF t = 0 THEN {}
            ELSE IF tk[t].owner # 0 THEN Up(scope, tk[t].owner)
            ELSE {tk[t].conv} \cup Up(scope, tk[t].conv)
    IN scope

ConvScopes(tk, cross, c) ==
    {c} \cup (IF c = Root \/ (tk[c].background /\ ~cross)
              THEN {} ELSE Scopes(tk, cross)[c])

-----------------------------------------------------------------------------
(* Eligibility *)

Fits(t) == t \notin Extension \/ installed

Variant_WaitingOn_waits(tk, t) ==
    IF Waits(tk, t) THEN {d \in tk[t].on : Live(tk, d)} ELSE {}

(* Live tasks a task waits for before its next invocation.                 *)
WaitingOn(tk, t) ==
    IF Marked(tk, t) THEN OwnedLive(tk, t)
    ELSE IF Waits(tk, t) THEN {d \in tk[t].on : Live(tk, d)}
    ELSE {}

NotDue(tk, t) ==
    /\ tk[t].status = "sleeping"
    /\ ~Marked(tk, t)
    /\ t \notin due

(* Cut off restartLimit times in a row; an abort mark still runs its       *)
(* handler.                                                                *)
Parked(tk, t) == ~Marked(tk, t) /\ tk[t].restarts >= RestartLimit

DueSleepers ==
    {t \in Tasks : task[t].status = "sleeping" /\ ~NotDue(task, t)}

Variant_WakeActive_flags ==
    \/ \E t \in Tasks : inv[t].mode # "none"
    \/ cascade \/ finalize # {} \/ checks # {}
    \/ \E t \in Tasks :
        /\ Live(task, t) /\ ~Completing(task, t)
        /\ WaitingOn(task, t) = {} /\ ~NotDue(task, t) /\ ~Parked(task, t)
        /\ task[t].mark = "request" \/ Fits(t)

(* wake().active: whether the Session needs a process now.                 *)
WakeActive ==
    \/ \E t \in Tasks : inv[t].mode # "none"
    \/ pass.queued /\ (pass.cascade \/ pass.checks # {})
    \/ cascade \/ finalize # {} \/ checks # {}
    \/ \E t \in Tasks :
        /\ Live(task, t) /\ ~Completing(task, t)
        /\ WaitingOn(task, t) = {}
        /\ ~NotDue(task, t)
        /\ ~Parked(task, t)
        /\ task[t].mark = "request" \/ Fits(t)

-----------------------------------------------------------------------------
(* Publication: #observe and #track bring the indexes in line with the     *)
(* committed records.                                                      *)

Changed(new) == {t \in Tasks : new[t] # task[t]}
Ended(new) == {t \in Tasks : Live(task, t) /\ new[t].status = "terminal"}
Entered(new, status) ==
    {t \in Tasks : new[t].status = status /\ task[t].status # status}

Variant_TrackRunnable_waiters(new, before) ==
    LET ended == Ended(new)
        waiters == {w \in Tasks : Waits(new, w) /\ new[w].on \cap ended # {}}
    IN {t \in before \cup Changed(new) \cup waiters :
          new[t].status \in RunStatuses}

(* A changed record is a candidate again; a task that ended frees its      *)
(* waiters and the abort-marked task it held.                              *)
TrackRunnable(new, before) ==
    LET ended == Ended(new)
        waiters == {w \in Tasks : Waits(new, w) /\ new[w].on \cap ended # {}}
        freed == UNION {NearestLiveAbove(new, e) : e \in ended}
    IN {t \in before \cup Changed(new) \cup waiters
              \cup {p \in freed : Marked(new, p)} :
          new[t].status \in RunStatuses}

Variant_TrackFinalize_changed(new, before) ==
    {t \in before \cup Changed(new) : Completing(new, t)}

(* A task that ended frees the one that holds its outcome.                 *)
TrackFinalize(new, before) ==
    LET freed == UNION {NearestLiveAbove(new, e) : e \in Ended(new)}
    IN {t \in before \cup Changed(new) \cup freed : Completing(new, t)}

FailFastWait(tk, t) == Waits(tk, t) /\ tk[t].policy = "failFast"

(* failFast waits a commit started, or that name a task it saw fail.       *)
FailFastTouched(new) ==
    LET failed == {t \in Changed(new) : FailedOutcome(new, t)
                                        /\ ~FailedOutcome(task, t)}
    IN {w \in Tasks : /\ FailFastWait(new, w)
                      /\ w \in Entered(new, "waiting")
                         \/ new[w].on \cap failed # {}}

Variant_CascadeTouched_marks(new) ==
    \E t \in Changed(new) :
        /\ Live(new, t)
        /\ \/ Marked(new, t) /\ ~Marked(task, t)
           \/ task[t].mark = "restart" /\ new[t].mark = "request"
           \/ t \in Entered(new, "completing") /\ CancellationIntent(new, t)

(* Changes that leave abort marks to derive.                               *)
CascadeTouched(new) ==
    \E t \in Changed(new) :
        /\ Live(new, t)
        /\ \/ Marked(new, t) /\ ~Marked(task, t)
           \/ task[t].mark = "restart" /\ new[t].mark = "request"
           \/ t \in Entered(new, "completing") /\ CancellationIntent(new, t)
           \/ /\ ~Exists(task, t)
              /\ ~new[t].background /\ ~Marked(new, t)
              /\ BelowCancelled(new, new[t].above)

(* Adopt the records `new` and publish them, the commit itself having      *)
(* brought #runnable to run, #finalizeChecks to fin, asked for a cascade   *)
(* and for a pass (#kick).  A commit that changes no record publishes      *)
(* nothing.                                                                *)
Publish(new, run, fin, casc, kick) ==
    LET changed == Changed(new) # {}
        touched == FailFastTouched(new)
        pending == cascade \/ casc \/ CascadeTouched(new)
    IN /\ task' = new
       /\ due' = {t \in due : new[t].status = "sleeping"}
       /\ runnable' = TrackRunnable(new, run)
       /\ finalize' = TrackFinalize(new, fin)
       /\ checks' = {w \in checks \cup touched : Live(new, w)}
       /\ cascade' = pending
       /\ recon' = ( \/ recon \/ casc
                     \/ \E t \in Changed(new) :
                          \/ t \in Ended(new)
                          \/ t \in Entered(new, "completing")
                     \/ touched # {}
                     \/ changed /\ pending )
       /\ dirty' = (dirty \/ kick \/ changed)

(* Operations of the line wait for a commit underway; admission is sealed  *)
(* by a close.                                                             *)
Admitted == up /\ ~closing /\ ~reserving

Variant_Terminated_now(tk, t, outcome) ==
    WithOutcome(tk[t], "terminal", outcome)

(* An outcome the scheduler decides holds while owned work is live.        *)
Terminated(tk, t, outcome) ==
    WithOutcome(tk[t],
                IF OwnedLive(tk, t) # {} THEN "completing" ELSE "terminal",
                outcome)

-----------------------------------------------------------------------------
(* Host operations *)

(* The next task to be created, if there may be one.                       *)
Fresh == {t \in Tasks : /\ ~Exists(task, t)
                        /\ \A d \in Tasks : d < t => Exists(task, d)}

NewTask(owner, conv, above, shape) ==
    [NoTask EXCEPT !.status = "pending", !.owner = owner, !.conv = conv,
                   !.above = above, !.background = shape.background,
                   !.abandonOnRestart = shape.abandonOnRestart,
                   !.born = stops]

(* A host commit starts a task in any conversation there is, also one whose*)
(* owner has finished.                                                     *)
HostCreate(c, shape) ==
    /\ Admitted
    /\ \E n \in Fresh \cap 1 .. MaxHost :
         Publish([task EXCEPT ![n] = NewTask(0, c, Through(task, c), shape)],
                 runnable, finalize, FALSE, FALSE)
    /\ UNCHANGED <<convs, queued, environment, process, pass, abandoned, inv>>

(* Resume scheduling; sleeps that are due become candidates.               *)
Resume ==
    /\ up /\ ~closing /\ ~enabled
    /\ enabled' = TRUE
    /\ runnable' = runnable \cup DueSleepers
    /\ dirty' = TRUE
    /\ UNCHANGED <<durable, environment, up, closing, reserving, timer, stopped,
                   finalize, checks, cascade, recon, pass, abandoned, inv>>

(* Only a parked task is retried, and scheduling resumes.                  *)
Retry(t) ==
    /\ Admitted
    /\ task[t].status \in RunStatuses /\ Parked(task, t)
    /\ Publish([task EXCEPT ![t] = Progressed(@)], runnable \cup DueSleepers,
               finalize, FALSE, TRUE)
    /\ enabled' = TRUE
    /\ UNCHANGED <<convs, queued, environment, up, closing, reserving, timer,
                   stopped, pass, abandoned, inv>>

Variant_Orphan_owner(t) ==
    inv[t].mode = "none" /\ ~Completing(task, t) /\ ~Fits(t)

(* No definition can take t and nothing it owns is live.                   *)
Orphan(t) ==
    /\ inv[t].mode = "none" /\ ~Completing(task, t)
    /\ OwnedLive(task, t) = {} /\ ~Fits(t)

(* Mark t, or settle it as orphaned.  An owner's own cleanup keeps a       *)
(* restart mark.                                                           *)
Abort(t, keepRestart) ==
    /\ Admitted
    /\ Live(task, t)
    /\ ~(keepRestart /\ task[t].mark = "restart")
    /\ Orphan(t) \/ task[t].mark # "request"
    /\ Publish([task EXCEPT ![t] =
                  IF Orphan(t) THEN Terminated(task, t, "orphaned")
                  ELSE WithAbortMark(@, "request")],
               runnable, finalize, FALSE, FALSE)
    /\ UNCHANGED <<convs, queued, environment, process, pass, abandoned, inv>>

(* A task aborts one it owns, from a phase.                                *)
AbortOwned(t) ==
    /\ task[t].owner # 0
    /\ inv[task[t].owner].pc = "phase"
    /\ Abort(t, TRUE)

(* Mark what traversal from the conversation reaches and withdraw its      *)
(* queued inputs, in one commit.                                           *)
AbortConversation(c, background) ==
    LET scopes == Scopes(task, background)
        reached == {t \in Tasks : /\ Live(task, t) /\ c \in scopes[t]
                                  /\ background \/ ~task[t].background
                                  /\ task[t].mark # "request"}
        inputs == {q \in queued : c \in ConvScopes(task, background, q)}
    IN /\ Admitted
       /\ reached # {} \/ inputs # {}
       /\ Publish([t \in Tasks |-> IF t \in reached
                                   THEN WithAbortMark(task[t], "request")
                                   ELSE task[t]],
                  runnable, finalize, FALSE, FALSE)
       /\ queued' = queued \ inputs
       /\ UNCHANGED <<convs, environment, process, pass, abandoned, inv>>

(* A busy conversation queues an input; one below a cancelled owner starts *)
(* a cascade again.                                                        *)
Submit(c) ==
    /\ Admitted
    /\ c \in InputConvs \ queued
    /\ c = Root \/ c \in convs
    /\ \E t \in Tasks : Live(task, t) /\ task[t].conv = c
    /\ queued' = queued \cup {c}
    /\ cascade' = (cascade \/ BelowCancelled(task, Through(task, c)))
    /\ recon' = (recon \/ cascade')
    /\ UNCHANGED <<task, due, convs, environment, process, runnable, finalize,
                   checks, pass, abandoned, inv, dirty>>

-----------------------------------------------------------------------------
(* Reconciliation *)

(* A pass takes its flags off the line and queues its commit.              *)
StartPass ==
    /\ up /\ recon /\ ~pass.queued
    /\ pass' = [queued |-> TRUE, cascade |-> cascade, checks |-> checks]
    /\ recon' = FALSE /\ cascade' = FALSE /\ checks' = {}
    /\ UNCHANGED <<durable, environment, process, runnable, finalize,
                   abandoned, inv, dirty>>

(* Live members of the failFast waits `on` that saw one fail.              *)
FailFastMarks ==
    UNION {LET on == task[w].on IN
           IF Waits(task, w) /\ \E m \in on : FailedOutcome(task, m)
           THEN {m \in on : Live(task, m) /\ ~FailedOutcome(task, m)}
           ELSE {} : w \in pass.checks}

(* Only an owner abandoned after a restart, and nothing else, passes its   *)
(* reason on; a request wins over a restart mark and is not marked again.  *)
CascadeMark(t) ==
    LET owners == IF Live(task, t) /\ ~task[t].background
                  THEN CancellingOwner(task, t) ELSE {}
        request == \/ t \in FailFastMarks
                   \/ \E p \in owners : task[p].mark # "restart"
                                        \/ FailedOutcome(task, p)
    IN IF request THEN "request"
       ELSE IF owners # {} /\ ~Marked(task, t) THEN "restart"
       ELSE task[t].mark

(* The completing tasks that become terminal in rounds, each freed by the  *)
(* last one below it: the largest set whose members hold only for members. *)
Finalized(tk) ==
    UNION {D \in SUBSET {c \in Tasks : Completing(tk, c)} :
             \A c \in D : /\ OwnedLive(tk, c) \subseteq D
                          /\ c \in finalize \/ OwnedLive(tk, c) # {}}

(* One commit: marks, withdrawn inputs, and the terminal records of held   *)
(* outcomes whose owned work is gone.                                      *)
Reconcile ==
    LET marked == [t \in Tasks |->
                     IF CascadeMark(t) = task[t].mark THEN task[t]
                     ELSE WithAbortMark(task[t], CascadeMark(t))]
        done == Finalized(marked)
        new == [t \in Tasks |->
                  IF t \in done
                  THEN WithOutcome(marked[t], "terminal", marked[t].outcome)
                  ELSE marked[t]]
        inputs == {c \in queued : BelowCancelled(task, Through(task, c))}
    IN /\ Admitted /\ pass.queued
       /\ pass' = NoPass
       /\ queued' = queued \ (IF pass.cascade THEN inputs ELSE {})
       /\ Publish(new, runnable, {}, FALSE, FALSE)
       /\ UNCHANGED <<convs, environment, process, abandoned, inv>>

-----------------------------------------------------------------------------
(* Reservation *)

(* The drain loop starts a pass; its commit finds the Harness open.        *)
ReserveBegin ==
    /\ Admitted /\ enabled /\ dirty
    /\ dirty' = FALSE
    /\ reserving' = TRUE
    /\ UNCHANGED <<durable, environment, indexes, up, enabled, closing, timer,
                   stopped, pass, abandoned, inv>>

(* The first pass that finds abandoned tasks only marks them, and another   *)
(* one reserves, seeing the marks.                                         *)
ReserveAbandoned ==
    /\ up /\ reserving /\ abandoned # {}
    /\ Publish([t \in Tasks |->
                  IF t \in abandoned /\ Live(task, t) /\ ~Marked(task, t)
                  THEN WithAbortMark(task[t], "restart") ELSE task[t]],
               runnable, finalize, FALSE, TRUE)
    /\ abandoned' = {}
    /\ reserving' = FALSE
    /\ UNCHANGED <<convs, queued, environment, up, enabled, closing, timer, stopped,
                   pass, inv>>

(* Candidates of a pass that stay or leave without running.                *)
Candidates == runnable \cup DueSleepers
Dropped ==
    {t \in Candidates :
        \/ ~Live(task, t) \/ Completing(task, t) \/ inv[t].mode # "none"
        \/ WaitingOn(task, t) # {}
        \/ NotDue(task, t)
        \/ Parked(task, t)}
Held ==
    {t \in Candidates \ Dropped :
        /\ ~Marked(task, t) /\ ~task[t].background
        /\ BelowCancelled(task, task[t].above)}
Worn ==
    {t \in Candidates \ (Dropped \cup Held) :
        Marked(task, t) /\ task[t].restarts >= RestartLimit}
Blocked ==
    {t \in Candidates \ (Dropped \cup Held \cup Worn) : ~Fits(t)}
Variant_Orphaned_none == {}

Orphaned == {t \in Blocked : task[t].mark = "request"}
Reserved == Candidates \ (Dropped \cup Held \cup Worn \cup Blocked)

NewInvocation(t) ==
    IF Marked(task, t)
    THEN [mode |-> "abort", pc |-> "phase",
          checkpoint |-> task[t].checkpoint, registry |-> registry]
    ELSE [mode |-> "run", pc |-> "first",
          checkpoint |-> task[t].checkpoint, registry |-> registry]

(* Reserve every eligible task in one commit; #closing is not read again.  *)
Reserve ==
    /\ up /\ reserving /\ abandoned = {}
    /\ Publish([t \in Tasks |->
                  IF t \in Worn THEN Terminated(task, t, "failed")
                  ELSE IF t \in Orphaned THEN Terminated(task, t, "orphaned")
                  ELSE IF t \in Reserved THEN WithState(task[t], "running")
                  ELSE task[t]],
               Candidates \ (Dropped \cup Reserved), finalize, Held # {}, FALSE)
    /\ inv' = [t \in Tasks |-> IF t \in Reserved THEN NewInvocation(t)
                               ELSE inv[t]]
    /\ reserving' = FALSE
    /\ UNCHANGED <<convs, queued, environment, up, enabled, closing, timer, stopped,
                   pass, abandoned>>

-----------------------------------------------------------------------------
(* Invocations *)

(* End the invocation of t and publish its last commit; its task is a      *)
(* candidate again and a pass is wanted.                                   *)
EndWith(t, record, casc) ==
    /\ inv' = [inv EXCEPT ![t] = NoInv]
    /\ Publish([task EXCEPT ![t] = record], runnable \cup {t}, finalize, casc,
               TRUE)

Continue(t) ==
    /\ inv' = [inv EXCEPT ![t].pc = "phase",
                          ![t].checkpoint = task[t].checkpoint]
    /\ UNCHANGED <<task, due, indexes, dirty>>

(* An owner's cancellation intent ends a run before its cascade marks it.  *)
Withheld(t) ==
    ~task[t].background /\ BelowCancelled(task, task[t].above)

(* The step before the first phase.                                        *)
FirstStep(t) ==
    /\ Admitted
    /\ inv[t].pc = "first"
    /\ IF task[t].status # "running" \/ Marked(task, t) \/ Withheld(t)
       THEN EndWith(t, task[t], ~Marked(task, t) /\ Withheld(t))
       ELSE Continue(t)
    /\ UNCHANGED <<convs, queued, environment, process, pass, abandoned>>

(* Handover: a new definition can take the task.                           *)
HandsOver(t) == t \in Extension /\ inv[t].registry # registry /\ installed

Variant_EndPhase_blind(t, threw) ==
    /\ Admitted
    /\ inv[t].mode = "run" /\ inv[t].pc = "phase"
    /\ IF Marked(task, t) THEN EndWith(t, task[t], FALSE)
       ELSE IF Withheld(t) THEN EndWith(t, task[t], TRUE)
       ELSE IF threw \/ task[t].checkpoint = inv[t].checkpoint
       THEN EndWith(t, Terminated(task, t, "failed"), FALSE)
       ELSE IF HandsOver(t)
       THEN EndWith(t, WithState(task[t], "pending"), FALSE)
       ELSE Continue(t)
    /\ UNCHANGED <<convs, queued, environment, process, pass, abandoned>>

(* A phase handler returned or threw, and the step decides on the line.    *)
EndPhase(t, threw) ==
    /\ Admitted
    /\ inv[t].mode = "run" /\ inv[t].pc = "phase"
    /\ IF task[t].status # "running" \/ Marked(task, t)
       THEN EndWith(t, task[t], FALSE)
       ELSE IF Withheld(t) THEN EndWith(t, task[t], TRUE)
       ELSE IF threw \/ task[t].checkpoint = inv[t].checkpoint
       THEN EndWith(t, Terminated(task, t, "failed"), FALSE)
       ELSE IF HandsOver(t)
       THEN EndWith(t, WithState(task[t], "pending"), FALSE)
       ELSE Continue(t)
    /\ UNCHANGED <<convs, queued, environment, process, pass, abandoned>>

(* The abort handler runs once; without an outcome the task faults.        *)
EndAbort(t) ==
    /\ Admitted
    /\ inv[t].mode = "abort"
    /\ EndWith(t, IF task[t].status = "running"
                  THEN Terminated(task, t, "failed") ELSE task[t], FALSE)
    /\ UNCHANGED <<convs, queued, environment, process, pass, abandoned>>

(* A runtime operation of t may commit.                                    *)
Gated(t) ==
    /\ Admitted
    /\ inv[t].pc = "phase"
    /\ task[t].status = "running"
    /\ inv[t].mode = "run" => ~Marked(task, t)

(* The wait-for graph: X -> Y, X cannot settle before Y.                   *)
WaitEdges(tk, x) ==
    IF ~Live(tk, x) THEN {}
    ELSE OwnedLive(tk, x)
         \cup (IF Waits(tk, x) /\ ~Marked(tk, x) THEN tk[x].on ELSE {})

(* Whether a walk along the edges from `from` meets t.                     *)
WaitReaches(tk, from, t) ==
    \A S \in SUBSET Tasks :
        from \subseteq S /\ (\A x \in S : WaitEdges(tk, x) \subseteq S)
            => t \in S

Variant_ValidWait_direct(tk, t, on, policy) ==
    /\ \A m \in on : Exists(tk, m)
    /\ policy = "failFast" => \A m \in on : tk[m].owner = t
    /\ t \notin on

ValidWait(tk, t, on, policy) ==
    LET targets == {m \in on : tk[m].status # "terminal" /\ tk[m].owner # t}
    IN /\ \A m \in on : Exists(tk, m)
       /\ policy = "failFast" => \A m \in on : tk[m].owner = t
       /\ targets = {} \/ ~WaitReaches(tk, targets, t)

(* The states a phase may commit: a next checkpoint, a wait, a sleep.      *)
Advanced(r) == [r EXCEPT !.checkpoint = @ + 1, !.restarts = 0]
Waiting(r, on, policy) ==
    [Advanced(r) EXCEPT !.status = "waiting", !.on = on, !.policy = policy]
Sleeping(r) == [Advanced(r) EXCEPT !.status = "sleeping"]

NextRecords(tk, t) ==
    IF tk[t].checkpoint = MaxPhase[t] THEN {}
    ELSE {Advanced(tk[t]), Sleeping(tk[t])}
         \cup {Waiting(tk[t], on, p) : on \in (SUBSET Tasks) \ {{}}, p \in Policies}

MayCommit(tk, t, r) ==
    /\ r.status \in {"waiting", "sleeping"} => inv[t].mode = "run"
    /\ r.status = "waiting" => ValidWait(tk, t, r.on, r.policy)

(* Created work needs a live owner in the commit's final record of it.     *)
MayOwn(r) == r.status \in RunStatuses /\ r.mark = "none"

(* A task created by t in the commit, hung where its shape says.           *)
Created(t, shape) ==
    CASE shape.place = "child" ->
            NewTask(t, task[t].conv, Through(task, t), shape)
      [] shape.place = "owned" ->
            NewTask(0, t, Through(task, t), shape)
      [] shape.place = "peer" ->
            NewTask(0, task[t].conv, Through(task, task[t].conv), shape)

Variant_Commits_before(tk, t) ==
    {tk[t]} \cup {r \in NextRecords(tk, t) : MayCommit(tk, t, r)}
            \cup {Terminated(task, t, o) : o \in {"completed", "failed"}}

(* The records t may commit, judged on the commit's candidates `tk`: its   *)
(* state unchanged, a next state, or an outcome, held while owned work is  *)
(* live.                                                                   *)
Commits(tk, t) ==
    {tk[t]} \cup {r \in NextRecords(tk, t) : MayCommit(tk, t, r)}
            \cup {Terminated(tk, t, o) : o \in {"completed", "failed"}}

(* A phase or an abort handler commits, without creating work.             *)
HandlerCommit(t) ==
    /\ Gated(t)
    /\ \E record \in Commits(task, t) \ {task[t]} :
         Publish([task EXCEPT ![t] = record], runnable, finalize, FALSE, FALSE)
    /\ UNCHANGED <<convs, queued, environment, process, pass, abandoned, inv>>

(* A phase or an abort handler commits and creates a task, in a new        *)
(* conversation of its own if it has none.                                 *)
HandlerCreate(t, shape) ==
    /\ Gated(t)
    /\ \E n \in Fresh :
       LET tk == [task EXCEPT ![n] = Created(t, shape)] IN
       \E record \in Commits(tk, t) :
         /\ shape.place = "child" => MayOwn(record)
         /\ shape.place = "owned" => t \in convs \/ MayOwn(record)
         /\ Publish([tk EXCEPT ![t] = record], runnable, finalize, FALSE, FALSE)
    /\ convs' = IF shape.place = "owned" THEN convs \cup {t} ELSE convs
    /\ UNCHANGED <<queued, environment, process, pass, abandoned, inv>>

(* A run opens a conversation of its own; only in instances whose tasks    *)
(* own conversations.                                                      *)
OpenConversation(t) ==
    /\ \E shape \in Shapes : shape.place = "owned"
    /\ Gated(t)
    /\ MayOwn(task[t]) /\ t \notin convs
    /\ convs' = convs \cup {t}
    /\ recon' = (recon \/ cascade)
    /\ UNCHANGED <<task, due, queued, environment, process, runnable, finalize,
                   checks, cascade, pass, abandoned, inv, dirty>>

(* A run takes the inputs queued in its conversation.                      *)
TakeInputs(t) ==
    /\ Gated(t)
    /\ task[t].conv \in queued
    /\ queued' = queued \ {task[t].conv}
    /\ UNCHANGED <<task, due, convs, environment, process, indexes, pass,
                   abandoned, inv, dirty>>

-----------------------------------------------------------------------------
(* The process *)

(* The time of a sleep comes.  The timer is armed for it, unless the commit*)
(* that started the sleep has only just asked for a pass and a timer.      *)
Tick(t) ==
    /\ task[t].status = "sleeping" /\ t \notin due
    /\ due' = due \cup {t}
    /\ timer' \in IF ~up \/ ~enabled \/ closing THEN {timer}
                 ELSE IF dirty THEN {timer, TRUE} ELSE {TRUE}
    /\ UNCHANGED <<task, convs, queued, environment, up, enabled, closing,
                   reserving, stopped, indexes, pass, abandoned, inv, dirty>>

Timer ==
    /\ up /\ ~closing /\ timer
    /\ timer' = FALSE
    /\ runnable' = runnable \cup DueSleepers
    /\ dirty' = TRUE
    /\ UNCHANGED <<durable, environment, up, enabled, closing, reserving,
                   stopped, finalize, checks, cascade, recon, pass, abandoned,
                   inv>>

MayChange(kind) == kind \in Changes /\ registry + stops < MaxChanges

(* The extension is removed, or replaced in one step, or installed again;  *)
(* the scheduler hears it.                                                 *)
RegistryChange ==
    /\ up /\ ~closing
    /\ MayChange("registry")
    /\ registry' = registry + 1
    /\ installed' \in (IF installed THEN BOOLEAN ELSE {TRUE})
    /\ dirty' = TRUE
    /\ UNCHANGED <<durable, stops, crashes, process, indexes, pass,
                   abandoned, inv>>

Forget ==
    /\ up' = FALSE /\ enabled' = FALSE /\ closing' = FALSE
    /\ reserving' = FALSE /\ timer' = FALSE /\ dirty' = FALSE
    /\ runnable' = {} /\ finalize' = {} /\ checks' = {} /\ abandoned' = {}
    /\ cascade' = FALSE /\ recon' = FALSE
    /\ pass' = NoPass
    /\ inv' = [t \in Tasks |-> NoInv]
    /\ stopped' = {}

Crash ==
    /\ up /\ MayChange("crash")
    /\ Forget
    /\ stops' = stops + 1 /\ crashes' = crashes + 1
    /\ UNCHANGED <<durable, registry, installed>>

Variant_Abandonable_cutoff(tk) ==
    {t \in Tasks : Live(tk, t) /\ tk[t].abandonOnRestart
                   /\ task[t].status = "running"}

Abandonable(tk) == {t \in Tasks : Live(tk, t) /\ tk[t].abandonOnRestart}

(* Load the live tasks; a task the process died in is pending again, one   *)
(* restart more.                                                           *)
Open ==
    LET new == [t \in Tasks |->
                  IF task[t].status = "running"
                  THEN [WithState(task[t], "pending") EXCEPT !.restarts = @ + 1]
                  ELSE task[t]]
    IN /\ ~up
       /\ up' = TRUE
       /\ task' = new
       /\ runnable' = {t \in Tasks : new[t].status \in RunStatuses}
       /\ finalize' = {t \in Tasks : Completing(new, t)}
       /\ checks' = {t \in Tasks : FailFastWait(new, t)}
       /\ abandoned' = Abandonable(new)
       /\ cascade' = TRUE /\ recon' = TRUE
       /\ dirty' = (new # task)
       /\ UNCHANGED <<due, convs, queued, environment, enabled, closing, reserving, timer,
                      pass, inv, stopped>>

(* Admission is sealed, every invocation is signalled and joined.          *)
Close ==
    /\ up /\ ~closing /\ MayChange("close")
    /\ closing' = TRUE
    /\ stopped' = {t \in Tasks : inv[t].mode # "none"}
    /\ UNCHANGED <<durable, environment, up, enabled, reserving, timer, indexes,
                   pass, abandoned, inv, dirty>>

(* A handler returns while the Harness closes: its step is rejected.       *)
Unwind(t) ==
    /\ up /\ closing
    /\ inv[t].mode # "none"
    /\ inv' = [inv EXCEPT ![t] = NoInv]
    /\ UNCHANGED <<durable, environment, process, indexes, pass, abandoned,
                   dirty>>

(* A close is not a crash: the tasks it stopped are pending again.         *)
CloseDone ==
    /\ up /\ closing /\ ~reserving
    /\ \A t \in stopped : inv[t].mode = "none"
    /\ task' = [t \in Tasks |->
                  IF t \in stopped /\ task[t].status = "running"
                  THEN WithState(task[t], "pending") ELSE task[t]]
    /\ Forget
    /\ stops' = stops + 1
    /\ UNCHANGED <<due, convs, queued, registry, installed, crashes>>

-----------------------------------------------------------------------------
Init ==
    /\ task = [t \in Tasks |-> NoTask]
    /\ convs = {} /\ queued = {}
    /\ registry = 0 /\ installed = TRUE /\ due = {} /\ stops = 0 /\ crashes = 0
    /\ up = TRUE /\ enabled = FALSE /\ closing = FALSE /\ reserving = FALSE
    /\ dirty = FALSE /\ timer = FALSE
    /\ runnable = {} /\ finalize = {} /\ checks = {} /\ abandoned = {}
    /\ cascade = TRUE /\ recon = TRUE
    /\ pass = NoPass
    /\ inv = [t \in Tasks |-> NoInv]
    /\ stopped = {}

Host ==
    \/ Resume
    \/ \E c \in convs \cup {Root}, s \in HostShapes : HostCreate(c, s)
    \/ \E c \in AbortConvs \cap (convs \cup {Root}), b \in BOOLEAN :
          AbortConversation(c, b)
    \/ \E c \in InputConvs : Submit(c)
    \/ \E t \in Tasks : Retry(t)
    \/ \E t \in AbortTasks : Abort(t, FALSE)

Reservation == ReserveBegin \/ ReserveAbandoned \/ Reserve
Reconciliation == StartPass \/ Reconcile
Step(t) == FirstStep(t) \/ EndPhase(t, FALSE) \/ EndAbort(t) \/ Unwind(t)

TaskCode(t) ==
    \/ EndPhase(t, TRUE)
    \/ HandlerCommit(t)
    \/ \E s \in Shapes : HandlerCreate(t, s)
    \/ TakeInputs(t) \/ OpenConversation(t)
    \/ AbortOwned(t)

Next ==
    \/ Host
    \/ Reservation \/ Reconciliation
    \/ \E t \in Tasks : Step(t) \/ TaskCode(t)
    \/ (\E t \in Tasks : Tick(t)) \/ Timer \/ RegistryChange
    \/ Crash \/ Open \/ Close \/ CloseDone

Spec == Init /\ [][Next]_vars
=============================================================================
