--------------------------- MODULE TaskIndexProofs ---------------------------
(***************************************************************************)
(* Proofs that the indexes of the task scheduler lose no work: #runnable,  *)
(* #dirty, #cascadePending, #finalizeChecks and #reconcileScheduled are    *)
(* kept up incrementally by #observe and #track, and the inductive         *)
(* invariants below say what a record that is in none of them may look     *)
(* like.  As in TaskSchedulerProofs most of the argument is about a Commit *)
(* and its publication, whichever action it belongs to.                    *)
(***************************************************************************)
EXTENDS TaskSchedulerProofs, WellFoundedInduction

USE DEF RunStatuses, LiveStatuses, Outcomes

-----------------------------------------------------------------------------
(* Least and greatest elements *)

LEMMA Least ==
  ASSUME NEW S \in SUBSET Nat, S # {}
  PROVE \E m \in S : \A k \in S : m <= k
<1> DEFINE R == {ss \in Nat \X Nat : ss[1] < ss[2]}
<1>1. IsWellFoundedOn(R, Nat)
  BY NatLessThanWellFounded DEF OpToRel
<1> HIDE DEF R
<1>2. PICK m \in S : \A k \in S : <<k, m>> \notin R
  BY <1>1, WFMin
<1>3. \A k \in S : ~(k < m)
  BY <1>2 DEF R
<1> QED
  BY <1>3

LEMMA Greatest ==
  ASSUME NEW S \in SUBSET Tasks, S # {}
  PROVE \E m \in S : \A k \in S : k <= m
<1> DEFINE T == {MaxTasks - k : k \in S}
<1>1. MaxTasks \in Nat /\ \A k \in S : k \in Nat /\ k <= MaxTasks
  BY BoundsAssumption DEF Tasks
<1>2. T \in SUBSET Nat /\ T # {}
  BY <1>1
<1>3. PICK n \in T : \A j \in T : n <= j
  BY <1>2, Least
<1>4. PICK m \in S : n = MaxTasks - m
  BY <1>3
<1>5. ASSUME NEW k \in S PROVE k <= m
  <2>1. MaxTasks - m <= MaxTasks - k
    BY <1>3, <1>4
  <2> QED
    BY <1>1, <2>1
<1> QED
  BY <1>5

-----------------------------------------------------------------------------
(* The ownership tree *)

(* Tasks are created in order, below tasks that are there; of two tasks    *)
(* above a third, the farther is above the nearer, which is not background.*)
Tree ==
    /\ \A d \in Tasks : \A p \in task[d].above : p < d
    /\ \A d \in Tasks : \A p, q \in task[d].above :
         q < p => ~task[p].background /\ q \in task[p].above
    /\ \A d, e \in Tasks : Exists(task, d) /\ e < d => Exists(task, e)

LEMMA TreeKept ==
  ASSUME IInv, Tree, IInv', Commit(task')
  PROVE Tree'
<1>1. \A d \in Tasks : task[d].above \subseteq Tasks /\ task'[d].above \subseteq Tasks
  BY RecordsType DEF IInv, TypeOK, Records
<1>2. ASSUME NEW d \in Tasks, Exists(task, d)
      PROVE  task'[d].above = task[d].above /\ task'[d].background = task[d].background
  BY <1>2, ExistsKept DEF Next1, Evolves, Kept
<1>3. ASSUME NEW d \in Tasks, Newborn(task', d)
      PROVE  /\ \A p \in task'[d].above : Exists(task, p) /\ p < d
             /\ \A p, q \in task'[d].above :
                  q < p => ~task[p].background /\ q \in task[p].above
  <2>1. \A p \in task'[d].above : p \in Tasks /\ Exists(task, p)
    BY <1>1, <1>3 DEF Newborn
  <2>2. ASSUME NEW p \in task'[d].above PROVE p < d
    <3>1. p # d /\ ~(d < p)
      BY <1>3, <2>1 DEF Newborn, Tree
    <3> QED
      BY <2>1, <3>1 DEF Tasks
  <2>3. PICK p \in Convs : task'[d].above = Through(task, p)
    BY <1>3 DEF Newborn
  <2>4. CASE p = Root
    BY <2>1, <2>2, <2>3, <2>4 DEF Through
  <2>5. CASE p # Root
    <3>1. p \in Tasks
      BY <2>5 DEF Convs, Root, Tasks
    <3>2. task'[d].above = {p} \cup (IF task[p].background THEN {} ELSE task[p].above)
      BY <2>3, <2>5 DEF Through
    <3>3. \A q \in task[p].above : q \in Tasks /\ q < p
      BY <1>1, <3>1 DEF Tree
    <3>4. ASSUME NEW r \in task'[d].above, NEW q \in task'[d].above, q < r
          PROVE  ~task[r].background /\ q \in task[r].above
      <4>1. q # p
        BY <3>2, <3>3, <3>4, <3>1 DEF Tasks
      <4>2. ~task[p].background /\ q \in task[p].above
        BY <3>2, <4>1
      <4> QED
        BY <3>1, <3>2, <3>4, <4>2 DEF Tree
    <3> QED
      BY <2>1, <2>2, <3>4
  <2> QED
    BY <2>4, <2>5
<1>4. ASSUME NEW d \in Tasks
      PROVE  /\ \A p \in task'[d].above : Exists(task, p) /\ p < d
             /\ \A p, q \in task'[d].above :
                  q < p => ~task[p].background /\ q \in task[p].above
  <2>1. CASE Newborn(task', d)
    BY <1>3, <2>1
  <2>2. CASE Next1(task[d], task'[d])
    <3>1. task'[d].above = task[d].above
      BY <2>2 DEF Next1, Evolves, Kept
    <3> QED
      BY <3>1 DEF IInv, Placed, Tree
  <2> QED
    BY <2>1, <2>2 DEF Commit
<1>5. ASSUME NEW d \in Tasks, NEW e \in Tasks, Exists(task', d), e < d
      PROVE  Exists(task', e)
  <2>1. Exists(task, e)
    BY <1>5 DEF Commit, Newborn, Next1, Evolves, Exists, Tree
  <2> QED
    BY <2>1, ExistsKept
<1> QED
  BY <1>1, <1>2, <1>4, <1>5 DEF Tree

(* A task whose last owned work ended in a commit is freed by the one that *)
(* ended below it: it is the nearest live task above.                      *)
LEMMA Freed ==
  ASSUME IInv, Tree, Commit(task'), NEW t \in Tasks, Live(task', t),
         OwnedLive(task, t) # {}, OwnedLive(task', t) = {}
  PROVE \E e \in Ended(task') : t \in NearestLiveAbove(task', e)
<1>1. PICK e \in OwnedLive(task, t) : TRUE
  OBVIOUS
<1>2. e \in Tasks /\ Live(task, e) /\ ~task[e].background /\ t \in task[e].above
  BY DEF OwnedLive
<1>3. Exists(task, e) /\ Next1(task[e], task'[e])
  BY <1>2, ExistsKept DEF Live, Exists
<1>4. /\ task'[e].above = task[e].above /\ ~task'[e].background
      /\ ~Live(task', e) => task'[e].status = "terminal"
  BY <1>2, <1>3 DEF Next1, Evolves, Kept, Live
<1>5. ~Live(task', e)
  BY <1>2, <1>4 DEF OwnedLive
<1>6. e \in Ended(task')
  BY <1>2, <1>4, <1>5 DEF Ended
<1>7. task[e].above \subseteq Tasks
  BY <1>2, RecordsType DEF IInv, Records
<1>8. ASSUME NEW q \in task[e].above, Live(task', q) PROVE q <= t
  <2>1. SUFFICES ASSUME t < q PROVE FALSE
    BY <1>7 DEF Tasks
  <2>2. ~task[q].background /\ t \in task[q].above
    BY <1>2, <2>1 DEF Tree
  <2>3. Exists(task, q)
    BY <1>2 DEF IInv, Placed
  <2>4. task'[q].above = task[q].above /\ task'[q].background = task[q].background
    BY <1>7, <2>3, ExistsKept DEF Next1, Evolves, Kept
  <2>5. q \in OwnedLive(task', t)
    BY <1>7, <1>8, <2>2, <2>4 DEF OwnedLive
  <2> QED
    BY <2>5
<1>9. t \in NearestLiveAbove(task', e)
  BY <1>2, <1>4, <1>8 DEF NearestLiveAbove
<1> QED
  BY <1>6, <1>9

-----------------------------------------------------------------------------
(* Wakeups *)

(* A task that could be reserved is a candidate; once scheduling resumed   *)
(* a pass is wanted, underway or armed for it, unless only a registry      *)
(* change or a mark can let it be reserved.                                *)
Woken(t) ==
    /\ t \in Candidates
    /\ enabled =>
         \/ dirty \/ reserving
         \/ t \in DueSleepers /\ timer
         \/ ~Fits(t) /\ task[t].mark # "request"
         \/ Withheld(t) /\ ~Marked(task, t)

WakeInv ==
    /\ ~up => ~enabled
    /\ up /\ ~closing => \A t \in Tasks : Eligible(t) => Woken(t)

(* What a publication leaves of a task that may be reserved after it: a    *)
(* candidate of a wanted pass, or the task as it was.                      *)
LEMMA WakePublished ==
  ASSUME IInv, Tree, Commit(task'), NEW run \in SUBSET Tasks, NEW fin, NEW casc, NEW kick,
         NEW new, Publish(new, run, fin, casc, kick), NEW t \in Tasks, Eligible(t)'
  PROVE \/ t \in runnable' /\ dirty'
        \/ /\ task'[t] = task[t]
           /\ inv[t].mode = "none" => Eligible(t)
           /\ t \in DueSleepers <=> t \in DueSleepers'
           /\ t \in run => t \in runnable'
           /\ dirty' \/ task' = task
<1>1. /\ task' = new /\ due' = {u \in due : task'[u].status = "sleeping"}
      /\ runnable' = TrackRunnable(task', run)
      /\ (kick \/ Changed(task') # {}) => dirty'
  BY DEF Publish
<1>2. /\ Live(task', t) /\ ~Completing(task', t) /\ task'[t].status \in RunStatuses
      /\ WaitingOn(task', t) = {} /\ ~Parked(task', t)
      /\ task'[t].status = "sleeping" => Marked(task', t) \/ t \in due'
  BY DEF Eligible, Live, Completing, WaitingOn, NotDue, Parked
<1>3. ASSUME t \in run \cup Changed(task')
                 \cup {w \in Tasks : Waits(task', w) /\ task'[w].on \cap Ended(task') # {}}
                 \cup {p \in UNION {NearestLiveAbove(task', e) : e \in Ended(task')} :
                          Marked(task', p)}
      PROVE  t \in runnable'
  BY <1>1, <1>2, <1>3 DEF TrackRunnable
<1>4. Ended(task') \subseteq Changed(task')
  BY DEF Ended, Changed, Live
<1>5. CASE t \in Changed(task')
  BY <1>1, <1>3, <1>5
<1>6. CASE t \notin Changed(task') /\ WaitingOn(task, t) # {}
  <2>1. task'[t] = task[t]
    BY <1>6 DEF Changed
  <2>2. CASE Marked(task, t)
    <3>1. OwnedLive(task, t) # {} /\ OwnedLive(task', t) = {} /\ Marked(task', t)
      BY <1>2, <1>6, <2>1, <2>2 DEF WaitingOn, Marked
    <3>2. PICK e \in Ended(task') : t \in NearestLiveAbove(task', e)
      BY <1>2, <3>1, Freed
    <3> QED
      BY <1>1, <1>3, <1>4, <3>1, <3>2
  <2>3. CASE ~Marked(task, t)
    <3>1. Waits(task', t) /\ task'[t].on = task[t].on
      BY <1>6, <2>1, <2>3 DEF WaitingOn, Waits
    <3>2. PICK d \in task[t].on : Live(task, d)
      BY <1>6, <2>3 DEF WaitingOn, Waits
    <3>3. ~Live(task', d)
      BY <1>2, <2>1, <2>3, <3>1 DEF WaitingOn, Marked
    <3>4. d \in Tasks
      BY RecordsType DEF IInv, Records
    <3>5. task'[d].status = "terminal"
      BY <3>2, <3>3, <3>4, ExistsKept DEF Next1, Evolves, Live, Exists
    <3>6. d \in Ended(task')
      BY <3>2, <3>4, <3>5 DEF Ended
    <3> QED
      BY <1>1, <1>3, <1>4, <3>1, <3>6
  <2> QED
    BY <2>2, <2>3
<1>7. CASE t \notin Changed(task') /\ WaitingOn(task, t) = {}
  <2>1. task'[t] = task[t]
    BY <1>7 DEF Changed
  <2>2. task[t].status = "sleeping" => (t \in due <=> t \in due')
    BY <1>1, <2>1
  <2>3. NotDue(task, t) = (NotDue(task, t)')
    BY <2>1, <2>2 DEF NotDue, Marked
  <2>4. inv[t].mode = "none" => Eligible(t)
    BY <1>2, <1>7, <2>1, <2>2 DEF Eligible, Live, Completing, Parked, NotDue, Marked
  <2>5. t \in DueSleepers <=> t \in DueSleepers'
    BY <2>1, <2>2 DEF DueSleepers, NotDue, Marked
  <2>6. dirty' \/ task' = task
    <3>1. CASE Changed(task') # {}
      BY <1>1, <3>1
    <3>2. CASE Changed(task') = {}
      <4>1. \A u \in Tasks : task'[u] = task[u]
        BY <3>2 DEF Changed
      <4> QED
        BY <4>1, RecordsType DEF IInv, Commit
    <3> QED
      BY <3>1, <3>2
  <2> QED
    BY <1>3, <2>1, <2>4, <2>5, <2>6
<1> QED
  BY <1>5, <1>6, <1>7

(* A publication that keeps the candidates loses no wakeup.                *)
LEMMA WakePublish ==
  ASSUME IInv, Tree, WakeInv, Commit(task'), NEW run \in SUBSET Tasks, NEW fin,
         NEW casc, NEW kick \in BOOLEAN, NEW new, Publish(new, run, fin, casc, kick),
         runnable \subseteq run,
         UNCHANGED <<installed, up, closing, timer>>, up,
         kick \/ (enabled' = enabled /\ reserving' = reserving),
         \A t \in Tasks : inv'[t].mode = inv[t].mode \/ (t \in run /\ kick)
  PROVE WakeInv'
<1>1. SUFFICES ASSUME ~closing, NEW t \in Tasks, Eligible(t)' PROVE Woken(t)'
  BY DEF WakeInv
<1>2. kick => dirty'
  BY DEF Publish
<1>3. CASE t \in runnable' /\ dirty'
  BY <1>3 DEF Woken, Candidates
<1>4. CASE /\ task'[t] = task[t]
           /\ inv[t].mode = "none" => Eligible(t)
           /\ t \in DueSleepers <=> t \in DueSleepers'
           /\ t \in run => t \in runnable'
           /\ dirty' \/ task' = task
  <2>1. CASE inv'[t].mode # inv[t].mode
    BY <1>2, <1>4, <2>1 DEF Woken, Candidates
  <2>2. CASE inv'[t].mode = inv[t].mode
    <3>1. Eligible(t)
      BY <1>1, <1>4, <2>2 DEF Eligible
    <3>2. Woken(t)
      BY <1>1, <3>1 DEF WakeInv
    <3>3. t \in Candidates'
      BY <1>4, <3>2 DEF Woken, Candidates
    <3>4. CASE dirty'
      BY <3>3, <3>4 DEF Woken
    <3>5. CASE ~dirty'
      <4>1. task' = task /\ ~kick /\ ~dirty
        BY <1>2, <1>4, <3>5 DEF Publish
      <4>2. /\ Fits(t) = (Fits(t)') /\ Withheld(t) = (Withheld(t)')
            /\ Marked(task, t) = (Marked(task, t)')
        BY <4>1 DEF Fits, Withheld, BelowCancelled, CancellationIntent, Live, Marked,
                    FailedOutcome
      <4> QED
        BY <1>4, <3>2, <3>3, <4>1, <4>2 DEF Woken
    <3> QED
      BY <3>4, <3>5
  <2> QED
    BY <2>1, <2>2
<1> QED
  BY <1>1, <1>3, <1>4, WakePublished

(* The reservation pass takes each candidate, ends it, or keeps it for a   *)
(* reason that still withholds it.                                         *)
LEMMA WakeReserve ==
  ASSUME IInv, Tree, WakeInv, Commit(task'), Reserve
  PROVE WakeInv'
<1> DEFINE run == Candidates \ (Dropped \cup Reserved)
<1>1. /\ up /\ UNCHANGED <<up, closing, enabled, installed, timer>>
      /\ inv' = [u \in Tasks |-> IF u \in Reserved THEN NewInvocation(u) ELSE inv[u]]
  BY DEF Reserve, environment
<1>2. task' = [u \in Tasks |->
                 IF u \in Worn THEN Terminated(task, u, "failed")
                 ELSE IF u \in Orphaned THEN Terminated(task, u, "orphaned")
                 ELSE IF u \in Reserved THEN WithState(task[u], "running")
                 ELSE task[u]]
  BY DEF Reserve, Publish
<1>3. \E new : Publish(new, run, finalize, Held # {}, FALSE)
  BY DEF Reserve
<1>4. run \in SUBSET Tasks
  BY CandidatesTyped DEF IInv
<1> HIDE DEF run
<1>5. SUFFICES ASSUME ~closing, NEW t \in Tasks, Eligible(t)' PROVE Woken(t)'
  BY <1>1 DEF WakeInv
<1>6. CASE t \in runnable' /\ dirty'
  BY <1>6 DEF Woken, Candidates
<1>7. CASE /\ task'[t] = task[t]
           /\ inv[t].mode = "none" => Eligible(t)
           /\ t \in DueSleepers <=> t \in DueSleepers'
           /\ t \in run => t \in runnable'
           /\ dirty' \/ task' = task
  <2>1. inv'[t].mode = "none"
    BY <1>5 DEF Eligible
  <2>2. t \notin Reserved /\ inv[t].mode = "none"
    BY <1>1, <2>1 DEF NewInvocation
  <2>3. Eligible(t) /\ t \in Candidates
    BY <1>1, <1>5, <1>7, <2>2 DEF WakeInv, Woken
  <2>4. t \notin Dropped
    BY <2>3 DEF Dropped, Eligible
  <2>5. t \in Candidates'
    BY <1>7, <2>2, <2>3, <2>4 DEF run, Candidates
  <2>6. \A o \in Outcomes : Terminated(task, t, o) # task[t]
    <3>1. SUFFICES ASSUME NEW o \in Outcomes, Terminated(task, t, o) = task[t]
                   PROVE  FALSE
      OBVIOUS
    <3>2. task \in [Tasks -> Records] /\ WellFormed(task[t]) /\ task[t].status \in RunStatuses
      BY <2>3, RecordsType DEF IInv, Eligible, Live, Completing
    <3>3. Terminated(task, t, o) = WithOutcome(task[t], "completing", o)
          \/ Terminated(task, t, o) = WithOutcome(task[t], "terminal", o)
      BY DEF Terminated
    <3>4. task[t] \in Records
      BY <3>2
    <3>5. \A s \in {"completing", "terminal"} : WithOutcome(task[t], s, o).status = s
      BY <3>4 DEF WithOutcome, WithState, Records
    <3> QED
      BY <3>1, <3>2, <3>3, <3>5
  <2>7. t \notin Worn /\ t \notin Orphaned
    BY <1>2, <1>7, <2>6 DEF Orphaned, Blocked
  <2>8. t \in Held \/ t \in Blocked
    BY <2>2, <2>3, <2>4, <2>7 DEF Reserved
  <2>9. CASE t \in Blocked
    <3>1. ~Fits(t) /\ task[t].mark # "request"
      BY <2>7, <2>9 DEF Blocked, Orphaned
    <3> QED
      BY <1>1, <1>7, <2>5, <3>1 DEF Woken, Fits
  <2>10. CASE t \in Held
    <3>1. Withheld(t) /\ ~Marked(task, t)
      BY <2>10 DEF Held, Withheld
    <3>2. CASE dirty'
      BY <2>5, <3>2 DEF Woken
    <3>3. CASE task' = task
      BY <2>5, <3>1, <3>3 DEF Woken, Withheld, BelowCancelled, CancellationIntent,
                              Live, Marked, FailedOutcome
    <3> QED
      BY <1>7, <3>2, <3>3
  <2> QED
    BY <2>8, <2>9, <2>10
<1> QED
  BY <1>3, <1>4, <1>5, <1>6, <1>7, WakePublished

(* A step that publishes nothing: the flags it sets are those of a pass.   *)
LEMMA WakeFlags ==
  ASSUME WakeInv, UNCHANGED <<task, due, up>>, installed' = installed \/ dirty',
         ~closing' => ~closing, up' /\ enabled' => enabled \/ dirty',
         ~up => ~enabled',
         \A t \in Tasks : inv'[t].mode = "none" => inv[t].mode = "none" \/ closing',
         runnable \subseteq runnable', dirty \/ reserving => dirty' \/ reserving',
         timer => timer' \/ dirty'
  PROVE WakeInv'
<1>1. SUFFICES ASSUME up, ~closing', NEW t \in Tasks, Eligible(t)' PROVE Woken(t)'
  BY DEF WakeInv
<1>2. Eligible(t)
  BY <1>1 DEF Eligible, Live, Completing, WaitingOn, OwnedLive, NotDue, Parked,
              Marked, Waits
<1>3. Woken(t)
  BY <1>1, <1>2 DEF WakeInv
<1>4. /\ DueSleepers = DueSleepers' /\ (dirty' \/ Fits(t) = (Fits(t)'))
      /\ Marked(task, t) = (Marked(task, t)') /\ Withheld(t) = (Withheld(t)')
  BY DEF DueSleepers, NotDue, Fits, Withheld, BelowCancelled, CancellationIntent, Live,
         Marked, FailedOutcome
<1>5. t \in Candidates'
  BY <1>3, <1>4 DEF Woken, Candidates
<1> QED
  BY <1>1, <1>3, <1>4, <1>5 DEF Woken

LEMMA WakeSame ==
  ASSUME WakeInv, UNCHANGED <<task, due, installed, up, enabled, closing, reserving,
                              timer, runnable, dirty>>,
         \A t \in Tasks : inv'[t].mode = inv[t].mode
  PROVE WakeInv'
<1>1. UNCHANGED <<task, due, up>> /\ installed' = installed
  OBVIOUS
<1>2. /\ runnable \subseteq runnable'
      /\ \A t \in Tasks : inv'[t].mode = "none" => inv[t].mode = "none"
  OBVIOUS
<1>3. ~up => ~enabled'
  BY DEF WakeInv
<1> QED
  BY <1>1, <1>2, <1>3, WakeFlags

LEMMA WakeHost ==
  ASSUME IInv, Tree, WakeInv, Commit(task'), Host
  PROVE WakeInv'
<1>1. runnable \in SUBSET Tasks /\ DueSleepers \subseteq Tasks
  BY CandidatesTyped DEF IInv, TypeOK
<1>2. CASE Resume
  BY <1>2, WakeFlags DEF Resume, durable, environment
<1>3. ASSUME NEW c, NEW s, HostCreate(c, s) PROVE WakeInv'
  <2>1. \E new : Publish(new, runnable, finalize, FALSE, FALSE)
    BY <1>3 DEF HostCreate
  <2> QED
    BY <1>1, <1>3, <2>1, WakePublish DEF HostCreate, Admitted, environment, process
<1>4. ASSUME NEW c, NEW b, AbortConversation(c, b) PROVE WakeInv'
  <2>1. \E new : Publish(new, runnable, finalize, FALSE, FALSE)
    BY <1>4 DEF AbortConversation
  <2>2. up /\ UNCHANGED <<environment, process, inv>>
    BY <1>4 DEF AbortConversation, Admitted
  <2> QED
    BY <1>1, <2>1, <2>2, WakePublish DEF environment, process
<1>5. ASSUME NEW c, Submit(c) PROVE WakeInv'
  BY <1>5, WakeSame DEF Submit, environment, process
<1>6. ASSUME NEW t \in Tasks, Retry(t) PROVE WakeInv'
  <2>1. \E new : Publish(new, runnable \cup DueSleepers, finalize, FALSE, TRUE)
    BY <1>6 DEF Retry
  <2>2. runnable \cup DueSleepers \in SUBSET Tasks /\ TRUE \in BOOLEAN
    BY <1>1
  <2> QED
    BY <1>6, <2>1, <2>2, WakePublish DEF Retry, Admitted, environment
<1>7. ASSUME NEW t \in Tasks, NEW keep, Abort(t, keep) PROVE WakeInv'
  <2>1. \E new : Publish(new, runnable, finalize, FALSE, FALSE)
    BY <1>7 DEF Abort
  <2> QED
    BY <1>1, <1>7, <2>1, WakePublish DEF Abort, Admitted, environment, process
<1> QED
  BY <1>2, <1>3, <1>4, <1>5, <1>6, <1>7, BoundsAssumption DEF Host

LEMMA WakeScheduler ==
  ASSUME IInv, Tree, WakeInv, Commit(task'), Reservation \/ Reconciliation
  PROVE WakeInv'
<1>1. runnable \in SUBSET Tasks /\ TRUE \in BOOLEAN /\ FALSE \in BOOLEAN
  BY DEF IInv, TypeOK
<1>2. CASE ReserveBegin
  BY <1>2, WakeFlags DEF ReserveBegin, Admitted, durable, environment, indexes
<1>3. CASE ReserveAbandoned
  <2>1. \E new : Publish(new, runnable, finalize, FALSE, TRUE)
    BY <1>3 DEF ReserveAbandoned
  <2> QED
    BY <1>1, <1>3, <2>1, WakePublish DEF ReserveAbandoned, environment
<1>4. CASE StartPass
  BY <1>4, WakeFlags DEF StartPass, durable, environment, process
<1>5. CASE Reconcile
  <2>1. \E new : Publish(new, runnable, {}, FALSE, FALSE)
    BY <1>5 DEF Reconcile
  <2> QED
    BY <1>1, <1>5, <2>1, WakePublish DEF Reconcile, Admitted, environment, process
<1> QED
  BY <1>2, <1>3, <1>4, <1>5, <1>1, WakeReserve DEF Reservation, Reconciliation

(* The end of an invocation kicks: its task is a candidate of a new pass.  *)
LEMMA WakeEnd ==
  ASSUME IInv, Tree, WakeInv, Commit(task'), Admitted, NEW t \in Tasks, NEW r,
         NEW casc, EndWith(t, r, casc), UNCHANGED <<environment, process>>
  PROVE WakeInv'
<1>1. Publish([task EXCEPT ![t] = r], runnable \cup {t}, finalize, casc, TRUE)
  BY DEF EndWith
<1>2. runnable \cup {t} \in SUBSET Tasks /\ TRUE \in BOOLEAN
  BY DEF IInv, TypeOK
<1>3. inv' = [inv EXCEPT ![t] = NoInv] /\ inv \in [Tasks -> Invocations]
  BY DEF EndWith, IInv, TypeOK
<1>4. \A u \in Tasks : inv'[u].mode = inv[u].mode \/ u \in runnable \cup {t}
  BY <1>3
<1> QED
  BY <1>1, <1>2, <1>4, WakePublish DEF Admitted, environment, process

LEMMA WakeContinue ==
  ASSUME IInv, WakeInv, NEW t \in Tasks, Continue(t), UNCHANGED <<environment, process>>
  PROVE WakeInv'
<1>1. \A u \in Tasks : inv'[u].mode = inv[u].mode
  BY DEF Continue, IInv, TypeOK, Invocations
<1> QED
  BY <1>1, WakeSame DEF Continue, environment, process, indexes

LEMMA WakeTasks ==
  ASSUME IInv, Tree, WakeInv, Commit(task'), NEW t \in Tasks, Step(t) \/ TaskCode(t)
  PROVE WakeInv'
<1>1. runnable \in SUBSET Tasks /\ TRUE \in BOOLEAN /\ FALSE \in BOOLEAN
  BY DEF IInv, TypeOK
<1>2. ASSUME FirstStep(t) \/ EndAbort(t) \/ \E threw : EndPhase(t, threw)
      PROVE WakeInv'
  <2>1. Admitted /\ UNCHANGED <<environment, process>>
    BY <1>2 DEF FirstStep, EndAbort, EndPhase
  <2>2. Continue(t) \/ \E r, casc : EndWith(t, r, casc)
    BY <1>2 DEF FirstStep, EndAbort, EndPhase
  <2> QED
    BY <2>1, <2>2, WakeEnd, WakeContinue
<1>3. CASE Unwind(t)
  BY <1>3, WakeFlags DEF Unwind, durable, environment, process, indexes
<1>4. CASE HandlerCommit(t) \/ (\E s \in Shapes : HandlerCreate(t, s)) \/ AbortOwned(t)
  <2>1. \E new : Publish(new, runnable, finalize, FALSE, FALSE)
    BY <1>4 DEF HandlerCommit, HandlerCreate, AbortOwned, Abort
  <2>2. up /\ UNCHANGED <<environment, process, inv>>
    BY <1>4 DEF HandlerCommit, HandlerCreate, AbortOwned, Abort, Gated, Admitted
  <2> QED
    BY <1>1, <2>1, <2>2, WakePublish DEF environment, process
<1>5. CASE TakeInputs(t) \/ OpenConversation(t)
  BY <1>5, WakeSame DEF TakeInputs, OpenConversation, environment, process, indexes
<1> QED
  BY <1>2, <1>3, <1>4, <1>5 DEF Step, TaskCode

LEMMA WakeProcess ==
  ASSUME IInv, WakeInv,
         \/ \E t \in Tasks : Tick(t)
         \/ Timer \/ RegistryChange \/ Crash \/ Open \/ Close \/ CloseDone
  PROVE WakeInv'
<1>1. ASSUME NEW u \in Tasks, Tick(u) PROVE WakeInv'
  <2>1. /\ UNCHANGED <<task, inv, up, enabled, closing, reserving, installed, runnable, dirty>>
        /\ due' = due \cup {u} /\ task[u].status = "sleeping"
    BY <1>1 DEF Tick, environment, indexes
  <2>2. up /\ enabled /\ ~closing => timer' = TRUE \/ dirty
    BY <1>1 DEF Tick
  <2>3. timer /\ up /\ enabled /\ ~closing => timer'
    BY <1>1 DEF Tick
  <2>4. SUFFICES ASSUME up, ~closing, NEW t \in Tasks, Eligible(t)' PROVE Woken(t)'
    BY <2>1 DEF WakeInv
  <2>5. CASE t = u
    <3>1. t \in DueSleepers'
      BY <2>1, <2>5 DEF DueSleepers, NotDue
    <3> QED
      BY <2>1, <2>2, <2>4, <3>1 DEF Woken, Candidates
  <2>6. CASE t # u
    <3>1. Eligible(t)
      BY <2>1, <2>4, <2>6 DEF Eligible, Live, Completing, WaitingOn, OwnedLive, NotDue,
                              Parked, Marked, Waits
    <3>2. Woken(t)
      BY <2>4, <3>1 DEF WakeInv
    <3>3. t \in DueSleepers => t \in DueSleepers'
      BY <2>1 DEF DueSleepers, NotDue, Marked
    <3>4. /\ Fits(t) = (Fits(t)') /\ Withheld(t) = (Withheld(t)')
          /\ Marked(task, t) = (Marked(task, t)')
      BY <2>1 DEF Fits, Withheld, BelowCancelled, CancellationIntent, Live, Marked,
                  FailedOutcome
    <3> QED
      BY <2>1, <2>3, <2>4, <3>2, <3>3, <3>4 DEF Woken, Candidates
  <2> QED
    BY <2>5, <2>6
<1>2. CASE Timer
  BY <1>2, WakeFlags DEF Timer, durable, environment
<1>3. CASE RegistryChange
  BY <1>3, WakeFlags DEF RegistryChange, durable, process, indexes
<1>4. CASE Crash \/ CloseDone
  BY <1>4 DEF Crash, CloseDone, Forget, WakeInv
<1>5. CASE Open
  <2>1. ~up /\ enabled' = enabled /\ runnable' = {t \in Tasks : task'[t].status \in RunStatuses}
    BY <1>5 DEF Open
  <2>2. ~enabled'
    BY <2>1 DEF WakeInv
  <2>3. ASSUME NEW t \in Tasks, Eligible(t)' PROVE t \in runnable'
    BY <2>1, <2>3 DEF Eligible, Live, Completing
  <2> QED
    BY <2>2, <2>3 DEF WakeInv, Woken, Candidates
<1>6. CASE Close
  BY <1>6 DEF Close, durable, environment, indexes, WakeInv
<1> QED
  BY <1>1, <1>2, <1>3, <1>4, <1>5, <1>6

LEMMA WakeKept ==
  ASSUME IInv, Tree, WakeInv, Commit(task'), [Next]_vars
  PROVE WakeInv'
<1>1. CASE UNCHANGED vars
  BY <1>1, WakeSame DEF vars
<1> QED
  BY <1>1, WakeHost, WakeScheduler, WakeTasks, WakeProcess DEF Next

-----------------------------------------------------------------------------
(* Cascades *)

(* Task t carries the mark its nearest owner with intent passes on.        *)
Derived(tk, t) ==
    Live(tk, t) /\ ~tk[t].background =>
        \A p \in CancellingOwner(tk, t) :
            IF tk[p].mark = "restart" /\ ~FailedOutcome(tk, p)
            THEN Marked(tk, t) ELSE tk[t].mark = "request"

Pending == cascade \/ (pass.queued /\ pass.cascade)

(* Unless a cascade is pending every mark is derived and no input is queued*)
(* below a cancelled owner; a pending one schedules a pass.                *)
CascadeInv ==
    /\ queued \subseteq convs \cup {Root}
    /\ up =>
        /\ cascade => recon
        /\ \/ Pending
           \/ /\ \A t \in Tasks : Derived(task, t)
              /\ \A c \in queued : ~BelowCancelled(task, Through(task, c))

(* A failed outcome stays failed, and intent stays with a live owner.      *)
LEMMA IntentAfter ==
  ASSUME IInv, Commit(task'), NEW p \in Tasks
  PROVE /\ FailedOutcome(task, p) => FailedOutcome(task', p)
        /\ CancellationIntent(task, p) /\ Live(task', p) => CancellationIntent(task', p)
<1>1. WellFormed(task[p])
  BY RecordsType DEF IInv
<1>2. Exists(task, p) => Next1(task[p], task'[p])
  BY ExistsKept
<1>3. FailedOutcome(task, p) => FailedOutcome(task', p)
  BY <1>1, <1>2 DEF FailedOutcome, Next1, Evolves, WellFormed, Exists
<1>4. Marked(task, p) /\ Live(task, p) /\ Live(task', p) => Marked(task', p)
  BY <1>2 DEF Marked, Live, Exists, Next1, Evolves
<1> QED
  BY <1>3, <1>4 DEF CancellationIntent

(* A commit that touches no cascade adds no intent.                        *)
LEMMA IntentBefore ==
  ASSUME IInv, Commit(task'), ~CascadeTouched(task'), NEW p \in Tasks,
         CancellationIntent(task', p)
  PROVE /\ CancellationIntent(task, p)
        /\ FailedOutcome(task', p) => FailedOutcome(task, p)
        /\ task'[p].mark # "none" => task[p].mark = task'[p].mark
<1>1. Live(task', p) /\ (Marked(task', p) \/ FailedOutcome(task', p))
  BY DEF CancellationIntent
<1>2. /\ Marked(task', p) => Marked(task, p)
      /\ ~(task[p].mark = "restart" /\ task'[p].mark = "request")
      /\ p \notin Entered(task', "completing")
  <2>1. CASE p \in Changed(task')
    BY <1>1, <2>1 DEF CascadeTouched, CancellationIntent
  <2>2. CASE p \notin Changed(task')
    BY <2>2 DEF Changed, Entered, Marked
  <2> QED
    BY <2>1, <2>2
<1>3. ~Newborn(task', p)
  BY <1>1 DEF Newborn, Marked, FailedOutcome
<1>4. Next1(task[p], task'[p])
  BY <1>3 DEF Commit
<1>5. Live(task, p)
  BY <1>1, <1>4 DEF Next1, Evolves, Live
<1>6. WellFormed(task[p]) /\ WellFormed(task'[p])
  BY <1>4, RecordsType DEF IInv, Next1
<1>7. FailedOutcome(task', p) => FailedOutcome(task, p)
  <2>1. SUFFICES ASSUME FailedOutcome(task', p) PROVE FailedOutcome(task, p)
    OBVIOUS
  <2>2. task'[p].status = "completing" /\ task'[p].outcome # "completed"
    BY <1>1, <2>1 DEF FailedOutcome, Live
  <2>3. task[p].status = "completing"
    BY <1>2, <2>2 DEF Entered
  <2>4. task'[p].outcome = task[p].outcome
    BY <1>4, <1>6, <2>3 DEF Next1, Evolves, WellFormed
  <2> QED
    BY <2>2, <2>3, <2>4 DEF FailedOutcome
<1>8. task'[p].mark # "none" => task[p].mark = task'[p].mark
  BY <1>1, <1>2, <1>4, <1>6 DEF Marked, Live, Next1, Evolves, WellFormed, Records
<1> QED
  BY <1>1, <1>2, <1>5, <1>7 , <1>8 DEF CancellationIntent

(* Such a commit leaves no mark to derive that there was not before.       *)
LEMMA DerivedKept ==
  ASSUME IInv, Commit(task'), ~CascadeTouched(task'), NEW t \in Tasks,
         Live(task', t) => Derived(task, t)
  PROVE Derived(task', t)
<1>1. SUFFICES ASSUME Live(task', t), ~task'[t].background,
                      NEW p \in CancellingOwner(task', t)
               PROVE  IF task'[p].mark = "restart" /\ ~FailedOutcome(task', p)
                      THEN Marked(task', t) ELSE task'[t].mark = "request"
  BY DEF Derived
<1>2. /\ p \in task'[t].above /\ CancellationIntent(task', p)
      /\ \A q \in task'[t].above : CancellationIntent(task', q) => q <= p
  BY DEF CancellingOwner
<1>3. task'[t].above \subseteq Tasks
  BY DEF Commit, Records
<1>4. /\ CancellationIntent(task, p)
      /\ FailedOutcome(task', p) => FailedOutcome(task, p)
      /\ task'[p].mark # "none" => task[p].mark = task'[p].mark
  BY <1>2, <1>3, IntentBefore
<1>5. CASE Newborn(task', t)
  <2>1. ~Exists(task, t) /\ task'[t].mark = "none" /\ task'[t].status = "pending"
    BY <1>5 DEF Newborn
  <2>2. t \in Changed(task')
    BY <2>1 DEF Changed, Exists
  <2>3. BelowCancelled(task', task'[t].above)
    BY <1>2 DEF BelowCancelled
  <2> QED
    BY <1>1, <2>1, <2>2, <2>3 DEF CascadeTouched, Marked
<1>6. CASE Next1(task[t], task'[t])
  <2>1. /\ Live(task, t) /\ task'[t].above = task[t].above
        /\ task'[t].background = task[t].background
        /\ task[t].mark = "request" => task'[t].mark = "request"
        /\ Marked(task, t) => Marked(task', t)
    BY <1>1, <1>6 DEF Next1, Evolves, Kept, Live, Marked
  <2>2. ASSUME NEW q \in task[t].above, CancellationIntent(task, q) PROVE q <= p
    <3>1. t \in OwnedLive(task', q)
      BY <1>1, <2>1 DEF OwnedLive
    <3>2. Live(task', q)
      BY <1>3, <2>1, <2>2, <3>1 DEF CancellationIntent, Commit
    <3> QED
      BY <1>2, <1>3, <2>1, <2>2, <3>2, IntentAfter
  <2>3. p \in CancellingOwner(task, t)
    BY <1>2, <1>4, <2>1, <2>2 DEF CancellingOwner
  <2>4. IF task[p].mark = "restart" /\ ~FailedOutcome(task, p)
        THEN Marked(task, t) ELSE task[t].mark = "request"
    BY <1>1, <2>1, <2>3 DEF Derived
  <2>5. p \in Tasks /\ (FailedOutcome(task, p) => FailedOutcome(task', p))
    BY <1>2, <1>3, IntentAfter
  <2>6. CASE task'[p].mark = "restart" /\ ~FailedOutcome(task', p)
    BY <1>4, <2>1, <2>4, <2>5, <2>6
  <2>7. CASE ~(task'[p].mark = "restart" /\ ~FailedOutcome(task', p))
    <3>1. CASE FailedOutcome(task', p)
      BY <1>4, <2>1, <2>4, <3>1, <2>7
    <3>2. CASE ~FailedOutcome(task', p)
      <4>1. task'[p].mark # "restart" /\ task'[p].mark # "none"
        BY <1>2, <2>7, <3>2 DEF CancellationIntent, Marked
      <4> QED
        BY <1>4, <2>1, <2>4, <2>7, <3>2, <4>1
    <3> QED
      BY <3>1, <3>2
  <2> QED
    BY <2>6, <2>7
<1> QED
  BY <1>5, <1>6 DEF Commit

LEMMA BelowBefore ==
  ASSUME IInv, Commit(task'), ~CascadeTouched(task'), NEW c \in convs \cup {Root},
         BelowCancelled(task', Through(task', c))
  PROVE BelowCancelled(task, Through(task, c))
<1>1. c # Root => c \in Tasks /\ Exists(task, c)
  BY DEF IInv, TypeOK, Placed
<1>2. c # Root => task'[c].above = task[c].above /\ task'[c].background = task[c].background
  BY <1>1, ExistsKept DEF Next1, Evolves, Kept
<1>3. Through(task', c) = Through(task, c)
  BY <1>2 DEF Through
<1>4. Through(task, c) \subseteq Tasks
  BY <1>1, RecordsType DEF IInv, Through, Records
<1>5. PICK p \in Through(task, c) : CancellationIntent(task', p)
  BY <1>3 DEF BelowCancelled
<1> QED
  BY <1>4, <1>5, IntentBefore DEF BelowCancelled

LEMMA PublishFlags ==
  ASSUME NEW run, NEW fin, NEW casc \in BOOLEAN, NEW kick, NEW new,
         Publish(new, run, fin, casc, kick), cascade => recon
  PROVE /\ cascade' => recon'
        /\ cascade \/ casc => cascade'
        /\ ~cascade' => ~CascadeTouched(task')
        /\ recon => recon'
        /\ Ended(task') # {} => recon'
        /\ Entered(task', "completing") # {} => recon'
<1>1. /\ task' = new
      /\ cascade' = (cascade \/ casc \/ CascadeTouched(new))
      /\ recon' = ( \/ recon \/ casc
                    \/ \E t \in Changed(new) :
                         \/ t \in Ended(new)
                         \/ t \in Entered(new, "completing")
                    \/ FailFastTouched(new) # {}
                    \/ Changed(new) # {} /\ cascade' )
  BY DEF Publish
<1>2. CascadeTouched(new) => Changed(new) # {}
  BY DEF CascadeTouched
<1>3. Ended(new) \subseteq Changed(new) /\ Entered(new, "completing") \subseteq Changed(new)
  BY DEF Ended, Entered, Changed, Live
<1> QED
  BY <1>1, <1>2, <1>3

(* A publication leaves no mark underived that is not pending.             *)
LEMMA CascadePublish ==
  ASSUME IInv, CascadeInv, Commit(task'), NEW run, NEW fin, NEW casc \in BOOLEAN,
         NEW kick, NEW new, Publish(new, run, fin, casc, kick), up,
         pass' = pass, queued' \subseteq queued, convs \subseteq convs'
  PROVE CascadeInv'
<1>1. cascade => recon
  BY DEF CascadeInv
<1>2. /\ cascade' => recon'
      /\ cascade => cascade'
      /\ ~cascade' => ~CascadeTouched(task')
  BY <1>1, PublishFlags
<1>3. queued' \subseteq convs' \cup {Root}
  BY DEF CascadeInv
<1>4. ASSUME ~Pending' PROVE /\ \A t \in Tasks : Derived(task', t)
                             /\ \A c \in queued' : ~BelowCancelled(task', Through(task', c))
  <2>1. ~CascadeTouched(task') /\ ~Pending
    BY <1>2, <1>4 DEF Pending
  <2>2. /\ \A t \in Tasks : Derived(task, t)
        /\ \A c \in queued : ~BelowCancelled(task, Through(task, c))
    BY <2>1 DEF CascadeInv
  <2>3. \A c \in queued' : c \in queued /\ c \in convs \cup {Root}
    BY DEF CascadeInv
  <2> QED
    BY <2>1, <2>2, <2>3, DerivedKept, BelowBefore
<1> QED
  BY <1>2, <1>3, <1>4 DEF CascadeInv

(* A pass that was to cascade derives every mark, and withdraws the inputs *)
(* below cancelled owners, as the records were when its commit began.      *)
LEMMA CascadeReconcile ==
  ASSUME IInv, CascadeInv, Commit(task'), Reconcile
  PROVE CascadeInv'
<1> DEFINE marked == [t \in Tasks |->
                        IF CascadeMark(t) = task[t].mark THEN task[t]
                        ELSE WithAbortMark(task[t], CascadeMark(t))]
           done == Finalized(marked)
           inputs == {c \in queued : BelowCancelled(task, Through(task, c))}
<1>1. /\ task' = [t \in Tasks |->
                    IF t \in done
                    THEN WithOutcome(marked[t], "terminal", marked[t].outcome)
                    ELSE marked[t]]
      /\ \E new : Publish(new, runnable, {}, FALSE, FALSE)
      /\ up /\ pass.queued /\ pass' = NoPass /\ convs' = convs
      /\ queued' = queued \ (IF pass.cascade THEN inputs ELSE {})
  BY DEF Reconcile, Admitted, Publish
<1>2. cascade => recon
  BY <1>1 DEF CascadeInv
<1>3. /\ cascade' => recon'
      /\ cascade => cascade'
      /\ ~cascade' => ~CascadeTouched(task')
  <2>1. FALSE \in BOOLEAN
    OBVIOUS
  <2> QED
    BY <1>1, <1>2, <2>1, PublishFlags
<1>4. queued' \subseteq convs' \cup {Root}
  BY <1>1 DEF CascadeInv
<1>5. ASSUME ~CascadeTouched(task'), NEW t \in Tasks, Live(task', t), pass.cascade
      PROVE  Derived(task, t)
  <2>1. SUFFICES ASSUME Live(task, t), ~task[t].background,
                        NEW p \in CancellingOwner(task, t),
                        ~(IF task[p].mark = "restart" /\ ~FailedOutcome(task, p)
                          THEN Marked(task, t) ELSE task[t].mark = "request")
                 PROVE  FALSE
    BY DEF Derived
  <2>2. task[t] \in Records
    BY RecordsType DEF IInv
  <2>3. CascadeMark(t) # task[t].mark /\ CascadeMark(t) \in {"restart", "request"}
    <3>1. CASE task[p].mark = "restart" /\ ~FailedOutcome(task, p)
      BY <2>1, <3>1 DEF CascadeMark, Marked
    <3>2. CASE ~(task[p].mark = "restart" /\ ~FailedOutcome(task, p))
      <4>1. CascadeMark(t) = "request"
        BY <2>1, <3>2 DEF CascadeMark
      <4> QED
        BY <2>1, <3>2, <4>1
    <3> QED
      BY <3>1, <3>2
  <2>4. task[t].mark = "request" => CascadeMark(t) = "request"
    BY <2>1 DEF CascadeMark, Marked
  <2>5. t \notin done
    <3>1. SUFFICES ASSUME t \in done PROVE FALSE
      OBVIOUS
    <3>2. task'[t].status = "terminal"
      <4>1. task'[t] = WithOutcome(marked[t], "terminal", marked[t].outcome)
        BY <1>1, <3>1
      <4>2. marked[t] \in Records
        BY <2>2, <2>3 DEF WithAbortMark, Records
      <4> HIDE DEF marked
      <4> QED
        BY <4>1, <4>2 DEF WithOutcome, WithState, Records
    <3> QED
      BY <1>5, <3>2 DEF Live
  <2>6. task'[t] = WithAbortMark(task[t], CascadeMark(t))
    BY <1>1, <2>3, <2>5
  <2>7. task'[t].mark = CascadeMark(t)
    BY <2>2, <2>6 DEF WithAbortMark, Records
  <2>8. t \in Changed(task')
    BY <2>3, <2>7 DEF Changed
  <2>9. task[t].mark \in {"none", "restart", "request"}
    BY <2>2 DEF Records
  <2> QED
    BY <1>5, <2>3, <2>4, <2>7, <2>8, <2>9 DEF CascadeTouched, Marked
<1>6. ASSUME ~Pending' PROVE /\ \A t \in Tasks : Derived(task', t)
                             /\ \A c \in queued' : ~BelowCancelled(task', Through(task', c))
  <2>1. ~CascadeTouched(task') /\ ~cascade
    BY <1>3, <1>6 DEF Pending
  <2>2. ASSUME NEW t \in Tasks PROVE Derived(task', t)
    <3>1. CASE pass.cascade
      BY <1>5, <2>1, <3>1, DerivedKept
    <3>2. CASE ~pass.cascade
      BY <1>1, <2>1, <3>2, DerivedKept DEF CascadeInv, Pending
    <3> QED
      BY <3>1, <3>2
  <2>3. ASSUME NEW c \in queued' PROVE ~BelowCancelled(task', Through(task', c))
    <3>1. c \in queued /\ c \in convs \cup {Root}
      BY <1>1 DEF CascadeInv
    <3>2. ~BelowCancelled(task, Through(task, c))
      BY <1>1, <2>1, <3>1 DEF CascadeInv, Pending
    <3> QED
      BY <2>1, <3>1, <3>2, BelowBefore
  <2> QED
    BY <2>2, <2>3
<1> QED
  BY <1>3, <1>4, <1>6 DEF CascadeInv

LEMMA CascadeSame ==
  ASSUME CascadeInv, UNCHANGED <<task, cascade, pass>>, up' => up,
         queued' \subseteq queued, convs \subseteq convs', recon => recon'
  PROVE CascadeInv'
<1>1. \A t \in Tasks : Derived(task, t) = (Derived(task, t)')
  BY DEF Derived, Live, CancellingOwner, CancellationIntent, FailedOutcome, Marked
<1>2. \A c \in queued : BelowCancelled(task, Through(task, c))
                          = (BelowCancelled(task, Through(task, c))')
  BY DEF BelowCancelled, Through, CancellationIntent, Live, Marked, FailedOutcome
<1>3. Pending = Pending'
  BY DEF Pending
<1> QED
  BY <1>1, <1>2, <1>3 DEF CascadeInv

LEMMA CascadeSubmit ==
  ASSUME CascadeInv, NEW c, Submit(c)
  PROVE CascadeInv'
<1>1. /\ queued' = queued \cup {c} /\ (c = Root \/ c \in convs)
      /\ cascade' = (cascade \/ BelowCancelled(task, Through(task, c)))
      /\ recon' = (recon \/ cascade')
      /\ UNCHANGED <<task, convs, up, pass>>
  BY DEF Submit, process
<1>2. \A t \in Tasks : Derived(task, t) = (Derived(task, t)')
  BY <1>1 DEF Derived, Live, CancellingOwner, CancellationIntent, FailedOutcome, Marked
<1>3. \A d \in queued' : BelowCancelled(task, Through(task, d))
                           = (BelowCancelled(task, Through(task, d))')
  BY <1>1 DEF BelowCancelled, Through, CancellationIntent, Live, Marked, FailedOutcome
<1>4. ASSUME up, ~Pending'
      PROVE  /\ \A t \in Tasks : Derived(task, t)
             /\ \A d \in queued' : ~BelowCancelled(task, Through(task, d))
  <2>1. ~Pending /\ ~BelowCancelled(task, Through(task, c))
    BY <1>1, <1>4 DEF Pending
  <2> QED
    BY <1>1, <1>4, <2>1 DEF CascadeInv
<1>5. cascade' => recon'
  BY <1>1
<1>6. queued' \subseteq convs' \cup {Root}
  BY <1>1 DEF CascadeInv
<1> QED
  BY <1>1, <1>2, <1>3, <1>4, <1>5, <1>6 DEF CascadeInv

LEMMA CascadeStartPass ==
  ASSUME CascadeInv, StartPass
  PROVE CascadeInv'
<1>1. /\ UNCHANGED <<task, convs, queued, up>> /\ ~pass.queued /\ ~cascade'
      /\ pass' = [queued |-> TRUE, cascade |-> cascade, checks |-> checks]
  BY DEF StartPass, durable, process
<1>2. \A t \in Tasks : Derived(task, t) = (Derived(task, t)')
  BY <1>1 DEF Derived, Live, CancellingOwner, CancellationIntent, FailedOutcome, Marked
<1>3. \A c \in queued : BelowCancelled(task, Through(task, c))
                          = (BelowCancelled(task, Through(task, c))')
  BY <1>1 DEF BelowCancelled, Through, CancellationIntent, Live, Marked, FailedOutcome
<1>4. Pending => Pending'
  BY <1>1 DEF Pending
<1> QED
  BY <1>1, <1>2, <1>3, <1>4 DEF CascadeInv

LEMMA CascadeKept ==
  ASSUME IInv, CascadeInv, Commit(task'), [Next]_vars
  PROVE CascadeInv'
<1>1. FALSE \in BOOLEAN /\ TRUE \in BOOLEAN
  OBVIOUS
<1>2. ASSUME NEW c, NEW s, HostCreate(c, s) PROVE CascadeInv'
  BY <1>1, <1>2, CascadePublish DEF HostCreate, Admitted
<1>3. ASSUME NEW c, NEW b, AbortConversation(c, b) PROVE CascadeInv'
  <2>1. \E new : Publish(new, runnable, finalize, FALSE, FALSE)
    BY <1>3 DEF AbortConversation
  <2>2. up /\ queued' \subseteq queued /\ UNCHANGED <<convs, pass>>
    BY <1>3 DEF AbortConversation, Admitted
  <2> QED
    BY <1>1, <2>1, <2>2, CascadePublish
<1>4. ASSUME NEW t \in Tasks, Retry(t) PROVE CascadeInv'
  BY <1>1, <1>4, CascadePublish DEF Retry, Admitted
<1>5. ASSUME NEW t \in Tasks, NEW keep, Abort(t, keep) PROVE CascadeInv'
  BY <1>1, <1>5, CascadePublish DEF Abort, Admitted
<1>6. CASE Resume
  BY <1>6, CascadeSame DEF Resume, durable
<1>7. CASE Host
  BY <1>2, <1>3, <1>4, <1>5, <1>6, <1>7, CascadeSubmit, BoundsAssumption DEF Host
<1>8. CASE ReserveBegin
  BY <1>8, CascadeSame DEF ReserveBegin, durable, indexes
<1>9. CASE ReserveAbandoned
  BY <1>1, <1>9, CascadePublish DEF ReserveAbandoned
<1>10. CASE Reserve
  <2>1. (Held # {}) \in BOOLEAN
    OBVIOUS
  <2> QED
    BY <1>10, <2>1, CascadePublish DEF Reserve
<1>11. CASE Reconciliation
  BY <1>11, CascadeStartPass, CascadeReconcile DEF Reconciliation
<1>12. ASSUME NEW t \in Tasks, FirstStep(t) \/ EndAbort(t) \/ \E threw : EndPhase(t, threw)
       PROVE  CascadeInv'
  <2>1. up /\ UNCHANGED <<convs, queued, up, pass>>
    BY <1>12 DEF FirstStep, EndAbort, EndPhase, Admitted, process
  <2>2. \/ Continue(t)
        \/ \E r : EndWith(t, r, TRUE) \/ EndWith(t, r, FALSE)
    <3>1. (~Marked(task, t) /\ Withheld(t)) \in BOOLEAN
      BY DEF Marked, Withheld, BelowCancelled
    <3>2. CASE FirstStep(t)
      BY <3>1, <3>2 DEF FirstStep
    <3>3. CASE ~FirstStep(t)
      BY <1>12, <3>3 DEF EndAbort, EndPhase
    <3> QED
      BY <3>2, <3>3
  <2>3. CASE Continue(t)
    BY <2>1, <2>3, CascadeSame DEF Continue, indexes
  <2>4. ASSUME NEW r, NEW casc \in BOOLEAN, EndWith(t, r, casc) PROVE CascadeInv'
    BY <2>1, <2>4, CascadePublish DEF EndWith
  <2> QED
    BY <1>1, <2>2, <2>3, <2>4
<1>13. ASSUME NEW t \in Tasks, HandlerCommit(t) \/ \E s \in Shapes : HandlerCreate(t, s)
       PROVE  CascadeInv'
  <2>1. \E new : Publish(new, runnable, finalize, FALSE, FALSE)
    BY <1>13 DEF HandlerCommit, HandlerCreate
  <2>2. up /\ convs \subseteq convs' /\ UNCHANGED <<queued, pass>>
    BY <1>13 DEF HandlerCommit, HandlerCreate, Gated, Admitted
  <2> QED
    BY <1>1, <2>1, <2>2, CascadePublish
<1>14. ASSUME NEW t \in Tasks, Unwind(t) \/ TakeInputs(t) \/ OpenConversation(t)
       PROVE  CascadeInv'
  <2>1. /\ UNCHANGED <<task, cascade, pass, up>> /\ (recon => recon')
        /\ queued' \subseteq queued /\ convs \subseteq convs'
    <3>1. CASE Unwind(t)
      BY <3>1 DEF Unwind, durable, process, indexes
    <3>2. CASE TakeInputs(t)
      BY <3>2 DEF TakeInputs, process, indexes
    <3>3. CASE OpenConversation(t)
      BY <3>3 DEF OpenConversation, process
    <3> QED
      BY <1>14, <3>1, <3>2, <3>3
  <2> QED
    BY <2>1, CascadeSame
<1>15. ASSUME NEW t \in Tasks, Step(t) \/ TaskCode(t) PROVE CascadeInv'
  <2>1. AbortOwned(t) => Abort(t, TRUE)
    BY DEF AbortOwned
  <2> QED
    BY <1>5, <1>12, <1>13, <1>14, <1>15, <2>1 DEF Step, TaskCode
<1>16. CASE (\E t \in Tasks : Tick(t)) \/ Timer \/ RegistryChange \/ Close
  <2>1. UNCHANGED <<task, cascade, pass, up, recon, queued, convs>>
    BY <1>16 DEF Tick, Timer, RegistryChange, Close, durable, process, indexes
  <2> QED
    BY <2>1, CascadeSame
<1>17. CASE Crash \/ CloseDone
  BY <1>17 DEF Crash, CloseDone, Forget, durable, CascadeInv
<1>18. CASE Open
  BY <1>18 DEF Open, CascadeInv, Pending
<1>19. CASE UNCHANGED vars
  BY <1>19, CascadeSame DEF vars
<1> QED
  BY <1>7, <1>8, <1>9, <1>10, <1>11, <1>15, <1>16, <1>17, <1>18, <1>19
  DEF Next, Reservation

-----------------------------------------------------------------------------
(* Held outcomes *)

(* A held outcome that could be written is to be looked at by a pass.      *)
FinalizeInv ==
    up => \A t \in Tasks : Completing(task, t) /\ OwnedLive(task, t) = {} =>
        t \in finalize /\ (recon \/ pass.queued)

(* What a publication leaves of a held outcome that could be written.      *)
LEMMA FinalizePublished ==
  ASSUME IInv, Tree, Commit(task'), NEW run, NEW fin, NEW casc \in BOOLEAN, NEW kick,
         NEW new, Publish(new, run, fin, casc, kick), cascade => recon,
         NEW t \in Tasks, Completing(task', t), OwnedLive(task', t) = {}
  PROVE \/ t \in finalize' /\ recon'
        \/ /\ Completing(task, t) /\ OwnedLive(task, t) = {}
           /\ t \in fin => t \in finalize'
           /\ recon => recon'
<1>1. /\ finalize' = TrackFinalize(task', fin)
      /\ recon => recon'
      /\ Ended(task') # {} => recon'
      /\ Entered(task', "completing") # {} => recon'
  BY PublishFlags DEF Publish
<1>2. ASSUME t \in fin \cup Changed(task')
                    \cup UNION {NearestLiveAbove(task', e) : e \in Ended(task')}
      PROVE  t \in finalize'
  BY <1>1, <1>2 DEF TrackFinalize
<1>3. CASE ~Completing(task, t)
  <2>1. t \in Entered(task', "completing")
    BY <1>3 DEF Entered, Completing
  <2>2. t \in Changed(task')
    BY <2>1 DEF Entered, Changed
  <2> QED
    BY <1>1, <1>2, <2>1, <2>2
<1>4. CASE Completing(task, t) /\ OwnedLive(task, t) # {}
  <2>1. Live(task', t)
    BY DEF Live, Completing
  <2>2. PICK e \in Ended(task') : t \in NearestLiveAbove(task', e)
    BY <1>4, <2>1, Freed
  <2> QED
    BY <1>1, <1>2, <2>2
<1>5. CASE Completing(task, t) /\ OwnedLive(task, t) = {}
  BY <1>1, <1>2, <1>5
<1> QED
  BY <1>3, <1>4, <1>5

LEMMA FinalizePublish ==
  ASSUME IInv, Tree, CascadeInv, FinalizeInv, Commit(task'), NEW run,
         NEW casc \in BOOLEAN, NEW kick, NEW new,
         Publish(new, run, finalize, casc, kick), up, pass' = pass
  PROVE FinalizeInv'
<1>1. cascade => recon
  BY DEF CascadeInv
<1>2. SUFFICES ASSUME NEW t \in Tasks, Completing(task', t), OwnedLive(task', t) = {}
               PROVE  t \in finalize' /\ (recon' \/ pass'.queued)
  BY DEF FinalizeInv, Completing, OwnedLive, Live
<1>3. \/ t \in finalize' /\ recon'
      \/ /\ Completing(task, t) /\ OwnedLive(task, t) = {}
         /\ t \in finalize => t \in finalize'
         /\ recon => recon'
  BY <1>1, <1>2, FinalizePublished
<1> QED
  BY <1>3 DEF FinalizeInv

(* A reconcile pass writes every held outcome it finds writable.           *)
LEMMA FinalizeReconcile ==
  ASSUME IInv, Tree, CascadeInv, FinalizeInv, Commit(task'), Reconcile
  PROVE FinalizeInv'
<1> DEFINE marked == [t \in Tasks |->
                        IF CascadeMark(t) = task[t].mark THEN task[t]
                        ELSE WithAbortMark(task[t], CascadeMark(t))]
           done == Finalized(marked)
<1>1. /\ task' = [t \in Tasks |->
                    IF t \in done
                    THEN WithOutcome(marked[t], "terminal", marked[t].outcome)
                    ELSE marked[t]]
      /\ \E new : Publish(new, runnable, {}, FALSE, FALSE)
      /\ up
  BY DEF Reconcile, Admitted, Publish
<1>2. cascade => recon
  BY <1>1 DEF CascadeInv
<1>3. SUFFICES ASSUME NEW t \in Tasks, Completing(task', t), OwnedLive(task', t) = {}
               PROVE  t \in finalize' /\ recon'
  BY DEF FinalizeInv, Completing, OwnedLive, Live
<1>4. FALSE \in BOOLEAN
  OBVIOUS
<1>5. \/ t \in finalize' /\ recon'
      \/ Completing(task, t) /\ OwnedLive(task, t) = {}
  BY <1>1, <1>2, <1>3, <1>4, FinalizePublished
<1>6. CASE Completing(task, t) /\ OwnedLive(task, t) = {}
  <2>1. t \in finalize
    BY <1>1, <1>6 DEF FinalizeInv
  <2>2. \A d \in Tasks : /\ marked[d].status = task[d].status
                         /\ marked[d].above = task[d].above
                         /\ marked[d].background = task[d].background
    BY RecordsType DEF IInv, Records, WithAbortMark
  <2>3. Completing(marked, t) /\ OwnedLive(marked, t) = {}
    BY <1>6, <2>2 DEF Completing, OwnedLive, Live
  <2>4. {t} \in {D \in SUBSET {c \in Tasks : Completing(marked, c)} :
                   \A c \in D : /\ OwnedLive(marked, c) \subseteq D
                                /\ c \in finalize \/ OwnedLive(marked, c) # {}}
    BY <2>1, <2>3
  <2>5. t \in done
    BY <2>4 DEF Finalized
  <2>6. task'[t] = WithOutcome(marked[t], "terminal", marked[t].outcome)
    BY <1>1, <2>5
  <2>7. task[t] \in Records
    BY RecordsType DEF IInv
  <2>8. "status" \in DOMAIN marked[t]
    BY <2>7 DEF Records, WithAbortMark
  <2>9. task'[t].status = "terminal"
    <3> HIDE DEF marked
    <3> QED
      BY <2>6, <2>8 DEF WithOutcome, WithState
  <2> QED
    BY <1>3, <2>9 DEF Completing
<1> QED
  BY <1>5, <1>6

LEMMA FinalizeSame ==
  ASSUME FinalizeInv, UNCHANGED <<task, finalize>>, up' => up,
         recon \/ pass.queued => recon' \/ pass'.queued
  PROVE FinalizeInv'
<1>1. \A t \in Tasks : /\ Completing(task, t) = (Completing(task, t)')
                       /\ OwnedLive(task, t) = (OwnedLive(task, t)')
  BY DEF Completing, OwnedLive, Live
<1> QED
  BY <1>1 DEF FinalizeInv

LEMMA FinalizeKept ==
  ASSUME IInv, Tree, CascadeInv, FinalizeInv, Commit(task'), [Next]_vars
  PROVE FinalizeInv'
<1>1. FALSE \in BOOLEAN /\ TRUE \in BOOLEAN
  OBVIOUS
<1>2. ASSUME NEW c, NEW s, HostCreate(c, s) PROVE FinalizeInv'
  BY <1>1, <1>2, FinalizePublish DEF HostCreate, Admitted
<1>3. ASSUME NEW c, NEW b, AbortConversation(c, b) PROVE FinalizeInv'
  <2>1. \E new : Publish(new, runnable, finalize, FALSE, FALSE)
    BY <1>3 DEF AbortConversation
  <2>2. up /\ pass' = pass
    BY <1>3 DEF AbortConversation, Admitted
  <2> QED
    BY <1>1, <2>1, <2>2, FinalizePublish
<1>4. ASSUME NEW t \in Tasks, Retry(t) PROVE FinalizeInv'
  BY <1>1, <1>4, FinalizePublish DEF Retry, Admitted
<1>5. ASSUME NEW t \in Tasks, NEW keep, Abort(t, keep) PROVE FinalizeInv'
  BY <1>1, <1>5, FinalizePublish DEF Abort, Admitted
<1>6. ASSUME Resume \/ \E c : Submit(c) PROVE FinalizeInv'
  <2>1. UNCHANGED <<task, finalize, up, pass>> /\ (recon => recon')
    <3>1. CASE Resume
      BY <3>1 DEF Resume, durable
    <3>2. ASSUME NEW c, Submit(c) PROVE UNCHANGED <<task, finalize, up, pass>> /\ (recon => recon')
      BY <3>2 DEF Submit, process
    <3> QED
      BY <1>6, <3>1, <3>2
  <2> QED
    BY <2>1, FinalizeSame
<1>7. CASE Host
  BY <1>2, <1>3, <1>4, <1>5, <1>6, <1>7, BoundsAssumption DEF Host
<1>8. CASE ReserveBegin
  BY <1>8, FinalizeSame DEF ReserveBegin, durable, indexes
<1>9. CASE ReserveAbandoned
  BY <1>1, <1>9, FinalizePublish DEF ReserveAbandoned
<1>10. CASE Reserve
  <2>1. (Held # {}) \in BOOLEAN
    OBVIOUS
  <2> QED
    BY <1>10, <2>1, FinalizePublish DEF Reserve
<1>11. CASE StartPass
  BY <1>11, FinalizeSame DEF StartPass, durable, process
<1>12. ASSUME NEW t \in Tasks, FirstStep(t) \/ EndAbort(t) \/ \E threw : EndPhase(t, threw)
       PROVE  FinalizeInv'
  <2>1. up /\ UNCHANGED <<up, pass>>
    BY <1>12 DEF FirstStep, EndAbort, EndPhase, Admitted, process
  <2>2. \/ Continue(t)
        \/ \E r : EndWith(t, r, TRUE) \/ EndWith(t, r, FALSE)
    <3>1. (~Marked(task, t) /\ Withheld(t)) \in BOOLEAN
      BY DEF Marked, Withheld, BelowCancelled
    <3>2. CASE FirstStep(t)
      BY <3>1, <3>2 DEF FirstStep
    <3>3. CASE ~FirstStep(t)
      BY <1>12, <3>3 DEF EndAbort, EndPhase
    <3> QED
      BY <3>2, <3>3
  <2>3. CASE Continue(t)
    BY <2>1, <2>3, FinalizeSame DEF Continue, indexes
  <2>4. ASSUME NEW r, NEW casc \in BOOLEAN, EndWith(t, r, casc) PROVE FinalizeInv'
    BY <2>1, <2>4, FinalizePublish DEF EndWith
  <2> QED
    BY <1>1, <2>2, <2>3, <2>4
<1>13. ASSUME NEW t \in Tasks, HandlerCommit(t) \/ \E s \in Shapes : HandlerCreate(t, s)
       PROVE  FinalizeInv'
  <2>1. \E new : Publish(new, runnable, finalize, FALSE, FALSE)
    BY <1>13 DEF HandlerCommit, HandlerCreate
  <2>2. up /\ pass' = pass
    BY <1>13 DEF HandlerCommit, HandlerCreate, Gated, Admitted
  <2> QED
    BY <1>1, <2>1, <2>2, FinalizePublish
<1>14. ASSUME NEW t \in Tasks, Unwind(t) \/ TakeInputs(t) \/ OpenConversation(t)
       PROVE  FinalizeInv'
  <2>1. UNCHANGED <<task, finalize, pass, up>> /\ (recon => recon')
    <3>1. CASE Unwind(t)
      BY <3>1 DEF Unwind, durable, process, indexes
    <3>2. CASE TakeInputs(t)
      BY <3>2 DEF TakeInputs, process, indexes
    <3>3. CASE OpenConversation(t)
      BY <3>3 DEF OpenConversation, process
    <3> QED
      BY <1>14, <3>1, <3>2, <3>3
  <2> QED
    BY <2>1, FinalizeSame
<1>15. ASSUME NEW t \in Tasks, Step(t) \/ TaskCode(t) PROVE FinalizeInv'
  <2>1. AbortOwned(t) => Abort(t, TRUE)
    BY DEF AbortOwned
  <2> QED
    BY <1>5, <1>12, <1>13, <1>14, <1>15, <2>1 DEF Step, TaskCode
<1>16. CASE (\E t \in Tasks : Tick(t)) \/ Timer \/ RegistryChange \/ Close
  <2>1. UNCHANGED <<task, finalize, pass, up, recon>>
    BY <1>16 DEF Tick, Timer, RegistryChange, Close, durable, process, indexes
  <2> QED
    BY <2>1, FinalizeSame
<1>17. CASE Crash \/ CloseDone
  BY <1>17 DEF Crash, CloseDone, Forget, FinalizeInv
<1>18. CASE Open
  <2>1. /\ finalize' = {t \in Tasks : Completing(task', t)}
        /\ recon'
    BY <1>18 DEF Open
  <2> QED
    BY <2>1 DEF FinalizeInv, Completing
<1>19. CASE UNCHANGED vars
  BY <1>19, FinalizeSame DEF vars
<1> QED
  BY <1>7, <1>8, <1>9, <1>10, <1>11, <1>15, <1>16, <1>17, <1>18, <1>19, FinalizeReconcile
  DEF Next, Reservation, Reconciliation

-----------------------------------------------------------------------------
(* The inductive invariant *)

IndexInv == IInv /\ Tree /\ WakeInv /\ CascadeInv /\ FinalizeInv

LEMMA InitIndex == Init => IndexInv
<1> SUFFICES ASSUME Init PROVE IndexInv
  OBVIOUS
<1>1. IInv
  BY InitInv
<1>2. \A t \in Tasks : /\ ~Exists(task, t) /\ ~Live(task, t) /\ ~Completing(task, t)
                       /\ task[t].above = {}
  BY DEF Init, NoTask, Exists, Live, Completing
<1>3. Tree
  BY <1>2 DEF Tree
<1>4. WakeInv
  BY <1>2 DEF Init, WakeInv, Eligible
<1>5. CascadeInv
  BY DEF Init, CascadeInv, Pending
<1>6. FinalizeInv
  BY <1>2 DEF FinalizeInv
<1> QED
  BY <1>1, <1>3, <1>4, <1>5, <1>6 DEF IndexInv

LEMMA IndexInvariance == Spec => []IndexInv
<1>1. IndexInv /\ [Next]_vars => IndexInv'
  BY NextInv, TreeKept, WakeKept, CascadeKept, FinalizeKept DEF IndexInv
<1> QED
  BY <1>1, InitIndex, PTL DEF Spec

-----------------------------------------------------------------------------
(* Theorems *)

(* No wakeup is lost: whatever makes a task reservable again, the end of   *)
(* what it waits for or of the work below it, the end of its invocation or *)
(* its sleep, a retry, a restart, puts it back among the candidates and    *)
(* asks for a pass (scheduler.ts: #track, #kick, #drain).                  *)
THEOREM WakeupsKept == Spec => []NoLostWakeup
<1>1. IndexInv => NoLostWakeup
  BY DEF IndexInv, WakeInv, Woken, Candidates, NoLostWakeup
<1> QED
  BY <1>1, IndexInvariance, PTL

(* No cascade is lost: when no reconcile pass is scheduled or queued, each *)
(* live foreground task below an owner with intent carries its mark, no    *)
(* input is queued below one, and no held outcome could be written         *)
(* (scheduler.ts: #observe, #scheduleReconcile, #reconcile).               *)
THEOREM CascadesKept == Spec => []NoLostCascade
<1>1. IndexInv => NoLostCascade
  <2>1. SUFFICES ASSUME IndexInv, up, ~closing, ~recon, ~pass.queued
                 PROVE  /\ \A t \in Tasks : Live(task, t) /\ ~task[t].background =>
                             \A p \in CancellingOwner(task, t) :
                                IF task[p].mark = "restart" /\ ~FailedOutcome(task, p)
                                THEN Marked(task, t) ELSE task[t].mark = "request"
                        /\ \A c \in queued : ~BelowCancelled(task, Through(task, c))
                        /\ \A t \in Tasks : Completing(task, t) => OwnedLive(task, t) # {}
    BY DEF NoLostCascade
  <2>2. ~Pending
    BY <2>1 DEF IndexInv, CascadeInv, Pending
  <2>3. /\ \A t \in Tasks : Derived(task, t)
        /\ \A c \in queued : ~BelowCancelled(task, Through(task, c))
    BY <2>1, <2>2 DEF IndexInv, CascadeInv
  <2>4. \A t \in Tasks : Completing(task, t) => OwnedLive(task, t) # {}
    BY <2>1 DEF IndexInv, FinalizeInv
  <2> QED
    BY <2>3, <2>4 DEF Derived
<1> QED
  BY <1>1, IndexInvariance, PTL

(* While wake() reports that no process is needed there is nothing to      *)
(* reserve, no mark to derive and no held outcome to write, although it    *)
(* looks at the indexes and never at the ownership tree (scheduler.ts:     *)
(* wake).                                                                  *)
THEOREM NothingStranded == Spec => []NoStrandedWork
<1>1. IndexInv => NoStrandedWork
  <2>1. SUFFICES ASSUME IndexInv, up, ~WakeActive
                 PROVE  /\ \A t \in Tasks : Eligible(t) =>
                             ~Fits(t) /\ task[t].mark # "request"
                        /\ \A t \in Tasks : Live(task, t) =>
                             /\ ~Withheld(t) \/ Marked(task, t)
                             /\ Completing(task, t) => OwnedLive(task, t) # {}
    BY DEF NoStrandedWork
  <2>2. \A t \in Tasks : Eligible(t) => ~Fits(t) /\ task[t].mark # "request"
    BY <2>1 DEF WakeActive, Eligible
  <2>3. ~Pending /\ finalize = {}
    BY <2>1 DEF WakeActive, Pending
  <2>4. \A t \in Tasks : Completing(task, t) => OwnedLive(task, t) # {}
    BY <2>1, <2>3 DEF IndexInv, FinalizeInv
  <2>5. ASSUME NEW t \in Tasks, Live(task, t), Withheld(t) PROVE Marked(task, t)
    <3> DEFINE owners == {p \in task[t].above : CancellationIntent(task, p)}
    <3>1. owners \in SUBSET Tasks
      BY <2>1, RecordsType DEF IndexInv, IInv, Records
    <3>2. owners # {} /\ ~task[t].background
      BY <2>5 DEF Withheld, BelowCancelled
    <3>3. PICK p \in owners : \A q \in owners : q <= p
      BY <3>1, <3>2, Greatest
    <3>4. p \in CancellingOwner(task, t)
      BY <3>3 DEF CancellingOwner
    <3>5. Derived(task, t)
      BY <2>1, <2>3 DEF IndexInv, CascadeInv
    <3> QED
      BY <2>5, <3>2, <3>4, <3>5 DEF Derived, Marked
  <2> QED
    BY <2>2, <2>4, <2>5
<1> QED
  BY <1>1, IndexInvariance, PTL

=============================================================================
