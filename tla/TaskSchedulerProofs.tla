------------------------ MODULE TaskSchedulerProofs ------------------------
(***************************************************************************)
(* Proofs about the task scheduler.  Every step replaces the records by a  *)
(* Commit: each record becomes what a record may become (Next1), what is   *)
(* created has a live and unmarked owner (Newborn), and what ends has no   *)
(* owned work left.  That the actions commit is proved one action at a     *)
(* time; the inductive invariant and the theorems use Commit and hardly    *)
(* look at an action again.                                                *)
(***************************************************************************)
EXTENDS TaskSchedulerProps, TLAPS

-----------------------------------------------------------------------------
(* Records *)

(* A record waits exactly while it names tasks, and has an outcome exactly *)
(* in its two last statuses.                                               *)
WellFormed(r) ==
    /\ r \in Records
    /\ r.status = "waiting" <=> r.on # {}
    /\ r.status \in {"completing", "terminal"} <=> r.outcome # "none"

(* What never changes in a record.                                         *)
Kept(r, s) ==
    /\ s.conv = r.conv /\ s.owner = r.owner /\ s.above = r.above
    /\ s.background = r.background /\ s.born = r.born
    /\ s.abandonOnRestart = r.abandonOnRestart

(* How the record of a live task may change in a commit.                   *)
Evolves(r, s) ==
    /\ r.status \in LiveStatuses
    /\ s.status \in LiveStatuses \cup {"terminal"}
    /\ Kept(r, s)
    /\ r.status = "completing" => s.status \in {"completing", "terminal"}
    /\ r.outcome # "none" => s.outcome = r.outcome
    /\ s.status = "completing" /\ s.outcome = "orphaned" => r.outcome = "orphaned"
    /\ s.status # "terminal" =>
         /\ r.mark = "request" => s.mark = "request"
         /\ r.mark # "none" => s.mark # "none"

(* The replacement of record r by s in one commit; a calm one starts no    *)
(* wait.                                                                   *)
Next1(r, s) == WellFormed(s) /\ (s = r \/ Evolves(r, s))

Calm(r, s) == s.status = "waiting" => r.status = "waiting" /\ s.on = r.on

USE DEF RunStatuses, LiveStatuses, Outcomes

LEMMA StateKept ==
  ASSUME NEW r \in Records, WellFormed(r), r.status \in RunStatuses,
         NEW s \in {"pending", "running"}
  PROVE /\ Next1(r, WithState(r, s)) /\ Calm(r, WithState(r, s))
        /\ WithState(r, s) \in Records
        /\ WithState(r, s).status = s
        /\ WithState(r, s).mark = r.mark
<1> DEFINE w == WithState(r, s)
<1>1. w \in Records
  BY DEF Records, WithState
<1>2. /\ w.status = s /\ w.on = {} /\ w.mark = r.mark /\ w.outcome = r.outcome
      /\ Kept(r, w)
  BY DEF Records, WithState, Kept
<1> QED
  BY <1>1, <1>2 DEF WellFormed, Next1, Calm, Evolves

LEMMA OutcomeKept ==
  ASSUME NEW r \in Records, WellFormed(r), r.status \in LiveStatuses,
         NEW s \in {"completing", "terminal"}, NEW o \in Outcomes,
         r.status = "completing" => o = r.outcome,
         o = "orphaned" => s = "terminal"
  PROVE /\ Next1(r, WithOutcome(r, s, o)) /\ Calm(r, WithOutcome(r, s, o))
        /\ WithOutcome(r, s, o) \in Records
        /\ WithOutcome(r, s, o).status = s
<1> DEFINE w == WithOutcome(r, s, o)
<1>1. w \in Records
  BY DEF Records, WithState, WithOutcome
<1>2. /\ w.status = s /\ w.on = {} /\ w.outcome = o
      /\ s # "terminal" => w.mark = r.mark
      /\ Kept(r, w)
  BY DEF Records, WithState, WithOutcome, Kept
<1> QED
  BY <1>1, <1>2 DEF WellFormed, Next1, Calm, Evolves

LEMMA MarkKept ==
  ASSUME NEW r \in Records, WellFormed(r), r.status \in LiveStatuses,
         NEW m \in {"restart", "request"}, r.mark = "request" => m = "request"
  PROVE /\ Next1(r, WithAbortMark(r, m)) /\ Calm(r, WithAbortMark(r, m))
        /\ WithAbortMark(r, m) \in Records
        /\ WithAbortMark(r, m).status = r.status
        /\ WithAbortMark(r, m).outcome = r.outcome
<1> DEFINE w == WithAbortMark(r, m)
<1>1. w \in Records
  BY DEF Records, WithAbortMark
<1>2. /\ w.status = r.status /\ w.on = r.on /\ w.outcome = r.outcome
      /\ w.mark = m
      /\ Kept(r, w)
  BY DEF Records, WithAbortMark, Kept
<1> QED
  BY <1>1, <1>2 DEF WellFormed, Next1, Calm, Evolves

LEMMA ProgressKept ==
  ASSUME NEW r \in Records, WellFormed(r), r.status \in LiveStatuses
  PROVE /\ Next1(r, Progressed(r)) /\ Calm(r, Progressed(r))
        /\ Progressed(r) \in Records
        /\ Progressed(r).status = r.status
<1> DEFINE w == Progressed(r)
<1>1. w \in Records
  BY DEF Records, Progressed
<1>2. /\ w.status = r.status /\ w.on = r.on /\ w.outcome = r.outcome
      /\ w.mark = r.mark
      /\ Kept(r, w)
  BY DEF Records, Progressed, Kept
<1> QED
  BY <1>1, <1>2 DEF WellFormed, Next1, Calm, Evolves

LEMMA NextTrans ==
  ASSUME NEW r, NEW s, NEW u, Next1(r, s), Next1(s, u)
  PROVE Next1(r, u)
BY DEF Next1, WellFormed, Evolves, Kept

LEMMA RecordsType ==
  ASSUME TypeOK
  PROVE /\ task \in [Tasks -> Records]
        /\ \A t \in Tasks : WellFormed(task[t])
BY DEF TypeOK, WellFormed, Waits

LEMMA AdvancedKept ==
  ASSUME NEW r \in Records, WellFormed(r), r.status = "running"
  PROVE /\ Advanced(r) \in Records
        /\ Advanced(r).status = "running" /\ Advanced(r).on = {}
        /\ Advanced(r).outcome = "none" /\ Advanced(r).mark = r.mark
        /\ Kept(r, Advanced(r))
<1> DEFINE n == r.checkpoint + 1
           a == [r EXCEPT !.checkpoint = n, !.restarts = 0]
<1>1. n \in Nat
  BY DEF Records
<1>2. Advanced(r) = a
  BY DEF Advanced
<1>3. r.on = {} /\ r.outcome = "none"
  BY DEF WellFormed
<1> HIDE DEF n
<1>4. a \in Records
  BY <1>1 DEF Records
<1>5. /\ a.status = r.status /\ a.on = r.on /\ a.outcome = r.outcome
      /\ a.mark = r.mark /\ Kept(r, a)
  BY DEF Records, Kept
<1> QED
  BY <1>2, <1>3, <1>4, <1>5

LEMMA NextRecordsKept ==
  ASSUME NEW tk \in [Tasks -> Records], NEW t \in Tasks,
         WellFormed(tk[t]), tk[t].status = "running",
         NEW r \in NextRecords(tk, t)
  PROVE /\ Next1(tk[t], r)
        /\ r.status \in {"running", "waiting", "sleeping"}
        /\ r.mark = tk[t].mark
<1> DEFINE next == Advanced(tk[t])
<1>1. /\ next \in Records
      /\ next.status = "running" /\ next.on = {} /\ next.outcome = "none"
      /\ next.mark = tk[t].mark
      /\ Kept(tk[t], next)
  BY AdvancedKept
<1>2. CASE r = next
  BY <1>1, <1>2 DEF WellFormed, Next1, Evolves
<1>3. ASSUME NEW on \in (SUBSET Tasks) \ {{}}, NEW p \in Policies,
             r = Waiting(tk[t], on, p)
      PROVE  /\ Next1(tk[t], r)
             /\ r.status = "waiting" /\ r.mark = tk[t].mark
  <2> HIDE DEF next
  <2>1. r = [next EXCEPT !.status = "waiting", !.on = on, !.policy = p]
    BY <1>3 DEF Waiting, next
  <2>2. /\ r \in Records
        /\ r.status = "waiting" /\ r.on = on /\ r.outcome = "none"
        /\ r.mark = tk[t].mark
        /\ Kept(next, r)
    BY <1>1, <2>1 DEF Records, Kept
  <2> QED
    BY <1>1, <2>2 DEF WellFormed, Next1, Evolves, Kept
<1>4. CASE r = Sleeping(tk[t])
  <2> HIDE DEF next
  <2>1. r = [next EXCEPT !.status = "sleeping"]
    BY <1>4 DEF Sleeping, next
  <2>2. /\ r \in Records
        /\ r.status = "sleeping" /\ r.on = {} /\ r.outcome = "none"
        /\ r.mark = tk[t].mark
        /\ Kept(next, r)
    BY <1>1, <2>1 DEF Records, Kept
  <2> QED
    BY <1>1, <2>2 DEF WellFormed, Next1, Evolves, Kept
<1>5. \/ r = next \/ r = Sleeping(tk[t])
      \/ \E on \in (SUBSET Tasks) \ {{}}, p \in Policies : r = Waiting(tk[t], on, p)
  BY DEF NextRecords
<1> QED
  BY <1>2, <1>3, <1>4, <1>5

-----------------------------------------------------------------------------
(* Commits *)

(* A task created in the commit `new`: the next one, below a walk up from  *)
(* something there is.                                                     *)
Newborn(new, n) ==
    /\ ~Exists(task, n)
    /\ \A d \in Tasks : d < n => Exists(task, d)
    /\ WellFormed(new[n])
    /\ new[n].status = "pending" /\ new[n].mark = "none"
    /\ new[n].born = stops
    /\ new[n].conv # Root => Exists(task, new[n].conv)
    /\ \A p \in new[n].above : Exists(task, p)
    /\ \E p \in Convs : /\ p # Root => Exists(task, p)
                        /\ new[n].above = Through(task, p)
    /\ new[n].owner # 0 =>
         /\ new[n].owner \in new[n].above /\ ~new[n].background
         /\ Live(new, new[n].owner) /\ ~Marked(task, new[n].owner)

(* A commit may replace the records by `new`.                              *)
Commit(new) ==
    /\ new \in [Tasks -> Records]
    /\ \A t \in Tasks : Next1(task[t], new[t]) \/ Newborn(new, t)
    /\ \A t \in Tasks :
         Live(task, t) /\ ~Live(new, t) => OwnedLive(new, t) = {}

(* No task starts a wait.                                                  *)
CalmCommit(new) ==
    /\ Commit(new)
    /\ \A t \in Tasks : Calm(task[t], new[t])

LEMMA ManyRecords ==
  ASSUME TypeOK, NEW new, new = [t \in Tasks |-> new[t]],
         \A t \in Tasks : Next1(task[t], new[t]),
         \A t \in Tasks : Live(task, t) /\ ~Live(new, t) =>
           \A d \in OwnedLive(task, t) : ~Live(new, d)
  PROVE Commit(new)
<1>1. new \in [Tasks -> Records]
  BY DEF Next1, WellFormed
<1>2. ASSUME NEW t \in Tasks, Live(task, t), ~Live(new, t)
      PROVE  OwnedLive(new, t) = {}
  <2>1. SUFFICES ASSUME NEW d \in OwnedLive(new, t) PROVE FALSE
    OBVIOUS
  <2>2. d \in Tasks /\ Live(new, d) /\ ~new[d].background /\ t \in new[d].above
    BY DEF OwnedLive
  <2>3. d \in OwnedLive(task, t)
    BY <2>2 DEF Next1, Evolves, Kept, OwnedLive, Live
  <2> QED
    BY <1>2, <2>2, <2>3
<1> QED
  BY <1>1, <1>2 DEF Commit

LEMMA OneRecord ==
  ASSUME TypeOK, NEW t \in Tasks, NEW r \in Records, Next1(task[t], r),
         Live(task, t) /\ r.status = "terminal" => OwnedLive(task, t) = {}
  PROVE Commit([task EXCEPT ![t] = r])
<1> DEFINE new == [task EXCEPT ![t] = r]
<1>1. task \in [Tasks -> Records] /\ \A u \in Tasks : WellFormed(task[u])
  BY RecordsType
<1>2. /\ new = [u \in Tasks |-> new[u]]
      /\ new[t] = r
      /\ \A u \in Tasks : u # t => new[u] = task[u]
  BY <1>1
<1> HIDE DEF new
<1>3. \A u \in Tasks : Next1(task[u], new[u])
  BY <1>1, <1>2 DEF Next1
<1>4. ASSUME NEW u \in Tasks, Live(task, u), ~Live(new, u)
      PROVE  OwnedLive(task, u) = {}
  <2>1. u = t
    BY <1>2, <1>4 DEF Live
  <2>2. r.status = "terminal"
    BY <1>2, <1>4, <2>1 DEF Live, Next1, Evolves
  <2> QED
    BY <1>4, <2>1, <2>2
<1> QED
  BY <1>2, <1>3, <1>4, ManyRecords DEF new

-----------------------------------------------------------------------------
(* Waits *)

(* The wait-for graph of tk has no set of tasks that waits for itself.     *)
Acyclic(tk) ==
    \A S \in SUBSET {t \in Tasks : Live(tk, t)} :
        S # {} => \E t \in S : WaitEdges(tk, t) \cap S = {}

(* Nothing hangs below a task that was not created, and none is marked.    *)
Placed ==
    /\ \A t \in Tasks :
        /\ task[t].conv # Root => Exists(task, task[t].conv)
        /\ \A p \in task[t].above : Exists(task, p)
        /\ Exists(task, t) \/ task[t].mark = "none"
    /\ \A c \in convs : Exists(task, c)

(* A calm commit adds no edge but those to the tasks it creates, which have*)
(* none of their own.                                                      *)
LEMMA CalmKeepsAcyclic ==
  ASSUME TypeOK, Placed, Acyclic(task), NEW new, CalmCommit(new)
  PROVE Acyclic(new)
<1> SUFFICES ASSUME NEW S \in SUBSET {t \in Tasks : Live(new, t)}, S # {},
                    \A t \in S : WaitEdges(new, t) \cap S # {}
             PROVE  FALSE
  BY DEF Acyclic
<1>1. ASSUME NEW n \in Tasks, Newborn(new, n) PROVE WaitEdges(new, n) = {}
  <2>1. OwnedLive(new, n) = {}
    <3>1. SUFFICES ASSUME NEW d \in Tasks, n \in new[d].above PROVE FALSE
      BY DEF OwnedLive
    <3>2. CASE Next1(task[d], new[d])
      BY <1>1, <3>1, <3>2 DEF Next1, Evolves, Kept, Newborn, Placed
    <3>3. CASE Newborn(new, d)
      BY <1>1, <3>1, <3>3 DEF Newborn
    <3> QED
      BY <3>2, <3>3 DEF CalmCommit, Commit
  <2> QED
    BY <1>1, <2>1 DEF WaitEdges, Waits, Newborn
<1>2. \A t \in S : t \in Tasks /\ Live(new, t) /\ Next1(task[t], new[t])
  BY <1>1 DEF CalmCommit, Commit
<1>3. \A t \in S : Live(task, t)
  BY <1>2 DEF Next1, Evolves, Live
<1>4. ASSUME NEW t \in S PROVE WaitEdges(new, t) \cap S \subseteq WaitEdges(task, t)
  <2>1. SUFFICES ASSUME NEW d \in S, d \in WaitEdges(new, t)
                 PROVE  d \in WaitEdges(task, t)
    OBVIOUS
  <2>2. CASE d \in OwnedLive(new, t)
    <3>1. d \in OwnedLive(task, t)
      BY <1>2, <1>3, <2>2 DEF Next1, Evolves, Kept, OwnedLive
    <3> QED
      BY <1>3, <3>1 DEF WaitEdges
  <2>3. CASE d \notin OwnedLive(new, t)
    <3>1. Waits(new, t) /\ ~Marked(new, t) /\ d \in new[t].on
      BY <2>1, <2>3 DEF WaitEdges
    <3>2. new[t].status = "waiting" /\ new[t].mark = "none"
      BY <3>1 DEF Waits, Marked
    <3>3. task[t].status = "waiting" /\ task[t].on = new[t].on
      BY <1>2, <3>2 DEF CalmCommit, Calm
    <3>4. task[t].mark = "none"
      BY <1>2, <3>2 DEF Next1, Evolves
    <3> QED
      BY <1>3, <3>1, <3>3, <3>4 DEF WaitEdges, Waits, Marked
  <2> QED
    BY <2>2, <2>3
<1>5. S \in SUBSET {t \in Tasks : Live(task, t)}
  BY <1>2, <1>3
<1> QED
  BY <1>4, <1>5 DEF Acyclic

(* A validated wait closes no cycle: what the waiter waits on reaches a set*)
(* of tasks that it is not in.                                             *)
LEMMA WaitKeepsAcyclic ==
  ASSUME NEW tk \in [Tasks -> Records], Acyclic(tk), NEW t \in Tasks,
         tk[t].status = "running",
         \A d \in Tasks : tk[d].owner = t => t \in tk[d].above /\ ~tk[d].background,
         NEW r \in Records, r.status = "waiting", Next1(tk[t], r),
         ValidWait(tk, t, r.on, r.policy)
  PROVE Acyclic([tk EXCEPT ![t] = r])
<1> DEFINE new == [tk EXCEPT ![t] = r]
<1>1. new[t] = r /\ \A u \in Tasks : u # t => new[u] = tk[u]
  OBVIOUS
<1> HIDE DEF new
<1> SUFFICES ASSUME NEW S \in SUBSET {u \in Tasks : Live(new, u)}, S # {},
                    \A u \in S : WaitEdges(new, u) \cap S # {}
             PROVE  FALSE
  BY DEF Acyclic, new
<1>2. \A u \in Tasks : Live(new, u) <=> Live(tk, u)
  BY <1>1 DEF Live
<1>3. \A u \in Tasks : OwnedLive(new, u) = OwnedLive(tk, u)
  <2>1. \A d \in Tasks : new[d].background = tk[d].background /\ new[d].above = tk[d].above
    BY <1>1 DEF Next1, Evolves, Kept
  <2> QED
    BY <1>2, <2>1 DEF OwnedLive
<1>4. \A u \in Tasks : u # t => WaitEdges(new, u) = WaitEdges(tk, u)
  BY <1>1, <1>2, <1>3 DEF WaitEdges, Waits, Marked
<1>5. S \in SUBSET {u \in Tasks : Live(tk, u)}
  BY <1>2
<1>6. t \in S /\ WaitEdges(tk, t) \cap S = {}
  BY <1>4, <1>5 DEF Acyclic
<1>7. WaitEdges(new, t) \subseteq OwnedLive(tk, t) \cup r.on
  BY <1>1, <1>3 DEF WaitEdges
<1>8. OwnedLive(tk, t) \cap S = {}
  BY <1>6 DEF WaitEdges, Live
<1> DEFINE targets == {m \in r.on : tk[m].status # "terminal" /\ tk[m].owner # t}
<1>9. r.on \cap S \subseteq targets
  <2>1. SUFFICES ASSUME NEW m \in r.on \cap S, tk[m].owner = t PROVE FALSE
    BY <1>5 DEF Live
  <2> QED
    BY <1>5, <1>8, <2>1 DEF OwnedLive
<1>10. targets # {}
  BY <1>6, <1>7, <1>8, <1>9
<1>11. PICK C \in SUBSET Tasks :
         /\ targets \subseteq C /\ t \notin C
         /\ \A x \in C : WaitEdges(tk, x) \subseteq C
  BY <1>10 DEF ValidWait, WaitReaches
<1> DEFINE D == S \cap C
<1>12. D # {}
  BY <1>6, <1>7, <1>8, <1>9, <1>11
<1>13. \A u \in D : WaitEdges(tk, u) \cap D # {}
  BY <1>4, <1>11
<1> QED
  BY <1>5, <1>12, <1>13 DEF Acyclic

-----------------------------------------------------------------------------
(* What the actions write *)

LEMMA TerminatedKept ==
  ASSUME NEW tk \in [Tasks -> Records], NEW t \in Tasks,
         WellFormed(tk[t]), tk[t].status \in RunStatuses, NEW o \in Outcomes,
         o = "orphaned" => OwnedLive(tk, t) = {}
  PROVE /\ Next1(tk[t], Terminated(tk, t, o)) /\ Calm(tk[t], Terminated(tk, t, o))
        /\ Terminated(tk, t, o) \in Records
        /\ Terminated(tk, t, o).status = "terminal" => OwnedLive(tk, t) = {}
        /\ Terminated(tk, t, o).status # "terminal" =>
             Terminated(tk, t, o).status = "completing"
<1> DEFINE s == IF OwnedLive(tk, t) # {} THEN "completing" ELSE "terminal"
<1>1. s \in {"completing", "terminal"} /\ (s = "terminal" <=> OwnedLive(tk, t) = {})
  OBVIOUS
<1>2. Terminated(tk, t, o) = WithOutcome(tk[t], s, o)
  BY DEF Terminated
<1> HIDE DEF s
<1> QED
  BY <1>1, <1>2, OutcomeKept

LEMMA CommitsKept ==
  ASSUME NEW tk \in [Tasks -> Records], NEW t \in Tasks,
         WellFormed(tk[t]), tk[t].status = "running", NEW r \in Commits(tk, t)
  PROVE /\ r \in Records /\ Next1(tk[t], r)
        /\ r.status = "terminal" => OwnedLive(tk, t) = {}
        /\ \/ Calm(tk[t], r)
           \/ r.status = "waiting" /\ ValidWait(tk, t, r.on, r.policy)
<1>1. CASE r = tk[t]
  BY <1>1 DEF Next1, Calm
<1>2. CASE r \in NextRecords(tk, t) /\ MayCommit(tk, t, r)
  BY <1>2, NextRecordsKept DEF Next1, WellFormed, Calm, MayCommit
<1>3. ASSUME NEW o \in {"completed", "failed"}, r = Terminated(tk, t, o)
      PROVE  /\ r \in Records /\ Next1(tk[t], r) /\ Calm(tk[t], r)
             /\ r.status = "terminal" => OwnedLive(tk, t) = {}
  BY <1>3, TerminatedKept
<1> QED
  BY <1>1, <1>2, <1>3 DEF Commits

LEMMA NewTaskFormed ==
  ASSUME TypeOK, NEW owner \in 0 .. MaxTasks, NEW conv \in Convs,
         NEW above \in SUBSET Tasks, NEW shape \in ShapeSet
  PROVE LET r == NewTask(owner, conv, above, shape) IN
        /\ r \in Records /\ WellFormed(r)
        /\ r.status = "pending" /\ r.mark = "none" /\ r.born = stops
        /\ r.owner = owner /\ r.conv = conv /\ r.above = above
        /\ r.background = shape.background
<1> DEFINE r == NewTask(owner, conv, above, shape)
           z == NoTask
<1>1. /\ shape.background \in BOOLEAN /\ shape.abandonOnRestart \in BOOLEAN
      /\ stops \in Nat
  BY DEF ShapeSet, TypeOK
<1>2. /\ z \in Records
      /\ z.mark = "none" /\ z.on = {} /\ z.outcome = "none"
  BY BoundsAssumption DEF NoTask, Records, Root, Convs
<1>3. r = [z EXCEPT !.status = "pending", !.owner = owner, !.conv = conv,
                    !.above = above, !.background = shape.background,
                    !.abandonOnRestart = shape.abandonOnRestart,
                    !.born = stops]
  BY DEF NewTask
<1> HIDE DEF r, z
<1>4. r \in Records
  BY <1>1, <1>2, <1>3 DEF Records
<1>5. /\ r.status = "pending" /\ r.mark = z.mark /\ r.born = stops
      /\ r.owner = owner /\ r.conv = conv /\ r.above = above
      /\ r.background = shape.background
      /\ r.on = z.on /\ r.outcome = z.outcome
  BY <1>2, <1>3 DEF Records
<1> QED
  BY <1>2, <1>4, <1>5 DEF WellFormed, r

LEMMA ThroughPlaced ==
  ASSUME TypeOK, Placed, NEW p \in Convs, p # Root => Exists(task, p)
  PROVE /\ Through(task, p) \in SUBSET Tasks
        /\ \A q \in Through(task, p) : Exists(task, q)
        /\ p # Root => p \in Through(task, p)
<1>1. task \in [Tasks -> Records]
  BY RecordsType
<1>2. p # Root => p \in Tasks
  BY BoundsAssumption DEF Convs, Tasks, Root
<1>3. p # Root => task[p].above \in SUBSET Tasks
  BY <1>1, <1>2 DEF Records
<1> QED
  BY <1>2, <1>3 DEF Through, Placed

(* A commit that creates one task is calm.                                 *)
LEMMA Creation ==
  ASSUME TypeOK, Placed, NEW n \in Fresh,
         NEW owner \in 0 .. MaxTasks, NEW conv \in Convs, NEW p \in Convs,
         NEW shape \in ShapeSet,
         conv # Root => Exists(task, conv), p # Root => Exists(task, p),
         owner # 0 => /\ p = owner /\ ~shape.background
                      /\ Live(task, owner) /\ ~Marked(task, owner)
  PROVE CalmCommit([task EXCEPT ![n] = NewTask(owner, conv, Through(task, p), shape)])
<1> DEFINE r == NewTask(owner, conv, Through(task, p), shape)
           new == [task EXCEPT ![n] = r]
<1>0. /\ n \in Tasks /\ ~Exists(task, n)
      /\ \A d \in Tasks : d < n => Exists(task, d)
  BY DEF Fresh
<1>1. task \in [Tasks -> Records] /\ \A u \in Tasks : WellFormed(task[u])
  BY RecordsType
<1>2. /\ Through(task, p) \in SUBSET Tasks
      /\ \A q \in Through(task, p) : Exists(task, q)
      /\ p # Root => p \in Through(task, p)
  BY ThroughPlaced
<1>3. /\ r \in Records /\ WellFormed(r)
      /\ r.status = "pending" /\ r.mark = "none" /\ r.born = stops
      /\ r.owner = owner /\ r.conv = conv /\ r.above = Through(task, p)
      /\ r.background = shape.background
  BY <1>2, NewTaskFormed
<1> HIDE DEF r
<1>4. /\ new \in [Tasks -> Records] /\ new[n] = r
      /\ \A u \in Tasks : u # n => new[u] = task[u]
  BY <1>0, <1>1, <1>3
<1> HIDE DEF new
<1>5. owner # 0 => owner \in Tasks /\ owner # n
  BY <1>0, BoundsAssumption DEF Tasks, Exists, Live
<1>6. owner # 0 => Live(new, owner)
  BY <1>4, <1>5 DEF Live
<1>7. Newborn(new, n)
  BY <1>0, <1>2, <1>3, <1>4, <1>6 DEF Newborn, Root
<1>8. \A t \in Tasks : Next1(task[t], new[t]) \/ Newborn(new, t)
  BY <1>1, <1>4, <1>7 DEF Next1
<1>9. \A t \in Tasks : Live(task, t) => Live(new, t)
  BY <1>0, <1>4 DEF Live, Exists
<1>10. \A t \in Tasks : Calm(task[t], new[t])
  BY <1>3, <1>4 DEF Calm
<1> QED
  BY <1>4, <1>8, <1>9, <1>10 DEF CalmCommit, Commit, new, r

-----------------------------------------------------------------------------
(* Every action commits *)

LEMMA SameCommit ==
  ASSUME TypeOK
  PROVE CalmCommit(task)
BY RecordsType DEF CalmCommit, Commit, Calm, Next1

(* A commit of one record by the scheduler.                                *)
LEMMA OneCalm ==
  ASSUME TypeOK, NEW t \in Tasks, NEW r \in Records,
         Next1(task[t], r), Calm(task[t], r),
         Live(task, t) /\ r.status = "terminal" => OwnedLive(task, t) = {}
  PROVE CalmCommit([task EXCEPT ![t] = r])
<1> DEFINE new == [task EXCEPT ![t] = r]
<1>1. Commit(new)
  BY OneRecord
<1>2. \A u \in Tasks : Calm(task[u], new[u])
  BY RecordsType DEF Calm
<1> QED
  BY <1>1, <1>2 DEF CalmCommit

LEMMA HostCreateCommits ==
  ASSUME TypeOK, Placed, NEW c \in convs \cup {Root}, NEW shape \in HostShapes,
         HostCreate(c, shape)
  PROVE CalmCommit(task')
<1>1. PICK n \in Fresh \cap 1 .. MaxHost :
        task' = [task EXCEPT ![n] = NewTask(0, c, Through(task, c), shape)]
  BY DEF HostCreate, Publish
<1>2. n \in Fresh
  BY <1>1
<1>3. 0 \in 0 .. MaxTasks /\ c \in Convs /\ (c # Root => Exists(task, c))
  <2>1. convs \subseteq Tasks /\ \A d \in convs : Exists(task, d)
    BY DEF TypeOK, Placed
  <2> QED
    BY <2>1, BoundsAssumption DEF Convs, Tasks, Root
<1>4. shape \in ShapeSet
  BY ShapesAssumption
<1> QED
  BY <1>1, <1>2, <1>3, <1>4, Creation

LEMMA RetryCommits ==
  ASSUME TypeOK, NEW t \in Tasks, Retry(t)
  PROVE CalmCommit(task')
<1>1. task' = [task EXCEPT ![t] = Progressed(task[t])]
  BY DEF Retry, Publish
<1>2. task[t] \in Records /\ WellFormed(task[t]) /\ task[t].status \in RunStatuses
  BY RecordsType DEF Retry
<1>3. /\ Next1(task[t], Progressed(task[t])) /\ Calm(task[t], Progressed(task[t]))
      /\ Progressed(task[t]) \in Records /\ Progressed(task[t]).status # "terminal"
  BY <1>2, ProgressKept
<1> QED
  BY <1>1, <1>3, OneCalm

LEMMA AbortCommits ==
  ASSUME TypeOK, NEW t \in Tasks, NEW keep \in BOOLEAN, Abort(t, keep)
  PROVE CalmCommit(task')
<1>1. task' = [task EXCEPT ![t] = IF Orphan(t) THEN Terminated(task, t, "orphaned")
                                  ELSE WithAbortMark(task[t], "request")]
  BY DEF Abort, Publish
<1>2. task[t] \in Records /\ WellFormed(task[t]) /\ task[t].status \in LiveStatuses
  BY RecordsType DEF Abort, Live
<1>3. CASE Orphan(t)
  <2> DEFINE r == Terminated(task, t, "orphaned")
  <2>1. OwnedLive(task, t) = {} /\ task[t].status \in RunStatuses
    BY <1>2, <1>3 DEF Orphan, Completing
  <2>2. r \in Records /\ Next1(task[t], r) /\ Calm(task[t], r)
    BY <1>2, <2>1, TerminatedKept, RecordsType
  <2> HIDE DEF r
  <2>3. CalmCommit([task EXCEPT ![t] = r])
    BY <2>1, <2>2, OneCalm
  <2> QED
    BY <1>1, <1>3, <2>3 DEF r
<1>4. CASE ~Orphan(t)
  <2> DEFINE r == WithAbortMark(task[t], "request")
  <2>1. /\ r \in Records /\ Next1(task[t], r) /\ Calm(task[t], r)
        /\ r.status = task[t].status
    BY <1>2, MarkKept
  <2> HIDE DEF r
  <2>2. CalmCommit([task EXCEPT ![t] = r])
    BY <1>2, <2>1, OneCalm
  <2> QED
    BY <1>1, <1>4, <2>2 DEF r
<1> QED
  BY <1>3, <1>4

(* A commit of many records by the scheduler.                              *)
LEMMA ManyCalm ==
  ASSUME TypeOK, NEW new, new = [t \in Tasks |-> new[t]],
         \A t \in Tasks : Next1(task[t], new[t]) /\ Calm(task[t], new[t]),
         \A t \in Tasks : Live(task, t) /\ new[t].status = "terminal" =>
           \A d \in OwnedLive(task, t) : new[d].status = "terminal"
  PROVE CalmCommit(new)
<1>1. \A t \in Tasks : Live(task, t) /\ ~Live(new, t) => new[t].status = "terminal"
  BY DEF Next1, Evolves, Live
<1>2. \A t \in Tasks : new[t].status = "terminal" => ~Live(new, t)
  BY DEF Live
<1>3. \A t \in Tasks : Live(task, t) /\ ~Live(new, t) =>
        \A d \in OwnedLive(task, t) : ~Live(new, d)
  BY <1>1, <1>2 DEF OwnedLive
<1> QED
  BY <1>3, ManyRecords DEF CalmCommit

LEMMA AbortConversationCommits ==
  ASSUME TypeOK, NEW c, NEW b \in BOOLEAN, AbortConversation(c, b)
  PROVE CalmCommit(task')
<1> DEFINE reached == {t \in Tasks : /\ Live(task, t) /\ c \in Scopes(task, b)[t]
                                     /\ b \/ ~task[t].background
                                     /\ task[t].mark # "request"}
           new == [t \in Tasks |-> IF t \in reached
                                   THEN WithAbortMark(task[t], "request")
                                   ELSE task[t]]
<1>1. task' = new
  BY DEF AbortConversation, Publish
<1>2. \A t \in reached : t \in Tasks /\ task[t].status \in LiveStatuses
  BY DEF Live
<1> HIDE DEF reached
<1>3. ASSUME NEW t \in Tasks
      PROVE  /\ Next1(task[t], new[t]) /\ Calm(task[t], new[t])
             /\ new[t].status = task[t].status
  <2>1. task[t] \in Records /\ WellFormed(task[t])
    BY RecordsType
  <2>2. CASE t \in reached
    BY <1>2, <2>1, <2>2, MarkKept
  <2>3. CASE t \notin reached
    BY <2>1, <2>3 DEF Next1, Calm
  <2> QED
    BY <2>2, <2>3
<1>4. new = [t \in Tasks |-> new[t]]
  OBVIOUS
<1> HIDE DEF new
<1>5. \A t \in Tasks : Live(task, t) => new[t].status # "terminal"
  BY <1>3 DEF Live
<1> QED
  BY <1>1, <1>3, <1>4, <1>5, ManyCalm

LEMMA ReconcileCommits ==
  ASSUME TypeOK, Reconcile
  PROVE CalmCommit(task')
<1> DEFINE marked == [t \in Tasks |->
                        IF CascadeMark(t) = task[t].mark THEN task[t]
                        ELSE WithAbortMark(task[t], CascadeMark(t))]
           done == Finalized(marked)
           new == [t \in Tasks |->
                     IF t \in done
                     THEN WithOutcome(marked[t], "terminal", marked[t].outcome)
                     ELSE marked[t]]
<1>1. task' = new
  BY DEF Reconcile, Publish
<1>2. ASSUME NEW t \in Tasks, CascadeMark(t) # task[t].mark
      PROVE  /\ task[t].status \in LiveStatuses
             /\ CascadeMark(t) \in {"restart", "request"}
             /\ task[t].mark = "request" => CascadeMark(t) = "request"
  <2> DEFINE owners == IF Live(task, t) /\ ~task[t].background
                       THEN CancellingOwner(task, t) ELSE {}
             request == \/ t \in FailFastMarks
                        \/ \E p \in owners : task[p].mark # "restart"
                                             \/ FailedOutcome(task, p)
  <2>1. CascadeMark(t) = IF request THEN "request"
                         ELSE IF owners # {} /\ ~Marked(task, t) THEN "restart"
                         ELSE task[t].mark
    BY DEF CascadeMark
  <2>2. t \in FailFastMarks => Live(task, t)
    <3>1. SUFFICES ASSUME NEW w \in pass.checks,
                          t \in LET on == task[w].on IN
                                IF Waits(task, w) /\ \E m \in on : FailedOutcome(task, m)
                                THEN {m \in on : Live(task, m) /\ ~FailedOutcome(task, m)}
                                ELSE {}
                   PROVE  Live(task, t)
      BY DEF FailFastMarks
    <3> QED
      BY <3>1
  <2>3. request \/ owners # {}
    BY <1>2, <2>1
  <2>4. Live(task, t)
    BY <2>2, <2>3
  <2> QED
    BY <1>2, <2>1, <2>4 DEF Live, Marked
<1>3. ASSUME NEW t \in Tasks
      PROVE  /\ Next1(task[t], marked[t]) /\ Calm(task[t], marked[t])
             /\ marked[t].status = task[t].status
  <2>1. task[t] \in Records /\ WellFormed(task[t])
    BY RecordsType
  <2>2. CASE CascadeMark(t) = task[t].mark
    BY <2>1, <2>2 DEF Next1, Calm
  <2>3. CASE CascadeMark(t) # task[t].mark
    BY <1>2, <2>1, <2>3, MarkKept
  <2> QED
    BY <2>2, <2>3
<1> HIDE DEF marked
<1>4. \A t \in done : t \in Tasks /\ marked[t].status = "completing"
                      /\ OwnedLive(marked, t) \subseteq done
  BY DEF Finalized, Completing
<1> HIDE DEF done
<1>5. ASSUME NEW t \in Tasks
      PROVE  /\ Next1(task[t], new[t]) /\ Calm(task[t], new[t])
             /\ new[t].status = IF t \in done THEN "terminal" ELSE task[t].status
  <2>1. marked[t] \in Records /\ WellFormed(marked[t])
    BY <1>3 DEF Next1, WellFormed
  <2>2. CASE t \in done
    <3> DEFINE r == WithOutcome(marked[t], "terminal", marked[t].outcome)
    <3>1. marked[t].outcome \in Outcomes /\ marked[t].status = "completing"
      BY <1>4, <2>1, <2>2 DEF WellFormed, Records
    <3>2. Next1(marked[t], r) /\ Calm(marked[t], r) /\ r.status = "terminal"
      BY <2>1, <3>1, OutcomeKept
    <3>3. new[t] = r
      BY <2>2
    <3> HIDE DEF r, new
    <3> QED
      BY <1>3, <2>2, <3>2, <3>3, NextTrans DEF Calm
  <2>3. CASE t \notin done
    BY <1>3, <2>3
  <2> QED
    BY <2>2, <2>3
<1>6. new = [t \in Tasks |-> new[t]]
  OBVIOUS
<1> HIDE DEF new
<1>7. ASSUME NEW t \in Tasks, Live(task, t), new[t].status = "terminal",
             NEW d \in OwnedLive(task, t)
      PROVE  new[d].status = "terminal"
  <2>1. t \in done
    BY <1>5, <1>7 DEF Live
  <2>2. d \in OwnedLive(marked, t)
    BY <1>3, <1>7 DEF OwnedLive, Live, Next1, Evolves, Kept
  <2>3. d \in Tasks /\ d \in done
    BY <1>4, <1>7, <2>1, <2>2 DEF OwnedLive
  <2> QED
    BY <1>5, <2>3
<1> QED
  BY <1>1, <1>5, <1>6, <1>7, ManyCalm

LEMMA ReserveAbandonedCommits ==
  ASSUME TypeOK, ReserveAbandoned
  PROVE CalmCommit(task')
<1> DEFINE new == [t \in Tasks |->
                     IF t \in abandoned /\ Live(task, t) /\ ~Marked(task, t)
                     THEN WithAbortMark(task[t], "restart") ELSE task[t]]
<1>1. task' = new
  BY DEF ReserveAbandoned, Publish
<1>2. ASSUME NEW t \in Tasks
      PROVE  /\ Next1(task[t], new[t]) /\ Calm(task[t], new[t])
             /\ new[t].status = task[t].status
  <2>1. task[t] \in Records /\ WellFormed(task[t])
    BY RecordsType
  <2>2. CASE t \in abandoned /\ Live(task, t) /\ ~Marked(task, t)
    BY <2>1, <2>2, MarkKept DEF Live, Marked
  <2>3. CASE ~(t \in abandoned /\ Live(task, t) /\ ~Marked(task, t))
    BY <2>1, <2>3 DEF Next1, Calm
  <2> QED
    BY <2>2, <2>3
<1>3. new = [t \in Tasks |-> new[t]]
  OBVIOUS
<1> HIDE DEF new
<1>4. \A t \in Tasks : Live(task, t) => new[t].status # "terminal"
  BY <1>2 DEF Live
<1> QED
  BY <1>1, <1>2, <1>3, <1>4, ManyCalm

(* A candidate that a reservation takes or ends has a status that runs, and*)
(* no owned work if it is marked.                                          *)
LEMMA CandidateState ==
  ASSUME TypeOK, NEW t \in Candidates \ Dropped
  PROVE /\ t \in Tasks /\ task[t].status \in RunStatuses
        /\ inv[t].mode = "none"
        /\ Marked(task, t) => OwnedLive(task, t) = {}
<1>1. t \in Tasks
  BY DEF TypeOK, Candidates, DueSleepers
<1>2. t \notin Dropped
  OBVIOUS
<1>3. Live(task, t) /\ ~Completing(task, t) /\ inv[t].mode = "none" /\ WaitingOn(task, t) = {}
  BY <1>1, <1>2 DEF Dropped
<1> QED
  BY <1>1, <1>3 DEF Live, Completing, WaitingOn

LEMMA ReserveCommits ==
  ASSUME TypeOK, Reserve
  PROVE CalmCommit(task')
<1> DEFINE new == [t \in Tasks |->
                     IF t \in Worn THEN Terminated(task, t, "failed")
                     ELSE IF t \in Orphaned THEN Terminated(task, t, "orphaned")
                     ELSE IF t \in Reserved THEN WithState(task[t], "running")
                     ELSE task[t]]
<1>1. task' = new
  BY DEF Reserve, Publish
<1>2. /\ Worn \cup Orphaned \cup Reserved \subseteq Candidates \ Dropped
      /\ \A t \in Orphaned : Marked(task, t)
  BY DEF Worn, Orphaned, Blocked, Reserved, Marked
<1>3. ASSUME NEW t \in Tasks
      PROVE  /\ Next1(task[t], new[t]) /\ Calm(task[t], new[t])
             /\ Live(task, t) /\ new[t].status = "terminal" => OwnedLive(task, t) = {}
  <2>1. /\ task \in [Tasks -> Records] /\ task[t] \in Records /\ WellFormed(task[t])
        /\ t \in Candidates \ Dropped => task[t].status \in RunStatuses
    BY RecordsType, CandidateState
  <2>2. CASE t \in Worn
    <3>1. new[t] = Terminated(task, t, "failed") /\ task[t].status \in RunStatuses
      BY <1>2, <2>1, <2>2
    <3> HIDE DEF new
    <3> QED
      BY <2>1, <3>1, TerminatedKept
  <2>3. CASE t \notin Worn /\ t \in Orphaned
    <3>1. /\ new[t] = Terminated(task, t, "orphaned")
          /\ task[t].status \in RunStatuses /\ OwnedLive(task, t) = {}
      BY <1>2, <2>1, <2>3, CandidateState
    <3> HIDE DEF new
    <3> QED
      BY <2>1, <3>1, TerminatedKept
  <2>4. CASE t \notin Worn /\ t \notin Orphaned /\ t \in Reserved
    <3>1. new[t] = WithState(task[t], "running") /\ task[t].status \in RunStatuses
      BY <1>2, <2>1, <2>4
    <3> HIDE DEF new
    <3> QED
      BY <2>1, <3>1, StateKept
  <2>5. CASE t \notin Worn /\ t \notin Orphaned /\ t \notin Reserved
    <3>1. new[t] = task[t]
      BY <2>5
    <3> HIDE DEF new
    <3> QED
      BY <2>1, <3>1 DEF Next1, Calm, Live
  <2> QED
    BY <2>2, <2>3, <2>4, <2>5
<1>4. new = [t \in Tasks |-> new[t]]
  OBVIOUS
<1> HIDE DEF new
<1> QED
  BY <1>1, <1>3, <1>4, ManyCalm

LEMMA FirstStepCommits ==
  ASSUME TypeOK, NEW t \in Tasks, FirstStep(t)
  PROVE CalmCommit(task')
<1>1. task' = task \/ task' = [task EXCEPT ![t] = task[t]]
  BY DEF FirstStep, EndWith, Continue, Publish
<1>2. [task EXCEPT ![t] = task[t]] = task
  BY RecordsType
<1> QED
  BY <1>1, <1>2, SameCommit

LEMMA EndPhaseCommits ==
  ASSUME TypeOK, NEW t \in Tasks, NEW threw \in BOOLEAN, EndPhase(t, threw)
  PROVE CalmCommit(task')
<1> DEFINE f == Terminated(task, t, "failed")
           w == WithState(task[t], "pending")
<1>1. task \in [Tasks -> Records] /\ task[t] \in Records /\ WellFormed(task[t])
  BY RecordsType
<1>2. CASE task' = task \/ task' = [task EXCEPT ![t] = task[t]]
  <2>1. [task EXCEPT ![t] = task[t]] = task
    BY <1>1
  <2> QED
    BY <1>2, <2>1, SameCommit
<1>3. CASE task[t].status = "running" /\ task' = [task EXCEPT ![t] = f]
  <2>1. /\ f \in Records /\ Next1(task[t], f) /\ Calm(task[t], f)
        /\ f.status = "terminal" => OwnedLive(task, t) = {}
    BY <1>1, <1>3, TerminatedKept
  <2> HIDE DEF f
  <2> QED
    BY <1>3, <2>1, OneCalm
<1>4. CASE task[t].status = "running" /\ task' = [task EXCEPT ![t] = w]
  <2>1. /\ w \in Records /\ Next1(task[t], w) /\ Calm(task[t], w)
        /\ w.status = "pending"
    BY <1>1, <1>4, StateKept
  <2> HIDE DEF w
  <2> QED
    BY <1>4, <2>1, OneCalm
<1> QED
  BY <1>2, <1>3, <1>4 DEF EndPhase, EndWith, Continue, Publish

LEMMA EndAbortCommits ==
  ASSUME TypeOK, NEW t \in Tasks, EndAbort(t)
  PROVE CalmCommit(task')
<1> DEFINE f == Terminated(task, t, "failed")
<1>1. task \in [Tasks -> Records] /\ task[t] \in Records /\ WellFormed(task[t])
  BY RecordsType
<1>2. CASE task[t].status # "running" /\ task' = [task EXCEPT ![t] = task[t]]
  <2>1. [task EXCEPT ![t] = task[t]] = task
    BY <1>1
  <2> QED
    BY <1>2, <2>1, SameCommit
<1>3. CASE task[t].status = "running" /\ task' = [task EXCEPT ![t] = f]
  <2>1. /\ f \in Records /\ Next1(task[t], f) /\ Calm(task[t], f)
        /\ f.status = "terminal" => OwnedLive(task, t) = {}
    BY <1>1, <1>3, TerminatedKept
  <2> HIDE DEF f
  <2> QED
    BY <1>3, <2>1, OneCalm
<1> QED
  BY <1>2, <1>3 DEF EndAbort, EndWith, Publish

LEMMA CutOffKept ==
  ASSUME NEW r \in Records, WellFormed(r), r.status = "running"
  PROVE LET s == [WithState(r, "pending") EXCEPT !.restarts = @ + 1] IN
        /\ s \in Records /\ Next1(r, s) /\ Calm(r, s) /\ s.status = "pending"
<1> DEFINE w == WithState(r, "pending")
           n == w.restarts + 1
           s == [w EXCEPT !.restarts = n]
<1>1. w \in Records /\ Next1(r, w) /\ w.status = "pending"
  BY StateKept
<1> HIDE DEF w
<1>2. n \in Nat
  BY <1>1 DEF Records
<1> HIDE DEF n
<1>3. s \in Records
  BY <1>1, <1>2 DEF Records
<1>4. /\ s.status = w.status /\ s.on = w.on /\ s.outcome = w.outcome
      /\ s.mark = w.mark /\ Kept(w, s)
  BY <1>1 DEF Records, Kept
<1>5. Next1(w, s)
  BY <1>1, <1>3, <1>4 DEF Next1, WellFormed, Evolves
<1>6. Next1(r, s)
  BY <1>1, <1>5, NextTrans
<1> QED
  BY <1>1, <1>3, <1>4, <1>6 DEF Calm, n, w

LEMMA OpenCommits ==
  ASSUME TypeOK, Open
  PROVE CalmCommit(task')
<1> DEFINE new == [t \in Tasks |->
                     IF task[t].status = "running"
                     THEN [WithState(task[t], "pending") EXCEPT !.restarts = @ + 1]
                     ELSE task[t]]
<1>1. task' = new
  BY DEF Open
<1>2. ASSUME NEW t \in Tasks
      PROVE  /\ Next1(task[t], new[t]) /\ Calm(task[t], new[t])
             /\ new[t].status = IF task[t].status = "running" THEN "pending"
                                ELSE task[t].status
  <2>1. task[t] \in Records /\ WellFormed(task[t])
    BY RecordsType
  <2>2. CASE task[t].status = "running"
    BY <2>1, <2>2, CutOffKept
  <2>3. CASE task[t].status # "running"
    BY <2>1, <2>3 DEF Next1, Calm
  <2> QED
    BY <2>2, <2>3
<1>3. new = [t \in Tasks |-> new[t]]
  OBVIOUS
<1> HIDE DEF new
<1>4. \A t \in Tasks : Live(task, t) => new[t].status # "terminal"
  BY <1>2 DEF Live
<1> QED
  BY <1>1, <1>2, <1>3, <1>4, ManyCalm

LEMMA CloseDoneCommits ==
  ASSUME TypeOK, CloseDone
  PROVE CalmCommit(task')
<1> DEFINE new == [t \in Tasks |->
                     IF t \in stopped /\ task[t].status = "running"
                     THEN WithState(task[t], "pending") ELSE task[t]]
<1>1. task' = new
  BY DEF CloseDone
<1>2. ASSUME NEW t \in Tasks
      PROVE  /\ Next1(task[t], new[t]) /\ Calm(task[t], new[t])
             /\ new[t].status = "pending" \/ new[t].status = task[t].status
  <2>1. task[t] \in Records /\ WellFormed(task[t])
    BY RecordsType
  <2>2. CASE t \in stopped /\ task[t].status = "running"
    BY <2>1, <2>2, StateKept
  <2>3. CASE ~(t \in stopped /\ task[t].status = "running")
    BY <2>1, <2>3 DEF Next1, Calm
  <2> QED
    BY <2>2, <2>3
<1>3. new = [t \in Tasks |-> new[t]]
  OBVIOUS
<1> HIDE DEF new
<1>4. \A t \in Tasks : Live(task, t) => new[t].status # "terminal"
  BY <1>2 DEF Live
<1> QED
  BY <1>1, <1>2, <1>3, <1>4, ManyCalm

(* A task that another owns hangs below it in the foreground, and lives no *)
(* longer.                                                                 *)
Children ==
    \A t \in Tasks : task[t].owner # 0 =>
        /\ task[t].owner \in task[t].above /\ ~task[t].background
        /\ Live(task, t) => Live(task, task[t].owner)

(* A handler's commit: it may have created a task, `tk`, and writes its own*)
(* record last.                                                            *)
LEMMA HandlerWrites ==
  ASSUME TypeOK, Placed, Children, Acyclic(task),
         NEW tk, CalmCommit(tk), NEW t \in Tasks, tk[t] = task[t],
         task[t].status = "running", NEW r \in Commits(tk, t),
         \A n \in Tasks : Newborn(tk, n) /\ tk[n].owner # 0 =>
           Live([tk EXCEPT ![t] = r], tk[n].owner)
  PROVE Commit([tk EXCEPT ![t] = r]) /\ Acyclic([tk EXCEPT ![t] = r])
<1> DEFINE new == [tk EXCEPT ![t] = r]
<1>1. tk \in [Tasks -> Records] /\ WellFormed(tk[t])
  BY RecordsType DEF CalmCommit, Commit
<1>2. /\ r \in Records /\ Next1(tk[t], r)
      /\ r.status = "terminal" => OwnedLive(tk, t) = {}
      /\ \/ Calm(tk[t], r)
         \/ r.status = "waiting" /\ ValidWait(tk, t, r.on, r.policy)
  BY <1>1, CommitsKept
<1>3. /\ new \in [Tasks -> Records] /\ new[t] = r
      /\ \A u \in Tasks : u # t => new[u] = tk[u]
  BY <1>1, <1>2
<1>4. \A n \in Tasks : Newborn(tk, n) /\ tk[n].owner # 0 => Live(new, tk[n].owner)
  OBVIOUS
<1> HIDE DEF new
<1>5. ASSUME NEW u \in Tasks PROVE Next1(task[u], new[u]) \/ Newborn(new, u)
  <2>1. CASE u = t
    BY <1>2, <1>3, <2>1
  <2>2. CASE u # t /\ Newborn(tk, u)
    BY <1>3, <1>4, <2>2 DEF Newborn
  <2>3. CASE u # t /\ ~Newborn(tk, u)
    BY <1>3, <2>3 DEF CalmCommit, Commit
  <2> QED
    BY <2>1, <2>2, <2>3
<1>6. ASSUME NEW u \in Tasks, Live(task, u), ~Live(new, u)
      PROVE  OwnedLive(new, u) = {}
  <2>1. OwnedLive(tk, u) = {}
    <3>1. CASE u = t
      <4>1. r.status = "terminal"
        BY <1>2, <1>3, <1>6, <3>1 DEF Live, Next1, Evolves
      <4> QED
        BY <1>2, <3>1, <4>1
    <3>2. CASE u # t
      <4>1. ~Live(tk, u)
        BY <1>3, <1>6, <3>2 DEF Live
      <4> QED
        BY <1>6, <4>1 DEF CalmCommit, Commit
    <3> QED
      BY <3>1, <3>2
  <2>2. OwnedLive(new, u) \subseteq OwnedLive(tk, u)
    <3>1. \A d \in Tasks : /\ Live(new, d) => Live(tk, d)
                           /\ new[d].background = tk[d].background
                           /\ new[d].above = tk[d].above
      BY <1>2, <1>3 DEF Next1, Evolves, Kept, Live
    <3> QED
      BY <3>1 DEF OwnedLive
  <2> QED
    BY <2>1, <2>2
<1>7. Commit(new)
  BY <1>3, <1>5, <1>6 DEF Commit
<1>8. Acyclic(new)
  <2>1. CASE Calm(tk[t], r)
    <3>1. CalmCommit(new)
      BY <1>3, <1>7, <2>1 DEF CalmCommit, Calm
    <3> QED
      BY <3>1, CalmKeepsAcyclic
  <2>2. CASE r.status = "waiting" /\ ValidWait(tk, t, r.on, r.policy)
    <3>1. Acyclic(tk)
      BY CalmKeepsAcyclic
    <3>2. ASSUME NEW d \in Tasks, tk[d].owner = t
          PROVE  t \in tk[d].above /\ ~tk[d].background
      <4>1. t # 0
        BY DEF Tasks
      <4> QED
        BY <3>2, <4>1 DEF CalmCommit, Commit, Newborn, Next1, Evolves, Kept, Children
    <3> QED
      BY <1>1, <1>2, <2>2, <3>1, <3>2, WaitKeepsAcyclic DEF new
  <2> QED
    BY <1>2, <2>1, <2>2
<1> QED
  BY <1>7, <1>8 DEF new

LEMMA HandlerCommitCommits ==
  ASSUME TypeOK, Placed, Children, Acyclic(task), NEW t \in Tasks, HandlerCommit(t)
  PROVE Commit(task') /\ Acyclic(task')
<1>1. PICK r \in Commits(task, t) : task' = [task EXCEPT ![t] = r]
  BY DEF HandlerCommit, Publish
<1>2. CalmCommit(task)
  BY SameCommit
<1>3. \A n \in Tasks : ~Newborn(task, n)
  BY DEF Newborn, Exists
<1>4. task[t].status = "running"
  BY DEF HandlerCommit, Gated
<1> QED
  BY <1>1, <1>2, <1>3, <1>4, HandlerWrites

LEMMA HandlerCreateCommits ==
  ASSUME TypeOK, Placed, Children, Acyclic(task), NEW t \in Tasks,
         NEW shape \in Shapes, HandlerCreate(t, shape)
  PROVE Commit(task') /\ Acyclic(task')
<1>1. PICK n \in Fresh :
        \E r \in Commits([task EXCEPT ![n] = Created(t, shape)], t) :
          /\ shape.place = "child" => MayOwn(r)
          /\ task' = [[task EXCEPT ![n] = Created(t, shape)] EXCEPT ![t] = r]
  BY DEF HandlerCreate, Publish
<1> DEFINE tk == [task EXCEPT ![n] = Created(t, shape)]
<1>2. PICK r \in Commits(tk, t) :
        /\ shape.place = "child" => MayOwn(r)
        /\ task' = [tk EXCEPT ![t] = r]
  BY <1>1
<1>3. n \in Tasks /\ ~Exists(task, n)
  BY <1>1 DEF Fresh
<1>4. /\ task[t].status = "running" /\ n # t
      /\ task \in [Tasks -> Records] /\ task[t] \in Records /\ WellFormed(task[t])
  BY <1>3, RecordsType DEF HandlerCreate, Gated, Exists
<1>5. /\ tk \in [Tasks -> {tk[u] : u \in Tasks}] /\ tk[t] = task[t]
      /\ tk[n] = Created(t, shape)
      /\ \A u \in Tasks : u # n => tk[u] = task[u]
  BY <1>3, <1>4
<1>6. shape \in ShapeSet /\ (shape.place = "child" => ~shape.background)
  BY ShapesAssumption
<1>7. /\ t \in 0 .. MaxTasks /\ t \in Convs /\ 0 \in 0 .. MaxTasks
      /\ task[t].conv \in Convs /\ t # 0
      /\ Exists(task, t) /\ (task[t].conv # Root => Exists(task, task[t].conv))
  <2>1. task[t].conv \in Convs /\ Exists(task, t)
    BY <1>4 DEF Records, Exists
  <2> QED
    BY <2>1, BoundsAssumption DEF Convs, Tasks, Placed
<1>8. \E owner \in {0, t}, conv \in Convs, p \in Convs :
        /\ Created(t, shape) = NewTask(owner, conv, Through(task, p), shape)
        /\ owner = t => shape.place = "child" /\ p = t
        /\ conv # Root => Exists(task, conv)
        /\ p # Root => Exists(task, p)
  <2>1. CASE shape.place = "child"
    <3>1. Created(t, shape) = NewTask(t, task[t].conv, Through(task, t), shape)
      BY <2>1 DEF Created
    <3> QED
      BY <1>7, <2>1, <3>1
  <2>2. CASE shape.place = "owned"
    <3>1. Created(t, shape) = NewTask(0, t, Through(task, t), shape)
      BY <2>2 DEF Created
    <3> QED
      BY <1>7, <3>1
  <2>3. CASE shape.place = "peer"
    <3>1. Created(t, shape) = NewTask(0, task[t].conv, Through(task, task[t].conv), shape)
      BY <2>3 DEF Created
    <3> QED
      BY <1>7, <3>1
  <2> QED
    BY <1>6, <2>1, <2>2, <2>3 DEF ShapeSet
<1>9. PICK owner \in {0, t}, conv \in Convs, p \in Convs :
        /\ Created(t, shape) = NewTask(owner, conv, Through(task, p), shape)
        /\ owner = t => shape.place = "child" /\ p = t
        /\ conv # Root => Exists(task, conv)
        /\ p # Root => Exists(task, p)
  BY <1>8
<1>10. /\ Created(t, shape) \in Records
       /\ Created(t, shape).owner = owner
  <2>1. Through(task, p) \in SUBSET Tasks
    BY <1>9, ThroughPlaced
  <2>2. owner \in 0 .. MaxTasks
    BY <1>7
  <2> QED
    BY <1>6, <1>9, <2>1, <2>2, NewTaskFormed
<1>11. tk \in [Tasks -> Records]
  BY <1>3, <1>4, <1>10
<1> HIDE DEF tk
<1>12. Next1(task[t], r)
  BY <1>4, <1>5, <1>11, CommitsKept
<1>13. shape.place = "child" => r.status \in RunStatuses /\ ~Marked(task, t)
  BY <1>2, <1>12 DEF MayOwn, Next1, Evolves, Marked
<1>14. CalmCommit(tk)
  <2>1. owner # 0 => p = owner /\ ~shape.background
                     /\ Live(task, owner) /\ ~Marked(task, owner)
    BY <1>4, <1>6, <1>9, <1>13 DEF Live
  <2>2. owner \in 0 .. MaxTasks
    BY <1>7
  <2> QED
    BY <1>6, <1>9, <2>1, <2>2, Creation DEF tk
<1>15. ASSUME NEW m \in Tasks, Newborn(tk, m), tk[m].owner # 0
       PROVE  Live([tk EXCEPT ![t] = r], tk[m].owner)
  <2>1. m = n
    BY <1>5, <1>15 DEF Newborn, Exists
  <2>2. tk[m].owner = t /\ shape.place = "child"
    BY <1>5, <1>9, <1>10, <1>15, <2>1
  <2>3. Live([tk EXCEPT ![t] = r], t)
    BY <1>11, <1>13, <2>2 DEF Live
  <2> QED
    BY <2>2, <2>3
<1> QED
  BY <1>2, <1>4, <1>5, <1>14, <1>15, HandlerWrites

-----------------------------------------------------------------------------
(* Types *)

(* The types of what a publication brings in line, and of the rest.        *)
IndexTyped ==
    /\ due \subseteq Tasks
    /\ runnable \subseteq Tasks /\ finalize \subseteq Tasks /\ checks \subseteq Tasks
    /\ {cascade, recon, dirty} \subseteq BOOLEAN

RestTyped ==
    /\ convs \subseteq Tasks /\ queued \subseteq Convs
    /\ registry \in Nat /\ stops \in Nat /\ crashes \in Nat
    /\ {installed, up, enabled, closing, reserving, timer} \subseteq BOOLEAN
    /\ abandoned \subseteq Tasks /\ stopped \subseteq Tasks
    /\ pass \in [queued : BOOLEAN, cascade : BOOLEAN, checks : SUBSET Tasks]
    /\ inv \in [Tasks -> Invocations]

LEMMA TypesSplit == TypeOK => IndexTyped /\ RestTyped
BY DEF TypeOK, IndexTyped, RestTyped

LEMMA CommitTyped ==
  ASSUME TypeOK, Commit(task'), IndexTyped', RestTyped'
  PROVE TypeOK'
<1>1. \A t \in Tasks : WellFormed(task'[t])
  BY DEF Commit, Next1, Newborn
<1>2. task' \in [Tasks -> Records]
  BY DEF Commit
<1> QED
  BY <1>1, <1>2 DEF TypeOK, IndexTyped, RestTyped, WellFormed, Waits

LEMMA PublishTyped ==
  ASSUME TypeOK, Commit(task'), NEW run \in SUBSET Tasks, NEW fin \in SUBSET Tasks,
         NEW casc \in BOOLEAN, NEW kick \in BOOLEAN,
         NEW new, Publish(new, run, fin, casc, kick)
  PROVE IndexTyped'
<1>1. new \in [Tasks -> Records]
  BY DEF Publish, Commit
<1>2. \A e \in Tasks : NearestLiveAbove(new, e) \subseteq Tasks
  BY <1>1 DEF NearestLiveAbove, Records
<1>3. Changed(new) \subseteq Tasks /\ Ended(new) \subseteq Tasks
  BY DEF Changed, Ended
<1>4. runnable' \subseteq Tasks
  <2>1. runnable' = TrackRunnable(new, run)
    BY DEF Publish
  <2> QED
    BY <1>2, <1>3, <2>1 DEF TrackRunnable
<1>5. finalize' \subseteq Tasks
  <2>1. finalize' = TrackFinalize(new, fin)
    BY DEF Publish
  <2> QED
    BY <1>2, <1>3, <2>1 DEF TrackFinalize
<1>6. due' \subseteq Tasks /\ checks' \subseteq Tasks
  BY DEF Publish, TypeOK, FailFastTouched
<1>7. {cascade, recon, dirty}' \subseteq BOOLEAN
  <2>1. {cascade, recon, dirty} \subseteq BOOLEAN
    BY DEF TypeOK
  <2>2. cascade' = (cascade \/ casc \/ CascadeTouched(new))
    BY DEF Publish
  <2>3. cascade' \in BOOLEAN
    BY <2>1, <2>2 DEF CascadeTouched
  <2>4. recon' \in BOOLEAN
    BY <2>1, Zenon DEF Publish
  <2>5. dirty' \in BOOLEAN
    BY <2>1, Zenon DEF Publish
  <2> QED
    BY <2>3, <2>4, <2>5
<1> QED
  BY <1>4, <1>5, <1>6, <1>7 DEF IndexTyped

(* The candidates of a pass are tasks.                                     *)
LEMMA CandidatesTyped ==
  ASSUME TypeOK
  PROVE DueSleepers \subseteq Tasks /\ Candidates \subseteq Tasks
BY DEF TypeOK, DueSleepers, Candidates

LEMMA AbortTyped ==
  ASSUME TypeOK, Commit(task'), NEW t \in Tasks, NEW keep \in BOOLEAN, Abort(t, keep)
  PROVE IndexTyped' /\ RestTyped'
<1>1. IndexTyped /\ RestTyped
  BY TypesSplit
<1>2. \E new : Publish(new, runnable, finalize, FALSE, FALSE)
  BY DEF Abort
<1>3. IndexTyped'
  BY <1>1, <1>2, PublishTyped DEF IndexTyped
<1>4. RestTyped'
  BY <1>1 DEF Abort, environment, process, RestTyped
<1> QED
  BY <1>3, <1>4

LEMMA HostTyped ==
  ASSUME TypeOK, Commit(task'), Host
  PROVE IndexTyped' /\ RestTyped'
<1>1. IndexTyped /\ RestTyped
  BY TypesSplit
<1>2. /\ DueSleepers \subseteq Tasks
      /\ runnable \in SUBSET Tasks /\ finalize \in SUBSET Tasks
      /\ runnable \cup DueSleepers \in SUBSET Tasks
  BY <1>1, CandidatesTyped DEF IndexTyped
<1>3. CASE Resume
  BY <1>1, <1>2, <1>3 DEF Resume, durable, environment, IndexTyped, RestTyped
<1>4. ASSUME NEW c \in convs \cup {Root}, NEW s \in HostShapes, HostCreate(c, s)
      PROVE  IndexTyped' /\ RestTyped'
  <2>1. \E new : Publish(new, runnable, finalize, FALSE, FALSE)
    BY <1>4 DEF HostCreate
  <2>2. IndexTyped'
    BY <1>2, <2>1, PublishTyped
  <2>3. RestTyped'
    BY <1>1, <1>4 DEF HostCreate, environment, process, RestTyped
  <2> QED
    BY <2>2, <2>3
<1>5. ASSUME NEW c, NEW b \in BOOLEAN, AbortConversation(c, b)
      PROVE  IndexTyped' /\ RestTyped'
  <2>1. \E new : Publish(new, runnable, finalize, FALSE, FALSE)
    BY <1>5 DEF AbortConversation
  <2>2. IndexTyped'
    BY <1>2, <2>1, PublishTyped
  <2>3. queued' \subseteq queued
    BY <1>5 DEF AbortConversation
  <2>4. RestTyped'
    BY <1>1, <1>5, <2>3 DEF AbortConversation, environment, process, RestTyped
  <2> QED
    BY <2>2, <2>4
<1>6. ASSUME NEW c \in InputConvs, Submit(c) PROVE IndexTyped' /\ RestTyped'
  <2>1. c \in Convs
    BY BoundsAssumption
  <2>2. cascade' \in BOOLEAN
    BY <1>1, <1>6 DEF Submit, IndexTyped, BelowCancelled
  <2>3. recon' \in BOOLEAN
    BY <1>1, <1>6, <2>2 DEF Submit, IndexTyped
  <2> QED
    BY <1>1, <1>6, <2>1, <2>2, <2>3
    DEF Submit, environment, process, IndexTyped, RestTyped
<1>7. ASSUME NEW t \in Tasks, Retry(t) PROVE IndexTyped' /\ RestTyped'
  <2>1. \E new : Publish(new, runnable \cup DueSleepers, finalize, FALSE, TRUE)
    BY <1>7 DEF Retry
  <2>2. IndexTyped'
    BY <1>2, <2>1, PublishTyped
  <2>3. RestTyped'
    BY <1>1, <1>7 DEF Retry, environment, RestTyped
  <2> QED
    BY <2>2, <2>3
<1>8. ASSUME NEW t \in Tasks, Abort(t, FALSE) PROVE IndexTyped' /\ RestTyped'
  BY <1>8, AbortTyped
<1> QED
  BY <1>3, <1>4, <1>5, <1>6, <1>7, <1>8, BoundsAssumption DEF Host

LEMMA SchedulerTyped ==
  ASSUME TypeOK, Commit(task'), Reservation \/ Reconciliation
  PROVE IndexTyped' /\ RestTyped'
<1>1. IndexTyped /\ RestTyped
  BY TypesSplit
<1>2. /\ runnable \in SUBSET Tasks /\ finalize \in SUBSET Tasks
      /\ Candidates \in SUBSET Tasks
  BY <1>1, CandidatesTyped DEF IndexTyped
<1>3. CASE ReserveBegin
  BY <1>1, <1>3 DEF ReserveBegin, durable, environment, indexes, IndexTyped, RestTyped
<1>4. CASE ReserveAbandoned
  <2>1. \E new : Publish(new, runnable, finalize, FALSE, TRUE)
    BY <1>4 DEF ReserveAbandoned
  <2>2. IndexTyped'
    BY <1>2, <2>1, PublishTyped
  <2>3. RestTyped'
    BY <1>1, <1>4 DEF ReserveAbandoned, environment, RestTyped
  <2> QED
    BY <2>2, <2>3
<1>5. CASE Reserve
  <2>1. \E new : Publish(new, Candidates \ (Dropped \cup Reserved), finalize, Held # {}, FALSE)
    BY <1>5 DEF Reserve
  <2>2. Candidates \ (Dropped \cup Reserved) \in SUBSET Tasks /\ (Held # {}) \in BOOLEAN
    BY <1>2
  <2>3. IndexTyped'
    BY <1>2, <2>1, <2>2, PublishTyped
  <2>4. \A t \in Tasks : NewInvocation(t) \in Invocations
    BY <1>1, RecordsType DEF NewInvocation, Invocations, Records, RestTyped
  <2>5. inv' \in [Tasks -> Invocations]
    BY <1>1, <1>5, <2>4 DEF Reserve, RestTyped
  <2>6. RestTyped'
    BY <1>1, <1>5, <2>5 DEF Reserve, environment, RestTyped
  <2> QED
    BY <2>3, <2>6
<1>6. CASE StartPass
  <2>1. pass' \in [queued : BOOLEAN, cascade : BOOLEAN, checks : SUBSET Tasks]
    BY <1>1, <1>6 DEF StartPass, IndexTyped
  <2> QED
    BY <1>1, <1>6, <2>1
    DEF StartPass, durable, environment, process, IndexTyped, RestTyped
<1>7. CASE Reconcile
  <2>1. \E new : Publish(new, runnable, {}, FALSE, FALSE)
    BY <1>7 DEF Reconcile
  <2>2. IndexTyped'
    BY <1>2, <2>1, PublishTyped
  <2>3. pass' = NoPass /\ queued' \subseteq queued
    BY <1>7 DEF Reconcile
  <2>4. RestTyped'
    BY <1>1, <1>7, <2>3 DEF Reconcile, environment, process, RestTyped, NoPass
  <2> QED
    BY <2>2, <2>4
<1> QED
  BY <1>3, <1>4, <1>5, <1>6, <1>7 DEF Reservation, Reconciliation

LEMMA NoInvTyped == NoInv \in Invocations
BY DEF NoInv, Invocations

LEMMA EndWithTyped ==
  ASSUME TypeOK, Commit(task'), NEW t \in Tasks, NEW r, NEW casc \in BOOLEAN,
         EndWith(t, r, casc)
  PROVE IndexTyped' /\ inv' \in [Tasks -> Invocations]
<1>1. IndexTyped /\ RestTyped
  BY TypesSplit
<1>2. \E new : Publish(new, runnable \cup {t}, finalize, casc, TRUE)
  BY DEF EndWith
<1>3. IndexTyped'
  BY <1>1, <1>2, PublishTyped DEF IndexTyped
<1>4. inv' \in [Tasks -> Invocations]
  BY <1>1, NoInvTyped DEF EndWith, RestTyped
<1> QED
  BY <1>3, <1>4

LEMMA ContinueTyped ==
  ASSUME TypeOK, NEW t \in Tasks, Continue(t)
  PROVE IndexTyped' /\ inv' \in [Tasks -> Invocations]
<1>1. IndexTyped /\ RestTyped /\ task[t].checkpoint \in Nat
  BY TypesSplit, RecordsType DEF Records
<1>2. inv[t] \in Invocations
  BY <1>1 DEF RestTyped
<1>3. [inv[t] EXCEPT !.pc = "phase", !.checkpoint = task[t].checkpoint] \in Invocations
  BY <1>1, <1>2 DEF Invocations
<1>4. inv' = [inv EXCEPT ![t] = [inv[t] EXCEPT !.pc = "phase",
                                                !.checkpoint = task[t].checkpoint]]
  BY <1>1, <1>2 DEF Continue, RestTyped, Invocations
<1>5. inv' \in [Tasks -> Invocations]
  BY <1>1, <1>3, <1>4 DEF RestTyped
<1> QED
  BY <1>1, <1>5 DEF Continue, indexes, IndexTyped

LEMMA TasksTyped ==
  ASSUME TypeOK, Commit(task'), NEW t \in Tasks, Step(t) \/ TaskCode(t)
  PROVE IndexTyped' /\ RestTyped'
<1>1. IndexTyped /\ RestTyped
  BY TypesSplit
<1>2. /\ runnable \in SUBSET Tasks /\ finalize \in SUBSET Tasks
      /\ t \in Convs
  BY <1>1, BoundsAssumption DEF IndexTyped, Convs, Tasks
<1>3. CASE FirstStep(t)
  <2>1. IndexTyped' /\ inv' \in [Tasks -> Invocations]
    <3>1. Continue(t) \/ \E casc \in BOOLEAN : EndWith(t, task[t], casc)
      BY <1>3 DEF FirstStep, Marked, Withheld, BelowCancelled
    <3> QED
      BY <3>1, EndWithTyped, ContinueTyped
  <2> QED
    BY <1>1, <1>3, <2>1 DEF FirstStep, environment, process, RestTyped
<1>4. ASSUME NEW threw \in BOOLEAN, EndPhase(t, threw)
      PROVE  IndexTyped' /\ RestTyped'
  <2>1. IndexTyped' /\ inv' \in [Tasks -> Invocations]
    <3>1. Continue(t) \/ \E casc \in BOOLEAN, r \in {task[t], Terminated(task, t, "failed"),
                                    WithState(task[t], "pending")} : EndWith(t, r, casc)
      BY <1>4 DEF EndPhase
    <3> QED
      BY <3>1, EndWithTyped, ContinueTyped
  <2> QED
    BY <1>1, <1>4, <2>1 DEF EndPhase, environment, process, RestTyped
<1>5. CASE EndAbort(t)
  <2>1. \E r : EndWith(t, r, FALSE)
    BY <1>5 DEF EndAbort
  <2>2. IndexTyped' /\ inv' \in [Tasks -> Invocations]
    BY <2>1, EndWithTyped
  <2> QED
    BY <1>1, <1>5, <2>2 DEF EndAbort, environment, process, RestTyped
<1>6. CASE Unwind(t)
  <2>1. inv' \in [Tasks -> Invocations]
    BY <1>1, <1>6, NoInvTyped DEF Unwind, RestTyped
  <2> QED
    BY <1>1, <1>6, <2>1
    DEF Unwind, durable, environment, process, indexes, IndexTyped, RestTyped
<1>7. CASE HandlerCommit(t)
  <2>1. \E new : Publish(new, runnable, finalize, FALSE, FALSE)
    BY <1>7 DEF HandlerCommit
  <2>2. IndexTyped'
    BY <1>2, <2>1, PublishTyped
  <2> QED
    BY <1>1, <1>7, <2>2 DEF HandlerCommit, environment, process, RestTyped
<1>8. ASSUME NEW s \in Shapes, HandlerCreate(t, s) PROVE IndexTyped' /\ RestTyped'
  <2>1. \E new : Publish(new, runnable, finalize, FALSE, FALSE)
    BY <1>8 DEF HandlerCreate
  <2>2. IndexTyped'
    BY <1>2, <2>1, PublishTyped
  <2>3. convs' \subseteq Tasks
    BY <1>1, <1>8 DEF HandlerCreate, RestTyped
  <2> QED
    BY <1>1, <1>8, <2>2, <2>3 DEF HandlerCreate, environment, process, RestTyped
<1>9. CASE TakeInputs(t)
  <2>1. queued' \subseteq queued
    BY <1>9 DEF TakeInputs
  <2> QED
    BY <1>1, <1>9, <2>1
    DEF TakeInputs, environment, process, indexes, IndexTyped, RestTyped
<1>10. CASE OpenConversation(t)
  <2>1. convs' \subseteq Tasks /\ recon' \in BOOLEAN
    BY <1>1, <1>10 DEF OpenConversation, IndexTyped, RestTyped
  <2> QED
    BY <1>1, <1>10, <2>1
    DEF OpenConversation, environment, process, IndexTyped, RestTyped
<1>11. CASE AbortOwned(t)
  BY <1>11, AbortTyped DEF AbortOwned
<1> QED
  BY <1>3, <1>4, <1>5, <1>6, <1>7, <1>8, <1>9, <1>10, <1>11 DEF Step, TaskCode

LEMMA ProcessTyped ==
  ASSUME TypeOK, Commit(task'),
         \/ \E t \in Tasks : Tick(t)
         \/ Timer \/ RegistryChange \/ Crash \/ Open \/ Close \/ CloseDone
  PROVE IndexTyped' /\ RestTyped'
<1>1. IndexTyped /\ RestTyped
  BY TypesSplit
<1>2. DueSleepers \subseteq Tasks
  BY CandidatesTyped
<1>3. ASSUME NEW t \in Tasks, Tick(t) PROVE IndexTyped' /\ RestTyped'
  <2>1. due' \subseteq Tasks /\ timer' \in BOOLEAN
    BY <1>1, <1>3 DEF Tick, IndexTyped, RestTyped
  <2> QED
    BY <1>1, <1>3, <2>1 DEF Tick, environment, indexes, IndexTyped, RestTyped
<1>4. CASE Timer
  BY <1>1, <1>2, <1>4 DEF Timer, durable, environment, IndexTyped, RestTyped
<1>5. CASE RegistryChange
  <2>1. registry' \in Nat /\ installed' \in BOOLEAN
    <3>1. registry' = registry + 1 /\ (installed' = TRUE \/ installed' = FALSE)
      BY <1>5 DEF RegistryChange
    <3>2. installed' \in BOOLEAN
      BY <3>1
    <3>3. registry \in Nat
      BY <1>1 DEF RestTyped
    <3>4. registry' \in Nat
      BY <3>1, <3>3
    <3> QED
      BY <3>2, <3>4
  <2> QED
    BY <1>1, <1>5, <2>1
    DEF RegistryChange, durable, process, indexes, IndexTyped, RestTyped
<1>6. ASSUME Forget
      PROVE  /\ {up, enabled, closing, reserving, timer, dirty, cascade, recon}' \subseteq BOOLEAN
             /\ runnable' = {} /\ finalize' = {} /\ checks' = {} /\ abandoned' = {}
             /\ pass' \in [queued : BOOLEAN, cascade : BOOLEAN, checks : SUBSET Tasks]
             /\ inv' \in [Tasks -> Invocations]
             /\ stopped' = {}
  BY <1>6, NoInvTyped DEF Forget, NoPass
<1>7. CASE Crash
  <2>1. stops' \in Nat /\ crashes' \in Nat
    BY <1>1, <1>7 DEF Crash, RestTyped
  <2>2. UNCHANGED <<task, due, convs, queued, registry, installed>>
    BY <1>7 DEF Crash, durable
  <2> QED
    BY <1>1, <1>6, <1>7, <2>1, <2>2 DEF Crash, IndexTyped, RestTyped
<1>8. CASE CloseDone
  <2>1. stops' \in Nat
    BY <1>1, <1>8 DEF CloseDone, RestTyped
  <2> QED
    BY <1>1, <1>6, <1>8, <2>1 DEF CloseDone, IndexTyped, RestTyped
<1>9. CASE Open
  <2>1. /\ runnable' \subseteq Tasks /\ finalize' \subseteq Tasks
        /\ checks' \subseteq Tasks /\ abandoned' \subseteq Tasks
    BY <1>9 DEF Open, Abandonable
  <2>2. {up, cascade, recon, dirty}' \subseteq BOOLEAN
    BY <1>9 DEF Open
  <2> QED
    BY <1>1, <1>9, <2>1, <2>2 DEF Open, environment, IndexTyped, RestTyped
<1>10. CASE Close
  <2>1. stopped' \subseteq Tasks
    BY <1>10 DEF Close
  <2> QED
    BY <1>1, <1>10, <2>1
    DEF Close, durable, environment, indexes, IndexTyped, RestTyped
<1> QED
  BY <1>3, <1>4, <1>5, <1>7, <1>8, <1>9, <1>10

-----------------------------------------------------------------------------
(* Every step is a commit *)

LEMMA CalmIsCommit ==
  ASSUME TypeOK, Placed, Acyclic(task), CalmCommit(task')
  PROVE Commit(task') /\ Acyclic(task')
BY CalmKeepsAcyclic DEF CalmCommit

LEMMA NextCommits ==
  ASSUME TypeOK, Placed, Children, Acyclic(task), [Next]_vars
  PROVE Commit(task') /\ Acyclic(task')
<1>1. CASE task' = task
  BY <1>1, SameCommit, CalmIsCommit
<1>2. ASSUME NEW c \in convs \cup {Root}, NEW s \in HostShapes, HostCreate(c, s)
      PROVE  Commit(task') /\ Acyclic(task')
  BY <1>2, HostCreateCommits, CalmIsCommit
<1>3. ASSUME NEW c, NEW b \in BOOLEAN, AbortConversation(c, b)
      PROVE  Commit(task') /\ Acyclic(task')
  BY <1>3, AbortConversationCommits, CalmIsCommit
<1>4. ASSUME NEW t \in Tasks, Retry(t) PROVE Commit(task') /\ Acyclic(task')
  BY <1>4, RetryCommits, CalmIsCommit
<1>5. ASSUME NEW t \in Tasks, NEW keep \in BOOLEAN, Abort(t, keep)
      PROVE  Commit(task') /\ Acyclic(task')
  BY <1>5, AbortCommits, CalmIsCommit
<1>6. ASSUME Host PROVE Commit(task') /\ Acyclic(task')
  <2>1. \A c \in InputConvs : Submit(c) => task' = task
    BY DEF Submit
  <2>2. Resume => task' = task
    BY DEF Resume, durable
  <2> QED
    BY <1>1, <1>2, <1>3, <1>4, <1>5, <1>6, <2>1, <2>2, BoundsAssumption DEF Host
<1>7. ASSUME Reservation \/ Reconciliation PROVE Commit(task') /\ Acyclic(task')
  <2>1. ReserveBegin \/ StartPass => task' = task
    BY DEF ReserveBegin, StartPass, durable
  <2>2. ReserveAbandoned => CalmCommit(task')
    BY ReserveAbandonedCommits
  <2>3. Reserve => CalmCommit(task')
    BY ReserveCommits
  <2>4. Reconcile => CalmCommit(task')
    BY ReconcileCommits
  <2> QED
    BY <1>1, <1>7, <2>1, <2>2, <2>3, <2>4, CalmIsCommit DEF Reservation, Reconciliation
<1>8. ASSUME NEW t \in Tasks, Step(t) \/ TaskCode(t)
      PROVE  Commit(task') /\ Acyclic(task')
  <2>1. Unwind(t) \/ TakeInputs(t) \/ OpenConversation(t) => task' = task
    BY DEF Unwind, TakeInputs, OpenConversation, durable
  <2>2. FirstStep(t) => CalmCommit(task')
    BY FirstStepCommits
  <2>3. \A threw \in BOOLEAN : EndPhase(t, threw) => CalmCommit(task')
    BY EndPhaseCommits
  <2>4. EndAbort(t) => CalmCommit(task')
    BY EndAbortCommits
  <2>5. HandlerCommit(t) => Commit(task') /\ Acyclic(task')
    BY HandlerCommitCommits
  <2>6. \A s \in Shapes : HandlerCreate(t, s) => Commit(task') /\ Acyclic(task')
    BY HandlerCreateCommits
  <2>7. AbortOwned(t) => Abort(t, TRUE)
    BY DEF AbortOwned
  <2> QED
    BY <1>1, <1>5, <1>8, <2>1, <2>2, <2>3, <2>4, <2>5, <2>6, <2>7, CalmIsCommit
    DEF Step, TaskCode
<1>9. ASSUME NEW t \in Tasks, Tick(t) PROVE Commit(task') /\ Acyclic(task')
  BY <1>1, <1>9 DEF Tick
<1>10. ASSUME Timer \/ RegistryChange \/ Crash \/ Close
       PROVE  Commit(task') /\ Acyclic(task')
  BY <1>1, <1>10 DEF Timer, RegistryChange, Crash, Close, durable
<1>11. ASSUME Open \/ CloseDone PROVE Commit(task') /\ Acyclic(task')
  BY <1>11, OpenCommits, CloseDoneCommits, CalmIsCommit
<1>12. UNCHANGED vars => task' = task
  BY DEF vars
<1> QED
  BY <1>1, <1>6, <1>7, <1>8, <1>9, <1>10, <1>11, <1>12 DEF Next

LEMMA NextTyped ==
  ASSUME TypeOK, Commit(task'), [Next]_vars
  PROVE TypeOK'
<1>1. CASE Host
  BY <1>1, HostTyped, CommitTyped
<1>2. CASE Reservation \/ Reconciliation
  BY <1>2, SchedulerTyped, CommitTyped
<1>3. CASE \E t \in Tasks : Step(t) \/ TaskCode(t)
  BY <1>3, TasksTyped, CommitTyped
<1>4. CASE \/ \E t \in Tasks : Tick(t)
           \/ Timer \/ RegistryChange \/ Crash \/ Open \/ Close \/ CloseDone
  BY <1>4, ProcessTyped, CommitTyped
<1>5. CASE UNCHANGED vars
  <2>1. IndexTyped' /\ RestTyped'
    BY <1>5, TypesSplit DEF vars, IndexTyped, RestTyped
  <2> QED
    BY <2>1, CommitTyped
<1> QED
  BY <1>1, <1>2, <1>3, <1>4, <1>5 DEF Next

(* Only a reservation starts an invocation.                                *)
LEMMA NextInvocation ==
  ASSUME TypeOK, [Next]_vars, NEW t \in Tasks
  PROVE \/ inv'[t].mode \in {"none", inv[t].mode}
        \/ Reserve /\ t \in Reserved
<1>1. inv \in [Tasks -> Invocations] /\ NoInv.mode = "none"
  BY DEF TypeOK, NoInv
<1>2. CASE UNCHANGED inv
  BY <1>2
<1>3. CASE inv' = [u \in Tasks |-> NoInv]
  BY <1>1, <1>3
<1>4. ASSUME NEW u \in Tasks, inv' = [inv EXCEPT ![u] = NoInv]
      PROVE  inv'[t].mode \in {"none", inv[t].mode}
  BY <1>1, <1>4
<1>5. ASSUME NEW u \in Tasks, Continue(u)
      PROVE  inv'[t].mode = inv[t].mode
  BY <1>1, <1>5 DEF Continue, Invocations
<1>6. CASE Reserve
  BY <1>1, <1>6 DEF Reserve
<1>7. CASE Host
  BY <1>2, <1>7 DEF Host, Resume, HostCreate, AbortConversation, Submit, Retry, Abort
<1>8. CASE ReserveBegin \/ ReserveAbandoned \/ Reconciliation
  BY <1>2, <1>8 DEF ReserveBegin, ReserveAbandoned, Reconciliation, StartPass, Reconcile
<1>9. ASSUME NEW u \in Tasks, Step(u) \/ TaskCode(u)
      PROVE  inv'[t].mode \in {"none", inv[t].mode}
  <2>1. FirstStep(u) \/ EndPhase(u, TRUE) \/ EndPhase(u, FALSE) \/ EndAbort(u) \/ Unwind(u)
          => Continue(u) \/ inv' = [inv EXCEPT ![u] = NoInv]
    BY DEF FirstStep, EndPhase, EndAbort, Unwind, EndWith
  <2>2. TaskCode(u) => EndPhase(u, TRUE) \/ UNCHANGED inv
    BY DEF TaskCode, HandlerCommit, HandlerCreate, TakeInputs, OpenConversation,
           AbortOwned, Abort
  <2> QED
    BY <1>2, <1>4, <1>5, <1>9, <2>1, <2>2 DEF Step
<1>10. CASE \/ \E u \in Tasks : Tick(u)
            \/ Timer \/ RegistryChange \/ Open \/ Close
  BY <1>2, <1>10 DEF Tick, Timer, RegistryChange, Open, Close
<1>11. CASE Crash \/ CloseDone
  BY <1>3, <1>11 DEF Crash, CloseDone, Forget
<1>12. CASE UNCHANGED vars
  BY <1>2, <1>12 DEF vars
<1> QED
  BY <1>6, <1>7, <1>8, <1>9, <1>10, <1>11, <1>12 DEF Next, Reservation

(* A process keeps its number and its abandoned tasks, until it has marked *)
(* them; it ends with everything forgotten.                                *)
LEMMA NextProcess ==
  ASSUME TypeOK, [Next]_vars
  PROVE \/ up' = up /\ stops' = stops /\ abandoned' = abandoned
        \/ ReserveAbandoned
        \/ up' = FALSE /\ inv' = [t \in Tasks |-> NoInv]
        \/ Open
<1>1. CASE UNCHANGED <<up, stops, abandoned>>
  BY <1>1
<1>2. CASE Host
  BY <1>1, <1>2 DEF Host, Resume, HostCreate, AbortConversation, Submit, Retry,
                    Abort, environment, process
<1>3. CASE ReserveBegin \/ Reserve \/ Reconciliation
  BY <1>1, <1>3 DEF ReserveBegin, Reserve, Reconciliation, StartPass, Reconcile,
                    environment, process
<1>4. ASSUME NEW u \in Tasks, Step(u) \/ TaskCode(u)
      PROVE  UNCHANGED <<up, stops, abandoned>>
  BY <1>4 DEF Step, TaskCode, FirstStep, EndPhase, EndAbort, Unwind, HandlerCommit,
              HandlerCreate, TakeInputs, OpenConversation, AbortOwned, Abort,
              environment, process
<1>5. CASE \/ \E u \in Tasks : Tick(u)
           \/ Timer \/ RegistryChange \/ Close
  BY <1>1, <1>5 DEF Tick, Timer, RegistryChange, Close, environment, process
<1>6. CASE Crash \/ CloseDone
  BY <1>6 DEF Crash, CloseDone, Forget
<1>7. CASE UNCHANGED vars
  BY <1>1, <1>7 DEF vars
<1> QED
  BY <1>2, <1>3, <1>4, <1>5, <1>6, <1>7 DEF Next, Reservation

(* Only a task's own run opens a conversation for it.                      *)
LEMMA NextConvs ==
  ASSUME [Next]_vars
  PROVE \/ convs' = convs
        \/ \E t \in Tasks : convs' = convs \cup {t} /\ Exists(task, t)
<1>1. CASE Host
  BY <1>1 DEF Host, Resume, HostCreate, AbortConversation, Submit, Retry, Abort, durable
<1>2. CASE Reservation \/ Reconciliation
  BY <1>2 DEF Reservation, Reconciliation, ReserveBegin, ReserveAbandoned, Reserve,
              StartPass, Reconcile, durable
<1>3. ASSUME NEW u \in Tasks, Step(u) \/ TaskCode(u)
      PROVE  convs' = convs \/ (convs' = convs \cup {u} /\ Exists(task, u))
  <2>1. CASE OpenConversation(u)
    BY <2>1 DEF OpenConversation, Gated, Exists
  <2>2. CASE \E s \in Shapes : HandlerCreate(u, s)
    BY <2>2 DEF HandlerCreate, Gated, Exists
  <2> QED
    BY <1>3, <2>1, <2>2
    DEF Step, TaskCode, FirstStep, EndPhase, EndAbort, Unwind, HandlerCommit,
        TakeInputs, AbortOwned, Abort, durable
<1>4. CASE \/ \E u \in Tasks : Tick(u)
           \/ Timer \/ RegistryChange \/ Crash \/ Open \/ Close \/ CloseDone
  BY <1>4 DEF Tick, Timer, RegistryChange, Crash, Open, Close, CloseDone, durable
<1>5. CASE UNCHANGED vars
  BY <1>5 DEF vars
<1> QED
  BY <1>1, <1>2, <1>3, <1>4, <1>5 DEF Next

-----------------------------------------------------------------------------
(* The inductive invariant *)

(* A task whose abort handler runs is marked, or has ended meanwhile, and  *)
(* no task it owns is live.                                                *)
Aborting ==
    \A t \in Tasks : inv[t].mode = "abort" =>
        /\ Exists(task, t) /\ (Live(task, t) => Marked(task, t))
        /\ \A d \in Tasks : task[d].owner = t => ~Live(task, d)

(* A live task of an earlier process that must not resume is marked, or    *)
(* will be before any reservation, and only the others run.                *)
Abandoning ==
    /\ \A t \in Tasks : inv[t].mode # "none" => Exists(task, t)
    /\ up => \A t \in Tasks :
         Live(task, t) /\ task[t].abandonOnRestart /\ task[t].born # stops
           => Marked(task, t) \/ t \in abandoned
    /\ AbandonedNotResumed

IInv ==
    /\ TypeOK /\ Placed /\ Children /\ Acyclic(task)
    /\ OrphanNeverHolds /\ Aborting /\ Abandoning

LEMMA ExistsKept ==
  ASSUME Commit(task'), NEW t \in Tasks, Exists(task, t)
  PROVE Exists(task', t) /\ Next1(task[t], task'[t])
BY DEF Commit, Next1, Evolves, Newborn, Exists

LEMMA PlacedKept ==
  ASSUME IInv, [Next]_vars, Commit(task')
  PROVE Placed'
<1>1. convs' \subseteq Tasks /\ \A c \in convs' : Exists(task', c)
  <2>1. convs \subseteq Tasks /\ \A c \in convs : Exists(task, c)
    BY DEF IInv, TypeOK, Placed
  <2> QED
    BY <2>1, NextConvs, ExistsKept
<1>2. ASSUME NEW t \in Tasks
      PROVE  /\ task'[t].conv # Root => Exists(task, task'[t].conv)
             /\ \A p \in task'[t].above : Exists(task, p)
             /\ Exists(task', t) \/ task'[t].mark = "none"
  <2>1. CASE Newborn(task', t)
    BY <2>1 DEF Newborn
  <2>2. CASE Next1(task[t], task'[t])
    BY <2>2 DEF Next1, Evolves, Kept, IInv, Placed, Exists
  <2> QED
    BY <2>1, <2>2 DEF Commit
<1>3. ASSUME NEW t \in Tasks
      PROVE  /\ task'[t].conv # Root => Exists(task', task'[t].conv)
             /\ \A p \in task'[t].above : Exists(task', p)
  <2>1. task'[t].conv \in Convs /\ task'[t].above \subseteq Tasks
    BY DEF Commit, Records
  <2>2. task'[t].conv # Root => task'[t].conv \in Tasks
    BY <2>1, BoundsAssumption DEF Convs, Root, Tasks
  <2> QED
    BY <1>2, <2>1, <2>2, ExistsKept
<1> QED
  BY <1>1, <1>2, <1>3 DEF Placed

LEMMA ChildrenKept ==
  ASSUME IInv, Commit(task')
  PROVE Children'
<1>1. SUFFICES ASSUME NEW t \in Tasks, task'[t].owner # 0
               PROVE  /\ task'[t].owner \in task'[t].above /\ ~task'[t].background
                      /\ Live(task', t) => Live(task', task'[t].owner)
  BY DEF Children
<1>2. CASE Newborn(task', t)
  BY <1>1, <1>2 DEF Newborn
<1>3. CASE Next1(task[t], task'[t])
  <2>1. /\ task'[t].owner = task[t].owner /\ task'[t].above = task[t].above
        /\ task'[t].background = task[t].background
        /\ Live(task', t) => Live(task, t)
    BY <1>3 DEF Next1, Evolves, Kept, Live
  <2>2. /\ task[t].owner \in task[t].above /\ ~task[t].background
        /\ Live(task, t) => Live(task, task[t].owner)
    BY <1>1, <2>1 DEF IInv, Children
  <2>3. task[t].owner \in Tasks
    BY <2>2, RecordsType DEF IInv, Records
  <2>4. ASSUME Live(task', t), ~Live(task', task[t].owner) PROVE FALSE
    <3>1. OwnedLive(task', task[t].owner) = {}
      BY <2>1, <2>2, <2>3, <2>4 DEF Commit
    <3> QED
      BY <2>1, <2>2, <2>4, <3>1 DEF OwnedLive
  <2> QED
    BY <2>1, <2>2, <2>4
<1> QED
  BY <1>2, <1>3 DEF Commit

LEMMA OrphanKept ==
  ASSUME IInv, Commit(task')
  PROVE OrphanNeverHolds'
<1>1. SUFFICES ASSUME NEW t \in Tasks, Completing(task', t), task'[t].outcome = "orphaned"
               PROVE  FALSE
  BY DEF OrphanNeverHolds
<1>2. Next1(task[t], task'[t])
  BY <1>1 DEF Commit, Newborn, Completing
<1>3. WellFormed(task[t])
  BY RecordsType DEF IInv
<1> QED
  BY <1>1, <1>2, <1>3 DEF IInv, OrphanNeverHolds, Completing, Next1, Evolves, WellFormed

LEMMA AbortingKept ==
  ASSUME IInv, [Next]_vars, Commit(task')
  PROVE Aborting'
<1> SUFFICES ASSUME NEW t \in Tasks, inv'[t].mode = "abort"
             PROVE  /\ Exists(task', t) /\ (Live(task', t) => Marked(task', t))
                    /\ \A d \in Tasks : task'[d].owner = t => ~Live(task', d)
  BY DEF Aborting
<1>1. /\ Exists(task, t) /\ (Live(task, t) => Marked(task, t))
      /\ \A d \in Tasks : task[d].owner = t => ~Live(task, d)
  <2>1. CASE inv[t].mode = "abort"
    BY <2>1 DEF IInv, Aborting
  <2>2. CASE Reserve /\ t \in Reserved
    <3>1. t \in Candidates \ Dropped /\ inv' = [u \in Tasks |-> IF u \in Reserved
                                                THEN NewInvocation(u) ELSE inv[u]]
      BY <2>2 DEF Reserve, Reserved
    <3>2. Marked(task, t)
      BY <2>2, <3>1 DEF NewInvocation
    <3>3. Exists(task, t) /\ OwnedLive(task, t) = {}
      BY <3>1, <3>2, CandidateState DEF IInv, Exists
    <3>4. t # 0
      BY DEF Tasks
    <3>5. \A d \in Tasks : task[d].owner = t => ~Live(task, d)
      BY <3>3, <3>4 DEF IInv, Children, OwnedLive
    <3> QED
      BY <3>2, <3>3, <3>5
  <2> QED
    BY <2>1, <2>2, NextInvocation DEF IInv
<1>2. Exists(task', t) /\ Next1(task[t], task'[t])
  BY <1>1, ExistsKept
<1>3. Live(task', t) => Live(task, t) /\ Marked(task', t)
  BY <1>1, <1>2 DEF Next1, Evolves, Live, Marked
<1>4. ASSUME NEW d \in Tasks, task'[d].owner = t PROVE ~Live(task', d)
  <2>1. t # 0
    BY DEF Tasks
  <2>2. ~Newborn(task', d)
    BY <1>1, <1>3, <1>4, <2>1 DEF Newborn
  <2>3. Next1(task[d], task'[d])
    BY <2>2 DEF Commit
  <2> QED
    BY <1>1, <1>4, <2>3 DEF Next1, Evolves, Kept, Live
<1> QED
  BY <1>2, <1>3, <1>4

LEMMA AbandoningKept ==
  ASSUME IInv, [Next]_vars, Commit(task')
  PROVE Abandoning'
<1>1. ASSUME NEW t \in Tasks, inv'[t].mode # "none" PROVE Exists(task, t)
  <2>1. CASE inv[t].mode # "none"
    BY <2>1 DEF IInv, Abandoning
  <2>2. CASE Reserve /\ t \in Reserved
    BY <2>2, CandidateState DEF IInv, Reserved, Exists
  <2> QED
    BY <1>1, <2>1, <2>2, NextInvocation DEF IInv
<1>2. ASSUME up', NEW t \in Tasks, Live(task', t), task'[t].abandonOnRestart,
             task'[t].born # stops', ~Marked(task', t)
      PROVE  t \in abandoned'
  <2>1. CASE Open
    BY <1>2, <2>1 DEF Open, Abandonable
  <2>2. CASE ReserveAbandoned
    <3>1. /\ task' = [u \in Tasks |->
                        IF u \in abandoned /\ Live(task, u) /\ ~Marked(task, u)
                        THEN WithAbortMark(task[u], "restart") ELSE task[u]]
          /\ up /\ stops' = stops
      BY <2>2 DEF ReserveAbandoned, Publish, environment
    <3>2. CASE t \in abandoned /\ Live(task, t) /\ ~Marked(task, t)
      <4>1. task'[t] = WithAbortMark(task[t], "restart")
        BY <3>1, <3>2
      <4>2. task'[t].mark = "restart"
        BY <4>1, RecordsType DEF WithAbortMark, Records, IInv
      <4> QED
        BY <1>2, <4>2 DEF Marked
    <3>3. CASE ~(t \in abandoned /\ Live(task, t) /\ ~Marked(task, t))
      <4>1. task'[t] = task[t]
        BY <3>1, <3>3
      <4>2. Marked(task, t) = Marked(task', t) /\ Live(task, t) = Live(task', t)
        BY <4>1 DEF Marked, Live
      <4> QED
        BY <1>2, <3>1, <3>3, <4>1, <4>2 DEF IInv, Abandoning
    <3> QED
      BY <3>2, <3>3
  <2>3. CASE up' = up /\ stops' = stops /\ abandoned' = abandoned
    <3>1. CASE Newborn(task', t)
      BY <1>2, <2>3, <3>1 DEF Newborn
    <3>2. CASE Next1(task[t], task'[t])
      <4>1. Live(task, t) /\ ~Marked(task, t)
        BY <1>2, <3>2 DEF Next1, Evolves, Live, Marked
      <4>2. task'[t].abandonOnRestart = task[t].abandonOnRestart /\ task'[t].born = task[t].born
        BY <3>2 DEF Next1, Evolves, Kept
      <4> QED
        BY <1>2, <2>3, <4>1, <4>2 DEF IInv, Abandoning
    <3> QED
      BY <3>1, <3>2 DEF Commit
  <2> QED
    BY <1>2, <2>1, <2>2, <2>3, NextProcess DEF IInv
<1>3. ASSUME NEW t \in Tasks, task'[t].abandonOnRestart, inv'[t].mode = "run"
      PROVE  task'[t].born = stops'
  <2>1. Exists(task, t)
    BY <1>1, <1>3
  <2>2. task'[t].abandonOnRestart = task[t].abandonOnRestart /\ task'[t].born = task[t].born
    BY <2>1, ExistsKept DEF Next1, Evolves, Kept
  <2>3. CASE Reserve /\ t \in Reserved
    <3>1. /\ up /\ abandoned = {} /\ stops' = stops
          /\ inv' = [u \in Tasks |-> IF u \in Reserved THEN NewInvocation(u) ELSE inv[u]]
      BY <2>3 DEF Reserve, environment
    <3>2. ~Marked(task, t)
      BY <1>3, <2>3, <3>1 DEF NewInvocation
    <3>3. Live(task, t)
      BY <2>3, CandidateState DEF IInv, Reserved, Live
    <3> QED
      BY <1>3, <2>2, <3>1, <3>2, <3>3 DEF IInv, Abandoning
  <2>4. CASE inv[t].mode = "run" /\ stops' = stops
    BY <1>3, <2>2, <2>4 DEF IInv, Abandoning, AbandonedNotResumed
  <2>5. stops' = stops \/ inv' = [u \in Tasks |-> NoInv]
    <3>1. ReserveAbandoned \/ Open => stops' = stops
      BY DEF ReserveAbandoned, Open, environment
    <3> QED
      BY <3>1, NextProcess DEF IInv
  <2>6. inv'[t] # NoInv
    BY <1>3 DEF NoInv
  <2> QED
    BY <1>3, <2>3, <2>4, <2>5, <2>6, NextInvocation DEF IInv
<1>4. \A t \in Tasks : inv'[t].mode # "none" => Exists(task', t)
  BY <1>1, ExistsKept
<1> QED
  BY <1>2, <1>3, <1>4 DEF Abandoning, AbandonedNotResumed

LEMMA InitInv == Init => IInv
<1> SUFFICES ASSUME Init PROVE IInv
  OBVIOUS
<1>1. NoTask \in Records
  BY BoundsAssumption DEF NoTask, Records, Root, Convs
<1>2. \A t \in Tasks : task[t] = NoTask /\ inv[t] = NoInv
  BY DEF Init
<1>3. TypeOK
  <2>1. task \in [Tasks -> Records] /\ inv \in [Tasks -> Invocations]
    BY <1>1, NoInvTyped DEF Init
  <2>2. pass \in [queued : BOOLEAN, cascade : BOOLEAN, checks : SUBSET Tasks]
    BY DEF Init, NoPass
  <2>3. \A t \in Tasks : task[t].status = "none" /\ task[t].on = {} /\ task[t].outcome = "none"
    BY <1>2 DEF NoTask
  <2> QED
    BY <2>1, <2>2, <2>3 DEF Init, TypeOK, Waits
<1>4. \A t \in Tasks : /\ ~Live(task, t) /\ ~Completing(task, t)
                       /\ task[t].conv = Root /\ task[t].above = {}
                       /\ task[t].owner = 0 /\ task[t].mark = "none"
                       /\ inv[t].mode = "none"
  BY <1>2 DEF NoTask, NoInv, Live, Completing
<1>5. convs = {}
  BY DEF Init
<1> QED
  BY <1>3, <1>4, <1>5
  DEF IInv, Placed, Children, Acyclic, OrphanNeverHolds, Aborting, Abandoning,
      AbandonedNotResumed

LEMMA NextInv == IInv /\ [Next]_vars => IInv' /\ Commit(task')
<1> SUFFICES ASSUME IInv, [Next]_vars PROVE IInv' /\ Commit(task')
  OBVIOUS
<1>1. Commit(task') /\ Acyclic(task')
  BY NextCommits DEF IInv
<1>2. TypeOK'
  BY <1>1, NextTyped DEF IInv
<1>3. Acyclic(task)'
  BY <1>1 DEF Acyclic, Live, WaitEdges, OwnedLive, Waits, Marked
<1> QED
  BY <1>1, <1>2, <1>3, PlacedKept, ChildrenKept, OrphanKept, AbortingKept,
     AbandoningKept DEF IInv

LEMMA Invariance == Spec => []IInv
<1>1. Init => IInv
  BY InitInv
<1>2. IInv /\ [Next]_vars => IInv'
  BY NextInv
<1> QED
  BY <1>1, <1>2, PTL DEF Spec

-----------------------------------------------------------------------------
(* Theorems *)

(* The scheduler's state keeps its types: a record waits exactly while it  *)
(* names tasks (scheduler.ts: ctx.wait), and has an outcome exactly in its *)
(* last two statuses (settle, finalize).                                   *)
THEOREM Typing == Spec => []TypeOK
<1>1. IInv => TypeOK
  BY DEF IInv
<1> QED
  BY <1>1, Invariance, PTL

(* A task ends only once nothing it owns is live, also what the commit that*)
(* ends it creates or starts: settle holds the outcome as "completing" and *)
(* the reconcile pass writes the terminal record when the work drained.    *)
THEOREM Drained == Spec => FinishesDrained
<1>1. IInv /\ [Next]_vars =>
        [\A t \in Tasks :
           Live(task, t) /\ ~Live(task', t) => OwnedLive(task', t) = {}]_vars
  BY NextInv DEF Commit
<1> QED
  BY <1>1, Invariance, PTL DEF Spec, FinishesDrained

(* Outcomes are final and marks are never taken back, whichever of the     *)
(* writers, a handler, the drain loop, the reconcile pass, an abort or a   *)
(* recovery, comes last.                                                   *)
THEOREM OutcomesFinal == Spec => OutcomeIsFinal
<1>1. ASSUME IInv, [Next]_vars, NEW t \in Tasks
      PROVE  /\ task[t].outcome # "none" => task'[t].outcome = task[t].outcome
             /\ Completing(task, t) => task'[t].status \in {"completing", "terminal"}
             /\ task[t].status = "terminal" => task'[t] = task[t]
             /\ Live(task', t) =>
                  /\ task[t].mark = "request" => task'[t].mark = "request"
                  /\ Marked(task, t) => Marked(task', t)
  <2>1. WellFormed(task[t]) /\ (Exists(task, t) \/ task[t].mark = "none")
    BY <1>1, RecordsType DEF IInv, Placed
  <2>2. Next1(task[t], task'[t]) \/ Newborn(task', t)
    BY <1>1, NextInv DEF Commit
  <2>3. CASE Newborn(task', t)
    BY <2>1, <2>3 DEF Newborn, WellFormed, Exists, Completing, Marked
  <2>4. CASE Next1(task[t], task'[t])
    BY <2>1, <2>4 DEF Next1, Evolves, Completing, Live, Marked
  <2> QED
    BY <2>2, <2>3, <2>4
<1>2. IInv /\ [Next]_vars =>
        [\A t \in Tasks :
           /\ task[t].outcome # "none" => task'[t].outcome = task[t].outcome
           /\ Completing(task, t) => task'[t].status \in {"completing", "terminal"}
           /\ task[t].status = "terminal" => task'[t] = task[t]
           /\ Live(task', t) =>
                /\ task[t].mark = "request" => task'[t].mark = "request"
                /\ Marked(task, t) => Marked(task', t)]_vars
  BY <1>1
<1> QED
  BY <1>2, Invariance, PTL DEF Spec, OutcomeIsFinal

(* A child lives inside its owner: createTask refuses a child of an owner  *)
(* that is not live or is marked, and no owner ends before its children.   *)
THEOREM ChildrenInside == Spec => []ChildInsideOwner
<1>1. IInv => ChildInsideOwner
  BY DEF IInv, Children, ChildInsideOwner
<1> QED
  BY <1>1, Invariance, PTL

(* No set of tasks waits for itself: validateWait refuses a wait that would*)
(* close a cycle, and no abort, creation or restart closes one afterwards. *)
THEOREM NoWaitCycle == Spec => []WaitsAcyclic
<1>1. IInv => WaitsAcyclic
  BY DEF IInv, Acyclic, WaitsAcyclic
<1> QED
  BY <1>1, Invariance, PTL

(* An orphaned outcome is never held: orphaning waits until the owned work *)
(* drained (scheduler.ts: abortTask, reserve).                             *)
THEOREM OrphansEnd == Spec => []OrphanNeverHolds
<1>1. IInv => OrphanNeverHolds
  BY DEF IInv
<1> QED
  BY <1>1, Invariance, PTL

(* An abort handler runs only after the work its task owns settled, and    *)
(* none starts under it: a marked task is reserved when nothing it owns is *)
(* live, and creation refuses a marked owner.                              *)
THEOREM AbortsBottomUp == Spec => []AbortBottomUp
<1>1. IInv => AbortBottomUp
  BY DEF IInv, Aborting, AbortBottomUp
<1> QED
  BY <1>1, Invariance, PTL

(* A task to be abandoned on restart runs only in the process that created *)
(* it: the first reservation of a later process marks it, and reserves     *)
(* nothing itself.                                                         *)
THEOREM AbandonedStay == Spec => []AbandonedNotResumed
<1>1. IInv => AbandonedNotResumed
  BY DEF IInv, Abandoning
<1> QED
  BY <1>1, Invariance, PTL

=============================================================================
