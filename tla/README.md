# Foresight: TLA+ models, checks and proofs

Foresight predicts the probability of events. It drafts questions from the
news, forecasts them with an LLM and web search, waits for their close, judges
them from market data, from Polymarket, by an LLM or by a human, and scores the
forecasts. It runs in a terminal agent, the shell, whose durable runtime executes
tasks that survive crashes. This directory holds TLA+ models of the parts of both
that keep state, the TLC configurations that check them on small instances, and
proofs that TLAPS checks for every value of the constants.

Paths below are relative to the repository: `src/predictor` is the engine,
`scripts` holds the programs that the task scheduler starts, and `shell/pi` is a
fork of a terminal agent (`shell/BRANDING.md`), which starts the scripts and shows
what they print, and holds most of the repository's code. Of its packages,
`packages/durable` is the one built on concurrency and recovery; its task
scheduler and its JSONL storage are modelled.

`PROJECT.json` maps every definition to its lines of code, and lists the runs,
the mutants (one for each checked property: a plausible bug under which TLC must
find the property violated), the hazards and the theorems.

## 1. The system

### 1.1 Programs and shared state

A scheduler on one Windows machine starts the programs; a human or the agent can
start them by hand at any time.

| Time  | Program | Lock | What it does |
|-------|---------|------|--------------|
| 02:30 | `backup_db.py` | - | copies the database |
| 08:30 | `autopick.py` | - | drafts at most four questions a day into `data/autopick` |
| 08:45 | `autopick_ingest.py` | waits | adds the files of the day to the database |
| 09:00 | `daily.py` | takes or exits | forecasts the open questions, writes the template for humans |
| 09:05 | `evolve.py predict` | polls | the same, for what daily.py has left |
| 09:35 | `health_check.py` | waits | judges the state of the system, writes alerts |
| 16:30 | `evolve.py resolve` | polls | degrades and judges due questions |
| 20:00 | `pm_fetch.py` | - | takes in Polymarket questions |
| 21:00 | `pm_resolve.py` | - | judges Polymarket questions |
| -     | `resolve.py`, the CLI, the web server | - | a human's answers, one question at a time, the dashboard |

They share, without a coordinator:

* `data/evolve.lock`, a file `pid|timestamp` (`ops/lock.py`);
* `data/foresight.db`, a DuckDB file that one process at a time can have open for
  writing and in which every statement commits on its own (`data/storage.py`);
* `data/autopick`: a JSON file per question, `registry.jsonl`, the daily brief,
  with no lock at all;
* `data/resolutions.template.csv`, `data/calibrator.json`, `data/alerts/*.md`.

### 1.2 Components

State, operations, hard behaviour and what makes each component correct. The
status of each is in `PROJECT.json`.

| Component | State | Operations | Hard behaviour | Correct when |
|---|---|---|---|---|
| Evolve lock (`ops/lock.py`) | the lock file; the DuckDB file | `lock_state`, `acquire_lock`, `wait_acquire` | reading the file, asking for its pid and writing it are separate steps; crashes; recycled pids; six-hour staleness; Windows refuses to remove open files | one holder; a holder's file stands; nobody waits for ever |
| Rounds (`daily.py`, `evolve.py`, `auto_resolve.py`, `pm_resolve.py`, `resolve.py`, CLI) | each program's `now` and its list of questions | forecast, degrade, judge, write the template | lists and `now` go stale during an hour's work; five programs judge under different rules; kills between statements | each question is answered once, by who may, not too early; none is forgotten |
| Storage (`data/storage.py`) | questions, predictions, model_stats, evolution_log | `add_question`, `add_prediction`, `list_*`, `resolve_question` | `resolve_question` is several commits; late answers are not scored | one score per question, of the last production forecast, against the final answer |
| Resolvers (`market_resolver.py`, `llm_resolver.py`) | none | `resolve` | data of one day only; two sources that disagree | judged by the quote of the right day |
| Autopick (`autopick.py`) | files, registry, brief | load, check for duplicates, draft, save | runs overlap and are killed; slugs collide; days change during a run | quota per day; no event filed twice, no link registered by two runs; registered means filed |
| Ingestion (`autopick_ingest.py`) | rows of questions | list, wait for the lock, add | reads files while they are written; misses its day | each title and event_key once in the database |
| Health check and alerts (`health_check.py`, `ops/health.py`) | alert files | check, write or rewrite, clean up; acknowledge (web server) | the acknowledgement races with a rewrite | no alert is lost, or acknowledged unseen |
| Calibration (`calibration/*.py`) | `calibrator.json` | fit, apply, refresh, load | ties; the file is overwritten in place | a monotone map, the isotonic regression of the samples |
| Forecasting (`websearch_predictor.py`, `inference/*`) | none beyond a call | search, sample, aggregate | partial failure of samples | enough valid samples or none |
| LLM client (`llm/client.py`) | usage counters | calls with retries and fallback | retries after partial answers | bounded, counted once |
| Families (`selection/*.py`) | questions | expand, deduplicate | overlapping rounds | no duplicate members |
| Durable task scheduler (`shell/pi/packages/durable/src/harness/scheduler.ts`) | task records and conversations on a Session; in memory the ownership tree, candidates, checks, flags, invocations | create, commit, wait, sleep, abort, retry, resume, open, close | commits on one line while task code runs off it; abort marks and outcomes meet in a tree; indexes kept up incrementally; crash, close and reopen | no work is lost or stranded; owned work ends inside its owner; aborts run bottom-up; outcomes are final; no wait cycle |
| Session, transactions, submissions and inbox (`durable/src/session`, `durable/src/harness`) | entries, documents, tasks, submissions | commit, read, fork, submit, place, withdraw | one commit at a time; a seal when a close begins | a commit is all or nothing |
| JSONL storage (`durable/src/storage/jsonl/storage.ts`) | `main.jsonl`, a sidecar file per document and live task; MemoryStorage | open with recovery, commit, reclaim, close | one commit is several appends and flushes; any of them fails halfway, the process dies, the host loses power; sequence numbers are given again; records are reclaimed while markers still list them | a commit is all or nothing; the files can always be read and replay to what was committed; nothing dead stays |
| Other storage back ends, Chord, agent loop, model providers, coding agent, terminal UI | - | - | transactions; reload; steering queues | see `PROJECT.json` |
| Polymarket source, crawlers, quotes, baselines, backtests, backups, migrations, extension, packaging | - | - | external I/O, offline tools | see `PROJECT.json` |

## 2. Modules

| Module | What it is |
|---|---|
| `EvolveLock` | the lock protocol, step by step, and the DuckDB file under it |
| `EvolveLockProps`, `EvolveLockProofs` | its properties and proofs |
| `QuestionRounds` | the life of questions under all programs that forecast or judge |
| `QuestionRoundsProps`, `QuestionRoundsProofs` | its properties, the refinement mapping and proofs: scores and answers, then times, deadlines and statistics |
| `Scoreboard` | the abstract specification of what the database promises: forecast, settle, mark, count |
| `Autopick` | `autopick.py` and `autopick_ingest.py` over `data/autopick` |
| `AutopickProps`, `AutopickProofs` | their properties and proofs |
| `Isotonic` | the isotonic fit and its application |
| `IsotonicProps`, `IsotonicProofs` | the min-max formula that it must compute, what calibration must keep, and proofs |
| `TaskScheduler` | the durable task scheduler of the shell: every commit, pass and invocation step |
| `TaskSchedulerProps`, `TaskSchedulerProofs` | what it promises, the fairness of its event loop, and proofs |
| `TaskIndexProofs` | proofs that the indexes of the scheduler lose no work |
| `JsonlStorage` | commit, reclamation and recovery of the JSONL storage, file operation by file operation, with faults |
| `AtomicStore` | the abstract specification of a Session's storage: a log of commits and its replay |
| `JsonlStorageProps` | its properties and the refinement mapping |
| `JsonlStorageProofs` | proofs about the log, and about the records behind it and recovery |
| `JsonlReadsProofs` | proofs about memory: that the storage refines `AtomicStore`, its types, and what it may keep |
| `MCEvolveLock`, `MCQuestionRounds`, `MCAutopick`, `MCTaskScheduler` | values of the constants for TLC |

The definitions named `Variant_*` are the mutants' operators: no specification uses
them.

### 2.1 EvolveLock

A process is one run of a program and its name stands for its pid. `pc` says where
it is: `check` (at the start of `lock_state`), `ask` (it has read the pid that `seen`
holds, `lock.py:57`, and has yet to ask whether that process lives, 64), `write` (passed the
check, `lock.py:84` not yet reached), `fill` (`write_text` has truncated the file and not yet
written it), `open`, `body`, `close`, `unlink`, `exit`. A process in `waiting` is in the loop of
`wait_acquire`, and looks once more after it. The file is `present`, `owner` (Nobody: it
does not parse) and `aged` (its timestamp is `stale_seconds` old). `FreeVerdict` and
`ActiveVerdict` are what `lock_state` can answer, at the file or at the pid that was read; between the
two anything may happen to the file. `conn` is who has DuckDB open. What the programs do
differently is kept: evolve closes the database only when the process exits, a
body that raises keeps its Storage alive through the traceback, only the ingestion
closes in a `finally`. On Windows (`Windows = TRUE`) a file in use cannot be removed.
The environment crashes processes, ages the file and gives pids to other programs.

`raced` is a history variable and the premise of two invariants. It becomes TRUE in three events,
in each of which the code lets two processes hold the lock:

* `Contended`: a process passes the check while another is between its check and the end of
  its `write_text` (`lock.py:119` names this one);
* `Outdated`: a process takes the lock on a verdict about a pid that it read before another process
  replaced the file and came to hold the lock. The holder that it read ends between `lock.py:57` and 64,
  another takes the lock and writes its pid, and the first finds the *old* pid dead;
* `Overrun`: the file of a process that still works gets stale.

The invariants say that crashes, recycled pids, refused unlinks and failing rounds add no fourth, and the
proofs that this is so for any number of processes.

### 2.2 QuestionRounds and Scoreboard

`prog`, `at` and `todo` are the running program, the `now` it took at its start and
the questions it still has to handle, in any order; one program runs at a time because
DuckDB admits one, which is what the first module is about. `step` walks through
`resolve_question`: `outcome` -> `late` -> `score` -> `count`, one commit each, with a
crash or an exception possible at each. A forecast is a row with the time of the
insert, its `arm` and `brier`, the answer it was scored against. Kinds of questions: `asia` and
`us` (class A, judged by the quote of a single day, which begins at the close or a day
later), `invalid` (class A with a spec that `validate_resolution_spec` rejects), `event` (class
B), `poly`, `bare` (no specification, or one that does not parse: every reader treats them alike). An answer by a resolver,
the market or a human may or may not come, and be yes or no, whenever the code's guards
allow it (`MayAnswer`); `resolve.py` may be given any old CSV.

**Arms.** `production` stands for baseline and websearch, the arms that `resolve_question` scores
(`storage.py:295`), `experiment` for any other. With `Experiments`, a round stores a row of a candidate
after its own, as `storage.py:286-290` expects of it; the tests write such rows
(`tests/data/test_storage.py`, `tests/test_paired_arms.py`), no program does at this commit. What is
scored is the last production row; `calibration_pairs` (641-651) learns from the last row of *any*
arm, so the two may be different forecasts. Its docstring gives as the reason that the `brier_score` of a
websearch row is always NULL, which has not been so since websearch is scored.

**Statistics.** `Count` is one step: `resolve_question` has one upsert for every model that a scored row
names, every row that the programs store names one (`pipeline.py`, `websearch_predictor.py`), and
ScoredOnce leaves one row. A row that names several could be counted for some of them only.

`Scoreboard` states the promise in four actions, and `ImplementsScoreboard` maps
the rounds to it: `WriteOutcome` is `Settle`, `Score` is `Mark`, `Count` is `Count`,
everything else stutters. That crashes leave out a `Mark` or a `Count` is within the
promise; that one comes twice, or after another answer, is not.

### 2.3 Autopick

A run of `autopick.py` is Launch, Load (the registry is read once, after the news have
been scored), Draft or Reject for each candidate up to the quota that the loaded
registry leaves, then for each pick NewFile or SkipFile (`exists()`), OpenFile and
FillFile (`write_text`), Register (a line of the registry), and Finish (the brief). Die
kills it anywhere. Strings are abstract: `Slug` maps event_keys to slugs, not injectively,
`Matches` says which files the glob of a slug finds, `Near` and `Alike` are the pairs of
titles above the thresholds 0.7 and 0.55. `News` are the items that `fetch_news` returns, one for each
normalised headline (`autopick.py:237-245`), and `Url` is the link of each: several may have one. Nothing keeps a run
from registering two of these, since its picks are compared by event_key and title only (556-562), although the
comment at 551 says that their links differ too; OneQuestionPerStory says how far the links do
keep a story from being repeated. The ingestion lists files before it waits for
the lock and reads them after; each may be torn, or hold another question, by then.

### 2.4 Isotonic

A step pushes a sample or pools the last two blocks; `Finish` builds the steps and `Apply`
reads a probability off them. Values are exact fractions: rounding is left out. `steps` is a function of the
level. In the code it is a list in the order in which the blocks first touch a level, which `apply` takes to be
sorted; it is, since the blocks ascend (theorem `BlocksAscend`).

### 2.5 TaskScheduler

**Steps.** A Session runs one commit at a time and publishes it before the next, so an
action is a commit together with the commit listener (`#observe`, `#track`), which
`Publish` models: it adopts the new records and brings the indexes in line. The one commit
taken apart is the reservation: its callback checks `#closing` first (`ReserveBegin`) and
awaits before it writes (`ReserveAbandoned`, `Reserve`), so that a close may fall in between
(`reserving` keeps every other commit off the line). Reconciliation is two steps as in
the code: `StartPass` takes the flags off, `Reconcile` runs later on the line. An invocation
is `first` (reserved, its step before the first phase outstanding) or in a `phase`; its
commits are `HandlerCommit`, `HandlerCreate`, `OpenConversation` and `TakeInputs`, its last step
`EndPhase` or `EndAbort`, and `Unwind` when a close rejects that step. Task code is free: it
commits any checkpoint, wait, sleep or outcome that the guards allow, creates any task,
returns or throws at any time.

**Records.** `task` has the fields of TaskRecord on which the scheduler decides. `mark` is
`abortRequested` with its reason (`restart` or a request). "failed" stands for failed, aborted
and faulted, which the scheduler treats alike. A checkpoint is a number. Sleeps have no
times: `due` is the set of sleepers whose time has come on the Harness clock, `Tick` puts one
there, and `timer` says that the timer armed for it has yet to fire. Inputs are the set
`queued` of conversations that have some.

**The tree.** A task hangs from its owner, from its conversation, and that one from the task
that opened it. The code walks this tree through indexes that it loads on demand (`#edges`,
`#below`, `#settled`, `#unloaded`). Owners never change, so a record here carries `above`, the
owners a walk up from it reaches; `OwnedLive`, `NearestLiveAbove`, `CancellingOwner` and
`Scopes` are the walks. The indexes that decide what happens next are kept as they are:
`runnable`, `finalize`, `checks`, `cascade`, `recon`, `dirty`, `abandoned`, `inv`.

**Left out.** Migrations and versions (a definition fits, or it is gone: `Fits`), memos,
contexts, telemetry, the waiters of `waitForTask` and `waitForIdle`, Storage errors, reconcile
passes that overlap, a restart limit that changes, several conversations of one task, waits on
nothing and sleeps until the past (both are a checkpoint that goes on at once).

`crashes`, `stops` and `born` are history: how often the process ended, and in which process
a task was created.

### 2.6 JsonlStorage and AtomicStore

**Files.** `disk` is what a read returns: complete lines, and perhaps a part of one (`torn`). A
write is its value, tagged with the commit that made it (`by`), so that two commits which were
given one sequence number can be told apart. An append that fails has left nothing, some of its
lines, a part of the next, or all (`Appending`). `past` exists with `fsync` only and holds what a
power loss may leave of a file: its content when it was last flushed and every one since, those
in the middle of an append included. Each file is decided by itself (`Survives`), which is what
allows a marker to survive its records, or a replacement its marker, if the code flushed too
little. A flush is taken to make the file with its directory entry durable, and a rename to be
atomic.

**Steps.** `pc` follows `commit` (append to each sidecar, flush each, append the marker, apply
to memory), `reclaimSidecars` (flush `main.jsonl`, then remove a sidecar, or write, flush and
rename its replacement) and `recover` (cut the torn line of `main.jsonl`, remove `.reclaim` files,
cut torn sidecars, confirm, cut unconfirmed tails, reclaim). `Confirm` is all that is computed
from the files read: the checks of the code, the replay into MemoryStorage and the plan of
reclamations. Any append or flush of a commit that fails poisons the storage, which from then on
is as good as gone (`Stops`); a failed step of reclamation is passed over.

**Mapping.** `AtomicStore` has a log, whether the store is up, and what it reads. The log is
`disk[Main].lines`, the store is up while a commit or a reader is served, and reads return
`mem`. A commit that reclaims stays one step: only `AppendMain` changes the log. `Lose`, which
takes the last commits away, is allowed with `fsync`, the only mode in which power losses are
modelled; without it the documentation promises nothing about them.

**Left out.** Entries, conversations and submissions, which are in the marker like the end of a task;
document copies, which become creates before they are written; formats and parsing; the checks
that a record is confirmed once and that a marker's writes are legal after those before it, which
cannot fail while markers are lost only from the end. `Confirm` finds corruption in one step; the
code may have cut other tails before it throws.

## 3. Runs

Every property has a mutant that breaks it. TypeOK is proved for all constants in four modules
(section 4) and is not run again there. The bounds are small, and the reasons why
they suffice are given with each run.

| Run | Properties | Shows |
|---|---|---|
| `lock_rounds` | OneHolder, HolderKeepsFile, NobodyWedged | evolve, health, ingest and a program outside the protocol, on Windows. A third protocol program is needed for takeovers of takeovers and for a verdict on a holder that another has followed; each run ends, so pids recycle at most once each. |
| `rounds_asia` | ScoredOnce, LastForecastScored, LateAnswerNotScored, AnsweredIsScored, AnswerIsFinal, ImplementsScoreboard, DueIsHandled | one Asian market question, three forecasts of both arms, two crashes: before the close, on the one day of its quote, in the grace period, at the archive limit and beyond; a question whose day is missed reaches the human's template. |
| `rounds_us_poly` | TallyExact, NoForecastAfterAnswer, NoAnswerBeforeQuote, OfferedAfterWindow, MarketSpeaksFirst | a US market question and a Polymarket question that closes two days later, a grace of two days, and a kill: what one program does to one question while it works on the other. |
| `rounds_raised` (violation) | RaisedIsRetried | an exception after the first commit of `resolve_question` is taken for one before it; the question is never scored. |
| `autopick_reruns` | RegisteredIsFiled, WithinQuota, EventFiledOnce, OneQuestionPerStory, FiledQuestionStands | three headlines, drafted under several keys with colliding slugs, two of them with one link, two days, runs one after another and killed anywhere. Runs that overlap break these properties and are not run. |
| `autopick_foreign` (violation) | RefusedForACause | an event_key without ASCII letters blocks every later candidate. |
| `isotonic_fit` | BlocksAreRegression, CalibrationIsMonotone, TiesAreWeighted | all inputs of up to five samples over three probabilities: enough for ties across blocks and for cascades of pooling. |
| `sched_family` | WaitsAcyclic, ChildInsideOwner, AbortBottomUp, OutcomeIsFinal | three tasks, the host's and two children of any task, one of which waits or sleeps; an abort of the second. Three is the least number for an owner between two others, and for a wait across two subtrees. |
| `sched_scopes` | NoLostWakeup, NoLostCascade, NoStrandedWork, OrphanNeverHolds, FinishesDrained | two tasks, one perhaps in the conversation of the other, background or not; inputs queued there, aborts of task, conversation and scope, and one crash, close or registry change that takes both definitions away. |
| `sched_recover` | AbandonedNotResumed, AbortTakesEffect, EverySettles | an owner and a child it awaits in memory; sleeps and failFast waits, aborts by the owner; one crash, close or registry change, under a fair event loop. |
| `sched_close` (violation) | CloseCountsNoRestart | one task and one close: the close begins while a reservation is on the line. |
| `jsonl_storage` | TypeOK, NeverCorrupt, AckedSurvives, NothingLeaks, ImplementsAtomicStore | one document, with or without history, and one task, in up to three commits of up to two writes; with and without `fsync`; two faults, each a failed file operation, a crash or a power loss, at any step of commit, reclamation or recovery. |

Bounds of the scheduler: `MaxTasks` and `MaxHost` cap tasks, `MaxPhase` the checkpoints of each task,
`MaxChanges` the crashes, closes and registry changes together, of the kinds in `Changes`. The
state that matters to the indexes is where two tasks stand to each other (below, beside, in
the other's conversation) and in which of their statuses they are; the runs have all such pairs,
and `sched_family` the chains and forks of three. One disturbance is enough to meet every
pair of steps with it; two would matter for a crash during recovery, which repeats `Open` on records
that the first `Open` may have left. `RestartLimit` is small so that parked tasks and worn-out
abort handlers occur after a single crash. Some combinations are in no run and rest on the proofs, which
have no bounds: a cycle through two waits (WaitsAcyclic; one task can wait in `sched_family`), marks of a restart that meet
a phase (OutcomeIsFinal), and candidates that come back from a wait or a sleep (NoLostWakeup; `sched_scopes` has
neither). In `sched_recover` only the child is aborted by request.

Bounds of the storage: `MaxWrites`, `MaxCommits`, `MaxFaults`. Three commits are what a document needs to be
created, based again and retired, or to fail, to be tried again under the same number, and to be built
upon. Two writes put records into two sidecars, or two into one. Two faults let the recovery from
the first be interrupted by the second. With one write a commit, four commits with two faults, three
commits with three faults, and two documents have been tried as well, and hold.

Bounds of the rounds: `MaxTime`, `MaxForecasts`, `MaxCrashes` cap counters that the code does
not cap. The code's limits of three (grace), three (market's window)
and seven days (archive) are one, one and three here: the first two are equal and their
sum is below the third, as in the code; `rounds_us_poly` has a grace of two, so that the resolver's day for a US question
ends with the grace, as OfferedAfterWindow needs, and a unit of time is a day, so that limits are met exactly. A
forecast is renewed after one day, not seven, so that questions have several. `LastDay` ends the calendar of
Autopick. `MaxSamples` and `Levels` bound the input of the fit.
Deadlock is checked everywhere except in `isotonic_fit`, whose program ends, and in the scheduler's
runs, whose bounded tasks all end or stay parked: that nothing waits for ever when it should
not is what EverySettles and NoStrandedWork say. The lock run
ends in a stuttering action (`AllGone`) that is enabled only when every process is gone;
in the rounds and in Autopick some program can always be started, and a storage can be closed and opened.

### 3.1 What the violations mean

Each is a place where the code does something else than a comment, a test or a document
of the repository says; `findings` in `PROJECT.json` has the quotations. In `sched_close` the
reservation's check of `#closing` is stale by the time it creates invocations: `join()` has
already listed those it waits for, the reserved tasks stay `running`, and the next open counts
a restart for each, although "a close does not count". Five more behaviours that the models contain are not listed there, since the repository only
half promises otherwise: the race that `lock.py:119` documents; an answer that a killed
`resolve_question` leaves unscored without a log entry (`storage.py:325` speaks of errors
only); and a forecast that a long round makes after the close of its question
(`daily.py:112` compares with the `now` of the round's start), which counts; a kill of autopick
between a file and its registry row (`autopick.py:590`), after which the rerun does not count that
file in the quota; and evolve's unlocking before its connection is closed (`evolve.py:146`), so
that the next holder of the lock can be refused by DuckDB.

### 3.2 Fairness

* `EvolveLock!FairSpec`: weak fairness of each process's own steps (the system schedules
  live processes) and of `Age` (time passes). Crashes, recycling and the deadlines of
  the waiting programs are not fair: NobodyWedged does not rest on a timeout.
* `QuestionRounds!FairSpec`: weak fairness of `Tick` (time passes) and `Proceed` (a program
  that runs goes on; an LLM call has a timeout), strong fairness of `StartResolve`: the
  resolve round is scheduled every day and waits for the lock, so it runs again and again
  although others have the database in between. No answer is ever guaranteed.
* `TaskSchedulerProps!FairSpec`: weak fairness of `Progress`, the event loop as a whole: while some
  callback of the scheduler is ready (the drain loop, a reconcile pass, a timer, a handler that
  returns) one of them runs. It prefers none of them, no handler need commit anything, and the
  host's operations, crashes and registry changes are not fair. Handlers are assumed to return:
  the code waits for them without a limit. A host reopens a Session and resumes it.

## 4. Proofs

All with TLAPS, for every number of processes, questions, runs and tasks, all kinds, deadlines,
slugs, task shapes and bounds. The assumptions are the ASSUMEs next to the constants: sets are of the
right kind, the special values are not members of them.

| Theorem | Statement |
|---|---|
| `EvolveLockProofs!Typing` | TypeOK; in particular at most one connection |
| `EvolveLockProofs!LockExcludes` | OneHolder |
| `EvolveLockProofs!LockFileStands` | HolderKeepsFile |
| `QuestionRoundsProofs!Typing` | TypeOK |
| `QuestionRoundsProofs!OneScore` | ScoredOnce |
| `QuestionRoundsProofs!LastScored` | LastForecastScored, for any mixture of arms |
| `QuestionRoundsProofs!AnswersFinal` | AnswerIsFinal, an action property |
| `QuestionRoundsProofs!RoundsImplementScoreboard` | Spec => Board!Spec |
| `QuestionRoundsProofs!QuoteFirst` | NoAnswerBeforeQuote, if `GraceDays >= 1` |
| `QuestionRoundsProofs!MarketFirst` | MarketSpeaksFirst |
| `QuestionRoundsProofs!ForecastsPrecede` | NoForecastAfterAnswer |
| `QuestionRoundsProofs!LateUnscored` | LateAnswerNotScored |
| `QuestionRoundsProofs!AnsweredScored` | AnsweredIsScored |
| `QuestionRoundsProofs!StatsExact` | TallyExact, with the equality |
| `QuestionRoundsProofs!TemplateHuman` | OfferedAfterWindow, if `GraceDays >= 2` |
| `AutopickProofs!Typing` | TypeOK |
| `AutopickProofs!ListedIsFiled` | RegisteredIsFiled, if runs do not overlap |
| `AutopickProofs!FiledStands` | FiledQuestionStands, if runs do not overlap |
| `AutopickProofs!StoryOnce` | OneQuestionPerStory, an action property, if runs do not overlap |
| `AutopickProofs!EventOnce` | EventFiledOnce, if runs do not overlap |
| `AutopickProofs!QuotaKept` | WithinQuota, if runs do not overlap |
| `IsotonicProofs!FitIsRegression` | BlocksAreRegression |
| `IsotonicProofs!BlocksAscend` | the blocks ascend, so the list of steps is sorted; no block has more yes answers than samples |
| `IsotonicProofs!CalibrationRises` | CalibrationIsMonotone |
| `IsotonicProofs!TiesCount` | TiesAreWeighted |
| `TaskSchedulerProofs!Typing` | TypeOK |
| `TaskSchedulerProofs!Drained` | FinishesDrained, an action property |
| `TaskSchedulerProofs!OutcomesFinal` | OutcomeIsFinal, an action property |
| `TaskSchedulerProofs!ChildrenInside` | ChildInsideOwner |
| `TaskSchedulerProofs!NoWaitCycle` | WaitsAcyclic |
| `TaskSchedulerProofs!OrphansEnd` | OrphanNeverHolds |
| `TaskSchedulerProofs!AbortsBottomUp` | AbortBottomUp |
| `TaskSchedulerProofs!AbandonedStay` | AbandonedNotResumed |
| `TaskIndexProofs!WakeupsKept` | NoLostWakeup |
| `TaskIndexProofs!CascadesKept` | NoLostCascade |
| `TaskIndexProofs!NothingStranded` | NoStrandedWork |
| `JsonlStorageProofs!AckedNeverLost` | AckedSurvives |
| `JsonlStorageProofs!MarkersStayInOrder` | the sequence numbers in `main.jsonl` strictly increase |
| `JsonlStorageProofs!LogIsStable` | an action property: a step keeps the log, publishes the commit in progress, or, in a power loss, cuts the end off |
| `JsonlStorageProofs!AlwaysReadable` | NeverCorrupt |
| `JsonlStorageProofs!RecordsOutliveMarkers` | in every mixture of contents that a power loss may leave, a sidecar has the records that the log needs |
| `JsonlReadsProofs!Typing` | TypeOK |
| `JsonlReadsProofs!StorageIsAtomic` | Spec => Atomic!Spec |
| `JsonlReadsProofs!NothingKeptTooLong` | NothingLeaks |

**The lock.** OneHolder is not inductive: it says nothing of a process that has passed the
check and not yet written. `LockInv` adds it: without a race, a process past its check
is alone there, and one that has written finds its own pid in the file. `OutsideInv` keeps the
programs without the lock away from the file. `IInv == TypeOK /\ OutsideInv /\ LockInv`.
Two steps are delicate. Age makes the lock free for others, and is harmless exactly because a working
holder would have set `raced`. A process passes its check on a pid that it read at some earlier time: unless another
holder's pid is in the file by then (`Outdated`), the invariant says that the file's owner, if it holds the lock, is the process
whose pid was read, and that one is alive and its file not aged, so that the verdict cannot be a free one. The theorem holds for both values
of `Windows`; TLC has checked TRUE, where the programs run.

**The rounds.** `resolve_question` looks at nothing before it writes, so ScoredOnce rests on
its callers. `CheckedInv` says what a program still knows of the questions in its list:
those of a predicting program and of the automatic judge are still open, the one that is
about to be answered is open, and the one that is about to be scored has no score.
`BoardInv` says that a score belongs to the last forecast and to the answer that
stands; `TallyInv` that the statistics, with the call in progress, are not ahead of
the scores. `IInv == TypeOK /\ CheckedInv /\ BoardInv /\ TallyInv`; the refinement takes
one step of each action and this invariant.

**Deadlines.** The answers are judged by programs that look at the clock at different moments:
the automatic and the Polymarket round compare with the `now` of their start, `resolve.py` and the
seven-day check with the time of the statement. `TimesInv` says what survives in between:
`ClassInv` (a question of class C is past its grace, one of a market is A or C), `ListInv` (what
is in the list of each program), `CallInv` (what a call of `resolve_question` rests on at each of
its statements: the market's windows before the answer is written, the limit before the score, a
score before the count), `PastInv` (no time in the database is in the future) and `PaidInv` (the
statistics plus the count in progress equal the scores, if nothing was lost). A human answers a
degraded market question without looking at its window; that this comes after the quote follows from
the grace, `Closes + GraceDays * Day >= WindowStart`, and needs `GraceDays >= 1`. That is a hypothesis of
`QuoteFirst` (every reader of `grace_days` defaults to 3); with a grace of 0 the property can fail. So
can OfferedAfterWindow with a grace of one day: a question of class A leaves the template's filter as soon as it is
degraded, which for a US question is then before the one day is over in which the resolver may judge it. `TemplateHuman`
therefore has `GraceDays >= 2`. A question whose class A spec is invalid is in the template from its close, and
`resolve.py` takes an answer to it at once, so both theorems are about questions with a valid spec.

**Autopick.** RegisteredIsFiled needs to know where the
only run is between two writes (`FilingInv`): the file it is about to write is not there,
is torn, or is the pick that it will register. `OneRun` is a hypothesis of the five theorems after `Typing`,
not an assumption of the module: with two runs the properties fail, since
`exists()` and `write_text` are separate and each run counts and compares in the registry it loaded.
OneQuestionPerStory rests on two invariants. `StoryInv`: until its drafts are done the registry is the one the only
run loaded, and no news item and no event_key is at once in the registry, in two picks or among the
candidates. `LinkInv`: a pick shares its link with a registered question only if that one is of the same run, since
the registry that the run compared its picks with has the links of all runs before. For the empty event_key
`is_duplicate` does not look into the registry; that it is
not registered twice follows from RegisteredIsFiled, because then the *file* is found.
EventFiledOnce (`EventInv`: a file with the slug of a pick is of the pick's own day) is what holds for files that have
no row: the glob at the time of the draft finds a file of any day, torn or whole.
WithinQuota (`QuotaInv`: picks and the rows of the day together are at most `MaxPicks`) needs the
same: the quota counts event_keys, and a row is an event_key only as long as no key has two rows.

**The fit.** Let `Y(m)` be the number of yes answers among the first `m` samples. A block of the samples `a + 1..c` is
the chord of this graph from `a` to `c`, and its value is the slope. What pooling keeps, and what alone says why its
result is a regression, is that no point of the graph *between the ends of a block* is below its chord (`IsBlock`): two
chords with the first steeper than the second are above their common chord (`PoolFirst`, `PoolSecond`). `FitInv`
has this (`Chords`), with the order of all blocks but the last (`Ordered`). Once the blocks are in order their chords make
a convex polygon below the whole graph (`OnwardsAbove`, `BackwardsAbove`). Then every mean that begins where the block
of a sample begins is at least its value and every mean that ends where it ends is at most its value, so the block's value is a saddle point of the min-max
formula, and the formula has no other value (`RegressionIs`). CalibrationIsMonotone holds because a level's step is a weighted mean of blocks that are not above those of the next level,
and a midpoint keeps the order of its ends. Values are compared as fractions, by products of integers, so rounding
is no part of the argument, but neither is it covered. TLC has checked `FitInv` on the instance of `isotonic_fit`.

The sums are the folds of the community modules, defined by CHOOSE. `SumsAre` proves that they are sums: the
equation for a sum has a solution on the subsets of `1..n` (`SumsExist`, by induction on `n`), CHOOSE takes some
solution, and all agree by the least size of a set on which they would not. `SumsRelated` compares two
sums by their terms.

**The task scheduler.** Some twenty actions write records, so the proofs first say once what any
of them may write. `Next1(r, s)`: a record stays, or that of a live task evolves: its
place in the tree stands, an outcome stands, a held one only ends, a mark is not weakened, a new
held outcome is not "orphaned". `Newborn`: what is created has a live, unmarked owner, if any.
`Commit(new)`: every record does one of the two, and what ends has no owned work left *in the
records it leaves*; that last part is why a handler that creates work and settles in one commit
holds its outcome. Each action is shown to commit (`...Commits`), and from there the theorems
hardly look at an action again. ChildInsideOwner follows: a child counts as owned work
of its owner, so an owner that ended would not have drained. `Children` is the strengthening
that says so (a child hangs below its owner, in the foreground); `Placed` says that nothing hangs
below a task that does not exist.

WaitsAcyclic: a `CalmCommit` starts no wait. It adds no edge but those to the tasks it
creates, and these have none of their own (a new task owns nothing, by `Placed`); the others
disappear as tasks end or are marked. A commit that starts a wait is checked by
`validateWait`: the tasks waited for reach a set closed under the edges that the waiter is not
in, and a cycle through the new wait would cut out of that set a cycle of the old graph.
`validateWait` lets the waiter's own children pass; they are owned work already, which is where
`Children` is needed. A handler's commit that also creates a task is a calm commit
followed by one record.

AbortBottomUp needs `Aborting`: while an abort handler runs its task is marked or has ended, so
no child can be created under it. AbandonedNotResumed needs `Abandoning`: a live task of an
earlier process that must not resume is marked or among `abandoned`, and nothing is reserved
before those are marked. `IInv` is the conjunction, and TLC has checked it, with every
step a `Commit`, on the instances of `SchedFamily`, `SchedScopes` and `SchedRecover`.

**The indexes.** The scheduler never searches the tree for work: `#runnable`, `#dirty`,
`#cascadePending`, `#finalizeChecks` and `#reconcileScheduled` are kept up incrementally by the commit listener. Each
of the three properties says that what the tree holds is in an index, none is inductive, and
`IndexInv == IInv /\ Tree /\ WakeInv /\ CascadeInv /\ FinalizeInv` is what is.

* `Tree`: tasks are created in order below tasks that exist, and of two tasks above a third the farther
  is above the nearer, which is not background. `Freed` rests on it: if a commit ends the
  last owned work of a task, one of the tasks that ended had it as its *nearest* live owner, the only
  one that `#track` looks at. Without the second half a task far above could run out of work unnoticed.
* `WakeInv` strengthens NoLostWakeup to a Session whose scheduling has not resumed (`enabled`), where a
  task must be a candidate though no pass is wanted yet. What `Publish` does to a task that can be reserved
  after it is said once (`WakePublished`): it is a candidate and a pass is wanted, or it could be reserved
  before and nothing about it changed. Changes of the records reach the second case only if they set
  `dirty`, which is why a mark that comes to withhold or to release a task cannot be missed.
* `CascadeInv`: unless a cascade is pending, in the flag or in the pass that took it off, every mark is
  derived, and a pending one schedules a pass. A commit that touches no cascade adds no intent
  (`IntentBefore`), so what was derived stays so (`DerivedKept`); one that does sets the flag; the pass
  derives the marks from the records at its own commit, not at its start (`CascadeReconcile`).
* `FinalizeInv`: a held outcome that could be written is in `finalize` and a pass will look at it.

That a nearest owner exists, in trees of any size, is the least-number principle (`Least`,
`Greatest`), from the well-foundedness of the naturals. TLC has checked the four invariants on the instances of
`SchedScopes`, `SchedRecover` and `SchedFamily`.

**The storage.** The proofs are about `main.jsonl`, the log that the refinement maps. `MainStep` says what any
step does to it: nothing (`SameLog`), the marker of the commit in progress is appended
(`Published`), or power was lost and one of the contents in `past` is what is left (`Cut`). AckedSurvives
is not inductive: it needs that a commit that waits for its reclamation is in the log already (`AckInv`),
that the marker to be appended has a number above all others (`BatchInv`, though numbers
are given again), and that what a power loss may leave is a prefix of the log (`PastInv`). `Inv` is
their conjunction with `Shape` and `LogInv`. LogIsStable is the half of the refinement that concerns the log.

**Recovery.** NeverCorrupt says only that `Confirm` does not throw; what it rests on is a fact about the
files. `Needed(log, f)` is what the checks of recovery ask of a sidecar: the records of the writes
that the log lists, unless the task has ended, the document is retired without history, or a later
base stands. `Fits(lines, f, log)` says that a sidecar has them, is sorted, and that what the log does
not list is newer than all that it lists, so that it is an unconfirmed tail and can be cut
off. `NotCorrupt` proves, from the definitions of recovery alone, that files that fit are never refused.

The invariant (`Stable`) is that `Fits` holds for *every* content in `Views(f)` with *every* log in `Logs`,
present and past. A power loss decides each file by itself, so a step has to be safe for
all mixtures, and this is where the order of the code enters: records are flushed before the
marker is appended (`FlushedOK`), so that a new log meets no sidecar without them; the log is
flushed before a sidecar is replaced (`OneLog`), so that a replacement meets no log that needs what it
left out. `Progress` says what holds in between: what of the commit in progress is written (`BatchOK`, `DiskOK`,
`WrittenOK`), that the replacements that are planned fit (`PlanOK`, `TempOK`), and that memory knows of every end and
every current-only document that the log lists (`MemOK`), because commits plan from memory. `RInv == Inv /\ Stable /\
Progress`; TLC has checked `Stable` and `Progress` on the instance of `jsonl_storage`.

Selecting, concatenating and replaying are recursive functions in the model, not folds or RECURSIVE
operators, about which the prover knows nothing. What they compute (`OnlyFacts`, `WritesOfGathers`,
`ReplayEnd`, `ReplayCurrent`) is proved by induction on the length of the sequence. The library's
induction theorems take an operator and cannot be used; the least counterexample of `WFMin` can.

**Reads.** The other half of StorageIsAtomic is that `mem` is the log replayed. A commit replays one batch
on top of memory, which is easy; an open replays what *recovery* kept, and reclamation may have
dropped records of old commits long ago. `KeptState` says that this does not matter: replaying the
records that recovery keeps gives the state of the whole log. It holds only for logs that a Session can have
written (`Regular`: a file begins with its creation, and what follows is what `Legal`
admits), for which `DocState`, `TaskState` and `NoState` say in closed form what memory makes of a log. In
particular a document's revisions in memory are exactly the records that `Needed` asks of its sidecar, and both
are sorted, so they are the same sequence (`SortedUnique`). `SInv == TInv /\ Orderly /\
Prepared /\ Faithful` is inductive, where `TInv` is `RInv` with the types of memory and of the plans: every log that
a power loss may leave is regular (`Orderly`), the batch in progress keeps it so (`Prepared`), and a serving
storage has the replayed log in memory (`Faithful`). The refinement is then a case
distinction over `MainStep` and `Serving`: `SameLog` maps to a stutter, a `Stop` or an `Open`, `Published` to a
`Commit` or, when the append fails after it has written the line, a `Stop`, and `Cut` to a `Lose`.

TypeOK is more than its name says: a storage that is open, closed or recovering keeps nothing of an earlier commit,
and sidecars grow with each step, so that `ContentsOK` needs what each operation may write.

NothingLeaks compares two planners: a commit decides from memory what to replace, an open from the
files. `Settled` (in `Exact`) says what both must reach: each file, or the replacement planned for it, has *exactly*
`Needed` of the log. `CommitPlans` and `RecoveryPlans` show that they do, each from what it looks at. The property is
conditional on `tidy`, and so is `Exact`: after a failed replacement the code leaves the rest for the next
open. TLC has checked `Orderly`, `Prepared`, `Faithful` and `Exact` on the instance of `jsonl_storage`.

**Only model-checked.** NobodyWedged, DueIsHandled, AbortTakesEffect and EverySettles (liveness
under fairness is beyond the prover; what NoStrandedWork and the two others contribute to it, that no work
is forgotten, is proved).

## 5. What is not modelled

* What the LLM, the search, the feeds and the quote pages return: choices.
* Probabilities, Brier values, horizons, calibration of a stored forecast: a score is present
  or not, and against which answer.
* The read-only parts: dashboard, statistics, reports, baselines.
* Of `shell/pi`: the terminal interface, the model providers and the coding agent (rendering,
  wire formats, commands: I/O or pure functions of text); Chord, the agent loop, SQLite and
  IndexedDB as back ends and the documents of a Session, which keep state and are planned. The
  scheduler takes commits to be atomic and durable, which `JsonlStorage` shows for one of the back ends.
* Packaging, one-off migrations, offline evaluation.
* Within the modelled parts: the family questions that `daily.py` adds, `--force`-like
  options and the adaptive levers, the formatting of files, the order of rows where any
  order is allowed by the model, DuckDB's own recovery (a statement is atomic and durable).

## 6. Plan

In this order; the first six models are done.

1. `EvolveLock`: done, proved. 2. `QuestionRounds` with `Scoreboard`: done, all its invariants proved.
3. `Autopick`: done, all the properties that hold are proved. 4. `Isotonic`: done, proved.
5. `TaskScheduler`: done, all its invariants and action properties proved. `JsonlStorage` with `AtomicStore`: done, all its properties proved. Next
   to them `Submissions`, the inbox of a busy conversation (`durable/src/harness/submissions.ts`,
   `inbox.ts`: steers, follow-ups, writes, resets, request IDs that make a retried call idempotent).
6. `AlertFiles`: `health_check.py` (266-392: find today's alert, rewrite, clean up) with the
   acknowledgement of the web server; instances with one check, one reader, two days.
   To state: a red alert that nobody has seen is never acknowledged; an unacknowledged
   alert outlives the cleanup; one unacknowledged alert a day.
7. `MarketResolver`: the comparison of two quotes, the sanity check, the record-high rule, as
   operators with a table of verdicts; then `QuestionRounds!AutoAnswers` refined by it.
8. `RoundsUnderLock`: `EvolveLock` composed with the rounds, so that "one program at a time" is a
   consequence; the abstract specification is `QuestionRounds` with its `Start`.
9. `Families` and the ingestion: who adds questions, and that no two are the same.
10. `Calibrator`: refresh, crash between truncation and write, load; `Sampling`: the guards of
   `websearch_predictor.py`; `LlmClient`: retries and fallback; `Backup`.
11. `Migration`: `storage.py:173-210` statement by statement, killed and repeated.

Proofs next: the safety half of the liveness properties (who waits, waits for someone who can go on), stated with
the guards of the actions; and the invariants of the next models.
