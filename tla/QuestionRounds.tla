--------------------------- MODULE QuestionRounds ---------------------------
(***************************************************************************)
(* The life of a question in foresight.db: it is forecast by the daily and *)
(* evolve predict rounds and by the CLI, degraded and judged by the evolve *)
(* resolve round, judged by pm_resolve.py (Polymarket questions) or by     *)
(* resolve.py (a CSV a human has filled in), and scored by                 *)
(* Storage.resolve_question.                                               *)
(*                                                                         *)
(* DuckDB lets one process open the file for writing, so one program runs  *)
(* at a time: `prog` is that program and `at` the `now` it computed when   *)
(* it started. Every statement commits on its own, so a crash leaves the   *)
(* statements made so far. Time is counted in units of which Day make a    *)
(* day.                                                                    *)
(***************************************************************************)
EXTENDS Integers, Sequences, FiniteSets

CONSTANTS
  Questions,    \* the questions in the database
  NoQuestion,   \* not a question
  Kind,         \* how each question is to be resolved, see Kinds
  Closes,       \* closes_at of each question
  Day,          \* units of time in a day
  GraceDays,    \* spec.grace_days (3)
  PmWindowDays, \* pm_resolve: days in which only the market decides (3)
  ArchiveDays,  \* resolve_question: later answers are not scored (7)
  UpdateDays,   \* a forecast is renewed after this many days (7)
  Experiments,  \* whether a round also stores forecasts of arm "experiment"
  MaxTime,      \* bound: the clock stops here
  MaxForecasts, \* bound: forecasts per question
  MaxCrashes    \* bound: programs killed in the middle

(***************************************************************************)
(* asia, us: class A, a market close in the Shanghai or another time zone; *)
(* invalid: class A, but its spec fails validate_resolution_spec (and has  *)
(* no time zone); event: class B, judged by an LLM; poly: a Polymarket     *)
(* question, whose spec has no class; bare: no spec, or one that does not  *)
(* parse, which every program treats alike.                                *)
(***************************************************************************)
Kinds == {"asia", "us", "invalid", "event", "poly", "bare"}
Classes == {"A", "B", "C", "none"}
Answers == {"yes", "no"}
NoAnswer == "none"

ASSUME QuestionsAssumption == IsFiniteSet(Questions)
ASSUME NoQuestionAssumption == NoQuestion \notin Questions
ASSUME KindAssumption == Kind \in [Questions -> Kinds]
ASSUME ClosesAssumption == Closes \in [Questions -> Nat]
ASSUME DaysAssumption ==
  /\ Day \in Nat \ {0} /\ GraceDays \in Nat /\ PmWindowDays \in Nat
  /\ ArchiveDays \in Nat /\ UpdateDays \in Nat
ASSUME ExperimentsAssumption == Experiments \in BOOLEAN
ASSUME BoundsAssumption ==
  MaxTime \in Nat /\ MaxForecasts \in Nat /\ MaxCrashes \in Nat

VARIABLES
  clock,        \* the time
  class,        \* resolution_spec.class
  outcome,      \* questions.outcome
  resolvedAt,   \* questions.resolved_at
  source,       \* questions.resolution_source
  forecasts,    \* rows of predictions, oldest first: [made, arm, brier]
  tally,        \* model_stats.predictions, summed over the models
  template,     \* the questions listed in resolutions.template.csv
  scoringLog,   \* questions with a resolution_brier_failed event
  prog, at,     \* the running program and its `now`
  todo,         \* the questions it still has to handle
  step, cur, verdict, by,  \* the call of resolve_question that it is in
  crashes,      \* programs killed so far
  cut           \* history: questions whose resolve_question ended, after the
                \* answer was written, with neither a score nor a log entry

db == <<class, outcome, resolvedAt, source, forecasts, tally, scoringLog>>
run == <<prog, at, todo>>
call == <<step, cur, verdict, by>>
vars == <<clock, db, template, run, call, crashes, cut>>

(***************************************************************************)
(* A row of predictions. Arm production stands for baseline and websearch, *)
(* the two that are scored; brier is the answer that it was scored against.*)
(***************************************************************************)
Arms == {"production", "experiment"}
Forecast == [made : Nat, arm : Arms, brier : Answers \cup {NoAnswer}]
Row(arm) == [made |-> clock, arm |-> arm, brier |-> NoAnswer]

Predicting == {"daily", "evolve", "cli"}
Judging == {"auto", "pm", "manual"}
Programs == {"idle", "degrade"} \cup Predicting \cup Judging
Steps == {"none", "outcome", "late", "score", "count"}
Sources == {"resolver", "market", "llm", "human"}
NoSource == "none"

Open(q) == outcome[q] = NoAnswer
Variant_DueAt_answered(q, t) == Closes[q] <= t
DueAt(q, t) == Open(q) /\ Closes[q] <= t            \* list_open_questions
Official(q) == {i \in DOMAIN forecasts[q] : forecasts[q][i].arm = "production"}
Scored(q) == {i \in DOMAIN forecasts[q] : forecasts[q][i].brier # NoAnswer}
Variant_Unscored_anyArm(q) == DOMAIN forecasts[q] \ Scored(q)
Unscored(q) == Official(q) \ Scored(q)

TypeOK ==
  /\ clock \in Nat /\ at \in Nat /\ tally \in Nat /\ crashes \in Nat
  /\ class \in [Questions -> Classes]
  /\ outcome \in [Questions -> Answers \cup {NoAnswer}]
  /\ resolvedAt \in [Questions -> Nat]
  /\ source \in [Questions -> Sources \cup {NoSource}]
  /\ forecasts \in [Questions -> Seq(Forecast)]
  /\ template \subseteq Questions /\ scoringLog \subseteq Questions
  /\ cut \subseteq Questions /\ todo \subseteq Questions
  /\ prog \in Programs /\ step \in Steps
  /\ at <= clock
  /\ IF step = "none" THEN cur = NoQuestion /\ verdict = NoAnswer /\ by = NoSource
     ELSE prog \in Judging /\ cur \in todo /\ verdict \in Answers /\ by \in Sources

Init ==
  /\ clock = 0
  /\ class = [q \in Questions |->
               CASE Kind[q] \in {"asia", "us", "invalid"} -> "A"
                 [] Kind[q] = "event" -> "B"
                 [] OTHER -> "none"]
  /\ outcome = [q \in Questions |-> NoAnswer]
  /\ resolvedAt = [q \in Questions |-> 0]
  /\ source = [q \in Questions |-> NoSource]
  /\ forecasts = [q \in Questions |-> <<>>]
  /\ tally = 0 /\ template = {} /\ scoringLog = {}
  /\ prog = "idle" /\ at = 0 /\ todo = {}
  /\ step = "none" /\ cur = NoQuestion /\ verdict = NoAnswer /\ by = NoSource
  /\ crashes = 0 /\ cut = {}

Tick ==
  /\ clock < MaxTime
  /\ clock' = clock + 1
  /\ UNCHANGED <<db, template, run, call, crashes, cut>>

\* A program opens the database, computes `now` and lists its questions.
Start(p, questions) ==
  /\ prog = "idle"
  /\ prog' = p /\ at' = clock /\ todo' = questions
  /\ UNCHANGED <<clock, db, template, call, crashes, cut>>

EndProgram == prog' = "idle" /\ at' = 0

\* A class A question is the market resolver's only if its spec is valid.
ValidA(q) == class[q] = "A" /\ Kind[q] # "invalid"

\* manual_candidates: due, and without a spec, unreadable, of another class,
\* or of class A with an invalid spec.
Variant_manual_candidates_all(t) == {q \in Questions : DueAt(q, t)}
manual_candidates(t) == {q \in Questions : DueAt(q, t) /\ ~ValidA(q)}

Done(q) == todo' = todo \ {q}

-----------------------------------------------------------------------------
(* Forecasts: daily.py, evolve.py predict, predictor.cli *)

LastMade(q) == forecasts[q][Len(forecasts[q])].made

\* Never forecast, or last forecast UpdateDays or longer ago.
NeedsForecast(q) ==
  \/ forecasts[q] = <<>>
  \/ clock - LastMade(q) >= UpdateDays * Day

StartPredict(p) ==
  /\ p \in {"daily", "evolve"}
  /\ Start(p, {q \in Questions : Open(q) /\ Closes[q] > clock /\ NeedsForecast(q)})

\* predict_existing and predict_once refuse a question that is closed.
Variant_StartCli_answered(q) ==
  /\ Closes[q] > clock
  /\ Start("cli", {q})

StartCli(q) ==
  /\ Open(q) /\ Closes[q] > clock
  /\ Start("cli", {q})

\* The rows that one forecast stores: none when it fails, and with Experiments
\* a second one of the candidate that a round tries out, after its own.
NewRows ==
  {<<>>, <<Row("production")>>} \cup
  IF Experiments /\ prog # "cli"
    THEN {<<Row("experiment")>>, <<Row("production"), Row("experiment")>>}
    ELSE {}

\* The LLM samples are in; add_prediction stamps each row with the time of the
\* insert. A failed forecast only writes to evolution_log.
Predict(q) ==
  /\ prog \in Predicting /\ q \in todo
  /\ Done(q)
  /\ \E rows \in NewRows :
       /\ Len(forecasts[q]) + Len(rows) <= MaxForecasts
       /\ forecasts' = [forecasts EXCEPT ![q] = @ \o rows]
  /\ UNCHANGED <<clock, class, outcome, resolvedAt, source, tally, scoringLog, template,
                 prog, at, call, crashes, cut>>

\* Only daily.py writes the template after its forecasts.
EndPredict ==
  /\ prog \in Predicting /\ todo = {}
  /\ EndProgram
  /\ template' = IF prog = "daily" THEN manual_candidates(at) ELSE template
  /\ UNCHANGED <<clock, db, todo, call, crashes, cut>>

-----------------------------------------------------------------------------
(* Answers: evolve.py resolve *)

\* resolve_round first degrades the class A and B questions past their grace.
Variant_StartResolve_noGrace ==
  Start("degrade", {q \in Questions : DueAt(q, clock) /\ class[q] \in {"A", "B"}})

StartResolve ==
  Start("degrade", {q \in Questions : /\ DueAt(q, clock)
                                      /\ class[q] \in {"A", "B"}
                                      /\ clock > Closes[q] + GraceDays * Day})

Variant_Degrade_lost(q) ==
  /\ prog = "degrade" /\ q \in todo
  /\ Done(q)
  /\ UNCHANGED <<clock, db, template, prog, at, call, crashes, cut>>

Degrade(q) ==
  /\ prog = "degrade" /\ q \in todo
  /\ class' = [class EXCEPT ![q] = "C"]     \* degrade_to
  /\ Done(q)
  /\ UNCHANGED <<clock, outcome, resolvedAt, source, forecasts, tally, scoringLog,
                 template, prog, at, call, crashes, cut>>

\* auto_resolve lists the due questions anew; classes C and none, and the
\* Polymarket questions, are left to others.
StartAuto ==
  /\ prog = "degrade" /\ todo = {}
  /\ prog' = "auto"
  /\ todo' = {q \in Questions : DueAt(q, at) /\ class[q] \in {"A", "B"}
                                             /\ Kind[q] # "poly"}
  /\ UNCHANGED <<clock, db, template, at, call, crashes, cut>>

\* MarketResolver: the quote belongs to this question only for one day.
WindowStart(q) == IF Kind[q] = "asia" THEN Closes[q] ELSE Closes[q] + Day
DataWindow(q, t) == WindowStart(q) <= t /\ t < WindowStart(q) + Day

\* The resolvers answer at time t only within the grace and the data window.
AutoAnswers(q, t) ==
  /\ Closes[q] <= t /\ t <= Closes[q] + GraceDays * Day
  /\ class[q] = "A" => DataWindow(q, t)

\* pm_resolve: the market decides at any time after the close, the LLM from
\* the end of the market's window to the end of the grace added to it.
Variant_PmAnswers_noWindow(q, src, t) ==
  /\ Open(q) /\ Closes[q] <= t
  /\ \/ src = "market"
     \/ src = "llm" /\ t <= Closes[q] + (PmWindowDays + GraceDays) * Day

PmAnswers(q, src, t) ==
  /\ Open(q) /\ Closes[q] <= t
  /\ \/ src = "market"
     \/ /\ src = "llm"
        /\ t - Closes[q] >= PmWindowDays * Day
        /\ t <= Closes[q] + (PmWindowDays + GraceDays) * Day

\* resolve.py: the row of an open question, but not that of a class A question
\* with a valid spec whose data window has not begun.
Variant_ManualAnswers_any(q, t) == ValidA(q) => t >= WindowStart(q)

ManualAnswers(q, t) ==
  /\ Open(q)
  /\ ValidA(q) => t >= WindowStart(q)

\* auto and pm compare with the program's `now`, resolve.py with the clock.
MayAnswer(q, src) ==
  \/ prog = "auto" /\ src = "resolver" /\ AutoAnswers(q, at)
  \/ prog = "pm" /\ PmAnswers(q, src, at)
  \/ prog = "manual" /\ src = "human" /\ ManualAnswers(q, clock)

StartPm == Start("pm", {q \in Questions : Kind[q] = "poly"})

\* The rows of the CSV: any questions, with any answers.
StartManual(rows) == Start("manual", rows)

\* A resolver, the market or a row gives an answer: resolve_question is called.
Answer(q, o, src) ==
  /\ prog \in Judging /\ q \in todo /\ step = "none"
  /\ MayAnswer(q, src)
  /\ step' = "outcome" /\ cur' = q /\ verdict' = o /\ by' = src
  /\ UNCHANGED <<clock, db, template, run, crashes, cut>>

\* No answer: waiting, a guard, an API error, or the question is not this
\* program's to judge. A row of the CSV is only skipped when it must be.
Skip(q) ==
  /\ prog \in Judging /\ q \in todo /\ step = "none"
  /\ prog = "manual" => ~MayAnswer(q, "human")
  /\ Done(q)
  /\ UNCHANGED <<clock, db, template, prog, at, call, crashes, cut>>

\* The end of a round. evolve writes the template; calibration is elsewhere.
EndJudging ==
  /\ prog \in Judging /\ todo = {} /\ step = "none"
  /\ EndProgram
  /\ template' = IF prog = "auto" THEN manual_candidates(at) ELSE template
  /\ UNCHANGED <<clock, db, todo, call, crashes, cut>>

-----------------------------------------------------------------------------
(* Storage.resolve_question(cur, verdict) *)

EndCall == step' = "none" /\ cur' = NoQuestion /\ verdict' = NoAnswer /\ by' = NoSource
Return == EndCall /\ Done(cur)

\* UPDATE questions SET outcome, with no condition on the old outcome.
WriteOutcome ==
  /\ step = "outcome"
  /\ outcome' = [outcome EXCEPT ![cur] = verdict]
  /\ resolvedAt' = [resolvedAt EXCEPT ![cur] = clock]
  /\ source' = [source EXCEPT ![cur] = by]
  /\ step' = "late"
  /\ UNCHANGED <<clock, class, forecasts, tally, scoringLog, template, run,
                 cur, verdict, by, crashes, cut>>

\* The UPDATE raises: auto_resolve and pm_resolve go on with the next question.
OutcomeFails ==
  /\ step = "outcome" /\ prog \in {"auto", "pm"}
  /\ Return
  /\ UNCHANGED <<clock, db, template, prog, at, crashes, cut>>

Variant_TooLate_stale == at - Closes[cur] > ArchiveDays * Day
Variant_TooLate_early == clock - Closes[cur] >= ArchiveDays * Day
TooLate == clock - Closes[cur] > ArchiveDays * Day

\* The query for the age raises, after the answer is written: auto_resolve and
\* pm_resolve take it for an answer that was not written.
CheckFails ==
  /\ step = "late" /\ prog \in {"auto", "pm"}
  /\ Return
  /\ cut' = cut \cup {cur}
  /\ UNCHANGED <<clock, db, template, prog, at, crashes>>

\* A late answer is archived without a score.
Archive ==
  /\ step = "late" /\ TooLate
  /\ Return
  /\ UNCHANGED <<clock, db, template, prog, at, crashes, cut>>

InGoodTime ==
  /\ step = "late" /\ ~TooLate
  /\ step' = "score"
  /\ UNCHANGED <<clock, db, template, run, cur, verdict, by, crashes, cut>>

\* UPDATE predictions: the newest row of a production arm without a score.
Newest(rows) == CHOOSE i \in rows : \A j \in rows : j <= i

Score ==
  /\ step = "score"
  /\ forecasts' =
       IF Unscored(cur) = {} THEN forecasts
       ELSE [forecasts EXCEPT ![cur][Newest(Unscored(cur))].brier = verdict]
  /\ step' = "count"
  /\ UNCHANGED <<clock, class, outcome, resolvedAt, source, tally, scoringLog, template,
                 run, cur, verdict, by, crashes, cut>>

\* model_stats: one upsert for every model of every scored row. A row names one
\* model (pipeline.py, websearch_predictor.py), and ScoredOnce leaves one row.
Variant_Count_all ==
  /\ step = "count"
  /\ tally' = tally + Len(forecasts[cur])
  /\ Return
  /\ UNCHANGED <<clock, class, outcome, resolvedAt, source, forecasts, scoringLog,
                 template, prog, at, crashes, cut>>

Count ==
  /\ step = "count"
  /\ tally' = tally + Cardinality(Scored(cur))
  /\ Return
  /\ UNCHANGED <<clock, class, outcome, resolvedAt, source, forecasts, scoringLog,
                 template, prog, at, crashes, cut>>

\* Scoring raises (broken model_runs, full disk): not raised but logged, unless
\* the log entry fails too.
ScoringFails ==
  /\ step \in {"score", "count"}
  /\ \/ scoringLog' = scoringLog \cup {cur} /\ UNCHANGED cut
     \/ cut' = cut \cup {cur} /\ UNCHANGED scoringLog
  /\ Return
  /\ UNCHANGED <<clock, class, outcome, resolvedAt, source, forecasts, tally, template,
                 prog, at, crashes>>

-----------------------------------------------------------------------------
\* The program is killed; what it has committed stays.
Crash ==
  /\ prog # "idle" /\ crashes < MaxCrashes
  /\ crashes' = crashes + 1
  /\ EndProgram
  /\ todo' = {} /\ EndCall
  /\ cut' = IF step \in {"late", "score", "count"} THEN cut \cup {cur} ELSE cut
  /\ UNCHANGED <<clock, db, template>>

resolve_question ==
  \/ WriteOutcome \/ OutcomeFails \/ CheckFails \/ Archive \/ InGoodTime
  \/ Score \/ Count \/ ScoringFails

Proceed ==
  \/ \E q \in Questions : Predict(q) \/ Degrade(q) \/ Skip(q)
  \/ \E q \in Questions, o \in Answers, src \in Sources : Answer(q, o, src)
  \/ StartAuto \/ EndPredict \/ EndJudging
  \/ resolve_question

Next ==
  \/ Tick
  \/ \E p \in {"daily", "evolve"} : StartPredict(p)
  \/ \E q \in Questions : StartCli(q)
  \/ StartResolve \/ StartPm
  \/ \E rows \in SUBSET Questions : StartManual(rows)
  \/ Proceed
  \/ Crash

Spec == Init /\ [][Next]_vars

(***************************************************************************)
(* Time passes, a program that runs goes on, and the resolve round, which  *)
(* is scheduled every day, gets its turn.                                  *)
(***************************************************************************)
FairSpec == Spec /\ WF_vars(Tick) /\ WF_vars(Proceed) /\ SF_vars(StartResolve)

=============================================================================
