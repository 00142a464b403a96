------------------------- MODULE QuestionRoundsProps -------------------------
(* What the rounds and Storage.resolve_question guarantee about a question. *)
EXTENDS QuestionRounds

(***************************************************************************)
(* An answer is final. resolve_question overwrites outcome, resolved_at    *)
(* and resolution_source without looking at them (storage.py:268); that no *)
(* answer ever changes rests on what every caller checks first, and on the *)
(* database being its own since it checked.                                *)
(***************************************************************************)
AnswerIsFinal ==
  [][\A q \in Questions :
       ~Open(q) => <<outcome[q], resolvedAt[q], source[q]>>' =
                   <<outcome[q], resolvedAt[q], source[q]>>]_vars

(***************************************************************************)
(* A question enters the scoreboard at most once, with the answer that     *)
(* stands: brier_by_horizon_bucket counts every scored row, and a second   *)
(* call of resolve_question would score an older one (storage.py:293).     *)
(***************************************************************************)
ScoredOnce ==
  \A q \in Questions :
    /\ \A i, j \in Scored(q) : i = j
    /\ \A i \in Scored(q) : forecasts[q][i].brier = outcome[q]

(***************************************************************************)
(* What is scored is the last forecast of a production arm, and no such    *)
(* forecast follows it; an experiment's row, although it is the newest one *)
(* of every question that has one, never enters the scoreboard             *)
(* (storage.py:286-296).                                                   *)
(***************************************************************************)
LastForecastScored ==
  \A q \in Questions : \A i \in Scored(q) :
    i \in Official(q) /\ \A j \in Official(q) : j <= i

(***************************************************************************)
(* No question is forecast after its answer is in the database, although   *)
(* a round lists its questions once and forecasts them for an hour.        *)
(***************************************************************************)
NoForecastAfterAnswer ==
  \A q \in Questions :
    ~Open(q) => \A i \in DOMAIN forecasts[q] : forecasts[q][i].made <= resolvedAt[q]

(***************************************************************************)
(* An answer that came more than ArchiveDays after the close never counts, *)
(* nor does one that is scored across that limit.                          *)
(***************************************************************************)
LateAnswerNotScored ==
  \A q \in Questions :
    ~Open(q) /\ resolvedAt[q] - Closes[q] > ArchiveDays * Day => Scored(q) = {}

(***************************************************************************)
(* model_stats counts every scored forecast once, unless scoring raised or *)
(* was killed in the middle; it never counts one twice (resolve.py:53).    *)
(***************************************************************************)
ScoredQuestions == {q \in Questions : Scored(q) # {}}
TallyExact ==
  /\ tally <= Cardinality(ScoredQuestions)
  /\ step = "none" /\ cut = {} /\ scoringLog = {} =>
       tally = Cardinality(ScoredQuestions)

(***************************************************************************)
(* A question with a production forecast that was answered, while it is    *)
(* still in time for the scoreboard, has its score, unless scoring raised  *)
(* or was killed.                                                          *)
(***************************************************************************)
InTime(q) == clock - Closes[q] <= ArchiveDays * Day
AnsweredIsScored ==
  \A q \in Questions :
    ~Open(q) /\ Official(q) # {} /\ InTime(q) /\ cur # q =>
      Scored(q) # {} \/ q \in scoringLog \cup cut

(***************************************************************************)
(* Nobody answers a market question with a valid spec before the close it  *)
(* asks about has been quoted: neither the resolver, nor a CSV that was    *)
(* filled in early, nor a human after the question was degraded. It takes  *)
(* the data window of market_resolver.py:67, the guard of resolve.py:60    *)
(* and the grace of evolve.py:90 together. A question whose spec is        *)
(* invalid has no such guard.                                              *)
(***************************************************************************)
NoAnswerBeforeQuote ==
  \A q \in Questions :
    ~Open(q) /\ Kind[q] \in {"asia", "us"} => resolvedAt[q] >= WindowStart(q)

(***************************************************************************)
(* For PmWindowDays after the close of a Polymarket question no LLM speaks *)
(* before the market does, in whatever round (pm_resolve.py:113).          *)
(***************************************************************************)
MarketSpeaksFirst ==
  \A q \in Questions :
    Kind[q] = "poly" /\ source[q] \in {"llm", "resolver"} =>
      resolvedAt[q] >= Closes[q] + PmWindowDays * Day

(***************************************************************************)
(* The template offers a human no market question with a valid spec before *)
(* the one day is over in which the market resolver may judge it, so that  *)
(* nobody settles by hand what the next round would have quoted            *)
(* (manual.py:10-14). The list leaves such questions out by their class,   *)
(* which the resolve round changes by the days of grace (evolve.py:90),    *)
(* while the window counts from the close and the time zone                *)
(* (market_resolver.py:67-72): it is the grace that must not be shorter    *)
(* than the window.                                                        *)
(***************************************************************************)
OfferedAfterWindow ==
  \A q \in template :
    Kind[q] \in {"asia", "us"} => clock >= WindowStart(q) + Day

(***************************************************************************)
(* No question is forgotten: one that is due is answered or reaches the    *)
(* template, although its single day for a market quote may be missed.     *)
(***************************************************************************)
DueIsHandled ==
  \A q \in Questions :
    DueAt(q, clock) ~> ~Open(q) \/ q \in template

(***************************************************************************)
(* All of this together: the rounds, however they interleave, fail and are *)
(* killed, implement the Scoreboard, whose forecasts are those of the      *)
(* production arms. resolve_question with its separate commits is a        *)
(* Settle, a Mark and a Count, of which a crash may leave out the last     *)
(* ones.                                                                   *)
(***************************************************************************)
Made == [q \in Questions |-> Cardinality(Official(q))]
UpToMark(q) == {i \in Official(q) : \E j \in Scored(q) : i <= j}
MarkedForecast == [q \in Questions |-> Cardinality(UpToMark(q))]

Board == INSTANCE Scoreboard
           WITH made <- Made, answer <- outcome, mark <- MarkedForecast,
                marks <- Cardinality(ScoredQuestions)

ImplementsScoreboard == Board!Spec

(***************************************************************************)
(* auto_resolve.py:73-74: when resolve_question raises, the answer was not *)
(* written and the next round tries again.                                 *)
(***************************************************************************)
RaisedIsRetried == [][OutcomeFails \/ CheckFails => Open(cur)]_vars

=============================================================================
