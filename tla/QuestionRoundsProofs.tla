------------------------- MODULE QuestionRoundsProofs -------------------------
(***************************************************************************)
(* For any set of questions, any deadlines and any length of the windows:  *)
(* the answers are final, only the last production forecast is scored,     *)
(* once, and the rounds implement the Scoreboard.                          *)
(***************************************************************************)
EXTENDS QuestionRoundsProps, TLAPS, FiniteSetTheorems, SequenceTheorems

(***************************************************************************)
(* What a program has checked still holds when it acts: nobody else writes *)
(* to the database in between. pm_resolve and resolve.py look at each      *)
(* question before they answer it, auto_resolve and the predict rounds     *)
(* have listed open questions when they started.                           *)
(***************************************************************************)
CheckedInv ==
  /\ prog \in Predicting => \A q \in todo : Open(q)
  /\ prog = "auto" => \A q \in todo : Open(q) \/ (q = cur /\ step # "outcome")
  /\ step = "outcome" => Open(cur)
  /\ step \in {"late", "score", "count"} => outcome[cur] = verdict
  /\ step \in {"late", "score"} => Scored(cur) = {}

(***************************************************************************)
(* Only an answered question has a score: that of its last forecast of a   *)
(* production arm, against the answer that stands.                         *)
(***************************************************************************)
Latest(q, i) == i \in Official(q) /\ \A j \in Official(q) : j <= i

BoardInv ==
  \A q \in Questions :
    /\ Official(q) # {} => \E i \in Official(q) : Latest(q, i)
    /\ \A i \in Scored(q) : Latest(q, i) /\ forecasts[q][i].brier = outcome[q]

(***************************************************************************)
(* The statistics are never ahead of the scores, not even while a call of  *)
(* resolve_question is about to count its own.                             *)
(***************************************************************************)
Pending == IF step = "count" /\ Scored(cur) # {} THEN 1 ELSE 0
TallyInv == tally + Pending <= Cardinality(ScoredQuestions)

IInv == TypeOK /\ CheckedInv /\ BoardInv /\ TallyInv

-----------------------------------------------------------------------------
USE DEF db, run, call, Predicting, Judging, Programs, Steps, Sources, NoSource,
        Answers, NoAnswer, Classes

(* What a step leaves alone when it neither forecasts, answers nor scores. *)
board == <<outcome, forecasts, tally>>

LEMMA ScoredFinite ==
  IsFiniteSet(ScoredQuestions) /\ Cardinality(ScoredQuestions) \in Nat
BY QuestionsAssumption, FS_Subset, FS_CardinalityType DEF ScoredQuestions

LEMMA QuietBoard ==
  ASSUME IInv, UNCHANGED board,
         step' = "count" => step = "count" /\ cur' = cur
  PROVE  BoardInv' /\ TallyInv'
<1>1. \A q : Scored(q)' = Scored(q)
  BY DEF board, Scored
<1>2. ScoredQuestions' = ScoredQuestions
  BY <1>1 DEF ScoredQuestions
<1>3. Pending' \in Nat /\ Pending \in Nat /\ Pending' <= Pending
  BY <1>1 DEF Pending, board, Scored
<1>4. tally' = tally /\ tally \in Nat
  BY DEF board, IInv, TypeOK
<1>5. TallyInv'
  BY <1>2, <1>3, <1>4, ScoredFinite DEF IInv, TallyInv
<1>6. BoardInv'
  BY <1>1 DEF board, IInv, BoardInv, Latest, Official
<1> QED BY <1>5, <1>6

-----------------------------------------------------------------------------
(* The clock, and the programs that start. *)
LEMMA StartInv ==
  ASSUME IInv,
         \/ Tick
         \/ \E p \in {"daily", "evolve"} : StartPredict(p)
         \/ \E q \in Questions : StartCli(q)
         \/ StartResolve \/ StartPm \/ StartAuto
         \/ \E rows \in SUBSET Questions : StartManual(rows)
  PROVE  TypeOK' /\ CheckedInv' /\ BoardInv' /\ TallyInv'
<1> USE DEF IInv, TypeOK, CheckedInv, Open, Scored
<1>1. CASE Tick
  <2>1. TypeOK' /\ CheckedInv'
    BY <1>1 DEF Tick
  <2> QED BY <1>1, <2>1, QuietBoard DEF Tick, board
<1>2. ASSUME NEW p \in Programs \ {"idle"}, NEW questions \in SUBSET Questions,
             Start(p, questions),
             p \in Predicting \cup {"auto"} => \A q \in questions : Open(q)
      PROVE  TypeOK' /\ CheckedInv' /\ BoardInv' /\ TallyInv'
  <2>1. TypeOK' /\ CheckedInv'
    BY <1>2 DEF Start
  <2> QED BY <1>2, <2>1, QuietBoard DEF Start, board
<1>3. CASE \E p \in {"daily", "evolve"} : StartPredict(p)
  BY <1>2, <1>3 DEF StartPredict
<1>4. CASE \E q \in Questions : StartCli(q)
  BY <1>2, <1>4 DEF StartCli
<1>5. CASE StartResolve
  BY <1>2, <1>5 DEF StartResolve
<1>6. CASE StartPm
  BY <1>2, <1>6 DEF StartPm
<1>7. CASE \E rows \in SUBSET Questions : StartManual(rows)
  BY <1>2, <1>7 DEF StartManual
<1>8. CASE StartAuto
  <2>1. TypeOK' /\ CheckedInv'
    BY <1>8 DEF StartAuto, DueAt
  <2> QED BY <1>8, <2>1, QuietBoard DEF StartAuto, board
<1> QED BY <1>1, <1>3, <1>4, <1>5, <1>6, <1>7, <1>8

(* The steps of a program outside resolve_question, other than a forecast. *)
LEMMA RoundInv ==
  ASSUME IInv,
         \/ \E q \in Questions : Degrade(q) \/ Skip(q)
         \/ \E q \in Questions, o \in Answers, src \in Sources : Answer(q, o, src)
         \/ EndPredict \/ EndJudging \/ Crash
  PROVE  TypeOK' /\ CheckedInv' /\ BoardInv' /\ TallyInv'
<1> USE DEF IInv, TypeOK, CheckedInv, Open, Scored
<1>1. ASSUME NEW q \in Questions, Degrade(q)
      PROVE  TypeOK' /\ CheckedInv' /\ BoardInv' /\ TallyInv'
  <2>1. TypeOK' /\ CheckedInv'
    BY <1>1 DEF Degrade, Done
  <2> QED BY <1>1, <2>1, QuietBoard DEF Degrade, board
<1>2. ASSUME NEW q \in Questions, Skip(q)
      PROVE  TypeOK' /\ CheckedInv' /\ BoardInv' /\ TallyInv'
  <2>1. TypeOK' /\ CheckedInv'
    BY <1>2 DEF Skip, Done
  <2> QED BY <1>2, <2>1, QuietBoard DEF Skip, board
<1>3. ASSUME NEW q \in Questions, NEW o \in Answers, NEW src \in Sources,
             Answer(q, o, src)
      PROVE  TypeOK' /\ CheckedInv' /\ BoardInv' /\ TallyInv'
  <2>1. Open(q)
    BY <1>3, NoQuestionAssumption DEF Answer, MayAnswer, PmAnswers, ManualAnswers
  <2>2. TypeOK'
    BY <1>3 DEF Answer
  <2>3. CheckedInv'
    BY <1>3, <2>1, NoQuestionAssumption DEF Answer
  <2> QED BY <1>3, <2>2, <2>3, QuietBoard DEF Answer, board
<1>4. CASE EndPredict
  <2>1. TypeOK' /\ CheckedInv'
    BY <1>4 DEF EndPredict, EndProgram, manual_candidates
  <2> QED BY <1>4, <2>1, QuietBoard DEF EndPredict, board
<1>5. CASE EndJudging
  <2>1. TypeOK' /\ CheckedInv'
    BY <1>5 DEF EndJudging, EndProgram, manual_candidates
  <2> QED BY <1>5, <2>1, QuietBoard DEF EndJudging, board
<1>6. CASE Crash
  <2>1. TypeOK' /\ CheckedInv'
    BY <1>6 DEF Crash, EndProgram, EndCall
  <2> QED BY <1>6, <2>1, QuietBoard DEF Crash, EndCall, board
<1> QED BY <1>1, <1>2, <1>3, <1>4, <1>5, <1>6

(* The steps of resolve_question that give up or go on without writing. *)
LEMMA ReturnInv ==
  ASSUME IInv, OutcomeFails \/ CheckFails \/ Archive \/ InGoodTime \/ ScoringFails
  PROVE  TypeOK' /\ CheckedInv' /\ BoardInv' /\ TallyInv'
<1> USE DEF IInv, TypeOK, CheckedInv, Open, Scored, Return, EndCall, Done
<1>1. CASE OutcomeFails
  <2>1. TypeOK' /\ CheckedInv'
    BY <1>1 DEF OutcomeFails
  <2> QED BY <1>1, <2>1, QuietBoard DEF OutcomeFails, board
<1>2. CASE CheckFails
  <2>1. TypeOK' /\ CheckedInv'
    BY <1>2 DEF CheckFails
  <2> QED BY <1>2, <2>1, QuietBoard DEF CheckFails, board
<1>3. CASE Archive
  <2>1. TypeOK' /\ CheckedInv'
    BY <1>3 DEF Archive
  <2> QED BY <1>3, <2>1, QuietBoard DEF Archive, board
<1>4. CASE InGoodTime
  <2>1. TypeOK' /\ CheckedInv'
    BY <1>4 DEF InGoodTime
  <2> QED BY <1>4, <2>1, QuietBoard DEF InGoodTime, board
<1>5. CASE ScoringFails
  <2>1. TypeOK' /\ CheckedInv'
    BY <1>5 DEF ScoringFails
  <2> QED BY <1>5, <2>1, QuietBoard DEF ScoringFails, board
<1> QED BY <1>1, <1>2, <1>3, <1>4, <1>5

-----------------------------------------------------------------------------
(* The rows of a forecast go after those that are there, and have no score. *)
LEMMA RowsAppended ==
  ASSUME IInv, NEW q \in Questions, NEW rows \in NewRows,
         forecasts' = [forecasts EXCEPT ![q] = @ \o rows]
  PROVE  /\ forecasts'[q] \in Seq(Forecast)
         /\ \A r \in Questions : r # q => forecasts'[r] = forecasts[r]
         /\ DOMAIN forecasts[q] \subseteq DOMAIN forecasts'[q]
         /\ \A i \in DOMAIN forecasts[q] : forecasts'[q][i] = forecasts[q][i]
         /\ \A i \in DOMAIN forecasts'[q] \ DOMAIN forecasts[q] :
              forecasts'[q][i].made = clock /\ forecasts'[q][i].brier = NoAnswer
         /\ Official(q)' = Official(q) \/ Official(q)' = Official(q) \cup {Len(forecasts[q]) + 1}
         /\ Len(forecasts[q]) \in Nat /\ DOMAIN forecasts[q] = 1 .. Len(forecasts[q])
<1> DEFINE n == Len(forecasts[q])
           f == forecasts[q] \o rows
<1>1. forecasts[q] \in Seq(Forecast) /\ clock \in Nat
  BY DEF IInv, TypeOK
<1>2. \A arm \in Arms : /\ Row(arm) \in Forecast /\ Row(arm).made = clock
                         /\ Row(arm).brier = NoAnswer /\ Row(arm).arm = arm
  BY <1>1 DEF Row, Forecast
<1>3. "production" \in Arms /\ "experiment" \in Arms
  BY DEF Arms
<1>4. /\ rows \in Seq(Forecast) /\ Len(rows) \in 0 .. 2
      /\ \A k \in 1 .. Len(rows) : \E arm \in Arms : rows[k] = Row(arm)
      /\ Len(rows) = 2 => rows[2] = Row("experiment")
  <2> HIDE DEF n, f
  <2> DEFINE a == Row("production")
             b == Row("experiment")
             Fits(s) == /\ s \in Seq(Forecast) /\ Len(s) \in 0 .. 2
                        /\ \A k \in 1 .. Len(s) : s[k] = a \/ s[k] = b
                        /\ Len(s) = 2 => s[2] = b
  <2>1. rows = <<>> \/ rows = <<a>> \/ rows = <<b>> \/ rows = <<a, b>>
    BY DEF NewRows
  <2>2. /\ a \in Forecast /\ (\E arm \in Arms : a = Row(arm))
        /\ b \in Forecast /\ (\E arm \in Arms : b = Row(arm))
    BY <1>2, <1>3
  <2>3. b = Row("experiment")
    OBVIOUS
  <2> HIDE DEF a, b
  <2>4. Fits(<<>>)
    OBVIOUS
  <2>5. Fits(<<a>>)
    BY <2>2
  <2>6. Fits(<<b>>)
    BY <2>2
  <2>7. Fits(<<a, b>>)
    BY <2>2
  <2>8. Fits(rows)
    <3> HIDE DEF Fits
    <3> QED BY <2>1, <2>4, <2>5, <2>6, <2>7
  <2> QED BY <2>2, <2>3, <2>8
<1>5. /\ forecasts'[q] = f
      /\ \A r \in Questions : r # q => forecasts'[r] = forecasts[r]
  BY DEF IInv, TypeOK
<1>6. /\ f \in Seq(Forecast) /\ n \in Nat /\ DOMAIN forecasts[q] = 1 .. n
      /\ Len(f) = n + Len(rows) /\ DOMAIN f = 1 .. n + Len(rows)
      /\ \A i \in 1 .. n + Len(rows) :
           f[i] = IF i <= n THEN forecasts[q][i] ELSE rows[i - n]
  BY <1>1, <1>4, ConcatProperties, LenProperties
<1> HIDE DEF n, f
<1>7. ASSUME NEW i \in DOMAIN f, i \notin 1 .. n
      PROVE  \E arm \in Arms : f[i] = Row(arm)
  <2>1. i \in n + 1 .. n + Len(rows) /\ i - n \in 1 .. Len(rows)
    BY <1>4, <1>6, <1>7
  <2>2. f[i] = rows[i - n]
    BY <1>6, <2>1
  <2> QED BY <1>4, <2>1, <2>2
<1>8. \A i \in DOMAIN f \ (1 .. n) : f[i].made = clock /\ f[i].brier = NoAnswer
  BY <1>2, <1>7
<1>9. \A i \in 1 .. n : i \in DOMAIN f /\ f[i] = forecasts[q][i]
  BY <1>4, <1>6
<1>10. ASSUME NEW i \in DOMAIN f, i \notin 1 .. n, f[i].arm = "production"
       PROVE  i = n + 1
  <2>1. i \in 1 .. n + Len(rows) /\ Len(rows) \in {0, 1, 2} /\ n \in Nat
    BY <1>4, <1>6
  <2>2. i = n + 1 \/ (i = n + 2 /\ Len(rows) = 2)
    <3>1. i \notin 1 .. n
      BY <1>10
    <3> DEFINE l == Len(rows)
    <3>2. i \in 1 .. n + l /\ l \in {0, 1, 2}
      BY <2>1
    <3> HIDE DEF l
    <3>3. i = n + 1 \/ (i = n + 2 /\ l = 2)
      BY <2>1, <3>1, <3>2
    <3> QED BY <3>3 DEF l
  <2>3. ASSUME i = n + 2, Len(rows) = 2 PROVE FALSE
    <3>1. f[i] = rows[2]
      BY <1>6, <2>1, <2>3
    <3>2. f[i].arm = "experiment"
      BY <1>2, <1>3, <1>4, <2>3, <3>1
    <3> QED BY <1>10, <3>2
  <2> QED BY <2>2, <2>3
<1>11. Official(q)' = {i \in DOMAIN f : f[i].arm = "production"}
  BY <1>5 DEF Official
<1>12. Official(q) = {i \in 1 .. n : forecasts[q][i].arm = "production"}
  BY <1>6 DEF Official
<1>13. Official(q)' = Official(q) \/ Official(q)' = Official(q) \cup {n + 1}
  BY <1>9, <1>10, <1>11, <1>12
<1> QED BY <1>5, <1>6, <1>8, <1>9, <1>13 DEF n

(* New rows on an open question: none of its rows is scored. *)
LEMMA PredictInv ==
  ASSUME IInv, NEW q \in Questions, Predict(q)
  PROVE  /\ TypeOK' /\ CheckedInv' /\ BoardInv' /\ TallyInv'
         /\ \A r \in Questions : Scored(r)' = Scored(r)
         /\ \A r \in Questions : r # q => forecasts'[r] = forecasts[r]
         /\ \A i \in DOMAIN forecasts'[q] :
              \/ i \in DOMAIN forecasts[q] /\ forecasts'[q][i] = forecasts[q][i]
              \/ forecasts'[q][i].made = clock
         /\ \/ Official(q)' = Official(q)
            \/ \E i : i \notin Official(q) /\ Official(q)' = Official(q) \cup {i}
<1> USE DEF IInv, TypeOK, CheckedInv
<1>1. Open(q) /\ step = "none" /\ step' = "none"
  BY DEF Predict
<1>2. PICK rows \in NewRows : forecasts' = [forecasts EXCEPT ![q] = @ \o rows]
  BY DEF Predict
<1> DEFINE n == Len(forecasts[q])
<1>3. /\ forecasts'[q] \in Seq(Forecast)
      /\ \A r \in Questions : r # q => forecasts'[r] = forecasts[r]
      /\ DOMAIN forecasts[q] \subseteq DOMAIN forecasts'[q]
      /\ \A i \in DOMAIN forecasts[q] : forecasts'[q][i] = forecasts[q][i]
      /\ \A i \in DOMAIN forecasts'[q] \ DOMAIN forecasts[q] :
           forecasts'[q][i].made = clock /\ forecasts'[q][i].brier = NoAnswer
      /\ Official(q)' = Official(q) \/ Official(q)' = Official(q) \cup {n + 1}
      /\ n \in Nat /\ DOMAIN forecasts[q] = 1 .. n
  BY <1>2, RowsAppended
<1> HIDE DEF n
<1>4. Scored(q)' = Scored(q)
  BY <1>3 DEF Scored
<1>5. \A r \in Questions : Scored(r)' = Scored(r)
  <2>1. \A r \in Questions : r # q => Scored(r)' = Scored(r)
    BY <1>3 DEF Scored
  <2> QED BY <1>4, <2>1
<1>6. Scored(q) = {}
  BY <1>1 DEF Open, Scored, BoardInv
<1>7. TypeOK'
  BY <1>2, <1>3 DEF Predict, Done
<1>8. CheckedInv'
  BY <1>1 DEF Predict, Done, Open
<1>9. Official(q) \subseteq 1 .. n
  BY <1>3 DEF Official
<1>10. BoardInv'
  <2>1. Official(q)' # {} => \E i \in Official(q)' : Latest(q, i)'
    <3>1. CASE Official(q)' = Official(q)
      <4>1. Official(q) # {} => \E i \in Official(q) : Latest(q, i)
        BY DEF BoardInv
      <4> QED BY <3>1, <4>1 DEF Latest
    <3>2. CASE Official(q)' = Official(q) \cup {n + 1}
      <4>1. n + 1 \in Official(q)' /\ \A j \in Official(q)' : j <= n + 1
        BY <1>3, <1>9, <3>2
      <4> QED BY <4>1 DEF Latest
    <3> QED BY <1>3, <3>1, <3>2
  <2>2. \A r \in Questions : r # q => Official(r)' = Official(r)
    BY <1>3 DEF Official
  <2>3. outcome' = outcome
    BY DEF Predict
  <2>4. ASSUME NEW r \in Questions, r # q
        PROVE  /\ Official(r)' # {} => \E i \in Official(r)' : Latest(r, i)'
               /\ \A i \in Scored(r)' : Latest(r, i)' /\ forecasts'[r][i].brier = outcome'[r]
    <3>1. /\ Official(r) # {} => \E i \in Official(r) : Latest(r, i)
          /\ \A i \in Scored(r) : Latest(r, i) /\ forecasts[r][i].brier = outcome[r]
      BY DEF BoardInv
    <3>2. forecasts'[r] = forecasts[r] /\ Scored(r)' = Scored(r) /\ Official(r)' = Official(r)
      BY <1>3, <1>5, <2>2, <2>4
    <3> QED BY <2>3, <3>1, <3>2 DEF Latest
  <2>5. Scored(q)' = {}
    BY <1>4, <1>6
  <2> QED BY <2>1, <2>4, <2>5 DEF BoardInv
<1>11. TallyInv'
  <2>1. ScoredQuestions' = ScoredQuestions
    BY <1>5 DEF ScoredQuestions
  <2>2. Pending = 0 /\ Pending' = 0 /\ tally' = tally
    BY <1>1 DEF Pending, Predict
  <2> QED BY <2>1, <2>2 DEF TallyInv
<1>12. n + 1 \notin Official(q)
  BY <1>3, <1>9
<1> QED BY <1>3, <1>5, <1>7, <1>8, <1>10, <1>11, <1>12

(* The answer is written once, on an open question without a score. *)
LEMMA WriteOutcomeInv ==
  ASSUME IInv, WriteOutcome
  PROVE  TypeOK' /\ CheckedInv' /\ BoardInv' /\ TallyInv'
<1> USE DEF IInv, TypeOK, CheckedInv, BoardInv, WriteOutcome
<1>1. \A r : Scored(r)' = Scored(r) /\ Official(r)' = Official(r)
  BY DEF Scored, Official
<1>2. cur \in Questions /\ Open(cur) /\ Scored(cur) = {}
  BY DEF Open, Scored
<1>3. TypeOK'
  OBVIOUS
<1>4. CheckedInv'
  BY <1>1, <1>2 DEF Open
<1>5. BoardInv'
  BY <1>1, <1>2 DEF Latest
<1>6. TallyInv'
  BY <1>1 DEF TallyInv, Pending, ScoredQuestions
<1> QED BY <1>3, <1>4, <1>5, <1>6

(* The newest row without a score is the last of the production arms, for
   none has a score yet. *)
LEMMA NewestIsLatest ==
  ASSUME IInv, step = "score", Unscored(cur) # {}
  PROVE  Unscored(cur) = Official(cur) /\ Latest(cur, Newest(Unscored(cur)))
<1>1. cur \in Questions /\ Scored(cur) = {}
  BY DEF IInv, TypeOK, CheckedInv
<1>2. Unscored(cur) = Official(cur)
  BY <1>1 DEF Unscored
<1>3. \E i \in Official(cur) : \A j \in Official(cur) : j <= i
  BY <1>1, <1>2 DEF IInv, BoardInv, Latest
<1> QED BY <1>2, <1>3 DEF Newest, Latest

(* Scoring marks the last production forecast, if there is one, and so one
   more question. *)
LEMMA ScoreInv ==
  ASSUME IInv, Score
  PROVE  /\ TypeOK' /\ CheckedInv' /\ BoardInv' /\ TallyInv'
         /\ Official(cur) = {} => Scored(cur)' = {} /\ forecasts' = forecasts
         /\ Official(cur) # {} => \E k : Latest(cur, k) /\ Scored(cur)' = {k}
         /\ \A r \in Questions : /\ r # cur => Scored(r)' = Scored(r)
                                /\ Official(r)' = Official(r)
                                /\ DOMAIN forecasts'[r] = DOMAIN forecasts[r]
                                /\ \A i \in DOMAIN forecasts[r] :
                                     forecasts'[r][i].made = forecasts[r][i].made
<1> USE DEF IInv, TypeOK, CheckedInv, Score
<1>1. /\ cur \in Questions /\ verdict \in Answers /\ outcome[cur] = verdict
      /\ Scored(cur) = {} /\ forecasts[cur] \in Seq(Forecast)
  OBVIOUS
<1>2. cur' = cur /\ outcome' = outcome /\ prog' = prog /\ todo' = todo /\ tally' = tally
  OBVIOUS
<1>3. Unscored(cur) = Official(cur)
  BY <1>1 DEF Unscored
<1>4. CASE Official(cur) = {}
  <2>1. forecasts' = forecasts /\ \A r : Scored(r)' = Scored(r) /\ Official(r)' = Official(r)
    BY <1>3, <1>4 DEF Scored, Official
  <2>2. TypeOK' /\ CheckedInv'
    BY <1>1, <1>2, <2>1 DEF Open
  <2>3. BoardInv'
    BY <1>2, <2>1 DEF BoardInv, Latest
  <2>4. ScoredQuestions' = ScoredQuestions /\ Pending' = 0 /\ Pending = 0
    BY <1>1, <1>2, <2>1 DEF ScoredQuestions, Pending
  <2> QED BY <1>1, <1>2, <1>4, <2>1, <2>2, <2>3, <2>4 DEF TallyInv
<1>5. CASE Official(cur) # {}
  <2> DEFINE k == Newest(Unscored(cur))
             n == Len(forecasts[cur])
             row == [forecasts[cur][k] EXCEPT !.brier = verdict]
  <2>1. Unscored(cur) # {} /\ Latest(cur, k)
    BY <1>3, <1>5, NewestIsLatest
  <2>2. n \in Nat /\ DOMAIN forecasts[cur] = 1 .. n
    BY <1>1, LenProperties
  <2>3. k \in 1 .. n
    BY <2>1, <2>2 DEF Latest, Official
  <2>4. forecasts' = [forecasts EXCEPT ![cur][k].brier = verdict]
    BY <2>1
  <2>5. forecasts[cur][k] \in Forecast
    BY <1>1, <2>3, ElementOfSeq
  <2>6. /\ row \in Forecast /\ row.brier = verdict
        /\ row.arm = forecasts[cur][k].arm /\ row.made = forecasts[cur][k].made
    BY <1>1, <2>5 DEF Forecast
  <2>7. /\ forecasts'[cur] = [forecasts[cur] EXCEPT ![k] = row]
        /\ \A r \in Questions : r # cur => forecasts'[r] = forecasts[r]
        /\ DOMAIN forecasts' = Questions /\ forecasts' = [r \in Questions |-> forecasts'[r]]
    BY <1>1, <2>4
  <2> HIDE DEF k, row
  <2>8. /\ forecasts'[cur] \in Seq(Forecast) /\ Len(forecasts'[cur]) = n
        /\ \A j \in 1 .. n : forecasts'[cur][j] = IF j = k THEN row ELSE forecasts[cur][j]
    <3>1. k \in 1 .. Len(forecasts[cur])
      BY <2>3
    <3>2. forecasts[cur] \in Seq(Forecast) /\ row \in Forecast
      BY <1>1, <2>6
    <3>3. LET g == [forecasts[cur] EXCEPT ![k] = row]
          IN  /\ g \in Seq(Forecast) /\ Len(g) = Len(forecasts[cur])
              /\ \A j \in 1 .. Len(forecasts[cur]) :
                   g[j] = IF j = k THEN row ELSE forecasts[cur][j]
      BY <3>1, <3>2, ExceptSeq
    <3> QED BY <2>7, <3>3
  <2>9. DOMAIN forecasts'[cur] = 1 .. n
    BY <2>8, LenProperties
  <2>10. Scored(cur)' = {k}
    BY <1>1, <1>2, <2>2, <2>3, <2>6, <2>8, <2>9 DEF Scored
  <2>11. \A r \in Questions : r # cur => Scored(r)' = Scored(r) /\ Official(r)' = Official(r)
    BY <2>7 DEF Scored, Official
  <2>12. Official(cur)' = Official(cur)
    BY <1>2, <2>2, <2>3, <2>6, <2>8, <2>9 DEF Official
  <2>13. \A r \in Questions : /\ DOMAIN forecasts'[r] = DOMAIN forecasts[r]
                             /\ \A i \in DOMAIN forecasts[r] :
                                  forecasts'[r][i].made = forecasts[r][i].made
    BY <2>2, <2>6, <2>7, <2>8, <2>9
  <2>14. forecasts' \in [Questions -> Seq(Forecast)]
    BY <2>7, <2>8
  <2>15. TypeOK'
    BY <2>14
  <2>16. CheckedInv'
    BY <1>1, <1>2 DEF Open
  <2>17. BoardInv'
    <3>1. \A r \in Questions : \A i : Latest(r, i)' <=> Latest(r, i)
      BY <2>11, <2>12 DEF Latest
    <3>2. ASSUME NEW r \in Questions, Official(r)' # {}
          PROVE  \E i \in Official(r)' : Latest(r, i)'
      <4>1. Official(r)' = Official(r)
        BY <2>11, <2>12
      <4>2. \E i \in Official(r) : Latest(r, i)
        BY <3>2, <4>1 DEF BoardInv
      <4> QED BY <3>1, <4>1, <4>2
    <3>3. ASSUME NEW r \in Questions, NEW i \in Scored(r)'
          PROVE  Latest(r, i)' /\ forecasts'[r][i].brier = outcome'[r]
      <4>1. CASE r = cur
        BY <1>1, <1>2, <2>1, <2>3, <2>6, <2>8, <2>10, <3>1, <3>3, <4>1
      <4>2. CASE r # cur
        BY <1>2, <2>7, <2>11, <3>1, <3>3, <4>2 DEF BoardInv
      <4> QED BY <4>1, <4>2
    <3> QED BY <3>2, <3>3 DEF BoardInv
  <2>18. ScoredQuestions' = ScoredQuestions \cup {cur} /\ cur \notin ScoredQuestions
    BY <1>1, <2>10, <2>11 DEF ScoredQuestions
  <2>19. Cardinality(ScoredQuestions') = Cardinality(ScoredQuestions) + 1
    BY <2>18, ScoredFinite, FS_AddElement
  <2>20. Pending = 0 /\ Pending' \in {0, 1}
    BY DEF Pending
  <2>21. TallyInv'
    BY <1>2, <2>19, <2>20, ScoredFinite DEF TallyInv
  <2> QED BY <1>5, <2>1, <2>10, <2>11, <2>12, <2>13, <2>15, <2>16, <2>17, <2>21
<1> QED BY <1>4, <1>5

LEMMA ScoredAlone ==
  ASSUME IInv, NEW q \in Questions, NEW i \in Scored(q)
  PROVE  Scored(q) = {i} /\ i \in Nat
<1>1. forecasts[q] \in Seq(Forecast)
  BY DEF IInv, TypeOK
<1>2. \A j \in Scored(q) : j \in Nat
  BY <1>1, LenProperties DEF Scored
<1>3. \A j, k \in Scored(q) : j <= k
  BY DEF IInv, BoardInv, Latest
<1> QED BY <1>2, <1>3

(* Counting pays off what the scores owe to the statistics. *)
LEMMA CountInv ==
  ASSUME IInv, Count
  PROVE  /\ TypeOK' /\ CheckedInv' /\ BoardInv' /\ TallyInv'
         /\ tally' = tally + Pending
<1> USE DEF IInv, TypeOK, CheckedInv, Count, Return, EndCall, Done
<1>1. \A r : Scored(r)' = Scored(r) /\ Official(r)' = Official(r)
  BY DEF Scored, Official
<1>2. Cardinality(Scored(cur)) = Pending
  <2>1. CASE Scored(cur) = {}
    BY <2>1, FS_EmptySet DEF Pending
  <2>2. CASE Scored(cur) # {}
    <3>1. PICK i \in Scored(cur) : TRUE
      BY <2>2
    <3>2. Scored(cur) = {i}
      BY ScoredAlone
    <3> QED BY <2>2, <3>2, FS_Singleton DEF Pending
  <2> QED BY <2>1, <2>2
<1>3. tally' = tally + Pending /\ Pending \in Nat
  BY <1>2 DEF Pending
<1>4. TypeOK'
  BY <1>3
<1>5. CheckedInv'
  BY <1>1 DEF Open
<1>6. BoardInv'
  BY <1>1 DEF BoardInv, Latest
<1>7. TallyInv'
  <2>1. ScoredQuestions' = ScoredQuestions /\ Pending' = 0
    BY <1>1 DEF ScoredQuestions, Pending
  <2> QED BY <1>3, <2>1, ScoredFinite DEF TallyInv
<1> QED BY <1>3, <1>4, <1>5, <1>6, <1>7

-----------------------------------------------------------------------------
LEMMA InitIInv == Init => IInv
<1> SUFFICES ASSUME Init PROVE IInv
  OBVIOUS
<1>1. TypeOK
  BY KindAssumption, EmptySeq DEF Init, TypeOK
<1>2. \A q \in Questions : Scored(q) = {} /\ Official(q) = {}
  BY EmptySeq, LenProperties DEF Init, Scored, Official
<1>3. CheckedInv /\ BoardInv
  BY <1>2 DEF Init, CheckedInv, BoardInv
<1>4. TallyInv
  BY ScoredFinite DEF Init, TallyInv, Pending
<1> QED BY <1>1, <1>3, <1>4 DEF IInv

LEMMA NextIInv == IInv /\ [Next]_vars => IInv'
<1> SUFFICES ASSUME IInv, [Next]_vars
             PROVE  TypeOK' /\ CheckedInv' /\ BoardInv' /\ TallyInv'
  BY DEF IInv
<1>1. CASE UNCHANGED vars
  <2>1. TypeOK' /\ CheckedInv'
    BY <1>1 DEF vars, IInv, TypeOK, CheckedInv, Open, Scored
  <2> QED BY <1>1, <2>1, QuietBoard DEF vars, board
<1>2. CASE resolve_question
  BY <1>2, ReturnInv, WriteOutcomeInv, ScoreInv, CountInv DEF resolve_question
<1>3. CASE Proceed
  BY <1>2, <1>3, StartInv, RoundInv, PredictInv DEF Proceed
<1> QED BY <1>1, <1>3, StartInv, RoundInv DEF Next

LEMMA Invariance == Spec => []IInv
BY InitIInv, NextIInv, PTL DEF Spec

(* The types of the question database and of the programs at work on it. *)
THEOREM Typing == Spec => []TypeOK
BY Invariance, PTL DEF IInv

(* A question has at most one score, against the answer that stands. *)
THEOREM OneScore == Spec => []ScoredOnce
<1>1. IInv => ScoredOnce
  <2> SUFFICES ASSUME IInv, NEW q \in Questions, NEW i \in Scored(q), NEW j \in Scored(q)
               PROVE  i = j /\ forecasts[q][i].brier = outcome[q]
    BY DEF ScoredOnce
  <2> QED BY ScoredAlone DEF IInv, BoardInv
<1> QED BY <1>1, Invariance, PTL

(* It is the last forecast of a production arm that is scored. *)
THEOREM LastScored == Spec => []LastForecastScored
<1>1. IInv => LastForecastScored
  BY DEF IInv, BoardInv, LastForecastScored, Latest
<1> QED BY <1>1, Invariance, PTL

-----------------------------------------------------------------------------
answers == <<outcome, resolvedAt, source>>

(* Every step but the UPDATE of the answer leaves all answers alone. *)
LEMMA AnswersKept ==
  ASSUME Next, ~WriteOutcome
  PROVE  UNCHANGED answers
<1>1. CASE resolve_question
  BY <1>1 DEF resolve_question, answers, OutcomeFails, CheckFails, Archive, InGoodTime,
              Score, Count, ScoringFails
<1>2. CASE Proceed
  BY <1>1, <1>2 DEF Proceed, answers, Predict, Degrade, Skip, Answer, StartAuto,
                    EndPredict, EndJudging
<1>3. CASE Tick \/ StartResolve \/ StartPm \/ Crash
  BY <1>3 DEF answers, Tick, StartResolve, StartPm, Start, Crash
<1>4. CASE \/ \E p \in {"daily", "evolve"} : StartPredict(p)
           \/ \E q \in Questions : StartCli(q)
           \/ \E rows \in SUBSET Questions : StartManual(rows)
  BY <1>4 DEF answers, StartPredict, StartCli, StartManual, Start
<1> QED BY <1>2, <1>3, <1>4 DEF Next

(* No program ever changes an answer, when it was given or by whom, although
   resolve_question itself overwrites all three. *)
THEOREM AnswersFinal == Spec => AnswerIsFinal
<1> DEFINE Final ==
      \A q \in Questions :
        ~Open(q) => <<outcome[q], resolvedAt[q], source[q]>>' =
                    <<outcome[q], resolvedAt[q], source[q]>>
<1>1. IInv /\ [Next]_vars => [Final]_vars
  <2> SUFFICES ASSUME IInv, Next PROVE Final
    OBVIOUS
  <2>1. CASE WriteOutcome
    BY <2>1 DEF WriteOutcome, IInv, TypeOK, CheckedInv, Open
  <2>2. CASE ~WriteOutcome
    BY <2>2, AnswersKept DEF answers
  <2> QED BY <2>1, <2>2
<1>2. Spec => [][Final]_vars
  BY <1>1, Invariance, PTL DEF Spec
<1> QED BY <1>2 DEF AnswerIsFinal

-----------------------------------------------------------------------------
(* The refinement: which step of the Scoreboard each step of the rounds is. *)

MarkIsMade ==
  \A q \in Questions :
    /\ MarkedForecast[q] = IF Scored(q) = {} THEN 0 ELSE Made[q]
    /\ Official(q) # {} => Made[q] # 0

LEMMA OfficialFinite ==
  ASSUME IInv, NEW q \in Questions
  PROVE  IsFiniteSet(Official(q)) /\ Cardinality(Official(q)) \in Nat
<1>1. Official(q) \subseteq 1 .. Len(forecasts[q]) /\ Len(forecasts[q]) \in Nat
  BY LenProperties DEF IInv, TypeOK, Official
<1>2. IsFiniteSet(1 .. Len(forecasts[q]))
  BY <1>1, FS_Interval
<1> QED BY <1>1, <1>2, FS_Subset, FS_CardinalityType

LEMMA MarkValue == IInv => MarkIsMade
<1> SUFFICES ASSUME IInv, NEW q \in Questions
             PROVE  /\ MarkedForecast[q] = IF Scored(q) = {} THEN 0 ELSE Made[q]
                    /\ Official(q) # {} => Made[q] # 0
  BY DEF MarkIsMade
<1>1. Made[q] = Cardinality(Official(q)) /\ MarkedForecast[q] = Cardinality(UpToMark(q))
  BY DEF Made, MarkedForecast
<1>2. Scored(q) = {} => UpToMark(q) = {}
  BY DEF UpToMark
<1>3. Scored(q) # {} => UpToMark(q) = Official(q)
  BY DEF IInv, BoardInv, Latest, UpToMark
<1>4. Official(q) # {} => Cardinality(Official(q)) # 0
  BY OfficialFinite, FS_EmptySet
<1> QED BY <1>1, <1>2, <1>3, <1>4, FS_EmptySet

LEMMA MarksKept ==
  ASSUME IInv, IInv',
         \A q \in Questions :
           Scored(q)' = Scored(q) /\ (Scored(q) # {} => UNCHANGED Official(q))
  PROVE  UNCHANGED <<MarkedForecast, Cardinality(ScoredQuestions)>>
<1>1. MarkIsMade /\ MarkIsMade'
  BY MarkValue, PTL
<1>2. \A q \in Questions : Scored(q) # {} => Made'[q] = Made[q]
  BY DEF Made
<1>3. \A q \in Questions : MarkedForecast'[q] = MarkedForecast[q]
  BY <1>1, <1>2 DEF MarkIsMade
<1>4. /\ MarkedForecast = [q \in Questions |-> MarkedForecast[q]]
      /\ MarkedForecast' = [q \in Questions |-> MarkedForecast'[q]]
  BY DEF MarkedForecast
<1>5. ScoredQuestions' = ScoredQuestions
  BY DEF ScoredQuestions
<1> QED BY <1>3, <1>4, <1>5

(* A step that changes neither an answer nor a forecast is a stutter. *)
LEMMA Stutters ==
  ASSUME UNCHANGED board PROVE UNCHANGED Board!vars
<1>1. \A q : Scored(q)' = Scored(q) /\ Official(q)' = Official(q)
  BY DEF board, Scored, Official
<1>2. Made' = Made /\ MarkedForecast' = MarkedForecast
  BY <1>1 DEF Made, MarkedForecast, UpToMark
<1>3. ScoredQuestions' = ScoredQuestions
  BY <1>1 DEF ScoredQuestions
<1> QED BY <1>2, <1>3 DEF board, Board!vars

LEMMA PredictRefines ==
  ASSUME IInv, NEW q \in Questions, Predict(q)
  PROVE  Board!Forecast(q) \/ UNCHANGED Board!vars
<1>1. IInv' /\ Open(q)
  BY PredictInv DEF IInv, Predict, CheckedInv
<1>2. /\ \A r \in Questions : Scored(r)' = Scored(r)
      /\ \A r \in Questions : r # q => Official(r)' = Official(r)
  BY PredictInv DEF Official
<1>3. Scored(q) = {}
  BY <1>1 DEF Open, IInv, TypeOK, BoardInv, Scored
<1>4. UNCHANGED <<MarkedForecast, Cardinality(ScoredQuestions)>>
  BY <1>1, <1>2, <1>3, MarksKept
<1>5. outcome' = outcome /\ tally' = tally
  BY DEF Predict
<1>6. CASE Official(q)' = Official(q)
  <2>1. Made' = Made
    BY <1>2, <1>6 DEF Made
  <2> QED BY <1>4, <1>5, <2>1 DEF Board!vars
<1>7. ASSUME NEW i, i \notin Official(q), Official(q)' = Official(q) \cup {i}
      PROVE  Board!Forecast(q)
  <2>1. Cardinality(Official(q)') = Cardinality(Official(q)) + 1
    BY <1>7, OfficialFinite, FS_AddElement
  <2>2. Made' = [Made EXCEPT ![q] = @ + 1]
    BY <1>2, <2>1 DEF Made
  <2> QED BY <1>1, <1>4, <1>5, <2>2 DEF Board!Forecast, Open
<1> QED BY <1>6, <1>7, PredictInv

LEMMA WriteOutcomeRefines ==
  ASSUME IInv, WriteOutcome
  PROVE  \E q \in Questions, a \in Answers : Board!Settle(q, a)
<1>1. cur \in Questions /\ verdict \in Answers /\ outcome[cur] = NoAnswer
  BY DEF WriteOutcome, IInv, TypeOK, CheckedInv, Open
<1>2. Made' = Made /\ MarkedForecast' = MarkedForecast
  BY DEF WriteOutcome, Made, MarkedForecast, UpToMark, Scored, Official
<1>3. ScoredQuestions' = ScoredQuestions
  BY DEF WriteOutcome, ScoredQuestions, Scored
<1>4. Board!Settle(cur, verdict)
  BY <1>1, <1>2, <1>3 DEF WriteOutcome, Board!Settle
<1> QED BY <1>1, <1>4

LEMMA ScoreRefines ==
  ASSUME IInv, Score
  PROVE  (\E q \in Questions : Board!Mark(q)) \/ UNCHANGED Board!vars
<1>1. cur \in Questions /\ outcome[cur] # NoAnswer /\ Scored(cur) = {}
  BY DEF Score, IInv, TypeOK, CheckedInv
<1>2. IInv' /\ \A q \in Questions : Official(q)' = Official(q)
  BY ScoreInv DEF IInv
<1>3. Made' = Made /\ outcome' = outcome /\ tally' = tally /\ cur' = cur
  BY <1>2 DEF Made, Score
<1>4. CASE Official(cur) = {}
  <2>1. \A q \in Questions : Scored(q)' = Scored(q)
    BY <1>1, <1>3, <1>4, ScoreInv
  <2>2. UNCHANGED <<MarkedForecast, Cardinality(ScoredQuestions)>>
    BY <1>2, <2>1, MarksKept
  <2> QED BY <1>3, <2>2 DEF Board!vars
<1>5. CASE Official(cur) # {}
  <2>1. PICK k : Scored(cur)' = {k}
    BY <1>5, ScoreInv
  <2>2. \A q \in Questions : q # cur => Scored(q)' = Scored(q)
    BY ScoreInv
  <2>3. MarkIsMade /\ MarkIsMade'
    BY <1>2, MarkValue, PTL
  <2>4. MarkedForecast[cur] = 0 /\ MarkedForecast'[cur] = Made[cur] /\ Made[cur] # 0
    BY <1>1, <1>3, <1>5, <2>1, <2>3 DEF MarkIsMade
  <2>5. \A q \in Questions : q # cur => MarkedForecast'[q] = MarkedForecast[q]
    BY <1>3, <2>2, <2>3 DEF MarkIsMade
  <2>6. /\ MarkedForecast = [q \in Questions |-> MarkedForecast[q]]
        /\ MarkedForecast' = [q \in Questions |-> MarkedForecast'[q]]
    BY DEF MarkedForecast
  <2>7. MarkedForecast' = [MarkedForecast EXCEPT ![cur] = Made[cur]]
    BY <1>1, <2>4, <2>5, <2>6
  <2>8. ScoredQuestions' = ScoredQuestions \cup {cur} /\ cur \notin ScoredQuestions
    BY <1>1, <1>3, <2>1, <2>2 DEF ScoredQuestions
  <2>9. Cardinality(ScoredQuestions)' = Cardinality(ScoredQuestions) + 1
    BY <2>8, ScoredFinite, FS_AddElement
  <2>10. Board!Mark(cur)
    BY <1>1, <1>3, <2>4, <2>7, <2>9 DEF Board!Mark
  <2> QED BY <1>1, <2>10
<1> QED BY <1>4, <1>5

LEMMA CountRefines ==
  ASSUME IInv, Count
  PROVE  Board!Count \/ UNCHANGED Board!vars
<1>1. /\ Made' = Made /\ MarkedForecast' = MarkedForecast /\ outcome' = outcome
      /\ ScoredQuestions' = ScoredQuestions
  BY DEF Count, Made, MarkedForecast, UpToMark, ScoredQuestions, Scored, Official
<1>2. tally' = tally + Pending /\ tally \in Nat
  BY CountInv DEF IInv, TypeOK
<1>3. CASE Pending = 0
  BY <1>1, <1>2, <1>3 DEF Board!vars
<1>4. CASE Pending = 1
  <2>1. tally < Cardinality(ScoredQuestions)
    BY <1>2, <1>4, ScoredFinite DEF IInv, TallyInv
  <2> QED BY <1>1, <1>2, <1>4, <2>1 DEF Board!Count
<1>5. Pending \in {0, 1}
  BY DEF Pending
<1> QED BY <1>3, <1>4, <1>5

LEMMA QuietRefines ==
  ASSUME Next, ~WriteOutcome, ~Score, ~Count, \A q \in Questions : ~Predict(q)
  PROVE  UNCHANGED board
<1>1. CASE resolve_question
  BY <1>1 DEF resolve_question, board, OutcomeFails, CheckFails, Archive, InGoodTime,
              ScoringFails
<1>2. CASE Proceed
  BY <1>1, <1>2 DEF Proceed, board, Degrade, Skip, Answer, StartAuto, EndPredict, EndJudging
<1>3. CASE Tick \/ StartResolve \/ StartPm \/ Crash
  BY <1>3 DEF board, Tick, StartResolve, StartPm, Start, Crash
<1>4. CASE \/ \E p \in {"daily", "evolve"} : StartPredict(p)
           \/ \E q \in Questions : StartCli(q)
           \/ \E rows \in SUBSET Questions : StartManual(rows)
  BY <1>4 DEF board, StartPredict, StartCli, StartManual, Start
<1> QED BY <1>2, <1>3, <1>4 DEF Next

(* The rounds, with every crash, failure and interleaving, implement the
   Scoreboard: at most one mark per question, on its last forecast, and
   statistics that are never ahead of the marks. *)
THEOREM RoundsImplementScoreboard == Spec => ImplementsScoreboard
<1>1. Init => Board!Init
  <2> SUFFICES ASSUME Init PROVE Board!Init
    OBVIOUS
  <2>1. \A q \in Questions : Official(q) = {} /\ Scored(q) = {}
    BY EmptySeq, LenProperties DEF Init, Scored, Official
  <2>2. ScoredQuestions = {} /\ \A q \in Questions : UpToMark(q) = {}
    BY <2>1 DEF ScoredQuestions, UpToMark
  <2> QED BY <2>1, <2>2, FS_EmptySet DEF Init, Board!Init, Made, MarkedForecast
<1>2. IInv /\ [Next]_vars => [Board!Next]_(Board!vars)
  <2> SUFFICES ASSUME IInv, [Next]_vars PROVE [Board!Next]_(Board!vars)
    OBVIOUS
  <2>1. CASE UNCHANGED vars
    BY <2>1, Stutters DEF vars, board
  <2>2. CASE \E q \in Questions : Predict(q)
    BY <2>2, PredictRefines DEF Board!Next
  <2>3. CASE WriteOutcome
    BY <2>3, WriteOutcomeRefines DEF Board!Next
  <2>4. CASE Score
    BY <2>4, ScoreRefines DEF Board!Next
  <2>5. CASE Count
    BY <2>5, CountRefines DEF Board!Next
  <2>6. CASE Next /\ ~WriteOutcome /\ ~Score /\ ~Count /\ \A q \in Questions : ~Predict(q)
    BY <2>6, QuietRefines, Stutters
  <2> QED BY <2>1, <2>2, <2>3, <2>4, <2>5, <2>6
<1> QED BY <1>1, <1>2, Invariance, PTL DEF Spec, ImplementsScoreboard, Board!Spec

-----------------------------------------------------------------------------
(***************************************************************************)
(* What the rounds keep of the times of a question, for any deadlines and  *)
(* windows: nobody answers before the market has spoken, no forecast       *)
(* follows an answer, and an answer counts exactly if it came in time.     *)
(***************************************************************************)

USE DEF db, run, call, Predicting, Judging, Programs, Steps, Sources, NoSource,
        Answers, NoAnswer, Classes

(* A class is what the kind began with, or C once the grace is over.       *)
ClassInv ==
  \A q \in Questions :
    /\ Kind[q] \in {"asia", "us"} => class[q] \in {"A", "C"}
    /\ Kind[q] = "poly" => class[q] = "none"
    /\ class[q] = "C" => clock > Closes[q] + GraceDays * Day

(* What the questions a program has listed have in common.                 *)
ListInv ==
  /\ prog = "degrade" =>
       \A q \in todo : /\ class[q] \in {"A", "B"}
                       /\ clock > Closes[q] + GraceDays * Day
  /\ prog = "auto" =>
       \A q \in todo : class[q] \in {"A", "B"} /\ Kind[q] # "poly"
  /\ prog = "pm" => \A q \in todo : Kind[q] = "poly"

(* What a call of resolve_question rests on at each of its statements.     *)
CallInv ==
  /\ step = "outcome" =>
       /\ Kind[cur] \in {"asia", "us"} /\ GraceDays >= 1 =>
            clock >= WindowStart(cur)
       /\ Kind[cur] = "poly" /\ by \in {"llm", "resolver"} =>
            clock >= Closes[cur] + PmWindowDays * Day
  /\ step = "score" => resolvedAt[cur] - Closes[cur] <= ArchiveDays * Day
  /\ step = "count" => Official(cur) = {} \/ Scored(cur) # {}

(* Nothing in the database is from the future.                             *)
PastInv ==
  \A q \in Questions :
    /\ resolvedAt[q] <= clock
    /\ \A i \in DOMAIN forecasts[q] : forecasts[q][i].made <= clock

(* The statistics are behind the scores only by what was lost.             *)
PaidInv ==
  cut = {} /\ scoringLog = {} => tally + Pending = Cardinality(ScoredQuestions)

TimesInv == ClassInv /\ ListInv /\ CallInv /\ PastInv /\ PaidInv

-----------------------------------------------------------------------------
(* What a step leaves alone *)

LEMMA ClockKept ==
  ASSUME IInv, [Next]_vars
  PROVE  /\ clock \in Nat /\ clock' \in Nat /\ clock' >= clock
         /\ Tick \/ clock' = clock
<1>1. clock \in Nat
  BY DEF IInv, TypeOK
<1>2. CASE Tick
  BY <1>1, <1>2 DEF Tick
<1>3. CASE resolve_question \/ UNCHANGED vars
  BY <1>1, <1>3 DEF resolve_question, WriteOutcome, OutcomeFails, CheckFails, Archive,
                    InGoodTime, Score, Count, ScoringFails, vars
<1>4. CASE Proceed
  BY <1>1, <1>3, <1>4 DEF Proceed, Predict, Degrade, Skip, Answer, StartAuto,
                          EndPredict, EndJudging
<1>5. CASE StartResolve \/ StartPm \/ Crash
  BY <1>1, <1>5 DEF StartResolve, StartPm, Start, Crash
<1>6. CASE \/ \E p \in {"daily", "evolve"} : StartPredict(p)
           \/ \E q \in Questions : StartCli(q)
           \/ \E rows \in SUBSET Questions : StartManual(rows)
  BY <1>1, <1>6 DEF StartPredict, StartCli, StartManual, Start
<1> QED BY <1>2, <1>3, <1>4, <1>5, <1>6 DEF Next

LEMMA ClassKept ==
  ASSUME [Next]_vars, \A q \in Questions : ~Degrade(q)
  PROVE  class' = class
<1>1. CASE resolve_question \/ UNCHANGED vars
  BY <1>1 DEF resolve_question, WriteOutcome, OutcomeFails, CheckFails, Archive,
              InGoodTime, Score, Count, ScoringFails, vars
<1>2. CASE Proceed
  BY <1>1, <1>2 DEF Proceed, Predict, Skip, Answer, StartAuto, EndPredict, EndJudging
<1>3. CASE Tick \/ StartResolve \/ StartPm \/ Crash
  BY <1>3 DEF Tick, StartResolve, StartPm, Start, Crash
<1>4. CASE \/ \E p \in {"daily", "evolve"} : StartPredict(p)
           \/ \E q \in Questions : StartCli(q)
           \/ \E rows \in SUBSET Questions : StartManual(rows)
  BY <1>4 DEF StartPredict, StartCli, StartManual, Start
<1> QED BY <1>1, <1>2, <1>3, <1>4 DEF Next

LEMMA ForecastsKept ==
  ASSUME [Next]_vars, ~Score, \A q \in Questions : ~Predict(q)
  PROVE  forecasts' = forecasts
<1>1. CASE WriteOutcome \/ Count
  BY <1>1 DEF WriteOutcome, Count
<1>2. CASE UNCHANGED vars
  BY <1>2 DEF vars
<1> QED BY <1>1, <1>2, QuietRefines DEF board

-----------------------------------------------------------------------------
(* Each part is kept *)

LEMMA ClassInvKept ==
  ASSUME IInv, TimesInv, [Next]_vars
  PROVE  ClassInv'
<1>1. /\ clock \in Nat /\ clock' \in Nat /\ clock' >= clock
      /\ \A q \in Questions : Closes[q] + GraceDays * Day \in Nat
  BY ClockKept, ClosesAssumption, DaysAssumption
<1>2. CASE class' = class
  BY <1>1, <1>2 DEF TimesInv, ClassInv
<1>3. ASSUME NEW q \in Questions, Degrade(q) PROVE ClassInv'
  <2>1. /\ class[q] \in {"A", "B"} /\ clock > Closes[q] + GraceDays * Day
        /\ class' = [class EXCEPT ![q] = "C"] /\ clock' = clock
    BY <1>3 DEF Degrade, TimesInv, ListInv
  <2>2. class \in [Questions -> Classes]
    BY DEF IInv, TypeOK
  <2>3. Kind[q] # "poly"
    BY <2>1 DEF TimesInv, ClassInv
  <2> QED BY <2>1, <2>2, <2>3 DEF TimesInv, ClassInv
<1> QED BY <1>2, <1>3, ClassKept

LEMMA ListInvKept ==
  ASSUME IInv, TimesInv, [Next]_vars
  PROVE  ListInv'
<1>1. /\ clock \in Nat /\ clock' \in Nat /\ clock' >= clock
      /\ \A q \in Questions : Closes[q] + GraceDays * Day \in Nat
  BY ClockKept, ClosesAssumption, DaysAssumption
<1>2. todo \subseteq Questions
  BY DEF IInv, TypeOK
<1>3. CASE prog' = prog /\ todo' \subseteq todo /\ class' = class
  BY <1>1, <1>2, <1>3 DEF TimesInv, ListInv
<1>4. CASE prog' \in {"idle", "manual"} \cup Predicting
  BY <1>4 DEF ListInv
<1>5. ASSUME NEW q \in Questions, Degrade(q) PROVE ListInv'
  <2>1. /\ prog' = "degrade" /\ todo' = todo \ {q} /\ class' = [class EXCEPT ![q] = "C"]
        /\ clock' = clock /\ prog = "degrade"
    BY <1>5 DEF Degrade, Done
  <2> QED BY <2>1, <1>1 DEF TimesInv, ListInv, IInv, TypeOK
<1>6. CASE StartResolve \/ StartPm \/ StartAuto
  BY <1>1, <1>6 DEF StartResolve, StartPm, StartAuto, Start, ListInv
<1>7. CASE \/ \E p \in {"daily", "evolve"} : StartPredict(p)
           \/ \E q \in Questions : StartCli(q)
           \/ \E rows \in SUBSET Questions : StartManual(rows)
  BY <1>4, <1>7 DEF StartPredict, StartCli, StartManual, Start
<1>8. CASE resolve_question
  <2>1. prog' = prog /\ todo' \subseteq todo /\ class' = class
    BY <1>8 DEF resolve_question, WriteOutcome, OutcomeFails, CheckFails, Archive,
                InGoodTime, Score, Count, ScoringFails, Return, Done
  <2> QED BY <1>3, <2>1
<1>9. CASE \/ \E q \in Questions : Predict(q) \/ Skip(q)
           \/ \E q \in Questions, o \in Answers, src \in Sources : Answer(q, o, src)
           \/ Tick \/ UNCHANGED vars
  <2>1. prog' = prog /\ todo' \subseteq todo /\ class' = class
    BY <1>9 DEF Predict, Skip, Answer, Tick, vars, Done
  <2> QED BY <1>3, <2>1
<1>10. CASE EndPredict \/ EndJudging \/ Crash
  BY <1>4, <1>10 DEF EndPredict, EndJudging, Crash, EndProgram
<1> QED BY <1>5, <1>6, <1>7, <1>8, <1>9, <1>10 DEF Next, Proceed

LEMMA CallKept ==
  ASSUME [Next]_vars
  PROVE  \/ UNCHANGED call \/ step' = "none"
         \/ WriteOutcome \/ InGoodTime \/ Score
         \/ \E q \in Questions, o \in Answers, src \in Sources : Answer(q, o, src)
<1>1. CASE resolve_question \/ UNCHANGED vars
  BY <1>1 DEF resolve_question, OutcomeFails, CheckFails, Archive, Count, ScoringFails,
              Return, EndCall, vars
<1>2. CASE Proceed
  BY <1>1, <1>2 DEF Proceed, Predict, Degrade, Skip, StartAuto, EndPredict, EndJudging
<1>3. CASE Tick \/ StartResolve \/ StartPm \/ Crash
  BY <1>3 DEF Tick, StartResolve, StartPm, Start, Crash, EndCall
<1>4. CASE \/ \E p \in {"daily", "evolve"} : StartPredict(p)
           \/ \E q \in Questions : StartCli(q)
           \/ \E rows \in SUBSET Questions : StartManual(rows)
  BY <1>4 DEF StartPredict, StartCli, StartManual, Start
<1> QED BY <1>1, <1>2, <1>3, <1>4 DEF Next

(* A day of grace covers the day after which a market question may be      *)
(* answered by hand, two cover its data window.                            *)
LEMMA GraceCoversWindow ==
  ASSUME NEW q \in Questions
  PROVE  /\ WindowStart(q) \in Nat
         /\ GraceDays >= 1 => WindowStart(q) <= Closes[q] + GraceDays * Day
         /\ GraceDays >= 2 => WindowStart(q) + Day <= Closes[q] + GraceDays * Day
<1>1. GraceDays \in Nat /\ Day \in Nat /\ Closes[q] \in Nat
  BY DaysAssumption, ClosesAssumption
<1>2. WindowStart(q) \in Nat /\ WindowStart(q) <= Closes[q] + Day
  BY <1>1 DEF WindowStart
<1>3. ASSUME GraceDays >= 1 PROVE Day <= GraceDays * Day
  <2>1. GraceDays - 1 \in Nat /\ (GraceDays - 1) * Day \in Nat
    BY <1>1, <1>3
  <2>2. GraceDays * Day = Day + (GraceDays - 1) * Day
    BY <1>1
  <2> QED BY <1>1, <2>1, <2>2
<1>4. GraceDays * Day \in Nat
  BY <1>1
<1>5. ASSUME GraceDays >= 2 PROVE Day + Day <= GraceDays * Day
  <2>1. GraceDays - 2 \in Nat /\ (GraceDays - 2) * Day \in Nat
    BY <1>1, <1>5
  <2>2. GraceDays * Day = Day + Day + (GraceDays - 2) * Day
    BY <1>1
  <2> QED BY <1>1, <2>1, <2>2
<1> QED BY <1>1, <1>2, <1>3, <1>4, <1>5

(* Every way to give an answer keeps to the windows.                       *)
LEMMA AnswerTimely ==
  ASSUME IInv, TimesInv,
         NEW q \in Questions, NEW o \in Answers, NEW src \in Sources, Answer(q, o, src)
  PROVE  /\ Kind[q] \in {"asia", "us"} /\ GraceDays >= 1 =>
              clock >= WindowStart(q)
         /\ Kind[q] = "poly" /\ src \in {"llm", "resolver"} =>
              clock >= Closes[q] + PmWindowDays * Day
<1>1. /\ clock \in Nat /\ at \in Nat /\ at <= clock /\ q \in todo
      /\ MayAnswer(q, src)
  BY DEF IInv, TypeOK, Answer
<1>2. /\ WindowStart(q) \in Nat
      /\ GraceDays >= 1 => WindowStart(q) <= Closes[q] + GraceDays * Day
      /\ Closes[q] + GraceDays * Day \in Nat /\ Closes[q] \in Nat
      /\ PmWindowDays * Day \in Nat
  BY GraceCoversWindow, DaysAssumption, ClosesAssumption
<1>3. /\ Kind[q] \in {"asia", "us"} => class[q] \in {"A", "C"}
      /\ class[q] = "C" => clock > Closes[q] + GraceDays * Day
  BY DEF TimesInv, ClassInv
<1>4. CASE prog = "auto" /\ src = "resolver" /\ AutoAnswers(q, at)
  <2>1. class[q] \in {"A", "B"} /\ Kind[q] # "poly"
    BY <1>1, <1>4 DEF TimesInv, ListInv
  <2>2. class[q] = "A" => WindowStart(q) <= at
    BY <1>4 DEF AutoAnswers, DataWindow
  <2> QED BY <1>1, <1>2, <1>3, <2>1, <2>2
<1>5. CASE prog = "pm" /\ PmAnswers(q, src, at)
  <2>1. Kind[q] = "poly"
    BY <1>1, <1>5 DEF TimesInv, ListInv
  <2>2. src \in {"llm", "resolver"} => at - Closes[q] >= PmWindowDays * Day
    BY <1>5 DEF PmAnswers
  <2> QED BY <1>1, <1>2, <2>1, <2>2
<1>6. CASE prog = "manual" /\ src = "human" /\ ManualAnswers(q, clock)
  <2>1. class[q] = "A" /\ Kind[q] # "invalid" => clock >= WindowStart(q)
    BY <1>6 DEF ManualAnswers, ValidA
  <2> QED BY <1>1, <1>2, <1>3, <1>6, <2>1
<1> QED BY <1>1, <1>4, <1>5, <1>6 DEF MayAnswer

LEMMA CallInvKept ==
  ASSUME IInv, TimesInv, [Next]_vars
  PROVE  CallInv'
<1>1. /\ clock \in Nat /\ clock' \in Nat /\ clock' >= clock
      /\ Tick \/ clock' = clock
  BY ClockKept
<1>2. CASE step' = "none"
  BY <1>2 DEF CallInv
<1>3. ASSUME NEW q \in Questions, NEW o \in Answers, NEW src \in Sources, Answer(q, o, src)
      PROVE  CallInv'
  <2>1. step' = "outcome" /\ cur' = q /\ by' = src /\ clock' = clock
    BY <1>3 DEF Answer
  <2> QED BY <1>3, <2>1, AnswerTimely DEF CallInv
<1>4. CASE WriteOutcome
  BY <1>4 DEF WriteOutcome, CallInv
<1>5. CASE InGoodTime
  <2>1. /\ step' = "score" /\ cur' = cur /\ resolvedAt' = resolvedAt
        /\ ~(clock - Closes[cur] > ArchiveDays * Day)
    BY <1>5 DEF InGoodTime, TooLate
  <2>2. cur \in Questions
    BY <1>5 DEF InGoodTime, IInv, TypeOK
  <2>3. /\ resolvedAt[cur] \in Nat /\ resolvedAt[cur] <= clock
        /\ Closes[cur] \in Nat /\ ArchiveDays * Day \in Nat
    BY <2>2, ClosesAssumption, DaysAssumption DEF TimesInv, PastInv, IInv, TypeOK
  <2>4. resolvedAt[cur] - Closes[cur] <= ArchiveDays * Day
    BY <1>1, <2>1, <2>3
  <2> QED BY <2>1, <2>4 DEF CallInv
<1>6. CASE Score
  <2>1. step' = "count" /\ cur' = cur /\ cur \in Questions
    BY <1>6 DEF Score, IInv, TypeOK
  <2>2. Official(cur)' = Official(cur)
    BY <1>6, <2>1, ScoreInv
  <2>3. Official(cur) # {} => Scored(cur)' # {}
    BY <1>6, ScoreInv
  <2> QED BY <2>1, <2>2, <2>3 DEF CallInv, Official, Scored
<1>7. CASE UNCHANGED call /\ step # "none" /\ ~WriteOutcome /\ ~Score
  <2>1. prog \in Judging /\ cur \in Questions
    BY <1>7 DEF IInv, TypeOK
  <2>2. forecasts' = forecasts
    BY <1>7, <2>1, ForecastsKept DEF Predict
  <2>3. resolvedAt' = resolvedAt
    BY <1>7, AnswersKept DEF answers, vars
  <2>4. /\ WindowStart(cur) \in Nat
        /\ Closes[cur] + PmWindowDays * Day \in Nat
    BY <2>1, GraceCoversWindow, ClosesAssumption, DaysAssumption
  <2> QED BY <1>1, <1>7, <2>2, <2>3, <2>4
          DEF TimesInv, CallInv, Scored, Official, WindowStart
<1>8. CASE UNCHANGED call /\ (WriteOutcome \/ Score)
  BY <1>4, <1>6, <1>8
<1> QED BY <1>2, <1>3, <1>4, <1>5, <1>6, <1>7, <1>8, CallKept

LEMMA PastInvKept ==
  ASSUME IInv, TimesInv, [Next]_vars
  PROVE  PastInv'
<1>1. /\ clock \in Nat /\ clock' \in Nat /\ clock' >= clock
      /\ Tick \/ clock' = clock
  BY ClockKept
<1> USE DEF PastInv
<1>2. ASSUME NEW q \in Questions PROVE resolvedAt'[q] <= clock'
  <2>1. resolvedAt \in [Questions -> Nat] /\ resolvedAt[q] <= clock
    BY DEF IInv, TypeOK, TimesInv
  <2>2. CASE WriteOutcome
    BY <1>1, <2>1, <2>2 DEF WriteOutcome
  <2>3. CASE ~WriteOutcome
    BY <1>1, <2>1, <2>3, AnswersKept DEF answers, vars
  <2> QED BY <2>2, <2>3
<1>3. ASSUME NEW q \in Questions, NEW i \in DOMAIN forecasts'[q]
      PROVE  forecasts'[q][i].made <= clock'
  <2>1. /\ forecasts \in [Questions -> Seq(Forecast)]
        /\ \A j \in DOMAIN forecasts[q] : forecasts[q][j].made <= clock
        /\ \A j \in DOMAIN forecasts[q] : forecasts[q][j] \in Forecast
    BY ElementOfSeq, LenProperties DEF IInv, TypeOK, TimesInv
  <2>2. CASE forecasts'[q] = forecasts[q]
    <3>1. forecasts[q][i].made \in Nat /\ forecasts[q][i].made <= clock
      BY <1>3, <2>1, <2>2 DEF Forecast
    <3> QED BY <1>1, <2>2, <3>1
  <2>3. CASE Score
    <3>1. i \in DOMAIN forecasts[q] /\ forecasts'[q][i].made = forecasts[q][i].made
      BY <1>3, <2>3, ScoreInv
    <3>2. forecasts[q][i].made \in Nat /\ forecasts[q][i].made <= clock
      BY <2>1, <3>1 DEF Forecast
    <3> QED BY <1>1, <3>1, <3>2
  <2>4. ASSUME NEW r \in Questions, Predict(r), forecasts'[q] # forecasts[q]
        PROVE  forecasts'[q][i].made <= clock'
    <3>1. q = r /\ clock' = clock
      BY <2>4, PredictInv DEF Predict
    <3>2. \/ i \in DOMAIN forecasts[q] /\ forecasts'[q][i] = forecasts[q][i]
          \/ forecasts'[q][i].made = clock
      BY <1>3, <2>4, <3>1, PredictInv
    <3> QED BY <1>1, <2>1, <3>1, <3>2
  <2>5. CASE ~Score /\ \A r \in Questions : ~Predict(r)
    BY <2>2, <2>5, ForecastsKept
  <2> QED BY <2>2, <2>3, <2>4, <2>5
<1> QED BY <1>2, <1>3

(* What was lost is not found again.                                       *)
LEMMA LostKept ==
  ASSUME [Next]_vars
  PROVE  cut \subseteq cut' /\ scoringLog \subseteq scoringLog'
<1>1. CASE resolve_question \/ UNCHANGED vars
  BY <1>1 DEF resolve_question, WriteOutcome, OutcomeFails, CheckFails, Archive,
              InGoodTime, Score, Count, ScoringFails, vars
<1>2. CASE Proceed
  BY <1>1, <1>2 DEF Proceed, Predict, Degrade, Skip, Answer, StartAuto,
                    EndPredict, EndJudging
<1>3. CASE Tick \/ StartResolve \/ StartPm \/ Crash
  BY <1>3 DEF Tick, StartResolve, StartPm, Start, Crash
<1>4. CASE \/ \E p \in {"daily", "evolve"} : StartPredict(p)
           \/ \E q \in Questions : StartCli(q)
           \/ \E rows \in SUBSET Questions : StartManual(rows)
  BY <1>4 DEF StartPredict, StartCli, StartManual, Start
<1> QED BY <1>1, <1>2, <1>3, <1>4 DEF Next

(* How a call of resolve_question ends.                                    *)
LEMMA CallEnds ==
  ASSUME IInv, [Next]_vars, cur \in Questions, cur' # cur
  PROVE  \/ step = "outcome" \/ cur \in cut' \cup scoringLog'
         \/ Archive \/ Count
<1>1. step # "none"
  BY NoQuestionAssumption DEF IInv, TypeOK
<1>2. CASE resolve_question \/ UNCHANGED vars
  BY <1>2 DEF resolve_question, WriteOutcome, OutcomeFails, CheckFails,
              InGoodTime, Score, ScoringFails, vars
<1>3. CASE Proceed
  BY <1>1, <1>2, <1>3 DEF Proceed, Predict, Degrade, Skip, Answer, StartAuto,
                          EndPredict, EndJudging
<1>4. CASE Tick \/ StartResolve \/ StartPm
  BY <1>4 DEF Tick, StartResolve, StartPm, Start
<1>5. CASE Crash
  BY <1>1, <1>5 DEF Crash, IInv, TypeOK
<1>6. CASE \/ \E p \in {"daily", "evolve"} : StartPredict(p)
           \/ \E q \in Questions : StartCli(q)
           \/ \E rows \in SUBSET Questions : StartManual(rows)
  BY <1>6 DEF StartPredict, StartCli, StartManual, Start
<1> QED BY <1>2, <1>3, <1>4, <1>5, <1>6 DEF Next

LEMMA PaidInvKept ==
  ASSUME IInv, IInv', TimesInv, [Next]_vars
  PROVE  PaidInv'
<1> SUFFICES ASSUME cut' = {}, scoringLog' = {}
             PROVE  tally' + Pending' = Cardinality(ScoredQuestions)'
  BY DEF PaidInv
<1>1. tally + Pending = Cardinality(ScoredQuestions)
  BY LostKept DEF TimesInv, PaidInv
<1>2. /\ tally \in Nat /\ Pending \in {0, 1} /\ Cardinality(ScoredQuestions) \in Nat
  BY ScoredFinite DEF IInv, TypeOK, Pending
<1>3. CASE Score
  <2>1. cur \in Questions /\ cur' = cur /\ tally' = tally /\ step = "score" /\ step' = "count"
    BY <1>3 DEF Score, IInv, TypeOK
  <2>2. Scored(cur) = {} /\ Pending = 0
    BY <2>1 DEF Pending, IInv, CheckedInv
  <2>3. \A r \in Questions : r # cur => Scored(r)' = Scored(r)
    BY <1>3, ScoreInv
  <2>4. CASE Official(cur) = {}
    <3>1. Scored(cur)' = {}
      BY <1>3, <2>4, ScoreInv
    <3>2. ScoredQuestions' = ScoredQuestions
      BY <2>1, <2>2, <2>3, <3>1 DEF ScoredQuestions
    <3>3. Pending' = 0
      BY <2>1, <3>1 DEF Pending, Scored
    <3> QED BY <1>1, <2>1, <2>2, <3>2, <3>3
  <2>5. CASE Official(cur) # {}
    <3>1. Scored(cur)' # {}
      BY <1>3, <2>5, ScoreInv
    <3>2. ScoredQuestions' = ScoredQuestions \cup {cur} /\ cur \notin ScoredQuestions
      BY <2>1, <2>2, <2>3, <3>1 DEF ScoredQuestions
    <3>3. Cardinality(ScoredQuestions)' = Cardinality(ScoredQuestions) + 1
      BY <3>2, ScoredFinite, FS_AddElement
    <3>4. Pending' = 1
      BY <2>1, <3>1 DEF Pending, Scored
    <3> QED BY <1>1, <1>2, <2>1, <2>2, <3>3, <3>4
  <2> QED BY <2>4, <2>5
<1>4. CASE Count
  <2>1. tally' = tally + Pending
    BY <1>4, CountInv
  <2>2. ScoredQuestions' = ScoredQuestions /\ Pending' = 0
    BY <1>4 DEF Count, Return, EndCall, ScoredQuestions, Scored, Pending
  <2> QED BY <1>1, <1>2, <2>1, <2>2
<1>5. ASSUME tally' = tally, \A r \in Questions : Scored(r)' = Scored(r), Pending' = Pending
      PROVE  tally' + Pending' = Cardinality(ScoredQuestions)'
  BY <1>1, <1>5 DEF ScoredQuestions
<1>6. CASE WriteOutcome
  <2>1. /\ tally' = tally /\ \A r \in Questions : Scored(r)' = Scored(r)
        /\ step = "outcome" /\ step' = "late"
    BY <1>6 DEF WriteOutcome, Scored
  <2> QED BY <1>5, <2>1 DEF Pending
<1>7. ASSUME NEW q \in Questions, Predict(q)
      PROVE  tally' + Pending' = Cardinality(ScoredQuestions)'
  <2>1. tally' = tally /\ step = "none" /\ step' = "none"
    BY <1>7 DEF Predict, IInv, TypeOK
  <2> QED BY <1>5, <1>7, <2>1, PredictInv DEF Pending
<1>8. CASE ~Score /\ ~Count /\ ~WriteOutcome /\ \A q \in Questions : ~Predict(q)
  <2>1. UNCHANGED board
    BY <1>8, QuietRefines DEF vars, board
  <2>2. tally' = tally /\ \A r : Scored(r)' = Scored(r)
    BY <2>1 DEF board, Scored
  <2>3. CASE UNCHANGED call
    BY <1>5, <2>2, <2>3 DEF Pending, Scored
  <2>4. CASE step' = "none"
    <3>1. ASSUME step = "count" PROVE FALSE
      <4>1. cur \in Questions /\ cur' = NoQuestion
        BY <2>4, <3>1 DEF IInv, TypeOK
      <4>2. cur \in cut' \cup scoringLog'
        BY <1>8, <3>1, <4>1, CallEnds, NoQuestionAssumption DEF Archive
      <4> QED BY <4>2
    <3> QED BY <1>5, <2>2, <2>4, <3>1 DEF Pending
  <2>5. CASE InGoodTime \/ \E q \in Questions, o \in Answers, src \in Sources : Answer(q, o, src)
    <3>1. step # "count" /\ step' # "count"
      BY <2>5 DEF InGoodTime, Answer
    <3> QED BY <1>5, <2>2, <3>1 DEF Pending
  <2> QED BY <1>8, <2>3, <2>4, <2>5, CallKept
<1> QED BY <1>3, <1>4, <1>6, <1>7, <1>8

-----------------------------------------------------------------------------
(* The properties *)

(* An answer was given when the market had spoken, and counts if it was in *)
(* time.                                                                   *)
AnswerInv ==
  /\ GraceDays >= 1 => NoAnswerBeforeQuote
  /\ MarketSpeaksFirst /\ NoForecastAfterAnswer
  /\ LateAnswerNotScored /\ AnsweredIsScored

LEMMA WriteOutcomeAnswer ==
  ASSUME IInv, TimesInv, AnswerInv, WriteOutcome
  PROVE  AnswerInv'
<1>1. /\ cur \in Questions /\ Open(cur) /\ Scored(cur) = {}
      /\ outcome' = [outcome EXCEPT ![cur] = verdict]
      /\ resolvedAt' = [resolvedAt EXCEPT ![cur] = clock]
      /\ source' = [source EXCEPT ![cur] = by]
      /\ outcome \in [Questions -> Answers \cup {NoAnswer}]
      /\ resolvedAt \in [Questions -> Nat]
      /\ source \in [Questions -> Sources \cup {NoSource}]
  BY DEF WriteOutcome, IInv, TypeOK, CheckedInv, BoardInv, Open, Scored
<1>2. /\ forecasts' = forecasts /\ clock' = clock /\ cut' = cut
      /\ scoringLog' = scoringLog /\ cur' = cur /\ step = "outcome"
      /\ \A r : Scored(r)' = Scored(r) /\ Official(r)' = Official(r)
  BY DEF WriteOutcome, Scored, Official
<1>3. \A r \in Questions : r # cur =>
        /\ Open(r)' = Open(r) /\ resolvedAt'[r] = resolvedAt[r] /\ source'[r] = source[r]
  BY <1>1 DEF Open
<1>4. resolvedAt'[cur] = clock /\ source'[cur] = by
  BY <1>1
<1>5. (GraceDays >= 1 => NoAnswerBeforeQuote)'
  BY <1>2, <1>3, <1>4 DEF NoAnswerBeforeQuote, AnswerInv, TimesInv, CallInv, WindowStart
<1>6. MarketSpeaksFirst'
  BY <1>2, <1>3, <1>4 DEF MarketSpeaksFirst, AnswerInv, TimesInv, CallInv
<1>7. NoForecastAfterAnswer'
  BY <1>2, <1>3, <1>4 DEF NoForecastAfterAnswer, AnswerInv, TimesInv, PastInv
<1>8. LateAnswerNotScored'
  BY <1>1, <1>2, <1>3 DEF LateAnswerNotScored, AnswerInv
<1>9. AnsweredIsScored'
  BY <1>2, <1>3 DEF AnsweredIsScored, InTime, AnswerInv
<1> QED BY <1>5, <1>6, <1>7, <1>8, <1>9 DEF AnswerInv

(* An answered question gets no forecast, and scoring keeps their times.   *)
LEMMA SettledForecasts ==
  ASSUME IInv, [Next]_vars, NEW q \in Questions, ~Open(q)
  PROVE  /\ DOMAIN forecasts'[q] = DOMAIN forecasts[q]
         /\ \A i \in DOMAIN forecasts[q] : forecasts'[q][i].made = forecasts[q][i].made
         /\ Official(q)' = Official(q)
<1>1. CASE forecasts'[q] = forecasts[q]
  BY <1>1 DEF Official
<1>2. CASE Score
  BY <1>2, ScoreInv
<1>3. ASSUME NEW r \in Questions, Predict(r) PROVE forecasts'[q] = forecasts[q]
  <2>1. r # q
    BY <1>3 DEF Predict, IInv, CheckedInv
  <2> QED BY <1>3, <2>1, PredictInv
<1>4. CASE ~Score /\ \A r \in Questions : ~Predict(r)
  BY <1>1, <1>4, ForecastsKept
<1> QED BY <1>1, <1>2, <1>3, <1>4

LEMMA OtherAnswer ==
  ASSUME IInv, IInv', TimesInv, AnswerInv, [Next]_vars, ~WriteOutcome
  PROVE  AnswerInv'
<1>1. UNCHANGED answers
  BY AnswersKept DEF answers, vars
<1>2. \A q \in Questions : /\ Open(q)' = Open(q) /\ resolvedAt'[q] = resolvedAt[q]
                           /\ source'[q] = source[q]
  BY <1>1 DEF answers, Open
<1>3. (GraceDays >= 1 => NoAnswerBeforeQuote)' /\ MarketSpeaksFirst'
  BY <1>2 DEF AnswerInv, NoAnswerBeforeQuote, MarketSpeaksFirst, WindowStart
<1>4. NoForecastAfterAnswer'
  BY <1>2, SettledForecasts DEF AnswerInv, NoForecastAfterAnswer
<1>5. ASSUME NEW q \in Questions, ~(Score /\ q = cur) PROVE Scored(q)' = Scored(q)
  <2>1. CASE Score
    BY <1>5, <2>1, ScoreInv
  <2>2. CASE \E r \in Questions : Predict(r)
    BY <2>2, PredictInv
  <2>3. CASE ~Score /\ \A r \in Questions : ~Predict(r)
    BY <2>3, ForecastsKept DEF Scored
  <2> QED BY <2>1, <2>2, <2>3
<1>6. LateAnswerNotScored'
  <2> SUFFICES ASSUME NEW q \in Questions, ~Open(q),
                      resolvedAt[q] - Closes[q] > ArchiveDays * Day
               PROVE  Scored(q)' = {}
    BY <1>2 DEF LateAnswerNotScored
  <2>1. Scored(q) = {}
    BY DEF AnswerInv, LateAnswerNotScored
  <2>2. ASSUME Score, q = cur PROVE FALSE
    <3>1. resolvedAt[q] - Closes[q] <= ArchiveDays * Day
      BY <2>2 DEF Score, TimesInv, CallInv
    <3>2. /\ resolvedAt[q] - Closes[q] \in Int /\ ArchiveDays * Day \in Int
      BY ClosesAssumption, DaysAssumption DEF IInv, TypeOK
    <3> QED BY <3>1, <3>2
  <2> QED BY <1>5, <2>1, <2>2
<1>7. AnsweredIsScored'
  <2> SUFFICES ASSUME NEW q \in Questions, ~Open(q), Official(q)' # {},
                      InTime(q)', cur' # q
               PROVE  Scored(q)' # {} \/ q \in scoringLog' \cup cut'
    BY <1>2 DEF AnsweredIsScored, InTime
  <2>1. Official(q) # {}
    BY SettledForecasts
  <2>2. InTime(q)
    <3>1. /\ clock \in Nat /\ clock' \in Nat /\ clock' >= clock
      BY ClockKept
    <3>2. Closes[q] \in Nat /\ ArchiveDays * Day \in Nat
      BY ClosesAssumption, DaysAssumption
    <3>3. clock' - Closes[q] <= ArchiveDays * Day
      BY DEF InTime
    <3> QED BY <3>1, <3>2, <3>3 DEF InTime
  <2>3. CASE cur # q
    <3>1. Scored(q) # {} \/ q \in scoringLog \cup cut
      BY <2>1, <2>2, <2>3 DEF AnswerInv, AnsweredIsScored
    <3> QED BY <1>5, <2>3, <3>1, LostKept
  <2>4. CASE cur = q
    <3>1. step # "outcome"
      BY <2>4 DEF IInv, CheckedInv
    <3>2. ~Archive
      <4>1. clock - Closes[cur] \in Int /\ ArchiveDays * Day \in Int
        BY <2>4, ClockKept, ClosesAssumption, DaysAssumption
      <4>2. clock - Closes[cur] <= ArchiveDays * Day
        BY <2>2, <2>4 DEF InTime
      <4> QED BY <4>1, <4>2 DEF Archive, TooLate
    <3>3. Count => Scored(q) # {}
      BY <2>1, <2>4 DEF Count, TimesInv, CallInv
    <3>4. ~(Score /\ q = cur)
      BY <2>4 DEF Score
    <3> QED BY <1>5, <2>4, <3>1, <3>2, <3>3, <3>4, CallEnds
  <2> QED BY <2>3, <2>4
<1> QED BY <1>3, <1>4, <1>6, <1>7 DEF AnswerInv

(* Only the daily round and the resolve round write the template, and a    *)
(* market question with a valid spec is in it after the grace.             *)
OfferedInv == GraceDays >= 2 => OfferedAfterWindow

LEMMA TemplateKept ==
  ASSUME IInv, TimesInv, [Next]_vars, OfferedInv
  PROVE  OfferedInv'
<1> SUFFICES ASSUME GraceDays >= 2, NEW q \in template', Kind[q] \in {"asia", "us"}
             PROVE  clock' >= WindowStart(q) + Day
  BY DEF OfferedInv, OfferedAfterWindow, WindowStart
<1>1. template' = template \/ template' = manual_candidates(at)
  <2>1. CASE resolve_question \/ UNCHANGED vars
    BY <2>1 DEF resolve_question, WriteOutcome, OutcomeFails, CheckFails, Archive,
                InGoodTime, Score, Count, ScoringFails, vars
  <2>2. CASE Proceed
    BY <2>1, <2>2 DEF Proceed, Predict, Degrade, Skip, Answer, StartAuto,
                      EndPredict, EndJudging
  <2>3. CASE Tick \/ StartResolve \/ StartPm \/ Crash
    BY <2>3 DEF Tick, StartResolve, StartPm, Start, Crash
  <2>4. CASE \/ \E p \in {"daily", "evolve"} : StartPredict(p)
             \/ \E r \in Questions : StartCli(r)
             \/ \E rows \in SUBSET Questions : StartManual(rows)
    BY <2>4 DEF StartPredict, StartCli, StartManual, Start
  <2> QED BY <2>1, <2>2, <2>3, <2>4 DEF Next
<1>2. q \in Questions
  BY <1>1 DEF manual_candidates, IInv, TypeOK
<1>3. /\ WindowStart(q) \in Nat /\ Day \in Nat /\ Closes[q] + GraceDays * Day \in Nat
      /\ WindowStart(q) + Day <= Closes[q] + GraceDays * Day
      /\ clock \in Nat /\ clock' \in Nat /\ clock' >= clock
  BY <1>2, GraceCoversWindow, ClockKept, DaysAssumption, ClosesAssumption
<1>4. CASE template' = template
  BY <1>3, <1>4 DEF OfferedInv, OfferedAfterWindow
<1>5. CASE template' = manual_candidates(at)
  <2>1. class[q] = "C"
    BY <1>2, <1>5 DEF manual_candidates, ValidA, TimesInv, ClassInv
  <2>2. clock > Closes[q] + GraceDays * Day
    BY <1>2, <2>1 DEF TimesInv, ClassInv
  <2> QED BY <1>3, <2>2
<1> QED BY <1>1, <1>4, <1>5

-----------------------------------------------------------------------------
(* The theorems *)

DeadlinesInv == IInv /\ TimesInv /\ AnswerInv /\ OfferedInv

LEMMA InitDeadlines == Init => DeadlinesInv
<1> SUFFICES ASSUME Init PROVE DeadlinesInv
  OBVIOUS
<1>1. IInv
  BY InitIInv
<1>2. /\ \A q \in Questions : Scored(q) = {} /\ Open(q) /\ DOMAIN forecasts[q] = {}
                              /\ Official(q) = {}
      /\ \A q \in Questions : class[q] # "C" /\ Kind[q] \in Kinds
  BY EmptySeq, LenProperties, KindAssumption DEF Init, Scored, Official, Open, Kinds
<1>3. ClassInv
  BY <1>2 DEF Init, ClassInv, Kinds
<1>4. ListInv /\ CallInv
  BY DEF Init, ListInv, CallInv
<1>5. PastInv
  BY <1>2 DEF Init, PastInv
<1>6. PaidInv
  <2>1. ScoredQuestions = {} /\ Pending = 0 /\ tally = 0
    BY <1>2 DEF Init, ScoredQuestions, Pending
  <2> QED BY <2>1, FS_EmptySet DEF PaidInv
<1>7. AnswerInv
  <2>1. \A q \in Questions : source[q] = NoSource
    BY DEF Init
  <2> QED BY <1>2, <2>1 DEF AnswerInv, NoAnswerBeforeQuote, MarketSpeaksFirst,
                         NoForecastAfterAnswer, LateAnswerNotScored, AnsweredIsScored
<1>8. OfferedInv
  BY DEF Init, OfferedInv, OfferedAfterWindow
<1> QED BY <1>1, <1>3, <1>4, <1>5, <1>6, <1>7, <1>8 DEF DeadlinesInv, TimesInv

LEMMA NextDeadlines == DeadlinesInv /\ [Next]_vars => DeadlinesInv'
<1> SUFFICES ASSUME DeadlinesInv, [Next]_vars PROVE DeadlinesInv'
  OBVIOUS
<1>1. IInv /\ TimesInv /\ AnswerInv /\ OfferedInv
  BY DEF DeadlinesInv
<1>2. IInv'
  BY <1>1, NextIInv
<1>3. TimesInv'
  BY <1>1, <1>2, ClassInvKept, ListInvKept, CallInvKept, PastInvKept, PaidInvKept
     DEF TimesInv
<1>4. AnswerInv'
  BY <1>1, <1>2, WriteOutcomeAnswer, OtherAnswer
<1>5. OfferedInv'
  BY <1>1, TemplateKept
<1> QED BY <1>2, <1>3, <1>4, <1>5 DEF DeadlinesInv

LEMMA DeadlinesInvariance == Spec => []DeadlinesInv
BY InitDeadlines, NextDeadlines, PTL DEF Spec

(* With a day of grace or more, no market question is answered before the
   close it asks about has been quoted: not by the resolver, not from a CSV
   and not by hand after the question was degraded. *)
THEOREM QuoteFirst == ASSUME GraceDays >= 1 PROVE Spec => []NoAnswerBeforeQuote
<1>1. DeadlinesInv => NoAnswerBeforeQuote
  BY DEF DeadlinesInv, AnswerInv
<1> QED BY <1>1, DeadlinesInvariance, PTL

(* No LLM judges a Polymarket question in the days the market has for it.  *)
THEOREM MarketFirst == Spec => []MarketSpeaksFirst
<1>1. DeadlinesInv => MarketSpeaksFirst
  BY DEF DeadlinesInv, AnswerInv
<1> QED BY <1>1, DeadlinesInvariance, PTL

(* No forecast is made after the answer is in the database. *)
THEOREM ForecastsPrecede == Spec => []NoForecastAfterAnswer
<1>1. DeadlinesInv => NoForecastAfterAnswer
  BY DEF DeadlinesInv, AnswerInv
<1> QED BY <1>1, DeadlinesInvariance, PTL

(* An answer that comes too late for the scoreboard is never scored. *)
THEOREM LateUnscored == Spec => []LateAnswerNotScored
<1>1. DeadlinesInv => LateAnswerNotScored
  BY DEF DeadlinesInv, AnswerInv
<1> QED BY <1>1, DeadlinesInvariance, PTL

(* An answer in good time to a question with a forecast is scored, unless
   scoring raised or was killed. *)
THEOREM AnsweredScored == Spec => []AnsweredIsScored
<1>1. DeadlinesInv => AnsweredIsScored
  BY DEF DeadlinesInv, AnswerInv
<1> QED BY <1>1, DeadlinesInvariance, PTL

(* model_stats counts every scored forecast once, less what was lost. *)
THEOREM StatsExact == Spec => []TallyExact
<1>1. DeadlinesInv => TallyExact
  <2> SUFFICES ASSUME DeadlinesInv PROVE TallyExact
    OBVIOUS
  <2>1. /\ tally \in Nat /\ Pending \in Nat /\ tally + Pending <= Cardinality(ScoredQuestions)
        /\ step = "none" => Pending = 0
    BY DEF DeadlinesInv, IInv, TypeOK, TallyInv, Pending
  <2>2. cut = {} /\ scoringLog = {} => tally + Pending = Cardinality(ScoredQuestions)
    BY DEF DeadlinesInv, TimesInv, PaidInv
  <2> QED BY <2>1, <2>2, ScoredFinite DEF TallyExact
<1> QED BY <1>1, DeadlinesInvariance, PTL

(* With a grace of two days or more no template, however old, offers a human
   a market question with a valid spec while its data window lasts. *)
THEOREM TemplateHuman == ASSUME GraceDays >= 2 PROVE Spec => []OfferedAfterWindow
<1>1. DeadlinesInv => OfferedAfterWindow
  BY DEF DeadlinesInv, OfferedInv
<1> QED BY <1>1, DeadlinesInvariance, PTL

===============================================================================
