------------------------------ MODULE Scoreboard ------------------------------
(***************************************************************************)
(* What the question database promises a reader of the scoreboard. A       *)
(* question collects forecasts until it is answered; the answer is final;  *)
(* at most one forecast is marked against it, the last one; and the        *)
(* statistics count a marked question at most once.                        *)
(***************************************************************************)
EXTENDS Naturals

CONSTANTS
  Questions,
  Answers,
  NoAnswer

VARIABLES
  made,     \* how many forecasts each question has
  answer,   \* its answer
  mark,     \* the number of the forecast that was marked, or 0
  marks,    \* how many questions are marked
  tally     \* how many of the marks the statistics have counted

vars == <<made, answer, mark, marks, tally>>

Init ==
  /\ made = [q \in Questions |-> 0]
  /\ answer = [q \in Questions |-> NoAnswer]
  /\ mark = [q \in Questions |-> 0]
  /\ marks = 0 /\ tally = 0

Forecast(q) ==
  /\ answer[q] = NoAnswer
  /\ made' = [made EXCEPT ![q] = @ + 1]
  /\ UNCHANGED <<answer, mark, marks, tally>>

Settle(q, a) ==
  /\ answer[q] = NoAnswer
  /\ answer' = [answer EXCEPT ![q] = a]
  /\ UNCHANGED <<made, mark, marks, tally>>

Mark(q) ==
  /\ answer[q] # NoAnswer /\ mark[q] = 0 /\ made[q] # 0
  /\ mark' = [mark EXCEPT ![q] = made[q]]
  /\ marks' = marks + 1
  /\ UNCHANGED <<made, answer, tally>>

Count ==
  /\ tally < marks
  /\ tally' = tally + 1
  /\ UNCHANGED <<made, answer, mark, marks>>

Next ==
  \/ \E q \in Questions : Forecast(q) \/ Mark(q) \/ \E a \in Answers : Settle(q, a)
  \/ Count

Spec == Init /\ [][Next]_vars

===============================================================================
