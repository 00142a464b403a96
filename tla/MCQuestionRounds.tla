--------------------------- MODULE MCQuestionRounds ---------------------------
(* Small instances of QuestionRounds. *)
EXTENDS QuestionRoundsProps, TLC

CONSTANTS q1, q2

UsAndPoly == (q1 :> "us" @@ q2 :> "poly")
EventAndInvalid == (q1 :> "event" @@ q2 :> "invalid")
OnlyAsia == (q1 :> "asia")
OneAndThree == (q1 :> 1 @@ q2 :> 3)
BothOne == (q1 :> 1 @@ q2 :> 1)
One == (q1 :> 1)
===============================================================================
