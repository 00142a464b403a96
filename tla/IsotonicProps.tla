--------------------------- MODULE IsotonicProps ---------------------------
(***************************************************************************)
(* What a calibrator must be: the isotonic regression of the samples, and  *)
(* a function that never turns a higher probability into a lower one.      *)
(***************************************************************************)
EXTENDS Isotonic

Mean(a, c) == <<SumFunctionOnSet(Yes(samples), a..c), c - a + 1>>

Least(V) == CHOOSE v \in V : \A w \in V : Leq(v, w)
Greatest(V) == CHOOSE v \in V : \A w \in V : Leq(w, v)

\* The isotonic regression of the samples 1..m at i, by its min-max formula.
Regression(i, m) == Greatest({Least({Mean(a, c) : c \in i..m}) : a \in 1..i})

\* The samples of block k end here.
EndOf(k) == SumFunctionOnSet(Sizes, 1..k)

(***************************************************************************)
(* Whenever no two blocks are out of order, the blocks are the isotonic    *)
(* regression of the samples read so far, each block standing for as many  *)
(* consecutive samples as it counts and having their ends                  *)
(* (isotonic.py:25-44).                                                    *)
(***************************************************************************)
BlocksAreRegression ==
  ~Violation =>
    /\ EndOf(Len(blocks)) = read
    /\ \A k \in DOMAIN blocks :
         /\ samples[EndOf(k - 1) + 1].level = blocks[k].first
         /\ samples[EndOf(k)].level = blocks[k].last
         /\ \A i \in EndOf(k - 1) + 1..EndOf(k) :
              Equal(Value(blocks[k]), Regression(i, read))

(***************************************************************************)
(* Calibration keeps the order of forecasts and stays between 0 and 1, on  *)
(* the levels, between them and outside of them, although the steps are    *)
(* means of several blocks and apply takes midpoints (isotonic.py:45-73).  *)
(***************************************************************************)
CalibrationIsMonotone ==
  pc = "done" =>
    \A p \in Probabilities :
      /\ Leq(<<0, 1>>, Apply(p)) /\ Leq(Apply(p), <<1, 1>>)
      /\ p + 1 \in Probabilities => Leq(Apply(p), Apply(p + 1))

(***************************************************************************)
(* Samples of one probability count by their number, however they fall     *)
(* into blocks: when all samples have one probability, it is mapped to     *)
(* their frequency (isotonic.py:47-49: 4 samples with 1 yes give 0.25).    *)
(***************************************************************************)
TiesAreWeighted ==
  pc = "done" /\ samples[1].level = Last(samples).level =>
    \A p \in Probabilities : Equal(Apply(p), Mean(1, Len(samples)))

=============================================================================
