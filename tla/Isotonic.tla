------------------------------ MODULE Isotonic ------------------------------
(***************************************************************************)
(* The calibrator of calibration/isotonic.py: fit_isotonic pools adjacent  *)
(* violators and turns the blocks into steps, and apply reads a calibrated *)
(* probability off the steps.                                              *)
(*                                                                         *)
(* A sample is a forecast probability and the answer (1 is yes). Only the  *)
(* order of the probabilities matters, so they are levels 1..Levels, and   *)
(* the samples are given as `sorted` leaves them: by level, and in the     *)
(* order of the database rows within a level. Values are fractions         *)
(* <<numerator, denominator>>; the rounding of floats is left out. The     *)
(* steps are a function of the level: the code's list has them in the      *)
(* order of the levels, since the blocks ascend.                           *)
(***************************************************************************)
EXTENDS Integers, Sequences, FiniteSetsExt, SequencesExt

CONSTANTS
  Levels,      \* number of different probabilities
  MaxSamples   \* bound: length of the input

ASSUME BoundsAssumption == Levels \in Nat \ {0} /\ MaxSamples \in Nat \ {0}

VARIABLES
  samples,  \* the input, sorted: [level, yes]
  read,     \* how many samples have been read
  blocks,   \* the stack of blocks: [first, last, yes, n]
  steps,    \* the result: the value at each level where it has one
  pc        \* "pool" while samples are read, "done" when steps is the result

vars == <<samples, read, blocks, steps, pc>>

Leq(v, w) == v[1] * w[2] <= w[1] * v[2]
Equal(v, w) == Leq(v, w) /\ Leq(w, v)
Midpoint(v, w) == <<v[1] * w[2] + w[1] * v[2], 2 * v[2] * w[2]>>

Samples == [level : 1..Levels, yes : {0, 1}]

Value(b) == <<b.yes, b.n>>

Yes(s) == [i \in DOMAIN s |-> s[i].yes]

Init ==
  /\ samples \in BoundedSeq(Samples, MaxSamples) \ {<<>>}
  /\ \A i \in 1..Len(samples) - 1 : samples[i].level <= samples[i + 1].level
  /\ read = 0 /\ blocks = <<>> /\ steps = <<>> /\ pc = "pool"

-----------------------------------------------------------------------------
(* Pooling *)

\* The last two blocks are in the wrong order.
Violation ==
  /\ Len(blocks) >= 2
  /\ ~Leq(Value(blocks[Len(blocks) - 1]), Value(Last(blocks)))

Push ==
  /\ pc = "pool" /\ ~Violation /\ read < Len(samples)
  /\ LET s == samples[read + 1] IN
       blocks' = Append(blocks,
         [first |-> s.level, last |-> s.level, yes |-> s.yes, n |-> 1])
  /\ read' = read + 1
  /\ UNCHANGED <<samples, steps, pc>>

Variant_Pool_loses ==
  /\ pc = "pool" /\ Violation
  /\ LET b1 == blocks[Len(blocks) - 1]
         b2 == Last(blocks) IN
       blocks' = Append(SubSeq(blocks, 1, Len(blocks) - 2),
         [first |-> b1.first, last |-> b2.last, yes |-> b1.yes + b2.yes, n |-> b1.n])
  /\ UNCHANGED <<samples, read, steps, pc>>

Pool ==
  /\ pc = "pool" /\ Violation
  /\ LET b1 == blocks[Len(blocks) - 1]
         b2 == Last(blocks) IN
       blocks' = Append(SubSeq(blocks, 1, Len(blocks) - 2),
         [first |-> b1.first, last |-> b2.last,
          yes |-> b1.yes + b2.yes, n |-> b1.n + b2.n])
  /\ UNCHANGED <<samples, read, steps, pc>>

-----------------------------------------------------------------------------
(* Steps: a level at which blocks begin or end has their weighted mean. *)

Touching(level) == {k \in DOMAIN blocks : level \in {blocks[k].first, blocks[k].last}}

Sizes == [k \in DOMAIN blocks |-> blocks[k].n]

Variant_StepAt_unweighted(level) ==
  LET b == blocks[Min(Touching(level))]
      c == blocks[Max(Touching(level))]
  IN  Midpoint(Value(b), Value(c))

StepAt(level) ==
  <<SumFunctionOnSet(Yes(blocks), Touching(level)), SumFunctionOnSet(Sizes, Touching(level))>>

Finish ==
  /\ pc = "pool" /\ ~Violation /\ read = Len(samples)
  /\ steps' = [level \in {l \in 1..Levels : Touching(l) # {}} |-> StepAt(level)]
  /\ pc' = "done"
  /\ UNCHANGED <<samples, read, blocks>>

(***************************************************************************)
(* IsotonicCalibrator.apply: halfway between the first step at or above p  *)
(* and the step before it. Probabilities lie between the levels too: p is  *)
(* twice a level, or the odd number between two.                           *)
(***************************************************************************)
Probabilities == 0..2 * Levels + 2

Above(p) == {level \in DOMAIN steps : p <= 2 * level}

Variant_Apply_high(p) ==
  LET above == Above(p)
      below == DOMAIN steps \ above
      low == IF below = {} THEN Min(DOMAIN steps) ELSE Max(below)
      high == IF above = {} THEN Min(DOMAIN steps) ELSE Min(above)
  IN  Midpoint(steps[low], steps[high])

Apply(p) ==
  LET above == Above(p)
      below == DOMAIN steps \ above
      low == IF below = {} THEN Min(DOMAIN steps) ELSE Max(below)
      high == IF above = {} THEN Max(DOMAIN steps) ELSE Min(above)
  IN  Midpoint(steps[low], steps[high])

Next == Push \/ Pool \/ Finish

Spec == Init /\ [][Next]_vars

=============================================================================
