-------------------------- MODULE MCSignalPipeline --------------------------
(***************************************************************************)
(* Instances of SignalPipeline for TLC.                                    *)
(***************************************************************************)
EXTENDS SignalPipeline, TLC

CONSTANTS s1, s2, s3, c1, c2

OneSignal    == {s1}
TwoSignals   == {s1, s2}
ThreeSignals == {s1, s2, s3}
OneComponent  == {c1}
TwoComponents == {c1, c2}

\* All signals report the same component.
SameComponent == [s \in Signals |-> c1]

\* The third signal reports another component than the first two.
SplitComponents == [s \in Signals |-> IF s = s3 THEN c2 ELSE c1]

\* All signals are interchangeable then.
SameSymmetry == Permutations(Signals)
=============================================================================
