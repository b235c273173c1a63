---------------------------- MODULE MCRetention ----------------------------
(* Instances of Retention for TLC. *)
EXTENDS Retention, TLC

CONSTANTS p1, p2, s1, s2, d1, d2

\* Two replicas of one sensor; s2 is another installation, or a retired one.
Replicas == [p \in {p1, p2} |-> s1]

\* What each sensor has learned before.
FirstDevices == {s1, s2} \X {d1}

\* The replicas are interchangeable.
ProcessSymmetry == Permutations(Processes)
=============================================================================
