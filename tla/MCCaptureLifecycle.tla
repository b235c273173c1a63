------------------------- MODULE MCCaptureLifecycle -------------------------
(* Instances of CaptureLifecycle for TLC. *)
EXTENDS CaptureLifecycle, TLC

\* Stop invocations are interchangeable.
CallSymmetry == Permutations(Calls)
=============================================================================
