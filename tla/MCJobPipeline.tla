----------------------------- MODULE MCJobPipeline -----------------------------
(***************************************************************************)
(* Small instances of JobPipeline: with STEP 2, a video of three frames    *)
(* has two samples, of which its header lets expect one.                   *)
(***************************************************************************)
EXTENDS JobPipeline, TLC

Uneven == {[frames |-> 3, header |-> 3]}

Short == {[frames |-> 1, header |-> 1]}

\* Jobs and classes are only compared for equality.
JobSymmetry == Permutations(Job) \cup Permutations(Label)
================================================================================
