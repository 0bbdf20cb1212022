-------------------------- MODULE MCResultAggregator --------------------------
(***************************************************************************)
(* A small instance of ResultAggregator: three kinds of report, one empty, *)
(* one with two objects of a class, one with a surer sight of one class    *)
(* and an object of the other.                                             *)
(***************************************************************************)
EXTENDS ResultAggregator, TLC

CONSTANTS person, car

MCLabel == {person, car}

Sight(p, pc, c, cc) ==
  [l \in MCLabel |-> IF l = person THEN [n |-> p, confidence |-> pc]
                     ELSE [n |-> c, confidence |-> cc]]

MCFindings == {Sight(0, 0, 0, 0), Sight(2, 1, 0, 0), Sight(1, 2, 1, 1)}

\* Frames and workers are only compared for equality.
ResultSymmetry == Permutations(Frame) \cup Permutations(Worker)
================================================================================
