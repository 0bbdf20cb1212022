----------------------------- MODULE MCFrameQueue -----------------------------
(***************************************************************************)
(* Small instances of FrameQueue for TLC.                                  *)
(***************************************************************************)
EXTENDS FrameQueue, TLC

\* Frames are interchangeable: nothing compares them or treats one specially.
FrameSymmetry == Permutations(Frame)
================================================================================
