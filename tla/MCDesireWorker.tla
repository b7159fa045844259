--------------------------- MODULE MCDesireWorker ---------------------------
(* Instances of DesireWorker for TLC.                                      *)
EXTENDS DesireWorker, TLC

TimerSymmetry == Permutations(Timers)
=============================================================================
