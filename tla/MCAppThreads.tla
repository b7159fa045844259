---------------------------- MODULE MCAppThreads ----------------------------
(* Instances of AppThreads for TLC: the constants are plain values, given  *)
(* in the configurations.                                                  *)
EXTENDS AppThreads
=============================================================================
