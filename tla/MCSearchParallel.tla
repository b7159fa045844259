-------------------------- MODULE MCSearchParallel --------------------------
(* Instances of HaikuEngine for TLC; the other constants are given by the cfg. *)
EXTENDS HaikuEngine

\* A value of every type, below, at, between and above the bounds of the fields.
MCRaws ==
  {Yes, Whole(-1), Whole(0), Whole(1), Whole(3), Decimal(5), Decimal(150), Nan, Inf,
   Str("local"), Other}
=============================================================================
