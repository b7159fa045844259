-------------------------- MODULE MCTrendsProposal --------------------------
(* Instances of SelfEditing, the proposals and the files they go to, for TLC. *)
EXTENDS SelfEditing
=============================================================================
