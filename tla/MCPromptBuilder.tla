-------------------------- MODULE MCPromptBuilder --------------------------
(* Instances of PromptBuilder for TLC; its constants are given by the cfg. *)
EXTENDS PromptBuilder
=============================================================================
