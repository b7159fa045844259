-------------------------- MODULE MCAutonomousTurn --------------------------
(* Instances of AutonomousTurn for TLC.  Topics are spellings.             *)
EXTENDS AutonomousTurn

SpelledTopics == {"a", "A", "b", "c"}
SpelledLower == [t \in SpelledTopics |-> IF t = "A" THEN "a" ELSE t]
=============================================================================
