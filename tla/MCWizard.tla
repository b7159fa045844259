------------------------------ MODULE MCWizard ------------------------------
(* An instance of Wizard for TLC. *)
EXTENDS Wizard

Named(c1, c4, c5) == [NoFields EXCEPT !["C1"] = c1, !["C4"] = c4, !["C5"] = c5]

\* A sound persona with a sub-heading; one whose core shows nothing; one with lines
\* that begin sections; one without a core.
MCAnswers ==
  {Named(<<Text(1)>>, <<Text(2)>>, <<Text(3), SubHeading(3), Text(4)>>),
   Named(<<Text(5)>>, <<Blank>>, <<>>),
   Named(<<Text(6), Metadata>>, <<Text(7)>>, <<Heading("other"), Heading("C4"), Blank>>),
   Named(<<Text(8)>>, <<>>, <<>>)}
=============================================================================
