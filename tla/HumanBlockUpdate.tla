--------------------------- MODULE HumanBlockUpdate ---------------------------
(***************************************************************************)
(* agent/human_block_updater.py: what an update block of a response asks   *)
(* to store about the user, and the guard rails it must pass.              *)
(*                                                                         *)
(* A block is a sequence of lines; a line names a section, begins the      *)
(* content, does both ("section: content"), or neither.  Of its content a  *)
(* line has the words that the guard rails look for.                       *)
(***************************************************************************)
EXTENDS Integers, Sequences, FiniteSets

Valid == {"basic", "likes", "habits", "log"}

\* What a content line may hold: a plain fact, a guess, one or two words about
\* the moment, nothing, or a line that is itself a heading of human_block.md.
Words == {"fact", "guess", "yesterday", "today", "blank", "# likes"}

HeadingLine == [w \in {"# likes"} |-> "likes"]

\* The temporal keywords found in a word.  The test is by substring: the word
\* for "today" contains the one for "now".
Temporal == [w \in Words |->
  CASE w = "yesterday" -> {"yesterday"}
    [] w = "today" -> {"today", "now"}
    [] OTHER -> {}]

BlockLine ==
  [tag : {"section"}, section : Valid \cup {"unknown"}, word : {"blank"}]
    \cup [tag : {"content", "plain"}, section : {"none"}, word : Words]
    \cup [tag : {"both"}, section : Valid, word : Words]

Blocks(n) == UNION {[1..m -> BlockLine] : m \in 0..n}

-----------------------------------------------------------------------------
\* The first line of the content: "section: content" counts only until then.
BeginsContent(block, i) ==
  /\ block[i].tag \in {"content", "both"}
  /\ \A j \in 1..(i - 1) : block[j].tag \notin {"content", "both"}

\* The section is that of the last line that names one.
NamesSection(block, i) ==
  block[i].tag = "section" \/ (block[i].tag = "both" /\ BeginsContent(block, i))

SectionOf(block) ==
  {block[i].section : i \in {i \in DOMAIN block :
     NamesSection(block, i) /\ \A j \in (i + 1)..Len(block) : ~NamesSection(block, j)}}

\* From its first line on, every line that names no section is content.
ContentOf(block) ==
  LET Content == {i \in DOMAIN block : block[i].tag # "section"
                    /\ \E j \in 1..i : BeginsContent(block, j)}
  IN  [n \in 1..Cardinality(Content) |->
         block[CHOOSE i \in Content : Cardinality({j \in Content : j <= i}) = n].word]

\* parse_human_block_updates: the update of a block, or none.
ParseUpdate(block) ==
  {[section |-> s, content |-> ContentOf(block)] :
     s \in {s \in SectionOf(block) : ContentOf(block) # <<>>}}

WordsOf(update) == {update.content[i] : i \in DOMAIN update.content}

\* validate_update
IsValid(update) ==
  /\ update.section \in Valid \ {"log"}
  /\ "guess" \notin WordsOf(update)
  /\ Cardinality(UNION {Temporal[w] : w \in WordsOf(update)}) < 2
  /\ \E w \in WordsOf(update) : w # "blank"

\* What the guard rails let through of the blocks with at most n lines.
Accepted(n) == {u \in UNION {ParseUpdate(b) : b \in Blocks(n)} : IsValid(u)}
=============================================================================
