------------------------------ MODULE SectionFile ------------------------------
(***************************************************************************)
(* The texts of human_block.md and personality_trends.md, and what         *)
(* persona/persona_system.py does with a text: it appends an entry to a    *)
(* section and tells whether the trends are empty.                         *)
(*                                                                         *)
(* A text is a sequence of lines; blank lines are left out.  Entries have  *)
(* numbers.  A section runs from its heading to the next heading.  A line  *)
(* that was cut within a character cannot be decoded: Broken.              *)
(***************************************************************************)
EXTENDS Integers, Sequences

Files == {"human", "trends"}

\* The section that the code may never append to directly, in both files.
Log == "log"

SectionNames == [human |-> {"basic", "likes", "habits", Log},
                 trends |-> {"T1", "T2", "T3", Log}]

Title == [kind |-> "title", section |-> "none", entry |-> 0]
Hint == [kind |-> "hint", section |-> "none", entry |-> 0]
Heading(s) == [kind |-> "heading", section |-> s, entry |-> 0]
SubHeading(k) == [kind |-> "subheading", section |-> "none", entry |-> k]
Broken == [kind |-> "broken", section |-> "none", entry |-> 0]
Text(k) == [kind |-> "text", section |-> "none", entry |-> k]

Line == [kind : {"title", "hint", "heading", "subheading", "text", "broken"},
         section : {"none", "basic", "likes", "habits", "T1", "T2", "T3", Log},
         entry : Nat]

Template ==
  [human |-> <<Title, Heading("basic"), Hint, Heading("likes"), Heading("habits"), Heading(Log)>>,
   trends |-> <<Title, Heading("T1"), Hint, Heading("T2"), Heading("T3"), Heading(Log)>>]

\* Slip: the pattern takes the sub-headings of the entries for headings.
IsHeadingAny(line) == line.kind \in {"heading", "subheading"}

IsHeading(line) == line.kind = "heading"

\* The section that begins at line h ends with line e.
EndsAt(text, h, e) ==
  /\ e \in h..Len(text)
  /\ \A j \in (h + 1)..e : ~IsHeading(text[j])
  /\ e = Len(text) \/ IsHeading(text[e + 1])

FirstHeading(text, s, h) ==
  /\ h \in DOMAIN text /\ text[h] = Heading(s)
  /\ \A j \in 1..(h - 1) : text[j] # Heading(s)

\* Slip: the entry goes to the end of the file.
AppendedAtEnd(text, s, entry) ==
  {text \o entry : h \in {i \in DOMAIN text : FirstHeading(text, s, i)}}

\* _append_to_section: the text with the entry at the end of the first section of
\* that name; no text at all when the heading is missing.
Appended(text, s, entry) ==
  {SubSeq(text, 1, e) \o entry \o SubSeq(text, e + 1, Len(text)) :
     e \in {e \in 1..Len(text) : \E h \in 1..e : FirstHeading(text, s, h) /\ EndsAt(text, h, e)}}

\* The section a line belongs to.
Under(text, i, s) ==
  \E h \in 1..i : text[h] = Heading(s) /\ \A j \in (h + 1)..i : text[j].kind # "heading"

\* The lines between a heading and the next one.
Body(text, h) == {i \in (h + 1)..Len(text) : \A j \in (h + 1)..i : ~IsHeading(text[j])}

\* Slip: a section that begins with the hint counts as empty.
HasNothingFirst(text, h) == h + 1 \in Body(text, h) => text[h + 1] = Hint

HasNothing(text, h) == \A i \in Body(text, h) : i = h + 1 /\ text[i] = Hint

\* is_trends_empty: only the log holds anything but the hint.
TrendsEmpty(text) ==
  \A h \in DOMAIN text : IsHeading(text[h]) /\ text[h].section # Log => HasNothing(text, h)

LinesOf(text, k) == {i \in DOMAIN text : text[i].entry = k}

EntriesIn(text) == {text[i].entry : i \in DOMAIN text} \ {0}
=============================================================================
