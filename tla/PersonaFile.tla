----------------------------- MODULE PersonaFile -----------------------------
(***************************************************************************)
(* persona_core.md: how the wizard writes a persona and how a start of the *)
(* program reads it (persona/persona_system.py).                           *)
(*                                                                         *)
(* As in SectionFile a text is a sequence of lines without the blank ones. *)
(* A field holds lines too, which may be blank, or begin a section of      *)
(* their own: the LLM writes what it likes.                                *)
(***************************************************************************)
EXTENDS SectionFile, SequencesExt

FIELD_MAP == <<"C1", "C2", "C3", "C4", "C5", "C6", "C7", "C8", "C9", "C10", "C11">>
Fields == {FIELD_MAP[i] : i \in DOMAIN FIELD_MAP}
REQUIRED_FIELDS == {"C1", "C4"}

\* The heading of the metadata, and the row of their table that counts.
Metadata == Heading("metadata")
Row(value) == [kind |-> "row", section |-> value, entry |-> 0]

\* A line of a field that holds nothing but white space.
Blank == [kind |-> "blank", section |-> "none", entry |-> 0]

PersonaLine == [kind : {"title", "hint", "heading", "subheading", "text", "row", "blank"},
                section : Fields \cup {"none", "other", "metadata", "frozen", "unfrozen"},
                entry : Nat]

NoFields == [c \in Fields |-> <<>>]

Visible(lines) ==
  FlattenSeq([i \in DOMAIN lines |-> IF lines[i] = Blank THEN <<>> ELSE <<lines[i]>>])

\* _render_persona_core for frozen metadata.  The first line of the name becomes
\* part of the title; the others follow it as they are.
Render(fields) ==
  <<Title>> \o Visible(SubSeq(fields["C1"], 2, Len(fields["C1"])))
    \o <<Metadata, Row("frozen")>>
    \o FlattenSeq([i \in DOMAIN FIELD_MAP |->
                    <<Heading(FIELD_MAP[i])>> \o Visible(fields[FIELD_MAP[i]])])

\* _parse_sections: the last section of a name counts.
ParseSections(text) ==
  [c \in Fields |->
    LET headings == {h \in DOMAIN text : text[h] = Heading(c)}
        last == Max(headings)
    IN  IF headings = {} THEN <<>>
        ELSE SubSeq(text, last + 1, last + Cardinality(Body(text, last)))]

\* _parse_metadata: the first section of that name counts, and its last row.
IsFrozen(text) ==
  LET headings == {h \in DOMAIN text : text[h] = Metadata}
      rows == {i \in Body(text, Min(headings)) : text[i].kind = "row"}
  IN  headings # {} /\ rows # {} /\ text[Max(rows)] = Row("frozen")

\* load_persona_core: a text that cannot be decoded, and one without a required
\* field, is no persona.
IsPersona(text) ==
  /\ \A i \in DOMAIN text : text[i] # Broken
  /\ \A c \in REQUIRED_FIELDS : ParseSections(text)[c] # <<>>

\* What a write that was cut short leaves: nothing, the first half, all but the last
\* line, or a text that ends within a character.
CutTexts(text) ==
  {SubSeq(text, 1, n) : n \in {0, Len(text) \div 2, Len(text) - 1}} \cup {<<Broken>>}

-----------------------------------------------------------------------------
(* What holds for the fields whatever the others contain.                  *)

\* No line of the field begins a section, and no line of a field is the heading of
\* this one.
Undisturbed(fields, c) ==
  /\ \A i \in DOMAIN fields[c] : fields[c][i].kind # "heading"
  /\ \A d \in Fields : \A i \in DOMAIN fields[d] : fields[d][i] # Heading(c)

ReadsAsWritten(fields, text) ==
  /\ \A c \in Fields : Undisturbed(fields, c) => ParseSections(text)[c] = Visible(fields[c])
  /\ (\A i \in DOMAIN fields["C1"] : fields["C1"][i] # Metadata) => IsFrozen(text)
=============================================================================
