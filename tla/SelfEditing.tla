----------------------------- MODULE SelfEditing -----------------------------
(***************************************************************************)
(* The files that the mascot writes about the user and about itself,       *)
(* human_block.md and personality_trends.md, over several sessions: the    *)
(* startup loads them into the prompt or creates them (main.py), and every *)
(* turn appends the updates of the response and the approved proposal      *)
(* (AgentCore.process_turn, persona/persona_system.py).                    *)
(*                                                                         *)
(* Files are rewritten in place: a fault in the middle of a write leaves   *)
(* the beginning of the new text.  A crash in the middle of a write is     *)
(* that fault followed by Crash.  Operations that fail without a change    *)
(* and are only logged are stuttering steps.                               *)
(***************************************************************************)
EXTENDS TrendsProposal, SectionFile, HumanBlockUpdate

CONSTANTS
  MaxLines,    \* bound on the lines of an update block
  MaxEntries,  \* bound on the entries stored over all sessions
  MaxFaults    \* bound on the failing reads and writes

ASSUME EditAssumption == MaxLines \in Nat /\ MaxEntries \in Nat /\ MaxFaults \in Nat

VARIABLES
  phase,    \* where the process is: "off", "loading", "idle", "updates"
  text,     \* the contents of the files
  present,  \* the files that exist
  torn,     \* history: the files of which a write was cut short
  stored,   \* history: the entries whose writing was begun; an entry's number is its index
  knows,    \* the entries in the prompt of this session
  blind,    \* the files whose loading failed in this session
  base,     \* how many entries were stored before this session
  faults

files == <<text, present, torn, stored>>
editVars == <<vars, files, phase, knows, blind, base, faults>>

Entry == [file : Files, section : {"basic", "likes", "habits", "T1", "T2", "T3"},
          proposal : 0..MaxTurns, plain : BOOLEAN]

\* What one update asks for: the section, and for each line of the content the
\* section whose heading it is.
Updates ==
  {[section |-> u.section,
    shape |-> [i \in DOMAIN u.content |->
                 IF u.content[i] \in DOMAIN HeadingLine THEN HeadingLine[u.content[i]] ELSE "text"]] :
     u \in Accepted(MaxLines)}

UpdateLines(u, k) ==
  [i \in DOMAIN u.shape |-> IF u.shape[i] = "text" THEN Text(k) ELSE Heading(u.shape[i])]

\* format_entry_for_trends.  The text of a proposal is one line, or all the lines
\* between the delimiters when none of them begins with the label of the text.
ProposalLines(k) ==
  {<<SubHeading(k), Text(k)>>}
    \cup {<<SubHeading(k), Text(k), Heading("T2"), Text(k)>>}

IsPlain(lines) == \A i \in DOMAIN lines : lines[i].kind # "heading"

Readable(f) == f \in present /\ \A i \in DOMAIN text[f] : text[f][i] # Broken

EditInit ==
  /\ Init
  /\ phase = "off"
  /\ text = [f \in Files |-> <<>>]
  /\ present = {}
  /\ torn = {}
  /\ stored = <<>>
  /\ knows = [f \in Files |-> {}]
  /\ blind = {}
  /\ base = 0
  /\ faults = 0

-----------------------------------------------------------------------------
(* Reading and writing.                                                    *)

Fault == faults < MaxFaults /\ faults' = faults + 1

\* write_text that fails: nothing is left, the first half of the new text, or a
\* text that ends within a character.
Cut(f, new) ==
  /\ Fault
  /\ \E rest \in {<<>>, SubSeq(new, 1, Len(new) \div 2), <<Broken>>} :
       text' = [text EXCEPT ![f] = rest]
  /\ present' = present \cup {f}
  /\ torn' = torn \cup {f}

\* update_human_block, append_personality_trends: the entry is written, or the
\* write is cut short.
Store(f, s, lines, proposal, written) ==
  /\ Len(stored) < MaxEntries
  /\ Readable(f)
  /\ \E new \in Appended(text[f], s, lines) :
       IF written
       THEN text' = [text EXCEPT ![f] = new] /\ UNCHANGED <<present, torn, faults>>
       ELSE Cut(f, new)
  /\ stored' = Append(stored, [file |-> f, section |-> s, proposal |-> proposal,
                               plain |-> IsPlain(lines)])

\* The read fails, or the heading is missing.
StoreRefused(f, s) ==
  /\ UNCHANGED files
  /\ \/ Fault
     \/ /\ ~Readable(f) \/ Appended(text[f], s, <<>>) = {}
        /\ UNCHANGED faults

\* The end of a session; the next process begins with a new SessionContext and a
\* new TrendsProposalManager.
Ends ==
  /\ NewSession
  /\ phase' = "off"
  /\ knows' = [f \in Files |-> {}]
  /\ blind' = {}
  /\ base' = Len(stored)

-----------------------------------------------------------------------------
(* Startup: first human_block.md, then personality_trends.md.              *)

LoadPhase == [human |-> "off", trends |-> "loading"]
LoadedPhase == [human |-> "loading", trends |-> "idle"]

\* The trends are left out of the prompt when they are empty.
InPrompt(f) == IF f = "trends" /\ TrendsEmpty(text[f]) THEN {} ELSE EntriesIn(text[f])

LoadText(f) ==
  /\ Readable(f)
  /\ knows' = [knows EXCEPT ![f] = InPrompt(f)]
  /\ UNCHANGED <<files, blind, faults>>

\* Slip: the template is returned and not written.
CreateInMemory(f) == f \notin present /\ UNCHANGED <<files, knows, blind, faults>>

CreateFromTemplate(f) ==
  /\ f \notin present
  /\ text' = [text EXCEPT ![f] = Template[f]]
  /\ present' = present \cup {f}
  /\ UNCHANGED <<torn, stored, knows, blind, faults>>

\* An error of the read is caught, one of the creation only for the trends.
LoadTemplate(f) ==
  /\ \/ f \in present /\ Fault /\ UNCHANGED files
     \/ /\ f = "trends" /\ f \notin present
        /\ (Fault /\ UNCHANGED files) \/ (Cut(f, Template[f]) /\ UNCHANGED stored)
  /\ blind' = blind \cup {f}
  /\ UNCHANGED knows

Load(f) ==
  /\ phase = LoadPhase[f]
  /\ phase' = LoadedPhase[f]
  /\ LoadText(f) \/ CreateFromTemplate(f) \/ LoadTemplate(f)
  /\ UNCHANGED <<vars, base>>

\* The exception ends the process: human_block.md cannot be created, or a file
\* holds half a character.
StartupFails(f) ==
  /\ phase = LoadPhase[f]
  /\ \/ f \in present /\ ~Readable(f) /\ UNCHANGED <<files, faults>>
     \/ /\ f = "human" /\ f \notin present
        /\ (Fault /\ UNCHANGED files) \/ (Cut(f, Template[f]) /\ UNCHANGED stored)
  /\ Ends

-----------------------------------------------------------------------------
(* A turn: the LLM answers, the updates are applied, then the proposal.    *)

Answer ==
  /\ phase = "idle" /\ messageCount < MaxTurns
  /\ phase' = "updates"
  /\ UNCHANGED <<vars, files, knows, blind, base, faults>>

AnswerFails ==
  /\ phase = "idle"
  /\ FailedTurn
  /\ UNCHANGED <<files, phase, knows, blind, base, faults>>

\* One update of _apply_human_block_updates; a response may hold several.
UpdateHuman(u) ==
  /\ phase = "updates"
  /\ \E written \in BOOLEAN :
       Store("human", u.section, UpdateLines(u, Len(stored) + 1), 0, written)
  /\ UNCHANGED <<vars, phase, knows, blind, base>>

\* _handle_trends_approval
HandleTrends(response, input) ==
  LET p == Parsed(response, messageCount + 1)
      approved == Judge(p, input, messageCount + 1) = "approved"
  IN  /\ phase = "updates"
      /\ phase' = "idle"
      /\ \/ ~approved /\ Turn(response, input, FALSE) /\ UNCHANGED <<files, faults>>
         \/ /\ approved
            /\ \E written \in BOOLEAN, lines \in ProposalLines(Len(stored) + 1) :
                 /\ Turn(response, input, written)
                 /\ Store("trends", p.section, lines, p.id, written)
         \/ approved /\ Turn(response, input, FALSE) /\ StoreRefused("trends", p.section)
      /\ UNCHANGED <<knows, blind, base>>

\* The application ends, in order or not, between two steps.
Crash ==
  /\ phase # "off"
  /\ Ends
  /\ UNCHANGED <<files, faults>>

EditNext ==
  \/ \E f \in Files : Load(f) \/ StartupFails(f)
  \/ Answer
  \/ AnswerFails
  \/ \E u \in Updates : UpdateHuman(u)
  \/ \E response \in Responses, input \in Input : HandleTrends(response, input)
  \/ Crash

EditSpec == EditInit /\ [][EditNext]_editVars

-----------------------------------------------------------------------------
(* Properties.                                                             *)

EditTypeOK ==
  /\ phase \in {"off", "loading", "idle", "updates"}
  /\ text \in [Files -> Seq(Line)]
  /\ present \in SUBSET Files
  /\ torn \in SUBSET present
  /\ stored \in Seq(Entry)
  /\ knows \in [Files -> SUBSET Nat]
  /\ blind \in SUBSET Files
  /\ base \in 0..Len(stored)
  /\ faults \in 0..MaxFaults

EntriesOf(f) == {k \in DOMAIN stored : stored[k].file = f}

\* No entry of the file brought headings of its own along.
AllPlain(f) == \A k \in EntriesOf(f) : stored[k].plain

\* An entry without heading lines is in its file, and all its lines are under the
\* heading of its section, whatever is appended later, to which section ever and
\* with whatever headings inside (persona_system.py:635-694); only a write that
\* was cut short may lose it.
Filed ==
  \A f \in Files \ torn : \A k \in EntriesOf(f) :
    stored[k].plain =>
      /\ \E i \in DOMAIN text[f] : text[f][i] = Text(k)
      /\ \A i \in LinesOf(text[f], k) : Under(text[f], i, stored[k].section)

\* The entries of a section are in the order in which they were stored, over all
\* sessions, as long as none of them brought headings along.
InOrder ==
  \A f \in Files \ torn : AllPlain(f) =>
    \A k, l \in EntriesOf(f) :
      k < l /\ stored[k].section = stored[l].section =>
        \A i \in LinesOf(text[f], k), j \in LinesOf(text[f], l) : i < j

\* The prompt of a session holds every entry of the sessions before: the trends
\* are not mistaken for empty, and a file is not replaced by its template
\* (main.py:343-355), unless the file was damaged or could not be read.
NextSessionKnows ==
  /\ phase \in {"loading", "idle", "updates"} /\ "human" \notin torn \cup blind =>
       {k \in EntriesOf("human") : k <= base /\ stored[k].plain} \subseteq knows["human"]
  /\ phase \in {"idle", "updates"} /\ "trends" \notin torn \cup blind =>
       {k \in EntriesOf("trends") : k <= base} \subseteq knows["trends"]

Approved == {history[i].id : i \in {i \in DOMAIN history : history[i].result = "approved"}}

\* The entries of the trends of this session.
FiledNow == {k \in EntriesOf("trends") : k > base}

\* The mascot writes about itself only what was approved, and that once, although
\* the approval is counted before the file is written and the write may fail
\* (agent_core.py:724-752); without faults every approved proposal is filed.
ApprovedIsFiled ==
  /\ \A k \in FiledNow : stored[k].proposal \in Approved
  /\ \A k, l \in FiledNow : stored[k].proposal = stored[l].proposal => k = l
  /\ faults = 0 => \A id \in Approved : \E k \in FiledNow : stored[k].proposal = id
=============================================================================
