------------------------------- MODULE Wizard -------------------------------
(***************************************************************************)
(* The setup wizard (gui/wizard_gui.py, persona/wizard.py) and the files   *)
(* it leaves for the next start of the program: persona_core.md,           *)
(* style_samples.md, the backup of the former, and persona_frozen in       *)
(* config.toml (persona/persona_system.py, main.py).                       *)
(*                                                                         *)
(* The main thread shows one screen at a time and runs the callbacks that  *)
(* the threads of the LLM calls post with root.after(0); a message box     *)
(* blocks the buttons but not these callbacks.  Files survive the process. *)
(*                                                                         *)
(* A persona is its fields and the number of its generation, which stands  *)
(* for its style samples; a question of the preview is a number.           *)
(***************************************************************************)
EXTENDS PersonaFile

CONSTANTS
  Answers,       \* the personas the LLM may write, whatever was asked
  MaxPersonas,   \* bound on the personas made, over all processes
  MaxQuestions,  \* bound on the questions of the preview, over all processes
  MaxFaults      \* bound on failed writes and crashes

ASSUME WizardAssumption ==
  /\ Answers \subseteq [Fields -> Seq(PersonaLine)]
  /\ {MaxPersonas, MaxQuestions, MaxFaults} \subseteq Nat

VARIABLES
  mode,        \* of the process
  step,        \* _current_step
  dialog,      \* the message box that is open
  processing,  \* _is_processing
  current,     \* _current_persona
  turns,       \* _preview_turns
  jobs,        \* the threads of LLM calls
  posted,      \* the callbacks given to root.after(0)
  core, backup,  \* persona_core.md and its copy: no text or one
  style,         \* the persona of style_samples.md: none, one, or 0 for a cut file
  configFrozen,  \* persona_frozen of config.toml
  made, asked,   \* the personas and questions so far
  abandoned,     \* history: the preview was left with the thread of an answer behind
  lastRan,       \* history: persona_core.md at the last normal start
  frozen,        \* history: the persona of the last freeze
  written,       \* history: how many of its three writes were done
  faults

screen == <<step, dialog, processing>>
preview == <<current, turns>>
threads == <<jobs, posted>>
files == <<core, style, backup, configFrozen>>
counts == <<made, asked>>
freezes == <<frozen, written>>
history == <<abandoned, lastRan, freezes>>
vars == <<mode, screen, preview, threads, files, counts, history, faults>>

Numbers == 0..MaxPersonas
NoPersona == [number |-> 0, fields |-> NoFields]
Questions == 0..MaxQuestions
Inputs == {"INPUT_A", "INPUT_B", "INPUT_C"}
Steps == Inputs \cup {"METHOD_SELECT", "GENERATING", "PREVIEW", "FREEZE_CONFIRM", "DONE"}

\* A thread of a generation, at the call it makes, or of a preview answer, which posts
\* twice.
Generating == {"expand_associations", "generate_candidates", "generate_style_samples",
               "reshape_free_description"}
Persona == [number : Numbers, fields : [Fields -> Seq(PersonaLine)]]
Job == [kind : Generating \cup {"answer", "unlock"}, persona : Persona, question : Questions]
Callback == [kind : {"done", "failed", "response", "error", "unlock"},
             persona : Persona, question : Questions]
TurnOf == [role : {"user", "assistant"}, question : Questions]

TypeOK ==
  /\ mode \in {"off", "wizard", "normal", "restarting", "refused"}
  /\ step \in Steps
  /\ dialog \in {"none", "error", "ask", "done"}
  /\ processing \in BOOLEAN
  /\ current \in Persona
  /\ turns \in Seq(TurnOf)
  /\ jobs \in SUBSET Job /\ posted \in Seq(Callback)
  /\ \A file \in {core, backup, lastRan} : \A s, t \in file : s = t
  /\ style \in SUBSET Numbers /\ configFrozen \in BOOLEAN
  /\ made \in Numbers /\ asked \in Questions
  /\ abandoned \in BOOLEAN /\ frozen \in Persona /\ written \in 0..3
  /\ faults \in 0..MaxFaults

FreshScreen == step' = "METHOD_SELECT" /\ dialog' = "none" /\ processing' = FALSE
FreshPreview == current' = NoPersona /\ turns' = <<>>

Init ==
  /\ mode = "off"
  /\ step = "METHOD_SELECT" /\ dialog = "none" /\ processing = FALSE
  /\ current = NoPersona /\ turns = <<>>
  /\ jobs = {} /\ posted = <<>>
  /\ core = {} /\ style = {} /\ backup = {} /\ configFrozen = FALSE
  /\ made = 0 /\ asked = 0
  /\ abandoned = FALSE /\ lastRan = {} /\ frozen = NoPersona /\ written = 0
  /\ faults = 0

Fault == faults < MaxFaults /\ faults' = faults + 1

-----------------------------------------------------------------------------
(* Starting and ending the process.                                        *)

\* load_persona_core: without a file the wizard starts, and what is no persona is
\* refused.
StartProcess ==
  /\ mode = "off"
  /\ \/ core = {} /\ mode' = "wizard" /\ UNCHANGED lastRan
     \/ \E text \in core :
          IF IsPersona(text) THEN mode' = "normal" /\ lastRan' = core
                             ELSE mode' = "refused" /\ UNCHANGED lastRan
  /\ UNCHANGED <<screen, preview, threads, files, counts, abandoned, freezes, faults>>

\* The threads are daemon threads: they end with the process.
Gone ==
  /\ mode' = "off"
  /\ FreshScreen /\ FreshPreview
  /\ jobs' = {} /\ posted' = <<>>
  /\ abandoned' = FALSE
  /\ UNCHANGED <<files, counts, lastRan, freezes>>

\* The window of the wizard is closed, or the normal process ends.
CloseWindow ==
  /\ mode \in {"wizard", "normal", "refused"} /\ dialog = "none"
  /\ Gone /\ UNCHANGED faults

Crash ==
  /\ mode # "off"
  /\ Gone /\ Fault

\* Slip: the file is moved away before it is copied.
BackupCoreLate ==
  /\ mode = "normal"
  /\ core' = {} /\ mode' = "restarting" /\ UNCHANGED <<backup, faults>>
  /\ UNCHANGED <<screen, preview, threads, style, configFrozen, counts, history>>

\* _wizard_restart: copy persona_core.md, then remove it, then end.  A failure
\* leaves the application running.
BackupCore ==
  /\ mode = "normal"
  /\ \/ backup' = core /\ mode' = "restarting" /\ UNCHANGED faults
     \/ backup' \in {{cut} : cut \in UNION {CutTexts(text) : text \in core}}
        /\ Fault /\ UNCHANGED mode
  /\ UNCHANGED <<screen, preview, threads, core, style, configFrozen, counts, history>>

RemoveCore ==
  /\ mode = "restarting"
  /\ \/ core' = {} /\ mode' = "off" /\ UNCHANGED faults
     \/ UNCHANGED core /\ Fault /\ mode' = "normal"
  /\ UNCHANGED <<screen, preview, threads, style, backup, configFrozen, counts, history>>

-----------------------------------------------------------------------------
(* Screens.                                                                *)

Clickable == mode = "wizard" /\ dialog = "none"

\* The thread of an answer, or one of its callbacks, is still to come.
AnswerDue ==
  \/ \E j \in jobs : j.kind \in {"answer", "unlock"}
  \/ \E i \in DOMAIN posted : posted[i].kind \in {"response", "error", "unlock"}

\* _show_method_select
ShowMethodSelect ==
  /\ FreshScreen
  /\ abandoned' = (abandoned \/ AnswerDue)

SelectMethod ==
  /\ Clickable /\ step = "METHOD_SELECT"
  /\ step' \in Inputs
  /\ UNCHANGED <<mode, dialog, processing, preview, threads, files, counts, history, faults>>

\* Slip: the screen of the generation has a back button.
HasBackGenerating == step \in Inputs \cup {"PREVIEW", "GENERATING"}

\* The screens with a back button, or "Try again" of the preview.
HasBack == step \in Inputs \cup {"PREVIEW"}

Back ==
  /\ Clickable /\ HasBack
  /\ ShowMethodSelect
  /\ UNCHANGED <<mode, preview, threads, files, counts, lastRan, freezes, faults>>

\* Slip: the guard against repeated clicks is missing.
IdleAlways == TRUE

\* The guard against repeated clicks.
Idle == ~processing

\* _on_generate_a and _on_generate_b: one thread makes all the calls.
Generate ==
  /\ Clickable /\ step \in {"INPUT_A", "INPUT_B"}
  /\ Idle
  /\ made < MaxPersonas
  /\ made' = made + 1
  /\ processing' = TRUE /\ step' = "GENERATING"
  /\ jobs' = jobs \cup
       {[kind |-> IF step = "INPUT_A" THEN "expand_associations" ELSE "reshape_free_description",
         persona |-> [NoPersona EXCEPT !.number = made'], question |-> 0]}
  /\ UNCHANGED <<mode, dialog, preview, posted, files, asked, history, faults>>

\* _on_generation_done
ShowPreview(persona) ==
  /\ processing' = FALSE /\ step' = "PREVIEW"
  /\ current' = persona /\ turns' = <<>>

\* create_blank_persona: the name, the first person, the user, and a sentence.
BlankPersona == [c \in Fields |-> IF c \in {"C1", "C2", "C3", "C4"} THEN <<Hint>> ELSE <<>>]

\* _on_submit_c makes a persona without any call.
SubmitBlank ==
  /\ Clickable /\ step = "INPUT_C"
  /\ made < MaxPersonas
  /\ made' = made + 1
  /\ ShowPreview([number |-> made', fields |-> BlankPersona])
  /\ UNCHANGED <<mode, dialog, threads, files, asked, history, faults>>

\* _on_preview_send.  The thread reads the persona and the turns when it starts,
\* which is taken to be at once.
Send ==
  /\ Clickable /\ step = "PREVIEW"
  /\ Idle
  /\ asked < MaxQuestions
  /\ asked' = asked + 1
  /\ processing' = TRUE
  /\ turns' = Append(turns, [role |-> "user", question |-> asked'])
  /\ jobs' = jobs \cup {[kind |-> "answer", persona |-> NoPersona, question |-> asked']}
  /\ UNCHANGED <<mode, step, dialog, current, posted, files, made, history, faults>>

\* _on_confirm opens the question box.
Confirm ==
  /\ Clickable /\ step = "PREVIEW"
  /\ step' = "FREEZE_CONFIRM" /\ dialog' = "ask"
  /\ UNCHANGED <<mode, processing, preview, threads, files, counts, history, faults>>

-----------------------------------------------------------------------------
(* The threads of the LLM calls.                                           *)

Post(kind, j) ==
  posted' = Append(posted, [kind |-> kind, persona |-> j.persona, question |-> j.question])

\* The thread goes on to its next call.
GoesOn(j, next) ==
  /\ jobs' = (jobs \ {j}) \cup {next}
  /\ UNCHANGED posted

Ends(j, kind, persona) ==
  /\ jobs' = jobs \ {j}
  /\ Post(kind, [j EXCEPT !.persona = persona])

\* The call raises, or its response is no JSON of the right form, or lacks a field.
CallFails(j) == Ends(j, "failed", NoPersona)

ExpandAssociations(j) ==
  /\ j.kind = "expand_associations"
  /\ GoesOn(j, [j EXCEPT !.kind = "generate_candidates"]) \/ CallFails(j)
  /\ UNCHANGED <<mode, screen, preview, files, counts, history, faults>>

\* _dict_to_persona_core takes a blank field for one that is there.
Accepted(fields) == \A c \in REQUIRED_FIELDS : fields[c] # <<>>

\* Slip: a generation without candidates ends without a callback.
GenerateCandidatesSilent(j) ==
  /\ j.kind = "generate_candidates"
  /\ \/ \E fields \in {answer \in Answers : Accepted(answer)} :
          GoesOn(j, [j EXCEPT !.kind = "generate_style_samples",
                              !.persona = [j.persona EXCEPT !.fields = fields]])
     \/ jobs' = jobs \ {j} /\ UNCHANGED posted
  /\ UNCHANGED <<mode, screen, preview, files, counts, history, faults>>

\* One bad candidate spoils them all; the first is taken.
GenerateCandidates(j) ==
  /\ j.kind = "generate_candidates"
  /\ \/ \E fields \in {answer \in Answers : Accepted(answer)} :
          GoesOn(j, [j EXCEPT !.kind = "generate_style_samples",
                              !.persona = [j.persona EXCEPT !.fields = fields]])
     \/ CallFails(j)
  /\ UNCHANGED <<mode, screen, preview, files, counts, history, faults>>

GenerateStyleSamples(j) ==
  /\ j.kind = "generate_style_samples"
  /\ Ends(j, "done", j.persona) \/ CallFails(j)
  /\ UNCHANGED <<mode, screen, preview, files, counts, history, faults>>

ReshapeFreeDescription(j) ==
  /\ j.kind = "reshape_free_description"
  /\ \/ \E fields \in {answer \in Answers : Accepted(answer)} :
          Ends(j, "done", [j.persona EXCEPT !.fields = fields])
     \/ CallFails(j)
  /\ UNCHANGED <<mode, screen, preview, files, counts, history, faults>>

EndGeneration(j) ==
  \/ ExpandAssociations(j) \/ GenerateCandidates(j) \/ GenerateStyleSamples(j)
  \/ ReshapeFreeDescription(j)

EndAnswer(j) ==
  /\ j.kind = "answer"
  /\ Post("response", j) \/ Post("error", j)
  /\ jobs' = (jobs \ {j}) \cup {[j EXCEPT !.kind = "unlock"]}
  /\ UNCHANGED <<mode, screen, preview, files, counts, history, faults>>

\* The finally clause of the thread.
PostUnlock(j) ==
  /\ j.kind = "unlock"
  /\ Post("unlock", j)
  /\ jobs' = jobs \ {j}
  /\ UNCHANGED <<mode, screen, preview, files, counts, history, faults>>

-----------------------------------------------------------------------------
(* The callbacks, in the order in which they were posted.                  *)

\* The main loop runs the oldest callback.
Runs(kind) ==
  /\ mode = "wizard"
  /\ posted # <<>> /\ Head(posted).kind = kind
  /\ posted' = Tail(posted)
  /\ UNCHANGED <<mode, jobs, files, counts, history, faults>>

GenerationDone ==
  /\ Runs("done")
  /\ ShowPreview(Head(posted).persona)
  /\ UNCHANGED dialog

GenerationError ==
  /\ Runs("failed")
  /\ processing' = FALSE /\ dialog' = "error"
  /\ UNCHANGED <<step, preview>>

\* _on_preview_response: without the text widget of a preview it raises before
\* the turn is stored.
PreviewResponse ==
  /\ Runs("response")
  /\ turns' = IF step \in {"PREVIEW", "FREEZE_CONFIRM", "DONE"}
              THEN Append(turns, [role |-> "assistant", question |-> Head(posted).question])
              ELSE turns
  /\ UNCHANGED <<screen, current>>

PreviewError ==
  /\ Runs("error")
  /\ UNCHANGED <<screen, preview>>

UnlockSend ==
  /\ Runs("unlock")
  /\ processing' = FALSE
  /\ UNCHANGED <<step, dialog, preview>>

-----------------------------------------------------------------------------
(* The message boxes.                                                      *)

Dismiss ==
  /\ mode = "wizard"
  /\ dialog \in {"error", "ask"}
  /\ ShowMethodSelect
  /\ UNCHANGED <<mode, preview, threads, files, counts, lastRan, freezes, faults>>

\* Slip: style_samples.md is written only where there is none.
WriteFilesOnce(n) ==
  /\ n = 3
  /\ core' = {Render(current.fields)}
  /\ style' = IF style = {} THEN {current.number} ELSE style
  /\ configFrozen' = TRUE
  /\ frozen' = current /\ written' = n

\* freeze_persona and _set_persona_frozen: the first n of the three writes are
\* done.  Those of the Markdown files are not atomic.
WriteFiles(n) ==
  /\ \/ n >= 1 /\ core' = {Render(current.fields)}
     \/ n = 0 /\ UNCHANGED core
     \/ n = 0 /\ core' \in {{cut} : cut \in CutTexts(Render(current.fields))}
  /\ \/ style' = IF n >= 2 THEN {current.number} ELSE style
     \/ n = 1 /\ style' = {0}
  /\ configFrozen' = (configFrozen \/ n = 3)
  /\ frozen' = current /\ written' = n

\* "Yes": on any failure the error box leads back to the first screen.
Freeze ==
  /\ mode = "wizard" /\ dialog = "ask"
  /\ \E n \in 0..3 :
       /\ WriteFiles(n)
       /\ IF n = 3 THEN step' = "DONE" /\ dialog' = "done" /\ UNCHANGED faults
                   ELSE dialog' = "error" /\ Fault /\ UNCHANGED step
  /\ UNCHANGED <<mode, processing, preview, threads, backup, counts, abandoned, lastRan>>

\* The process dies after n of the writes.
CrashInFreeze ==
  /\ mode = "wizard" /\ dialog = "ask"
  /\ \E n \in 0..2 : WriteFiles(n)
  /\ mode' = "off" /\ FreshScreen /\ FreshPreview
  /\ jobs' = {} /\ posted' = <<>> /\ abandoned' = FALSE
  /\ Fault
  /\ UNCHANGED <<backup, counts, lastRan>>

\* The last box: root.quit().
Finish ==
  /\ mode = "wizard" /\ dialog = "done"
  /\ Gone /\ UNCHANGED faults

-----------------------------------------------------------------------------
Callbacks == GenerationDone \/ GenerationError \/ PreviewResponse \/ PreviewError \/ UnlockSend

JobStep(j) == EndGeneration(j) \/ EndAnswer(j) \/ PostUnlock(j)

Next ==
  \/ StartProcess \/ CloseWindow \/ Crash \/ BackupCore \/ RemoveCore
  \/ SelectMethod \/ Back \/ Generate \/ SubmitBlank \/ Send \/ Confirm
  \/ \E j \in jobs : JobStep(j)
  \/ Callbacks
  \/ Dismiss \/ Freeze \/ CrashInFreeze \/ Finish

Spec == Init /\ [][Next]_vars

\* LLM calls have timeouts, and the main loop runs posted callbacks, a message
\* box or not.  The user does nothing by necessity.
FairSpec == Spec /\ WF_vars(\E j \in jobs : JobStep(j)) /\ WF_vars(Callbacks)

-----------------------------------------------------------------------------
(* Properties.                                                             *)

Generations ==
  Cardinality({j \in jobs : j.kind \in Generating})
    + Cardinality({i \in DOMAIN posted : posted[i].kind \in {"done", "failed"}})

\* A generation is awaited by the screen that waits for it, and there is only one:
\* no late result replaces a persona that is previewed or being confirmed, although
\* _on_generation_done does not look at the step (wizard_gui.py:276-312, 469-488).
GenerationIsAwaited ==
  /\ Generations <= 1
  /\ Generations = 1 => step = "GENERATING" /\ dialog = "none"

\* Unless a preview was left with the thread of an answer, or one of its callbacks,
\* still to come, every answer stands right behind the question it answers, failed
\* calls and message boxes included (wizard_gui.py:566-606).
AnswerFollowsQuestion ==
  ~abandoned =>
    \A i \in DOMAIN turns :
      turns[i].role = "assistant" =>
        i > 1 /\ turns[i - 1] = [turns[i] EXCEPT !.role = "user"]

\* persona_core.md of the last normal session is not lost by a restart of the wizard,
\* whatever fails or crashes until another persona runs (main.py:435-441).
RanPersonaSurvives == lastRan # {} => core = lastRan \/ backup = lastRan

\* What a start reads is what the wizard has frozen: every field in which no line, and
\* no line of another, begins a section, the frozen state, and the style samples of
\* this persona and not of a former one; and it is refused exactly when a required
\* field shows nothing.  So it is unless the last freeze was broken off in its files
\* (wizard.py:497-524, persona_system.py:226-318, 525-654).
SessionIsAsFrozen ==
  mode \in {"normal", "refused"} /\ written >= 2 =>
    \E text \in core :
      /\ ReadsAsWritten(frozen.fields, text)
      /\ style = {frozen.number}
      /\ written = 3 => configFrozen
      /\ (\A c \in REQUIRED_FIELDS : Undisturbed(frozen.fields, c)) =>
           (mode = "normal" <=> \A c \in REQUIRED_FIELDS : Visible(frozen.fields[c]) # <<>>)

\* The screen that has no button is left (wizard_gui.py:286-312, 437-488).
GeneratingEnds ==
  step = "GENERATING" ~> (step # "GENERATING" \/ dialog = "error")
=============================================================================
