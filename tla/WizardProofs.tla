---------------------------- MODULE WizardProofs ----------------------------
(***************************************************************************)
(* Proofs about Wizard, for any answers of the LLM and any number of       *)
(* personas, questions, faults and processes.                              *)
(***************************************************************************)
EXTENDS Wizard, FiniteSetTheorems, WellFoundedInduction, TLAPS

-----------------------------------------------------------------------------
(* Type correctness.                                                       *)

\* The personas that are made.
LEMMA PersonaTyped ==
  /\ NoPersona \in Persona
  /\ \A n \in Numbers : [number |-> n, fields |-> BlankPersona] \in Persona
  /\ \A n \in Numbers : [NoPersona EXCEPT !.number = n] \in Persona
  /\ \A p \in Persona, fields \in Answers : [p EXCEPT !.fields = fields] \in Persona
<1>1. 0 \in Numbers
  BY WizardAssumption DEF Numbers
<1>2. NoFields \in [Fields -> Seq(PersonaLine)]
  BY DEF NoFields
<1>3. BlankPersona \in [Fields -> Seq(PersonaLine)]
  <2>1. Hint \in PersonaLine
    BY DEF PersonaLine, Hint
  <2> HIDE DEF PersonaLine, Hint
  <2>2. <<Hint>> \in Seq(PersonaLine) /\ <<>> \in Seq(PersonaLine)
    BY <2>1
  <2> QED
    BY <2>2 DEF BlankPersona
<1>4. Answers \subseteq [Fields -> Seq(PersonaLine)]
  BY WizardAssumption
<1> DEFINE Filled == [Fields -> Seq(PersonaLine)]
<1> HIDE DEF Filled
<1>5. NoFields \in Filled /\ BlankPersona \in Filled /\ Answers \subseteq Filled
  BY <1>2, <1>3, <1>4 DEF Filled
<1>6. Persona = [number : Numbers, fields : Filled]
  BY DEF Persona, Filled
<1> QED
  BY <1>1, <1>5, <1>6 DEF NoPersona

\* What becomes of a thread, and what it posts.
LEMMA JobTyped ==
  ASSUME NEW j \in Job
  PROVE  /\ \A kind \in Generating \cup {"answer", "unlock"} : [j EXCEPT !.kind = kind] \in Job
         /\ \A p \in Persona : [j EXCEPT !.persona = p] \in Job
         /\ \A kind \in Generating, p \in Persona :
              [j EXCEPT !.kind = kind, !.persona = p] \in Job
         /\ j.persona \in Persona
         /\ \A fields \in Answers : [j.persona EXCEPT !.fields = fields] \in Persona
<1>1. j.persona \in Persona
  BY DEF Job
<1>2. \A fields \in Answers : [j.persona EXCEPT !.fields = fields] \in Persona
  BY <1>1, PersonaTyped
<1> HIDE DEF Persona
<1> QED
  BY <1>1, <1>2 DEF Job

\* The types of each part of the state.
LEMMA ScreenTyped ==
  ASSUME TypeOK, [Next]_vars
  PROVE  /\ mode' \in {"off", "wizard", "normal", "restarting", "refused"}
         /\ step' \in Steps
         /\ dialog' \in {"none", "error", "ask", "done"}
         /\ processing' \in BOOLEAN
<1> QED
  BY DEF TypeOK, Next, vars, screen, preview, threads, files, counts, history, freezes, Steps, Inputs,
         StartProcess, CloseWindow, Crash, Gone, FreshScreen, FreshPreview, BackupCore, RemoveCore,
         SelectMethod, Back, ShowMethodSelect, Generate, SubmitBlank, ShowPreview, Send, Confirm,
         JobStep, EndGeneration, ExpandAssociations, GenerateCandidates, GenerateStyleSamples,
         ReshapeFreeDescription, EndAnswer, PostUnlock, Callbacks, Runs, GenerationDone,
         GenerationError, PreviewResponse, PreviewError, UnlockSend, Dismiss, Freeze,
         CrashInFreeze, Finish

\* What a thread posts.
LEMMA PostTyped ==
  ASSUME posted \in Seq(Callback), NEW j \in Job,
         NEW kind \in {"done", "failed", "response", "error", "unlock"}, Post(kind, j)
  PROVE  posted' \in Seq(Callback)
<1>1. [kind |-> kind, persona |-> j.persona, question |-> j.question] \in Callback
  BY DEF Job, Callback
<1> HIDE DEF Callback
<1> QED
  BY <1>1 DEF Post

LEMMA JobsTyped ==
  ASSUME jobs \subseteq Job, posted \in Seq(Callback), NEW j \in jobs, JobStep(j)
  PROVE  jobs' \subseteq Job /\ posted' \in Seq(Callback)
<1>0. j \in Job
  OBVIOUS
<1> HIDE DEF Job, Callback, Persona
<1>1. ASSUME NEW next \in Job, GoesOn(j, next) PROVE jobs' \subseteq Job /\ posted' \in Seq(Callback)
  BY <1>1 DEF GoesOn
<1>2. ASSUME NEW kind \in {"done", "failed"}, NEW p \in Persona, Ends(j, kind, p)
      PROVE  jobs' \subseteq Job /\ posted' \in Seq(Callback)
  <2>1. [j EXCEPT !.persona = p] \in Job
    BY <1>0, JobTyped
  <2>2. jobs' \subseteq Job /\ Post(kind, [j EXCEPT !.persona = p])
    BY <1>2 DEF Ends
  <2>3. posted' \in Seq(Callback)
    BY <2>1, <2>2, PostTyped, Zenon
  <2> QED
    BY <2>2, <2>3
<1>3. CallFails(j) => jobs' \subseteq Job /\ posted' \in Seq(Callback)
  BY <1>2, PersonaTyped DEF CallFails
<1>4. CASE ExpandAssociations(j)
  <2>1. [j EXCEPT !.kind = "generate_candidates"] \in Job
    BY <1>0, JobTyped DEF Generating
  <2> QED
    BY <1>1, <1>3, <1>4, <2>1, Zenon DEF ExpandAssociations
<1>5. CASE GenerateCandidates(j)
  <2>1. ASSUME NEW fields \in Answers
        PROVE  [j EXCEPT !.kind = "generate_style_samples",
                         !.persona = [j.persona EXCEPT !.fields = fields]] \in Job
    <3>1. [j.persona EXCEPT !.fields = fields] \in Persona
      BY <1>0, JobTyped
    <3>2. "generate_style_samples" \in Generating
      BY DEF Generating
    <3> QED
      BY <1>0, <3>1, <3>2, JobTyped
  <2>2. CASE CallFails(j)
    BY <1>3, <2>2
  <2>3. ASSUME NEW fields \in Answers,
               GoesOn(j, [j EXCEPT !.kind = "generate_style_samples",
                                   !.persona = [j.persona EXCEPT !.fields = fields]])
        PROVE  jobs' \subseteq Job /\ posted' \in Seq(Callback)
    BY <1>1, <2>1, <2>3, Zenon
  <2> QED
    BY <1>5, <2>2, <2>3, Zenon DEF GenerateCandidates
<1>6. CASE GenerateStyleSamples(j)
  BY <1>0, <1>2, <1>3, <1>6, JobTyped, Zenon DEF GenerateStyleSamples
<1>7. CASE ReshapeFreeDescription(j)
  <2>1. ASSUME NEW fields \in Answers, Ends(j, "done", [j.persona EXCEPT !.fields = fields])
        PROVE  jobs' \subseteq Job /\ posted' \in Seq(Callback)
    BY <1>0, <1>2, <2>1, JobTyped, Zenon
  <2> QED
    BY <1>3, <1>7, <2>1, Zenon DEF ReshapeFreeDescription
<1>8. CASE EndAnswer(j)
  <2>1. [j EXCEPT !.kind = "unlock"] \in Job
    BY <1>0, JobTyped
  <2>2. Post("response", j) => posted' \in Seq(Callback)
    BY <1>0, PostTyped
  <2>3. Post("error", j) => posted' \in Seq(Callback)
    BY <1>0, PostTyped
  <2> QED
    BY <1>8, <2>1, <2>2, <2>3 DEF EndAnswer
<1>9. CASE PostUnlock(j)
  <2>1. Post("unlock", j) => posted' \in Seq(Callback)
    BY <1>0, PostTyped
  <2> QED
    BY <1>9, <2>1 DEF PostUnlock
<1> QED
  BY <1>4, <1>5, <1>6, <1>7, <1>8, <1>9 DEF JobStep, EndGeneration

LEMMA ThreadsTyped ==
  ASSUME TypeOK, [Next]_vars
  PROVE  jobs' \subseteq Job /\ posted' \in Seq(Callback)
<1>0. jobs \subseteq Job /\ posted \in Seq(Callback)
  BY Zenon DEF TypeOK
<1>1. CASE Generate
  <2>1. made' \in Numbers
    BY <1>1, WizardAssumption DEF Generate, TypeOK, Numbers
  <2>2. [NoPersona EXCEPT !.number = made'] \in Persona /\ 0 \in Questions
    BY <2>1, PersonaTyped, WizardAssumption DEF Questions
  <2> DEFINE kind == IF step = "INPUT_A" THEN "expand_associations" ELSE "reshape_free_description"
             p == [NoPersona EXCEPT !.number = made']
  <2>3. kind \in Generating
    BY DEF Generating
  <2>4. jobs' = jobs \cup {[kind |-> kind, persona |-> p, question |-> 0]} /\ posted' = posted
    BY <1>1, Zenon DEF Generate
  <2> HIDE DEF kind, p
  <2>5. [kind |-> kind, persona |-> p, question |-> 0] \in Job
    BY <2>2, <2>3 DEF Job, p
  <2> QED
    BY <1>0, <2>4, <2>5, Zenon
<1>2. CASE Send
  <2>1. asked' \in Questions
    BY <1>2, WizardAssumption DEF Send, TypeOK, Questions
  <2>2. [kind |-> "answer", persona |-> NoPersona, question |-> asked'] \in Job
    BY <2>1, PersonaTyped DEF Job
  <2> QED
    BY <1>0, <1>2, <2>2, Zenon DEF Send
<1>3. ASSUME jobs' = {}, posted' = <<>> PROVE jobs' \subseteq Job /\ posted' \in Seq(Callback)
  BY <1>3
<1>4. CASE \/ StartProcess \/ BackupCore \/ RemoveCore \/ SelectMethod \/ Back \/ SubmitBlank
           \/ Confirm \/ Dismiss \/ Freeze \/ UNCHANGED vars
  <2>1. jobs' = jobs /\ posted' = posted
    BY <1>4, Zenon DEF StartProcess, BackupCore, RemoveCore, SelectMethod, Back, SubmitBlank, Confirm,
       Dismiss, Freeze, vars, threads
  <2> QED
    BY <1>0, <2>1
<1>5. CASE CloseWindow \/ Crash \/ CrashInFreeze \/ Finish
  BY <1>3, <1>5 DEF CloseWindow, Crash, CrashInFreeze, Finish, Gone
<1>6. CASE \E j \in jobs : JobStep(j)
  BY <1>0, <1>6, JobsTyped
<1>7. CASE Callbacks
  <2>1. posted # <<>> /\ posted' = Tail(posted) /\ jobs' = jobs
    BY <1>7 DEF Callbacks, GenerationDone, GenerationError, PreviewResponse, PreviewError, UnlockSend, Runs
  <2> HIDE DEF Callback
  <2>2. posted' \in Seq(Callback)
    BY <1>0, <2>1
  <2> QED
    BY <1>0, <2>1, <2>2
<1> QED
  BY <1>1, <1>2, <1>4, <1>5, <1>6, <1>7, Zenon DEF Next

LEMMA PreviewTyped ==
  ASSUME TypeOK, [Next]_vars
  PROVE  current' \in Persona /\ turns' \in Seq(TurnOf)
<1>0. current \in Persona /\ turns \in Seq(TurnOf) /\ posted \in Seq(Callback)
  BY Zenon DEF TypeOK
<1> DEFINE Goal == current' \in Persona /\ turns' \in Seq(TurnOf)
<1>1. CASE GenerationDone
  <2>1. Head(posted) \in Callback
    <3> HIDE DEF Callback
    <3> QED
      BY <1>0, <1>1 DEF GenerationDone, Runs
  <2>2. current' = Head(posted).persona /\ turns' = <<>>
    BY <1>1 DEF GenerationDone, ShowPreview
  <2> QED
    BY <2>1, <2>2 DEF Callback
<1>2. CASE SubmitBlank
  <2>1. made' \in Numbers
    BY <1>2, WizardAssumption DEF SubmitBlank, TypeOK, Numbers
  <2>2. current' = [number |-> made', fields |-> BlankPersona] /\ turns' = <<>>
    BY <1>2, Zenon DEF SubmitBlank, ShowPreview
  <2> QED
    BY <2>1, <2>2, PersonaTyped
<1>3. CASE Send
  <2>1. asked' \in Questions
    BY <1>3, WizardAssumption DEF Send, TypeOK, Questions
  <2>2. [role |-> "user", question |-> asked'] \in TurnOf
    BY <2>1 DEF TurnOf
  <2>3. turns' = Append(turns, [role |-> "user", question |-> asked']) /\ current' = current
    BY <1>3, Zenon DEF Send
  <2> HIDE DEF TurnOf, Persona
  <2> QED
    BY <1>0, <2>2, <2>3
<1>4. CASE PreviewResponse
  <2>1. Head(posted) \in Callback
    <3> HIDE DEF Callback
    <3> QED
      BY <1>0, <1>4 DEF PreviewResponse, Runs
  <2>2. [role |-> "assistant", question |-> Head(posted).question] \in TurnOf
    BY <2>1 DEF TurnOf, Callback
  <2>3. \/ turns' = turns
        \/ turns' = Append(turns, [role |-> "assistant", question |-> Head(posted).question])
    BY <1>4, Zenon DEF PreviewResponse
  <2>4. current' = current
    BY <1>4, Zenon DEF PreviewResponse
  <2> HIDE DEF TurnOf, Persona
  <2> QED
    BY <1>0, <2>2, <2>3, <2>4
<1>5. CASE \/ StartProcess \/ BackupCore \/ RemoveCore \/ SelectMethod \/ Back \/ Generate
           \/ Confirm \/ Dismiss \/ Freeze \/ UNCHANGED vars
  <2>1. current' = current /\ turns' = turns
    BY <1>5, Zenon DEF StartProcess, BackupCore, RemoveCore, SelectMethod, Back, Generate, Confirm,
       Dismiss, Freeze, vars, preview
  <2> QED
    BY <1>0, <2>1
<1>6. CASE CloseWindow \/ Crash \/ CrashInFreeze \/ Finish
  <2>1. current' = NoPersona /\ turns' = <<>>
    BY <1>6, Zenon DEF CloseWindow, Crash, CrashInFreeze, Finish, Gone, FreshPreview
  <2> QED
    BY <2>1, PersonaTyped
<1>7. CASE (\E j \in jobs : JobStep(j)) \/ GenerationError \/ PreviewError \/ UnlockSend
  <2>1. current' = current /\ turns' = turns
    BY <1>7, Zenon DEF JobStep, EndGeneration, ExpandAssociations, GenerateCandidates, GenerateStyleSamples,
       ReshapeFreeDescription, EndAnswer, PostUnlock, GenerationError, PreviewError, UnlockSend, preview
  <2> QED
    BY <1>0, <2>1
<1> HIDE DEF Goal
<1> QED
  BY <1>1, <1>2, <1>3, <1>4, <1>5, <1>6, <1>7, Zenon DEF Next, Callbacks, Goal

\* A file has no text or one.
FileOK(file) == \A s, t \in file : s = t

LEMMA FilesTyped ==
  ASSUME TypeOK, [Next]_vars
  PROVE  /\ FileOK(core') /\ FileOK(backup') /\ FileOK(lastRan')
         /\ style' \in SUBSET Numbers /\ configFrozen' \in BOOLEAN
<1>0. /\ FileOK(core) /\ FileOK(backup) /\ FileOK(lastRan)
      /\ style \in SUBSET Numbers /\ configFrozen \in BOOLEAN
  BY DEF TypeOK, FileOK
<1>1. FileOK({}) /\ \A text : FileOK({text})
  BY DEF FileOK
<1> HIDE DEF FileOK
<1>2. ASSUME NEW n \in 0..3, WriteFiles(n)
      PROVE  FileOK(core') /\ style' \in SUBSET Numbers /\ configFrozen' \in BOOLEAN
  <2>1. FileOK(core')
    BY <1>0, <1>1, <1>2 DEF WriteFiles
  <2>2. current.number \in Numbers /\ 0 \in Numbers
    BY WizardAssumption DEF TypeOK, Persona, Numbers
  <2>3. style' = style \/ style' = {current.number} \/ style' = {0}
    BY <1>2 DEF WriteFiles
  <2>4. configFrozen' = configFrozen \/ configFrozen' = TRUE
    BY <1>0, <1>2 DEF WriteFiles
  <2>5. style' \in SUBSET Numbers
    BY <1>0, <2>2, <2>3
  <2> QED
    BY <1>0, <2>1, <2>4, <2>5, Zenon
<1>3. CASE Freeze
  <2>1. backup' = backup /\ lastRan' = lastRan /\ \E n \in 0..3 : WriteFiles(n)
    BY <1>3, Zenon DEF Freeze
  <2> QED
    BY <1>0, <1>2, <2>1, Zenon
<1>4. CASE CrashInFreeze
  <2>1. backup' = backup /\ lastRan' = lastRan /\ \E n \in 0..2 : WriteFiles(n)
    BY <1>4, Zenon DEF CrashInFreeze
  <2>2. 0..2 \subseteq 0..3
    OBVIOUS
  <2> QED
    BY <1>0, <1>2, <2>1, <2>2, Zenon
<1>5. CASE BackupCore \/ RemoveCore
  <2>1. /\ core' = core \/ core' = {}
        /\ \/ backup' = backup \/ backup' = core
           \/ \E cut : backup' = {cut}
    BY <1>5 DEF BackupCore, RemoveCore
  <2>2. style' = style /\ configFrozen' = configFrozen /\ lastRan' = lastRan
    BY <1>5, Zenon DEF BackupCore, RemoveCore, history
  <2> QED
    BY <1>0, <1>1, <2>1, <2>2, Zenon
<1>6. CASE \/ StartProcess \/ CloseWindow \/ Crash \/ SelectMethod \/ Back \/ Generate \/ SubmitBlank
           \/ Send \/ Confirm \/ (\E j \in jobs : JobStep(j)) \/ Callbacks \/ Dismiss \/ Finish
           \/ UNCHANGED vars
  <2>1. /\ core' = core /\ style' = style /\ backup' = backup /\ configFrozen' = configFrozen
        /\ lastRan' = lastRan \/ lastRan' = core
    BY <1>6, Zenon DEF StartProcess, CloseWindow, Crash, SelectMethod, Back, Generate, SubmitBlank,
       Send, Confirm, JobStep, EndGeneration, ExpandAssociations, GenerateCandidates,
       GenerateStyleSamples, ReshapeFreeDescription, EndAnswer, PostUnlock, Callbacks, Runs,
       GenerationDone, GenerationError, PreviewResponse, PreviewError, UnlockSend, Dismiss, Finish,
       Gone, files, history, vars
  <2> QED
    BY <1>0, <2>1, Zenon
<1> QED
  BY <1>3, <1>4, <1>5, <1>6, Zenon DEF Next

LEMMA CountsTyped ==
  ASSUME TypeOK, [Next]_vars
  PROVE  /\ made' \in Numbers /\ asked' \in Questions /\ abandoned' \in BOOLEAN
         /\ frozen' \in Persona /\ written' \in 0..3 /\ faults' \in 0..MaxFaults
<1>0. /\ made \in Numbers /\ asked \in Questions /\ abandoned \in BOOLEAN
      /\ frozen \in Persona /\ written \in 0..3 /\ faults \in 0..MaxFaults /\ current \in Persona
  BY DEF TypeOK
<1> HIDE DEF Persona
<1>1. made' = made \/ (made < MaxPersonas /\ made' = made + 1)
  BY DEF Next, vars, counts, history, StartProcess, CloseWindow, Crash, Gone, BackupCore, RemoveCore,
         SelectMethod, Back, Generate, SubmitBlank, Send, Confirm, JobStep, EndGeneration,
         ExpandAssociations, GenerateCandidates, GenerateStyleSamples, ReshapeFreeDescription,
         EndAnswer, PostUnlock, Callbacks, Runs, GenerationDone, GenerationError, PreviewResponse,
         PreviewError, UnlockSend, Dismiss, Freeze, CrashInFreeze, Finish
<1>2. asked' = asked \/ (asked < MaxQuestions /\ asked' = asked + 1)
  BY DEF Next, vars, counts, history, StartProcess, CloseWindow, Crash, Gone, BackupCore, RemoveCore,
         SelectMethod, Back, Generate, SubmitBlank, Send, Confirm, JobStep, EndGeneration,
         ExpandAssociations, GenerateCandidates, GenerateStyleSamples, ReshapeFreeDescription,
         EndAnswer, PostUnlock, Callbacks, Runs, GenerationDone, GenerationError, PreviewResponse,
         PreviewError, UnlockSend, Dismiss, Freeze, CrashInFreeze, Finish
<1>3. abandoned' \in BOOLEAN
  BY <1>0 DEF Next, vars, history, StartProcess, CloseWindow, Crash, Gone, BackupCore, RemoveCore,
         SelectMethod, Back, ShowMethodSelect, Generate, SubmitBlank, Send, Confirm, JobStep,
         EndGeneration, ExpandAssociations, GenerateCandidates, GenerateStyleSamples,
         ReshapeFreeDescription, EndAnswer, PostUnlock, Callbacks, Runs, GenerationDone,
         GenerationError, PreviewResponse, PreviewError, UnlockSend, Dismiss, Freeze, CrashInFreeze,
         Finish
<1>4. frozen' \in Persona /\ written' \in 0..3
  <2>1. CASE Freeze
    <3>1. PICK n \in 0..3 : WriteFiles(n)
      BY <2>1, Zenon DEF Freeze
    <3> QED
      BY <1>0, <3>1 DEF WriteFiles
  <2>2. CASE CrashInFreeze
    <3>1. PICK n \in 0..2 : WriteFiles(n)
      BY <2>2, Zenon DEF CrashInFreeze
    <3> QED
      BY <1>0, <3>1 DEF WriteFiles
  <2>3. CASE ~Freeze /\ ~CrashInFreeze
    <3>1. frozen' = frozen /\ written' = written
      BY <2>3, Zenon DEF Next, vars, history, freezes, StartProcess, CloseWindow, Crash, Gone,
         BackupCore, RemoveCore, SelectMethod, Back, Generate, SubmitBlank, Send, Confirm, JobStep,
         EndGeneration, ExpandAssociations, GenerateCandidates, GenerateStyleSamples,
         ReshapeFreeDescription, EndAnswer, PostUnlock, Callbacks, Runs, GenerationDone,
         GenerationError, PreviewResponse, PreviewError, UnlockSend, Dismiss, Finish
    <3> QED
      BY <1>0, <3>1
  <2> QED
    BY <2>1, <2>2, <2>3
<1>5. faults' = faults \/ Fault
  BY DEF Next, vars, StartProcess, CloseWindow, Crash, BackupCore, RemoveCore,
         SelectMethod, Back, Generate, SubmitBlank, Send, Confirm, JobStep, EndGeneration,
         ExpandAssociations, GenerateCandidates, GenerateStyleSamples, ReshapeFreeDescription,
         EndAnswer, PostUnlock, Callbacks, Runs, GenerationDone, GenerationError, PreviewResponse,
         PreviewError, UnlockSend, Dismiss, Freeze, CrashInFreeze, Finish, history
<1>6. {MaxPersonas, MaxQuestions, MaxFaults} \subseteq Nat
  BY WizardAssumption
<1>7. made' \in Numbers /\ asked' \in Questions /\ faults' \in 0..MaxFaults
  BY <1>0, <1>1, <1>2, <1>5, <1>6 DEF Numbers, Questions, Fault
<1> QED
  BY <1>0, <1>3, <1>4, <1>7, Zenon

\* Every variable keeps its type, so a screen, a file and a thread are always what
\* the code takes them for.
THEOREM WizardTypes == Spec => []TypeOK
<1>1. Init => TypeOK
  <2> SUFFICES ASSUME Init PROVE TypeOK
    OBVIOUS
  <2>1. made \in Numbers /\ asked \in Questions /\ faults \in 0..MaxFaults /\ written \in 0..3
    BY WizardAssumption DEF Init, Numbers, Questions
  <2>6. abandoned \in BOOLEAN /\ configFrozen \in BOOLEAN /\ processing \in BOOLEAN
    BY Zenon DEF Init
  <2>2. current \in Persona /\ frozen \in Persona /\ turns \in Seq(TurnOf)
    BY PersonaTyped DEF Init
  <2>3. jobs \subseteq Job /\ posted \in Seq(Callback)
    BY DEF Init
  <2>4. \A file \in {core, backup, lastRan} : \A s, t \in file : s = t
    BY DEF Init
  <2>5. mode = "off" /\ step \in Steps /\ dialog = "none" /\ style \in SUBSET Numbers
    BY DEF Init, Steps
  <2> QED
    BY <2>1, <2>2, <2>3, <2>4, <2>5, <2>6 DEF TypeOK
<1>2. TypeOK /\ [Next]_vars => TypeOK'
  <2> SUFFICES ASSUME TypeOK, [Next]_vars PROVE TypeOK'
    OBVIOUS
  <2>1. \A file \in {core', backup', lastRan'} : \A s, t \in file : s = t
    BY FilesTyped DEF FileOK
  <2> HIDE DEF Persona, Job, Callback, TurnOf
  <2> QED
    BY <2>1, ScreenTyped, ThreadsTyped, PreviewTyped, FilesTyped, CountsTyped DEF TypeOK
<1> QED
  BY <1>1, <1>2, PTL DEF Spec

-----------------------------------------------------------------------------
(* The threads and their callbacks.                                        *)

\* What a step of a thread does to the threads and the callbacks.
JobMoves(j, n) ==
  /\ j.kind \in Generating /\ n.kind \in Generating
  /\ jobs' = (jobs \ {j}) \cup {n} /\ posted' = posted
JobResults(j, c) ==
  /\ j.kind \in Generating /\ c.kind \in {"done", "failed"}
  /\ jobs' = jobs \ {j} /\ posted' = Append(posted, c)
JobAnswers(j, n, c) ==
  /\ j.kind = "answer" /\ n.kind = "unlock" /\ c.kind \in {"response", "error"}
  /\ c.question = j.question
  /\ jobs' = (jobs \ {j}) \cup {n} /\ posted' = Append(posted, c)
JobUnlocks(j, c) ==
  /\ j.kind = "unlock" /\ c.kind = "unlock"
  /\ jobs' = jobs \ {j} /\ posted' = Append(posted, c)

LEMMA JobEffect ==
  ASSUME NEW j \in Job, JobStep(j)
  PROVE  /\ UNCHANGED <<mode, step, dialog, processing, turns, abandoned>>
         /\ \/ \E n \in Job : JobMoves(j, n)
            \/ \E c \in Callback : JobResults(j, c)
            \/ \E n \in Job, c \in Callback : JobAnswers(j, n, c)
            \/ \E c \in Callback : JobUnlocks(j, c)
<1> DEFINE Effect == \/ \E n \in Job : JobMoves(j, n)
                     \/ \E c \in Callback : JobResults(j, c)
                     \/ \E n \in Job, c \in Callback : JobAnswers(j, n, c)
                     \/ \E c \in Callback : JobUnlocks(j, c)
<1>0. UNCHANGED <<mode, step, dialog, processing, turns, abandoned>>
  BY DEF JobStep, EndGeneration, ExpandAssociations, GenerateCandidates, GenerateStyleSamples,
     ReshapeFreeDescription, EndAnswer, PostUnlock, screen, preview, history
<1>1. ASSUME NEW kind \in {"done", "failed", "response", "error", "unlock"}
      PROVE  /\ [kind |-> kind, persona |-> j.persona, question |-> j.question] \in Callback
             /\ \A p \in Persona :
                  [kind |-> kind, persona |-> p, question |-> j.question] \in Callback
  BY DEF Job, Callback
<1>2. ASSUME NEW kind \in {"done", "failed"}, NEW p \in Persona, j.kind \in Generating, Ends(j, kind, p)
      PROVE  Effect
  <2> DEFINE c == [kind |-> kind, persona |-> p, question |-> j.question]
  <2>1. c \in Callback /\ c.kind = kind
    BY <1>1
  <2>2. [j EXCEPT !.persona = p].persona = p /\ [j EXCEPT !.persona = p].question = j.question
    BY DEF Job
  <2>3. jobs' = jobs \ {j} /\ posted' = Append(posted, c)
    BY <1>2, <2>2, Zenon DEF Ends, Post
  <2> HIDE DEF c
  <2>4. JobResults(j, c)
    BY <1>2, <2>1, <2>3 DEF JobResults
  <2> QED
    BY <2>1, <2>4
<1>3. ASSUME NEW n \in Job, j.kind \in Generating, n.kind \in Generating, GoesOn(j, n) PROVE Effect
  <2>1. JobMoves(j, n)
    BY <1>3 DEF JobMoves, GoesOn
  <2> QED
    BY <2>1
<1>4. \A kind \in Generating \cup {"answer", "unlock"} :
        [j EXCEPT !.kind = kind] \in Job /\ [j EXCEPT !.kind = kind].kind = kind
  <2>1. \A kind : [j EXCEPT !.kind = kind].kind = kind
    BY DEF Job
  <2> QED
    BY <2>1, JobTyped
<1>5. ASSUME NEW fields \in Answers
      PROVE  /\ [j.persona EXCEPT !.fields = fields] \in Persona
             /\ [j EXCEPT !.kind = "generate_style_samples",
                          !.persona = [j.persona EXCEPT !.fields = fields]] \in Job
             /\ [j EXCEPT !.kind = "generate_style_samples",
                          !.persona = [j.persona EXCEPT !.fields = fields]].kind \in Generating
  <2>1. [j.persona EXCEPT !.fields = fields] \in Persona
    BY JobTyped
  <2>2. "generate_style_samples" \in Generating
    BY DEF Generating
  <2>3. \A p : [j EXCEPT !.kind = "generate_style_samples", !.persona = p].kind = "generate_style_samples"
    BY DEF Job
  <2> HIDE DEF Persona, Job
  <2> QED
    BY <2>1, <2>2, <2>3, JobTyped
<1>6. j.persona \in Persona /\ NoPersona \in Persona
  BY PersonaTyped DEF Job
<1> SUFFICES Effect
  BY <1>0
<1> HIDE DEF Effect, Job, Callback, Persona
<1>7. CASE ExpandAssociations(j)
  <2>1. j.kind \in Generating /\ "generate_candidates" \in Generating
    BY <1>7 DEF ExpandAssociations, Generating
  <2> QED
    BY <1>2, <1>3, <1>4, <1>6, <1>7, <2>1 DEF ExpandAssociations, CallFails
<1>8. CASE GenerateCandidates(j)
  <2>1. j.kind \in Generating
    BY <1>8 DEF GenerateCandidates, Generating
  <2>2. CallFails(j) => Effect
    BY <1>2, <1>6, <2>1 DEF CallFails
  <2>3. ASSUME NEW fields \in Answers,
               GoesOn(j, [j EXCEPT !.kind = "generate_style_samples",
                                   !.persona = [j.persona EXCEPT !.fields = fields]])
        PROVE  Effect
    BY <1>3, <1>5, <2>1, <2>3, Zenon
  <2> QED
    BY <1>8, <2>2, <2>3, Zenon DEF GenerateCandidates
<1>9. CASE GenerateStyleSamples(j)
  <2>1. j.kind \in Generating
    BY <1>9 DEF GenerateStyleSamples, Generating
  <2> QED
    BY <1>2, <1>6, <1>9, <2>1 DEF GenerateStyleSamples, CallFails
<1>10. CASE ReshapeFreeDescription(j)
  <2>1. j.kind \in Generating
    BY <1>10 DEF ReshapeFreeDescription, Generating
  <2>2. CallFails(j) => Effect
    BY <1>2, <1>6, <2>1 DEF CallFails
  <2>3. ASSUME NEW fields \in Answers, Ends(j, "done", [j.persona EXCEPT !.fields = fields])
        PROVE  Effect
    BY <1>2, <1>5, <2>1, <2>3, Zenon
  <2> QED
    BY <1>10, <2>2, <2>3, Zenon DEF ReshapeFreeDescription
<1>11. CASE EndAnswer(j)
  <2>1. PICK kind \in {"response", "error"} : Post(kind, j)
    BY <1>11 DEF EndAnswer
  <2> DEFINE n == [j EXCEPT !.kind = "unlock"]
             c == [kind |-> kind, persona |-> j.persona, question |-> j.question]
  <2>2. n \in Job /\ n.kind = "unlock"
    BY <1>4
  <2>3. c \in Callback /\ c.kind = kind /\ c.question = j.question
    BY <1>1
  <2>4. jobs' = (jobs \ {j}) \cup {n} /\ posted' = Append(posted, c) /\ j.kind = "answer"
    BY <1>11, <2>1, Zenon DEF EndAnswer, Post
  <2> HIDE DEF n, c
  <2>5. JobAnswers(j, n, c)
    BY <2>1, <2>2, <2>3, <2>4 DEF JobAnswers
  <2> QED
    BY <2>2, <2>3, <2>5 DEF Effect
<1>12. CASE PostUnlock(j)
  <2> DEFINE c == [kind |-> "unlock", persona |-> j.persona, question |-> j.question]
  <2>1. c \in Callback /\ c.kind = "unlock"
    BY <1>1
  <2>2. jobs' = jobs \ {j} /\ posted' = Append(posted, c) /\ j.kind = "unlock"
    BY <1>12, Zenon DEF PostUnlock, Post
  <2> HIDE DEF c
  <2>3. JobUnlocks(j, c)
    BY <2>1, <2>2 DEF JobUnlocks
  <2> QED
    BY <2>1, <2>3 DEF Effect
<1> QED
  BY <1>7, <1>8, <1>9, <1>10, <1>11, <1>12 DEF JobStep, EndGeneration

\* Of the generations there is one at most, a thread or its callback, and the screen
\* waits for it.
AwaitInv ==
  /\ \A j, k \in jobs : j.kind \in Generating /\ k.kind \in Generating => j = k
  /\ \A i, k \in DOMAIN posted :
       posted[i].kind \in {"done", "failed"} /\ posted[k].kind \in {"done", "failed"} => i = k
  /\ \A j \in jobs, i \in DOMAIN posted :
       j.kind \in Generating => posted[i].kind \notin {"done", "failed"}
  /\ (\/ \E j \in jobs : j.kind \in Generating
      \/ \E i \in DOMAIN posted : posted[i].kind \in {"done", "failed"}) =>
       step = "GENERATING" /\ dialog = "none"

LEMMA AwaitKept ==
  ASSUME AwaitInv, UNCHANGED <<jobs, posted>>,
         (step' = step /\ dialog' = dialog) \/ step # "GENERATING" \/ dialog # "none"
  PROVE  AwaitInv'
BY DEF AwaitInv

LEMMA AwaitEmpty ==
  ASSUME jobs' = {}, posted' = <<>>
  PROVE  AwaitInv'
BY DEF AwaitInv

\* The other end of a sequence.
LEMMA AtTheEnd ==
  ASSUME NEW s \in Seq(Callback), NEW c \in Callback
  PROVE  /\ DOMAIN Append(s, c) = DOMAIN s \cup {Len(s) + 1}
         /\ Append(s, c)[Len(s) + 1] = c
         /\ \A i \in DOMAIN s : Append(s, c)[i] = s[i]
         /\ Len(s) + 1 \notin DOMAIN s /\ \A i \in DOMAIN s : i < Len(s) + 1
<1> HIDE DEF Callback
<1> QED
  OBVIOUS

LEMMA Shifted ==
  ASSUME NEW s \in Seq(Callback), s # <<>>
  PROVE  /\ Head(s) = s[1] /\ 1 \in DOMAIN s
         /\ \A i \in DOMAIN Tail(s) : i \in Nat /\ i + 1 \in DOMAIN s /\ Tail(s)[i] = s[i + 1] /\ i + 1 # 1
         /\ \A i \in DOMAIN s : i \in Nat /\ (i # 1 => i - 1 \in DOMAIN Tail(s))
         /\ \A i \in DOMAIN s : i # 1 => Tail(s)[i - 1] = s[i]
<1> HIDE DEF Callback
<1> QED
  OBVIOUS

LEMMA AwaitJob ==
  ASSUME AwaitInv, jobs \subseteq Job, posted \in Seq(Callback), NEW j \in jobs, JobStep(j)
  PROVE  AwaitInv'
<1>1. step' = step /\ dialog' = dialog
  BY JobEffect
<1>2. CASE \E n \in Job : JobMoves(j, n)
  BY <1>1, <1>2 DEF AwaitInv, JobMoves
<1>3. ASSUME NEW c \in Callback, posted' = Append(posted, c)
      PROVE  /\ DOMAIN posted' = DOMAIN posted \cup {Len(posted) + 1}
             /\ posted'[Len(posted) + 1] = c /\ \A i \in DOMAIN posted : posted'[i] = posted[i]
  BY <1>3, AtTheEnd
<1>4. CASE \E c \in Callback : JobResults(j, c)
  BY <1>1, <1>3, <1>4 DEF AwaitInv, JobResults
<1>5. CASE \E n \in Job, c \in Callback : JobAnswers(j, n, c)
  BY <1>1, <1>3, <1>5 DEF AwaitInv, JobAnswers, Generating
<1>6. CASE \E c \in Callback : JobUnlocks(j, c)
  BY <1>1, <1>3, <1>6 DEF AwaitInv, JobUnlocks, Generating
<1> QED
  BY <1>2, <1>4, <1>5, <1>6, JobEffect

LEMMA AwaitStep ==
  ASSUME TypeOK, AwaitInv, [Next]_vars
  PROVE  AwaitInv'
<1>0. jobs \subseteq Job /\ posted \in Seq(Callback) /\ NoPersona \in Persona
  BY PersonaTyped, Zenon DEF TypeOK
<1>1. CASE Generate
  <2>1. step \in {"INPUT_A", "INPUT_B"} /\ step' = "GENERATING" /\ dialog' = "none" /\ posted' = posted
    BY <1>1 DEF Generate, Clickable
  <2> DEFINE kind == IF step = "INPUT_A" THEN "expand_associations" ELSE "reshape_free_description"
             n == [kind |-> kind, persona |-> [NoPersona EXCEPT !.number = made'], question |-> 0]
  <2>2. n.kind \in Generating
    BY DEF Generating
  <2>3. jobs' = jobs \cup {n}
    BY <1>1, Zenon DEF Generate
  <2> HIDE DEF n
  <2> QED
    BY <2>1, <2>2, <2>3 DEF AwaitInv
<1>2. CASE Send
  <2> DEFINE n == [kind |-> "answer", persona |-> NoPersona, question |-> asked']
  <2>1. n.kind \notin Generating
    BY DEF Generating
  <2>2. jobs' = jobs \cup {n} /\ posted' = posted /\ step' = step /\ dialog' = dialog
    BY <1>2, Zenon DEF Send
  <2> HIDE DEF n
  <2> QED
    BY <2>1, <2>2 DEF AwaitInv
<1>3. CASE SelectMethod \/ Back \/ SubmitBlank \/ Confirm \/ Dismiss \/ Freeze
  <2>1. jobs' = jobs /\ posted' = posted
    BY <1>3, Zenon DEF SelectMethod, Back, SubmitBlank, Confirm, Dismiss, Freeze, threads
  <2>2. step # "GENERATING" \/ dialog # "none"
    BY <1>3 DEF SelectMethod, Back, HasBack, Inputs, SubmitBlank, Confirm, Dismiss, Freeze
  <2> QED
    BY <2>1, <2>2, AwaitKept
<1>4. CASE StartProcess \/ BackupCore \/ UNCHANGED vars
  BY <1>4, AwaitKept DEF StartProcess, BackupCore, vars, screen, threads
<1>5. CASE RemoveCore
  BY <1>5, AwaitKept DEF RemoveCore, screen, threads
<1>6. CASE CloseWindow \/ Crash \/ CrashInFreeze \/ Finish
  BY <1>6, AwaitEmpty DEF CloseWindow, Crash, CrashInFreeze, Finish, Gone
<1>7. CASE \E j \in jobs : JobStep(j)
  BY <1>0, <1>7, AwaitJob
<1>8. CASE Callbacks
  <2>1. posted # <<>> /\ posted' = Tail(posted) /\ jobs' = jobs
    BY <1>8 DEF Callbacks, GenerationDone, GenerationError, PreviewResponse, PreviewError, UnlockSend, Runs
  <2>2. /\ Head(posted) = posted[1] /\ 1 \in DOMAIN posted
        /\ \A i \in DOMAIN posted' :
             i \in Nat /\ i + 1 \in DOMAIN posted /\ posted'[i] = posted[i + 1] /\ i + 1 # 1
    BY <1>0, <2>1, Shifted
  <2>3. CASE GenerationDone \/ GenerationError
    <3>1. posted[1].kind \in {"done", "failed"}
      BY <2>2, <2>3 DEF GenerationDone, GenerationError, Runs
    <3>2. (\A j \in jobs : j.kind \notin Generating)
          /\ \A i \in DOMAIN posted' : posted'[i].kind \notin {"done", "failed"}
      BY <2>2, <3>1 DEF AwaitInv
    <3> QED
      BY <2>1, <3>2 DEF AwaitInv
  <2>4. CASE PreviewResponse \/ PreviewError \/ UnlockSend
    <3>1. step' = step /\ dialog' = dialog
      BY <2>4 DEF PreviewResponse, PreviewError, UnlockSend, screen
    <3>2. \A i, k \in DOMAIN posted' : i + 1 = k + 1 => i = k
      BY <2>2
    <3> QED
      BY <2>1, <2>2, <3>1, <3>2 DEF AwaitInv
  <2> QED
    BY <1>8, <2>3, <2>4 DEF Callbacks
<1> QED
  BY <1>1, <1>2, <1>3, <1>4, <1>5, <1>6, <1>7, <1>8, Zenon DEF Next

\* A set of one member at most has that cardinality.
LEMMA FewMembers ==
  ASSUME NEW S, \A x, y \in S : x = y
  PROVE  Cardinality(S) \in {0, 1} /\ (Cardinality(S) = 0 <=> S = {})
<1>1. CASE S = {}
  BY <1>1, FS_EmptySet
<1>2. CASE S # {}
  <2>1. PICK x : x \in S
    BY <1>2
  <2>2. S = {x}
    BY <2>1
  <2>3. Cardinality({x}) = 1
    BY FS_Singleton
  <2> QED
    BY <1>2, <2>2, <2>3
<1> QED
  BY <1>1, <1>2

\* A generation is awaited by the screen that waits for it, and there is only one, so
\* no late result replaces a persona that is previewed or being confirmed
\* (wizard_gui.py:276-312, 469-488).
THEOREM GenerationsAwaited == Spec => []GenerationIsAwaited
<1>1. Init => AwaitInv
  BY DEF Init, AwaitInv
<1>2. AwaitInv => GenerationIsAwaited
  <2> SUFFICES ASSUME AwaitInv PROVE GenerationIsAwaited
    OBVIOUS
  <2> DEFINE running == {j \in jobs : j.kind \in Generating}
             ended == {i \in DOMAIN posted : posted[i].kind \in {"done", "failed"}}
  <2>1. (\A x, y \in running : x = y) /\ (\A x, y \in ended : x = y)
    BY DEF AwaitInv
  <2>2. running = {} \/ ended = {}
    BY DEF AwaitInv
  <2>3. running # {} \/ ended # {} => step = "GENERATING" /\ dialog = "none"
    BY DEF AwaitInv
  <2>4. Generations = Cardinality(running) + Cardinality(ended)
    BY DEF Generations
  <2> HIDE DEF running, ended
  <2>5. Cardinality(running) \in {0, 1} /\ (Cardinality(running) = 0 <=> running = {})
    BY <2>1, FewMembers
  <2>6. Cardinality(ended) \in {0, 1} /\ (Cardinality(ended) = 0 <=> ended = {})
    BY <2>1, FewMembers
  <2> QED
    BY <2>2, <2>3, <2>4, <2>5, <2>6 DEF GenerationIsAwaited
<1> QED
  BY <1>1, <1>2, AwaitStep, WizardTypes, PTL DEF Spec

-----------------------------------------------------------------------------
(* The answers of the preview.                                             *)

Results == {"response", "error"}
Shown == {"PREVIEW", "FREEZE_CONFIRM", "DONE"}

\* One thread answers; it posts its result once, and its unlock once and after it.
OneThread ==
  \A j, k \in jobs : j.kind \in {"answer", "unlock"} /\ k.kind \in {"answer", "unlock"} => j = k
OneResult ==
  \A i, k \in DOMAIN posted : posted[i].kind \in Results /\ posted[k].kind \in Results => i = k
OneUnlock ==
  \A i, k \in DOMAIN posted : posted[i].kind = "unlock" /\ posted[k].kind = "unlock" => i = k
NoneWhileAnswering ==
  \A j \in jobs, i \in DOMAIN posted :
    j.kind = "answer" => posted[i].kind \notin Results \cup {"unlock"}
NoneBeforeUnlock ==
  \A j \in jobs, i \in DOMAIN posted : j.kind = "unlock" => posted[i].kind # "unlock"
UnlockFollows ==
  \A i \in DOMAIN posted :
    posted[i].kind \in Results =>
      \/ \E j \in jobs : j.kind = "unlock"
      \/ \E k \in DOMAIN posted : k > i /\ posted[k].kind = "unlock"

\* While any of it is to come, the preview is shown and locked, and the last turn is
\* the question that is being answered.
DueIsLocked == AnswerDue => processing /\ step \in Shown
LastAsked(q) ==
  turns # <<>> /\ turns[Len(turns)] = [role |-> "user", question |-> q]
DueIsAsked ==
  /\ \A j \in jobs : j.kind = "answer" => LastAsked(j.question)
  /\ \A i \in DOMAIN posted : posted[i].kind = "response" => LastAsked(posted[i].question)

Paired ==
  \A i \in DOMAIN turns :
    turns[i].role = "assistant" =>
      i > 1 /\ turns[i - 1] = [turns[i] EXCEPT !.role = "user"]

Threads == OneThread /\ OneResult /\ OneUnlock /\ NoneWhileAnswering /\ NoneBeforeUnlock /\ UnlockFollows

AnswerInv == ~abandoned => Threads /\ DueIsLocked /\ DueIsAsked /\ Paired

\* With no thread and no callback to come there is nothing to keep but the turns.
LEMMA NothingDue ==
  ASSUME ~AnswerDue', Paired'
  PROVE  AnswerInv'
BY DEF AnswerInv, AnswerDue, Threads, OneThread, OneResult, OneUnlock, NoneWhileAnswering,
       NoneBeforeUnlock, UnlockFollows, DueIsLocked, DueIsAsked, Results

\* What leaves the threads and the turns, and no due answer behind.
LEMMA AnswerKept ==
  ASSUME AnswerInv, UNCHANGED <<jobs, posted, turns>>,
         abandoned => abandoned',
         \/ processing' = processing /\ (step' = step \/ step' \in Shown)
         \/ ~AnswerDue
         \/ abandoned'
  PROVE  AnswerInv'
BY DEF AnswerInv, AnswerDue, Threads, OneThread, OneResult, OneUnlock, NoneWhileAnswering,
       NoneBeforeUnlock, UnlockFollows, DueIsLocked, DueIsAsked, Paired, LastAsked, Results

\* A question that follows the others keeps the answers where they are, and so does the
\* answer to the last one.
LEMMA PairedAppend ==
  ASSUME turns \in Seq(TurnOf), Paired, NEW q \in Questions,
         \/ turns' = Append(turns, [role |-> "user", question |-> q])
         \/ LastAsked(q) /\ turns' = Append(turns, [role |-> "assistant", question |-> q])
  PROVE  Paired'
<1> SUFFICES ASSUME NEW i \in DOMAIN turns', turns'[i].role = "assistant"
             PROVE  i > 1 /\ turns'[i - 1] = [turns'[i] EXCEPT !.role = "user"]
  BY DEF Paired
<1>1. [role |-> "user", question |-> q] \in TurnOf /\ [role |-> "assistant", question |-> q] \in TurnOf
  BY DEF TurnOf
<1> HIDE DEF TurnOf
<1>2. PICK turn \in TurnOf :
        /\ turns' = Append(turns, turn)
        /\ \/ turn = [role |-> "user", question |-> q]
           \/ LastAsked(q) /\ turn = [role |-> "assistant", question |-> q]
  BY <1>1, Zenon
<1>3. /\ DOMAIN turns' = 1..(Len(turns) + 1) /\ turns'[Len(turns) + 1] = turn
      /\ Len(turns) \in Nat /\ \A k \in 1..Len(turns) : turns'[k] = turns[k]
      /\ DOMAIN turns = 1..Len(turns)
  BY <1>2
<1>4. CASE i = Len(turns) + 1
  <2>1. turn = [role |-> "assistant", question |-> q] /\ LastAsked(q)
    BY <1>2, <1>3, <1>4
  <2>2. turns # <<>> /\ turns[Len(turns)] = [role |-> "user", question |-> q]
    BY <2>1 DEF LastAsked
  <2>3. Len(turns) > 0
    BY <2>2
  <2>4. i > 1 /\ i - 1 = Len(turns) /\ i - 1 \in 1..Len(turns)
    BY <1>3, <1>4, <2>3
  <2>5. turns'[i - 1] = [role |-> "user", question |-> q]
    BY <1>3, <2>2, <2>4
  <2>6. turns'[i] = [role |-> "assistant", question |-> q]
    BY <1>3, <1>4, <2>1
  <2>7. [[role |-> "assistant", question |-> q] EXCEPT !.role = "user"] = [role |-> "user", question |-> q]
    OBVIOUS
  <2> QED
    BY <2>4, <2>5, <2>6, <2>7, Zenon
<1>5. CASE i # Len(turns) + 1
  <2>1. i \in 1..Len(turns) /\ turns'[i] = turns[i]
    BY <1>3, <1>5
  <2>2. i > 1 /\ turns[i - 1] = [turns[i] EXCEPT !.role = "user"]
    <3>1. i \in DOMAIN turns /\ turns[i].role = "assistant"
      BY <1>3, <2>1
    <3> QED
      BY <3>1, Zenon DEF Paired
  <2>3. turns'[i - 1] = turns[i - 1]
    BY <1>3, <2>1, <2>2
  <2> QED
    BY <2>1, <2>2, <2>3, Zenon
<1> QED
  BY <1>4, <1>5

LEMMA AnswerJob ==
  ASSUME AnswerInv, jobs \subseteq Job, posted \in Seq(Callback), NEW j \in jobs, JobStep(j)
  PROVE  AnswerInv'
<1>0. UNCHANGED <<mode, step, dialog, processing, turns, abandoned>>
  BY JobEffect
<1> SUFFICES ASSUME ~abandoned PROVE Threads' /\ DueIsLocked' /\ DueIsAsked'
  BY <1>0 DEF AnswerInv, Paired
<1>1. Threads /\ DueIsLocked /\ DueIsAsked
  BY DEF AnswerInv
<1>2. ASSUME NEW c \in Callback, posted' = Append(posted, c)
      PROVE  /\ DOMAIN posted' = DOMAIN posted \cup {Len(posted) + 1}
             /\ posted'[Len(posted) + 1] = c /\ \A i \in DOMAIN posted : posted'[i] = posted[i]
             /\ \A i \in DOMAIN posted : i < Len(posted) + 1
  BY <1>2, AtTheEnd
<1>3. CASE \E n \in Job : JobMoves(j, n)
  <2>1. PICK n \in Job : JobMoves(j, n)
    BY <1>3
  <2>2. n.kind \notin {"answer", "unlock"} /\ j.kind \notin {"answer", "unlock"}
    BY <2>1 DEF JobMoves, Generating
  <2>3. posted' = posted /\ \A k : k.kind \in {"answer", "unlock"} => (k \in jobs' <=> k \in jobs)
    BY <2>1, <2>2 DEF JobMoves
  <2>4. Threads'
    BY <1>1, <2>3 DEF Threads, OneThread, OneResult, OneUnlock, NoneWhileAnswering, NoneBeforeUnlock, UnlockFollows
  <2>5. DueIsLocked' /\ DueIsAsked'
    BY <1>0, <1>1, <2>3 DEF DueIsLocked, AnswerDue, DueIsAsked, LastAsked
  <2> QED
    BY <2>4, <2>5
<1>4. CASE \E c \in Callback : JobResults(j, c)
  <2>1. PICK c \in Callback : JobResults(j, c)
    BY <1>4
  <2>2. c.kind \notin Results \cup {"unlock"} /\ j.kind \notin {"answer", "unlock"}
    BY <2>1 DEF JobResults, Generating, Results
  <2>3. \A k : k.kind \in {"answer", "unlock"} => (k \in jobs' <=> k \in jobs)
    BY <2>1, <2>2 DEF JobResults
  <2>4. /\ DOMAIN posted' = DOMAIN posted \cup {Len(posted) + 1}
        /\ posted'[Len(posted) + 1] = c /\ \A i \in DOMAIN posted : posted'[i] = posted[i]
    BY <1>2, <2>1 DEF JobResults
  <2>5. Threads'
    BY <1>1, <2>2, <2>3, <2>4 DEF Threads, OneThread, OneResult, OneUnlock, NoneWhileAnswering,
       NoneBeforeUnlock, UnlockFollows, Results
  <2>6. DueIsLocked' /\ DueIsAsked'
    BY <1>0, <1>1, <2>2, <2>3, <2>4 DEF DueIsLocked, AnswerDue, DueIsAsked, LastAsked, Results
  <2> QED
    BY <2>5, <2>6
<1>5. CASE \E n \in Job, c \in Callback : JobAnswers(j, n, c)
  <2>1. PICK n \in Job, c \in Callback : JobAnswers(j, n, c)
    BY <1>5
  <2>2. /\ c.kind \in Results /\ c.kind # "unlock" /\ n.kind = "unlock" /\ n.kind # "answer"
        /\ j.kind = "answer" /\ c.question = j.question
    BY <2>1 DEF JobAnswers, Results
  <2>3. \A k \in jobs' : k.kind \in {"answer", "unlock"} => k = n
    BY <1>1, <2>1, <2>2 DEF JobAnswers, Threads, OneThread
  <2>4. /\ DOMAIN posted' = DOMAIN posted \cup {Len(posted) + 1}
        /\ posted'[Len(posted) + 1] = c /\ \A i \in DOMAIN posted : posted'[i] = posted[i]
    BY <1>2, <2>1 DEF JobAnswers
  <2>5. \A i \in DOMAIN posted : posted[i].kind \notin Results \cup {"unlock"}
    BY <1>1, <2>2 DEF Threads, NoneWhileAnswering
  <2>6. n \in jobs'
    BY <2>1 DEF JobAnswers
  <2>7. Threads'
    BY <2>2, <2>3, <2>4, <2>5, <2>6 DEF Threads, OneThread, OneResult, OneUnlock, NoneWhileAnswering,
       NoneBeforeUnlock, UnlockFollows
  <2>8. DueIsLocked'
    BY <1>0, <1>1, <2>2 DEF DueIsLocked, AnswerDue
  <2>9. DueIsAsked'
    BY <1>0, <1>1, <2>2, <2>3, <2>4, <2>5 DEF DueIsAsked, LastAsked, Results
  <2> QED
    BY <2>7, <2>8, <2>9
<1>6. CASE \E c \in Callback : JobUnlocks(j, c)
  <2>1. PICK c \in Callback : JobUnlocks(j, c)
    BY <1>6
  <2>2. c.kind = "unlock" /\ j.kind = "unlock" /\ c.kind \notin Results
    BY <2>1 DEF JobUnlocks, Results
  <2>3. \A k \in jobs' : k \in jobs /\ k.kind \notin {"answer", "unlock"}
    BY <1>1, <2>1, <2>2 DEF JobUnlocks, Threads, OneThread
  <2>4. /\ DOMAIN posted' = DOMAIN posted \cup {Len(posted) + 1}
        /\ posted'[Len(posted) + 1] = c /\ \A i \in DOMAIN posted : posted'[i] = posted[i]
        /\ \A i \in DOMAIN posted : i < Len(posted) + 1
    BY <1>2, <2>1 DEF JobUnlocks
  <2>5. \A i \in DOMAIN posted : posted[i].kind # "unlock"
    BY <1>1, <2>2 DEF Threads, NoneBeforeUnlock
  <2>6. OneThread' /\ NoneWhileAnswering' /\ NoneBeforeUnlock'
    BY <2>3 DEF OneThread, NoneWhileAnswering, NoneBeforeUnlock
  <2>7. OneResult' /\ OneUnlock'
    BY <1>1, <2>2, <2>4, <2>5 DEF Threads, OneResult, OneUnlock
  <2>8. UnlockFollows'
    <3> SUFFICES ASSUME NEW i \in DOMAIN posted', posted'[i].kind \in Results
                 PROVE  \E k \in DOMAIN posted' : k > i /\ posted'[k].kind = "unlock"
      BY DEF UnlockFollows
    <3>1. i \in DOMAIN posted
      BY <2>2, <2>4
    <3>2. Len(posted) + 1 > i
      BY <1>0, <2>4, <3>1
    <3> QED
      BY <2>2, <2>4, <3>2
  <2>9. DueIsLocked'
    BY <1>0, <1>1, <2>2 DEF DueIsLocked, AnswerDue
  <2>10. DueIsAsked'
    BY <1>0, <1>1, <2>2, <2>3, <2>4 DEF DueIsAsked, LastAsked, Results
  <2> QED
    BY <2>6, <2>7, <2>8, <2>9, <2>10 DEF Threads
<1> QED
  BY <1>3, <1>4, <1>5, <1>6, JobEffect

\* The callbacks of an answer.
LEMMA AnswerCallback ==
  ASSUME AnswerInv, posted \in Seq(Callback), turns \in Seq(TurnOf),
         PreviewResponse \/ PreviewError \/ UnlockSend
  PROVE  AnswerInv'
<1>0. /\ posted # <<>> /\ posted' = Tail(posted) /\ jobs' = jobs
      /\ step' = step /\ abandoned' = abandoned
  BY DEF PreviewResponse, PreviewError, UnlockSend, Runs, screen, history
<1> SUFFICES ASSUME ~abandoned PROVE Threads' /\ DueIsLocked' /\ DueIsAsked' /\ Paired'
  BY <1>0 DEF AnswerInv
<1>1. Threads /\ DueIsLocked /\ DueIsAsked /\ Paired
  BY DEF AnswerInv
<1>2. /\ Head(posted) = posted[1] /\ 1 \in DOMAIN posted
      /\ \A i \in DOMAIN posted' :
           i \in Nat /\ i + 1 \in DOMAIN posted /\ posted'[i] = posted[i + 1] /\ i + 1 # 1
      /\ \A i \in DOMAIN posted :
           i \in Nat /\ (i # 1 => i - 1 \in DOMAIN posted' /\ posted'[i - 1] = posted[i])
  BY <1>0, Shifted
<1>3. \A i, k \in DOMAIN posted' : i \in Nat /\ k \in Nat /\ (i + 1 = k + 1 => i = k)
  BY <1>2
<1>4. OneThread' /\ OneResult' /\ OneUnlock' /\ NoneWhileAnswering' /\ NoneBeforeUnlock'
  <2>1. OneThread' /\ NoneWhileAnswering' /\ NoneBeforeUnlock'
    BY <1>0, <1>1, <1>2 DEF Threads, OneThread, NoneWhileAnswering, NoneBeforeUnlock
  <2>2. ASSUME NEW i \in DOMAIN posted', NEW k \in DOMAIN posted',
               \/ posted'[i].kind \in Results /\ posted'[k].kind \in Results
               \/ posted'[i].kind = "unlock" /\ posted'[k].kind = "unlock"
        PROVE  i = k
    <3>1. i + 1 \in DOMAIN posted /\ k + 1 \in DOMAIN posted
          /\ posted'[i] = posted[i + 1] /\ posted'[k] = posted[k + 1]
      BY <1>2
    <3>2. i + 1 = k + 1
      BY <1>1, <2>2, <3>1 DEF Threads, OneResult, OneUnlock
    <3> QED
      BY <1>3, <3>2
  <2>3. OneResult' /\ OneUnlock'
    BY <2>2 DEF OneResult, OneUnlock
  <2> QED
    BY <2>1, <2>3
<1>5. UnlockFollows'
  <2> SUFFICES ASSUME NEW i \in DOMAIN posted', posted'[i].kind \in Results,
                      \A j \in jobs : j.kind # "unlock"
               PROVE  \E k \in DOMAIN posted' : k > i /\ posted'[k].kind = "unlock"
    BY <1>0 DEF UnlockFollows
  <2>1. i + 1 \in DOMAIN posted /\ posted[i + 1].kind \in Results /\ i \in Nat
    BY <1>2
  <2>2. PICK k \in DOMAIN posted : k > i + 1 /\ posted[k].kind = "unlock"
    BY <1>1, <2>1 DEF Threads, UnlockFollows
  <2>3. k \in Nat
    BY <1>2
  <2>4. k # 1 /\ k - 1 > i
    BY <2>1, <2>2, <2>3
  <2> QED
    BY <1>2, <2>2, <2>4
<1>6. AnswerDue' => AnswerDue
  BY <1>0, <1>2 DEF AnswerDue
<1>7. ASSUME turns' = turns PROVE DueIsAsked' /\ Paired'
  BY <1>0, <1>1, <1>2, <1>7 DEF DueIsAsked, LastAsked, Paired
<1>8. CASE PreviewResponse
  <2>1. posted[1].kind = "response" /\ processing' = processing
    BY <1>2, <1>8 DEF PreviewResponse, Runs, screen
  <2>2. AnswerDue
    BY <1>2, <2>1 DEF AnswerDue
  <2>3. processing /\ step \in Shown /\ LastAsked(posted[1].question)
    BY <1>1, <1>2, <2>1, <2>2 DEF DueIsLocked, DueIsAsked
  <2>4. turns' = Append(turns, [role |-> "assistant", question |-> posted[1].question])
    BY <1>2, <1>8, <2>3 DEF PreviewResponse, Shown
  <2>5. posted[1].question \in Questions
    <3>1. posted[1] \in Callback
      <4> HIDE DEF Callback
      <4> QED
        BY <1>2
    <3> QED
      BY <3>1 DEF Callback
  <2>6. Paired'
    BY <1>1, <2>3, <2>4, <2>5, PairedAppend
  <2>7. \A j \in jobs : j.kind # "answer"
    BY <1>1, <1>2, <2>1 DEF Threads, NoneWhileAnswering, Results
  <2>8. \A i \in DOMAIN posted' : posted'[i].kind # "response"
    BY <1>1, <1>2, <2>1 DEF Threads, OneResult, Results
  <2>9. DueIsAsked'
    BY <1>0, <2>7, <2>8 DEF DueIsAsked
  <2> QED
    BY <1>0, <1>4, <1>5, <2>1, <2>3, <2>6, <2>9 DEF Threads, DueIsLocked
<1>9. CASE PreviewError
  <2>1. turns' = turns /\ processing' = processing
    BY <1>9 DEF PreviewError, screen, preview
  <2>2. DueIsLocked'
    BY <1>0, <1>1, <1>6, <2>1 DEF DueIsLocked
  <2> QED
    BY <1>4, <1>5, <1>7, <2>1, <2>2 DEF Threads
<1>10. CASE UnlockSend
  <2>1. posted[1].kind = "unlock" /\ turns' = turns
    BY <1>2, <1>10 DEF UnlockSend, Runs, preview
  <2>2. \A j \in jobs : j.kind \notin {"answer", "unlock"}
    BY <1>1, <1>2, <2>1 DEF Threads, NoneWhileAnswering, NoneBeforeUnlock
  <2>3. \A i \in DOMAIN posted' : posted'[i].kind # "unlock"
    BY <1>1, <1>2, <2>1 DEF Threads, OneUnlock
  <2>4. \A i \in DOMAIN posted' : posted'[i].kind \notin Results
    <3> SUFFICES ASSUME NEW i \in DOMAIN posted', posted'[i].kind \in Results PROVE FALSE
      OBVIOUS
    <3>1. i + 1 \in DOMAIN posted /\ posted[i + 1].kind \in Results /\ i \in Nat
      BY <1>2
    <3>2. PICK k \in DOMAIN posted : k > i + 1 /\ posted[k].kind = "unlock"
      BY <1>1, <2>2, <3>1 DEF Threads, UnlockFollows
    <3>3. k # 1
      BY <3>1, <3>2
    <3> QED
      BY <1>1, <1>2, <2>1, <3>2, <3>3 DEF Threads, OneUnlock
  <2>5. ~AnswerDue'
    BY <1>0, <2>2, <2>3, <2>4 DEF AnswerDue, Results
  <2> QED
    BY <1>4, <1>5, <1>7, <2>1, <2>5 DEF Threads, DueIsLocked
<1> QED
  BY <1>8, <1>9, <1>10

LEMMA AnswerStep ==
  ASSUME TypeOK, AwaitInv, AnswerInv, [Next]_vars
  PROVE  AnswerInv'
<1>0. /\ jobs \subseteq Job /\ posted \in Seq(Callback) /\ turns \in Seq(TurnOf)
      /\ processing \in BOOLEAN /\ abandoned \in BOOLEAN
  BY Zenon DEF TypeOK
<1>1. ASSUME jobs' = {}, posted' = <<>>, turns' = <<>> PROVE AnswerInv'
  BY <1>1, NothingDue DEF AnswerDue, Paired
<1>2. step \notin Shown /\ ~abandoned => ~AnswerDue /\ Paired
  BY DEF AnswerInv, DueIsLocked
<1>3. CASE Send
  <2> DEFINE n == [kind |-> "answer", persona |-> NoPersona, question |-> asked']
  <2>1. /\ jobs' = jobs \cup {n} /\ posted' = posted /\ processing' = TRUE /\ step' = "PREVIEW"
        /\ abandoned' = abandoned
        /\ turns' = Append(turns, [role |-> "user", question |-> asked']) /\ ~processing
    BY <1>3 DEF Send, Clickable, Idle, history
  <2>2. n.kind = "answer" /\ n.question = asked'
    OBVIOUS
  <2> HIDE DEF n
  <2> SUFFICES ASSUME ~abandoned PROVE Threads' /\ DueIsLocked' /\ DueIsAsked' /\ Paired'
    BY <2>1 DEF AnswerInv
  <2>3. ~AnswerDue /\ Paired
    BY <2>1 DEF AnswerInv, DueIsLocked
  <2>4. asked' \in Questions
    BY CountsTyped
  <2>5. Paired'
    BY <1>0, <2>1, <2>3, <2>4, PairedAppend
  <2>6. turns' # <<>> /\ turns'[Len(turns')] = [role |-> "user", question |-> asked']
    <3>1. [role |-> "user", question |-> asked'] \in TurnOf
      BY <2>4 DEF TurnOf
    <3> HIDE DEF TurnOf
    <3> QED
      BY <1>0, <2>1, <3>1
  <2>7. \A k \in jobs' : k.kind \in {"answer", "unlock"} => k = n
    BY <2>1, <2>3 DEF AnswerDue
  <2>8. \A i \in DOMAIN posted' : posted'[i].kind \notin Results \cup {"unlock"}
    BY <2>1, <2>3 DEF AnswerDue, Results
  <2>9. Threads'
    BY <2>2, <2>7, <2>8 DEF Threads, OneThread, OneResult, OneUnlock, NoneWhileAnswering, NoneBeforeUnlock,
       UnlockFollows
  <2>10. DueIsAsked'
    BY <2>2, <2>6, <2>7, <2>8 DEF DueIsAsked, LastAsked, Results
  <2> QED
    BY <2>1, <2>5, <2>9, <2>10 DEF DueIsLocked, Shown
<1>4. CASE Generate
  <2> DEFINE kind == IF step = "INPUT_A" THEN "expand_associations" ELSE "reshape_free_description"
             n == [kind |-> kind, persona |-> [NoPersona EXCEPT !.number = made'], question |-> 0]
  <2>1. n.kind \notin {"answer", "unlock"}
    OBVIOUS
  <2>2. jobs' = jobs \cup {n} /\ posted' = posted /\ turns' = turns /\ abandoned' = abandoned
    BY <1>4, Zenon DEF Generate, preview, history
  <2> HIDE DEF n
  <2>3. step \notin Shown
    BY <1>4 DEF Generate, Shown
  <2>4. ~abandoned => ~AnswerDue' /\ Paired'
    BY <1>2, <2>1, <2>2, <2>3 DEF AnswerDue, Paired
  <2> QED
    BY <2>2, <2>4, NothingDue DEF AnswerInv
<1>5. CASE SubmitBlank
  <2>1. step \notin Shown /\ jobs' = jobs /\ posted' = posted /\ turns' = <<>> /\ abandoned' = abandoned
    BY <1>5 DEF SubmitBlank, ShowPreview, threads, history, Shown
  <2>2. ~abandoned => ~AnswerDue' /\ Paired'
    BY <1>2, <2>1 DEF AnswerDue, Paired
  <2> QED
    BY <2>1, <2>2, NothingDue DEF AnswerInv
<1>6. CASE Back \/ Dismiss
  <2>1. jobs' = jobs /\ posted' = posted /\ turns' = turns /\ abandoned' = (abandoned \/ AnswerDue)
    BY <1>6 DEF Back, Dismiss, ShowMethodSelect, threads, preview
  <2>2. abandoned => abandoned'
    BY <2>1
  <2>3. ~AnswerDue \/ abandoned'
    BY <2>1
  <2> QED
    BY <2>1, <2>2, <2>3, AnswerKept
<1>7. CASE SelectMethod \/ Confirm \/ Freeze
  <2>1. UNCHANGED <<jobs, posted, turns, abandoned, processing>>
    BY <1>7, Zenon DEF SelectMethod, Confirm, Freeze, threads, preview, history
  <2>2. step \notin Shown \/ step' = step \/ step' \in Shown
    BY <1>7 DEF SelectMethod, Confirm, Freeze, Shown
  <2>3. ~AnswerDue \/ abandoned' \/ step' = step \/ step' \in Shown
    BY <1>2, <2>1, <2>2
  <2> QED
    BY <2>1, <2>3, AnswerKept
<1>8. CASE StartProcess \/ BackupCore \/ RemoveCore \/ UNCHANGED vars
  <2>1. UNCHANGED <<jobs, posted, turns, abandoned, processing, step>>
    BY <1>8 DEF StartProcess, BackupCore, RemoveCore, vars, screen, threads, preview, history
  <2> QED
    BY <2>1, AnswerKept
<1>9. CASE CloseWindow \/ Crash \/ CrashInFreeze \/ Finish
  BY <1>1, <1>9 DEF CloseWindow, Crash, CrashInFreeze, Finish, Gone, FreshPreview
<1>10. CASE \E j \in jobs : JobStep(j)
  BY <1>0, <1>10, AnswerJob
<1>11. CASE PreviewResponse \/ PreviewError \/ UnlockSend
  BY <1>0, <1>11, AnswerCallback
<1>12. CASE GenerationDone \/ GenerationError
  <2>1. /\ posted # <<>> /\ posted' = Tail(posted) /\ jobs' = jobs /\ abandoned' = abandoned
        /\ Head(posted).kind \in {"done", "failed"} /\ (turns' = turns \/ turns' = <<>>)
    BY <1>12 DEF GenerationDone, GenerationError, Runs, ShowPreview, preview, history
  <2>2. Head(posted) = posted[1] /\ 1 \in DOMAIN posted
        /\ \A i \in DOMAIN posted' : i + 1 \in DOMAIN posted /\ posted'[i] = posted[i + 1]
    BY <1>0, <2>1, Shifted
  <2>3. step \notin Shown
    BY <2>1, <2>2 DEF AwaitInv, Shown
  <2>4. ~abandoned => ~AnswerDue' /\ Paired'
    BY <1>2, <2>1, <2>2, <2>3 DEF AnswerDue, Paired
  <2> QED
    BY <2>1, <2>4, NothingDue DEF AnswerInv
<1> QED
  BY <1>3, <1>4, <1>5, <1>6, <1>7, <1>8, <1>9, <1>10, <1>11, <1>12, Zenon DEF Next, Callbacks

\* Unless a preview was left with the thread of an answer, or one of its callbacks,
\* still to come, every answer stands right behind the question it answers
\* (wizard_gui.py:566-606).
THEOREM AnswersFollow == Spec => []AnswerFollowsQuestion
<1>1. Init => AwaitInv /\ AnswerInv
  BY NothingDue DEF Init, AwaitInv, AnswerInv, AnswerDue, Threads, OneThread, OneResult, OneUnlock,
     NoneWhileAnswering, NoneBeforeUnlock, UnlockFollows, DueIsLocked, DueIsAsked, Paired, Results
<1>2. AnswerInv => AnswerFollowsQuestion
  BY DEF AnswerInv, AnswerFollowsQuestion, Paired
<1> QED
  BY <1>1, <1>2, AwaitStep, AnswerStep, WizardTypes, PTL DEF Spec

-----------------------------------------------------------------------------
(* The persona that ran.                                                   *)

\* Where its text is, by the mode of the process.
RanInv ==
  /\ lastRan # {} => core = lastRan \/ backup = lastRan
  /\ mode = "normal" => core = lastRan
  /\ mode = "restarting" => core = lastRan /\ backup = lastRan
  /\ mode = "wizard" /\ lastRan # {} => backup = lastRan

\* The steps of the threads, of the callbacks and of the screens leave the files.
LEMMA RanKept ==
  ASSUME RanInv, UNCHANGED <<mode, core, backup, lastRan>>
  PROVE  RanInv'
BY DEF RanInv

LEMMA RanEnds ==
  ASSUME RanInv, mode # "off", mode' = "off", UNCHANGED <<core, backup, lastRan>>
  PROVE  RanInv'
BY DEF RanInv

\* While the wizard runs, the copy has the text.
LEMMA RanWritten ==
  ASSUME RanInv, mode = "wizard", mode' \in {"wizard", "off"}, UNCHANGED <<backup, lastRan>>
  PROVE  RanInv'
BY DEF RanInv

LEMMA RanStep ==
  ASSUME RanInv, [Next]_vars
  PROVE  RanInv'
<1>1. CASE StartProcess
  BY <1>1 DEF RanInv, StartProcess, files
<1>2. CASE CloseWindow \/ Crash \/ Finish
  BY <1>2, RanEnds DEF CloseWindow, Crash, Finish, Gone, files
<1>3. CASE BackupCore
  BY <1>3 DEF RanInv, BackupCore, history
<1>4. CASE RemoveCore
  BY <1>4 DEF RanInv, RemoveCore, history
<1>5. CASE SelectMethod \/ Back \/ Generate \/ SubmitBlank \/ Send \/ Confirm \/ Dismiss
  BY <1>5, RanKept
     DEF SelectMethod, Back, Generate, SubmitBlank, Send, Confirm, Dismiss, files, history
<1>6. CASE \E j \in jobs : JobStep(j)
  BY <1>6, RanKept
     DEF JobStep, EndGeneration, ExpandAssociations, GenerateCandidates, GenerateStyleSamples,
         ReshapeFreeDescription, EndAnswer, PostUnlock, files, history
<1>7. CASE Callbacks
  BY <1>7, RanKept
     DEF Callbacks, GenerationDone, GenerationError, PreviewResponse, PreviewError, UnlockSend,
         Runs, files, history
<1>8. CASE Freeze \/ CrashInFreeze
  BY <1>8, RanWritten DEF Freeze, CrashInFreeze
<1>9. CASE UNCHANGED vars
  BY <1>9, RanKept DEF vars, files, history
<1> QED
  BY <1>1, <1>2, <1>3, <1>4, <1>5, <1>6, <1>7, <1>8, <1>9 DEF Next

\* persona_core.md of the last normal session is not lost by a restart of the wizard:
\* it is there or in the copy, whatever fails or crashes (main.py:435-441).
THEOREM RanIsKept == Spec => []RanPersonaSurvives
<1>1. Init => RanInv
  BY DEF Init, RanInv
<1>2. RanInv /\ [Next]_vars => RanInv'
  BY RanStep
<1>3. RanInv => RanPersonaSurvives
  BY DEF RanInv, RanPersonaSurvives
<1> QED
  BY <1>1, <1>2, <1>3, PTL DEF Spec

-----------------------------------------------------------------------------
(* Texts that are strung together. *)

\* Induction over the natural numbers, for a set of them.
LEMMA SetInduction ==
  ASSUME NEW S \in SUBSET Nat, 0 \in S, \A n \in S : n + 1 \in S
  PROVE  S = Nat
<1> SUFFICES ASSUME Nat \ S # {} PROVE FALSE
  OBVIOUS
<1>1. PICK k \in Nat \ S : \A j \in Nat \ S : ~(<<j, k>> \in OpToRel(<, Nat))
  BY NatLessThanWellFounded, WFMin
<1>2. OpToRel(<, Nat) = {p \in Nat \X Nat : p[1] < p[2]}
  BY DEF OpToRel
<1>3. ASSUME NEW j \in Nat \ S, j < k PROVE FALSE
  <2>1. <<j, k>> \in {p \in Nat \X Nat : p[1] < p[2]}
    BY <1>3
  <2> QED
    BY <1>1, <1>2, <2>1, Zenon
<1>4. k # 0 /\ k - 1 \in Nat /\ (k - 1) + 1 = k /\ k - 1 < k
  OBVIOUS
<1>5. k - 1 \in S
  BY <1>3, <1>4
<1> QED
  BY <1>4, <1>5

\* A function is defined by its first value and by a step from each to the next.
Recurs(f, S, base, next) ==
  /\ f \in [Nat -> S] /\ f[0] = base
  /\ \A n \in Nat : f[n + 1] = next[n][f[n]]

\* Any first value and steps define one.
LEMMA Recursion ==
  ASSUME NEW S, NEW base \in S, NEW next \in [Nat -> [S -> S]]
  PROVE  \E f : Recurs(f, S, base, next)
<1> DEFINE Approx(n) == {g \in [0..n -> S] : /\ g[0] = base
                                            /\ \A i \in 0..(n - 1) : g[i + 1] = next[i][g[i]]}
           Exists == {n \in Nat : Approx(n) # {}}
           Value(n) == (CHOOSE g \in Approx(n) : TRUE)[n]
           f == [n \in Nat |-> Value(n)]
<1>1. Exists = Nat
  <2>1. 0 \in Exists
    <3>1. [i \in 0..0 |-> base] \in Approx(0)
      OBVIOUS
    <3> QED
      BY <3>1
  <2>2. ASSUME NEW n \in Nat, NEW g \in Approx(n) PROVE Approx(n + 1) # {}
    <3> DEFINE h == [i \in 0..(n + 1) |-> IF i = n + 1 THEN next[n][g[n]] ELSE g[i]]
    <3>1. g[n] \in S /\ g[0] = base /\ \A i \in 0..n : g[i] \in S
      OBVIOUS
    <3>2. next[n][g[n]] \in S
      BY <3>1
    <3>3. h \in [0..(n + 1) -> S] /\ h[0] = base
      BY <3>1, <3>2
    <3>4. ASSUME NEW i \in 0..n PROVE h[i + 1] = next[i][h[i]]
      <4>0. i \in 0..(n + 1) /\ i + 1 \in 0..(n + 1) /\ i # n + 1
        OBVIOUS
      <4>1. CASE i = n
        <5>1. h[n + 1] = next[n][g[n]] /\ h[n] = g[n]
          BY <4>0, <4>1
        <5> QED
          BY <4>1, <5>1, Zenon
      <4>2. CASE i # n
        <5>1. i \in 0..(n - 1) /\ h[i + 1] = g[i + 1] /\ h[i] = g[i]
          BY <4>2
        <5> QED
          BY <5>1
      <4> QED
        BY <4>1, <4>2
    <3>5. (n + 1) - 1 = n
      OBVIOUS
    <3> HIDE DEF h
    <3>6. h \in Approx(n + 1)
      BY <3>3, <3>4, <3>5, Zenon
    <3> QED
      BY <3>6
  <2> HIDE DEF Approx
  <2>3. \A n \in Exists : n + 1 \in Exists
    BY <2>2
  <2>4. Exists \subseteq Nat
    OBVIOUS
  <2> HIDE DEF Exists
  <2> QED
    BY <2>1, <2>3, <2>4, SetInduction
<1>2. ASSUME NEW n \in Nat, NEW g \in Approx(n), NEW m \in Nat, NEW h \in Approx(m)
      PROVE  \A i \in Nat : i <= n /\ i <= m => g[i] = h[i]
  <2> DEFINE Same == {i \in Nat : i <= n /\ i <= m => g[i] = h[i]}
  <2>1. 0 \in Same
    OBVIOUS
  <2>2. ASSUME NEW i \in Same PROVE i + 1 \in Same
    <3> SUFFICES ASSUME i + 1 <= n, i + 1 <= m PROVE g[i + 1] = h[i + 1]
      OBVIOUS
    <3>1. g[i] = h[i] /\ i \in 0..(n - 1) /\ i \in 0..(m - 1)
      OBVIOUS
    <3> QED
      BY <3>1
  <2>3. Same = Nat
    <3> HIDE DEF Same
    <3>1. Same \subseteq Nat
      BY DEF Same
    <3> QED
      BY <2>1, <2>2, <3>1, SetInduction
  <2> QED
    BY <2>3
<1>3. ASSUME NEW n \in Nat PROVE \E g \in Approx(n) : Value(n) = g[n]
  <2>1. n \in Exists
    BY <1>1
  <2>2. Approx(n) # {}
    BY <2>1
  <2> HIDE DEF Approx
  <2> QED
    BY <2>2
<1>4. f \in [Nat -> S] /\ f[0] = base
  <2>1. ASSUME NEW n \in Nat PROVE Value(n) \in S /\ (n = 0 => Value(n) = base)
    <3>1. PICK g \in Approx(n) : Value(n) = g[n]
      BY <1>3
    <3>2. g[n] \in S /\ g[0] = base
      OBVIOUS
    <3> QED
      BY <3>1, <3>2
  <2> HIDE DEF Value
  <2> QED
    BY <2>1
<1>5. ASSUME NEW n \in Nat PROVE f[n + 1] = next[n][f[n]]
  <2>5. n + 1 \in Nat /\ n <= n /\ n <= n + 1
    OBVIOUS
  <2>1. PICK g \in Approx(n) : Value(n) = g[n]
    BY <1>3
  <2>2. PICK h \in Approx(n + 1) : Value(n + 1) = h[n + 1]
    BY <1>3, <2>5, Zenon
  <2>3. g[n] = h[n]
    <3> HIDE DEF Approx
    <3> QED
      BY <1>2, <2>5, Zenon
  <2>4. h[n + 1] = next[n][h[n]]
    OBVIOUS
  <2> HIDE DEF Value
  <2>6. f[n] = Value(n) /\ f[n + 1] = Value(n + 1)
    BY <2>5, Zenon
  <2> QED
    BY <2>1, <2>2, <2>3, <2>4, <2>6, Zenon
<1> HIDE DEF f
<1>6. Recurs(f, S, base, next)
  BY <1>4, <1>5 DEF Recurs
<1> QED
  BY <1>6

\* The pieces that FlattenSeq strings together, one after the other.
LEMMA FlattenPieces ==
  ASSUME NEW T, NEW seqs \in Seq(Seq(T))
  PROVE  \E f \in [Nat -> Seq(T)] :
           /\ f[0] = <<>>
           /\ \A n \in Nat : n + 1 \in DOMAIN seqs => f[n + 1] = f[n] \o seqs[n + 1]
           /\ FlattenSeq(seqs) = f[Len(seqs)]
<1> DEFINE N == Len(seqs)
           next == [n \in Nat |-> [s \in Seq(T) |->
                      IF n + 1 \in DOMAIN seqs THEN s \o seqs[n + 1] ELSE s]]
<1>1. next \in [Nat -> [Seq(T) -> Seq(T)]]
  <2>1. ASSUME NEW s \in Seq(T), NEW n \in Nat, n + 1 \in DOMAIN seqs PROVE s \o seqs[n + 1] \in Seq(T)
    BY <2>1
  <2> QED
    BY <2>1
<1>2. <<>> \in Seq(T)
  OBVIOUS
<1> HIDE DEF next
<1>3. PICK f : Recurs(f, Seq(T), <<>>, next)
  BY <1>1, <1>2, Recursion, Zenon
<1>4. f \in [Nat -> Seq(T)] /\ f[0] = <<>>
  BY <1>3 DEF Recurs
<1>5. ASSUME NEW n \in Nat, n + 1 \in DOMAIN seqs PROVE f[n + 1] = f[n] \o seqs[n + 1]
  BY <1>3, <1>4, <1>5 DEF Recurs, next
<1>6. FlattenSeq(seqs) = f[N]
  <2>1. N \in Nat /\ DOMAIN seqs = 1..N
    OBVIOUS
  <2>2. CASE N = 0
    <3>1. FlattenSeq(seqs) = seqs
      BY <2>2 DEF FlattenSeq
    <3>2. seqs = <<>>
      BY <2>2
    <3> QED
      BY <1>4, <2>2, <3>1, <3>2
  <2>3. CASE N # 0
    <3> DEFINE Is(g) == g = [i \in 1..N |-> IF i = 1 THEN seqs[i] ELSE g[i - 1] \o seqs[i]]
               flatten[i \in 1..N] == IF i = 1 THEN seqs[i] ELSE flatten[i - 1] \o seqs[i]
               first == [i \in 1..N |-> f[i]]
    <3>1. FlattenSeq(seqs) = flatten[N]
      BY <2>3 DEF FlattenSeq
    <3>2. flatten = CHOOSE g : Is(g)
      BY DEF flatten
    <3>3. Is(first)
      <4>1. ASSUME NEW i \in 1..N PROVE f[i] = IF i = 1 THEN seqs[i] ELSE first[i - 1] \o seqs[i]
        <5>1. i - 1 \in Nat /\ (i - 1) + 1 = i /\ (i # 1 => i - 1 \in 1..N) /\ i \in DOMAIN seqs
          BY <2>1
        <5>2. f[i] = f[i - 1] \o seqs[i]
          BY <1>5, <5>1
        <5>3. i # 1 => first[i - 1] = f[i - 1]
          BY <5>1
        <5>4. seqs[i] \in Seq(T)
          BY <5>1
        <5>5. i = 1 => f[i - 1] = <<>> /\ <<>> \o seqs[i] = seqs[i]
          BY <1>4, <5>4
        <5> HIDE DEF first
        <5> QED
          BY <5>2, <5>3, <5>5
      <4> QED
        BY <4>1
    <3>4. Is(flatten)
      <4> HIDE DEF Is, flatten, first
      <4> QED
        BY <3>2, <3>3, Zenon
    <3>5. ASSUME NEW g, Is(g) PROVE g[N] = f[N]
      <4> DEFINE Same == {n \in Nat : n + 1 \in 1..N => g[n + 1] = f[n + 1]}
      <4>1. 0 \in Same
        <5>1. 0 \in Nat /\ 0 + 1 = 1 /\ 1 \in DOMAIN seqs /\ 1 \in 1..N
          BY <2>1, <2>3
        <5>2. g[1] = seqs[1] /\ seqs[1] \in Seq(T)
          BY <3>5, <5>1
        <5>3. f[1] = f[0] \o seqs[1]
          BY <1>5, <5>1, Zenon
        <5>4. <<>> \o seqs[1] = seqs[1]
          BY <5>2
        <5>5. g[1] = f[1]
          BY <1>4, <5>2, <5>3, <5>4
        <5> HIDE DEF Is
        <5> QED
          BY <5>1, <5>5
      <4>2. ASSUME NEW n \in Same, n + 2 \in 1..N PROVE g[n + 2] = f[n + 2]
        <5>1. n + 1 \in 1..N /\ n + 2 # 1 /\ (n + 2) - 1 = n + 1 /\ n + 1 \in Nat /\ (n + 1) + 1 = n + 2
          BY <2>1, <4>2
        <5>2. g[n + 1] = f[n + 1]
          BY <5>1
        <5>3. g[n + 2] = g[(n + 2) - 1] \o seqs[n + 2]
          BY <3>5, <4>2, <5>1
        <5>4. f[n + 2] = f[n + 1] \o seqs[n + 2]
          BY <1>5, <2>1, <4>2, <5>1
        <5> HIDE DEF Is
        <5> QED
          BY <5>1, <5>2, <5>3, <5>4
      <4>3. \A n \in Same : n + 1 \in Same
        <5>1. ASSUME NEW n \in Same, (n + 1) + 1 \in 1..N PROVE g[(n + 1) + 1] = f[(n + 1) + 1]
          <6>1. (n + 1) + 1 = n + 2
            OBVIOUS
          <6> HIDE DEF Is, Same
          <6> QED
            BY <4>2, <5>1, <6>1
        <5>2. \A n \in Same : n + 1 \in Nat
          OBVIOUS
        <5> HIDE DEF Is
        <5> QED
          BY <5>1, <5>2
      <4>4. N - 1 \in Nat /\ (N - 1) + 1 = N /\ N \in 1..N
        BY <2>1, <2>3
      <4>5. Same \subseteq Nat
        OBVIOUS
      <4>6. Same = Nat
        <5> HIDE DEF Same
        <5> QED
          BY <4>1, <4>3, <4>5, SetInduction
      <4> HIDE DEF Is
      <4> QED
        BY <4>4, <4>6
    <3> HIDE DEF Is, flatten
    <3> QED
      BY <3>1, <3>4, <3>5, Zenon
  <2> QED
    BY <2>2, <2>3
<1> QED
  BY <1>4, <1>5, <1>6

\* Where the lines of two texts are when one follows the other.
Joins(text, a, b) ==
  /\ \A k \in DOMAIN a : k \in DOMAIN text /\ text[k] = a[k]
  /\ \A k \in DOMAIN b : Len(a) + k \in DOMAIN text /\ text[Len(a) + k] = b[k]
  /\ \A p \in DOMAIN text : p \in DOMAIN a \/ \E k \in DOMAIN b : p = Len(a) + k

\* That is where they are.
LEMMA Joined ==
  ASSUME NEW T, NEW a \in Seq(T), NEW b \in Seq(T)
  PROVE  /\ a \o b \in Seq(T) /\ Len(a \o b) = Len(a) + Len(b) /\ Joins(a \o b, a, b)
         /\ Len(a) \in Nat /\ Len(b) \in Nat
<1>1. \A p \in DOMAIN (a \o b) : p \notin DOMAIN a => p - Len(a) \in DOMAIN b /\ p = Len(a) + (p - Len(a))
  OBVIOUS
<1> QED
  BY <1>1 DEF Joins

\* The pieces of the set I: piece i of a text begins behind the first before[i] lines
\* of it, and each line belongs to a piece.
Pieces(text, seqs, before, I) ==
  /\ \A i \in I : \A k \in DOMAIN seqs[i] :
       before[i] + k \in DOMAIN text /\ text[before[i] + k] = seqs[i][k]
  /\ \A p \in DOMAIN text : \E i \in I : \E k \in DOMAIN seqs[i] : p = before[i] + k

\* One more piece at the end.
LEMMA PieceAdded ==
  ASSUME NEW text, NEW seqs, NEW before, NEW I, NEW a, NEW m,
         Pieces(a, seqs, before, I), Joins(text, a, seqs[m]), before[m] = Len(a)
  PROVE  Pieces(text, seqs, before, I \cup {m})
<1>1. ASSUME NEW i \in I \cup {m}, NEW k \in DOMAIN seqs[i]
      PROVE  before[i] + k \in DOMAIN text /\ text[before[i] + k] = seqs[i][k]
  BY DEF Pieces, Joins
<1>2. ASSUME NEW p \in DOMAIN text
      PROVE  \E i \in I \cup {m} : \E k \in DOMAIN seqs[i] : p = before[i] + k
  <2>1. CASE p \in DOMAIN a
    BY <2>1, Zenon DEF Pieces
  <2>2. CASE \E k \in DOMAIN seqs[m] : p = before[m] + k
    BY <2>2, Zenon
  <2> QED
    BY <2>1, <2>2 DEF Joins
<1> QED
  BY <1>1, <1>2, Zenon DEF Pieces

\* Where the lines of each text are in the text that FlattenSeq makes of them.
LEMMA FlattenPlaces ==
  ASSUME NEW T, NEW seqs \in Seq(Seq(T))
  PROVE  /\ FlattenSeq(seqs) \in Seq(T)
         /\ \E before \in [1..(Len(seqs) + 1) -> Nat] :
              /\ Pieces(FlattenSeq(seqs), seqs, before, DOMAIN seqs)
              /\ before[1] = 0
              /\ \A i \in DOMAIN seqs : before[i + 1] = before[i] + Len(seqs[i])
              /\ before[Len(seqs) + 1] = Len(FlattenSeq(seqs))
<1> DEFINE N == Len(seqs)
<1>0. N \in Nat /\ DOMAIN seqs = 1..N
  OBVIOUS
<1>1. PICK f \in [Nat -> Seq(T)] :
        /\ f[0] = <<>>
        /\ \A n \in Nat : n + 1 \in DOMAIN seqs => f[n + 1] = f[n] \o seqs[n + 1]
        /\ FlattenSeq(seqs) = f[Len(seqs)]
  BY FlattenPieces
<1> DEFINE before == [i \in 1..(N + 1) |-> Len(f[i - 1])]
           Placed(n) == Pieces(f[n], seqs, before, 1..n)
           Good == {n \in Nat : n <= N => Placed(n)}
<1>2. before \in [1..(N + 1) -> Nat]
  <2>1. \A i \in 1..(N + 1) : i - 1 \in Nat
    BY <1>0
  <2> QED
    BY <2>1
<1>3. ASSUME NEW i \in 1..N
      PROVE  before[i] = Len(f[i - 1]) /\ before[i + 1] = Len(f[i - 1]) + Len(seqs[i])
             /\ f[i] = f[i - 1] \o seqs[i] /\ f[i - 1] \in Seq(T) /\ seqs[i] \in Seq(T)
  <2>1. i \in 1..(N + 1) /\ i + 1 \in 1..(N + 1) /\ (i + 1) - 1 = i /\ i - 1 \in Nat /\ (i - 1) + 1 = i
    BY <1>0
  <2>2. f[i] = f[i - 1] \o seqs[i]
    BY <1>0, <1>1, <2>1, Zenon
  <2>3. f[i - 1] \in Seq(T) /\ seqs[i] \in Seq(T)
    BY <1>0, <2>1
  <2>4. Len(f[i]) = Len(f[i - 1]) + Len(seqs[i])
    BY <2>2, <2>3
  <2>5. before[i] = Len(f[i - 1]) /\ before[i + 1] = Len(f[i])
    BY <2>1
  <2> QED
    BY <2>2, <2>3, <2>4, <2>5
<1>4. Placed(0)
  BY <1>1 DEF Pieces
<1>5. ASSUME NEW n \in Nat, Placed(n), n + 1 <= N PROVE Placed(n + 1)
  <2>1. n + 1 \in 1..N /\ (n + 1) - 1 = n
    BY <1>0, <1>5
  <2>2. /\ before[n + 1] = Len(f[n]) /\ f[n + 1] = f[n] \o seqs[n + 1]
        /\ f[n] \in Seq(T) /\ seqs[n + 1] \in Seq(T)
    BY <1>3, <2>1
  <2> HIDE DEF before, N
  <2>3. Joins(f[n + 1], f[n], seqs[n + 1])
    BY <2>2, Joined
  <2>4. 1..(n + 1) = 1..n \cup {n + 1}
    <3>1. \A i \in 1..(n + 1) : i \in 1..n \/ i = n + 1
      OBVIOUS
    <3>2. n + 1 \in 1..(n + 1) /\ \A i \in 1..n : i \in 1..(n + 1)
      OBVIOUS
    <3> QED
      BY <3>1, <3>2, Zenon
  <2>5. Pieces(f[n], seqs, before, 1..n)
    BY <1>5
  <2>6. Pieces(f[n + 1], seqs, before, 1..n \cup {n + 1})
    BY <2>2, <2>3, <2>5, PieceAdded, Zenon
  <2> QED
    BY <2>4, <2>6
<1>6. Good = Nat
  <2> HIDE DEF Placed, before
  <2>1. 0 \in Good
    BY <1>4
  <2>2. ASSUME NEW n \in Good PROVE n + 1 \in Good
    <3>1. n \in Nat /\ (n <= N => Placed(n)) /\ n + 1 \in Nat /\ (n + 1 <= N => n <= N)
      BY <1>0
    <3> HIDE DEF N
    <3>2. n + 1 <= N => Placed(n + 1)
      BY <1>5, <3>1, Zenon
    <3> QED
      BY <3>1, <3>2
  <2>3. Good \subseteq Nat
    OBVIOUS
  <2> HIDE DEF Good
  <2> QED
    BY <2>1, <2>2, <2>3, SetInduction
<1>7. Placed(N)
  <2>1. N \in Nat /\ N <= N
    BY <1>0
  <2>2. \A n \in Good : n <= N => Placed(n)
    OBVIOUS
  <2> HIDE DEF Placed, before, N, Good
  <2> QED
    BY <1>6, <2>1, <2>2, Zenon
<1>8. Pieces(FlattenSeq(seqs), seqs, before, DOMAIN seqs)
  <2> HIDE DEF before
  <2> QED
    BY <1>0, <1>1, <1>7
<1>9. before[N + 1] = Len(FlattenSeq(seqs)) /\ FlattenSeq(seqs) \in Seq(T)
  <2>1. N + 1 \in 1..(N + 1) /\ (N + 1) - 1 = N /\ f[N] \in Seq(T)
    BY <1>0
  <2>2. before[N + 1] = Len(f[N])
    BY <2>1
  <2> HIDE DEF before
  <2> QED
    BY <1>1, <2>1, <2>2
<1>10. \A i \in DOMAIN seqs : before[i + 1] = before[i] + Len(seqs[i])
  <2> HIDE DEF before
  <2> QED
    BY <1>0, <1>3
<1>11. before[1] = 0
  BY <1>0, <1>1
<1> HIDE DEF before, Placed, Good
<1> QED
  BY <1>2, <1>8, <1>9, <1>10, <1>11

-----------------------------------------------------------------------------
(* A persona that is written and read.                                      *)

\* Of the lines of a field only those that show something are written.
LEMMA VisibleLines ==
  ASSUME NEW T, NEW lines \in Seq(T)
  PROVE  /\ Visible(lines) \in Seq(T)
         /\ \A k \in DOMAIN Visible(lines) : \E i \in DOMAIN lines : Visible(lines)[k] = lines[i]
<1> DEFINE seqs == [i \in DOMAIN lines |-> IF lines[i] = Blank THEN <<>> ELSE <<lines[i]>>]
<1>1. seqs \in Seq(Seq(T)) /\ DOMAIN seqs = DOMAIN lines
  <2>1. \A i \in DOMAIN lines : lines[i] \in T
    OBVIOUS
  <2>2. \A i \in DOMAIN lines : <<>> \in Seq(T) /\ <<lines[i]>> \in Seq(T)
    BY <2>1
  <2>3. seqs \in [1..Len(lines) -> Seq(T)] /\ Len(lines) \in Nat
    BY <2>2
  <2> QED
    BY <2>3
<1>2. \A i \in DOMAIN seqs : \A k \in DOMAIN seqs[i] : seqs[i][k] = lines[i]
  OBVIOUS
<1> HIDE DEF seqs
<1>3. FlattenSeq(seqs) \in Seq(T) /\ \E before : Pieces(FlattenSeq(seqs), seqs, before, DOMAIN seqs)
  BY <1>1, FlattenPlaces
<1>4. Visible(lines) = FlattenSeq(seqs)
  BY DEF Visible, seqs
<1>5. ASSUME NEW p \in DOMAIN FlattenSeq(seqs)
      PROVE  \E i \in DOMAIN lines : FlattenSeq(seqs)[p] = lines[i]
  <2>1. PICK before : Pieces(FlattenSeq(seqs), seqs, before, DOMAIN seqs)
    BY <1>3
  <2>2. PICK i \in DOMAIN seqs : \E k \in DOMAIN seqs[i] : p = before[i] + k
    BY <2>1 DEF Pieces
  <2>3. FlattenSeq(seqs)[p] = lines[i]
    BY <1>2, <2>1, <2>2 DEF Pieces
  <2> QED
    BY <1>1, <2>3
<1> QED
  BY <1>3, <1>4, <1>5

\* The sections that are written, and what stands before them.
Written(fields) ==
  [i \in DOMAIN FIELD_MAP |-> <<Heading(FIELD_MAP[i])>> \o Visible(fields[FIELD_MAP[i]])]
Preamble(fields) ==
  <<Title>> \o Visible(SubSeq(fields["C1"], 2, Len(fields["C1"]))) \o <<Metadata, Row("frozen")>>

\* The fields are the eleven of the table, each once.
LEMMA FieldMap ==
  /\ DOMAIN FIELD_MAP = 1..11
  /\ \A i \in 1..11 : FIELD_MAP[i] \in Fields
  /\ \A c \in Fields : \E i \in 1..11 : c = FIELD_MAP[i]
  /\ \A i, j \in 1..11 : FIELD_MAP[i] = FIELD_MAP[j] => i = j
  /\ \A c \in Fields : c \notin {"none", "other", "metadata", "frozen", "unfrozen"}
  /\ "C1" \in Fields
<1>1. DOMAIN FIELD_MAP = 1..11
  BY DEF FIELD_MAP
<1>2. \A i, j \in 1..11 : FIELD_MAP[i] = FIELD_MAP[j] => i = j
  BY DEF FIELD_MAP
<1>3. \A i \in 1..11 : FIELD_MAP[i] \notin {"none", "other", "metadata", "frozen", "unfrozen"}
  BY DEF FIELD_MAP
<1>4. FIELD_MAP[1] = "C1" /\ 1 \in 1..11
  BY DEF FIELD_MAP
<1> QED
  BY <1>1, <1>2, <1>3, <1>4 DEF Fields

\* What is written is made of lines.
LEMMA WrittenTyped ==
  ASSUME NEW fields \in [Fields -> Seq(PersonaLine)]
  PROVE  /\ Written(fields) \in Seq(Seq(PersonaLine)) /\ DOMAIN Written(fields) = 1..11
         /\ Preamble(fields) \in Seq(PersonaLine)
         /\ \A i \in 1..11 :
              /\ Visible(fields[FIELD_MAP[i]]) \in Seq(PersonaLine)
              /\ Written(fields)[i] = <<Heading(FIELD_MAP[i])>> \o Visible(fields[FIELD_MAP[i]])
         /\ Render(fields) = Preamble(fields) \o FlattenSeq(Written(fields))
<1>1. /\ Title \in PersonaLine /\ Metadata \in PersonaLine /\ Row("frozen") \in PersonaLine
      /\ \A c \in Fields : Heading(c) \in PersonaLine
  BY DEF Title, Metadata, Row, Heading, PersonaLine
<1> HIDE DEF PersonaLine, Title, Metadata, Row, Heading
<1>2. \A i \in 1..11 : Visible(fields[FIELD_MAP[i]]) \in Seq(PersonaLine)
  BY FieldMap, VisibleLines
<1>3. \A i \in 1..11 : <<Heading(FIELD_MAP[i])>> \o Visible(fields[FIELD_MAP[i]]) \in Seq(PersonaLine)
  <2>1. ASSUME NEW line \in PersonaLine, NEW s \in Seq(PersonaLine) PROVE <<line>> \o s \in Seq(PersonaLine)
    OBVIOUS
  <2> QED
    BY <1>1, <1>2, <2>1, FieldMap, Zenon
<1>4. Written(fields) \in [1..11 -> Seq(PersonaLine)]
  BY <1>3, FieldMap DEF Written
<1>5. Preamble(fields) \in Seq(PersonaLine)
  <2>1. SubSeq(fields["C1"], 2, Len(fields["C1"])) \in Seq(PersonaLine)
    BY FieldMap
  <2>2. Visible(SubSeq(fields["C1"], 2, Len(fields["C1"]))) \in Seq(PersonaLine)
    BY <2>1, VisibleLines
  <2> QED
    BY <1>1, <2>2 DEF Preamble
<1>6. Written(fields) \in Seq(Seq(PersonaLine)) /\ DOMAIN Written(fields) = 1..11
  <2>1. ASSUME NEW S, NEW n \in Nat, NEW s \in [1..n -> S] PROVE s \in Seq(S) /\ DOMAIN s = 1..n
    OBVIOUS
  <2> HIDE DEF Written
  <2> QED
    BY <1>4, <2>1, 11 \in Nat, Zenon
<1>7. \A i \in 1..11 : Written(fields)[i] = <<Heading(FIELD_MAP[i])>> \o Visible(fields[FIELD_MAP[i]])
  BY FieldMap, Zenon DEF Written
<1>8. Render(fields) = Preamble(fields) \o FlattenSeq(Written(fields))
  BY Zenon DEF Render, Preamble, Written
<1> QED
  BY <1>2, <1>5, <1>6, <1>7, <1>8, Zenon

\* A text behind its heading.
Headed(T, s, h, v) ==
  /\ s \in Seq(T) /\ Len(s) = 1 + Len(v) /\ Len(v) \in Nat
  /\ 1 \in DOMAIN s /\ s[1] = h
  /\ \A k \in DOMAIN v : 1 + k \in DOMAIN s /\ s[1 + k] = v[k]
  /\ \A k \in DOMAIN s : k = 1 \/ \E m \in DOMAIN v : k = 1 + m

\* Texts that follow a preamble of L lines, each behind its heading: text i begins
\* before[i] lines after the preamble.
Laid(text, L, N, H, V, before) ==
  /\ before \in [1..(N + 1) -> Nat] /\ before[1] = 0 /\ Len(text) = L + before[N + 1]
  /\ \A i \in 1..N : /\ before[i + 1] = before[i] + (1 + Len(V[i]))
                     /\ L + (before[i] + 1) \in DOMAIN text /\ text[L + (before[i] + 1)] = H[i]
                     /\ \A k \in DOMAIN V[i] : text[L + (before[i] + (1 + k))] = V[i][k]
  /\ \A p \in (L + 1)..Len(text) : \E i \in 1..N :
       \/ p = L + (before[i] + 1)
       \/ \E k \in DOMAIN V[i] : p = L + (before[i] + (1 + k))

\* One line before a text.
LEMMA HeadedText ==
  ASSUME NEW T, NEW h \in T, NEW v \in Seq(T)
  PROVE  Headed(T, <<h>> \o v, h, v)
<1> DEFINE s == <<h>> \o v
<1>1. \A k \in DOMAIN s : k # 1 => k - 1 \in DOMAIN v /\ k = 1 + (k - 1)
  OBVIOUS
<1>2. /\ s \in Seq(T) /\ Len(s) = 1 + Len(v) /\ Len(v) \in Nat
      /\ 1 \in DOMAIN s /\ s[1] = h
      /\ \A k \in DOMAIN v : 1 + k \in DOMAIN s /\ s[1 + k] = v[k]
  OBVIOUS
<1> QED
  BY <1>1, <1>2 DEF Headed

\* Each text behind its heading, and all of them behind the preamble.
Sections(N, H, V) == [i \in 1..N |-> <<H[i]>> \o V[i]]

AfterPreamble(T, text, pre, N, H, V) ==
  /\ text \in Seq(T) /\ Len(pre) \in Nat
  /\ \A p \in DOMAIN pre : p \in DOMAIN text /\ text[p] = pre[p]
  /\ \E before : Laid(text, Len(pre), N, H, V, before)

\* So are they laid when they are strung together.
LEMMA PlacesBehindHeadings ==
  ASSUME NEW T, NEW N \in Nat, NEW H \in [1..N -> T], NEW V \in [1..N -> Seq(T)], NEW pre \in Seq(T)
  PROVE  AfterPreamble(T, pre \o FlattenSeq(Sections(N, H, V)), pre, N, H, V)
<1> SUFFICES ASSUME NEW seqs, seqs = Sections(N, H, V), NEW text, text = pre \o FlattenSeq(seqs),
                    NEW L, L = Len(pre)
             PROVE  /\ text \in Seq(T) /\ L \in Nat
                    /\ \A p \in DOMAIN pre : p \in DOMAIN text /\ text[p] = pre[p]
                    /\ \E before : Laid(text, L, N, H, V, before)
  BY DEF AfterPreamble
<1>1. ASSUME NEW i \in 1..N PROVE Headed(T, seqs[i], H[i], V[i])
  <2>1. H[i] \in T /\ V[i] \in Seq(T) /\ seqs[i] = <<H[i]>> \o V[i]
    BY DEF Sections
  <2>2. Headed(T, <<H[i]>> \o V[i], H[i], V[i])
    BY <2>1, HeadedText, Zenon
  <2> QED
    BY <2>1, <2>2, Zenon
<1>2. seqs \in Seq(Seq(T)) /\ DOMAIN seqs = 1..N /\ Len(seqs) = N
  <2>1. seqs \in [1..N -> Seq(T)]
    BY <1>1 DEF Headed, Sections
  <2> QED
    BY <2>1
<1>3. FlattenSeq(seqs) \in Seq(T)
  BY <1>2, FlattenPlaces, Zenon
<1>4. PICK before \in [1..(N + 1) -> Nat] :
        /\ Pieces(FlattenSeq(seqs), seqs, before, 1..N)
        /\ before[1] = 0
        /\ \A i \in 1..N : before[i + 1] = before[i] + Len(seqs[i])
        /\ before[N + 1] = Len(FlattenSeq(seqs))
  BY <1>2, FlattenPlaces
<1>5. /\ text \in Seq(T) /\ Len(text) = L + before[N + 1] /\ L \in Nat
      /\ Joins(text, pre, FlattenSeq(seqs)) /\ DOMAIN text = 1..Len(text) /\ Len(text) \in Nat
      /\ DOMAIN pre = 1..L
  <2> DEFINE flat == FlattenSeq(seqs)
  <2>1. flat \in Seq(T) /\ text = pre \o flat /\ before[N + 1] = Len(flat)
    BY <1>3, <1>4
  <2> HIDE DEF flat
  <2>2. /\ pre \o flat \in Seq(T) /\ Len(pre \o flat) = Len(pre) + Len(flat) /\ Len(pre) \in Nat
        /\ Joins(pre \o flat, pre, flat)
    BY <2>1, Joined, Zenon
  <2>3. text \in Seq(T) /\ Len(text) = L + before[N + 1] /\ L \in Nat /\ Joins(text, pre, flat)
    BY <2>1, <2>2
  <2> QED
    BY <2>3 DEF flat
<1>8. ASSUME NEW i \in 1..N, NEW k \in DOMAIN seqs[i]
      PROVE  L + (before[i] + k) \in DOMAIN text /\ text[L + (before[i] + k)] = seqs[i][k]
  <2>1. before[i] + k \in DOMAIN FlattenSeq(seqs) /\ FlattenSeq(seqs)[before[i] + k] = seqs[i][k]
    BY <1>4, Zenon DEF Pieces
  <2> QED
    BY <1>5, <2>1, Zenon DEF Joins
<1>9. ASSUME NEW i \in 1..N
      PROVE  /\ before[i + 1] = before[i] + (1 + Len(V[i]))
             /\ L + (before[i] + 1) \in DOMAIN text /\ text[L + (before[i] + 1)] = H[i]
             /\ \A k \in DOMAIN V[i] : text[L + (before[i] + (1 + k))] = V[i][k]
  <2>1. before[i + 1] = before[i] + (1 + Len(V[i]))
    BY <1>1, <1>4, Zenon DEF Headed
  <2>2. L + (before[i] + 1) \in DOMAIN text /\ text[L + (before[i] + 1)] = H[i]
    BY <1>1, <1>8, Zenon DEF Headed
  <2>3. ASSUME NEW k \in DOMAIN V[i] PROVE text[L + (before[i] + (1 + k))] = V[i][k]
    <3>1. 1 + k \in DOMAIN seqs[i] /\ seqs[i][1 + k] = V[i][k]
      BY <1>1, Zenon DEF Headed
    <3> QED
      BY <1>8, <3>1, Zenon
  <2> QED
    BY <2>1, <2>2, <2>3, Zenon
<1>10. ASSUME NEW p \in (L + 1)..Len(text)
       PROVE  \E i \in 1..N : \/ p = L + (before[i] + 1)
                              \/ \E k \in DOMAIN V[i] : p = L + (before[i] + (1 + k))
  <2>1. p \in DOMAIN text /\ p \notin DOMAIN pre
    <3>1. p \in 1..Len(text) /\ p \notin 1..L
      BY <1>5
    <3> QED
      BY <1>5, <3>1
  <2>2. PICK q \in DOMAIN FlattenSeq(seqs) : p = L + q
    BY <1>5, <2>1, Zenon DEF Joins
  <2>3. PICK i \in 1..N : \E k \in DOMAIN seqs[i] : q = before[i] + k
    BY <1>4, Zenon DEF Pieces
  <2>4. PICK k \in DOMAIN seqs[i] : q = before[i] + k
    BY <2>3
  <2>5. k = 1 \/ \E m \in DOMAIN V[i] : k = 1 + m
    BY <1>1, Zenon DEF Headed
  <2> QED
    BY <2>2, <2>4, <2>5, Zenon
<1>11. \A p \in DOMAIN pre : p \in DOMAIN text /\ text[p] = pre[p]
  BY <1>5, Zenon DEF Joins
<1>12. Laid(text, L, N, H, V, before)
  BY <1>4, <1>5, <1>9, <1>10, Zenon DEF Laid
<1> QED
  BY <1>5, <1>11, <1>12, Zenon

\* One line before a text and two behind it.
Wraps(text, a, v, b, c) ==
  /\ Len(text) >= 3 /\ text[1] = a /\ text[Len(text) - 1] = b /\ text[Len(text)] = c
  /\ \A p \in 2..(Len(text) - 2) : p - 1 \in DOMAIN v /\ text[p] = v[p - 1]
  /\ \A p \in {1, Len(text) - 1, Len(text)} \cup 2..(Len(text) - 2) : p \in DOMAIN text

\* That is how they stand.
LEMMA Wrapped ==
  ASSUME NEW T, NEW a \in T, NEW b \in T, NEW c \in T, NEW v \in Seq(T)
  PROVE  Wraps(<<a>> \o v \o <<b, c>>, a, v, b, c)
BY DEF Wraps

\* The lines of a text but the first.
LEMMA LaterLines ==
  ASSUME NEW T, NEW lines \in Seq(T)
  PROVE  /\ SubSeq(lines, 2, Len(lines)) \in Seq(T)
         /\ \A k \in DOMAIN SubSeq(lines, 2, Len(lines)) :
              \E j \in DOMAIN lines : SubSeq(lines, 2, Len(lines))[k] = lines[j]
<1> DEFINE rest == SubSeq(lines, 2, Len(lines))
<1>1. \A k \in DOMAIN rest : k + 1 \in DOMAIN lines /\ rest[k] = lines[k + 1]
  OBVIOUS
<1> QED
  BY <1>1

\* Where everything stands that _render_persona_core writes (persona_system.py:525-590).
LEMMA RenderLayout ==
  ASSUME NEW fields \in [Fields -> Seq(PersonaLine)]
  PROVE  /\ Render(fields) \in Seq(PersonaLine)
         /\ \E L \in Nat :
              /\ L >= 3 /\ Render(fields)[1] = Title
              /\ Render(fields)[L - 1] = Metadata /\ Render(fields)[L] = Row("frozen")
              /\ \A p \in 2..(L - 2) : \E k \in DOMAIN fields["C1"] : Render(fields)[p] = fields["C1"][k]
              /\ \E before : Laid(Render(fields), L, 11, [i \in 1..11 |-> Heading(FIELD_MAP[i])],
                                 [i \in 1..11 |-> Visible(fields[FIELD_MAP[i]])], before)
<1> DEFINE pre == Preamble(fields)
           seqs == Written(fields)
           text == Render(fields)
           V == [i \in 1..11 |-> Visible(fields[FIELD_MAP[i]])]
           H == [i \in 1..11 |-> Heading(FIELD_MAP[i])]
           L == Len(pre)
<1>1. /\ H \in [1..11 -> PersonaLine] /\ V \in [1..11 -> Seq(PersonaLine)] /\ 11 \in Nat
      /\ pre \in Seq(PersonaLine) /\ text = pre \o FlattenSeq(Sections(11, H, V))
  <2>1. \A c \in Fields : Heading(c) \in PersonaLine
    BY DEF Heading, PersonaLine
  <2> HIDE DEF PersonaLine
  <2>2. H \in [1..11 -> PersonaLine] /\ V \in [1..11 -> Seq(PersonaLine)] /\ 11 \in Nat
    BY <2>1, WrittenTyped, FieldMap
  <2>3. seqs = Sections(11, H, V)
    BY FieldMap DEF Written, Sections
  <2> QED
    BY <2>2, <2>3, WrittenTyped, Zenon
<1>2. L = Len(pre)
  OBVIOUS
<1> HIDE DEF pre, seqs, text, V, H, L
<1>3. AfterPreamble(PersonaLine, text, pre, 11, H, V)
  BY <1>1, PlacesBehindHeadings
<1>4. /\ text \in Seq(PersonaLine) /\ L \in Nat
      /\ \A p \in DOMAIN pre : p \in DOMAIN text /\ text[p] = pre[p]
      /\ \E before : Laid(text, L, 11, H, V, before)
  BY <1>2, <1>3, Zenon DEF AfterPreamble
<1>5. /\ L >= 3 /\ text[1] = Title /\ text[L - 1] = Metadata /\ text[L] = Row("frozen")
      /\ \A p \in 2..(L - 2) : \E k \in DOMAIN fields["C1"] : text[p] = fields["C1"][k]
  <2> DEFINE rest == SubSeq(fields["C1"], 2, Len(fields["C1"]))
             v == Visible(rest)
  <2>1. /\ rest \in Seq(PersonaLine)
        /\ \A k \in DOMAIN rest : \E j \in DOMAIN fields["C1"] : rest[k] = fields["C1"][j]
    <3>1. fields["C1"] \in Seq(PersonaLine)
      BY FieldMap
    <3> QED
      BY <3>1, LaterLines, Zenon
  <2>2. v \in Seq(PersonaLine) /\ \A k \in DOMAIN v : \E j \in DOMAIN rest : v[k] = rest[j]
    BY <2>1, VisibleLines, Zenon
  <2>3. pre = <<Title>> \o v \o <<Metadata, Row("frozen")>>
    BY Zenon DEF Preamble, pre
  <2>4. Title \in PersonaLine /\ Metadata \in PersonaLine /\ Row("frozen") \in PersonaLine
    BY DEF Title, Metadata, Row, Heading, PersonaLine
  <2> HIDE DEF v, rest
  <2>5. /\ L >= 3 /\ pre[1] = Title /\ pre[L - 1] = Metadata /\ pre[L] = Row("frozen")
        /\ \A p \in 2..(L - 2) : p - 1 \in DOMAIN v /\ pre[p] = v[p - 1]
        /\ \A p \in {1, L - 1, L} \cup 2..(L - 2) : p \in DOMAIN pre
    <3>1. Wraps(pre, Title, v, Metadata, Row("frozen"))
      BY <2>2, <2>3, <2>4, Wrapped
    <3> QED
      BY <1>2, <3>1 DEF Wraps
  <2>6. \A k \in DOMAIN pre : text[k] = pre[k]
    BY <1>4
  <2>7. ASSUME NEW p \in 2..(L - 2) PROVE \E k \in DOMAIN fields["C1"] : text[p] = fields["C1"][k]
    <3>1. p - 1 \in DOMAIN v /\ text[p] = v[p - 1]
      BY <2>5, <2>6
    <3>2. PICK j \in DOMAIN rest : v[p - 1] = rest[j]
      BY <2>2, <3>1, Zenon
    <3> QED
      BY <2>1, <3>1, <3>2, Zenon
  <2>8. text[1] = Title /\ text[L - 1] = Metadata /\ text[L] = Row("frozen")
    BY <2>5, <2>6
  <2> QED
    BY <2>5, <2>7, <2>8
<1> QED
  BY <1>4, <1>5 DEF V, H, text

\* The lines of v, none of them a heading, follow line h up to a heading or the end.
Follows(text, h, v, n) ==
  /\ DOMAIN text = 1..Len(text) /\ Len(text) \in Nat
  /\ \A k \in 1..n : text[h + k] = v[k] /\ ~IsHeading(v[k])
  /\ h + n <= Len(text)
  /\ h + n # Len(text) => IsHeading(text[h + n + 1])

\* Then they are the lines of the section.
LEMMA BodyOf ==
  ASSUME NEW text, NEW v, NEW h \in Nat, NEW n \in Nat, Follows(text, h, v, n)
  PROVE  Body(text, h) = (h + 1)..(h + n) /\ Cardinality(Body(text, h)) = n
<1>0. Len(text) \in Nat /\ h + n <= Len(text)
  BY DEF Follows
<1>1. ASSUME NEW i \in (h + 1)..(h + n) PROVE i \in (h + 1)..Len(text) /\ ~IsHeading(text[i])
  <2>1. i - h \in 1..n /\ i = h + (i - h)
    OBVIOUS
  <2>2. ~IsHeading(text[h + (i - h)])
    <3> DEFINE k == i - h
    <3>1. k \in 1..n
      BY <2>1
    <3> HIDE DEF k
    <3>2. ~IsHeading(text[h + k])
      BY <3>1, Zenon DEF Follows
    <3> QED
      BY <3>2 DEF k
  <2>3. i \in (h + 1)..Len(text)
    BY <1>0
  <2>4. text[i] = text[h + (i - h)]
    BY <2>1
  <2> QED
    BY <2>2, <2>3, <2>4, Zenon
<1>2. \A i \in (h + 1)..(h + n) : i \in Body(text, h)
  <2>1. \A i \in (h + 1)..(h + n) : \A j \in (h + 1)..i : j \in (h + 1)..(h + n)
    OBVIOUS
  <2> QED
    BY <1>1, <2>1, Zenon DEF Body
<1>3. ASSUME NEW i \in Body(text, h) PROVE i \in (h + 1)..(h + n)
  <2>1. i \in (h + 1)..Len(text) /\ \A j \in (h + 1)..i : ~IsHeading(text[j])
    BY Zenon DEF Body
  <2>2. i > h + n => h + n + 1 \in (h + 1)..i /\ h + n # Len(text)
    BY <1>0, <2>1
  <2>3. h + n # Len(text) => IsHeading(text[h + n + 1])
    BY DEF Follows
  <2>4. ~(i > h + n)
    BY <2>1, <2>2, <2>3, Zenon
  <2> QED
    BY <1>0, <2>1, <2>4
<1>4. Body(text, h) = (h + 1)..(h + n)
  BY <1>2, <1>3, Zenon
<1>5. Cardinality((h + 1)..(h + n)) = n
  <2>1. h + 1 \in Int /\ h + n \in Int /\ (h + n) - (h + 1) + 1 = n /\ (h + 1 > h + n => n = 0)
    OBVIOUS
  <2> QED
    BY <2>1, FS_Interval
<1> QED
  BY <1>4, <1>5

\* And so is the text that is cut out.
LEMMA SectionIs ==
  ASSUME NEW T, NEW text \in Seq(T), NEW v \in Seq(T), NEW h \in Nat, Follows(text, h, v, Len(v))
  PROVE  SubSeq(text, h + 1, h + Cardinality(Body(text, h))) = v
<1>1. Cardinality(Body(text, h)) = Len(v)
  BY BodyOf
<1> SUFFICES ASSUME NEW n \in Nat, n = Len(v), h + n <= Len(text), \A k \in 1..n : text[h + k] = v[k]
             PROVE  SubSeq(text, h + 1, h + n) = v
  BY <1>1 DEF Follows
<1>2. SubSeq(text, h + 1, h + n) \in Seq(T) /\ Len(SubSeq(text, h + 1, h + n)) = n
  OBVIOUS
<1>3. \A k \in 1..n : SubSeq(text, h + 1, h + n)[k] = v[k]
  OBVIOUS
<1>4. ASSUME NEW s \in Seq(T), Len(s) = n, \A k \in 1..n : s[k] = v[k] PROVE s = v
  BY <1>4
<1> QED
  BY <1>2, <1>3, <1>4, Zenon

\* The sums that the places are, in another order.
LEMMA Sums ==
  ASSUME NEW L \in Nat, NEW b \in Nat, NEW n \in Nat
  PROVE  /\ \A k \in 1..n : L + (b + (1 + k)) = (L + (b + 1)) + k
         /\ L + (b + (1 + n)) = (L + (b + 1)) + n /\ L + (b + 1) \in Nat
         /\ L + ((b + (1 + n)) + 1) = (L + (b + 1)) + n + 1
OBVIOUS

\* The same with the places that Laid has.
SectionLines(text, L, b, n, v) ==
  /\ DOMAIN text = 1..Len(text) /\ Len(text) \in Nat
  /\ \A k \in 1..n : text[L + (b + (1 + k))] = v[k] /\ ~IsHeading(v[k])
  /\ \/ L + (b + (1 + n)) = Len(text)
     \/ /\ L + ((b + (1 + n)) + 1) \in DOMAIN text
        /\ IsHeading(text[L + ((b + (1 + n)) + 1)])

\* The one way of counting comes to the other.
LEMMA SectionFollows ==
  ASSUME NEW L \in Nat, NEW b \in Nat, NEW n \in Nat, NEW text, NEW v, SectionLines(text, L, b, n, v)
  PROVE  L + (b + 1) \in Nat /\ Follows(text, L + (b + 1), v, n)
<1>1. /\ \A k \in 1..n : L + (b + (1 + k)) = (L + (b + 1)) + k
      /\ L + (b + (1 + n)) = (L + (b + 1)) + n /\ L + (b + 1) \in Nat
      /\ L + ((b + (1 + n)) + 1) = (L + (b + 1)) + n + 1
  BY Sums
<1>2. ASSUME NEW k \in 1..n PROVE text[(L + (b + 1)) + k] = v[k] /\ ~IsHeading(v[k])
  <2>1. text[L + (b + (1 + k))] = v[k] /\ ~IsHeading(v[k])
    BY Zenon DEF SectionLines
  <2>2. L + (b + (1 + k)) = (L + (b + 1)) + k
    BY <1>1
  <2> QED
    BY <2>1, <2>2, Zenon
<1>3. ASSUME NEW e \in Nat, NEW l \in Nat, e = l \/ e + 1 \in 1..l PROVE e <= l
  BY <1>3
<1>4. \/ (L + (b + 1)) + n = Len(text)
      \/ (L + (b + 1)) + n + 1 \in 1..Len(text) /\ IsHeading(text[(L + (b + 1)) + n + 1])
  BY <1>1, Zenon DEF SectionLines
<1>5. (L + (b + 1)) + n \in Nat
  BY <1>1
<1>6. (L + (b + 1)) + n <= Len(text)
  BY <1>3, <1>4, <1>5, Zenon DEF SectionLines
<1> QED
  BY <1>1, <1>2, <1>4, <1>6, Zenon DEF Follows, SectionLines

\* Sections of such a text, with headings; lines that are no headings; and the lines
\* that a section is read as.
SectionsLaid(T, text, L, N, H, V, before) ==
  /\ text \in Seq(T) /\ L \in Nat /\ N \in Nat /\ V \in [1..N -> Seq(T)]
  /\ Laid(text, L, N, H, V, before)
  /\ \A i \in 1..N : IsHeading(H[i])

NoHeading(lines) == \A k \in DOMAIN lines : ~IsHeading(lines[k])

ReadAt(text, h, lines) ==
  h \in DOMAIN text /\ SubSeq(text, h + 1, h + Cardinality(Body(text, h))) = lines

\* What a section is read as.
LEMMA SectionRead ==
  ASSUME NEW T, NEW text, NEW L, NEW N, NEW H, NEW V, NEW before,
         SectionsLaid(T, text, L, N, H, V, before), NEW m \in 1..N, NoHeading(V[m])
  PROVE  ReadAt(text, L + (before[m] + 1), V[m])
<1> SUFFICES ASSUME text \in Seq(T), L \in Nat, N \in Nat, V \in [1..N -> Seq(T)],
                    Laid(text, L, N, H, V, before), \A i \in 1..N : IsHeading(H[i]),
                    \A k \in DOMAIN V[m] : ~IsHeading(V[m][k]),
                    NEW h, h = L + (before[m] + 1)
             PROVE  h \in DOMAIN text /\ SubSeq(text, h + 1, h + Cardinality(Body(text, h))) = V[m]
  BY DEF SectionsLaid, NoHeading, ReadAt
<1>1. before[m] \in Nat /\ V[m] \in Seq(T) /\ h \in DOMAIN text
  <2>1. before \in [1..(N + 1) -> Nat] /\ h \in DOMAIN text
    BY Zenon DEF Laid
  <2>2. m \in 1..(N + 1)
    OBVIOUS
  <2> QED
    BY <2>1, <2>2, Zenon
<1>2. DOMAIN V[m] = 1..Len(V[m]) /\ Len(V[m]) \in Nat /\ DOMAIN text = 1..Len(text) /\ Len(text) \in Nat
  OBVIOUS
<1>3. /\ before[m + 1] = before[m] + (1 + Len(V[m]))
      /\ \A k \in 1..Len(V[m]) : text[L + (before[m] + (1 + k))] = V[m][k] /\ ~IsHeading(V[m][k])
  <2>1. /\ before[m + 1] = before[m] + (1 + Len(V[m]))
        /\ \A k \in DOMAIN V[m] : text[L + (before[m] + (1 + k))] = V[m][k]
    BY Zenon DEF Laid
  <2>2. \A k \in DOMAIN V[m] : ~IsHeading(V[m][k])
    OBVIOUS
  <2> QED
    BY <1>2, <2>1, <2>2
<1>4. \/ L + (before[m] + (1 + Len(V[m]))) = Len(text)
      \/ /\ L + ((before[m] + (1 + Len(V[m]))) + 1) \in DOMAIN text
         /\ IsHeading(text[L + ((before[m] + (1 + Len(V[m]))) + 1)])
  <2>1. CASE m = N
    <3>1. Len(text) = L + before[m + 1]
      BY <2>1, Zenon DEF Laid
    <3> QED
      BY <1>3, <3>1, Zenon
  <2>2. CASE m # N
    <3>1. m + 1 \in 1..N
      BY <2>2
    <3>2. L + (before[m + 1] + 1) \in DOMAIN text /\ text[L + (before[m + 1] + 1)] = H[m + 1]
      BY <3>1, Zenon DEF Laid
    <3> QED
      BY <1>3, <3>1, <3>2, Zenon
  <2> QED
    BY <2>1, <2>2
<1>5. h \in Nat /\ Follows(text, h, V[m], Len(V[m]))
  <2>1. SectionLines(text, L, before[m], Len(V[m]), V[m])
    BY <1>2, <1>3, <1>4, Zenon DEF SectionLines
  <2> QED
    BY <1>1, <1>2, <2>1, SectionFollows
<1> QED
  BY <1>1, <1>5, SectionIs

\* The headings of the sections and what the fields show, in the order of the text.
Headings == [i \in 1..11 |-> Heading(FIELD_MAP[i])]
ShownBy(fields) == [i \in 1..11 |-> Visible(fields[FIELD_MAP[i]])]

\* The places of a persona's text: the title, the rest of the name, the metadata up to
\* line L, then the sections.
Layout(fields, text, L, before) ==
  /\ text \in Seq(PersonaLine)
  /\ L \in Nat /\ L >= 3
  /\ text[1] = Title /\ text[L - 1] = Metadata /\ text[L] = Row("frozen")
  /\ \A p \in 2..(L - 2) : \E k \in DOMAIN fields["C1"] : text[p] = fields["C1"][k]
  /\ Laid(text, L, 11, Headings, ShownBy(fields), before)

\* A persona is written so.
LEMMA RenderPlaces ==
  ASSUME NEW fields \in [Fields -> Seq(PersonaLine)]
  PROVE  \E L \in Nat : \E before : Layout(fields, Render(fields), L, before)
BY RenderLayout, Zenon DEF Layout, Headings, ShownBy

\* No two headings are the same, and none is another line of the code's own.
LEMMA OwnLines ==
  /\ \A c, d : Heading(c) = Heading(d) => c = d
  /\ \A c \in Fields : Heading(c) \notin {Title, Metadata, Row("frozen"), Broken}
  /\ Metadata \notin {Title, Broken} /\ Broken \notin {Title, Row("frozen")}
  /\ \A c : IsHeading(Heading(c))
<1>1. \A c, d : Heading(c) = Heading(d) => c = d
  <2> SUFFICES ASSUME NEW c, NEW d, Heading(c) = Heading(d) PROVE c = d
    OBVIOUS
  <2>1. Heading(c).section = c /\ Heading(d).section = d
    BY DEF Heading
  <2> QED
    BY <2>1, Zenon
<1>2. "metadata" \notin Fields
  BY FieldMap
<1>3. \A c : IsHeading(Heading(c)) /\ Heading(c) \notin {Title, Row("frozen"), Broken}
  BY DEF Heading, IsHeading, Title, Row, Broken
<1>4. ~IsHeading(Title) /\ ~IsHeading(Broken) /\ Broken \notin {Title, Row("frozen")}
  BY DEF IsHeading, Title, Broken, Row
<1>5. Metadata = Heading("metadata")
  BY DEF Metadata
<1> QED
  BY <1>1, <1>2, <1>3, <1>4, <1>5, Zenon

\* What a line of such a text is.
LineAt(fields, text, L, before, p) ==
  \/ p = 1 /\ text[p] = Title
  \/ p \in 2..(L - 2) /\ \E k \in DOMAIN fields["C1"] : text[p] = fields["C1"][k]
  \/ p = L - 1 /\ text[p] = Metadata
  \/ p = L /\ text[p] = Row("frozen")
  \/ \E i \in 1..11 : p = L + (before[i] + 1) /\ text[p] = Heading(FIELD_MAP[i])
  \/ \E i \in 1..11 : \E k \in DOMAIN fields[FIELD_MAP[i]] : text[p] = fields[FIELD_MAP[i]][k]

\* The lines of a text that was laid out like this.
LEMMA LayoutLines ==
  ASSUME NEW fields \in [Fields -> Seq(PersonaLine)], NEW text, NEW L, NEW before,
         Layout(fields, text, L, before), NEW p \in DOMAIN text
  PROVE  LineAt(fields, text, L, before, p)
<1>1. L \in Nat /\ L >= 3 /\ DOMAIN text = 1..Len(text) /\ Len(text) \in Nat
  BY DEF Layout
<1>2. p = 1 \/ p \in 2..(L - 2) \/ p = L - 1 \/ p = L \/ p \in (L + 1)..Len(text)
  BY <1>1
<1>3. ASSUME p \in (L + 1)..Len(text)
      PROVE  \/ \E i \in 1..11 : p = L + (before[i] + 1) /\ text[p] = Heading(FIELD_MAP[i])
             \/ \E i \in 1..11 : \E k \in DOMAIN fields[FIELD_MAP[i]] : text[p] = fields[FIELD_MAP[i]][k]
  <2>1. Laid(text, L, 11, Headings, ShownBy(fields), before)
    BY DEF Layout
  <2>2. PICK i \in 1..11 : \/ p = L + (before[i] + 1)
                           \/ \E k \in DOMAIN ShownBy(fields)[i] : p = L + (before[i] + (1 + k))
    BY <1>3, <2>1, Zenon DEF Laid
  <2>3. CASE p = L + (before[i] + 1)
    <3>1. text[L + (before[i] + 1)] = Headings[i]
      BY <2>1, Zenon DEF Laid
    <3>2. Headings[i] = Heading(FIELD_MAP[i])
      BY DEF Headings
    <3> QED
      BY <2>3, <3>1, <3>2, Zenon
  <2>4. ASSUME NEW k \in DOMAIN ShownBy(fields)[i], p = L + (before[i] + (1 + k))
        PROVE  \E j \in DOMAIN fields[FIELD_MAP[i]] : text[p] = fields[FIELD_MAP[i]][j]
    <3>1. text[L + (before[i] + (1 + k))] = ShownBy(fields)[i][k]
      BY <2>1, Zenon DEF Laid
    <3>2. ShownBy(fields)[i] = Visible(fields[FIELD_MAP[i]])
      BY DEF ShownBy
    <3>3. fields[FIELD_MAP[i]] \in Seq(PersonaLine)
      BY FieldMap
    <3>4. \A q \in DOMAIN Visible(fields[FIELD_MAP[i]]) :
            \E j \in DOMAIN fields[FIELD_MAP[i]] :
              Visible(fields[FIELD_MAP[i]])[q] = fields[FIELD_MAP[i]][j]
      BY <3>3, VisibleLines, Zenon
    <3> QED
      BY <2>4, <3>1, <3>2, <3>4, Zenon
  <2> QED
    BY <2>2, <2>3, <2>4, Zenon
<1>4. text[1] = Title /\ text[L - 1] = Metadata /\ text[L] = Row("frozen")
  BY DEF Layout
<1>5. p \in 2..(L - 2) => \E k \in DOMAIN fields["C1"] : text[p] = fields["C1"][k]
  BY DEF Layout
<1> QED
  BY <1>2, <1>3, <1>4, <1>5, Zenon DEF LineAt

\* The heading of a field that nothing disturbs is there once.
LEMMA HeadingOnce ==
  ASSUME NEW fields \in [Fields -> Seq(PersonaLine)], NEW text, NEW L, NEW before,
         Layout(fields, text, L, before),
         NEW m \in 1..11, Undisturbed(fields, FIELD_MAP[m])
  PROVE  {p \in DOMAIN text : text[p] = Heading(FIELD_MAP[m])} = {L + (before[m] + 1)}
<1> DEFINE c == FIELD_MAP[m]
<1>1. c \in Fields /\ "C1" \in Fields /\ \A i \in 1..11 : FIELD_MAP[i] \in Fields
  BY FieldMap
<1>2. \A d \in Fields : \A k \in DOMAIN fields[d] : fields[d][k] # Heading(c)
  BY DEF Undisturbed
<1>3. \A i \in 1..11 : Heading(FIELD_MAP[i]) = Heading(c) => i = m
  BY FieldMap, OwnLines, Zenon
<1>4. Heading(c) \notin {Title, Metadata, Row("frozen")}
  BY <1>1, OwnLines, Zenon
<1>5. L + (before[m] + 1) \in DOMAIN text /\ text[L + (before[m] + 1)] = Heading(c)
  <2>1. Laid(text, L, 11, Headings, ShownBy(fields), before)
    BY DEF Layout
  <2>2. L + (before[m] + 1) \in DOMAIN text /\ text[L + (before[m] + 1)] = Headings[m]
    BY <2>1, Zenon DEF Laid
  <2>3. Headings[m] = Heading(c)
    BY DEF Headings
  <2> QED
    BY <2>2, <2>3, Zenon
<1> HIDE DEF c
<1>6. ASSUME NEW p \in DOMAIN text, text[p] = Heading(c) PROVE p = L + (before[m] + 1)
  <2>1. CASE \E i \in 1..11 : p = L + (before[i] + 1) /\ text[p] = Heading(FIELD_MAP[i])
    BY <1>3, <1>6, <2>1, Zenon
  <2>2. CASE \E d \in Fields : \E k \in DOMAIN fields[d] : text[p] = fields[d][k]
    BY <1>2, <1>6, <2>2, Zenon
  <2>3. CASE text[p] \in {Title, Metadata, Row("frozen")}
    BY <1>4, <1>6, <2>3, Zenon
  <2>4. \/ text[p] \in {Title, Metadata, Row("frozen")}
        \/ \E k \in DOMAIN fields["C1"] : text[p] = fields["C1"][k]
        \/ \E i \in 1..11 : p = L + (before[i] + 1) /\ text[p] = Heading(FIELD_MAP[i])
        \/ \E i \in 1..11 : \E k \in DOMAIN fields[FIELD_MAP[i]] : text[p] = fields[FIELD_MAP[i]][k]
    <3>1. LineAt(fields, text, L, before, p)
      BY LayoutLines
    <3> QED
      BY <3>1, Zenon DEF LineAt
  <2> QED
    BY <1>1, <2>1, <2>2, <2>3, <2>4, Zenon
<1> QED
  BY <1>5, <1>6 DEF c

\* The largest of one number, and the smallest of some.
LEMMA MaxOne ==
  ASSUME NEW h \in Int
  PROVE  Max({h}) = h
BY DEF Max

LEMMA MinFirst ==
  ASSUME NEW S \in SUBSET Nat, NEW h \in S, \A y \in S : h <= y
  PROVE  Min(S) = h
<1>1. \E x \in S : \A y \in S : x <= y
  OBVIOUS
<1> DEFINE x == CHOOSE x \in S : \A y \in S : x =< y
<1>2. x \in S /\ \A y \in S : x <= y
  BY <1>1
<1>3. Min(S) = x
  BY DEF Min
<1> HIDE DEF x
<1> QED
  BY <1>2, <1>3

\* Such a field is read as it was written.
LEMMA FieldRead ==
  ASSUME NEW fields \in [Fields -> Seq(PersonaLine)], NEW text, NEW L, NEW before,
         Layout(fields, text, L, before),
         NEW m \in 1..11, Undisturbed(fields, FIELD_MAP[m])
  PROVE  ParseSections(text)[FIELD_MAP[m]] = Visible(fields[FIELD_MAP[m]])
<1> DEFINE c == FIELD_MAP[m]
           h == L + (before[m] + 1)
           V == ShownBy(fields)
<1>1. c \in Fields /\ \A i \in 1..11 : FIELD_MAP[i] \in Fields
  BY FieldMap
<1>2. Laid(text, L, 11, Headings, V, before) /\ text \in Seq(PersonaLine) /\ L \in Nat /\ 11 \in Nat
  BY DEF Layout
<1>3. V \in [1..11 -> Seq(PersonaLine)] /\ V[m] = Visible(fields[c])
  BY FieldMap, VisibleLines DEF ShownBy
<1>4. \A i \in 1..11 : IsHeading(Headings[i])
  BY OwnLines DEF Headings
<1>5. \A k \in DOMAIN V[m] : ~IsHeading(V[m][k])
  <2>1. \A i \in DOMAIN fields[c] : ~IsHeading(fields[c][i])
    BY DEF Undisturbed, IsHeading
  <2>2. fields[c] \in Seq(PersonaLine)
    BY <1>1
  <2> HIDE DEF V, c
  <2>3. \A k \in DOMAIN Visible(fields[c]) :
          \E i \in DOMAIN fields[c] : Visible(fields[c])[k] = fields[c][i]
    BY <2>2, VisibleLines, Zenon
  <2> QED
    BY <1>3, <2>1, <2>3, Zenon
<1> HIDE DEF V
<1>6. ReadAt(text, h, V[m])
  <2>1. SectionsLaid(PersonaLine, text, L, 11, Headings, V, before)
    BY <1>2, <1>3, <1>4, Zenon DEF SectionsLaid
  <2>2. NoHeading(V[m])
    BY <1>5, Zenon DEF NoHeading
  <2> QED
    BY <2>1, <2>2, SectionRead, Zenon
<1>7. {p \in DOMAIN text : text[p] = Heading(c)} = {h}
  BY HeadingOnce
<1>8. Max({h}) = h
  <2>1. h \in Int
    BY <1>2, <1>6 DEF ReadAt
  <2> HIDE DEF h
  <2> QED
    BY <2>1, MaxOne
<1> HIDE DEF h, c
<1>9. ParseSections(text)[c] = SubSeq(text, h + 1, h + Cardinality(Body(text, h)))
  <2>1. {h} # {}
    OBVIOUS
  <2> QED
    BY <1>1, <1>7, <1>8, <2>1, Zenon DEF ParseSections
<1> QED
  BY <1>3, <1>6, <1>9 DEF c, ReadAt

\* The metadata are read as they were written.
LEMMA MetadataRead ==
  ASSUME NEW fields \in [Fields -> Seq(PersonaLine)], NEW text, NEW L, NEW before,
         Layout(fields, text, L, before),
         \A i \in DOMAIN fields["C1"] : fields["C1"][i] # Metadata
  PROVE  IsFrozen(text)
<1> DEFINE headings == {h \in DOMAIN text : text[h] = Metadata}
<1>1. /\ L \in Nat /\ L >= 3 /\ L - 1 \in Nat /\ text[1] = Title /\ text[L - 1] = Metadata
      /\ text[L] = Row("frozen") /\ DOMAIN text = 1..Len(text) /\ Len(text) \in Nat
      /\ (L - 1) + 1 = L
  BY DEF Layout
<1>2. L + 1 \in DOMAIN text /\ IsHeading(text[L + 1])
  <2>1. Laid(text, L, 11, Headings, ShownBy(fields), before) /\ 1 \in 1..11
    BY DEF Layout
  <2>2. before[1] = 0 /\ L + (before[1] + 1) \in DOMAIN text /\ text[L + (before[1] + 1)] = Headings[1]
    BY <2>1, Zenon DEF Laid
  <2>3. L + (0 + 1) = L + 1
    BY <1>1
  <2>4. IsHeading(Headings[1])
    BY <2>1, OwnLines DEF Headings
  <2> QED
    BY <2>2, <2>3, <2>4, Zenon
<1>3. L - 1 \in DOMAIN text /\ headings \subseteq Nat
  BY <1>1, <1>2
<1>4. ASSUME NEW p \in headings PROVE L - 1 <= p
  <2> SUFFICES ASSUME p < L - 1 PROVE FALSE
    BY <1>1
  <2>1. p = 1 \/ p \in 2..(L - 2)
    BY <1>1
  <2>2. p # 1
    BY <1>1, OwnLines
  <2>3. p \in 2..(L - 2) => \E k \in DOMAIN fields["C1"] : text[p] = fields["C1"][k]
    BY DEF Layout
  <2>4. text[p] = Metadata
    OBVIOUS
  <2> QED
    BY <2>1, <2>2, <2>3, <2>4, Zenon
<1>5. Min(headings) = L - 1
  BY <1>1, <1>3, <1>4, MinFirst
<1>6. Body(text, L - 1) = {L}
  <2>1. Follows(text, L - 1, <<Row("frozen")>>, 1)
    <3>1. ~IsHeading(Row("frozen"))
      BY DEF Row, IsHeading
    <3>2. (L - 1) + 1 <= Len(text) /\ (L - 1) + 1 + 1 = L + 1 /\ (L - 1) + 1 # Len(text)
      BY <1>1, <1>2
    <3>3. \A k \in 1..1 : k = 1
      OBVIOUS
    <3>4. <<Row("frozen")>>[1] = Row("frozen")
      OBVIOUS
    <3>5. IsHeading(text[(L - 1) + 1 + 1])
      BY <1>2, <3>2
    <3> QED
      BY <1>1, <3>1, <3>2, <3>3, <3>4, <3>5 DEF Follows
  <2>2. Body(text, L - 1) = ((L - 1) + 1)..((L - 1) + 1)
    BY <1>1, <2>1, BodyOf
  <2> QED
    BY <1>1, <2>2
<1> HIDE DEF headings
<1>7. {i \in Body(text, Min(headings)) : text[i].kind = "row"} = {L}
  <2>1. text[L].kind = "row"
    BY <1>1 DEF Row
  <2> QED
    BY <1>5, <1>6, <2>1
<1>8. Max({L}) = L
  BY <1>1, MaxOne
<1> QED
  <2>1. headings # {} /\ {L} # {}
    BY <1>1, <1>3 DEF headings
  <2> QED
    BY <1>1, <1>7, <1>8, <2>1, Zenon DEF IsFrozen, headings

\* What _render_persona_core writes, load_persona_core reads again: each field in which no
\* line begins a section and whose heading stands in no field, without its blank lines,
\* and the frozen state (persona_system.py:226-318, 525-654).
THEOREM RenderReads ==
  ASSUME NEW fields \in [Fields -> Seq(PersonaLine)]
  PROVE  ReadsAsWritten(fields, Render(fields))
<1>1. PICK L \in Nat : \E before : Layout(fields, Render(fields), L, before)
  BY RenderPlaces
<1>2. PICK before : Layout(fields, Render(fields), L, before)
  BY <1>1
<1>3. ASSUME NEW c \in Fields, Undisturbed(fields, c)
      PROVE  ParseSections(Render(fields))[c] = Visible(fields[c])
  <2>1. PICK m \in 1..11 : c = FIELD_MAP[m]
    BY FieldMap
  <2> QED
    BY <1>2, <1>3, <2>1, FieldRead, Zenon
<1> QED
  BY <1>2, <1>3, MetadataRead, Zenon DEF ReadsAsWritten

\* Such a text can be decoded: load_persona_core refuses it exactly when a required field
\* shows nothing (persona_system.py:226-318).
THEOREM RenderAccepted ==
  ASSUME NEW fields \in [Fields -> Seq(PersonaLine)],
         \A c \in REQUIRED_FIELDS : Undisturbed(fields, c)
  PROVE  IsPersona(Render(fields)) <=> \A c \in REQUIRED_FIELDS : Visible(fields[c]) # <<>>
<1>1. Render(fields) \in Seq(PersonaLine)
  BY RenderLayout
<1>2. \A i \in DOMAIN Render(fields) : Render(fields)[i] # Broken
  <2>1. Broken \notin PersonaLine
    BY DEF Broken, PersonaLine
  <2>2. ASSUME NEW T, NEW s \in Seq(T) PROVE \A i \in DOMAIN s : s[i] \in T
    OBVIOUS
  <2> QED
    BY <1>1, <2>1, <2>2, Zenon
<1>3. REQUIRED_FIELDS \subseteq Fields
  BY DEF REQUIRED_FIELDS, Fields, FIELD_MAP
<1>4. \A c \in REQUIRED_FIELDS : ParseSections(Render(fields))[c] = Visible(fields[c])
  BY <1>3, RenderReads, Zenon DEF ReadsAsWritten
<1> QED
  BY <1>2, <1>4, Zenon DEF IsPersona

-----------------------------------------------------------------------------
(* The session. *)

\* A freeze that wrote both Markdown files holds until persona_core.md is removed, and
\* the process that runs is the one that its text admits.
SessionInv ==
  /\ written >= 2 /\ core # {} => core = {Render(frozen.fields)} /\ style = {frozen.number}
  /\ written = 3 => configFrozen
  /\ mode \in {"normal", "restarting"} => core # {} /\ \A text \in core : IsPersona(text)
  /\ mode = "refused" => core # {} /\ \A text \in core : ~IsPersona(text)

\* The other steps leave the files as they are, and the process goes on or ends.
LEMMA SessionKept ==
  ASSUME SessionInv, UNCHANGED <<mode, core, style, configFrozen, frozen, written>>
  PROVE  SessionInv'
BY DEF SessionInv

LEMMA SessionEnds ==
  ASSUME SessionInv, mode' = "off", UNCHANGED <<core, style, configFrozen, frozen, written>>
  PROVE  SessionInv'
BY DEF SessionInv

\* A freeze makes the files those of the persona it freezes.
LEMMA SessionWritten ==
  ASSUME TypeOK, SessionInv, NEW n \in 0..3, WriteFiles(n), mode' \in {"wizard", "off"}
  PROVE  SessionInv'
<1>1. written' = n /\ frozen' = current
  BY DEF WriteFiles
<1>2. n >= 2 => core' = {Render(current.fields)} /\ style' = {current.number}
  BY DEF WriteFiles
<1>3. n = 3 => configFrozen'
  BY DEF WriteFiles
<1> QED
  BY <1>1, <1>2, <1>3 DEF SessionInv

\* Every step keeps the invariant.
LEMMA SessionStep ==
  ASSUME TypeOK, SessionInv, [Next]_vars
  PROVE  SessionInv'
<1>1. CASE StartProcess
  <2>1. \A s, t \in core : s = t
    BY DEF TypeOK
  <2> QED
    BY <1>1, <2>1 DEF SessionInv, StartProcess, files, freezes
<1>2. CASE CloseWindow \/ Crash \/ Finish
  BY <1>2, SessionEnds DEF CloseWindow, Crash, Finish, Gone, files, freezes
<1>3. CASE BackupCore
  BY <1>3 DEF SessionInv, BackupCore, history, freezes
<1>4. CASE RemoveCore
  <2>1. CASE core' = {} /\ mode' = "off"
    BY <1>4, <2>1 DEF SessionInv, RemoveCore, history, freezes
  <2>2. CASE UNCHANGED core /\ mode' = "normal"
    BY <1>4, <2>2 DEF SessionInv, RemoveCore, history, freezes
  <2> QED
    BY <1>4, <2>1, <2>2 DEF RemoveCore
<1>5. CASE SelectMethod \/ Back \/ Generate \/ SubmitBlank \/ Send \/ Confirm \/ Dismiss
  <2>1. UNCHANGED <<mode, core, style, configFrozen, frozen, written>>
    BY <1>5
       DEF SelectMethod, Back, Generate, SubmitBlank, Send, Confirm, Dismiss, files, history,
           freezes
  <2> QED
    BY <2>1, SessionKept
<1>6. CASE \E j \in jobs : JobStep(j)
  <2>1. UNCHANGED <<mode, core, style, configFrozen, frozen, written>>
    BY <1>6
       DEF JobStep, EndGeneration, ExpandAssociations, GenerateCandidates, GenerateStyleSamples,
           ReshapeFreeDescription, EndAnswer, PostUnlock, files, history, freezes
  <2> QED
    BY <2>1, SessionKept
<1>7. CASE Callbacks
  <2>1. UNCHANGED <<mode, core, style, configFrozen, frozen, written>>
    BY <1>7
       DEF Callbacks, GenerationDone, GenerationError, PreviewResponse, PreviewError, UnlockSend,
           Runs, files, history, freezes
  <2> QED
    BY <2>1, SessionKept
<1>8. CASE Freeze
  BY <1>8, SessionWritten DEF Freeze
<1>9. CASE CrashInFreeze
  <2>1. \A n \in 0..2 : n \in 0..3
    OBVIOUS
  <2> QED
    BY <1>9, <2>1, SessionWritten DEF CrashInFreeze
<1>10. CASE UNCHANGED vars
  BY <1>10, SessionKept DEF vars, files, history, freezes
<1> QED
  BY <1>1, <1>2, <1>3, <1>4, <1>5, <1>6, <1>7, <1>8, <1>9, <1>10 DEF Next

\* What a start reads is what the wizard has frozen: every field that nothing disturbs,
\* the frozen state and the style samples of this persona, and it is refused exactly
\* when a required field shows nothing, whatever the LLM wrote into the fields
\* (wizard.py:497-524, persona_system.py:226-318, 525-654).
THEOREM SessionsAreAsFrozen == Spec => []SessionIsAsFrozen
<1>1. Init => SessionInv
  BY DEF Init, SessionInv
<1>2. TypeOK /\ SessionInv => SessionIsAsFrozen
  <2> SUFFICES ASSUME TypeOK, SessionInv, mode \in {"normal", "refused"}, written >= 2
               PROVE  \E text \in core :
                        /\ ReadsAsWritten(frozen.fields, text)
                        /\ style = {frozen.number}
                        /\ written = 3 => configFrozen
                        /\ (\A c \in REQUIRED_FIELDS : Undisturbed(frozen.fields, c)) =>
                             (mode = "normal" <=>
                                \A c \in REQUIRED_FIELDS : Visible(frozen.fields[c]) # <<>>)
    BY DEF SessionIsAsFrozen
  <2> DEFINE fields == frozen.fields
             text == Render(fields)
  <2>1. fields \in [Fields -> Seq(PersonaLine)]
    BY DEF TypeOK, Persona
  <2>2. core = {text} /\ style = {frozen.number} /\ (written = 3 => configFrozen)
    BY DEF SessionInv
  <2>3. mode = "normal" <=> IsPersona(text)
    BY <2>2 DEF SessionInv
  <2> HIDE DEF fields, text
  <2>4. ReadsAsWritten(fields, text)
    BY <2>1, RenderReads DEF text
  <2>5. (\A c \in REQUIRED_FIELDS : Undisturbed(fields, c)) =>
          (IsPersona(text) <=> \A c \in REQUIRED_FIELDS : Visible(fields[c]) # <<>>)
    BY <2>1, RenderAccepted DEF text
  <2> QED
    BY <2>2, <2>3, <2>4, <2>5 DEF fields
<1> QED
  BY <1>1, <1>2, SessionStep, WizardTypes, PTL DEF Spec

-----------------------------------------------------------------------------
(* The screen of the generation is left.                                   *)

\* A thread of a generation, or its callback, is still to come.
GenerationDue ==
  \/ \E j \in jobs : j.kind \in Generating
  \/ \E i \in DOMAIN posted : posted[i].kind \in {"done", "failed"}

\* The screen of the generation, which has no button, is shown by a wizard that runs
\* callbacks, and either its box is open, which is dismissed, or a thread or a
\* callback will leave it: the converse of GenerationIsAwaited
\* (wizard_gui.py:286-312, 437-488).
GeneratingIsServed ==
  step = "GENERATING" => mode = "wizard" /\ (dialog = "error" \/ (dialog = "none" /\ GenerationDue))

\* The calls that a thread of a generation has before it, the present one included.
CallsLeft ==
  [kind \in Generating |->
     CASE kind = "expand_associations" -> 3 [] kind = "generate_candidates" -> 2
       [] kind \in {"generate_style_samples", "reshape_free_description"} -> 1]

\* With each step a thread of a generation has fewer calls before it, or has posted
\* its callback, whatever the LLM answers.
GenerationAdvances ==
  [][\A j \in jobs :
       j.kind \in Generating /\ JobStep(j) =>
         \/ \E n \in jobs' : n.kind \in Generating /\ CallsLeft[n.kind] < CallsLeft[j.kind]
         \/ \E i \in DOMAIN posted' : posted'[i].kind \in {"done", "failed"}]_vars

\* With it: where a process without a wizard is.
ServedInv == GeneratingIsServed /\ (mode # "wizard" => step = "METHOD_SELECT")

\* A callback that is posted is one more.
LEMMA AppendMore ==
  ASSUME NEW S, NEW s \in Seq(S), NEW c
  PROVE  Append(s, c) # s
<1>1. s \in Seq(S \cup {c})
  OBVIOUS
<1>2. Len(Append(s, c)) = Len(s) + 1 /\ Len(s) \in Nat
  BY <1>1
<1> QED
  BY <1>2

\* A step of a thread keeps a generation that is due, and callbacks of other kinds do.
LEMMA DueKept ==
  ASSUME TypeOK, GenerationDue,
         \/ \E j \in jobs : JobStep(j)
         \/ PreviewResponse \/ PreviewError \/ UnlockSend
  PROVE  GenerationDue'
<1>0. jobs \subseteq Job /\ posted \in Seq(Callback)
  BY DEF TypeOK
<1>1. ASSUME NEW c \in Callback, posted' = Append(posted, c)
      PROVE  /\ DOMAIN posted' = DOMAIN posted \cup {Len(posted) + 1}
             /\ posted'[Len(posted) + 1] = c /\ \A i \in DOMAIN posted : posted'[i] = posted[i]
  BY <1>0, <1>1, AtTheEnd
<1>2. ASSUME NEW j \in jobs, JobStep(j) PROVE GenerationDue'
  <2>0. j \in Job
    BY <1>0
  <2>1. CASE \E n \in Job : JobMoves(j, n)
    BY <2>1 DEF GenerationDue, JobMoves
  <2>2. CASE \E c \in Callback : JobResults(j, c)
    BY <1>1, <2>2 DEF GenerationDue, JobResults
  <2>3. CASE \E n \in Job, c \in Callback : JobAnswers(j, n, c)
    BY <1>1, <2>3 DEF GenerationDue, JobAnswers, Generating
  <2>4. CASE \E c \in Callback : JobUnlocks(j, c)
    BY <1>1, <2>4 DEF GenerationDue, JobUnlocks, Generating
  <2> QED
    BY <1>2, <2>0, <2>1, <2>2, <2>3, <2>4, JobEffect
<1>3. CASE PreviewResponse \/ PreviewError \/ UnlockSend
  <2>1. /\ posted # <<>> /\ posted' = Tail(posted) /\ jobs' = jobs
        /\ Head(posted).kind \in {"response", "error", "unlock"}
    BY <1>3 DEF PreviewResponse, PreviewError, UnlockSend, Runs
  <2>2. /\ Head(posted) = posted[1]
        /\ \A i \in DOMAIN posted : i # 1 => i - 1 \in DOMAIN posted' /\ posted'[i - 1] = posted[i]
    BY <1>0, <2>1, Shifted
  <2> QED
    BY <2>1, <2>2 DEF GenerationDue
<1> QED
  BY <1>2, <1>3

\* Every step serves the screen of the generation.
LEMMA ServedStep ==
  ASSUME TypeOK, ServedInv, [Next]_vars
  PROVE  ServedInv'
<1>1. CASE Generate
  <2> DEFINE n == [kind |-> IF step = "INPUT_A" THEN "expand_associations" ELSE "reshape_free_description",
                   persona |-> [NoPersona EXCEPT !.number = made'], question |-> 0]
  <2>1. n.kind \in Generating /\ n \in jobs'
    BY <1>1 DEF Generate, Generating
  <2>2. mode' = "wizard" /\ dialog' = "none"
    BY <1>1 DEF Generate, Clickable
  <2> HIDE DEF n
  <2> QED
    BY <2>1, <2>2 DEF ServedInv, GeneratingIsServed, GenerationDue
<1>2. CASE SelectMethod \/ Back \/ SubmitBlank \/ Confirm \/ Dismiss
  <2>1. step' # "GENERATING" /\ mode = "wizard" /\ mode' = mode
    BY <1>2 DEF SelectMethod, Back, SubmitBlank, Confirm, Dismiss, Clickable, ShowMethodSelect, FreshScreen,
       ShowPreview, Inputs
  <2> QED
    BY <2>1 DEF ServedInv, GeneratingIsServed
<1>3. CASE Send
  <2>1. step' = "PREVIEW" /\ mode' = "wizard"
    BY <1>3 DEF Send, Clickable
  <2> QED
    BY <2>1 DEF ServedInv, GeneratingIsServed
<1>4. CASE Freeze
  <2>1. step # "GENERATING" /\ mode = "wizard" /\ mode' = mode /\ (step' = step \/ step' = "DONE")
    BY <1>4 DEF Freeze, ServedInv, GeneratingIsServed
  <2> QED
    BY <2>1 DEF ServedInv, GeneratingIsServed
<1>5. CASE StartProcess \/ BackupCore \/ RemoveCore
  <2>1. mode # "wizard" /\ step' = step
    BY <1>5 DEF StartProcess, BackupCore, RemoveCore, screen
  <2> QED
    BY <2>1 DEF ServedInv, GeneratingIsServed
<1>6. CASE CloseWindow \/ Crash \/ CrashInFreeze \/ Finish
  <2>1. step' = "METHOD_SELECT"
    BY <1>6 DEF CloseWindow, Crash, CrashInFreeze, Finish, Gone, FreshScreen
  <2> QED
    BY <2>1 DEF ServedInv, GeneratingIsServed
<1>7. CASE (\E j \in jobs : JobStep(j)) \/ PreviewResponse \/ PreviewError \/ UnlockSend
  <2>1. step' = step /\ dialog' = dialog /\ mode' = mode
    <3>1. jobs \subseteq Job
      BY DEF TypeOK
    <3>2. (\E j \in jobs : JobStep(j)) => step' = step /\ dialog' = dialog /\ mode' = mode
      BY <3>1, JobEffect
    <3> QED
      BY <1>7, <3>2 DEF PreviewResponse, PreviewError, UnlockSend, Runs, screen
  <2> QED
    BY <1>7, <2>1, DueKept DEF ServedInv, GeneratingIsServed
<1>8. CASE GenerationDone \/ GenerationError
  <2>1. /\ mode = "wizard" /\ mode' = mode
        /\ step' = "PREVIEW" \/ (step' = step /\ dialog' = "error")
    BY <1>8 DEF GenerationDone, GenerationError, Runs, ShowPreview
  <2> QED
    BY <2>1 DEF ServedInv, GeneratingIsServed
<1>9. CASE UNCHANGED vars
  BY <1>9 DEF ServedInv, GeneratingIsServed, GenerationDue, vars, screen, threads
<1> QED
  BY <1>1, <1>2, <1>3, <1>4, <1>5, <1>6, <1>7, <1>8, <1>9, Zenon DEF Next, Callbacks

\* The safety part of GeneratingEnds, for any answers of the LLM: the screen of the
\* generation is never left without a thread or a callback that leaves it
\* (GeneratingIsServed), and the thread comes to its callback after three calls at
\* most (GenerationAdvances).
THEOREM GeneratingServed == Spec => []GeneratingIsServed /\ GenerationAdvances
<1>1. Init => ServedInv
  BY DEF Init, ServedInv, GeneratingIsServed
<1>2. ASSUME TypeOK, NEW j \in jobs, j.kind \in Generating, JobStep(j)
      PROVE  \/ \E n \in jobs' : n.kind \in Generating /\ CallsLeft[n.kind] < CallsLeft[j.kind]
             \/ \E i \in DOMAIN posted' : posted'[i].kind \in {"done", "failed"}
  <2>0. j \in Job /\ posted \in Seq(Callback)
    BY <1>2 DEF TypeOK
  <2>1. CASE \E c \in Callback : JobResults(j, c)
    BY <2>0, <2>1, AtTheEnd DEF JobResults
  <2>2. CASE \E n \in Job : JobMoves(j, n)
    <3>1. posted' = posted
      BY <2>2 DEF JobMoves
    <3>2. PICK n : GoesOn(j, n) /\
                   \/ j.kind = "expand_associations" /\ n = [j EXCEPT !.kind = "generate_candidates"]
                   \/ /\ j.kind = "generate_candidates"
                      /\ \E fields \in Answers :
                           n = [j EXCEPT !.kind = "generate_style_samples",
                                         !.persona = [j.persona EXCEPT !.fields = fields]]
      <4>1. ASSUME NEW kind, NEW p, Ends(j, kind, p) PROVE FALSE
        <5>1. PICK c : posted' = Append(posted, c)
          BY <4>1 DEF Ends, Post
        <5> QED
          BY <2>0, <3>1, <5>1, AppendMore, Zenon
      <4> QED
        BY <1>2, <4>1, Zenon DEF JobStep, EndGeneration, ExpandAssociations, GenerateCandidates, GenerateStyleSamples,
           ReshapeFreeDescription, CallFails, EndAnswer, PostUnlock, Generating
    <3>3. /\ n \in jobs'
          /\ \/ j.kind = "expand_associations" /\ n.kind = "generate_candidates"
             \/ j.kind = "generate_candidates" /\ n.kind = "generate_style_samples"
      BY <2>0, <3>2 DEF GoesOn, Job
    <3>4. n.kind \in Generating /\ CallsLeft[n.kind] < CallsLeft[j.kind]
      BY <3>3 DEF CallsLeft, Generating
    <3> QED
      BY <3>3, <3>4
  <2> QED
    BY <1>2, <2>0, <2>1, <2>2, JobEffect DEF JobAnswers, JobUnlocks, Generating
<1>3. TypeOK /\ [Next]_vars =>
        [\A j \in jobs :
           j.kind \in Generating /\ JobStep(j) =>
             \/ \E n \in jobs' : n.kind \in Generating /\ CallsLeft[n.kind] < CallsLeft[j.kind]
             \/ \E i \in DOMAIN posted' : posted'[i].kind \in {"done", "failed"}]_vars
  BY <1>2, Zenon
<1> QED
  BY <1>1, <1>3, ServedStep, WizardTypes, PTL DEF Spec, ServedInv, GenerationAdvances
=============================================================================
