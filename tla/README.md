# Kage-Shiki: models, checks and proofs

Kage-Shiki (影式) is a desktop mascot: a Python process with a tkinter window,
a tray icon, an SQLite memory, a few Markdown files that describe its persona,
and an LLM behind an HTTP API. This directory models the parts of
`src/src/kage_shiki` in which order, failure and time matter, checks them with
TLC on small instances, and proves the central facts with TLAPS for all
instances. Paths below are relative to `src/src/kage_shiki` unless they start
with `docs/` (that is `src/docs`).

Every definition that models code names its lines in `PROJECT.json` (`map`).
An operator whose comment begins with *Slip* is not part of a model: it is a
plausible bug of the definition that follows it, put in its place to see that
the property named in `PROJECT.json` (`mutants`) notices.

## 1. The system

| Component | State it keeps | Operations | Talks to |
|---|---|---|---|
| Desire worker, `agent/desire_worker.py` | four desires (level, active), running, generation, current Timer, times of input and rest | start, stop, update_desires (on Timer threads), reset_all, reset, notify_user_input | callback on_threshold_exceeded; callers on other threads, through `_lock` |
| Autonomous turn, `agent/agent_core.py:412-700` | none of its own; the table curiosity_targets | handle_autonomous_turn, curiosity pipeline, reflect | desire flags, LLM, search engine, database |
| Search engine, `agent/agentic_search.py` | none | decompose_query, search_parallel, summarize, extract_noise_topics | LLM, web search in worker threads, an event loop per call |
| Database, `memory/db.py` | tables observations, day_summary, curiosity_targets; the buffer `_pending_observations` | one function per query, retried on locks | everybody, over one shared connection |
| Memory worker, `memory/memory_worker.py` | none | daily summary at shutdown, missing summaries at startup | database, LLM |
| Turn of the conversation, `agent/agent_core.py:301-395,705-755` | session turns, message count | process_turn, greeting, updates of the two self-written files | prompt builder, LLM, database, persona files, trends manager |
| Prompt builder, `agent/prompt_builder.py`, `agent/truncation.py` | the hot and warm memory loaded at startup | build_with_truncation | turn, autonomous turn |
| Trends manager, `agent/trends_proposal.py` | the pending proposal, counters, history | parse, judge, take the approved one, triggers | turn, personality_trends.md |
| Threads and shutdown, `main.py`, `core/shutdown_handler.py`, `tray/system_tray.py`, `gui/tkinter_view.py` | two queues, shutdown event, two guards of the shutdown | background loop, poll, tray menu, console handler, atexit hook | all of the above |
| Wizard, `gui/wizard_gui.py`, `persona/wizard.py`, `main.py:230-256,435-450` | screen, busy flag, previewed persona and its turns; the persona files | screens, generation and preview threads, freeze, restart | LLM, persona files |
| Persona files, `persona/persona_system.py` | persona_core.md, style_samples.md, human_block.md, personality_trends.md | load, freeze, append, detect a manual edit | startup, turn, wizard |
| Human block updater, `agent/human_block_updater.py` | none | parse, guard rails | turn |
| LLM client, `agent/llm_client.py` | none | send with retries | all callers |
| Configuration, `core/config.py` | config.toml; AppConfig, read once | load with coercion, generate, resolve a purpose | startup, LLM client, search engine |
| Environment, logging, error texts, `core/` | read once | | startup |

How they meet: the main thread runs tkinter and polls `response_queue`; one
background thread takes inputs from `input_queue` and runs `process_turn`; the
tray thread and the thread of a Windows console event may shut the program
down. The desire worker has Timer threads of its own; its flags are what the
autonomous turn reads before and after slow calls. `handle_autonomous_turn` has
no caller in `main.py` yet, so its model lets any desire be handled at any time.

What is hard here: steps of several threads between two lock sections; values
read before a lock or an LLM call and used after it; three ways to end the
process; locks and crashes between single-row transactions; days that change in
the middle of a session; posted GUI callbacks that outlive their screen; files
rewritten in place, whose contents come from an LLM or a user and are read back
by patterns. The hazards of `PROJECT.json` list these by line.

What makes each part correct, in a sentence: the worker keeps one chain of
timers and mutes no desire; a curiosity row is searched by one call at a time
and never gets stuck; inputs are answered in order and the process ends after
one shutdown sequence; no observation is stored twice, disappears while the
process lives, or is left without a summary; a prompt is cut in order of
priority; a proposal is settled once, in time, and then filed; what is appended to
a file stays under its heading, in order, and reaches the next session; the
wizard never shows the result of another generation, never loses the persona that
ran, and a start reads what it has frozen; a sound configuration file gives every
setting the user's value or the default, within its bounds; a request is repeated
a bounded number of times; the search pipeline ends, with results that belong to
their queries.

## 2. Modules

**DesireFlags** is the abstract specification of the desire worker: flags that
are raised, announced once per raise, and lowered.
**DesireWorker** is the worker in detail. A Timer thread goes through
`free -> armed -> read -> notify -> resched`, one value per lock section or
stretch between two; `FireAndRead` is the reading before the first lock
(`desire_worker.py:333-353`), `Evaluate` the first lock section, `Notify` one
callback, `Reschedule` the second lock section. `Start`, `Stop`, `ResetAll`,
`Reset` and `NotifyUserInput` are the calls of other threads. The four
`...Exceeds` operators compare levels with thresholds by cross-multiplication.

**CuriosityTargets** has the queries of the table as operators;
**AutonomousTurn** extends it with `handle_autonomous_turn`, one action per
transaction, LLM call or check, and is composed with `DesireFlags` (not with the
timers: `DesireWorker` implements the flags). `Locked(l)` sends the thread to
`l`, where the code's `except` and `finally` clauses send the exception.

**AppThreads** is the running application until the process is gone: the
background loop, the main thread (`wait -> drain -> join -> atexit -> exited`)
and, in `pc`, how far each of the three possible callers of the shutdown
closure has come, with the test and the set of each guard as separate steps.

**ConversationMemory** follows observations from a turn through the lock buffer
into the table and the summaries, over days, sessions and crashes. The talking
thread and the closing thread take separate steps.

**TrendsProposal** is the life of a proposal, one action per turn: parse the
response, judge the input, count, take. An input is the set of pattern lists it
matches. **SectionFile** has the Markdown files that are appended to section by
section: a text is a sequence of lines, each with its kind and the entry it belongs
to, without the blank ones; `Appended` is `_append_to_section`, `TrendsEmpty` is
`is_trends_empty`. **HumanBlockUpdate** is `parse_human_block_updates` and the guard
rails over every block of up to `MaxLines` lines; of its content a line keeps the
words the guard rails look for. **SelfEditing** composes the three: the startup that
loads or creates human_block.md and personality_trends.md, the turns that append to
them, writes that are cut short, and the next session. Its turns are turns of
TrendsProposal, which it implements (section 5).

**PersonaFile** is persona_core.md: `Render` as the wizard writes it,
`ParseSections` and `IsFrozen` as a start reads it, `CutTexts` what a write that was
cut short may leave. **Wizard** extends it with the screens, the threads of LLM
calls, the FIFO of callbacks posted with `root.after(0)`, the message boxes, and the
files; the process may end, crash and start again at any time.

**PromptBuilder** builds one prompt per call, and remembers what it was to hold
and what it does hold. `Repeat` is a `while` loop that cuts one step more until
the prompt fits; the `Cut...` operators are the phases.

**Configuration** has all eleven sections of config.toml with their defaults and
rules, `CoerceField` and `CoerceEnum`, the file that a first start generates and
what a cut may leave of it, and the tables that resolve a purpose. A value has its
TOML type, a number in hundredths, and a text. **LlmClient** is one request with its
retries. **SearchParallel** has the worker threads, the tasks of the event loop, the
timeout, and the join at the end of `asyncio.run`. **HaikuEngine** composes the
three: a start reads a file, the client and the engine take their settings from it,
and the pipeline decomposes, searches, summarises and extracts. Its search implements
SearchParallel (section 5).

`MC...` modules hold what only TLC needs, `...Proofs` modules the theorems of
section 5; SelfEditingProofs is also about TrendsProposal, SearchParallelProofs also
about HaikuEngine.

## 3. Runs

Bounds are CONSTANTS (`Max...`) or small sets in the cfg.

| Run | Question | Bounds, and why they suffice |
|---|---|---|
| DesireWorker | one chain of timers, every raised flag announced, the flags refined, updates go on and end | two Timers: the first may be stopped while the second starts, which is every overlap that matters for pairs of updates; generations to 3 (stop and start at each point); clock to 3 (before, in and after the suppression of rest); curiosity saturates at 5 pending rows |
| DesireWorkerDoubleArm (violation) | a stop and start before the first lock section leaves two chains | same |
| AutonomousTurn | the table stays consistent under aborts, failures, locks and a crash between any two steps | 4 spellings of 3 topics, at most 3 rows, cap 1 (so that searching and pending rows compete for it), 1 fault, any number of calls |
| AppThreads | order of the answers, one shutdown, no thread waits for ever | 2 inputs, all threads, console events that Windows may cut short |
| AppThreadsConsoleClose (violation) | without an icon the main thread ends the process under the console handler | 2 inputs, no kill by Windows |
| ConversationMemory | nothing stored twice or lost by a living process, no orphan answer, no gap after a startup | 3 days, 3 turns, 2 faults: two earlier days may lack a summary while the third goes on |
| ConversationMemoryRestart (violation) | observations stored after their day's summary was begun are never summarised | 2 days, 2 turns, no fault |
| TrendsProposal (of SelfEditing) | a proposal settled once, in time and filed; entries stay in their sections and in order and reach the next session | any number of sessions of 2 turns, 2 entries (the second goes before, behind or into the same section as the first), 1 fault, blocks of up to 2 lines. The timeout is 0 turns, so that with 2 turns a proposal can be judged in time and, after a turn that failed, too late; section 5 has every timeout. A cut leaves nothing, one half, or half a character. Ends with the bound |
| PromptBuilder | priority of the cuts, whole exchanges | texts of two sizes, limit 8 below the largest prompt, 3 calls (two recorded exchanges before the third), 2 days, 1 memory. Ends with the bound |
| PromptBuilderLatestDays (violation) | the latest days are cut first | one call |
| SearchParallel (of HaikuEngine) | a sound file gives sound settings and requests, retries are bounded, results fit, the pipeline ends | any two fields of a section edited together with any of 11 values (every type; below, at, between and above the bounds of the fields; nan, infinity); every cut of a generated file; 2 texts, 4 proposed lines (so that one is cut by the default of 3 subqueries), 2 workers (so that one query waits). One start that goes on and one pipeline: once client and engine are built, the file is forgotten. Ends with the pipeline |
| Wizard | late results, order of the preview, files across failures and restarts | 2 personas, 2 questions, 2 faults: a restart that makes a second persona, and a failure in each of two steps; 4 answers of the LLM (plain with a sub-heading, a core that shows nothing, lines that begin sections, no core). About a million states |

## 4. Fairness

Weak fairness, and only for what the operating system or a timeout drives:
started Timer threads (DesireWorker), a begun call (AutonomousTurn: LLM calls
and searches have timeouts, locks are retried a bounded number of times), the
threads, the poll and the ended tray loop (AppThreads), the stages of the pipeline
(a request ends by the timeout of the SDK, a pause by itself), the event loop and
its two timeouts but not the searches, which may hang (HaikuEngine), LLM threads
and the callbacks of the main loop (Wizard). Users, Windows, clocks, faults and
callers of start and stop are never fair. ConversationMemory, SelfEditing and
PromptBuilder state safety only.

Conditions inside properties: `ArmedIsOwned` holds unless a start has overtaken
an update (that is the finding of DesireWorkerDoubleArm); `LoopContinues` unless
a counter raised since the last start; `ShutdownOnce` and `ExitAfterShutdown`
while no console event has come; `AnswerFollowsQuestion` unless the preview was
left with the thread of an answer, or one of its callbacks, still to come;
`SessionIsAsFrozen` unless the last freeze failed in one of its two files;
`Filed`, `InOrder` and `NextSessionKnows` exempt files of which a write was cut,
and the last one files that could not be read; entries that bring headings of their
own keep their file but not their section; the last part of `ApprovedIsFiled`, that
every approval is filed, holds without faults;
`ConfigFits` unless the file was cut or is no TOML, and nan passes. Each exclusion
is a behaviour described in section 6.

## 5. Proofs

The modules `...Proofs` extend the module they are about and assume nothing but
its named ASSUMEs, so the theorems hold for every number of threads, texts and
turns and for every configuration those allow. TLC evaluates the ASSUMEs in the
runs. An assumption of a single theorem stands in its statement. The type
invariant of every component is proved (`TypeCorrect`, `TypesCorrect`, `ThreadTypes`,
`MemoryTypes`, `EditTypes`, `WizardTypes`, `EngineTypes`, and inside `PromptInv`,
`SearchInv` and `ProposalsInv`) and no run spends a property on it.

**DesireWorkerProofs.**

* `OneChain`: `[]ArmedIsOwned`. By itself the property says nothing of threads
  past the expiry of their Timer, and `Reschedule` would break it. `ChainInv`
  adds that at most one thread *continues* the chain (it waits, has fired but not
  taken the lock, or has the current generation), that a stopped worker holds no
  Timer, and that no thread has a generation of the future; `Stop` and `Start`
  increase the generation, which takes all other threads out of the chain.
  Its corollary `NoDoubleScheduling` says that unless a start has overtaken an
  update no two Timers wait; the run DesireWorkerDoubleArm shows the need of the
  condition.
* `RestMonotone`: the action property `RestNotifiedMonotone` under
  `RestSuppress >= 0`: a later time is written only when the suppression time has
  passed since the earlier one, and that survives snapshots applied out of order.
  Without the assumption overlapping updates could go back.
* `ImplementsDesireFlags`: `DesireWorker` implements `DesireFlags`. The mapping
  takes the flags as they are and as "owed" what the threads still have to
  announce; `OwesOnlyInNotify` supplies that only threads in their callbacks owe
  anything. Each action is then a raise, an announcement, a reset or a stutter.
* `NoDesireMuted`: `[]RaisedIsAnnounced`, from the same facts.
* `ChainNeverBreaks` and `StoppedWindsDown` are the safety parts of the two liveness
  properties: while no counter raises, a running worker always has a thread that
  continues the chain, and once it is stopped each step of a thread shortens a way of
  at most seven steps (`Remaining`), which nobody else lengthens.

**AutonomousTurnProofs.** `OneSearch`, `SearchOwned`, `TopicsUnique` and the action
properties `FinalStays` and `CapKept` from one invariant. The table alone does not
show them: `CallInv` says that from the choice of a row to the end of its search the
call holds that row and knows its status, that no row is searching when a call
chooses one (recovery has come first, or nothing has ever failed), and that at most
one is searching in all. `TopicsUnique` rests on the assumption that the folding of
Python identifies at least the topics that the one of SQLite does: a list of derived
topics is deduplicated by the former, the table by the latter. `CallsEnd`: the steps
of a call are bounded by `17 + MaxNoise`, and each shortens what remains, so that no
failure, lock or recovery sends a call back to a stage it has left.

**AppThreadsProofs.** `OneShutdown` and `ShutdownBeforeExit`: while no console event
has come, the main thread reaches the atexit hook only after the tray thread has
ended, so the test and the set of `_shutdown_done` are not interrupted by another
caller; `ShutdownInv` keeps how far each caller is against the guards and the
database. `InOrder`: `[]AnswersInOrder`; `OrderInv` puts the texts produced before
the input being served, that before the ones that wait, and nothing behind the text
of the authentication error. `NoInputLost` is the other half of the answers: every
input waits, is served, or has its text (`KeptInv`: only a turn serves one).
`MenuHeard` and `ShutdownWindsDown` are why the menu ends the process: after the entry
the event is set or about to be, the main thread waits for nobody who has nothing to
do (`HeardInv`), and after the event every step of anyone, the user and Windows
included, lowers `Pending`, the sum of what each thread and queue still has to do.

**ConversationMemoryProofs.** `StoredOnce`, `NothingDisappears` (the action property
`RecordedStays`) and `AnswersHaveQuestions` from `RecordInv`: table and buffer
together hold every observation once, and what the turn under way has recorded so
far. `SafeSaved` is the lemma on `save_observation_safe`, for a flush broken off
after any number of entries. `GapsFilled` and `FilledStayComplete` from `SummaryInv`:
what the startup found missing and has not yet filled is exactly what still lacks a
summary, and a day before the start gets no observations any more.

**SelfEditingProofs.** `SettlesOnce` and `ApprovalInTime` are about the specification
of TrendsProposal: `ProposalInv` adds that identities of settled and pending
proposals are bounded by the number of proposals made, so that a new one differs
from all of them. `EditsAreProposals` shows that SelfEditing implements it (its turns
are turns, its starts and writes stutter), hence `EditsSettleOnce`. About the files,
`FilesOK` says of every file not cut that each entry without headings is *placed*
(present, and all its lines under its heading) and, as long as no entry brought
headings along, that headings are unique and the entries of a section ordered.
`AppendedInserts`, `StaysUnder` and `EntryUnder` are the lemmas on inserting a
stretch before a heading; `AppendSound` puts them together; `LoadKnows` shows that a
startup has all entries of the file in its prompt, since an entry of the trends makes
them not empty. Theorems: `EntriesAreFiled`, `EntriesInOrder`, `NextSessionHasAll`.
`ApprovalsAreFiled`: `[]ApprovedIsFiled`. The property is inductive together with
`ProposalInv`, by which the identity of a proposal that is approved now is in no
history yet, with `SessionOK`, which keeps where the entries of this session begin,
and with `TrendsWhole`: without faults the trends are loaded and complete, so that
the section is there and the code appends (`AppendedExists`) instead of giving up.

**SearchParallelProofs.** `ResultsBelong`: `[]ResultsFit` of SearchParallel. `LoopInv`
adds that only ended searches have a task that is done, and that the timeout belongs
to the end of the loop: a search that ends after the timeout changes no result.
`EngineSearches` shows that HaikuEngine implements SearchParallel, hence
`EngineResultsBelong`. `ConfigurationFits` and `RequestsResolve`, for any set of values
the user writes and any number of fields: `CoercedFits` is the lemma on the coercion
of one field, `DefaultsSound` goes through all defaults, and `LoadInv` says that a file
not spoilt holds the user's wishes and that what was loaded is the coerced file.
`RetriesAreBounded`: `[]RetriesBounded` for any number of retries and any base.
`RetryInv` relates attempts, outcomes and the time slept; the sum of the pauses needs
that the recursive function `PowerOfTwo` exists and doubles (`PowersOfTwo`), for which
`SetInduction` and `Recursion` prove the induction theorems in a form without operator
parameters. `PipelineWindsDown` is the safety part of `PipelineEnds`: `PipelineLeft`
adds up what the later stages, the request (two steps for each retry left) and the
searches (`Due`, a finite set of at most three steps for each query) still need; every
step of a running pipeline lowers it, it starts at `16 + 6 * max_retries + 3 * MaxItems`
at most, and `PipelineGoesOn` names the step that each stage has even if all searches
hang.

**WizardProofs.** `GenerationsAwaited` (`AwaitInv`: a thread of a generation and its
result exclude each other), `AnswersFollow` and `RanIsKept`. `AnswerInv` says that
there is one answering thread, then one result, then one unlock behind it, and that
while any of these is due the preview is shown and locked and its last turn is the
question. `RanInv` has what each mode of the process guarantees of the two files.
`RenderReads` and `RenderAccepted` are about the functions of PersonaFile, for fields of
any length: what `Render` writes, `ParseSections`, `IsFrozen` and `IsPersona` read again.
`Layout` says at which place of the text each heading and field stands, so that a field
is the stretch up to the next heading. `SessionsAreAsFrozen` carries that through
freezes, faults, crashes and starts (`SessionInv`). `GeneratingServed` is the safety
part of `GeneratingEnds`: on the screen of the generation there is always its thread,
its callback or its error box, and `CallsLeft` says that the thread makes three calls
at most.

**PromptBuilderProofs.** `TruncationInOrder`: `[]CutInOrder` for any limit and
sizes, also such that nothing fits. `LoopEnds` is the lemma on the loop: it stops
at its first cut that fits or at its last (by the least element of a set of
numbers, `LeastElement`), and does nothing when the prompt fits. One lemma per
phase applies it; `Truncation` composes them: a phase that cuts follows a phase
that left nothing to cut. How sizes are estimated plays no part: `Fits` is never
expanded. `PromptInv` carries the result through the calls (`SentIsBuilt`).
`ExchangesStayWhole`: `[]WholeExchanges`. `PairsInv` says that the recorded
conversation is a sequence of question and answer pairs; its length is then even,
so recording a pair and cutting pairs off the front both keep it
(`PairedRecorded`, `PairedCut`).

Only model-checked: that what is always about to happen does happen, under the
fairness of section 4 (`LoopContinues`, `QuiescesAfterStop`, `SearchEnds`,
`EveryInputAnswered`, `MenuEndsProcess`, `PipelineEnds`, `GeneratingEnds`); fairness is
about ENABLED, which the prover does not reach. For each of them the safety part is a
theorem: somebody always has the step, and, where it is a matter of counting, a
variant goes down. Of `EveryInputAnswered` that is `NoInputLost`: that the input gets
its turn is left to TLC. The four violations are runs by their nature. All invariants
and action properties of the passing runs are theorems, and so is the refinement of
DesireFlags.

## 6. What the models show about the code

Findings with a run: two chains of timers after a stop and a start
(DesireWorkerDoubleArm); the summary cut short when the console closes
(AppThreadsConsoleClose); observations that no summary covers
(ConversationMemoryRestart); the newest summaries cut first
(PromptBuilderLatestDays).

Behaviours met while modelling that have no run of their own:

* The idle time is read before the lock, so talk may be raised for a user who has
  just typed (`desire_worker.py:349-351`). The source accepts the stale read.
* An exception of a counter ends the chain of timers for good while `is_running`
  stays true (`desire_worker.py:352-353`), against its docstring (339-340).
* The check after the LLM call compares the flag with that moment: lowered and
  raised again in between, the old answer passes (`agent_core.py:469`); after the
  completion text of a search there is no check at all (654).
* `LOWER` of SQLite folds ASCII only, so topics that differ in the case of another
  letter are stored twice (`memory/db.py:652-662`).
* The two guards of the shutdown are tested and set in two steps, so a console
  event and the menu may both run the sequence (`main.py:192-200`).
* EM-007 is queued just before the event that ends the poll, and is never shown
  (`main.py:113-150`). After it, a process with a tray icon stays until the user
  picks the menu entry.
* Buffered observations are lost at the end of the process: the shutdown does not
  flush them (`main.py:207`).
* A proposal may be approved by the input that came before it: the response is
  parsed first (`agent_core.py:729`). Any number of proposals is accepted in a
  session (`trends_proposal.py:277`; the maximum is tested at the start only, 157), and `prompt_addition` is set but read by
  nobody (`main.py:396`).
* Neither prompt tells the LLM the format of an update block or of a proposal, so
  that both depend on what it writes by itself (`human_block_updater.py`,
  `trends_proposal.py`). The sections for the history of updates and proposals are
  never written: `format_history_entry` has no caller.
* A content or a proposal of several lines may hold a heading line; it then splits
  the section, and the lines behind it count to another one
  (`persona_system.py:681`). "今日" alone counts as two temporal keywords, since it
  is matched by substring, and a second "セクション:" line in a block decides for the
  whole of it.
* human_block.md and personality_trends.md are rewritten in place. A file that was
  cut short is never regenerated, its entries are lost, and a cut within a character
  raises UnicodeDecodeError, which is no OSError: every later start fails
  (`persona_system.py:477`). An approved entry whose write fails is lost, because the
  proposal is already taken (`agent_core.py:737`).
* nan passes every range check of the configuration and reaches the requests; a
  `retry_backoff_base` of inf or nan makes `time.sleep` raise in the middle of the
  retries. A syntax error, or a section that is no table, ends the start with an
  exception, though FR-1.3 speaks of defaults. A generation of the file that was cut
  short may refuse every later start, or silently shorten a number.
* `engine`, `search_api`, `max_concurrent_searches` and `persona_frozen` are parsed and
  read by nobody, `main.py` does not build the search engine yet, and the anthropic
  package retries on its own below the retries of the client.
* The wizard accepts a required field of white space only, which the next start
  strips and refuses (`persona/wizard.py:237`). A field line `## Cn:` overrides
  another field, any other `## ` line cuts its own short, and the second line of a
  name goes below the title, where it may hide the metadata
  (`persona_system.py:593`).
* A persona_core.md cut behind C1 and C4 is accepted as a persona; one cut before
  makes every later start refuse (`persona/wizard.py:512`, `main.py:312-322`). A
  freeze that fails after its first file leaves a persona that runs with no style
  samples, or with those of the former one.
* One bad candidate spoils a whole generation; only the first candidate is shown.
* In the wizard, an answer that arrives after "やり直す" is appended to the preview
  of the next persona, and its unlock clears the busy flag of that preview
  (`wizard_gui.py:592-624`).
* `detect_manual_edit` compares a hash with the one the same startup has just
  taken, so it is always false (`main.py:334`).
* `asyncio.run` joins the worker threads, so the 30 seconds of `search_parallel`
  bound what is kept, not how long the caller waits (`agentic_search.py:387`).
* create_blank_persona is documented not to freeze; the wizard freezes it all the
  same (`persona/wizard.py:537`, `wizard_gui.py:660`).

Assumptions about what is not in `src/`: the thread of `pystray`'s
`run_detached` is not a daemon, so the interpreter waits for it; Windows ends the
process after a console handler returns; Tk runs posted callbacks in order, also
while a message box is open; SQLite in WAL mode does not raise BUSY between a
successful INSERT and its COMMIT; the preview thread reads persona and turns at
once when it starts; nobody edits the files by hand while the program runs, and
human_block.md and personality_trends.md not between sessions either.

### Not modelled

* The triggers of proposals (`evaluate_triggers`): what they find goes to
  `prompt_addition`, which no prompt receives, so no behaviour depends on them.
* `detect_manual_edit` (always false, see above), `save_persona_core`,
  `save_style_samples`, `update_target_priority` and the proposal to freeze of method
  C: no caller, or no effect.
* Connection, PRAGMAs, schema and the full-text search: I/O with SQLite. Reading of
  .env, set-up of log files, wording of errors and prompts, layout and drawing of the
  window and the tray: no state that another part reads.
* Texts everywhere: what matters of them is kept as a kind of line, a keyword, a size
  or an identity.

## 7. Plan

Done: all components with state of their own, the compositions in which they meet
(flags and turn; proposals, blocks and files; configuration, client and search;
persona file and wizard), three refinements, and proofs of all safety properties and of the
safety parts of all liveness properties. What is left:

1. The triggers of proposals and the full-text query as functions against reference
   definitions, once a caller makes them matter.
2. The search engine under AutonomousTurn instead of its abstract stages, once
   `main.py` builds it.
