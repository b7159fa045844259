----------------------------- MODULE AppThreads -----------------------------
(***************************************************************************)
(* The threads of the running application (main.py, shutdown_handler.py,   *)
(* tray/system_tray.py) from the moment the main loop runs until the       *)
(* process is gone:                                                        *)
(*   bg    _run_background_loop, a daemon thread between two queues        *)
(*   main  the tkinter main loop with _poll, then the end of main(), the   *)
(*         interpreter's wait for non-daemon threads and the atexit hook   *)
(*   tray  the pystray thread, which runs the menu's callbacks             *)
(*   ctrl  the thread Windows creates for a console control event          *)
(* The last three may all call the closure _shutdown, which two Events     *)
(* (_done and _shutdown_done) guard by a test followed by a set.           *)
(*                                                                         *)
(* The event of poke clicks and typed text is the same: an input is put.   *)
(***************************************************************************)
EXTENDS Integers, Sequences, FiniteSets

CONSTANTS
  TrayIcon,       \* did setup_icon succeed?  Without an icon there is no thread
  ConsoleEvents,  \* may a close, logoff or shutdown event come?
  KillOnTimeout,  \* may Windows end the process before the handler returns?
  MaxInputs       \* bound on the inputs of the user

ASSUME FlagsAssumption == {TrayIcon, ConsoleEvents, KillOnTimeout} \subseteq BOOLEAN
ASSUME BoundAssumption == MaxInputs \in Nat

VARIABLES
  inputs,         \* input_queue
  responses,      \* response_queue
  entered,        \* how many inputs the user has entered
  displayed,      \* the texts given to display_text
  shutdownEvent,  \* shutdown_event
  quitRequested,  \* root.quit() was called by another thread
  done,           \* _done of _make_shutdown_callback
  handled,        \* _shutdown_done of shutdown_handler
  dbOpen,
  bg, serving,    \* where the background thread is; the input it serves
  main,           \* where the main thread is
  pc,             \* where each caller of _shutdown is
  wizard,         \* does the tray thread run action_wizard?
  runs            \* history: the callers that ran the shutdown sequence

queues == <<inputs, responses, entered, displayed>>
guards == <<done, handled>>
bgVars == <<bg, serving>>
vars == <<queues, shutdownEvent, quitRequested, guards, dbOpen, bgVars, main,
          pc, wizard, runs>>

Callers == {"tray", "ctrl", "main"}
InputIds == 1..MaxInputs
Texts == [kind : {"greeting", "reply", "EM-006", "EM-007"}, to : 0..MaxInputs]

TypeOK ==
  /\ inputs \in Seq(InputIds) /\ entered \in 0..MaxInputs
  /\ responses \in Seq(Texts) /\ displayed \in Seq(Texts)
  /\ {shutdownEvent, quitRequested, done, handled, dbOpen, wizard} \subseteq BOOLEAN
  /\ bg \in {"greet", "loop", "get", "turn", "auth", "stopped"}
  /\ serving \in 0..MaxInputs
  /\ main \in {"wait", "drain", "join", "atexit", "exited"}
  /\ pc \in [Callers -> {"out", "handler", "mark", "check", "set", "event",
                         "summary", "close", "returned", "ended"}]
  /\ runs \subseteq Callers

Init ==
  /\ inputs = <<>> /\ responses = <<>> /\ entered = 0 /\ displayed = <<>>
  /\ shutdownEvent = FALSE /\ quitRequested = FALSE
  /\ done = FALSE /\ handled = FALSE
  /\ dbOpen = TRUE
  /\ bg = "greet" /\ serving = 0
  /\ main = "wait"
  /\ pc = [c \in Callers |-> "out"]
  /\ wizard = FALSE
  /\ runs = {}

Text(kind, i) == [kind |-> kind, to |-> i]
Alive == main # "exited"

-----------------------------------------------------------------------------
(* The background thread.                                                  *)

Put(text) == responses' = Append(responses, text)

Greet ==
  /\ Alive /\ bg = "greet"
  /\ Put(Text("greeting", 0)) \/ Put(Text("EM-006", 0))
  /\ bg' = "loop"
  /\ UNCHANGED <<inputs, entered, displayed, shutdownEvent, quitRequested, guards,
                 dbOpen, serving, main, pc, wizard, runs>>

CheckEvent ==
  /\ Alive /\ bg = "loop"
  /\ bg' = IF shutdownEvent THEN "stopped" ELSE "get"
  /\ UNCHANGED <<queues, shutdownEvent, quitRequested, guards, dbOpen, serving,
                 main, pc, wizard, runs>>

\* Slip: the newest input first.
GetInputNewest ==
  /\ Alive /\ bg = "get" /\ inputs # <<>>
  /\ serving' = inputs[Len(inputs)] /\ inputs' = SubSeq(inputs, 1, Len(inputs) - 1)
  /\ bg' = "turn"
  /\ UNCHANGED <<responses, entered, displayed, shutdownEvent, quitRequested, guards,
                 dbOpen, main, pc, wizard, runs>>

\* get(timeout=0.1): an input, or queue.Empty and round again.
GetInput ==
  /\ Alive /\ bg = "get"
  /\ \/ /\ inputs # <<>>
        /\ serving' = Head(inputs) /\ inputs' = Tail(inputs)
        /\ bg' = "turn"
     \/ /\ inputs = <<>>
        /\ bg' = "loop"
        /\ UNCHANGED <<inputs, serving>>
  /\ UNCHANGED <<responses, entered, displayed, shutdownEvent, quitRequested, guards,
                 dbOpen, main, pc, wizard, runs>>

\* Slip: an error is logged and not reported.
ProcessTurnSilent ==
  /\ Alive /\ bg = "turn"
  /\ Put(Text("reply", serving)) \/ UNCHANGED responses
  /\ bg' = "loop" /\ serving' = 0
  /\ UNCHANGED <<inputs, entered, displayed, shutdownEvent, quitRequested, guards,
                 dbOpen, main, pc, wizard, runs>>

\* process_turn returns an answer, or raises: an authentication error ends the
\* loop, anything else is reported and the loop goes on.
ProcessTurn ==
  /\ Alive /\ bg = "turn"
  /\ \/ Put(Text("reply", serving)) /\ bg' = "loop"
     \/ Put(Text("EM-006", serving)) /\ bg' = "loop"
     \/ Put(Text("EM-007", serving)) /\ bg' = "auth"
  /\ serving' = 0
  /\ UNCHANGED <<inputs, entered, displayed, shutdownEvent, quitRequested, guards,
                 dbOpen, main, pc, wizard, runs>>

StopAfterAuthError ==
  /\ Alive /\ bg = "auth"
  /\ shutdownEvent' = TRUE
  /\ bg' = "stopped"
  /\ UNCHANGED <<queues, quitRequested, guards, dbOpen, serving, main, pc, wizard, runs>>

BgStep == Greet \/ CheckEvent \/ GetInput \/ ProcessTurn \/ StopAfterAuthError

-----------------------------------------------------------------------------
(* The main thread.                                                        *)

\* Enter in the input field, or a click on the window: between two polls.
EnterInput ==
  /\ main = "wait" /\ entered < MaxInputs
  /\ entered' = entered + 1
  /\ inputs' = Append(inputs, entered')
  /\ UNCHANGED <<responses, displayed, shutdownEvent, quitRequested, guards, dbOpen,
                 bgVars, main, pc, wizard, runs>>

\* _poll looks at the event first; when it is set the queue is not read again.
Poll ==
  /\ main = "wait"
  /\ main' = IF shutdownEvent THEN "join" ELSE "drain"
  /\ UNCHANGED <<queues, shutdownEvent, quitRequested, guards, dbOpen, bgVars, pc,
                 wizard, runs>>

Display ==
  /\ main = "drain"
  /\ \/ /\ responses # <<>>
        /\ displayed' = Append(displayed, Head(responses))
        /\ responses' = Tail(responses)
        /\ UNCHANGED main
     \/ /\ responses = <<>>
        /\ main' = "wait"
        /\ UNCHANGED <<displayed, responses>>
  /\ UNCHANGED <<inputs, entered, shutdownEvent, quitRequested, guards, dbOpen, bgVars,
                 pc, wizard, runs>>

\* root.quit() of another thread ends the main loop without a poll.
QuitByOther ==
  /\ main = "wait" /\ quitRequested
  /\ main' = "join"
  /\ UNCHANGED <<queues, shutdownEvent, quitRequested, guards, dbOpen, bgVars, pc,
                 wizard, runs>>

\* main() has returned: the interpreter waits for the non-daemon thread of the
\* tray icon before it runs the atexit hook.
TrayRuns == TrayIcon /\ pc["tray"] # "ended"

\* Slip: the atexit hook runs while the thread of the icon is still at work.
JoinNobody ==
  /\ main = "join"
  /\ main' = "atexit"
  /\ pc' = [pc EXCEPT !["main"] = "handler"]
  /\ UNCHANGED <<queues, shutdownEvent, quitRequested, guards, dbOpen, bgVars, wizard, runs>>

JoinThreads ==
  /\ main = "join" /\ ~TrayRuns
  /\ main' = "atexit"
  /\ pc' = [pc EXCEPT !["main"] = "handler"]
  /\ UNCHANGED <<queues, shutdownEvent, quitRequested, guards, dbOpen, bgVars, wizard, runs>>

Exit ==
  /\ main = "atexit" /\ pc["main"] = "returned"
  /\ main' = "exited"
  /\ UNCHANGED <<queues, shutdownEvent, quitRequested, guards, dbOpen, bgVars, pc,
                 wizard, runs>>

MainStep == Poll \/ Display \/ QuitByOther \/ JoinThreads \/ Exit

-----------------------------------------------------------------------------
(* The callers of _shutdown.                                               *)

MoveTo(c, l) == pc' = [pc EXCEPT ![c] = l]

\* The handlers of ctrl and atexit: _shutdown_done is tested, then set.
HandlerCheck(c) ==
  /\ Alive /\ pc[c] = "handler"
  /\ MoveTo(c, IF handled THEN "returned" ELSE "mark")
  /\ UNCHANGED <<queues, shutdownEvent, quitRequested, guards, dbOpen, bgVars, main,
                 wizard, runs>>

HandlerMark(c) ==
  /\ Alive /\ pc[c] = "mark"
  /\ handled' = TRUE
  /\ MoveTo(c, "check")
  /\ UNCHANGED <<queues, shutdownEvent, quitRequested, done, dbOpen, bgVars, main,
                 wizard, runs>>

\* Slip: the closure relies on the guard of the handlers.
DoneNotChecked(c) ==
  /\ Alive /\ pc[c] = "check"
  /\ MoveTo(c, "set")
  /\ UNCHANGED <<queues, shutdownEvent, quitRequested, guards, dbOpen, bgVars, main,
                 wizard, runs>>

\* _shutdown: _done is tested, then set.
DoneCheck(c) ==
  /\ Alive /\ pc[c] = "check"
  /\ MoveTo(c, IF done THEN "returned" ELSE "set")
  /\ UNCHANGED <<queues, shutdownEvent, quitRequested, guards, dbOpen, bgVars, main,
                 wizard, runs>>

DoneSet(c) ==
  /\ Alive /\ pc[c] = "set"
  /\ done' = TRUE
  /\ runs' = runs \cup {c}
  /\ MoveTo(c, "event")
  /\ UNCHANGED <<queues, shutdownEvent, quitRequested, handled, dbOpen, bgVars, main, wizard>>

CloseGui(c) ==
  /\ Alive /\ pc[c] = "event"
  /\ shutdownEvent' = TRUE
  /\ MoveTo(c, "summary")
  /\ UNCHANGED <<queues, quitRequested, guards, dbOpen, bgVars, main, wizard, runs>>

\* generate_daily_summary_sync waits for the model; it swallows every exception.
Summarise(c) ==
  /\ Alive /\ pc[c] = "summary"
  /\ MoveTo(c, "close")
  /\ UNCHANGED <<queues, shutdownEvent, quitRequested, guards, dbOpen, bgVars, main,
                 wizard, runs>>

CloseDb(c) ==
  /\ Alive /\ pc[c] = "close"
  /\ dbOpen' = FALSE
  /\ MoveTo(c, "returned")
  /\ UNCHANGED <<queues, shutdownEvent, quitRequested, guards, bgVars, main, wizard, runs>>

CallerStep(c) ==
  \/ HandlerCheck(c) \/ HandlerMark(c) \/ DoneCheck(c) \/ DoneSet(c)
  \/ CloseGui(c) \/ Summarise(c) \/ CloseDb(c)

\* The two menu entries that end the application.
ClickMenu ==
  /\ Alive /\ TrayIcon /\ pc["tray"] = "out"
  /\ wizard' \in BOOLEAN
  /\ MoveTo("tray", "check")
  /\ UNCHANGED <<queues, shutdownEvent, quitRequested, guards, dbOpen, bgVars, main, runs>>

\* Slip: the icon is not stopped.
TrayStays ==
  /\ Alive /\ pc["tray"] = "returned"
  /\ quitRequested' = (quitRequested \/ wizard)
  /\ MoveTo("tray", "out")
  /\ UNCHANGED <<queues, shutdownEvent, guards, dbOpen, bgVars, main, wizard, runs>>

\* action_quit stops the icon; _wizard_restart starts the new process and calls
\* root.quit().  Either way the thread of the icon ends.
TrayReturn ==
  /\ Alive /\ pc["tray"] = "returned"
  /\ quitRequested' = (quitRequested \/ wizard)
  /\ MoveTo("tray", "ended")
  /\ UNCHANGED <<queues, shutdownEvent, guards, dbOpen, bgVars, main, wizard, runs>>

\* Windows calls the handler in a thread of its own ...
ConsoleEvent ==
  /\ Alive /\ ConsoleEvents /\ pc["ctrl"] = "out"
  /\ MoveTo("ctrl", "handler")
  /\ UNCHANGED <<queues, shutdownEvent, quitRequested, guards, dbOpen, bgVars, main,
                 wizard, runs>>

\* ... and ends the process when the handler returns, or after a few seconds.
EndedByWindows ==
  /\ Alive
  /\ \/ pc["ctrl"] = "returned"
     \/ KillOnTimeout /\ pc["ctrl"] # "out"
  /\ main' = "exited"
  /\ UNCHANGED <<queues, shutdownEvent, quitRequested, guards, dbOpen, bgVars, pc,
                 wizard, runs>>

Exited == main = "exited" /\ UNCHANGED vars

Next ==
  \/ BgStep \/ MainStep \/ EnterInput
  \/ \E c \in Callers : CallerStep(c)
  \/ ClickMenu \/ TrayReturn
  \/ ConsoleEvent \/ EndedByWindows
  \/ Exited

Spec == Init /\ [][Next]_vars

\* The threads are scheduled, the poll is rescheduled, LLM calls have timeouts.
\* The user and Windows need not do anything.
FairSpec ==
  /\ Spec
  /\ WF_vars(BgStep) /\ WF_vars(MainStep) /\ WF_vars(TrayReturn)
  /\ \A c \in Callers : WF_vars(CallerStep(c))

-----------------------------------------------------------------------------
(* Properties.                                                             *)

Produced == displayed \o responses

\* Every input gets at most one answer or error text, the answers keep the order
\* of the inputs whatever fails in between, and none follows the text about the
\* authentication error, although inputs may be waiting (main.py:90-123).
AnswersInOrder ==
  \A i, j \in DOMAIN Produced :
    i < j => Produced[i].to < Produced[j].to /\ Produced[i].kind # "EM-007"

\* Without a console event, the menu of the tray icon and the atexit hook never
\* both run the shutdown sequence (main.py:196-199).
ShutdownOnce == pc["ctrl"] = "out" => Cardinality(runs) <= 1

\* Unless Windows ends the process, the process does not end before a shutdown
\* sequence, summary included, has come to its end (main.py:201-220).
ExitAfterShutdown == main = "exited" /\ pc["ctrl"] = "out" => ~dbOpen

\* With a console event whose handler is given all the time it needs, the summary
\* it began is not cut off by the end of the main thread (D-11).
SummaryNotCutShort ==
  main = "exited" => \A c \in runs : pc[c] \in {"returned", "ended"}

\* Every input is answered, or reported as failed, on the screen, or the
\* application is shutting down or gone (main.py:98-123, 150-163).
EveryInputAnswered ==
  \A n \in InputIds :
    (entered >= n) ~> \/ \E i \in DOMAIN displayed : displayed[i].to = n
                      \/ shutdownEvent \/ main = "exited"

\* Choosing an entry that ends the application ends the process: no thread waits
\* for another for ever (main.py:435-477, system_tray.py:116-119).
MenuEndsProcess == (pc["tray"] # "out") ~> (main = "exited")
=============================================================================
