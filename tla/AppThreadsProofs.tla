-------------------------- MODULE AppThreadsProofs --------------------------
(***************************************************************************)
(* Proofs about AppThreads, with or without a tray icon, console events    *)
(* and a handler that is cut short, and for any number of inputs.          *)
(***************************************************************************)
EXTENDS AppThreads, FiniteSetTheorems, TLAPS

Places == {"out", "handler", "mark", "check", "set", "event", "summary", "close", "returned", "ended"}

-----------------------------------------------------------------------------
(* Type correctness.                                                       *)

LEMMA PlacesTyped ==
  ASSUME TypeOK, [Next]_vars
  PROVE  pc' \in [Callers -> Places]
<1>0. pc \in [Callers -> Places]
  BY DEF TypeOK, Places
<1>1. \/ pc' = pc
      \/ \E c \in Callers, l \in Places : pc' = [pc EXCEPT ![c] = l]
  BY DEF Next, BgStep, Greet, CheckEvent, GetInput, ProcessTurn, StopAfterAuthError, MainStep, Poll,
         Display, QuitByOther, JoinThreads, Exit, EnterInput, CallerStep, HandlerCheck, HandlerMark,
         DoneCheck, DoneSet, CloseGui, Summarise, CloseDb, ClickMenu, TrayReturn, ConsoleEvent,
         EndedByWindows, Exited, vars, MoveTo, Callers, Places
<1> HIDE DEF Places, Callers
<1> QED
  BY <1>0, <1>1

LEMMA FlagsTyped ==
  ASSUME TypeOK, [Next]_vars
  PROVE  {shutdownEvent', quitRequested', done', handled', dbOpen', wizard'} \subseteq BOOLEAN
<1>0. {shutdownEvent, quitRequested, done, handled, dbOpen, wizard} \subseteq BOOLEAN
  BY DEF TypeOK
<1>1. shutdownEvent' = shutdownEvent \/ shutdownEvent' = TRUE
  BY Zenon DEF Next, BgStep, Greet, CheckEvent, GetInput, ProcessTurn, StopAfterAuthError, MainStep,
     Poll, Display, QuitByOther, JoinThreads, Exit, EnterInput, CallerStep, HandlerCheck,
     HandlerMark, DoneCheck, DoneSet, CloseGui, Summarise, CloseDb, ClickMenu, TrayReturn,
     ConsoleEvent, EndedByWindows, Exited, vars
<1>2. quitRequested' = quitRequested \/ quitRequested' = (quitRequested \/ wizard)
  BY Zenon DEF Next, BgStep, Greet, CheckEvent, GetInput, ProcessTurn, StopAfterAuthError, MainStep,
     Poll, Display, QuitByOther, JoinThreads, Exit, EnterInput, CallerStep, HandlerCheck,
     HandlerMark, DoneCheck, DoneSet, CloseGui, Summarise, CloseDb, ClickMenu, TrayReturn,
     ConsoleEvent, EndedByWindows, Exited, vars
<1>3. (done' = done \/ done' = TRUE) /\ (handled' = handled \/ handled' = TRUE)
  BY Zenon DEF Next, BgStep, Greet, CheckEvent, GetInput, ProcessTurn, StopAfterAuthError, MainStep,
     Poll, Display, QuitByOther, JoinThreads, Exit, EnterInput, CallerStep, HandlerCheck,
     HandlerMark, DoneCheck, DoneSet, CloseGui, Summarise, CloseDb, ClickMenu, TrayReturn,
     ConsoleEvent, EndedByWindows, Exited, vars, guards
<1>4. (dbOpen' = dbOpen \/ dbOpen' = FALSE) /\ (wizard' = wizard \/ wizard' \in BOOLEAN)
  BY Zenon DEF Next, BgStep, Greet, CheckEvent, GetInput, ProcessTurn, StopAfterAuthError, MainStep,
     Poll, Display, QuitByOther, JoinThreads, Exit, EnterInput, CallerStep, HandlerCheck,
     HandlerMark, DoneCheck, DoneSet, CloseGui, Summarise, CloseDb, ClickMenu, TrayReturn,
     ConsoleEvent, EndedByWindows, Exited, vars
<1>5. quitRequested' \in BOOLEAN
  BY <1>0, <1>2
<1>6. shutdownEvent' \in BOOLEAN /\ done' \in BOOLEAN /\ handled' \in BOOLEAN
  BY <1>0, <1>1, <1>3
<1>7. dbOpen' \in BOOLEAN /\ wizard' \in BOOLEAN
  BY <1>0, <1>4
<1> QED
  BY <1>5, <1>6, <1>7

LEMMA WhereTyped ==
  ASSUME TypeOK, [Next]_vars
  PROVE  /\ bg' \in {"greet", "loop", "get", "turn", "auth", "stopped"}
         /\ main' \in {"wait", "drain", "join", "atexit", "exited"}
         /\ runs' \subseteq Callers
BY DEF TypeOK, Next, BgStep, Greet, CheckEvent, GetInput, ProcessTurn, StopAfterAuthError, MainStep,
       Poll, Display, QuitByOther, JoinThreads, Exit, EnterInput, CallerStep, HandlerCheck,
       HandlerMark, DoneCheck, DoneSet, CloseGui, Summarise, CloseDb, ClickMenu, TrayReturn,
       ConsoleEvent, EndedByWindows, Exited, vars, bgVars

LEMMA TextTyped ==
  ASSUME NEW kind \in {"greeting", "reply", "EM-006", "EM-007"}, NEW i \in 0..MaxInputs
  PROVE  Text(kind, i) \in Texts /\ Text(kind, i).to = i /\ Text(kind, i).kind = kind
BY DEF Text, Texts

\* What the steps do to the queues.
LEMMA QueuesEffect ==
  ASSUME TypeOK, [Next]_vars
  PROVE  \/ UNCHANGED <<inputs, responses, displayed, entered, serving>>
         \/ Greet \/ GetInput \/ ProcessTurn \/ EnterInput \/ Display
BY Zenon DEF Next, BgStep, CheckEvent, StopAfterAuthError, MainStep,
       Poll, QuitByOther, JoinThreads, Exit, CallerStep, HandlerCheck,
       HandlerMark, DoneCheck, DoneSet, CloseGui, Summarise, CloseDb, ClickMenu, TrayReturn,
       ConsoleEvent, EndedByWindows, Exited, vars, queues, bgVars

LEMMA QueuesTyped ==
  ASSUME TypeOK, [Next]_vars
  PROVE  /\ inputs' \in Seq(InputIds) /\ entered' \in 0..MaxInputs
         /\ responses' \in Seq(Texts) /\ displayed' \in Seq(Texts)
         /\ serving' \in 0..MaxInputs
<1>0. /\ inputs \in Seq(InputIds) /\ entered \in 0..MaxInputs /\ serving \in 0..MaxInputs
      /\ responses \in Seq(Texts) /\ displayed \in Seq(Texts) /\ 0 \in 0..MaxInputs
  BY BoundAssumption DEF TypeOK
<1> HIDE DEF Texts
<1>1. ASSUME NEW text \in Texts, Put(text) PROVE responses' \in Seq(Texts)
  BY <1>0, <1>1 DEF Put
<1>2. CASE Greet
  <2>1. responses' \in Seq(Texts)
    BY <1>0, <1>1, <1>2, TextTyped DEF Greet
  <2> QED
    BY <1>0, <1>2, <2>1 DEF Greet
<1>3. CASE GetInput
  <2>1. inputs # <<>> => Head(inputs) \in InputIds /\ Tail(inputs) \in Seq(InputIds)
    <3> HIDE DEF InputIds
    <3> QED
      BY <1>0
  <2>2. InputIds \subseteq 0..MaxInputs
    BY BoundAssumption DEF InputIds
  <2> QED
    BY <1>0, <1>3, <2>1, <2>2 DEF GetInput
<1>4. CASE ProcessTurn
  <2>1. responses' \in Seq(Texts)
    BY <1>0, <1>1, <1>4, TextTyped DEF ProcessTurn
  <2> QED
    BY <1>0, <1>4, <2>1 DEF ProcessTurn
<1>5. CASE EnterInput
  <2>1. entered' \in InputIds /\ entered' \in 0..MaxInputs
    BY <1>0, <1>5, BoundAssumption DEF EnterInput, InputIds
  <2> HIDE DEF InputIds
  <2> QED
    BY <1>0, <1>5, <2>1 DEF EnterInput, bgVars
<1>6. CASE Display
  <2>1. inputs' = inputs /\ entered' = entered /\ serving' = serving
    BY <1>6 DEF Display, bgVars
  <2>2. \/ responses # <<>> /\ displayed' = Append(displayed, Head(responses)) /\ responses' = Tail(responses)
        \/ displayed' = displayed /\ responses' = responses
    BY <1>6, Zenon DEF Display
  <2>3. responses # <<>> => Head(responses) \in Texts /\ Tail(responses) \in Seq(Texts)
    BY <1>0
  <2>5. ASSUME NEW text \in Texts PROVE Append(displayed, text) \in Seq(Texts)
    BY <1>0
  <2>4. responses' \in Seq(Texts) /\ displayed' \in Seq(Texts)
    BY <1>0, <2>2, <2>3, <2>5, Zenon
  <2> QED
    BY <1>0, <2>1, <2>4
<1>7. CASE UNCHANGED <<inputs, responses, displayed, entered, serving>>
  BY <1>0, <1>7
<1> QED
  BY <1>2, <1>3, <1>4, <1>5, <1>6, <1>7, QueuesEffect

\* Every variable keeps its type: the queues hold inputs and texts, and the threads
\* are where the code has a place for them.
THEOREM ThreadTypes == Spec => []TypeOK
<1>1. Init => TypeOK
  <2> SUFFICES ASSUME Init PROVE TypeOK
    OBVIOUS
  <2>1. inputs \in Seq(InputIds) /\ responses \in Seq(Texts) /\ displayed \in Seq(Texts)
    BY DEF Init
  <2>2. entered \in 0..MaxInputs /\ serving \in 0..MaxInputs
    BY BoundAssumption DEF Init
  <2>3. {shutdownEvent, quitRequested, done, handled, dbOpen, wizard} \subseteq BOOLEAN
    <3>1. /\ shutdownEvent = FALSE /\ quitRequested = FALSE /\ done = FALSE /\ handled = FALSE
          /\ dbOpen = TRUE /\ wizard = FALSE
      BY Zenon DEF Init
    <3> QED
      BY <3>1
  <2>4. /\ bg \in {"greet", "loop", "get", "turn", "auth", "stopped"} /\ runs \subseteq Callers
        /\ main \in {"wait", "drain", "join", "atexit", "exited"}
    BY DEF Init
  <2>5. pc \in [Callers -> Places]
    BY DEF Init, Places
  <2> QED
    BY <2>1, <2>2, <2>3, <2>4, <2>5 DEF TypeOK, Places
<1>2. TypeOK /\ [Next]_vars => TypeOK'
  <2> HIDE DEF Texts, InputIds, Callers
  <2> QED
    BY PlacesTyped, FlagsTyped, WhereTyped, QueuesTyped DEF TypeOK, Places
<1> QED
  BY <1>1, <1>2, PTL DEF Spec

-----------------------------------------------------------------------------
(* The shutdown sequence.                                                  *)

\* While no console event has come: the main thread reaches the atexit hook when the
\* thread of the icon has ended, if there is one, and then _done is set.
ShutdownInv ==
  pc["ctrl"] = "out" =>
    /\ "ctrl" \notin runs
    /\ main \notin {"atexit", "exited"} => pc["main"] = "out"
    /\ main = "exited" => pc["main"] = "returned"
    /\ ~TrayIcon => pc["tray"] = "out" /\ "tray" \notin runs
    /\ TrayIcon => /\ pc["main"] # "out" => pc["tray"] = "ended"
                   /\ pc["main"] \notin {"set", "event", "summary", "close"} /\ "main" \notin runs
    /\ pc["tray"] \notin {"handler", "mark"}
    /\ TrayIcon /\ pc["tray"] \in {"out", "check", "set"} => ~done
    /\ pc["tray"] \notin {"out", "check", "set"} => done
    /\ pc["tray"] \in {"returned", "ended"} => ~dbOpen
    /\ ~TrayIcon /\ pc["main"] \in {"out", "handler", "mark", "check", "set"} => ~done
    /\ pc["main"] \in {"out", "handler"} => ~handled
    /\ pc["main"] = "returned" => ~dbOpen

LEMMA ShutdownStep ==
  ASSUME TypeOK, ShutdownInv, [Next]_vars
  PROVE  ShutdownInv'
<1>0. pc \in [Callers -> Places] /\ TrayIcon \in BOOLEAN
  BY FlagsAssumption DEF TypeOK, Places
<1>1. CASE BgStep \/ Poll \/ Display \/ QuitByOther \/ EnterInput \/ Exited \/ UNCHANGED vars
  <2>1. UNCHANGED <<done, handled, dbOpen, pc, runs>>
    BY <1>1, Zenon DEF BgStep, Greet, CheckEvent, GetInput, ProcessTurn, StopAfterAuthError, Poll, Display,
       QuitByOther, EnterInput, Exited, vars, guards
  <2>2. main' = main \/ (main \notin {"atexit", "exited"} /\ main' \notin {"atexit", "exited"})
    BY <1>1 DEF BgStep, Greet, CheckEvent, GetInput, ProcessTurn, StopAfterAuthError, Poll, Display,
       QuitByOther, EnterInput, Exited, vars
  <2> QED
    BY <2>1, <2>2 DEF ShutdownInv
<1>2. CASE JoinThreads
  BY <1>0, <1>2 DEF ShutdownInv, JoinThreads, TrayRuns, guards, Callers
<1>3. CASE Exit
  BY <1>3 DEF ShutdownInv, Exit, guards
<1>4. ASSUME NEW c \in Callers, CallerStep(c) PROVE ShutdownInv'
  <2> SUFFICES ASSUME pc["ctrl"] = "out", c # "ctrl" PROVE ShutdownInv'
    <3>1. pc["ctrl"] # "out" \/ c = "ctrl" => pc'["ctrl"] # "out"
      BY <1>0, <1>4 DEF CallerStep, HandlerCheck, HandlerMark, DoneCheck, DoneSet, CloseGui, Summarise,
         CloseDb, MoveTo, Callers
    <3> QED
      BY <3>1 DEF ShutdownInv
  <2>1. CASE c = "tray"
    BY <1>0, <1>4, <2>1 DEF ShutdownInv, CallerStep, HandlerCheck, HandlerMark, DoneCheck, DoneSet, CloseGui,
       Summarise, CloseDb, MoveTo, Callers, guards, Alive
  <2>2. CASE c = "main"
    <3>1. CASE HandlerCheck("main") \/ HandlerMark("main") \/ DoneCheck("main")
      BY <1>0, <3>1 DEF ShutdownInv, HandlerCheck, HandlerMark, DoneCheck, MoveTo, Callers, guards, Alive
    <3>2. CASE DoneSet("main") \/ CloseGui("main") \/ Summarise("main") \/ CloseDb("main")
      BY <1>0, <3>2 DEF ShutdownInv, DoneSet, CloseGui, Summarise, CloseDb, MoveTo, Callers, guards, Alive
    <3> QED
      BY <1>4, <2>2, <3>1, <3>2 DEF CallerStep
  <2> QED
    BY <2>1, <2>2 DEF Callers
<1>5. CASE ClickMenu
  BY <1>0, <1>5 DEF ShutdownInv, ClickMenu, MoveTo, Callers, guards, Alive
<1>6. CASE TrayReturn
  BY <1>0, <1>6 DEF ShutdownInv, TrayReturn, MoveTo, Callers, guards, Alive
<1>7. CASE ConsoleEvent
  BY <1>0, <1>7 DEF ShutdownInv, ConsoleEvent, MoveTo, Callers
<1>8. CASE EndedByWindows
  BY <1>8 DEF ShutdownInv, EndedByWindows
<1> QED
  BY <1>1, <1>2, <1>3, <1>4, <1>5, <1>6, <1>7, <1>8 DEF Next, MainStep

LEMMA ShutdownAlways == Spec => []ShutdownInv
<1>1. Init => ShutdownInv
  BY DEF Init, ShutdownInv, Callers
<1> QED
  BY <1>1, ShutdownStep, ThreadTypes, PTL DEF Spec

\* Without a console event, the menu of the tray icon and the atexit hook never both
\* run the shutdown sequence, although _done is tested and set in two steps
\* (main.py:196-199).
THEOREM OneShutdown == Spec => []ShutdownOnce
<1>1. TypeOK /\ ShutdownInv => ShutdownOnce
  <2> SUFFICES ASSUME TypeOK, ShutdownInv, pc["ctrl"] = "out" PROVE Cardinality(runs) <= 1
    BY DEF ShutdownOnce
  <2>1. runs \subseteq {"tray"} \/ runs \subseteq {"main"}
    BY FlagsAssumption DEF TypeOK, ShutdownInv, Callers
  <2>2. runs = {} \/ runs = {"tray"} \/ runs = {"main"}
    BY <2>1
  <2>3. Cardinality({}) = 0 /\ Cardinality({"tray"}) = 1 /\ Cardinality({"main"}) = 1
    BY FS_EmptySet, FS_Singleton
  <2> QED
    BY <2>2, <2>3
<1> QED
  BY <1>1, ThreadTypes, ShutdownAlways, PTL

\* Unless Windows ends the process, it does not end before a shutdown sequence,
\* summary included, has come to its end (main.py:201-220).
THEOREM ShutdownBeforeExit == Spec => []ExitAfterShutdown
<1>1. ShutdownInv => ExitAfterShutdown
  BY DEF ShutdownInv, ExitAfterShutdown
<1> QED
  BY <1>1, ShutdownAlways, PTL

-----------------------------------------------------------------------------
(* The order of the answers.                                               *)

\* The texts follow the inputs that are served, those follow the inputs that wait,
\* and nothing follows the text about the authentication error.
Ordered(texts) ==
  \A i, j \in DOMAIN texts : i < j => texts[i].to < texts[j].to /\ texts[i].kind # "EM-007"
Behind(texts, n) == \A i \in DOMAIN texts : texts[i].to < n /\ texts[i].kind # "EM-007"

OrderInv ==
  /\ Ordered(Produced) /\ serving <= entered
  /\ bg = "greet" => Produced = <<>>
  /\ bg \in {"greet", "loop", "get"} => serving = 0
  /\ bg = "turn" => serving > 0 /\ Behind(Produced, serving)
  /\ bg \in {"loop", "get", "turn"} => Behind(Produced, entered + 1)
  /\ \A i, j \in DOMAIN inputs : i < j => inputs[i] < inputs[j]
  /\ \A i \in DOMAIN inputs :
       /\ inputs[i] <= entered /\ serving < inputs[i]
       /\ bg \in {"loop", "get", "turn"} => Behind(Produced, inputs[i])

\* A text behind all others keeps the order.
LEMMA OrderedAppend ==
  ASSUME NEW texts \in Seq(Texts), NEW text \in Texts, Ordered(texts), Behind(texts, text.to)
  PROVE  /\ Ordered(Append(texts, text))
         /\ \A n \in Nat : text.to < n /\ text.kind # "EM-007" => Behind(Append(texts, text), n)
<1>1. /\ DOMAIN Append(texts, text) = DOMAIN texts \cup {Len(texts) + 1}
      /\ Append(texts, text)[Len(texts) + 1] = text
      /\ \A i \in DOMAIN texts : Append(texts, text)[i] = texts[i] /\ i \in 1..Len(texts)
      /\ Len(texts) \in Nat
  <2> HIDE DEF Texts
  <2> QED
    OBVIOUS
<1>2. text.to \in Nat /\ \A i \in DOMAIN texts : texts[i].to \in Nat
  <2>1. \A i \in DOMAIN texts : texts[i] \in Texts
    <3> HIDE DEF Texts
    <3> QED
      OBVIOUS
  <2> QED
    BY <2>1, BoundAssumption DEF Texts
<1> DEFINE all == Append(texts, text)
<1> HIDE DEF all
<1>3. Ordered(all)
  <2> SUFFICES ASSUME NEW i \in DOMAIN all, NEW j \in DOMAIN all, i < j
               PROVE  all[i].to < all[j].to /\ all[i].kind # "EM-007"
    BY DEF Ordered
  <2>1. i \in DOMAIN texts /\ all[i] = texts[i]
    BY <1>1 DEF all
  <2>2. CASE j \in DOMAIN texts
    BY <1>1, <2>1, <2>2 DEF all, Ordered
  <2>3. CASE j = Len(texts) + 1
    BY <1>1, <2>1, <2>3 DEF all, Behind
  <2> QED
    BY <1>1, <2>2, <2>3 DEF all
<1>4. ASSUME NEW n \in Nat, text.to < n, text.kind # "EM-007" PROVE Behind(all, n)
  BY <1>1, <1>2, <1>4 DEF all, Behind
<1> QED
  BY <1>3, <1>4 DEF all

\* Display moves a text from one queue to the other, and Put appends one.
LEMMA Moved ==
  ASSUME NEW s \in Seq(Texts), NEW t \in Seq(Texts)
  PROVE  /\ s \o t \in Seq(Texts)
         /\ t # <<>> => Append(s, Head(t)) \o Tail(t) = s \o t
         /\ \A text \in Texts : s \o Append(t, text) = Append(s \o t, text)
<1> HIDE DEF Texts
<1>1. s \o t \in Seq(Texts)
  OBVIOUS
<1>2. ASSUME t # <<>> PROVE Append(s, Head(t)) \o Tail(t) = s \o t
  <2> DEFINE u == Append(s, Head(t)) \o Tail(t)
             v == s \o t
  <2>1. u \in Seq(Texts) /\ v \in Seq(Texts) /\ Len(u) = Len(v)
    BY <1>2
  <2>2. ASSUME NEW i \in 1..Len(v) PROVE u[i] = v[i]
    BY <1>2
  <2> HIDE DEF u, v
  <2>3. u = v
    BY <2>1, <2>2
  <2> QED
    BY <2>3 DEF u, v
<1>3. ASSUME NEW text \in Texts PROVE s \o Append(t, text) = Append(s \o t, text)
  <2> DEFINE u == s \o Append(t, text)
             v == Append(s \o t, text)
  <2>1. u \in Seq(Texts) /\ v \in Seq(Texts) /\ Len(u) = Len(v)
    OBVIOUS
  <2>2. ASSUME NEW i \in 1..Len(v) PROVE u[i] = v[i]
    OBVIOUS
  <2> HIDE DEF u, v
  <2>3. u = v
    BY <2>1, <2>2
  <2> QED
    BY <2>3 DEF u, v
<1> QED
  BY <1>1, <1>2, <1>3

LEMMA ProducedBy ==
  ASSUME TypeOK
  PROVE  /\ Produced \in Seq(Texts)
         /\ Display => Produced' = Produced
         /\ \A text \in Texts : Put(text) /\ displayed' = displayed => Produced' = Append(Produced, text)
<1>1. displayed \in Seq(Texts) /\ responses \in Seq(Texts)
  BY Zenon DEF TypeOK
<1>2. Produced \in Seq(Texts)
  BY <1>1, Moved DEF Produced
<1>3. ASSUME Display PROVE Produced' = Produced
  <2>1. \/ /\ responses # <<>> /\ displayed' = Append(displayed, Head(responses))
           /\ responses' = Tail(responses)
        \/ displayed' = displayed /\ responses' = responses
    BY <1>3, Zenon DEF Display
  <2>2. responses # <<>> => Append(displayed, Head(responses)) \o Tail(responses) = displayed \o responses
    BY <1>1, Moved
  <2> QED
    BY <2>1, <2>2, Zenon DEF Produced
<1>4. ASSUME NEW text \in Texts, Put(text), displayed' = displayed
      PROVE  Produced' = Append(Produced, text)
  <2>1. displayed \o Append(responses, text) = Append(displayed \o responses, text)
    BY <1>1, Moved
  <2> QED
    BY <1>4, <2>1, Zenon DEF Produced, Put
<1> QED
  BY <1>2, <1>3, <1>4, Zenon

LEMMA BehindMore ==
  ASSUME NEW texts \in Seq(Texts), NEW m \in Nat, NEW n \in Nat, m <= n, Behind(texts, m)
  PROVE  Behind(texts, n)
<1>1. \A i \in DOMAIN texts : texts[i].to \in Nat
  <2>1. \A i \in DOMAIN texts : texts[i] \in Texts
    <3> HIDE DEF Texts
    <3> QED
      OBVIOUS
  <2> QED
    BY <2>1, BoundAssumption DEF Texts
<1> QED
  BY <1>1 DEF Behind

LEMMA OrderStep ==
  ASSUME TypeOK, OrderInv, [Next]_vars
  PROVE  OrderInv'
<1>0. /\ inputs \in Seq(InputIds) /\ entered \in Nat /\ serving \in Nat /\ Produced \in Seq(Texts)
      /\ \A i \in DOMAIN inputs : inputs[i] \in Nat /\ inputs[i] > 0
  <2>1. inputs \in Seq(InputIds) /\ \A n \in InputIds : n \in Nat /\ n > 0
    BY BoundAssumption DEF TypeOK, InputIds
  <2>2. \A i \in DOMAIN inputs : inputs[i] \in InputIds
    <3> HIDE DEF InputIds
    <3> QED
      BY <2>1
  <2>3. entered \in Nat /\ serving \in Nat
    BY BoundAssumption DEF TypeOK
  <2> QED
    BY <2>1, <2>2, <2>3, ProducedBy
<1> HIDE DEF Produced, Texts, InputIds
<1>1. ASSUME UNCHANGED <<inputs, entered, serving, bg, Produced>> PROVE OrderInv'
  BY <1>1 DEF OrderInv, Ordered, Behind
<1>2. CASE Greet
  <2>1. PICK text \in {Text("greeting", 0), Text("EM-006", 0)} : Put(text)
    BY <1>2 DEF Greet
  <2>2. text \in Texts /\ text.to = 0 /\ text.kind # "EM-007"
    BY <2>1, TextTyped, BoundAssumption
  <2>3. Produced' = Append(Produced, text) /\ UNCHANGED <<inputs, entered, serving>> /\ bg' = "loop"
    BY <1>2, <2>1, <2>2, ProducedBy DEF Greet
  <2>4. Produced = <<>> /\ serving = 0
    BY <1>2 DEF Greet, OrderInv
  <2>5. Ordered(Produced) /\ Behind(Produced, text.to)
    BY <2>4 DEF Ordered, Behind
  <2>6. Ordered(Produced') /\ \A n \in Nat : 0 < n => Behind(Produced', n)
    BY <1>0, <2>2, <2>3, <2>5, OrderedAppend
  <2>7. Behind(Produced', entered + 1)
    BY <1>0, <2>6
  <2>8. \A i \in DOMAIN inputs : Behind(Produced', inputs[i])
    BY <1>0, <2>6
  <2> QED
    BY <2>3, <2>4, <2>6, <2>7, <2>8 DEF OrderInv
<1>3. CASE CheckEvent
  <2>1. bg = "loop" /\ bg' \in {"get", "stopped"} /\ UNCHANGED <<inputs, entered, serving>> /\ Produced' = Produced
    BY <1>3 DEF CheckEvent, queues, Produced
  <2> QED
    BY <2>1 DEF OrderInv, Ordered, Behind
<1>4. CASE GetInput
  <2>1. bg = "get" /\ entered' = entered /\ Produced' = Produced
    BY <1>4 DEF GetInput, Produced
  <2>2. CASE inputs = <<>>
    <3>1. bg' = "loop" /\ inputs' = inputs /\ serving' = serving
      BY <1>4, <2>2 DEF GetInput
    <3> QED
      BY <2>1, <3>1 DEF OrderInv, Ordered, Behind
  <2>3. CASE inputs # <<>>
    <3>1. bg' = "turn" /\ inputs' = Tail(inputs) /\ serving' = Head(inputs)
      BY <1>4, <2>3 DEF GetInput
    <3>2. /\ Head(inputs) = inputs[1] /\ 1 \in DOMAIN inputs
          /\ \A i \in DOMAIN inputs' :
               i \in Nat /\ i > 0 /\ i + 1 \in DOMAIN inputs /\ inputs'[i] = inputs[i + 1]
      BY <1>0, <2>3, <3>1
    <3>3. serving' = inputs[1] /\ inputs[1] > 0 /\ inputs[1] <= entered /\ Behind(Produced, inputs[1])
          /\ Behind(Produced, entered + 1)
      BY <1>0, <2>1, <3>1, <3>2 DEF OrderInv
    <3>4. ASSUME NEW i \in DOMAIN inputs'
          PROVE  inputs'[i] <= entered /\ inputs[1] < inputs'[i] /\ Behind(Produced, inputs'[i])
      <4>1. i + 1 \in DOMAIN inputs /\ inputs'[i] = inputs[i + 1] /\ 1 < i + 1
        BY <3>2
      <4> QED
        BY <2>1, <3>2, <4>1 DEF OrderInv
    <3>5. ASSUME NEW i \in DOMAIN inputs', NEW j \in DOMAIN inputs', i < j PROVE inputs'[i] < inputs'[j]
      <4>1. i + 1 \in DOMAIN inputs /\ j + 1 \in DOMAIN inputs /\ i + 1 < j + 1
            /\ inputs'[i] = inputs[i + 1] /\ inputs'[j] = inputs[j + 1]
        BY <3>2, <3>5
      <4> QED
        BY <4>1 DEF OrderInv
    <3>6. Ordered(Produced)
      BY DEF OrderInv
    <3> QED
      BY <2>1, <3>1, <3>3, <3>4, <3>5, <3>6 DEF OrderInv
  <2> QED
    BY <2>2, <2>3
<1>5. CASE ProcessTurn
  <2>1. PICK kind \in {"reply", "EM-006", "EM-007"} :
          Put(Text(kind, serving)) /\ bg' = IF kind = "EM-007" THEN "auth" ELSE "loop"
    BY <1>5 DEF ProcessTurn
  <2> DEFINE text == Text(kind, serving)
  <2>2. text \in Texts /\ text.to = serving /\ text.kind = kind
    BY <2>1, TextTyped DEF TypeOK
  <2>3. bg = "turn" /\ UNCHANGED <<inputs, entered, displayed>> /\ serving' = 0 /\ Put(text)
    BY <1>5, <2>1, Zenon DEF ProcessTurn
  <2> HIDE DEF text
  <2>4. Produced' = Append(Produced, text)
    BY <2>2, <2>3, ProducedBy
  <2>5. serving > 0 /\ serving <= entered /\ Ordered(Produced) /\ Behind(Produced, serving)
    BY <2>3 DEF OrderInv
  <2>6. /\ Ordered(Produced')
        /\ \A n \in Nat : serving < n /\ text.kind # "EM-007" => Behind(Produced', n)
    BY <1>0, <2>2, <2>4, <2>5, OrderedAppend
  <2>7. ASSUME kind # "EM-007"
        PROVE  Behind(Produced', entered + 1) /\ \A i \in DOMAIN inputs : Behind(Produced', inputs[i])
    <3>1. Behind(Produced', entered + 1)
      BY <1>0, <2>2, <2>5, <2>6, <2>7
    <3>2. \A i \in DOMAIN inputs : serving < inputs[i]
      BY DEF OrderInv
    <3> QED
      BY <1>0, <2>2, <2>6, <2>7, <3>1, <3>2
  <2>8. \A i \in DOMAIN inputs : inputs[i] <= entered /\ 0 < inputs[i]
    BY <1>0 DEF OrderInv
  <2>9. \A i, j \in DOMAIN inputs : i < j => inputs[i] < inputs[j]
    BY DEF OrderInv
  <2> QED
    BY <1>0, <2>1, <2>3, <2>6, <2>7, <2>8, <2>9 DEF OrderInv
<1>6. CASE StopAfterAuthError
  <2>1. bg' = "stopped" /\ UNCHANGED <<inputs, entered, serving>> /\ Produced' = Produced
    BY <1>6 DEF StopAfterAuthError, queues, Produced
  <2> QED
    BY <2>1 DEF OrderInv, Ordered
<1>7. CASE EnterInput
  <2>1. entered' = entered + 1 /\ inputs' = Append(inputs, entered + 1) /\ UNCHANGED <<serving, bg>>
        /\ Produced' = Produced
    BY <1>7 DEF EnterInput, bgVars, Produced
  <2>2. entered + 1 \in InputIds
    BY <1>0, <1>7, BoundAssumption DEF EnterInput, InputIds
  <2>3. /\ DOMAIN inputs' = DOMAIN inputs \cup {Len(inputs) + 1} /\ Len(inputs) \in Nat
        /\ inputs'[Len(inputs) + 1] = entered + 1
        /\ \A i \in DOMAIN inputs : inputs'[i] = inputs[i] /\ i \in Nat /\ i <= Len(inputs)
    BY <1>0, <2>1, <2>2
  <2>4. bg \in {"loop", "get", "turn"} =>
          Behind(Produced, entered + 1) /\ Behind(Produced, (entered + 1) + 1)
    <3>1. entered + 1 \in Nat /\ (entered + 1) + 1 \in Nat /\ entered + 1 <= (entered + 1) + 1
      BY <1>0
    <3>2. bg \in {"loop", "get", "turn"} => Behind(Produced, entered + 1)
      BY DEF OrderInv
    <3>3. Behind(Produced, entered + 1) => Behind(Produced, (entered + 1) + 1)
      BY <1>0, <3>1, BehindMore
    <3> QED
      BY <3>2, <3>3
  <2>5. ASSUME NEW i \in DOMAIN inputs'
        PROVE  /\ inputs'[i] <= entered + 1 /\ serving < inputs'[i]
               /\ bg \in {"loop", "get", "turn"} => Behind(Produced, inputs'[i])
    <3>1. CASE i \in DOMAIN inputs
      <4>1. inputs[i] \in Nat /\ inputs'[i] = inputs[i]
        BY <1>0, <2>3, <3>1
      <4>2. inputs[i] <= entered /\ serving < inputs[i]
            /\ (bg \in {"loop", "get", "turn"} => Behind(Produced, inputs[i]))
        BY <3>1 DEF OrderInv
      <4> QED
        BY <1>0, <4>1, <4>2
    <3>2. CASE i = Len(inputs) + 1
      BY <1>0, <2>3, <2>4, <3>2 DEF OrderInv
    <3> QED
      BY <2>3, <3>1, <3>2
  <2>6. ASSUME NEW i \in DOMAIN inputs', NEW j \in DOMAIN inputs', i < j PROVE inputs'[i] < inputs'[j]
    <3>1. i \in DOMAIN inputs /\ inputs'[i] = inputs[i] /\ inputs[i] \in Nat /\ inputs[i] <= entered
      BY <1>0, <2>3, <2>6 DEF OrderInv
    <3>2. CASE j \in DOMAIN inputs
      BY <2>3, <2>6, <3>1, <3>2 DEF OrderInv
    <3>3. CASE j = Len(inputs) + 1
      BY <1>0, <2>3, <3>1, <3>3
    <3> QED
      BY <2>3, <3>2, <3>3
  <2>7. serving' <= entered' /\ Ordered(Produced')
        /\ (bg' = "greet" => Produced' = <<>>)
        /\ (bg' \in {"greet", "loop", "get"} => serving' = 0)
        /\ (bg' = "turn" => serving' > 0 /\ Behind(Produced', serving'))
    BY <1>0, <2>1 DEF OrderInv
  <2> QED
    BY <2>1, <2>4, <2>5, <2>6, <2>7 DEF OrderInv
<1>8. CASE Display
  <2>1. Produced' = Produced
    BY <1>8, ProducedBy
  <2> QED
    BY <1>1, <1>8, <2>1 DEF Display, bgVars
<1>9. CASE \/ Poll \/ QuitByOther \/ JoinThreads \/ Exit \/ (\E c \in Callers : CallerStep(c)) \/ ClickMenu
           \/ TrayReturn \/ ConsoleEvent \/ EndedByWindows \/ Exited \/ UNCHANGED vars
  <2>1. UNCHANGED <<inputs, entered, serving, bg, displayed, responses>>
    BY <1>9, Zenon DEF Poll, QuitByOther, JoinThreads, Exit, CallerStep, HandlerCheck, HandlerMark,
       DoneCheck, DoneSet, CloseGui, Summarise, CloseDb, ClickMenu, TrayReturn, ConsoleEvent,
       EndedByWindows, Exited, vars, queues, bgVars
  <2> QED
    BY <1>1, <2>1 DEF Produced
<1> QED
  BY <1>2, <1>3, <1>4, <1>5, <1>6, <1>7, <1>8, <1>9, Zenon DEF Next, BgStep, MainStep

\* Every input gets at most one answer or error text, the answers keep the order of the
\* inputs whatever fails in between, and none follows the text about the
\* authentication error (main.py:90-123).
THEOREM InOrder == Spec => []AnswersInOrder
<1>1. Init => OrderInv
  <2> SUFFICES ASSUME Init PROVE OrderInv
    OBVIOUS
  <2>1. Produced = <<>> /\ inputs = <<>> /\ serving = 0 /\ entered = 0 /\ bg = "greet"
    BY DEF Init, Produced
  <2> HIDE DEF Produced
  <2> QED
    BY <2>1 DEF OrderInv, Ordered, Behind
<1>2. OrderInv => AnswersInOrder
  BY DEF OrderInv, Ordered, AnswersInOrder
<1> QED
  BY <1>1, <1>2, OrderStep, ThreadTypes, PTL DEF Spec

-----------------------------------------------------------------------------
(* No input is lost.                                                       *)

\* Every input of the user waits, is being served, or has its text among those that
\* were produced, shown or about to be, whatever the turns raise and whoever ends
\* the application (main.py:98-123, 150-163).
InputsKept ==
  \A n \in 1..entered :
    \/ \E i \in DOMAIN inputs : inputs[i] = n
    \/ serving = n
    \/ \E i \in DOMAIN Produced : Produced[i].to = n

\* With it: only the input of a turn is being served.
KeptInv == InputsKept /\ (bg # "turn" => serving = 0)

\* An input moves from the queue to the turn and from the turn to its text.
LEMMA KeptStep ==
  ASSUME TypeOK, KeptInv, [Next]_vars
  PROVE  KeptInv'
<1>0. /\ inputs \in Seq(InputIds) /\ entered \in Nat /\ serving \in Nat
      /\ Produced \in Seq(Texts) /\ 0 \in 0..MaxInputs /\ serving \in 0..MaxInputs
  BY BoundAssumption, ProducedBy DEF TypeOK
<1>1. ASSUME NEW texts \in Seq(Texts), NEW text \in Texts
      PROVE  \A n : (\E i \in DOMAIN texts : texts[i].to = n) \/ text.to = n =>
                \E i \in DOMAIN Append(texts, text) : Append(texts, text)[i].to = n
  <2> DEFINE all == Append(texts, text)
  <2> HIDE DEF Texts
  <2>1. /\ DOMAIN all = DOMAIN texts \cup {Len(texts) + 1} /\ all[Len(texts) + 1] = text
        /\ \A i \in DOMAIN texts : all[i] = texts[i]
    OBVIOUS
  <2> HIDE DEF all
  <2>2. \A n : (\E i \in DOMAIN texts : texts[i].to = n) \/ text.to = n =>
                \E i \in DOMAIN all : all[i].to = n
    BY <2>1
  <2> QED
    BY <2>2 DEF all
<1>2. CASE Greet
  <2>1. PICK text \in Texts : Put(text)
    BY <1>0, <1>2, TextTyped DEF Greet
  <2>2. Produced' = Append(Produced, text) /\ UNCHANGED <<inputs, serving, entered>>
    BY <1>2, <2>1, ProducedBy DEF Greet
  <2>5. \A n : (\E i \in DOMAIN Produced : Produced[i].to = n) \/ text.to = n =>
               \E i \in DOMAIN Produced' : Produced'[i].to = n
    <3>1. \A n : (\E i \in DOMAIN Produced : Produced[i].to = n) \/ text.to = n =>
             \E i \in DOMAIN Append(Produced, text) : Append(Produced, text)[i].to = n
      BY <1>0, <1>1, Zenon
    <3> QED
      BY <2>2, <3>1, Zenon
  <2>3. InputsKept'
    BY <2>2, <2>5, Zenon DEF KeptInv, InputsKept
  <2>4. serving' = 0
    BY <1>2 DEF Greet, KeptInv
  <2> QED
    BY <2>3, <2>4 DEF KeptInv
<1>3. CASE GetInput
  <2>1. Produced' = Produced /\ entered' = entered
    BY <1>3 DEF GetInput, Produced
  <2>2. \A n \in Nat : (\E i \in DOMAIN inputs : inputs[i] = n) =>
          \/ \E i \in DOMAIN inputs' : inputs'[i] = n
          \/ serving' = n
    <3>1. CASE inputs = <<>>
      BY <3>1
    <3>2. CASE inputs # <<>>
      <4>1. serving' = Head(inputs) /\ inputs' = Tail(inputs)
        BY <1>3, <3>2 DEF GetInput
      <4>2. \A i \in DOMAIN inputs : i = 1 \/ (i - 1 \in DOMAIN Tail(inputs) /\ Tail(inputs)[i - 1] = inputs[i])
        <5> HIDE DEF InputIds
        <5> QED
          BY <1>0, <3>2
      <4>3. Head(inputs) = inputs[1]
        BY <1>0, <3>2
      <4> QED
        BY <4>1, <4>2, <4>3
    <3> QED
      BY <3>1, <3>2
  <2>3. serving = 0 /\ (bg' # "turn" => serving' = 0)
    BY <1>3 DEF GetInput, KeptInv
  <2> QED
    BY <1>0, <2>1, <2>2, <2>3 DEF KeptInv, InputsKept
<1>4. CASE ProcessTurn
  <2>1. PICK text \in Texts : Put(text) /\ text.to = serving
    BY <1>0, <1>4, TextTyped, Zenon DEF ProcessTurn
  <2>2. Produced' = Append(Produced, text) /\ inputs' = inputs /\ entered' = entered /\ serving' = 0
    BY <1>4, <2>1, ProducedBy DEF ProcessTurn
  <2>5. \A n : (\E i \in DOMAIN Produced : Produced[i].to = n) \/ text.to = n =>
               \E i \in DOMAIN Produced' : Produced'[i].to = n
    <3>1. \A n : (\E i \in DOMAIN Produced : Produced[i].to = n) \/ text.to = n =>
             \E i \in DOMAIN Append(Produced, text) : Append(Produced, text)[i].to = n
      BY <1>0, <1>1, Zenon
    <3> QED
      BY <2>2, <3>1, Zenon
  <2>3. InputsKept'
    BY <2>1, <2>2, <2>5, Zenon DEF KeptInv, InputsKept
  <2> QED
    BY <2>2, <2>3 DEF KeptInv
<1>5. CASE EnterInput
  <2>1. /\ Produced' = Produced /\ serving' = serving /\ bg' = bg
        /\ entered' = entered + 1 /\ inputs' = Append(inputs, entered + 1)
    BY <1>5 DEF EnterInput, Produced, bgVars
  <2>2. \A n : (\E i \in DOMAIN inputs : inputs[i] = n) \/ n = entered + 1 =>
               \E i \in DOMAIN inputs' : inputs'[i] = n
    <3> HIDE DEF InputIds
    <3>1. /\ DOMAIN inputs' = DOMAIN inputs \cup {Len(inputs) + 1}
          /\ inputs'[Len(inputs) + 1] = entered + 1
          /\ \A i \in DOMAIN inputs : inputs'[i] = inputs[i]
      <4>1. entered + 1 \in InputIds
        BY <1>0, <1>5, BoundAssumption DEF EnterInput, InputIds, TypeOK
      <4> QED
        BY <1>0, <2>1, <4>1
    <3> QED
      BY <3>1
  <2>3. \A n \in 1..entered' : n \in 1..entered \/ n = entered + 1
    BY <1>0, <2>1
  <2> QED
    BY <2>1, <2>2, <2>3, Zenon DEF KeptInv, InputsKept
<1>6. CASE Display
  <2>1. Produced' = Produced /\ UNCHANGED <<inputs, entered, serving, bg>>
    BY <1>6, ProducedBy DEF Display, bgVars
  <2> QED
    BY <2>1 DEF KeptInv, InputsKept
<1>7. CASE UNCHANGED <<inputs, responses, displayed, entered, serving>>
  <2>1. bg' = bg \/ bg # "turn" \/ serving' = 0
    BY <1>7 DEF Next, BgStep, Greet, CheckEvent, GetInput, ProcessTurn, StopAfterAuthError, MainStep,
       Poll, Display, QuitByOther, JoinThreads, Exit, EnterInput, CallerStep, HandlerCheck,
       HandlerMark, DoneCheck, DoneSet, CloseGui, Summarise, CloseDb, ClickMenu, TrayReturn,
       ConsoleEvent, EndedByWindows, Exited, vars, bgVars
  <2> QED
    BY <1>7, <2>1 DEF KeptInv, InputsKept, Produced
<1> QED
  BY <1>2, <1>3, <1>4, <1>5, <1>6, <1>7, QueuesEffect

\* No input is lost (InputsKept), for any number of inputs: one that has no text yet is
\* still waiting or being served.
THEOREM NoInputLost == Spec => []InputsKept
<1>1. Init => KeptInv
  BY DEF Init, KeptInv, InputsKept
<1> QED
  BY <1>1, KeptStep, ThreadTypes, PTL DEF Spec, KeptInv

-----------------------------------------------------------------------------
(* The application ends.                                                   *)

\* How many steps a caller of the shutdown sequence has before it at most; one that
\* has not begun, all of them.
PlaceLeft ==
  [l \in Places |->
     CASE l = "out" -> 9 [] l = "handler" -> 8 [] l = "mark" -> 7 [] l = "check" -> 6 [] l = "set" -> 5
       [] l = "event" -> 4 [] l = "summary" -> 3 [] l = "close" -> 2 [] l = "returned" -> 1
       [] l = "ended" -> 0]

\* The same of the main thread and of the background thread once shutdown_event is
\* set; the text that the latter may still produce has to be shown.
MainLeft ==
  CASE main = "drain" -> 4 [] main = "wait" -> 3 [] main = "join" -> 2 [] main = "atexit" -> 1
    [] main = "exited" -> 0
BgLeft ==
  CASE bg = "get" -> 4 [] bg \in {"greet", "turn"} -> 3 [] bg \in {"loop", "auth"} -> 1
    [] bg = "stopped" -> 0

Pending ==
  MainLeft + BgLeft + Len(responses) + (MaxInputs - entered)
    + (PlaceLeft[pc["tray"]] + PlaceLeft[pc["ctrl"]] + PlaceLeft[pc["main"]])

\* Once shutdown_event is set every step, of whatever thread, user or system, brings
\* the end nearer: no poll, no guard and no late answer starts anything anew.
WindsDown == [][shutdownEvent => Pending' < Pending]_vars

\* When the menu entry has returned, the event is set or a thread is about to set it;
\* and while the process lives after the entry was chosen, the main thread has a
\* step, or waits for the thread of the icon, which has one.
MenuIsHeard ==
  /\ pc["tray"] \in {"returned", "ended"} => shutdownEvent \/ \E c \in Callers : pc[c] = "event"
  /\ main # "exited" /\ pc["tray"] # "out" =>
       \/ main \in {"wait", "drain"}
       \/ main = "join" /\ ~TrayRuns
       \/ main = "join" /\ pc["tray"] \in {"check", "set", "event", "summary", "close", "returned"}
       \/ main = "atexit" /\ pc["main"] \notin {"out", "ended"}

\* With it: where the event comes from, and where the main thread and the tray thread
\* can be.
HeardInv ==
  /\ done => shutdownEvent \/ \E c \in Callers : pc[c] = "event"
  /\ pc["tray"] \notin {"out", "check", "set"} => done
  /\ pc["tray"] \notin {"handler", "mark"}
  /\ main \notin {"atexit", "exited"} => pc["main"] = "out"
  /\ main = "atexit" => pc["main"] # "out"
  /\ pc["main"] # "ended"

\* Each place of a caller has its number of steps.
LEMMA PlaceLeftIs ==
  /\ \A l \in Places : PlaceLeft[l] \in 0..9
  /\ PlaceLeft["out"] = 9 /\ PlaceLeft["handler"] = 8 /\ PlaceLeft["mark"] = 7
  /\ PlaceLeft["check"] = 6 /\ PlaceLeft["set"] = 5 /\ PlaceLeft["event"] = 4
  /\ PlaceLeft["summary"] = 3 /\ PlaceLeft["close"] = 2 /\ PlaceLeft["returned"] = 1
  /\ PlaceLeft["ended"] = 0
BY DEF PlaceLeft, Places

\* Every step keeps it: _done is set by a caller that sets the event next.
LEMMA HeardStep ==
  ASSUME TypeOK, HeardInv, [Next]_vars
  PROVE  HeardInv'
<1>0. pc \in [Callers -> Places]
  BY DEF TypeOK, Places
<1>1. CASE BgStep \/ Poll \/ Display \/ QuitByOther \/ EnterInput \/ Exited \/ UNCHANGED vars
  <2>1. UNCHANGED <<done, pc>>
    BY <1>1, Zenon DEF BgStep, Greet, CheckEvent, GetInput, ProcessTurn, StopAfterAuthError, Poll, Display,
       QuitByOther, EnterInput, Exited, vars, guards
  <2>3. shutdownEvent' = shutdownEvent \/ shutdownEvent' = TRUE
    BY <1>1, Zenon DEF BgStep, Greet, CheckEvent, GetInput, ProcessTurn, StopAfterAuthError, Poll, Display,
       QuitByOther, EnterInput, Exited, vars
  <2>2. main' = main \/ (main \notin {"atexit", "exited"} /\ main' \notin {"atexit", "exited"})
    BY <1>1 DEF BgStep, Greet, CheckEvent, GetInput, ProcessTurn, StopAfterAuthError, Poll, Display,
       QuitByOther, EnterInput, Exited, vars
  <2> QED
    BY <2>1, <2>2, <2>3, Zenon DEF HeardInv
<1>2. CASE JoinThreads
  BY <1>0, <1>2 DEF HeardInv, JoinThreads, guards, Callers
<1>3. CASE Exit \/ EndedByWindows
  BY <1>3 DEF HeardInv, Exit, EndedByWindows, guards
<1>4. ASSUME NEW c \in Callers, CallerStep(c) PROVE HeardInv'
  <2>1. CASE HandlerCheck(c) \/ HandlerMark(c)
    BY <1>0, <2>1 DEF HeardInv, HandlerCheck, HandlerMark, MoveTo, Callers, guards
  <2>2. CASE DoneCheck(c)
    BY <1>0, <2>2 DEF HeardInv, DoneCheck, MoveTo, Callers, guards
  <2>3. CASE DoneSet(c)
    BY <1>0, <2>3 DEF HeardInv, DoneSet, MoveTo, Callers
  <2>4. CASE CloseGui(c)
    BY <1>0, <2>4 DEF HeardInv, CloseGui, MoveTo, Callers, guards
  <2>5. CASE Summarise(c) \/ CloseDb(c)
    BY <1>0, <2>5 DEF HeardInv, Summarise, CloseDb, MoveTo, Callers, guards
  <2> QED
    BY <1>4, <2>1, <2>2, <2>3, <2>4, <2>5 DEF CallerStep
<1>5. CASE ClickMenu \/ TrayReturn \/ ConsoleEvent
  BY <1>0, <1>5 DEF HeardInv, ClickMenu, TrayReturn, ConsoleEvent, MoveTo, Callers, guards
<1> QED
  BY <1>1, <1>2, <1>3, <1>4, <1>5, Zenon DEF Next, MainStep

\* A menu entry that ends the application is heard (MenuIsHeard): the safety part of
\* MenuEndsProcess, that no thread waits for one that has nothing to do.
THEOREM MenuHeard == Spec => []MenuIsHeard
<1>1. Init => HeardInv
  BY DEF Init, HeardInv, Callers
<1>2. TypeOK /\ HeardInv => MenuIsHeard
  <2> SUFFICES ASSUME TypeOK, HeardInv PROVE MenuIsHeard
    OBVIOUS
  <2>1. pc["tray"] \in Places /\ main \in {"wait", "drain", "join", "atexit", "exited"}
    BY DEF TypeOK, Callers, Places
  <2> QED
    BY <2>1 DEF HeardInv, MenuIsHeard, TrayRuns, Places
<1> QED
  BY <1>1, <1>2, HeardStep, ThreadTypes, PTL DEF Spec

\* A sum shrinks with one of its parts.
LEMMA Shrinks ==
  ASSUME NEW a \in Nat, NEW b \in Nat, NEW p \in Nat, NEW e \in Nat, NEW s \in Nat,
         NEW a1 \in Nat, NEW b1 \in Nat, NEW p1 \in Nat, NEW e1 \in Nat, NEW s1 \in Nat,
         \/ a1 + b1 + p1 < a + b + p /\ e1 = e /\ s1 = s
         \/ a1 + b1 + p1 = a + b + p /\ e1 < e /\ s1 = s
         \/ a1 + b1 + p1 <= a + b + p /\ e1 = e /\ s1 < s
  PROVE  a1 + b1 + p1 + e1 + s1 < a + b + p + e + s
OBVIOUS

\* After shutdown_event is set only so many steps are left as Pending says (WindsDown),
\* for any number of inputs and texts that wait; with MenuIsHeard this is why
\* MenuEndsProcess holds.
THEOREM ShutdownWindsDown == Spec => [](Pending \in Nat) /\ WindsDown
<1> DEFINE Sum(q) == PlaceLeft[q["tray"]] + PlaceLeft[q["ctrl"]] + PlaceLeft[q["main"]]
<1>0. ASSUME NEW q \in [Callers -> Places]
      PROVE  Sum(q) \in Nat /\ \A c \in Callers : PlaceLeft[q[c]] \in 0..9
  <2>1. \A c \in Callers : PlaceLeft[q[c]] \in 0..9
    BY PlaceLeftIs
  <2> QED
    BY <2>1 DEF Callers
<1>1. ASSUME TypeOK
      PROVE  /\ MainLeft \in 0..4 /\ BgLeft \in 0..4 /\ Len(responses) \in Nat
             /\ MaxInputs - entered \in Nat /\ Sum(pc) \in Nat
  <2>1. MainLeft \in 0..4 /\ BgLeft \in 0..4 /\ pc \in [Callers -> Places]
    BY <1>1 DEF TypeOK, MainLeft, BgLeft, Places
  <2>2. Len(responses) \in Nat /\ MaxInputs - entered \in Nat
    BY <1>1, BoundAssumption DEF TypeOK
  <2> QED
    BY <1>0, <2>1, <2>2
<1>2. ASSUME TypeOK, HeardInv, TypeOK', Next, shutdownEvent
      PROVE  Pending' < Pending \/ UNCHANGED vars
  <2> DEFINE p == Len(responses)
             e == MaxInputs - entered
             s == Sum(pc)
  <2>0. /\ MainLeft \in 0..4 /\ BgLeft \in 0..4 /\ p \in Nat /\ e \in Nat /\ s \in Nat
        /\ MainLeft' \in 0..4 /\ BgLeft' \in 0..4 /\ p' \in Nat /\ e' \in Nat /\ s' \in Nat
    <3>1. MainLeft' \in 0..4 /\ BgLeft' \in 0..4 /\ pc' \in [Callers -> Places]
      BY <1>2 DEF TypeOK, MainLeft, BgLeft, Places
    <3>2. p' \in Nat /\ e' \in Nat
      <4>1. responses' \in Seq(Texts) /\ entered' \in 0..MaxInputs
        BY <1>2 DEF TypeOK
      <4>2. MaxInputs - entered' \in Nat
        <5>1. \A n \in 0..MaxInputs : MaxInputs - n \in Nat
          BY BoundAssumption
        <5> QED
          BY <4>1, <5>1, Zenon
      <4> HIDE DEF Texts
      <4>3. Len(responses') \in Nat
        BY <4>1
      <4> QED
        BY <4>2, <4>3
    <3>3. s' = Sum(pc')
      OBVIOUS
    <3> QED
      BY <1>0, <1>1, <1>2, <3>1, <3>2, <3>3
  <2>1. Pending = MainLeft + BgLeft + p + e + s /\ Pending' = MainLeft' + BgLeft' + p' + e' + s'
    BY DEF Pending
  <2>2. ASSUME NEW c \in Callers, NEW l \in Places, MoveTo(c, l), PlaceLeft[l] < PlaceLeft[pc[c]]
        PROVE  s' < s
    <3>1. /\ pc' \in [Callers -> Places] /\ pc'[c] = l /\ \A b \in Callers \ {c} : pc'[b] = pc[b]
          /\ \A b \in Callers : PlaceLeft[pc[b]] \in 0..9
          /\ PlaceLeft[l] \in 0..9
      BY <1>0, <1>2, <2>2, PlaceLeftIs DEF MoveTo, TypeOK, Places
    <3>2. s' = PlaceLeft[pc'["tray"]] + PlaceLeft[pc'["ctrl"]] + PlaceLeft[pc'["main"]]
      OBVIOUS
    <3> HIDE DEF Places
    <3>3. CASE c = "tray"
      BY <2>2, <3>1, <3>2, <3>3 DEF Callers
    <3>4. CASE c = "ctrl"
      BY <2>2, <3>1, <3>2, <3>4 DEF Callers
    <3>5. CASE c = "main"
      BY <2>2, <3>1, <3>2, <3>5 DEF Callers
    <3> QED
      BY <3>3, <3>4, <3>5 DEF Callers
  <2>3. UNCHANGED pc => s' = s
    OBVIOUS
  <2>4. UNCHANGED main => MainLeft' = MainLeft
    BY DEF MainLeft
  <2>5. UNCHANGED bg => BgLeft' = BgLeft
    BY DEF BgLeft
  <2>6. ASSUME NEW text, Put(text) PROVE p' = p + 1
    BY <1>2, <2>6 DEF Put, TypeOK
  <2>15. (UNCHANGED responses => p' = p) /\ (UNCHANGED entered => e' = e)
    OBVIOUS
  <2>16. /\ MainLeft \in Nat /\ BgLeft \in Nat /\ MainLeft' \in Nat /\ BgLeft' \in Nat
    BY <2>0
  <2>18. ASSUME \/ MainLeft' + BgLeft' + p' < MainLeft + BgLeft + p /\ e' = e /\ s' = s
                \/ MainLeft' + BgLeft' + p' = MainLeft + BgLeft + p /\ e' < e /\ s' = s
                \/ MainLeft' + BgLeft' + p' <= MainLeft + BgLeft + p /\ e' = e /\ s' < s
         PROVE  Pending' < Pending
    BY <2>0, <2>1, <2>16, <2>18, Shrinks, Zenon
  <2>7. CASE Greet \/ ProcessTurn
    <3>1. PICK text : Put(text)
      BY <2>7, Zenon DEF Greet, ProcessTurn
    <3>2. BgLeft = 3 /\ BgLeft' = 1 /\ UNCHANGED <<main, pc, entered>>
      BY <2>7 DEF Greet, ProcessTurn, BgLeft
    <3>3. MainLeft' = MainLeft /\ p' = p + 1 /\ e' = e /\ s' = s
      BY <2>3, <2>4, <2>6, <2>15, <3>1, <3>2, Zenon
    <3> QED
      BY <2>0, <2>16, <2>18, <3>2, <3>3
  <2>8. CASE CheckEvent \/ GetInput \/ StopAfterAuthError
    <3>1. \/ bg = "loop" /\ bg' = "stopped"
          \/ bg = "get" /\ bg' \in {"turn", "loop"}
          \/ bg = "auth" /\ bg' = "stopped"
      BY <1>2, <2>8 DEF CheckEvent, GetInput, StopAfterAuthError
    <3>2. BgLeft' < BgLeft
      BY <3>1 DEF BgLeft
    <3>3. UNCHANGED <<main, pc, entered, responses>>
      BY <2>8, Zenon DEF CheckEvent, GetInput, StopAfterAuthError, queues
    <3>4. MainLeft' = MainLeft /\ p' = p /\ e' = e /\ s' = s
      BY <2>3, <2>4, <2>15, <3>3, Zenon
    <3> QED
      BY <2>0, <2>16, <2>18, <3>2, <3>4
  <2>9. CASE Poll \/ QuitByOther \/ Exit \/ EndedByWindows
    <3>1. \/ main = "wait" /\ main' = "join"
          \/ main \in {"wait", "drain", "join", "atexit"} /\ main' = "exited"
      BY <1>2, <2>9 DEF Poll, QuitByOther, Exit, EndedByWindows, Alive, TypeOK
    <3>2. MainLeft' < MainLeft
      BY <3>1 DEF MainLeft
    <3>3. UNCHANGED <<bg, pc, entered, responses>>
      BY <2>9, Zenon DEF Poll, QuitByOther, Exit, EndedByWindows, queues, bgVars
    <3>4. BgLeft' = BgLeft /\ p' = p /\ e' = e /\ s' = s
      BY <2>3, <2>5, <2>15, <3>3, Zenon
    <3> QED
      BY <2>0, <2>16, <2>18, <3>2, <3>4
  <2>10. CASE Display
    <3>1. UNCHANGED <<bg, pc, entered>>
      BY <2>10 DEF Display, bgVars
    <3>2. \/ p' < p /\ MainLeft' = MainLeft
          \/ p' = p /\ MainLeft' < MainLeft
      <4>1. CASE responses # <<>>
        <5>1. p' < p
          BY <1>2, <2>10, <4>1 DEF Display, TypeOK, p
        <5> QED
          BY <2>4, <2>10, <4>1, <5>1 DEF Display
      <4>2. CASE responses = <<>>
        BY <2>10, <2>15, <4>2 DEF Display, MainLeft
      <4> QED
        BY <4>1, <4>2
    <3>3. BgLeft' = BgLeft /\ e' = e /\ s' = s
      BY <2>3, <2>5, <2>15, <3>1, Zenon
    <3> QED
      BY <2>0, <2>16, <2>18, <3>2, <3>3
  <2>11. CASE JoinThreads
    <3>1. /\ MoveTo("main", "handler") /\ pc["main"] = "out" /\ MainLeft' < MainLeft
          /\ UNCHANGED <<bg, entered, responses>>
      BY <1>2, <2>11 DEF JoinThreads, MoveTo, HeardInv, MainLeft, queues, bgVars
    <3>2. s' < s
      BY <2>2, <3>1, PlaceLeftIs DEF Callers, Places
    <3>3. BgLeft' = BgLeft /\ p' = p /\ e' = e
      BY <2>5, <2>15, <3>1, Zenon
    <3> QED
      BY <2>0, <2>16, <2>18, <3>1, <3>2, <3>3
  <2>12. CASE EnterInput
    <3>1. e' = e - 1 /\ UNCHANGED <<bg, pc, main, responses>>
      BY <1>2, <2>12, BoundAssumption DEF EnterInput, bgVars, TypeOK, e
    <3>2. MainLeft' = MainLeft /\ BgLeft' = BgLeft /\ p' = p /\ s' = s
      BY <2>3, <2>4, <2>5, <2>15, <3>1, Zenon
    <3> QED
      BY <2>0, <2>16, <2>18, <3>1, <3>2
  <2>13. ASSUME NEW c \in Callers, CallerStep(c) PROVE Pending' < Pending
    <3>1. \E l \in Places : MoveTo(c, l) /\ PlaceLeft[l] < PlaceLeft[pc[c]]
      BY <2>13, PlaceLeftIs DEF CallerStep, HandlerCheck, HandlerMark, DoneCheck, DoneSet, CloseGui,
         Summarise, CloseDb, Places
    <3>2. s' < s
      BY <2>2, <3>1
    <3>3. UNCHANGED <<bg, main, entered, responses>>
      BY <2>13, Zenon DEF CallerStep, HandlerCheck, HandlerMark, DoneCheck, DoneSet, CloseGui,
         Summarise, CloseDb, queues, bgVars
    <3>4. MainLeft' = MainLeft /\ BgLeft' = BgLeft /\ p' = p /\ e' = e
      BY <2>4, <2>5, <2>15, <3>3, Zenon
    <3> QED
      BY <2>0, <2>16, <2>18, <3>2, <3>4
  <2>14. CASE ClickMenu \/ TrayReturn \/ ConsoleEvent
    <3>1. \E c \in Callers, l \in Places : MoveTo(c, l) /\ PlaceLeft[l] < PlaceLeft[pc[c]]
      BY <2>14, PlaceLeftIs DEF ClickMenu, TrayReturn, ConsoleEvent, Callers, Places
    <3>2. s' < s
      BY <2>2, <3>1
    <3>3. UNCHANGED <<bg, main, entered, responses>>
      BY <2>14, Zenon DEF ClickMenu, TrayReturn, ConsoleEvent, queues, bgVars
    <3>4. MainLeft' = MainLeft /\ BgLeft' = BgLeft /\ p' = p /\ e' = e
      BY <2>4, <2>5, <2>15, <3>3, Zenon
    <3> QED
      BY <2>0, <2>16, <2>18, <3>2, <3>4
  <2> QED
    BY <1>2, <2>7, <2>8, <2>9, <2>10, <2>11, <2>12, <2>13, <2>14, Zenon DEF Next, BgStep, MainStep, Exited
<1>3. TypeOK => Pending \in Nat
  BY <1>1 DEF Pending
<1>4. TypeOK /\ HeardInv /\ TypeOK' /\ [Next]_vars => [shutdownEvent => Pending' < Pending]_vars
  BY <1>2, Zenon
<1>5. Init => HeardInv
  BY DEF Init, HeardInv, Callers
<1> QED
  BY <1>3, <1>4, <1>5, HeardStep, ThreadTypes, PTL DEF Spec, WindsDown
=============================================================================
