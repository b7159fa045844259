------------------------- MODULE DesireWorkerProofs -------------------------
(***************************************************************************)
(* Proofs about DesireWorker, for every number of Timer threads, every     *)
(* bound and every configuration the assumptions of DesireWorker allow.    *)
(***************************************************************************)
EXTENDS DesireWorker, FiniteSetTheorems, TLAPS

-----------------------------------------------------------------------------
(* Type correctness.                                                       *)

\* A snapshot taken by update_desires is well formed.
LEMMA ExceedingTyped ==
  ASSUME NEW now, NEW idle, NEW pending, NEW observations
  PROVE  Exceeding(now, idle, pending, observations) \in SUBSET DesireTypes
BY DEF Exceeding

\* The variables of the worker keep their types, whatever the timers, the
\* callers of start, stop and the resets, and the clock do.
THEOREM TypeCorrect == Spec => []TypeOK
<1>1. Init => TypeOK
  <2> SUFFICES ASSUME Init PROVE TypeOK
    OBVIOUS
  <2>1. active \in [DesireTypes -> BOOLEAN] /\ announced \in [DesireTypes -> BOOLEAN]
    BY Zenon DEF Init
  <2>2. seen \in [Timers -> Snapshot]
    BY DEF Init, Snapshot, NothingSeen
  <2>3. pc \in [Timers -> States] /\ todo \in [Timers -> SUBSET DesireTypes]
    BY DEF Init, States
  <2>4. running \in BOOLEAN /\ overtaken \in BOOLEAN /\ counterFailed \in BOOLEAN
    BY Zenon DEF Init
  <2> QED
    BY <2>1, <2>2, <2>3, <2>4, ClockAssumption DEF Init, TypeOK, States
<1>2. TypeOK /\ [Next]_vars => TypeOK'
  <2> SUFFICES ASSUME TypeOK, [Next]_vars PROVE TypeOK'
    OBVIOUS
  <2> USE ClockAssumption DEF TypeOK
  <2>1. ASSUME NEW t \in Timers, Start(t) PROVE TypeOK'
    <3>1. running' \in BOOLEAN /\ overtaken' \in BOOLEAN /\ counterFailed' \in BOOLEAN
      BY <2>1, Zenon DEF Start
    <3> QED
      BY <2>1, <3>1 DEF Start, ScheduleNext, States, time, flags
  <2>2. CASE Stop
    <3>1. pc' \in [Timers -> States]
      BY <2>2 DEF Stop, States
    <3>2. running' \in BOOLEAN
      BY <2>2, Zenon DEF Stop
    <3> QED
      BY <2>2, <3>1, <3>2 DEF Stop, time, flags, history
  <2>3. ASSUME NEW t \in Timers, FireAndRead(t) PROVE TypeOK'
    <3>1. PICK pending \in PendingCounts, observations \in ObservationCounts :
            seen' = [seen EXCEPT ![t] =
                       [now |-> clock,
                        exceeded |-> Exceeding(clock, clock - lastInput,
                                               pending, observations)]]
      BY <2>3 DEF FireAndRead
    <3>2. seen' \in [Timers -> Snapshot]
      BY <3>1, ExceedingTyped DEF Snapshot
    <3> QED
      BY <2>3, <3>2 DEF FireAndRead, States, time, flags, control, history
  <2>4. ASSUME NEW t \in Timers, FireAndRaise(t) PROVE TypeOK'
    <3>1. counterFailed' \in BOOLEAN
      BY <2>4, Zenon DEF FireAndRaise
    <3> QED
      BY <2>4, <3>1 DEF FireAndRaise, States, time, flags, control
  <2>5. ASSUME NEW t \in Timers, Evaluate(t) PROVE TypeOK'
    <3>1. NewlyExceeded(t) \in SUBSET DesireTypes
      BY DEF NewlyExceeded, Snapshot
    <3>2. restNotified' \in Int
      BY <2>5 DEF Evaluate, Snapshot
    <3>3. active' \in [DesireTypes -> BOOLEAN] /\ announced' \in [DesireTypes -> BOOLEAN]
      BY <2>5, Zenon DEF Evaluate
    <3>4. seen' \in [Timers -> Snapshot]
      BY <2>5 DEF Evaluate, Snapshot, NothingSeen
    <3> QED
      BY <2>5, <3>1, <3>2, <3>3, <3>4 DEF Evaluate, States, control, history
  <2>6. ASSUME NEW t \in Timers, NEW d \in DesireTypes, Notify(t, d) PROVE TypeOK'
    BY <2>6 DEF Notify, States, time, control, history
  <2>7. ASSUME NEW t \in Timers, Reschedule(t) PROVE TypeOK'
    BY <2>7 DEF Reschedule, ScheduleNext, States, time, flags, history
  <2>8. CASE ResetAll
    BY <2>8 DEF ResetAll, time, control, threads, history
  <2>9. ASSUME NEW d \in DesireTypes, Reset(d) PROVE TypeOK'
    BY <2>9 DEF Reset, time, control, threads, history
  <2>10. CASE NotifyUserInput
    BY <2>10 DEF NotifyUserInput, flags, control, threads, history
  <2>11. CASE Tick
    BY <2>11 DEF Tick, flags, control, threads, history
  <2>12. CASE UNCHANGED vars
    BY <2>12 DEF vars
  <2> QED
    BY <2>1, <2>2, <2>3, <2>4, <2>5, <2>6, <2>7, <2>8, <2>9, <2>10, <2>11, <2>12
    DEF Next, TimerStep
<1> QED
  BY <1>1, <1>2, PTL DEF Spec

-----------------------------------------------------------------------------
(* One chain of Timers.                                                    *)

\* The thread of t will start a next Timer unless stop() or start() is called.
Continues(t) ==
  \/ pc[t] \in {"armed", "read"}
  \/ pc[t] \in {"notify", "resched"} /\ myGeneration[t] = generation

\* While the worker runs and no update was overtaken, at most one thread continues
\* the chain; a stopped worker holds no Timer.
ChainInv ==
  /\ ArmedIsOwned
  /\ running /\ ~overtaken =>
       \A t, u \in Timers : Continues(t) /\ Continues(u) => t = u
  /\ ~running => timer = NoTimer
  /\ \A t \in Timers : myGeneration[t] <= generation

\* As long as start() was never called while an update was between the expiry of
\* its Timer and its lock section, every waiting Timer is the one stop() can
\* cancel: the generation counter keeps a thread stopped during its callbacks from
\* starting a second chain (desire_worker.py:295-331, 375-412).
THEOREM OneChain == Spec => []ArmedIsOwned
<1>1. Init => ChainInv
  BY DEF Init, ChainInv, ArmedIsOwned, Continues
<1>2. TypeOK /\ ChainInv /\ [Next]_vars => ChainInv'
  <2> SUFFICES ASSUME TypeOK, ChainInv, [Next]_vars PROVE ChainInv'
    OBVIOUS
  <2> USE ClockAssumption, TimersAssumption DEF TypeOK, ChainInv, ArmedIsOwned, Continues
  <2>1. ASSUME NEW t \in Timers, Start(t) PROVE ChainInv'
    <3>1. ~overtaken' => ~overtaken /\ \A u \in Timers : pc[u] # "read"
      BY <2>1, Zenon DEF Start
    <3>2. ~overtaken' => \A u \in Timers : pc[u] \notin {"armed", "read"}
      BY <2>1, <3>1 DEF Start
    <3>3. running' /\ timer' = t /\ pc' = [pc EXCEPT ![t] = "armed"]
      BY <2>1 DEF Start, ScheduleNext
    <3>4. \A u \in Timers : myGeneration'[u] # generation' /\ myGeneration'[u] <= generation'
      BY <2>1 DEF Start
    <3>5. ~overtaken' => \A u \in Timers : Continues(u)' => u = t
      BY <3>2, <3>3, <3>4
    <3>6. ~overtaken' => \A u \in Timers : pc'[u] = "armed" => u = t
      BY <3>2, <3>3
    <3>7. ArmedIsOwned'
      BY <3>3, <3>6
    <3> QED
      BY <3>3, <3>4, <3>5, <3>7, TimersAssumption
  <2>2. CASE Stop
    BY <2>2 DEF Stop, time, flags, States, history
  <2>3. ASSUME NEW t \in Timers, FireAndRead(t) PROVE ChainInv'
    BY <2>3 DEF FireAndRead, time, flags, control, history
  <2>4. ASSUME NEW t \in Timers, FireAndRaise(t) PROVE ChainInv'
    BY <2>4 DEF FireAndRaise, time, flags, control, history
  <2>5. ASSUME NEW t \in Timers, Evaluate(t) PROVE ChainInv'
    BY <2>5 DEF Evaluate, control, history
  <2>6. ASSUME NEW t \in Timers, NEW d \in DesireTypes, Notify(t, d) PROVE ChainInv'
    BY <2>6 DEF Notify, time, control, history
  <2>7. ASSUME NEW t \in Timers, Reschedule(t) PROVE ChainInv'
    BY <2>7 DEF Reschedule, ScheduleNext, time, flags, history
  <2>8. CASE ResetAll
    BY <2>8 DEF ResetAll, time, control, threads, history
  <2>9. ASSUME NEW d \in DesireTypes, Reset(d) PROVE ChainInv'
    BY <2>9 DEF Reset, time, control, threads, history
  <2>10. CASE NotifyUserInput
    BY <2>10 DEF NotifyUserInput, flags, control, threads, history
  <2>11. CASE Tick
    BY <2>11 DEF Tick, flags, control, threads, history
  <2>12. CASE UNCHANGED vars
    BY <2>12 DEF vars
  <2> QED
    BY <2>1, <2>2, <2>3, <2>4, <2>5, <2>6, <2>7, <2>8, <2>9, <2>10, <2>11, <2>12
    DEF Next, TimerStep
<1>3. ChainInv => ArmedIsOwned
  BY DEF ChainInv
<1> QED
  BY <1>1, <1>2, <1>3, TypeCorrect, PTL DEF Spec

\* The same, read as the source comments put it: no Timer is scheduled twice,
\* unless a start() has overtaken an update (desire_worker.py:287-288).
COROLLARY NoDoubleScheduling == Spec => [](overtaken \/ NoDoubleArm)
<1>1. ArmedIsOwned => overtaken \/ NoDoubleArm
  BY DEF ArmedIsOwned, NoDoubleArm
<1> QED
  BY <1>1, OneChain, PTL

-----------------------------------------------------------------------------
(* The suppression of rest.                                                *)

\* The time of the last rest notification never goes back, even when the
\* updates of two overlapping chains are applied out of the order of their
\* clock readings (desire_worker.py:386-391).
THEOREM RestMonotone ==
  ASSUME RestSuppress >= 0
  PROVE  Spec => RestNotifiedMonotone
<1>1. TypeOK /\ [Next]_vars => [restNotified' >= restNotified]_restNotified
  <2> SUFFICES ASSUME TypeOK, [Next]_vars PROVE restNotified' >= restNotified
    OBVIOUS
  <2>1. ASSUME NEW t \in Timers, Evaluate(t) PROVE restNotified' >= restNotified
    <3>1. seen[t].now \in Int
      BY DEF TypeOK, Snapshot
    <3>2. "rest" \in NewlyExceeded(t) => seen[t].now - restNotified >= RestSuppress
      BY <3>1, ConfigAssumption DEF NewlyExceeded, Suppressed, TypeOK
    <3> QED
      BY <2>1, <3>1, <3>2, ConfigAssumption DEF Evaluate, TypeOK
  <2>2. ASSUME NEW t \in Timers, Start(t) \/ FireAndRead(t) \/ FireAndRaise(t)
               \/ Reschedule(t) \/ \E d \in DesireTypes : Notify(t, d)
        PROVE  restNotified' = restNotified
    BY <2>2 DEF Start, FireAndRead, FireAndRaise, Reschedule, Notify, time
  <2>3. CASE Stop \/ ResetAll \/ (\E d \in DesireTypes : Reset(d))
             \/ NotifyUserInput \/ Tick \/ UNCHANGED vars
    BY <2>3 DEF Stop, ResetAll, Reset, NotifyUserInput, Tick, time, vars, TypeOK
  <2>4. restNotified \in Int
    BY DEF TypeOK
  <2> QED
    BY <2>1, <2>2, <2>3, <2>4 DEF Next, TimerStep
<1> QED
  BY <1>1, TypeCorrect, PTL DEF Spec, RestNotifiedMonotone

-----------------------------------------------------------------------------
(* The worker implements DesireFlags.                                      *)

\* Only a thread that is making callbacks owes some.
OwesInv == \A t \in Timers : pc[t] # "notify" => todo[t] = {}

\* Callbacks are owed between the two lock sections of update_desires only.
LEMMA OwesOnlyInNotify == Spec => []OwesInv
<1>1. Init => OwesInv
  BY DEF Init, OwesInv
<1>2. TypeOK /\ OwesInv /\ [Next]_vars => OwesInv'
  <2> SUFFICES ASSUME TypeOK, OwesInv, [Next]_vars PROVE OwesInv'
    OBVIOUS
  <2> USE DEF TypeOK, OwesInv
  <2>1. ASSUME NEW t \in Timers, Start(t) \/ FireAndRead(t) \/ FireAndRaise(t)
        PROVE  OwesInv'
    BY <2>1 DEF Start, FireAndRead, FireAndRaise, ScheduleNext
  <2>2. ASSUME NEW t \in Timers, Evaluate(t) PROVE OwesInv'
    BY <2>2 DEF Evaluate
  <2>3. ASSUME NEW t \in Timers, NEW d \in DesireTypes, Notify(t, d) PROVE OwesInv'
    BY <2>3 DEF Notify
  <2>4. ASSUME NEW t \in Timers, Reschedule(t) PROVE OwesInv'
    BY <2>4 DEF Reschedule, ScheduleNext
  <2>5. CASE Stop
    BY <2>5 DEF Stop
  <2>6. CASE ResetAll \/ (\E d \in DesireTypes : Reset(d)) \/ NotifyUserInput
             \/ Tick \/ UNCHANGED vars
    BY <2>6 DEF ResetAll, Reset, NotifyUserInput, Tick, threads, vars
  <2> QED
    BY <2>1, <2>2, <2>3, <2>4, <2>5, <2>6 DEF Next, TimerStep
<1> QED
  BY <1>1, <1>2, TypeCorrect, PTL DEF Spec

\* The set of owed callbacks, as the refinement mapping defines it.
Owed == {p \in Timers \X DesireTypes : p[2] \in todo[p[1]]}

LEMMA OwedPair ==
  ASSUME NEW t \in Timers, NEW d \in DesireTypes
  PROVE  <<t, d>> \in Owed <=> d \in todo[t]
BY DEF Owed

\* A step of the first lock section raises flags that were down.
LEMMA EvaluateRaises ==
  ASSUME TypeOK, OwesInv, NEW t \in Timers, Evaluate(t)
  PROVE  \E S \in SUBSET DesireTypes : Flags!Raise(t, S)
<1> PICK S : S = NewlyExceeded(t)
  OBVIOUS
<1>1. S \in SUBSET DesireTypes /\ \A d \in S : ~active[d]
  BY DEF NewlyExceeded, TypeOK, Snapshot
<1>2. todo[t] = {}
  BY DEF Evaluate, OwesInv
<1>3. \A d \in DesireTypes : <<t, d>> \notin Owed
  BY <1>2, OwedPair
<1>4. todo' = [todo EXCEPT ![t] = S]
  BY DEF Evaluate
<1>5. Owed' = Owed \cup ({t} \X S)
  <2>1. ASSUME NEW u \in Timers, NEW d \in DesireTypes
        PROVE  <<u, d>> \in Owed' <=> <<u, d>> \in Owed \cup ({t} \X S)
    <3>1. CASE u = t
      BY <1>1, <1>2, <1>4, <3>1 DEF Owed, TypeOK
    <3>2. CASE u # t
      BY <1>4, <3>2 DEF Owed, TypeOK
    <3> QED
      BY <3>1, <3>2
  <2>2. Owed' \subseteq Timers \X DesireTypes
        /\ Owed \cup ({t} \X S) \subseteq Timers \X DesireTypes
    BY <1>1 DEF Owed
  <2> QED
    BY <2>1, <2>2
<1>6. active' = [d \in DesireTypes |-> active[d] \/ d \in S]
      /\ announced' = [d \in DesireTypes |-> announced[d] /\ d \notin S]
  BY DEF Evaluate
<1> QED
  BY <1>1, <1>3, <1>5, <1>6, Zenon DEF Flags!Raise, Flags!Idle, Owed

\* A callback is one the thread owed.
LEMMA NotifyAnnounces ==
  ASSUME TypeOK, NEW t \in Timers, NEW d \in DesireTypes, Notify(t, d)
  PROVE  Flags!Announce(t, d)
<1>1. <<t, d>> \in Owed
  BY OwedPair DEF Notify
<1>2. todo' = [todo EXCEPT ![t] = @ \ {d}]
  BY DEF Notify
<1>3. Owed' = Owed \ {<<t, d>>}
  <2>1. ASSUME NEW u \in Timers, NEW e \in DesireTypes
        PROVE  <<u, e>> \in Owed' <=> <<u, e>> \in Owed \ {<<t, d>>}
    <3>1. CASE u = t
      BY <1>2, <3>1 DEF Owed, TypeOK
    <3>2. CASE u # t
      BY <1>2, <3>2 DEF Owed, TypeOK
    <3> QED
      BY <3>1, <3>2
  <2>2. Owed' \subseteq Timers \X DesireTypes /\ Owed \subseteq Timers \X DesireTypes
    BY DEF Owed
  <2> QED
    BY <2>1, <2>2
<1>4. announced' = [announced EXCEPT ![d] = TRUE] /\ active' = active
  BY DEF Notify
<1> QED
  BY <1>1, <1>3, <1>4, Zenon DEF Flags!Announce, Owed

\* The detailed worker implements the plain flags: every step of the timers, of
\* start and stop and of the callers raises flags that were down and owes one
\* callback for each, makes an owed callback, lowers flags, or changes none of
\* them (desire_worker.py:295-455).
THEOREM ImplementsDesireFlags == Spec => ImplementsFlags
<1>1. Init => Flags!Init
  <2> SUFFICES ASSUME Init PROVE Flags!Init
    OBVIOUS
  <2>1. Owed = {}
    BY DEF Init, Owed
  <2> QED
    BY <2>1, Zenon DEF Init, Flags!Init, Owed
<1>2. TypeOK /\ OwesInv /\ [Next]_vars => [Flags!Next]_(Flags!flagVars)
  <2> SUFFICES ASSUME TypeOK, OwesInv, [Next]_vars,
                      ~(UNCHANGED <<active, Owed, announced>>)
               PROVE  Flags!Next
    BY DEF Flags!flagVars, Owed
  <2>1. ASSUME NEW t \in Timers, Start(t) \/ FireAndRead(t) \/ FireAndRaise(t)
                                 \/ Reschedule(t)
        PROVE  FALSE
    BY <2>1 DEF Start, FireAndRead, FireAndRaise, Reschedule, flags, Owed
  <2>2. CASE Stop \/ NotifyUserInput \/ Tick \/ UNCHANGED vars
    BY <2>2 DEF Stop, NotifyUserInput, Tick, flags, threads, vars, Owed
  <2>3. ASSUME NEW t \in Timers, Evaluate(t) PROVE Flags!Next
    BY <2>3, EvaluateRaises DEF Flags!Next
  <2>4. ASSUME NEW t \in Timers, NEW d \in DesireTypes, Notify(t, d) PROVE Flags!Next
    BY <2>4, NotifyAnnounces DEF Flags!Next
  <2>5. CASE ResetAll
    BY <2>5 DEF ResetAll, threads, Flags!Next, Flags!ResetAll, Owed
  <2>6. ASSUME NEW d \in DesireTypes, Reset(d) PROVE Flags!Next
    BY <2>6 DEF Reset, threads, Flags!Next, Flags!Reset, Owed
  <2> QED
    BY <2>1, <2>2, <2>3, <2>4, <2>5, <2>6 DEF Next, TimerStep
<1> QED
  BY <1>1, <1>2, TypeCorrect, OwesOnlyInNotify, PTL
  DEF Spec, ImplementsFlags, Flags!Spec

-----------------------------------------------------------------------------
(* No raised flag is left without its callback.                            *)

\* In every step a flag that is up has been announced since it was raised, or
\* some thread is about to announce it: no desire is muted (desire_worker.py:384-404).
THEOREM NoDesireMuted == Spec => []RaisedIsAnnounced
<1> DEFINE Heard == \A d \in DesireTypes :
                      active[d] => announced[d] \/ \E t \in Timers : d \in todo[t]
<1>1. Heard <=> RaisedIsAnnounced
  BY OwedPair, Zenon DEF RaisedIsAnnounced, Flags!RaisedIsAnnounced, Owed
<1>2. Init => Heard
  BY DEF Init
<1>3. TypeOK /\ OwesInv /\ Heard /\ [Next]_vars => Heard'
  <2> SUFFICES ASSUME TypeOK, OwesInv, Heard, [Next]_vars,
                      NEW d \in DesireTypes, active'[d]
               PROVE  announced'[d] \/ \E t \in Timers : d \in todo'[t]
    OBVIOUS
  <2>1. ASSUME NEW t \in Timers, Evaluate(t)
        PROVE  announced'[d] \/ \E u \in Timers : d \in todo'[u]
    <3>1. CASE d \in NewlyExceeded(t)
      BY <2>1, <3>1 DEF Evaluate, TypeOK
    <3>2. CASE d \notin NewlyExceeded(t)
      <4>1. active[d] /\ (announced[d] => announced'[d])
        BY <2>1, <3>2, Zenon DEF Evaluate, TypeOK
      <4>2. \A u \in Timers : d \in todo[u] => d \in todo'[u]
        BY <2>1 DEF Evaluate, TypeOK, OwesInv
      <4> QED
        BY <4>1, <4>2
    <3> QED
      BY <3>1, <3>2
  <2>2. ASSUME NEW t \in Timers, NEW e \in DesireTypes, Notify(t, e)
        PROVE  announced'[d] \/ \E u \in Timers : d \in todo'[u]
    <3>1. active[d] /\ (announced[d] \/ d = e => announced'[d])
      BY <2>2, Zenon DEF Notify, TypeOK
    <3>2. \A u \in Timers : d # e /\ d \in todo[u] => d \in todo'[u]
      BY <2>2 DEF Notify, TypeOK
    <3> QED
      BY <3>1, <3>2
  <2>3. CASE ResetAll \/ \E e \in DesireTypes : Reset(e)
    BY <2>3 DEF ResetAll, Reset, threads, TypeOK
  <2>4. ASSUME NEW t \in Timers, Start(t) \/ FireAndRead(t) \/ FireAndRaise(t)
                                 \/ Reschedule(t)
        PROVE  announced'[d] \/ \E u \in Timers : d \in todo'[u]
    BY <2>4 DEF Start, FireAndRead, FireAndRaise, Reschedule, flags
  <2>5. CASE Stop \/ NotifyUserInput \/ Tick \/ UNCHANGED vars
    BY <2>5 DEF Stop, NotifyUserInput, Tick, flags, threads, vars
  <2> QED
    BY <2>1, <2>2, <2>3, <2>4, <2>5 DEF Next, TimerStep
<1> HIDE DEF Heard
<1> QED
  BY <1>1, <1>2, <1>3, TypeCorrect, OwesOnlyInNotify, PTL DEF Spec

-----------------------------------------------------------------------------
(* The chain goes on, and ends when it is stopped.                         *)

\* A thread in its callbacks has one to make.
HasCallback == \A t \in Timers : (pc[t] = "notify") <=> (todo[t] # {})

ChainLives == running /\ ~counterFailed => \E t \in Timers : Continues(t)

\* The two facts that liveness rests on: as long as no counter raises, a running
\* worker has a thread that will start the next Timer, and no thread waits in its
\* callbacks without one to make, whatever stops and starts came in between
\* (desire_worker.py:295-331, 375-412).
THEOREM ChainNeverBreaks == Spec => [](ChainLives /\ HasCallback)
<1>1. Init => ChainLives /\ HasCallback
  BY DEF Init, ChainLives, HasCallback
<1>2. TypeOK /\ ChainLives /\ HasCallback /\ [Next]_vars => (ChainLives /\ HasCallback)'
  <2> SUFFICES ASSUME TypeOK, ChainLives, HasCallback, [Next]_vars
               PROVE  ChainLives' /\ HasCallback'
    OBVIOUS
  <2> USE DEF TypeOK, ChainLives, HasCallback, Continues
  <2>1. ASSUME NEW t \in Timers, Start(t) PROVE ChainLives' /\ HasCallback'
    BY <2>1 DEF Start, ScheduleNext
  <2>2. CASE Stop
    BY <2>2 DEF Stop
  <2>3. ASSUME NEW t \in Timers, FireAndRead(t) PROVE ChainLives' /\ HasCallback'
    BY <2>3 DEF FireAndRead, control, history
  <2>4. ASSUME NEW t \in Timers, FireAndRaise(t) PROVE ChainLives' /\ HasCallback'
    BY <2>4 DEF FireAndRaise, control
  <2>5. ASSUME NEW t \in Timers, Evaluate(t) PROVE ChainLives' /\ HasCallback'
    BY <2>5 DEF Evaluate, control, history
  <2>6. ASSUME NEW t \in Timers, NEW d \in DesireTypes, Notify(t, d)
        PROVE  ChainLives' /\ HasCallback'
    BY <2>6 DEF Notify, control, history
  <2>7. ASSUME NEW t \in Timers, Reschedule(t) PROVE ChainLives' /\ HasCallback'
    BY <2>7 DEF Reschedule, ScheduleNext, history
  <2>8. CASE UNCHANGED <<control, threads, history>>
    BY <2>8 DEF control, threads, history
  <2>9. CASE ResetAll \/ (\E d \in DesireTypes : Reset(d)) \/ NotifyUserInput \/ Tick \/ UNCHANGED vars
    BY <2>8, <2>9, Zenon
    DEF ResetAll, Reset, NotifyUserInput, Tick, vars, control, threads, history
  <2> QED
    BY <2>1, <2>2, <2>3, <2>4, <2>5, <2>6, <2>7, <2>9, Zenon DEF Next, TimerStep
<1> QED
  BY <1>1, <1>2, TypeCorrect, PTL DEF Spec

\* How many steps of its own a thread has before it at most, if no Timer is started.
Remaining(t) ==
  CASE pc[t] = "free" -> 0
    [] pc[t] = "resched" -> 1
    [] pc[t] = "notify" -> 1 + Cardinality(todo[t])
    [] pc[t] = "read" -> 6
    [] pc[t] = "armed" -> 7

\* A set with one element more.
LEMMA OneMore ==
  ASSUME NEW S, NEW x, NEW n \in Nat, IsFiniteSet(S), Cardinality(S) <= n
  PROVE  IsFiniteSet(S \cup {x}) /\ Cardinality(S \cup {x}) <= n + 1
<1>1. /\ IsFiniteSet(S \cup {x})
      /\ Cardinality(S \cup {x}) = IF x \in S THEN Cardinality(S) ELSE Cardinality(S) + 1
  BY FS_AddElement, Zenon
<1>2. Cardinality(S) \in Nat
  BY FS_CardinalityType, Zenon
<1> DEFINE c == Cardinality(S)
           m == Cardinality(S \cup {x})
<1>3. c \in Nat /\ c <= n /\ m = IF x \in S THEN c ELSE c + 1
  BY <1>1, <1>2
<1> HIDE DEF c, m
<1>4. m <= n + 1
  BY <1>3
<1> QED
  BY <1>1, <1>4 DEF m

\* The desires are four.
LEMMA FewDesires ==
  ASSUME NEW S \in SUBSET DesireTypes
  PROVE  IsFiniteSet(S) /\ Cardinality(S) \in 0..4
<1> DEFINE A == {"talk"}
           B == A \cup {"curiosity"}
           C == B \cup {"reflect"}
           D == C \cup {"rest"}
<1>1. DesireTypes = D
  BY DEF DesireTypes
<1>2. IsFiniteSet(A) /\ Cardinality(A) <= 1
  BY FS_Singleton
<1> HIDE DEF A
<1>3. IsFiniteSet(B) /\ Cardinality(B) <= 2
  <2>1. 1 \in Nat /\ 1 + 1 = 2
    OBVIOUS
  <2>2. IsFiniteSet(B) /\ Cardinality(B) <= 1 + 1
    BY <1>2, <2>1, OneMore, Zenon
  <2> QED
    BY <2>1, <2>2
<1> HIDE DEF B
<1>4. IsFiniteSet(C) /\ Cardinality(C) <= 3
  <2>1. 2 \in Nat /\ 2 + 1 = 3
    OBVIOUS
  <2>2. IsFiniteSet(C) /\ Cardinality(C) <= 2 + 1
    BY <1>3, <2>1, OneMore, Zenon
  <2> QED
    BY <2>1, <2>2
<1> HIDE DEF C
<1>5. IsFiniteSet(D) /\ Cardinality(D) <= 4
  <2>1. 3 \in Nat /\ 3 + 1 = 4
    OBVIOUS
  <2>2. IsFiniteSet(D) /\ Cardinality(D) <= 3 + 1
    BY <1>4, <2>1, OneMore, Zenon
  <2> QED
    BY <2>1, <2>2
<1>6. IsFiniteSet(S) /\ Cardinality(S) <= Cardinality(D) /\ Cardinality(S) \in Nat
  <2>1. IsFiniteSet(S) /\ Cardinality(S) <= Cardinality(D)
    BY <1>1, <1>5, FS_Subset, Zenon
  <2> QED
    BY <2>1, FS_CardinalityType, Zenon
<1>7. Cardinality(D) \in Nat
  BY <1>5, FS_CardinalityType, Zenon
<1> DEFINE c == Cardinality(S)
           m == Cardinality(D)
<1>8. c \in Nat /\ m \in Nat /\ c <= m /\ m <= 4
  BY <1>5, <1>6, <1>7, Zenon
<1> HIDE DEF c, m, D
<1>9. c \in 0..4
  BY <1>8
<1> QED
  BY <1>6, <1>9 DEF c

\* Nobody lengthens the way of a thread while the worker is stopped, and every step
\* of a thread shortens its own: what is left of the chain comes to its end after at
\* most seven steps of each thread (desire_worker.py:312-331, 410-412).
WindsDown ==
  [][~running /\ ~running' =>
       \A t \in Timers : /\ Remaining(t)' <= Remaining(t)
                         /\ TimerStep(t) => Remaining(t)' < Remaining(t)]_vars

\* The number of steps.
LEMMA RemainingIs ==
  ASSUME TypeOK, NEW t \in Timers
  PROVE  /\ Remaining(t) \in 0..7
         /\ pc[t] = "free" => Remaining(t) = 0
         /\ pc[t] = "resched" => Remaining(t) = 1
         /\ pc[t] = "notify" => Remaining(t) = 1 + Cardinality(todo[t])
         /\ pc[t] = "read" => Remaining(t) = 6
         /\ pc[t] = "armed" => Remaining(t) = 7
<1>1. pc[t] \in States /\ todo[t] \in SUBSET DesireTypes
  BY DEF TypeOK
<1>2. Cardinality(todo[t]) \in 0..4
  BY <1>1, FewDesires
<1> QED
  BY <1>1, <1>2 DEF States, Remaining

\* The same in the next state.
LEMMA RemainingNext ==
  ASSUME TypeOK', NEW t \in Timers
  PROVE  /\ Remaining(t)' \in 0..7
         /\ pc'[t] = "free" => Remaining(t)' = 0
         /\ pc'[t] = "resched" => Remaining(t)' = 1
         /\ pc'[t] = "notify" => Remaining(t)' = 1 + Cardinality(todo'[t])
                                 /\ Cardinality(todo'[t]) \in 0..4
         /\ pc'[t] = "read" => Remaining(t)' = 6
         /\ pc'[t] = "armed" => Remaining(t)' = 7
<1>1. pc'[t] \in States /\ todo'[t] \in SUBSET DesireTypes
  BY DEF TypeOK
<1>2. Cardinality(todo'[t]) \in 0..4
  BY <1>1, FewDesires
<1> QED
  BY <1>1, <1>2 DEF States, Remaining

\* A thread that does not move has as far to go as before.
LEMMA RemainingSame ==
  ASSUME NEW t \in Timers, pc'[t] = pc[t], todo'[t] = todo[t]
  PROVE  Remaining(t)' = Remaining(t)
BY DEF Remaining

\* A step of a thread that does not start a Timer.
LEMMA StepShortens ==
  ASSUME TypeOK, TypeOK', ~running, NEW t \in Timers, TimerStep(t)
  PROVE  /\ Remaining(t)' < Remaining(t)
         /\ \A u \in Timers \ {t} : pc'[u] = pc[u] /\ todo'[u] = todo[u]
<1> USE DEF TypeOK
<1>1. CASE FireAndRead(t) \/ FireAndRaise(t)
  <2>1. /\ pc[t] = "armed" /\ pc'[t] \in {"read", "free"} /\ todo' = todo
        /\ \A u \in Timers \ {t} : pc'[u] = pc[u]
    BY <1>1 DEF FireAndRead, FireAndRaise
  <2> QED
    BY <2>1, RemainingIs, RemainingNext
<1>2. CASE Evaluate(t)
  <2>1. /\ pc[t] = "read" /\ pc'[t] \in {"notify", "resched"}
        /\ \A u \in Timers \ {t} : pc'[u] = pc[u] /\ todo'[u] = todo[u]
    BY <1>2 DEF Evaluate
  <2> QED
    BY <2>1, RemainingIs, RemainingNext
<1>3. ASSUME NEW d \in DesireTypes, Notify(t, d) PROVE /\ Remaining(t)' < Remaining(t)
                                                       /\ \A u \in Timers \ {t} : pc'[u] = pc[u] /\ todo'[u] = todo[u]
  <2>1. /\ pc[t] = "notify" /\ d \in todo[t] /\ todo'[t] = todo[t] \ {d}
        /\ pc'[t] = IF todo[t] = {d} THEN "resched" ELSE "notify"
        /\ \A u \in Timers \ {t} : pc'[u] = pc[u] /\ todo'[u] = todo[u]
    BY <1>3 DEF Notify
  <2>2. IsFiniteSet(todo[t]) /\ Cardinality(todo[t]) \in 0..4
    BY FewDesires
  <2>3. Cardinality(todo'[t]) = Cardinality(todo[t]) - 1
    <3>1. Cardinality(todo[t] \ {d}) =
            IF d \in todo[t] THEN Cardinality(todo[t]) - 1 ELSE Cardinality(todo[t])
      BY <2>2, FS_RemoveElement, Zenon
    <3> QED
      BY <2>1, <3>1, Zenon
  <2>4. Cardinality(todo[t]) # 0
    BY <2>1, <2>2, FS_EmptySet, Zenon
  <2> DEFINE c == Cardinality(todo[t])
  <2>5. Remaining(t) = 1 + c /\ c \in 0..4 /\ c # 0
    BY <2>1, <2>2, <2>4, RemainingIs
  <2>6. Remaining(t)' = 1 \/ Remaining(t)' = 1 + (c - 1)
    BY <2>1, <2>3, RemainingNext
  <2> HIDE DEF c
  <2>7. Remaining(t)' < Remaining(t)
    BY <2>5, <2>6
  <2> QED
    BY <2>1, <2>7, Zenon
<1>4. CASE Reschedule(t)
  <2>1. /\ pc[t] = "resched" /\ pc'[t] = "free" /\ todo' = todo
        /\ \A u \in Timers \ {t} : pc'[u] = pc[u]
    BY <1>4 DEF Reschedule
  <2> QED
    BY <2>1, RemainingIs, RemainingNext
<1> QED
  BY <1>1, <1>2, <1>3, <1>4, Zenon DEF TimerStep

\* A stopped worker winds down.
THEOREM StoppedWindsDown == Spec => WindsDown
<1>1. ASSUME TypeOK, TypeOK', ~running, ~running', [Next]_vars, NEW t \in Timers
      PROVE  /\ Remaining(t)' <= Remaining(t)
             /\ TimerStep(t) => Remaining(t)' < Remaining(t)
  <2>0. Remaining(t) \in 0..7 /\ Remaining(t)' \in 0..7
    BY <1>1, RemainingIs, RemainingNext
  <2>1. TimerStep(t) => Remaining(t)' < Remaining(t)
    BY <1>1, StepShortens, Zenon
  <2>2. ASSUME NEW u \in Timers, TimerStep(u) PROVE Remaining(t)' <= Remaining(t)
    <3>1. CASE u = t
      BY <2>0, <2>1, <2>2, <3>1
    <3>2. CASE u # t
      <4>1. pc'[t] = pc[t] /\ todo'[t] = todo[t]
        BY <1>1, <2>2, <3>2, StepShortens, Zenon
      <4> QED
        BY <2>0, <4>1, RemainingSame
    <3> QED
      BY <3>1, <3>2
  <2>3. ASSUME Stop PROVE Remaining(t)' <= Remaining(t)
    <3>1. todo' = todo /\ (pc'[t] = pc[t] \/ pc'[t] = "free")
      BY <1>1, <2>3 DEF Stop, TypeOK
    <3>2. CASE pc'[t] = pc[t]
      BY <2>0, <3>1, <3>2, RemainingSame
    <3>3. CASE pc'[t] = "free"
      BY <1>1, <2>0, <3>3, RemainingNext
    <3> QED
      BY <3>1, <3>2, <3>3
  <2>4. ASSUME ResetAll \/ (\E d \in DesireTypes : Reset(d)) \/ NotifyUserInput \/ Tick \/ UNCHANGED vars
        PROVE  Remaining(t)' <= Remaining(t)
    <3>1. pc' = pc /\ todo' = todo
      BY <2>4, Zenon DEF ResetAll, Reset, NotifyUserInput, Tick, vars, threads
    <3> QED
      BY <2>0, <3>1, RemainingSame
  <2>5. ASSUME NEW u \in Timers, Start(u) PROVE FALSE
    BY <1>1, <2>5, Zenon DEF Start
  <2> QED
    BY <1>1, <2>1, <2>2, <2>3, <2>4, <2>5, Zenon DEF Next
<1>2. TypeOK /\ TypeOK' /\ [Next]_vars =>
        [~running /\ ~running' =>
           \A t \in Timers : /\ Remaining(t)' <= Remaining(t)
                             /\ TimerStep(t) => Remaining(t)' < Remaining(t)]_vars
  BY <1>1, Zenon
<1> QED
  BY <1>2, TypeCorrect, PTL DEF Spec, WindsDown
=============================================================================
