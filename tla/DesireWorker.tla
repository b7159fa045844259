---------------------------- MODULE DesireWorker ----------------------------
(***************************************************************************)
(* agent/desire_worker.py: the worker that recomputes the four desires of  *)
(* the mascot on a chain of one-shot threading.Timer threads.              *)
(*                                                                         *)
(* A Timer thread runs update_desires once: it reads the clock, the idle   *)
(* time and two counters without the lock, updates the flags under _lock,  *)
(* calls on_threshold_exceeded without the lock, and takes _lock again to  *)
(* start the next Timer.  start, stop, reset_all, reset and                *)
(* notify_user_input are called by other threads at any moment between     *)
(* these steps.  Every action below is one lock section, or one stretch of *)
(* code outside the lock whose reads commute with the other threads.       *)
(*                                                                         *)
(* Abstracted: levels are compared with their thresholds exactly (by       *)
(* cross-multiplication, thresholds in percent) but not stored; the update *)
(* interval has no fixed relation to a tick of the clock.                  *)
(***************************************************************************)
EXTENDS Integers

CONSTANTS
  Timers,              \* identities of the Timer threads alive at once
  NoTimer,             \* the value None of self._timer
  StartTime,           \* time.monotonic() when the worker is built
  MaxClock,            \* bound on time.monotonic()
  MaxGeneration,       \* bound on the calls of start and stop
  PendingCounts,       \* what get_pending_curiosity_count may return
  ObservationCounts,   \* what get_observation_count may return
  TalkPct, CuriosityPct, ReflectPct, RestPct,  \* thresholds, in percent
  TalkIdle, CuriosityIdle, ReflectEpisodes, RestUptime, RestSuppress,
  ActiveIdle           \* _CURIOSITY_USER_ACTIVE_SUPPRESS_MINUTES, in ticks

ASSUME TimersAssumption == NoTimer \notin Timers

ASSUME ClockAssumption ==
  /\ StartTime \in Nat /\ MaxClock \in Nat /\ StartTime <= MaxClock
  /\ MaxGeneration \in Nat

ASSUME CountsAssumption ==
  /\ PendingCounts \subseteq Nat /\ ObservationCounts \subseteq Nat

ASSUME ConfigAssumption ==
  /\ TalkPct \in Int /\ CuriosityPct \in Int /\ ReflectPct \in Int /\ RestPct \in Int
  /\ TalkIdle \in Int /\ CuriosityIdle \in Int /\ ReflectEpisodes \in Int
  /\ RestUptime \in Int /\ RestSuppress \in Int /\ ActiveIdle \in Int

VARIABLES
  clock,         \* time.monotonic()
  lastInput,     \* _last_user_input_time
  restNotified,  \* _rest_last_notified_time
  active,        \* _desires[d].active
  running,       \* _running
  generation,    \* _start_generation
  timer,         \* _timer
  pc,            \* where each Timer thread is
  seen,          \* what update_desires read before its lock section
  myGeneration,  \* my_generation of update_desires
  todo,          \* exceeded_types still to be announced
  announced,     \* history: callback made since the flag was last raised
  overtaken,     \* history: start() ran while an update was before its lock
  counterFailed  \* history: a counter raised since the last start()

vars == <<clock, lastInput, restNotified, active, running, generation, timer,
          pc, seen, myGeneration, todo, announced, overtaken, counterFailed>>

flags == <<active, announced>>
control == <<running, generation, timer>>
threads == <<pc, seen, myGeneration, todo>>
time == <<clock, lastInput, restNotified>>
history == <<overtaken, counterFailed>>

DesireTypes == {"talk", "curiosity", "reflect", "rest"}

\* _DESIRE_TYPES is a tuple: the order in which callbacks are made.
Rank == [d \in DesireTypes |->
           CASE d = "talk" -> 1 [] d = "curiosity" -> 2
             [] d = "reflect" -> 3 [] d = "rest" -> 4]

\* A Timer is "free" (no thread), "armed" (waiting for its interval), "read"
\* (inputs read, waiting for _lock), "notify" (making callbacks) or "resched"
\* (about to take _lock for the next Timer).
States == {"free", "armed", "read", "notify", "resched"}

Snapshot == [now : Int, exceeded : SUBSET DesireTypes]
NothingSeen == [now |-> 0, exceeded |-> {}]

TypeOK ==
  /\ clock \in StartTime..MaxClock
  /\ lastInput \in StartTime..MaxClock
  /\ restNotified \in Int
  /\ active \in [DesireTypes -> BOOLEAN]
  /\ running \in BOOLEAN
  /\ generation \in 0..MaxGeneration
  /\ timer \in Timers \cup {NoTimer}
  /\ pc \in [Timers -> States]
  /\ seen \in [Timers -> Snapshot]
  /\ myGeneration \in [Timers -> 0..MaxGeneration]
  /\ todo \in [Timers -> SUBSET DesireTypes]
  /\ announced \in [DesireTypes -> BOOLEAN]
  /\ overtaken \in BOOLEAN /\ counterFailed \in BOOLEAN

-----------------------------------------------------------------------------
(* The level of a desire against its threshold.                            *)

PendingSaturation == 5

Least(a, b) == IF a < b THEN a ELSE b

\* min(1.0, x / full) > pct / 100, and 1.0 when full <= 0.
RatioExceeds(x, full, pct) ==
  pct < 100 /\ (full <= 0 \/ 100 * x > pct * full)

TalkExceeds(idle) == RatioExceeds(idle, TalkIdle, TalkPct)

\* The product of the pending weight and the time weight; 0.0 while nothing is
\* pending or the user was active a moment ago.
CuriosityExceeds(idle, pending) ==
  LET weight == Least(pending, PendingSaturation)
  IN  IF pending = 0 \/ idle < ActiveIdle
      THEN CuriosityPct < 0
      ELSE IF CuriosityIdle <= 0
           THEN 100 * weight > CuriosityPct * PendingSaturation
           ELSE 100 * weight * Least(idle, CuriosityIdle)
                  > CuriosityPct * PendingSaturation * CuriosityIdle

ReflectExceeds(observations) == RatioExceeds(observations, ReflectEpisodes, ReflectPct)

RestExceeds(now) == RatioExceeds(now - StartTime, RestUptime, RestPct)

Exceeding(now, idle, pending, observations) ==
  {d \in DesireTypes :
     \/ d = "talk" /\ TalkExceeds(idle)
     \/ d = "curiosity" /\ CuriosityExceeds(idle, pending)
     \/ d = "reflect" /\ ReflectExceeds(observations)
     \/ d = "rest" /\ RestExceeds(now)}

-----------------------------------------------------------------------------
Init ==
  /\ clock = StartTime /\ lastInput = StartTime /\ restNotified = 0
  /\ active = [d \in DesireTypes |-> FALSE]
  /\ running = FALSE /\ generation = 0 /\ timer = NoTimer
  /\ pc = [t \in Timers |-> "free"]
  /\ seen = [t \in Timers |-> NothingSeen]
  /\ myGeneration = [t \in Timers |-> 0]
  /\ todo = [t \in Timers |-> {}]
  /\ announced = [d \in DesireTypes |-> FALSE]
  /\ overtaken = FALSE /\ counterFailed = FALSE

\* _schedule_next_locked: t is the new Timer object, started.
ScheduleNext(t) ==
  /\ timer' = t
  /\ pc' = [pc EXCEPT ![t] = "armed"]

\* start(); a call while running returns at once and changes nothing.
Start(t) ==
  /\ ~running
  /\ generation < MaxGeneration
  /\ pc[t] = "free"
  /\ running' = TRUE
  /\ overtaken' = (overtaken \/ \E u \in Timers : pc[u] = "read")
  /\ counterFailed' = FALSE
  /\ generation' = generation + 1
  /\ ScheduleNext(t)
  /\ UNCHANGED <<time, flags, seen, myGeneration, todo>>

\* stop(): cancel() stops a Timer that still waits for its interval; the thread
\* of one that has fired goes on.
Stop ==
  /\ generation < MaxGeneration
  /\ running' = FALSE
  /\ generation' = generation + 1
  /\ pc' = [t \in Timers |-> IF t = timer /\ pc[t] = "armed" THEN "free" ELSE pc[t]]
  /\ timer' = NoTimer
  /\ UNCHANGED <<time, flags, seen, myGeneration, todo, history>>

\* The interval of t is over: update_desires reads its inputs outside _lock.
FireAndRead(t) ==
  /\ pc[t] = "armed"
  /\ \E pending \in PendingCounts, observations \in ObservationCounts :
       seen' = [seen EXCEPT ![t] =
                  [now |-> clock,
                   exceeded |-> Exceeding(clock, clock - lastInput,
                                          pending, observations)]]
  /\ pc' = [pc EXCEPT ![t] = "read"]
  /\ UNCHANGED <<time, flags, control, myGeneration, todo, history>>

\* One of the counters raises: the thread ends without a next Timer, and
\* neither _running nor _timer is changed.
FireAndRaise(t) ==
  /\ pc[t] = "armed"
  /\ pc' = [pc EXCEPT ![t] = "free"]
  /\ counterFailed' = TRUE
  /\ UNCHANGED <<time, flags, control, seen, myGeneration, todo, overtaken>>

\* Slip: rest is treated as every other desire.
SuppressedNever(d, now) == FALSE

\* rest alone is kept quiet for RestSuppress after its last notification.
Suppressed(d, now) == d = "rest" /\ now - restNotified < RestSuppress

\* Slip: a flag that is up is raised again.
NewlyExceededAgain(t) == {d \in seen[t].exceeded : ~Suppressed(d, seen[t].now)}

NewlyExceeded(t) ==
  {d \in seen[t].exceeded : ~active[d] /\ ~Suppressed(d, seen[t].now)}

\* Slip: an early return when nothing is to be announced skips the rescheduling.
EvaluateReturnsEarly(t) ==
  /\ pc[t] = "read"
  /\ myGeneration' = [myGeneration EXCEPT ![t] = generation]
  /\ todo' = [todo EXCEPT ![t] = NewlyExceeded(t)]
  /\ active' = [d \in DesireTypes |-> active[d] \/ d \in NewlyExceeded(t)]
  /\ announced' = [d \in DesireTypes |-> announced[d] /\ d \notin NewlyExceeded(t)]
  /\ restNotified' = IF "rest" \in NewlyExceeded(t) THEN seen[t].now ELSE restNotified
  /\ pc' = [pc EXCEPT ![t] = IF NewlyExceeded(t) = {} THEN "free" ELSE "notify"]
  /\ seen' = [seen EXCEPT ![t] = NothingSeen]
  /\ UNCHANGED <<clock, lastInput, control, history>>

\* The first lock section of update_desires.
Evaluate(t) ==
  /\ pc[t] = "read"
  /\ myGeneration' = [myGeneration EXCEPT ![t] = generation]
  /\ todo' = [todo EXCEPT ![t] = NewlyExceeded(t)]
  /\ active' = [d \in DesireTypes |-> active[d] \/ d \in NewlyExceeded(t)]
  /\ announced' = [d \in DesireTypes |-> announced[d] /\ d \notin NewlyExceeded(t)]
  /\ restNotified' = IF "rest" \in NewlyExceeded(t) THEN seen[t].now ELSE restNotified
  /\ pc' = [pc EXCEPT ![t] = IF NewlyExceeded(t) = {} THEN "resched" ELSE "notify"]
  /\ seen' = [seen EXCEPT ![t] = NothingSeen]
  /\ UNCHANGED <<clock, lastInput, control, history>>

\* Slip: an exception of a callback leaves the loop over the callbacks.
NotifyFirstOnly(t, d) ==
  /\ pc[t] = "notify"
  /\ d \in todo[t]
  /\ todo' = [todo EXCEPT ![t] = {}]
  /\ announced' = [announced EXCEPT ![d] = TRUE]
  /\ pc' = [pc EXCEPT ![t] = "resched"]
  /\ UNCHANGED <<time, active, control, seen, myGeneration, history>>

\* One callback, outside _lock; an exception it raises is logged and dropped.
Notify(t, d) ==
  /\ pc[t] = "notify"
  /\ d \in todo[t] /\ \A e \in todo[t] : Rank[d] <= Rank[e]
  /\ todo' = [todo EXCEPT ![t] = @ \ {d}]
  /\ announced' = [announced EXCEPT ![d] = TRUE]
  /\ pc' = [pc EXCEPT ![t] = IF todo[t] = {d} THEN "resched" ELSE "notify"]
  /\ UNCHANGED <<time, active, control, seen, myGeneration, history>>

\* Slip: the next Timer is started whatever happened during the callbacks.
RescheduleUnchecked(t) ==
  /\ pc[t] = "resched"
  /\ ScheduleNext(t)
  /\ myGeneration' = [myGeneration EXCEPT ![t] = 0]
  /\ UNCHANGED <<time, flags, running, generation, seen, todo, history>>

\* The second lock section: the next Timer, unless stopped or restarted.
Reschedule(t) ==
  /\ pc[t] = "resched"
  /\ IF running /\ generation = myGeneration[t]
     THEN ScheduleNext(t)
     ELSE pc' = [pc EXCEPT ![t] = "free"] /\ UNCHANGED timer
  /\ myGeneration' = [myGeneration EXCEPT ![t] = 0]
  /\ UNCHANGED <<time, flags, running, generation, seen, todo, history>>

ResetAll ==
  /\ active' = [d \in DesireTypes |-> FALSE]
  /\ UNCHANGED <<time, announced, control, threads, history>>

Reset(d) ==
  /\ active' = [active EXCEPT ![d] = FALSE]
  /\ UNCHANGED <<time, announced, control, threads, history>>

\* A single assignment, without _lock.
NotifyUserInput ==
  /\ lastInput' = clock
  /\ UNCHANGED <<clock, restNotified, flags, control, threads, history>>

Tick ==
  /\ clock < MaxClock
  /\ clock' = clock + 1
  /\ UNCHANGED <<lastInput, restNotified, flags, control, threads, history>>

TimerStep(t) ==
  \/ FireAndRead(t) \/ FireAndRaise(t) \/ Evaluate(t)
  \/ (\E d \in DesireTypes : Notify(t, d)) \/ Reschedule(t)

Next ==
  \/ \E t \in Timers : Start(t)
  \/ Stop
  \/ \E t \in Timers : TimerStep(t)
  \/ ResetAll
  \/ \E d \in DesireTypes : Reset(d)
  \/ NotifyUserInput
  \/ Tick

Spec == Init /\ [][Next]_vars

\* The operating system runs a started Timer thread; nobody has to call start,
\* stop or a reset, and no clock has to advance.
FairSpec == Spec /\ \A t \in Timers : WF_vars(TimerStep(t))

-----------------------------------------------------------------------------
(* Safety.                                                                 *)

\* Unless start() once ran between the expiry of a Timer and the lock section of
\* its update, every Timer that waits for its interval is the one self._timer
\* holds, and the worker is running: stop() leaves no Timer waiting
\* (desire_worker.py:312-331) and two Timers never wait at once.
ArmedIsOwned ==
  ~overtaken => \A t \in Timers : pc[t] = "armed" => running /\ timer = t

\* No two Timers are scheduled at once ("Timer 二重起動", desire_worker.py:287-288).
NoDoubleArm == \A t, u \in Timers : pc[t] = "armed" /\ pc[u] = "armed" => t = u

\* Even when two updates overlap and take _lock in the opposite order of their
\* clock readings, the time of the last rest notification never goes back, so
\* the suppression window is never reopened early (desire_worker.py:386-391).
RestNotifiedMonotone == [][restNotified' >= restNotified]_restNotified

(* What the worker promises to its callers: the desires as plain flags.    *)
Flags == INSTANCE DesireFlags WITH
  Announcers <- Timers,
  owed <- {p \in Timers \X DesireTypes : p[2] \in todo[p[1]]}

\* Every step of the timers, of start and stop and of the callers is a step of
\* the flags: a flag is raised only when down, by a thread that owes nothing, and
\* one callback is owed for each flag raised (desire_worker.py:375-406).
ImplementsFlags == Flags!Spec

\* No raised flag is left unannounced (desire_worker.py:384-406).
RaisedIsAnnounced == Flags!RaisedIsAnnounced

-----------------------------------------------------------------------------
(* Liveness.                                                               *)

\* While the worker is never stopped and its counters do not raise, updates go on
\* for ever: no interleaving of lock sections and callbacks, with restarts before,
\* breaks the chain of Timers (desire_worker.py:408-412).
LoopContinues ==
  <>[](running /\ ~counterFailed) => []<>(\E t \in Timers : pc[t] = "read")

\* After the last stop() every thread of the worker comes to an end, whatever it
\* was doing when it was stopped (desire_worker.py:312-331, 410-412).
QuiescesAfterStop ==
  <>[]~running => <>[](\A t \in Timers : pc[t] = "free")
=============================================================================
