------------------------- MODULE ConversationMemory -------------------------
(***************************************************************************)
(* What becomes of a conversation in the database: the table observations, *)
(* the buffer that takes observations while the database is locked         *)
(* (memory/db.py), the table day_summary, filled at shutdown for the       *)
(* current day and at startup for the days that lack a summary             *)
(* (memory/memory_worker.py, main.py), and the recording part of           *)
(* AgentCore.process_turn.                                                 *)
(*                                                                         *)
(* Two threads share one connection: the one that talks and, at the end,   *)
(* the one that shuts down.  The tables survive the process, the buffer    *)
(* does not.  Midnight may come between any two steps.                     *)
(***************************************************************************)
EXTENDS Integers, Sequences, FiniteSets

CONSTANTS
  MaxDay,     \* bound on the days that pass
  MaxTurns,   \* bound on the turns, over all sessions
  MaxFaults   \* bound on locks, LLM and storage errors, and crashes

ASSUME BoundsAssumption == MaxDay \in Nat \ {0} /\ MaxTurns \in Nat /\ MaxFaults \in Nat

VARIABLES
  observations, \* the table, in order of insertion
  summaries,    \* the table: what the summary of each day was made from
  buffer,       \* _pending_observations
  today,        \* the date
  phase,        \* of the process
  missing,      \* the dates check_and_fill_missing_summaries still has to fill
  startDay,     \* history: the date when the session began
  startFailed,  \* history: a summary failed while the session began
  filled,       \* history: the days whose summary was made at a startup
  turn, turnPc, \* the turns so far; where the talking thread is
  closer,       \* where the thread that shuts down is
  date,         \* the date for which it makes a summary
  read,         \* the observations it has read
  lost,         \* history: buffered observations that ended with a process
  faults

tables == <<observations, summaries>>
session == <<missing, startDay, startFailed, filled>>
talk == <<turn, turnPc>>
closing == <<closer, date, read>>
vars == <<tables, buffer, today, phase, session, talk, closing, lost, faults>>

Days == 1..MaxDay
Observation == [turn : 1..MaxTurns, speaker : {"user", "mascot"}, day : Days]
NoSummary == {}   \* a summary is made of at least one observation

Elements(s) == {s[i] : i \in DOMAIN s}
OfDay(d) == {o \in Elements(observations) : o.day = d}

TypeOK ==
  /\ observations \in Seq(Observation) /\ buffer \in Seq(Observation)
  /\ DOMAIN summaries = Days
  /\ \A d \in Days : summaries[d] \subseteq Observation
  /\ date \in Days
  /\ today \in Days /\ startDay \in Days
  /\ phase \in {"off", "starting", "running", "closed"}
  /\ missing \in SUBSET Days /\ filled \in SUBSET Days
  /\ startFailed \in BOOLEAN
  /\ turn \in 0..MaxTurns
  /\ turnPc \in {"idle", "user", "mascot"}
  /\ closer \in {"out", "read", "llm", "save", "close"}
  /\ read \subseteq Observation /\ lost \subseteq Observation
  /\ faults \in 0..MaxFaults

Init ==
  /\ observations = <<>> /\ buffer = <<>>
  /\ summaries = [d \in Days |-> NoSummary]
  /\ today = 1 /\ startDay = 1
  /\ phase = "off"
  /\ missing = {} /\ filled = {} /\ startFailed = FALSE
  /\ turn = 0 /\ turnPc = "idle"
  /\ closer = "out" /\ date = 1 /\ read = {}
  /\ lost = {}
  /\ faults = 0

Fault == faults < MaxFaults /\ faults' = faults + 1
NoFault == faults' = faults

-----------------------------------------------------------------------------
(* Startup.                                                                *)

\* Slips: only yesterday is looked at; the current day is not left out.
MissingYesterday ==
  {d \in Days : d = today - 1 /\ OfDay(d) # {} /\ summaries[d] = NoSummary}
MissingUpToToday ==
  {d \in Days : OfDay(d) # {} /\ summaries[d] = NoSummary}

\* get_missing_summary_dates: days with observations and no summary, without
\* the current one.
MissingDates ==
  {d \in Days \ {today} : OfDay(d) # {} /\ summaries[d] = NoSummary}

StartSession ==
  /\ phase = "off"
  /\ \/ phase' = "starting" /\ missing' = MissingDates /\ startFailed' = FALSE /\ NoFault
     \/ phase' = "starting" /\ missing' = {} /\ startFailed' = TRUE /\ Fault
  /\ startDay' = today
  /\ UNCHANGED <<tables, buffer, today, filled, talk, closing, lost>>

\* generate_daily_summary of the earliest date; its failure concerns no other date.
FillMissing ==
  /\ phase = "starting" /\ missing # {}
  /\ LET d == CHOOSE e \in missing : \A f \in missing : e <= f
     IN  /\ missing' = missing \ {d}
         /\ \/ /\ summaries' = [summaries EXCEPT ![d] = OfDay(d)]
               /\ filled' = filled \cup {d}
               /\ NoFault /\ UNCHANGED startFailed
            \/ /\ Fault /\ startFailed' = TRUE
               /\ UNCHANGED <<summaries, filled>>
  /\ UNCHANGED <<observations, buffer, today, phase, startDay, talk, closing, lost>>

Ready ==
  /\ phase = "starting" /\ missing = {}
  /\ phase' = "running"
  /\ UNCHANGED <<tables, buffer, today, session, talk, closing, lost, faults>>

-----------------------------------------------------------------------------
(* The talking thread.                                                     *)

\* The model has answered: the two observations are still to be recorded.
Answered ==
  /\ phase = "running" /\ turnPc = "idle" /\ turn < MaxTurns
  /\ turn' = turn + 1
  /\ turnPc' = "user"
  /\ UNCHANGED <<tables, buffer, today, phase, session, closing, lost, faults>>

Prefix(s, n) == SubSeq(s, 1, n)
Rest(s, n) == SubSeq(s, n + 1, Len(s))

\* Slips: a flush that is broken off empties the buffer; what was flushed stays in it.
SaveSafeDrops(o, n, outcome) ==
  /\ observations' = observations \o Prefix(buffer, n)
                       \o (IF outcome = "stored" THEN <<o>> ELSE <<>>)
  /\ buffer' = IF outcome = "buffered" THEN <<o>> ELSE <<>>
  /\ IF n = Len(buffer) /\ outcome = "stored" THEN NoFault ELSE Fault
SaveSafeKeeps(o, n, outcome) ==
  /\ observations' = observations \o Prefix(buffer, n)
                       \o (IF outcome = "stored" THEN <<o>> ELSE <<>>)
  /\ buffer' = buffer \o (IF outcome = "buffered" THEN <<o>> ELSE <<>>)
  /\ IF n = Len(buffer) /\ outcome = "stored" THEN NoFault ELSE Fault

\* save_observation_safe on an open connection: the first n buffered entries are
\* flushed, then o is stored, or buffered when the database is locked, or the
\* error is raised.  Everything but the plain case needs a fault.
SaveSafe(o, n, outcome) ==
  /\ observations' = observations \o Prefix(buffer, n)
                       \o (IF outcome = "stored" THEN <<o>> ELSE <<>>)
  /\ buffer' = Rest(buffer, n) \o (IF outcome = "buffered" THEN <<o>> ELSE <<>>)
  /\ IF n = Len(buffer) /\ outcome = "stored" THEN NoFault ELSE Fault

\* Slips: each observation in a try block of its own; the day taken from another
\* time zone.
RecordEach(speaker, next) ==
  LET o == [turn |-> turn, speaker |-> speaker, day |-> today]
  IN  /\ phase = "running"
      /\ \E n \in 0..Len(buffer), outcome \in {"stored", "buffered", "raised"} :
           SaveSafe(o, n, outcome)
      /\ turnPc' = next
      /\ UNCHANGED summaries
\* Both observations are recorded in one try block: when the first is raised, or
\* the connection is closed, the second is not tried.
Record(speaker, next) ==
  LET o == [turn |-> turn, speaker |-> speaker, day |-> today]
  IN  \/ /\ phase = "running"
         /\ \E n \in 0..Len(buffer), outcome \in {"stored", "buffered", "raised"} :
              /\ SaveSafe(o, n, outcome)
              /\ turnPc' = IF outcome = "raised" THEN "idle" ELSE next
         /\ UNCHANGED summaries
      \/ /\ phase = "closed"
         /\ turnPc' = "idle" /\ NoFault
         /\ UNCHANGED <<tables, buffer>>

RecordUser ==
  /\ turnPc = "user"
  /\ Record("user", "mascot")
  /\ UNCHANGED <<today, phase, session, turn, closing, lost>>

RecordMascot ==
  /\ turnPc = "mascot"
  /\ Record("mascot", "idle")
  /\ UNCHANGED <<today, phase, session, turn, closing, lost>>

-----------------------------------------------------------------------------
(* Shutdown.                                                               *)

Shutdown ==
  /\ phase = "running" /\ closer = "out"
  /\ closer' = "read" /\ date' = today
  /\ UNCHANGED <<tables, buffer, today, phase, session, talk, read, lost, faults>>

\* generate_daily_summary_sync(today): an existing summary, or no observation,
\* ends it, and so does every exception.
ReadDay ==
  /\ closer = "read"
  /\ \/ /\ summaries[date] = NoSummary /\ OfDay(date) # {}
        /\ read' = OfDay(date) /\ closer' = "llm" /\ NoFault
     \/ /\ summaries[date] # NoSummary \/ OfDay(date) = {}
        /\ read' = {} /\ closer' = "close" /\ NoFault
     \/ read' = {} /\ closer' = "close" /\ Fault
  /\ UNCHANGED <<tables, buffer, today, phase, session, talk, date, lost>>

AskModel ==
  /\ closer = "llm"
  /\ \/ closer' = "save" /\ NoFault
     \/ closer' = "close" /\ Fault
  /\ UNCHANGED <<tables, buffer, today, phase, session, talk, date, read, lost>>

SaveSummary ==
  /\ closer = "save"
  /\ \/ summaries' = [summaries EXCEPT ![date] = read] /\ NoFault
     \/ UNCHANGED summaries /\ Fault
  /\ closer' = "close"
  /\ UNCHANGED <<observations, buffer, today, phase, session, talk, date, read, lost>>

CloseDb ==
  /\ closer = "close"
  /\ phase' = "closed"
  /\ closer' = "out" /\ read' = {}
  /\ UNCHANGED <<tables, buffer, today, session, talk, date, lost, faults>>

\* The process is gone, and with it the buffer and a turn in progress.
Gone ==
  /\ phase' = "off"
  /\ buffer' = <<>> /\ lost' = lost \cup Elements(buffer)
  /\ turnPc' = "idle"
  /\ closer' = "out" /\ read' = {}
  /\ missing' = {}
  /\ UNCHANGED <<tables, today, startDay, startFailed, filled, turn, date>>

Exit ==
  /\ phase = "closed"
  /\ Gone
  /\ NoFault

Crash ==
  /\ phase # "off"
  /\ Gone
  /\ Fault

Midnight ==
  /\ today < MaxDay
  /\ today' = today + 1
  /\ UNCHANGED <<tables, buffer, phase, session, talk, closing, lost, faults>>

Next ==
  \/ StartSession \/ FillMissing \/ Ready
  \/ Answered \/ RecordUser \/ RecordMascot
  \/ Shutdown \/ ReadDay \/ AskModel \/ SaveSummary \/ CloseDb
  \/ Exit \/ Crash \/ Midnight

Spec == Init /\ [][Next]_vars

-----------------------------------------------------------------------------
(* Properties.                                                             *)

\* No observation is stored twice, or stored and still buffered, whatever locks
\* interrupt the flush (db.py:437-460, 676-712).
NoObservationTwice ==
  LET all == observations \o buffer
  IN  \A i, j \in DOMAIN all :
        all[i].turn = all[j].turn /\ all[i].speaker = all[j].speaker => i = j

\* While the process lives, nothing that is in the table or waits in the buffer
\* disappears, at whatever entry a lock breaks a flush off, and nothing ever leaves the
\* table (db.py:437-460, 676-712).
RecordedStays ==
  [][/\ Elements(observations) \subseteq Elements(observations')
     /\ phase' # "off" =>
          Elements(buffer) \subseteq Elements(buffer') \cup Elements(observations')]_vars

\* An answer is on record only together with what it answers, although each of
\* the two may be stored, buffered or fail, unless the process took what was
\* buffered with it (agent_core.py:352-369).
NoOrphanAnswer ==
  \A o \in Elements(observations \o buffer) :
    o.speaker = "mascot" =>
      \E u \in Elements(observations \o buffer) \cup lost :
        u.speaker = "user" /\ u.turn = o.turn

\* After a startup without failure every earlier day with observations has a
\* summary, and keeps having one while turns, locks and midnights go on
\* (memory_worker.py:122-158, db.py:358-382).
NoGapAfterStartup ==
  phase \in {"running", "closed"} /\ ~startFailed =>
    \A d \in Days : d < startDay /\ OfDay(d) # {} => summaries[d] # NoSummary

\* A summary made at startup is made from all that is ever stored of its day,
\* although buffered observations keep their old date (db.py:371-382, 437-460).
FilledIsComplete == \A d \in filled : OfDay(d) = summaries[d]

\* Once a day is over and the next session has filled the gaps without failure,
\* the summaries cover every observation of that day (FR-3.8, FR-3.10).
EveryObservationSummarised ==
  phase = "running" /\ ~startFailed =>
    \A d \in Days : d < startDay => OfDay(d) \subseteq summaries[d]
=============================================================================
