--------------------------- MODULE AutonomousTurn ---------------------------
(***************************************************************************)
(* AgentCore.handle_autonomous_turn (agent/agent_core.py) at work against  *)
(* the desire flags and the curiosity_targets table: the thread that       *)
(* handles a desire takes many steps (LLM calls, searches, transactions),  *)
(* between which timers raise flags and the user's input lowers them all.  *)
(*                                                                         *)
(* The flags are those of DesireFlags, which DesireWorker implements.  One *)
(* thread handles desires, as the docstring of handle_autonomous_turn      *)
(* assumes; its caller is not written yet (main.py builds AgentCore        *)
(* without a desire worker), so any desire may be handled at any time.     *)
(*                                                                         *)
(* Faults: an LLM call or a search raises; a transaction stays locked for  *)
(* all its retries and raises; the process dies and starts again.          *)
(***************************************************************************)
EXTENDS CuriosityTargets

CONSTANTS
  DesireTypes,   \* the desires that occur (keys of AUTONOMOUS_PROMPTS)
  Announcers,    \* the threads of the desire worker
  CaseFold,      \* [Topics -> anything]: str.lower() of Python (folds all letters)
  MaxSeeds,      \* bound on the rows the table starts with
  SeedPriorities,\* their priorities
  MaxPending,    \* agentic_search.max_pending_targets
  MaxNoise,      \* _NOISE_TOPIC_MAX_COUNT
  MaxFaults      \* bound on the failed transactions and crashes

\* Python folds at least the letters that SQLite folds.
ASSUME AutonomousTurnAssumption ==
  /\ {MaxSeeds, MaxRows, MaxPending, MaxNoise, MaxFaults} \subseteq Nat
  /\ MaxSeeds <= MaxRows
  /\ SeedPriorities \subseteq Nat
  /\ \A s, t \in Topics : SqlLower[s] = SqlLower[t] => CaseFold[s] = CaseFold[t]

VARIABLES
  active, owed, announced,  \* the flags of DesireFlags
  rows,       \* the table curiosity_targets, which survives a crash
  pc,         \* where handle_autonomous_turn is
  desire,     \* its argument
  target,     \* tid
  stage,      \* the stage of the pipeline: 1 decompose .. 4 extract noise
  noise,      \* noise_topics still to be registered
  reply,      \* has the call got a text to return?
  faults      \* history: failed transactions and crashes

Flags == INSTANCE DesireFlags

flagVars == <<active, owed, announced>>
turnVars == <<pc, desire, target, stage, noise, reply>>
vars == <<flagVars, rows, turnVars, faults>>

NoDesire == "none"
Stages == 1..4

PCs == {"idle", "guard", "recover", "pick", "starting", "mark", "check", "work",
        "failed", "done", "register", "completion", "pre", "llm", "post", "finish"}

TypeOK ==
  /\ Flags!TypeOK
  /\ rows \in Seq(Row) /\ Len(rows) <= MaxRows
  /\ pc \in PCs
  /\ desire \in DesireTypes \cup {NoDesire}
  /\ target \in 0..MaxRows
  /\ stage \in Stages
  /\ noise \in Seq(Topics)
  /\ reply \in BOOLEAN
  /\ faults \in 0..MaxFaults

\* Before the first derived topic, whoever filled the table left a few pending
\* rows of different topics in it.
Seeds ==
  {s \in UNION {[1..n -> [topic : Topics, priority : SeedPriorities,
                          status : {"pending"}, parent : {0}]] : n \in 0..MaxSeeds} :
     \A i, j \in DOMAIN s : CaseFold[s[i].topic] = CaseFold[s[j].topic] => i = j}

Idle ==
  /\ pc = "idle" /\ desire = NoDesire /\ target = 0 /\ stage = 1
  /\ noise = <<>> /\ reply = FALSE

Init ==
  /\ Flags!Init
  /\ rows \in Seeds
  /\ Idle
  /\ faults = 0

-----------------------------------------------------------------------------
(* Control.                                                                *)

Goto(l) == pc' = l

\* The call is over: its locals are gone.
Return ==
  /\ pc' = "idle" /\ desire' = NoDesire /\ target' = 0 /\ stage' = 1
  /\ noise' = <<>> /\ reply' = FALSE

\* The finally clause: the desire is lowered however the call ends.
Finish ==
  /\ pc = "finish"
  /\ Flags!Reset(desire)
  /\ Return
  /\ UNCHANGED <<rows, faults>>

\* The caller passes a desire the prompts know; any other is refused at once.
Begin(d) ==
  /\ pc = "idle"
  /\ desire' = d
  /\ Goto(IF d = "curiosity" THEN "guard" ELSE "pre")
  /\ UNCHANGED <<flagVars, rows, target, stage, noise, reply, faults>>

\* A transaction that succeeds, or one that raises and sends the thread to l.
Commit(newRows) ==
  rows' = newRows /\ faults' = faults

Locked(l) ==
  /\ faults < MaxFaults
  /\ faults' = faults + 1
  /\ rows' = rows
  /\ Goto(l)

-----------------------------------------------------------------------------
(* talk, reflect and rest: one LLM call between two looks at the flag.     *)

PreCheck ==
  /\ pc = "pre"
  /\ Goto(IF active[desire] THEN "llm" ELSE "finish")
  /\ UNCHANGED <<flagVars, rows, desire, target, stage, noise, reply, faults>>

GenerateReply ==
  /\ pc = "llm"
  /\ Goto("post") \/ Goto("finish")
  /\ UNCHANGED <<flagVars, rows, desire, target, stage, noise, reply, faults>>

PostCheck ==
  /\ pc = "post"
  /\ reply' = active[desire]
  /\ Goto("finish")
  /\ UNCHANGED <<flagVars, rows, desire, target, stage, noise, faults>>

-----------------------------------------------------------------------------
(* curiosity: the search pipeline.                                         *)

Guard ==
  /\ pc = "guard"
  /\ Goto(IF active[desire] THEN "recover" ELSE "finish")
  /\ UNCHANGED <<flagVars, rows, desire, target, stage, noise, reply, faults>>

Recover ==
  /\ pc = "recover"
  /\ \/ Commit(RecoverStale(rows)) /\ Goto("pick")
     \/ Locked("finish")
  /\ UNCHANGED <<flagVars, desire, target, stage, noise, reply>>

Pick ==
  /\ pc = "pick"
  /\ \/ \E i \in MostUrgent(rows) : target' = i /\ Goto("starting") /\ Commit(rows)
     \/ MostUrgent(rows) = {} /\ target' = 0 /\ Goto("finish") /\ Commit(rows)
     \/ Locked("finish") /\ target' = target
  /\ UNCHANGED <<flagVars, desire, stage, noise, reply>>

\* The text that announces the search comes before the status changes.
StartingTweet ==
  /\ pc = "starting"
  /\ Goto("mark") \/ Goto("finish")
  /\ UNCHANGED <<flagVars, rows, desire, target, stage, noise, reply, faults>>

MarkSearching ==
  /\ pc = "mark"
  /\ \/ Commit(SetStatus(rows, target, "searching")) /\ Goto("check")
     \/ Locked("finish")
  /\ UNCHANGED <<flagVars, desire, target, stage, noise, reply>>

\* Slip: the abort leaves the row searching.
CheckStageForgets ==
  /\ pc = "check"
  /\ Goto(IF active[desire] THEN "work" ELSE "finish") /\ Commit(rows)
  /\ UNCHANGED <<flagVars, desire, target, stage, noise, reply>>

\* Before each stage: when the flag is down the target goes back to pending.
\* That transaction is inside the try block, so its failure is a failed search.
CheckStage ==
  /\ pc = "check"
  /\ \/ active[desire] /\ Goto("work") /\ Commit(rows)
     \/ ~active[desire] /\ Commit(SetStatus(rows, target, "pending")) /\ Goto("finish")
     \/ ~active[desire] /\ Locked("failed")
  /\ UNCHANGED <<flagVars, desire, target, stage, noise, reply>>

\* Decompose, search, summarise.
WorkStage ==
  /\ pc = "work" /\ stage < 4
  /\ \/ Goto("check") /\ stage' = stage + 1
     \/ Goto("failed") /\ UNCHANGED stage
  /\ UNCHANGED <<flagVars, rows, desire, target, noise, reply, faults>>

\* The topics extract_noise_topics may return: few, and no two equal when case
\* is ignored (_validate_noise_topics).
NoiseLists ==
  {s \in UNION {[1..n -> Topics] : n \in 0..MaxNoise} :
     \A i, j \in DOMAIN s : CaseFold[s[i]] = CaseFold[s[j]] => i = j}

ExtractNoise ==
  /\ pc = "work" /\ stage = 4
  /\ \/ noise' \in NoiseLists /\ Goto("done")
     \/ Goto("failed") /\ UNCHANGED noise
  /\ UNCHANGED <<flagVars, rows, desire, target, stage, reply, faults>>

MarkFailed ==
  /\ pc = "failed"
  /\ \/ Commit(SetStatus(rows, target, "failed")) /\ Goto("finish")
     \/ Locked("finish")
  /\ UNCHANGED <<flagVars, desire, target, stage, noise, reply>>

\* Outside the try block: when it fails the row is left searching.
MarkDone ==
  /\ pc = "done"
  /\ \/ Commit(SetStatus(rows, target, "done")) /\ Goto("register")
     \/ Locked("finish")
  /\ UNCHANGED <<flagVars, desire, target, stage, noise, reply>>

\* Slip: off by one.
AtCapLate == CountPending(rows) > MaxPending

AtCap == CountPending(rows) >= MaxPending

\* One derived topic: the cap ends the loop, a known topic is skipped.
RegisterNoise ==
  /\ pc = "register" /\ noise # <<>>
  /\ \/ /\ AtCap
        /\ Commit(rows) /\ noise' = <<>> /\ Goto("register")
     \/ /\ ~AtCap
        /\ TopicExists(rows, Head(noise))
        /\ Commit(rows) /\ noise' = Tail(noise) /\ Goto("register")
     \/ /\ ~AtCap
        /\ ~TopicExists(rows, Head(noise))
        /\ Len(rows) < MaxRows
        /\ Commit(Create(rows, Head(noise), target))
        /\ noise' = Tail(noise) /\ Goto("register")
     \/ Locked("finish") /\ UNCHANGED noise
  /\ UNCHANGED <<flagVars, desire, target, stage, reply>>

EndRegister ==
  /\ pc = "register" /\ noise = <<>>
  /\ Goto("completion")
  /\ UNCHANGED <<flagVars, rows, desire, target, stage, noise, reply, faults>>

\* The completion text is what the call returns; the flag is not read again.
CompletionTweet ==
  /\ pc = "completion"
  /\ reply' \in BOOLEAN
  /\ Goto("finish")
  /\ UNCHANGED <<flagVars, rows, desire, target, stage, noise, faults>>

-----------------------------------------------------------------------------
(* The environment.                                                        *)

\* A cycle of the desire worker, or one of its callbacks.
WorkerStep ==
  /\ \/ \E a \in Announcers, S \in SUBSET DesireTypes : S # {} /\ Flags!Raise(a, S)
     \/ \E a \in Announcers, d \in DesireTypes : Flags!Announce(a, d)
  /\ UNCHANGED <<rows, turnVars, faults>>

\* reset_all, which the thread that receives the user's input calls.
UserInput ==
  /\ Flags!ResetAll
  /\ UNCHANGED <<rows, turnVars, faults>>

\* The process dies and is started again: only the table is left.
Crash ==
  /\ faults < MaxFaults
  /\ faults' = faults + 1
  /\ active' = [d \in DesireTypes |-> FALSE]
  /\ owed' = {}
  /\ announced' = [d \in DesireTypes |-> FALSE]
  /\ Return
  /\ UNCHANGED rows

TurnStep ==
  \/ PreCheck \/ GenerateReply \/ PostCheck
  \/ Guard \/ Recover \/ Pick \/ StartingTweet \/ MarkSearching
  \/ CheckStage \/ WorkStage \/ ExtractNoise \/ MarkFailed \/ MarkDone
  \/ RegisterNoise \/ EndRegister \/ CompletionTweet \/ Finish

Next ==
  \/ \E d \in DesireTypes : Begin(d)
  \/ TurnStep
  \/ WorkerStep
  \/ UserInput
  \/ Crash

Spec == Init /\ [][Next]_vars

\* LLM calls and searches have timeouts and transactions are retried a bounded
\* number of times, so a call that has begun goes on; nobody has to begin one.
FairSpec == Spec /\ WF_vars(TurnStep)

-----------------------------------------------------------------------------
(* Safety.                                                                 *)

\* However calls are aborted, fail, crash and are repeated, at most one row is
\* being searched (agent_core.py:567-588, db.py:613-642).
OneSearching == Cardinality(WithStatus(rows, "searching")) <= 1

\* A row is added only when the rows still to be worked on stay within the cap,
\* although the check counts pending rows only, is a transaction of its own, and
\* rows return to pending from abort and recovery (agent_core.py:634-650).
AddedWithinCap ==
  [][Len(rows') > Len(rows) =>
       Cardinality(WithStatus(rows', "pending") \cup WithStatus(rows', "searching"))
         <= MaxPending]_rows

\* Without a failed transaction or a crash, a row is searching only while the
\* call that marked it is in its pipeline: every abort and every exception puts
\* the row back or fails it (agent_core.py:588-632).
SearchingIsOwned ==
  faults = 0 =>
    \A i \in WithStatus(rows, "searching") :
      i = target /\ pc \in {"check", "work", "failed", "done"}

\* No topic is stored twice, done and failed ones included, across any number of
\* calls and crashes (agent_core.py:642-650, db.py:645-668).
NoDuplicateTopic ==
  \A i, j \in Ids(rows) : SqlLower[rows[i].topic] = SqlLower[rows[j].topic] => i = j

\* What has been done or has failed is never searched again (db.py:613-642).
TerminalIsFinal ==
  [][\A i \in Ids(rows) :
        rows[i].status \in {"done", "failed"} => rows'[i] = rows[i]]_rows

(* Liveness.                                                               *)

\* A row that is being searched gets another status, unless the process died or
\* a transaction failed (agent_core.py:588-632).
SearchEnds ==
  WithStatus(rows, "searching") # {} ~>
    (WithStatus(rows, "searching") = {} \/ faults > 0)
=============================================================================
