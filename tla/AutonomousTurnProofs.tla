------------------------ MODULE AutonomousTurnProofs ------------------------
(***************************************************************************)
(* Proofs about AutonomousTurn, for any desires, topics, foldings, caps,   *)
(* tables and numbers of faults.                                           *)
(***************************************************************************)
EXTENDS AutonomousTurn, FiniteSetTheorems, TLAPS

-----------------------------------------------------------------------------
(* Type correctness.                                                       *)

\* A row with another status is a row.
LEMMA RowTyped ==
  ASSUME NEW row \in Row, NEW status \in Statuses
  PROVE  /\ [row EXCEPT !.status = status] \in Row
         /\ [row EXCEPT !.status = status].status = status
         /\ [row EXCEPT !.status = status].topic = row.topic
BY DEF Row

\* The operations of the table return tables.
LEMMA TableTyped ==
  ASSUME NEW table \in Seq(Row)
  PROVE  /\ RecoverStale(table) \in Seq(Row) /\ Len(RecoverStale(table)) = Len(table)
         /\ \A i \in Ids(table), status \in Statuses :
              /\ SetStatus(table, i, status) \in Seq(Row)
              /\ Len(SetStatus(table, i, status)) = Len(table)
         /\ \A topic \in Topics, parent \in 0..MaxRows :
              /\ Create(table, topic, parent) \in Seq(Row)
              /\ Len(Create(table, topic, parent)) = Len(table) + 1
<1>1. \A i \in Ids(table) : table[i] \in Row
  BY DEF Ids
<1>2. RecoverStale(table) \in Seq(Row) /\ Len(RecoverStale(table)) = Len(table)
  <2>1. ASSUME NEW i \in Ids(table) PROVE RecoverStale(table)[i] \in Row
    <3>1. [table[i] EXCEPT !.status = "pending"] \in Row
      BY <1>1, RowTyped DEF Statuses
    <3> QED
      BY <1>1, <3>1 DEF RecoverStale
  <2> QED
    BY <2>1 DEF RecoverStale, Ids
<1>3. ASSUME NEW i \in Ids(table), NEW status \in Statuses
      PROVE  SetStatus(table, i, status) \in Seq(Row) /\ Len(SetStatus(table, i, status)) = Len(table)
  <2>1. [table[i] EXCEPT !.status = status] \in Row
    BY <1>1, RowTyped
  <2> QED
    BY <2>1 DEF SetStatus, Ids
<1>4. ASSUME NEW topic \in Topics, NEW parent \in 0..MaxRows
      PROVE  /\ Create(table, topic, parent) \in Seq(Row)
             /\ Len(Create(table, topic, parent)) = Len(table) + 1
  BY DEF Create, Row, Statuses, DefaultPriority
<1> QED
  BY <1>2, <1>3, <1>4
\* What they leave of the rows.
LEMMA StatusSet ==
  ASSUME NEW table \in Seq(Row), NEW i \in Ids(table), NEW status \in Statuses
  PROVE  \A k \in Ids(table) :
           /\ SetStatus(table, i, status)[k].topic = table[k].topic
           /\ SetStatus(table, i, status)[k].status = IF k = i THEN status ELSE table[k].status
           /\ k # i => SetStatus(table, i, status)[k] = table[k]
<1> TAKE k \in Ids(table)
<1>1. table[i] \in Row
  BY DEF Ids
<1>2. CASE k = i
  <2>1. SetStatus(table, i, status)[k] = [table[i] EXCEPT !.status = status]
    BY <1>2 DEF SetStatus, Ids
  <2> QED
    BY <1>1, <1>2, <2>1, RowTyped
<1>3. CASE k # i
  BY <1>3 DEF SetStatus, Ids
<1> QED
  BY <1>2, <1>3

LEMMA StaleRecovered ==
  ASSUME NEW table \in Seq(Row)
  PROVE  \A k \in Ids(table) :
           /\ RecoverStale(table)[k].topic = table[k].topic
           /\ RecoverStale(table)[k].status # "searching"
           /\ table[k].status # "searching" => RecoverStale(table)[k] = table[k]
<1> TAKE k \in Ids(table)
<1>1. table[k] \in Row
  BY DEF Ids
<1>2. CASE table[k].status = "searching"
  <2>1. RecoverStale(table)[k] = [table[k] EXCEPT !.status = "pending"]
    BY <1>2 DEF RecoverStale
  <2> QED
    BY <1>1, <1>2, <2>1, RowTyped DEF Statuses
<1>3. CASE table[k].status # "searching"
  BY <1>3 DEF RecoverStale
<1> QED
  BY <1>2, <1>3

LEMMA RowCreated ==
  ASSUME NEW table \in Seq(Row), NEW topic, NEW parent
  PROVE  /\ \A k \in Ids(table) : Create(table, topic, parent)[k] = table[k]
         /\ Create(table, topic, parent)[Len(table) + 1].topic = topic
         /\ Create(table, topic, parent)[Len(table) + 1].status = "pending"
BY DEF Create, Ids

-----------------------------------------------------------------------------
(* The inductive invariant.                                                *)

InSearch  == {"check", "work", "failed", "done"}
Chosen    == {"starting", "mark"}
Afterwards == {"register", "completion"}

NoneSearched == \A i \in Ids(rows) : rows[i].status # "searching"

AtMostOne ==
  \A i, j \in Ids(rows) :
    rows[i].status = "searching" /\ rows[j].status = "searching" => i = j

\* The call holds a row from its choice to its end, and knows its status; when it
\* chooses and after it is done no row is being searched; at any other time one row
\* may be, left by a crash or by a transaction that failed.
CallInv ==
  /\ pc # "idle" => desire \in DesireTypes
  /\ pc \in Chosen \cup InSearch \cup Afterwards => target \in Ids(rows)
  /\ pc \in Chosen => rows[target].status = "pending"
  /\ pc \in InSearch => rows[target].status = "searching"
  /\ pc \in {"pick"} \cup Chosen \cup Afterwards \/ (faults = 0 /\ pc \notin InSearch) =>
       NoneSearched
  /\ AtMostOne
  /\ NoDuplicateTopic

\* The table begins with pending rows of different topics.
LEMMA TypedInitially == Init => TypeOK /\ CallInv
<1> SUFFICES ASSUME Init PROVE TypeOK /\ CallInv
  OBVIOUS
<1>0. /\ MaxSeeds \in Nat /\ MaxRows \in Nat /\ MaxFaults \in Nat
      /\ MaxSeeds <= MaxRows /\ SeedPriorities \subseteq Nat
  BY AutonomousTurnAssumption
<1>1. Flags!TypeOK
  BY DEF Init, Flags!Init, Flags!TypeOK
<1>2. PICK n \in 0..MaxSeeds :
        rows \in [1..n -> [topic : Topics, priority : SeedPriorities, status : {"pending"}, parent : {0}]]
  BY DEF Init, Seeds
<1>3. rows \in Seq(Row) /\ Len(rows) = n
  <2>1. [topic : Topics, priority : SeedPriorities, status : {"pending"}, parent : {0}] \subseteq Row
    <3> SUFFICES ASSUME NEW row \in [topic : Topics, priority : SeedPriorities,
                                      status : {"pending"}, parent : {0}]
                 PROVE  row \in Row
      OBVIOUS
    <3>0. row.priority \in Nat
      BY <1>0
    <3>1. row.topic \in Topics
      OBVIOUS
    <3>2. row.status \in Statuses
      BY DEF Statuses
    <3>3. row.parent \in 0..MaxRows
      BY <1>0
    <3> QED
      BY <3>0, <3>1, <3>2, <3>3 DEF Row
  <2>2. rows \in [1..n -> Row]
    BY <1>2, <2>1
  <2> QED
    BY <2>2
<1>4. \A i \in Ids(rows) : rows[i].status = "pending"
  BY <1>2, <1>3 DEF Ids
<1>5. NoDuplicateTopic
  <2>1. \A i, j \in Ids(rows) : CaseFold[rows[i].topic] = CaseFold[rows[j].topic] => i = j
    BY <1>3 DEF Init, Seeds, Ids
  <2>2. \A i \in Ids(rows) : rows[i].topic \in Topics
    BY <1>2, <1>3 DEF Ids
  <2> QED
    BY <2>1, <2>2, AutonomousTurnAssumption DEF NoDuplicateTopic
<1>6. TypeOK
  <2>0. reply \in BOOLEAN
    BY Zenon DEF Init, Idle
  <2>1. noise \in Seq(Topics)
    BY DEF Init, Idle
  <2>2. Len(rows) <= MaxRows
    BY <1>0, <1>3
  <2>3. pc \in PCs /\ desire \in DesireTypes \cup {NoDesire} /\ target \in 0..MaxRows
        /\ stage \in Stages /\ faults \in 0..MaxFaults
    BY <1>0 DEF Init, Idle, PCs, Stages
  <2> QED
    BY <1>1, <1>3, <2>0, <2>1, <2>2, <2>3, Zenon DEF TypeOK
<1>7. CallInv
  BY <1>4, <1>5 DEF CallInv, NoneSearched, AtMostOne, Init, Idle, Chosen, InSearch, Afterwards
<1> QED
  BY <1>6, <1>7

\* The flags keep their types, whoever raises and lowers them.
LEMMA FlagsTyped == TypeOK /\ [Next]_vars => Flags!TypeOK'
<1> SUFFICES ASSUME TypeOK, [Next]_vars PROVE Flags!TypeOK'
  OBVIOUS
<1> USE DEF TypeOK, Flags!TypeOK
<1>1. CASE UNCHANGED flagVars
  BY <1>1 DEF flagVars
<1>2. ASSUME NEW a \in Announcers, NEW S \in SUBSET DesireTypes, Flags!Raise(a, S)
      PROVE  Flags!TypeOK'
  <2>1. active' \in [DesireTypes -> BOOLEAN] /\ announced' \in [DesireTypes -> BOOLEAN]
    BY <1>2, Zenon DEF Flags!Raise
  <2> QED
    BY <1>2, <2>1 DEF Flags!Raise
<1>3. ASSUME NEW a \in Announcers, NEW d \in DesireTypes, Flags!Announce(a, d)
      PROVE  Flags!TypeOK'
  BY <1>3 DEF Flags!Announce
<1>4. CASE Flags!ResetAll
  BY <1>4 DEF Flags!ResetAll
<1>5. CASE Finish
  BY <1>5 DEF Finish, Flags!Reset
<1>6. CASE Crash
  BY <1>6 DEF Crash
<1> QED
  <2>1. TurnStep => Finish \/ UNCHANGED flagVars
    BY DEF TurnStep, PreCheck, GenerateReply, PostCheck, Guard, Recover, Pick, StartingTweet,
       MarkSearching, CheckStage, WorkStage, ExtractNoise, MarkFailed, MarkDone, RegisterNoise,
       EndRegister, CompletionTweet
  <2>2. (\E d \in DesireTypes : Begin(d)) => UNCHANGED flagVars
    BY DEF Begin
  <2> QED
    BY <1>1, <1>2, <1>3, <1>4, <1>5, <1>6, <2>1, <2>2, Zenon
    DEF Next, vars, WorkerStep, UserInput

\* A step that leaves the table alone and keeps the promises of the place it goes to.
LEMMA TableKept ==
  ASSUME CallInv, rows' = rows
  PROVE  NoneSearched' = NoneSearched /\ AtMostOne' /\ NoDuplicateTopic'
BY DEF CallInv, NoneSearched, AtMostOne, NoDuplicateTopic, Ids

\* A step that gives the row of the call another status, when no other is searched.
LEMMA StatusGiven ==
  ASSUME TypeOK, NoDuplicateTopic, target \in Ids(rows), NEW status \in Statuses,
         \A i \in Ids(rows) : i # target => rows[i].status # "searching",
         rows' = SetStatus(rows, target, status)
  PROVE  /\ rows' \in Seq(Row) /\ Len(rows') = Len(rows)
         /\ rows'[target].status = status
         /\ AtMostOne' /\ NoDuplicateTopic'
         /\ status # "searching" => NoneSearched'
<1>1. rows' \in Seq(Row) /\ Len(rows') = Len(rows)
  BY TableTyped DEF TypeOK
<1>2. Ids(rows') = Ids(rows)
  BY <1>1 DEF Ids
<1>3. \A k \in Ids(rows) : /\ rows'[k].topic = rows[k].topic
                            /\ rows'[k].status = IF k = target THEN status ELSE rows[k].status
  BY StatusSet DEF TypeOK
<1> QED
  BY <1>1, <1>2, <1>3 DEF AtMostOne, NoneSearched, NoDuplicateTopic

\* A step that adds a row of a new topic, when no row is being searched.
LEMMA RowAdded ==
  ASSUME TypeOK, CallInv, NoneSearched, NEW topic \in Topics, ~TopicExists(rows, topic),
         target \in Ids(rows), Len(rows) < MaxRows, rows' = Create(rows, topic, target)
  PROVE  /\ rows' \in Seq(Row) /\ Len(rows') = Len(rows) + 1
         /\ NoneSearched' /\ AtMostOne' /\ NoDuplicateTopic'
         /\ \A k \in Ids(rows) : rows'[k] = rows[k]
         /\ rows'[Len(rows) + 1].status = "pending"
<1>0. rows \in Seq(Row) /\ Len(rows) \in Nat /\ Len(rows) <= MaxRows /\ MaxRows \in Nat
  BY AutonomousTurnAssumption DEF TypeOK
<1>1. target \in 0..MaxRows
  BY <1>0 DEF Ids
<1>2. rows' \in Seq(Row) /\ Len(rows') = Len(rows) + 1
  BY <1>0, <1>1, TableTyped
<1>3. Ids(rows') = Ids(rows) \cup {Len(rows) + 1}
  BY <1>0, <1>2 DEF Ids
<1>4. /\ \A k \in Ids(rows) : rows'[k] = rows[k]
      /\ rows'[Len(rows) + 1].topic = topic
      /\ rows'[Len(rows) + 1].status = "pending"
  BY <1>0, RowCreated
<1>5. NoneSearched'
  BY <1>3, <1>4 DEF NoneSearched
<1>6. NoDuplicateTopic'
  BY <1>3, <1>4 DEF NoDuplicateTopic, CallInv, TopicExists
<1> QED
  BY <1>2, <1>4, <1>5, <1>6 DEF AtMostOne, NoneSearched

\* The locals of the call keep their types.
LEMMA LocalsTyped ==
  TypeOK /\ CallInv /\ [Next]_vars =>
    /\ pc' \in PCs /\ desire' \in DesireTypes \cup {NoDesire} /\ target' \in 0..MaxRows
    /\ stage' \in Stages /\ noise' \in Seq(Topics) /\ reply' \in BOOLEAN /\ faults' \in 0..MaxFaults
<1> SUFFICES ASSUME TypeOK, CallInv, [Next]_vars
             PROVE  /\ pc' \in PCs /\ desire' \in DesireTypes \cup {NoDesire}
                    /\ target' \in 0..MaxRows /\ stage' \in Stages /\ noise' \in Seq(Topics)
                    /\ reply' \in BOOLEAN /\ faults' \in 0..MaxFaults
  OBVIOUS
<1>0. /\ MaxRows \in Nat /\ MaxFaults \in Nat
      /\ rows \in Seq(Row) /\ Len(rows) <= MaxRows
  BY AutonomousTurnAssumption DEF TypeOK
<1>1. pc' \in PCs
  BY DEF TypeOK, PCs, Next, vars, turnVars, TurnStep, Begin, WorkerStep, UserInput, Crash, Return, Goto,
     Locked, PreCheck, GenerateReply, PostCheck, Guard, Recover, Pick, StartingTweet, MarkSearching,
     CheckStage, WorkStage, ExtractNoise, MarkFailed, MarkDone, RegisterNoise, EndRegister,
     CompletionTweet, Finish
<1>2. desire' \in DesireTypes \cup {NoDesire}
  BY DEF TypeOK, Next, vars, turnVars, TurnStep, Begin, WorkerStep, UserInput, Crash, Return,
     PreCheck, GenerateReply, PostCheck, Guard, Recover, Pick, StartingTweet, MarkSearching,
     CheckStage, WorkStage, ExtractNoise, MarkFailed, MarkDone, RegisterNoise, EndRegister,
     CompletionTweet, Finish
<1>3. target' \in 0..MaxRows
  <2>1. MostUrgent(rows) \subseteq 0..MaxRows
    BY <1>0 DEF MostUrgent, WithStatus, Ids
  <2>2. Pick => target' \in 0..MaxRows
    BY <1>0, <2>1 DEF Pick, TypeOK
  <2>3. Return => target' \in 0..MaxRows
    BY <1>0 DEF Return
  <2>4. Pick \/ Return \/ UNCHANGED target
    BY DEF Next, vars, turnVars, TurnStep, Begin, WorkerStep, UserInput, Crash,
     PreCheck, GenerateReply, PostCheck, Guard, Recover, StartingTweet, MarkSearching,
     CheckStage, WorkStage, ExtractNoise, MarkFailed, MarkDone, RegisterNoise, EndRegister,
     CompletionTweet, Finish
  <2> QED
    BY <2>2, <2>3, <2>4 DEF TypeOK
<1>4. stage' \in Stages
  BY DEF TypeOK, Stages, Next, vars, turnVars, TurnStep, Begin, WorkerStep, UserInput, Crash, Return,
     PreCheck, GenerateReply, PostCheck, Guard, Recover, Pick, StartingTweet, MarkSearching,
     CheckStage, WorkStage, ExtractNoise, MarkFailed, MarkDone, RegisterNoise, EndRegister,
     CompletionTweet, Finish
<1>5. noise' \in Seq(Topics)
  <2>1. NoiseLists \subseteq Seq(Topics)
    BY DEF NoiseLists
  <2>2. RegisterNoise => noise' \in Seq(Topics)
    <3>1. RegisterNoise => noise # <<>> /\ (noise' = <<>> \/ noise' = Tail(noise) \/ noise' = noise)
      BY DEF RegisterNoise
    <3>2. noise \in Seq(Topics)
      BY DEF TypeOK
    <3>3. noise # <<>> => Tail(noise) \in Seq(Topics)
      BY <3>2
    <3>4. <<>> \in Seq(Topics)
      OBVIOUS
    <3> QED
      BY <3>1, <3>2, <3>3, <3>4, Zenon
  <2>3. RegisterNoise \/ Return \/ noise' \in NoiseLists \/ UNCHANGED noise
    BY DEF Next, vars, turnVars, TurnStep, Begin, WorkerStep, UserInput, Crash,
     PreCheck, GenerateReply, PostCheck, Guard, Recover, Pick, StartingTweet, MarkSearching,
     CheckStage, WorkStage, ExtractNoise, MarkFailed, MarkDone, EndRegister,
     CompletionTweet, Finish
  <2>4. noise \in Seq(Topics) /\ (Return => noise' = <<>>)
    BY DEF TypeOK, Return
  <2>5. <<>> \in Seq(Topics)
    OBVIOUS
  <2> QED
    BY <2>1, <2>2, <2>3, <2>4, <2>5, Zenon
<1>6. reply' \in BOOLEAN
  <2>1. PostCheck => reply' \in BOOLEAN
    <3>1. active \in [DesireTypes -> BOOLEAN]
      BY Zenon DEF TypeOK, Flags!TypeOK
    <3>2. PostCheck => desire \in DesireTypes
      BY DEF PostCheck, CallInv
    <3> QED
      BY <3>1, <3>2, Zenon DEF PostCheck
  <2>2. Return \/ PostCheck \/ reply' \in BOOLEAN \/ reply' = reply
    BY Zenon DEF Next, vars, turnVars, TurnStep, Begin, WorkerStep, UserInput, Crash,
     PreCheck, GenerateReply, Guard, Recover, Pick, StartingTweet, MarkSearching,
     CheckStage, WorkStage, ExtractNoise, MarkFailed, MarkDone, RegisterNoise, EndRegister,
     CompletionTweet, Finish
  <2> QED
    BY <2>1, <2>2, Zenon DEF TypeOK, Return
<1>7. faults' \in 0..MaxFaults
  BY <1>0 DEF TypeOK, Next, vars, TurnStep, Begin, WorkerStep, UserInput, Crash, Locked, Commit,
     PreCheck, GenerateReply, PostCheck, Guard, Recover, Pick, StartingTweet, MarkSearching,
     CheckStage, WorkStage, ExtractNoise, MarkFailed, MarkDone, RegisterNoise, EndRegister,
     CompletionTweet, Finish
<1> QED
  BY <1>1, <1>2, <1>3, <1>4, <1>5, <1>6, <1>7

-----------------------------------------------------------------------------
(* Every step keeps the table typed and the invariant true.                *)

TableOK == rows \in Seq(Row) /\ Len(rows) <= MaxRows

LEMMA CallStep == TypeOK /\ CallInv /\ [Next]_vars => TableOK' /\ CallInv'
<1> SUFFICES ASSUME TypeOK, CallInv, [Next]_vars PROVE TableOK' /\ CallInv'
  OBVIOUS
<1>0. faults \in Nat /\ TableOK /\ Len(rows) \in Nat /\ MaxRows \in Nat
  BY AutonomousTurnAssumption DEF TypeOK, TableOK
<1>1. rows' = rows => /\ NoneSearched' = NoneSearched /\ AtMostOne' /\ NoDuplicateTopic'
                      /\ Ids(rows') = Ids(rows) /\ TableOK'
  BY <1>0, TableKept DEF TableOK
\* Another status for the row of the call.
<1>2. ASSUME NEW status \in Statuses, target \in Ids(rows),
             \A i \in Ids(rows) : i # target => rows[i].status # "searching",
             rows' = SetStatus(rows, target, status)
      PROVE  /\ TableOK' /\ Ids(rows') = Ids(rows) /\ rows'[target].status = status
             /\ AtMostOne' /\ NoDuplicateTopic' /\ (status # "searching" => NoneSearched')
  <2>1. NoDuplicateTopic
    BY DEF CallInv
  <2> QED
    BY <1>0, <1>2, <2>1, StatusGiven DEF TableOK, Ids
<1>3. pc \in InSearch => /\ target \in Ids(rows)
                         /\ \A i \in Ids(rows) : i # target => rows[i].status # "searching"
  BY DEF CallInv, AtMostOne
<1>4. Statuses = {"pending", "searching", "done", "failed"}
  BY DEF Statuses
<1> USE DEF CallInv, Goto, Chosen, InSearch, Afterwards
<1> HIDE DEF NoneSearched, AtMostOne, NoDuplicateTopic, Ids, TableOK
<1>5. CASE UNCHANGED <<rows, turnVars, faults>>
  BY <1>1, <1>5 DEF turnVars
<1>6. CASE \E d \in DesireTypes : Begin(d)
  BY <1>0, <1>1, <1>6 DEF Begin
<1>7. CASE PreCheck \/ GenerateReply \/ PostCheck \/ Guard
  BY <1>0, <1>1, <1>7 DEF PreCheck, GenerateReply, PostCheck, Guard
<1>8. CASE Recover
  <2>1. CASE Commit(RecoverStale(rows)) /\ Goto("pick")
    <3>1. TableOK' /\ Ids(rows') = Ids(rows)
      BY <1>0, <2>1, TableTyped DEF TableOK, Commit, Ids
    <3>2. \A k \in Ids(rows) : rows'[k].topic = rows[k].topic /\ rows'[k].status # "searching"
      BY <1>0, <2>1, StaleRecovered DEF TableOK, Commit
    <3>3. NoneSearched' /\ NoDuplicateTopic' /\ AtMostOne'
      BY <3>1, <3>2 DEF NoneSearched, NoDuplicateTopic, AtMostOne
    <3> QED
      BY <1>8, <2>1, <3>1, <3>3 DEF Recover
  <2>2. CASE Locked("finish")
    BY <1>0, <1>1, <1>8, <2>2 DEF Recover, Locked
  <2> QED
    BY <1>8, <2>1, <2>2 DEF Recover
<1>9. CASE Pick
  <2>1. \A i \in MostUrgent(rows) : i \in Ids(rows) /\ rows[i].status = "pending"
    BY DEF MostUrgent, WithStatus
  <2> QED
    BY <1>0, <1>1, <1>9, <2>1 DEF Pick, Commit, Locked
<1>10. CASE StartingTweet
  BY <1>0, <1>1, <1>10 DEF StartingTweet
<1>11. CASE MarkSearching
  <2>1. CASE Commit(SetStatus(rows, target, "searching")) /\ Goto("check")
    <3>1. target \in Ids(rows) /\ \A i \in Ids(rows) : i # target => rows[i].status # "searching"
      BY <1>11 DEF MarkSearching, NoneSearched
    <3>2. /\ TableOK' /\ Ids(rows') = Ids(rows) /\ rows'[target].status = "searching"
          /\ AtMostOne' /\ NoDuplicateTopic'
      BY <1>2, <1>4, <2>1, <3>1 DEF Commit
    <3> QED
      BY <1>11, <2>1, <3>1, <3>2 DEF MarkSearching
  <2>2. CASE Locked("finish")
    BY <1>0, <1>1, <1>11, <2>2 DEF MarkSearching, Locked
  <2> QED
    BY <1>11, <2>1, <2>2 DEF MarkSearching
<1>12. CASE CheckStage
  <2>1. CASE active[desire] /\ Goto("work") /\ Commit(rows)
    BY <1>0, <1>1, <1>12, <2>1 DEF CheckStage, Commit
  <2>2. CASE Commit(SetStatus(rows, target, "pending")) /\ Goto("finish")
    <3>1. TableOK' /\ NoneSearched' /\ AtMostOne' /\ NoDuplicateTopic'
      BY <1>2, <1>3, <1>4, <1>12, <2>2 DEF Commit, CheckStage
    <3> QED
      BY <1>12, <2>2, <3>1 DEF CheckStage
  <2>3. CASE Locked("failed")
    BY <1>0, <1>1, <1>12, <2>3 DEF CheckStage, Locked
  <2> QED
    BY <1>12, <2>1, <2>2, <2>3 DEF CheckStage
<1>13. CASE WorkStage \/ ExtractNoise
  BY <1>0, <1>1, <1>13 DEF WorkStage, ExtractNoise
<1>14. CASE MarkFailed
  <2>1. CASE Commit(SetStatus(rows, target, "failed")) /\ Goto("finish")
    <3>1. TableOK' /\ NoneSearched' /\ AtMostOne' /\ NoDuplicateTopic'
      BY <1>2, <1>3, <1>4, <1>14, <2>1 DEF Commit, MarkFailed
    <3> QED
      BY <1>14, <2>1, <3>1 DEF MarkFailed
  <2>2. CASE Locked("finish")
    BY <1>0, <1>1, <1>14, <2>2 DEF MarkFailed, Locked
  <2> QED
    BY <1>14, <2>1, <2>2 DEF MarkFailed
<1>15. CASE MarkDone
  <2>1. CASE Commit(SetStatus(rows, target, "done")) /\ Goto("register")
    <3>1. TableOK' /\ NoneSearched' /\ AtMostOne' /\ NoDuplicateTopic' /\ Ids(rows') = Ids(rows)
      BY <1>2, <1>3, <1>4, <1>15, <2>1 DEF Commit, MarkDone
    <3> QED
      BY <1>3, <1>15, <2>1, <3>1 DEF MarkDone
  <2>2. CASE Locked("finish")
    BY <1>0, <1>1, <1>15, <2>2 DEF MarkDone, Locked
  <2> QED
    BY <1>15, <2>1, <2>2 DEF MarkDone
<1>16. CASE RegisterNoise
  <2>1. CASE rows' = rows
    BY <1>0, <1>1, <1>16, <2>1 DEF RegisterNoise, Commit, Locked
  <2>2. CASE rows' # rows
    <3>1. /\ pc = "register" /\ noise # <<>> /\ ~TopicExists(rows, Head(noise))
          /\ Len(rows) < MaxRows /\ rows' = Create(rows, Head(noise), target)
          /\ pc' = "register" /\ UNCHANGED <<desire, target>>
      BY <1>16, <2>2 DEF RegisterNoise, Commit, Locked
    <3>2. Head(noise) \in Topics
      BY <3>1 DEF TypeOK
    <3>3. target \in Ids(rows) /\ NoneSearched
      BY <3>1
    <3>4. /\ rows' \in Seq(Row) /\ Len(rows') = Len(rows) + 1
          /\ NoneSearched' /\ AtMostOne' /\ NoDuplicateTopic'
      BY <3>1, <3>2, <3>3, RowAdded, Zenon
    <3>5. TableOK' /\ target' \in Ids(rows')
      BY <1>0, <3>1, <3>3, <3>4 DEF TableOK, Ids
    <3> QED
      BY <3>1, <3>4, <3>5
  <2> QED
    BY <2>1, <2>2
<1>17. CASE EndRegister \/ CompletionTweet
  BY <1>0, <1>1, <1>17 DEF EndRegister, CompletionTweet
<1>18. CASE Finish
  BY <1>0, <1>1, <1>18 DEF Finish, Return
<1>19. CASE Crash
  BY <1>0, <1>1, <1>19 DEF Crash, Return
<1> QED
  BY <1>5, <1>6, <1>7, <1>8, <1>9, <1>10, <1>11, <1>12, <1>13, <1>14, <1>15, <1>16, <1>17, <1>18,
     <1>19
  DEF Next, vars, TurnStep, WorkerStep, UserInput

-----------------------------------------------------------------------------
(* The theorems.                                                           *)

LEMMA AlwaysInvariant == Spec => [](TypeOK /\ CallInv)
<1>1. Init => TypeOK /\ CallInv
  BY TypedInitially
<1>2. TypeOK /\ CallInv /\ [Next]_vars => (TypeOK /\ CallInv)'
  <2> SUFFICES ASSUME TypeOK, CallInv, [Next]_vars PROVE TypeOK' /\ CallInv'
    OBVIOUS
  <2>1. TableOK' /\ CallInv' /\ Flags!TypeOK'
    BY CallStep, FlagsTyped
  <2>2. /\ pc' \in PCs /\ desire' \in DesireTypes \cup {NoDesire} /\ target' \in 0..MaxRows
        /\ stage' \in Stages /\ noise' \in Seq(Topics) /\ reply' \in BOOLEAN
        /\ faults' \in 0..MaxFaults
    BY LocalsTyped, Zenon
  <2> QED
    BY <2>1, <2>2, Zenon DEF TypeOK, TableOK
<1> QED
  BY <1>1, <1>2, PTL DEF Spec

\* The variables of the call, of the flags and of the table keep their types; the
\* table never grows past its bound.
THEOREM TypesCorrect == Spec => []TypeOK
BY AlwaysInvariant, PTL

\* However calls are aborted, fail, crash and are repeated, at most one row is being
\* searched (agent_core.py:567-588, db.py:613-642).
THEOREM OneSearch == Spec => []OneSearching
<1>1. TypeOK /\ CallInv => OneSearching
  <2> SUFFICES ASSUME TypeOK, CallInv PROVE OneSearching
    OBVIOUS
  <2>1. CASE WithStatus(rows, "searching") = {}
    <3>1. Cardinality(WithStatus(rows, "searching")) = 0
      BY <2>1, FS_EmptySet
    <3> QED
      BY <3>1 DEF OneSearching
  <2>2. ASSUME NEW i \in WithStatus(rows, "searching") PROVE OneSearching
    <3>1. WithStatus(rows, "searching") = {i}
      BY <2>2 DEF WithStatus, CallInv, AtMostOne
    <3>2. Cardinality({i}) = 1
      BY FS_Singleton
    <3> QED
      BY <3>1, <3>2 DEF OneSearching
  <2> QED
    BY <2>1, <2>2
<1> QED
  BY <1>1, AlwaysInvariant, PTL

\* Without a failed transaction or a crash, a row is searching only while the call
\* that marked it is in its pipeline (agent_core.py:588-632).
THEOREM SearchOwned == Spec => []SearchingIsOwned
<1>1. TypeOK /\ CallInv => SearchingIsOwned
  BY DEF SearchingIsOwned, CallInv, WithStatus, InSearch, AtMostOne, NoneSearched
<1> QED
  BY <1>1, AlwaysInvariant, PTL

\* No topic is stored twice, done and failed ones included, across any number of
\* calls and crashes (agent_core.py:642-650, db.py:645-668).
THEOREM TopicsUnique == Spec => []NoDuplicateTopic
<1>1. CallInv => NoDuplicateTopic
  BY DEF CallInv
<1> QED
  BY <1>1, AlwaysInvariant, PTL

\* A step that changes the table recovers it, gives the unfinished row of the call
\* another status, or adds a new topic below the cap.
LEMMA TableChanges ==
  ASSUME TypeOK, CallInv, [Next]_vars, rows' # rows
  PROVE  \/ rows' = RecoverStale(rows)
         \/ /\ target \in Ids(rows) /\ rows[target].status \in {"pending", "searching"}
            /\ \E status \in Statuses : rows' = SetStatus(rows, target, status)
         \/ /\ pc = "register" /\ ~AtCap /\ rows' = Create(rows, Head(noise), target)
<1> USE DEF CallInv, Chosen, InSearch
<1>1. CASE Recover
  BY <1>1 DEF Recover, Commit, Locked
<1>2. CASE MarkSearching \/ CheckStage \/ MarkFailed \/ MarkDone
  BY <1>2 DEF MarkSearching, CheckStage, MarkFailed, MarkDone, Commit, Locked, Statuses
<1>3. CASE RegisterNoise
  BY <1>3 DEF RegisterNoise, Commit, Locked
<1> QED
  BY <1>1, <1>2, <1>3
  DEF Next, vars, TurnStep, Begin, WorkerStep, UserInput, Crash, PreCheck, GenerateReply, PostCheck,
      Guard, Pick, Commit, Locked, StartingTweet, WorkStage, ExtractNoise, EndRegister,
      CompletionTweet, Finish

\* What has been done or has failed is never searched again (db.py:613-642).
THEOREM FinalStays == Spec => TerminalIsFinal
<1>1. ASSUME TypeOK, CallInv, [Next]_vars, rows' # rows, NEW i \in Ids(rows),
             rows[i].status \in {"done", "failed"}
      PROVE  rows'[i] = rows[i]
  <2>0. rows \in Seq(Row)
    BY <1>1 DEF TypeOK
  <2>1. CASE rows' = RecoverStale(rows)
    BY <1>1, <2>0, <2>1, StaleRecovered
  <2>2. CASE /\ target \in Ids(rows) /\ rows[target].status \in {"pending", "searching"}
             /\ \E status \in Statuses : rows' = SetStatus(rows, target, status)
    BY <1>1, <2>0, <2>2, StatusSet
  <2>3. CASE rows' = Create(rows, Head(noise), target)
    BY <1>1, <2>0, <2>3, RowCreated
  <2> QED
    BY <1>1, <2>1, <2>2, <2>3, TableChanges
<1>2. TypeOK /\ CallInv /\ [Next]_vars
        => [\A i \in Ids(rows) : rows[i].status \in {"done", "failed"} => rows'[i] = rows[i]]_rows
  BY <1>1
<1> QED
  BY <1>2, AlwaysInvariant, PTL DEF Spec, TerminalIsFinal

\* A row is added only when the rows still to be worked on stay within the cap,
\* although the check counts pending rows only and is a transaction of its own
\* (agent_core.py:634-650).
THEOREM CapKept == Spec => AddedWithinCap
<1>1. ASSUME TypeOK, CallInv, [Next]_vars, rows' # rows, Len(rows') > Len(rows)
      PROVE  Cardinality(WithStatus(rows', "pending") \cup WithStatus(rows', "searching"))
               <= MaxPending
  <2>0. rows \in Seq(Row) /\ Len(rows) \in Nat /\ MaxPending \in Nat
    BY <1>1, AutonomousTurnAssumption DEF TypeOK
  <2>1. pc = "register" /\ ~AtCap /\ rows' = Create(rows, Head(noise), target)
    <3>1. rows' # RecoverStale(rows)
      BY <1>1, <2>0, TableTyped
    <3>2. ASSUME NEW status \in Statuses, target \in Ids(rows), rows' = SetStatus(rows, target, status)
          PROVE  FALSE
      BY <1>1, <2>0, <3>2, TableTyped
    <3> QED
      BY <1>1, <3>1, <3>2, TableChanges
  <2>2. NoneSearched
    BY <1>1, <2>1 DEF CallInv, Afterwards
  <2>3. /\ \A k \in Ids(rows) : rows'[k] = rows[k]
        /\ rows'[Len(rows) + 1].status = "pending"
        /\ Ids(rows') = Ids(rows) \cup {Len(rows) + 1} /\ Len(rows) + 1 \notin Ids(rows)
    <3>1. Len(rows') = Len(rows) + 1
      BY <2>0, <2>1 DEF Create
    <3> QED
      BY <2>0, <2>1, <3>1, RowCreated DEF Ids
  <2>4. WithStatus(rows', "pending") \cup WithStatus(rows', "searching")
          = WithStatus(rows, "pending") \cup {Len(rows) + 1}
    BY <2>2, <2>3 DEF WithStatus, NoneSearched
  <2>5. IsFiniteSet(WithStatus(rows, "pending"))
    <3>1. IsFiniteSet(1..Len(rows))
      BY <2>0, FS_Interval
    <3> QED
      BY <3>1, FS_Subset DEF WithStatus, Ids
  <2>6. Cardinality(WithStatus(rows, "pending") \cup {Len(rows) + 1})
          = Cardinality(WithStatus(rows, "pending")) + 1
    BY <2>3, <2>5, FS_AddElement DEF WithStatus
  <2>7. Cardinality(WithStatus(rows, "pending")) \in Nat
    BY <2>5, FS_CardinalityType
  <2>8. ~(Cardinality(WithStatus(rows, "pending")) >= MaxPending)
    BY <2>1 DEF AtCap, CountPending
  <2>9. Cardinality(WithStatus(rows, "pending")) + 1 <= MaxPending
    BY <2>0, <2>7, <2>8
  <2> QED
    BY <2>4, <2>6, <2>9, Zenon
<1>2. TypeOK /\ CallInv /\ [Next]_vars
        => [Len(rows') > Len(rows) =>
              Cardinality(WithStatus(rows', "pending") \cup WithStatus(rows', "searching"))
                <= MaxPending]_rows
  BY <1>1
<1> QED
  BY <1>2, AlwaysInvariant, PTL DEF Spec, AddedWithinCap

-----------------------------------------------------------------------------
(* A call comes to its end.                                                *)

\* How many steps of its own a call has before it at most.
Remaining ==
  CASE pc = "idle" -> 0
    [] pc = "finish" -> 1
    [] pc \in {"post", "failed", "completion"} -> 2
    [] pc = "llm" -> 3
    [] pc = "pre" -> 4
    [] pc = "register" -> 3 + Len(noise)
    [] pc = "done" -> 4 + Len(noise)
    [] pc = "work" -> 5 + MaxNoise + 2 * (4 - stage)
    [] pc = "check" -> 6 + MaxNoise + 2 * (4 - stage)
    [] pc = "mark" -> 13 + MaxNoise
    [] pc = "starting" -> 14 + MaxNoise
    [] pc = "pick" -> 15 + MaxNoise
    [] pc = "recover" -> 16 + MaxNoise
    [] pc = "guard" -> 17 + MaxNoise

\* What a state says of the number of steps left, by its place and its locals.
Left(n, l, s, k) ==
  /\ n \in Nat
  /\ l = "idle" => n = 0
  /\ l = "finish" => n = 1
  /\ l \in {"post", "failed", "completion"} => n = 2
  /\ l = "llm" => n = 3
  /\ l = "pre" => n = 4
  /\ l = "register" => n = 3 + k
  /\ l = "done" => n = 4 + k
  /\ l = "work" => n = 5 + MaxNoise + 2 * (4 - s)
  /\ l = "check" => n = 6 + MaxNoise + 2 * (4 - s)
  /\ l = "mark" => n = 13 + MaxNoise
  /\ l = "starting" => n = 14 + MaxNoise
  /\ l = "pick" => n = 15 + MaxNoise
  /\ l = "recover" => n = 16 + MaxNoise
  /\ l = "guard" => n = 17 + MaxNoise

\* A number that its place determines is a number of steps.
LEMMA LeftCounted ==
  ASSUME NEW n, NEW l \in PCs, NEW s \in 1..4, NEW k \in Nat, MaxNoise \in Nat,
         l = "register" => n = 3 + k,
         l = "done" => n = 4 + k,
         l = "work" => n = 5 + MaxNoise + 2 * (4 - s),
         l = "check" => n = 6 + MaxNoise + 2 * (4 - s),
         l \in {"mark", "starting", "pick", "recover", "guard"} => n \in 13 + MaxNoise..17 + MaxNoise,
         l \in {"idle", "finish", "post", "failed", "completion", "llm", "pre"} => n \in 0..4
  PROVE  n \in Nat
<1>1. CASE l \in {"register", "done"}
  BY <1>1
<1>2. CASE l \in {"work", "check"}
  <2>1. 4 - s \in Nat
    OBVIOUS
  <2> QED
    BY <1>2, <2>1
<1>3. CASE l \notin {"register", "done", "work", "check"}
  BY <1>3 DEF PCs
<1> QED
  BY <1>1, <1>2, <1>3

\* The number of steps is what its place says.
LEMMA LeftIs ==
  ASSUME TypeOK
  PROVE  /\ Left(Remaining, pc, stage, Len(noise))
         /\ pc \in PCs /\ stage \in 1..4 /\ Len(noise) \in Nat /\ MaxNoise \in Nat
<1>1. pc \in PCs /\ stage \in 1..4 /\ Len(noise) \in Nat /\ MaxNoise \in Nat
  BY AutonomousTurnAssumption DEF TypeOK, Stages
<1> DEFINE k == Len(noise)
<1> HIDE DEF k
<1>2. /\ pc = "register" => Remaining = 3 + k
      /\ pc = "done" => Remaining = 4 + k
      /\ pc = "work" => Remaining = 5 + MaxNoise + 2 * (4 - stage)
      /\ pc = "check" => Remaining = 6 + MaxNoise + 2 * (4 - stage)
      /\ pc \in {"mark", "starting", "pick", "recover", "guard"} =>
           Remaining \in 13 + MaxNoise..17 + MaxNoise
      /\ pc \in {"idle", "finish", "post", "failed", "completion", "llm", "pre"} =>
           Remaining \in 0..4
  BY <1>1 DEF Remaining, k
<1>3. Remaining \in Nat
  <2>1. k \in Nat
    BY <1>1 DEF k
  <2> QED
    BY <1>1, <1>2, <2>1, LeftCounted, Zenon
<1> QED
  BY <1>1, <1>3 DEF Remaining, Left, k

\* The same in the next state.
LEMMA LeftNext ==
  ASSUME TypeOK'
  PROVE  /\ Left(Remaining', pc', stage', Len(noise'))
         /\ pc' \in PCs /\ stage' \in 1..4 /\ Len(noise') \in Nat
<1>1. pc' \in PCs /\ stage' \in 1..4 /\ Len(noise') \in Nat /\ MaxNoise \in Nat
  BY AutonomousTurnAssumption DEF TypeOK, Stages
<1> DEFINE k == Len(noise)
<1> HIDE DEF k
<1>2. /\ pc' = "register" => Remaining' = 3 + k'
      /\ pc' = "done" => Remaining' = 4 + k'
      /\ pc' = "work" => Remaining' = 5 + MaxNoise + 2 * (4 - stage')
      /\ pc' = "check" => Remaining' = 6 + MaxNoise + 2 * (4 - stage')
      /\ pc' \in {"mark", "starting", "pick", "recover", "guard"} =>
           Remaining' \in 13 + MaxNoise..17 + MaxNoise
      /\ pc' \in {"idle", "finish", "post", "failed", "completion", "llm", "pre"} =>
           Remaining' \in 0..4
  BY <1>1 DEF Remaining, k
<1>3. Remaining' \in Nat
  <2>1. k' \in Nat
    BY <1>1 DEF k
  <2> QED
    BY <1>1, <1>2, <2>1, LeftCounted, Zenon
<1> QED
  BY <1>1, <1>3 DEF Remaining, Left, k

\* From where to where a step of a call leads, with the stage and the number of
\* topics that go with it.
Advances(l, m, s, u, k, j) ==
  \/ l \in PCs \ {"idle", "finish"} /\ m = "finish"
  \/ l = "finish" /\ m = "idle"
  \/ l = "pre" /\ m = "llm"
  \/ l = "llm" /\ m = "post"
  \/ l = "guard" /\ m = "recover"
  \/ l = "recover" /\ m = "pick"
  \/ l = "pick" /\ m = "starting"
  \/ l = "starting" /\ m = "mark"
  \/ l = "mark" /\ m = "check"
  \/ l = "check" /\ m = "work" /\ u = s
  \/ l \in {"check", "work"} /\ m = "failed"
  \/ l = "work" /\ m = "check" /\ u = s + 1
  \/ l = "work" /\ m = "done" /\ j <= MaxNoise
  \/ l = "done" /\ m = "register" /\ j = k
  \/ l = "register" /\ m = "register" /\ j < k
  \/ l = "register" /\ m = "completion"

\* Such a step shortens the call.
LEMMA AdvanceShortens ==
  ASSUME NEW l, NEW m, NEW s \in 1..4, NEW u \in 1..4, NEW k \in Nat, NEW j \in Nat,
         NEW n, NEW o, Left(n, l, s, k), Left(o, m, u, j), MaxNoise \in Nat,
         Advances(l, m, s, u, k, j)
  PROVE  o < n
<1>1. CASE l \in PCs \ {"idle", "finish"} /\ m = "finish"
  <2>1. o = 1
    BY <1>1 DEF Left
  <2>2. CASE l \in {"work", "check"}
    BY <2>1, <2>2 DEF Left
  <2>3. CASE l \in {"register", "done"}
    BY <2>1, <2>3 DEF Left
  <2>4. CASE l \in {"mark", "starting", "pick", "recover", "guard"}
    BY <2>1, <2>4 DEF Left
  <2>5. CASE l \in {"post", "failed", "completion", "llm", "pre"}
    BY <2>1, <2>5 DEF Left
  <2> QED
    BY <1>1, <2>2, <2>3, <2>4, <2>5 DEF PCs
<1>2. CASE \/ l = "finish" /\ m = "idle"
           \/ l = "pre" /\ m = "llm"
           \/ l = "llm" /\ m = "post"
  BY <1>2 DEF Left
<1>3. CASE \/ l = "guard" /\ m = "recover"
           \/ l = "recover" /\ m = "pick"
           \/ l = "pick" /\ m = "starting"
           \/ l = "starting" /\ m = "mark"
  BY <1>3 DEF Left
<1>4. CASE l = "mark" /\ m = "check"
  <2>1. n = 13 + MaxNoise /\ o = 6 + MaxNoise + 2 * (4 - u)
    BY <1>4 DEF Left
  <2> QED
    BY <2>1
<1>5. CASE l = "check" /\ m = "work" /\ u = s
  <2>1. n = 6 + MaxNoise + 2 * (4 - s) /\ o = 5 + MaxNoise + 2 * (4 - s)
    BY <1>5 DEF Left
  <2> QED
    BY <2>1
<1>6. CASE l \in {"check", "work"} /\ m = "failed"
  <2>1. n \in {5 + MaxNoise + 2 * (4 - s), 6 + MaxNoise + 2 * (4 - s)} /\ o = 2
    BY <1>6 DEF Left
  <2> QED
    BY <2>1
<1>7. CASE l = "work" /\ m = "check" /\ u = s + 1
  <2>1. n = 5 + MaxNoise + 2 * (4 - s) /\ o = 6 + MaxNoise + 2 * (4 - (s + 1))
    BY <1>7 DEF Left
  <2> QED
    BY <2>1
<1>8. CASE l = "work" /\ m = "done" /\ j <= MaxNoise
  <2>1. n = 5 + MaxNoise + 2 * (4 - s) /\ o = 4 + j
    BY <1>8 DEF Left
  <2> QED
    BY <1>8, <2>1
<1>9. CASE \/ l = "done" /\ m = "register" /\ j = k
           \/ l = "register" /\ m = "register" /\ j < k
           \/ l = "register" /\ m = "completion"
  BY <1>9 DEF Left
<1> QED
  BY <1>1, <1>2, <1>3, <1>4, <1>5, <1>6, <1>7, <1>8, <1>9, Zenon DEF Advances

\* The steps of a call lead where they should.
LEMMA StepAdvances ==
  ASSUME TypeOK, TypeOK', TurnStep
  PROVE  Advances(pc, pc', stage, stage', Len(noise), Len(noise'))
<1>1. CASE PreCheck \/ GenerateReply \/ PostCheck
  BY <1>1 DEF PreCheck, GenerateReply, PostCheck, Goto, Advances, PCs
<1>2. CASE Guard \/ Recover \/ Pick \/ StartingTweet
  BY <1>2 DEF Guard, Recover, Pick, StartingTweet, Goto, Locked, Advances, PCs
<1>3. CASE MarkSearching \/ CheckStage
  BY <1>3 DEF MarkSearching, CheckStage, Goto, Locked, Advances, PCs
<1>4. CASE WorkStage
  BY <1>4 DEF WorkStage, Goto, Advances
<1>5. CASE ExtractNoise
  <2>1. /\ pc = "work"
        /\ (pc' = "done" /\ noise' \in NoiseLists) \/ pc' = "failed"
    BY <1>5 DEF ExtractNoise, Goto
  <2>2. noise' \in NoiseLists => Len(noise') <= MaxNoise
    BY AutonomousTurnAssumption DEF NoiseLists
  <2> QED
    BY <2>1, <2>2, Zenon DEF Advances
<1>6. CASE MarkFailed \/ MarkDone
  BY <1>6 DEF MarkFailed, MarkDone, Goto, Locked, Advances, PCs
<1>7. CASE RegisterNoise
  <2>1. /\ pc = "register" /\ noise # <<>>
        /\ \/ pc' = "register" /\ (noise' = <<>> \/ noise' = Tail(noise))
           \/ pc' = "finish"
    BY <1>7 DEF RegisterNoise, Goto, Locked
  <2>2. noise \in Seq(Topics)
    BY DEF TypeOK
  <2>3. (noise' = <<>> \/ noise' = Tail(noise)) => Len(noise') < Len(noise)
    BY <2>1, <2>2
  <2>4. pc \in PCs \ {"idle", "finish"}
    BY <2>1 DEF PCs
  <2> QED
    BY <2>1, <2>3, <2>4, Zenon DEF Advances
<1>8. CASE EndRegister \/ CompletionTweet \/ Finish
  BY <1>8 DEF EndRegister, CompletionTweet, Finish, Goto, Return, Advances, PCs
<1> QED
  BY <1>1, <1>2, <1>3, <1>4, <1>5, <1>6, <1>7, <1>8, Zenon DEF TurnStep

\* Every step of a call shortens what it has before it, and nothing that timers, the
\* user and crashes do lengthens it.
CallsShorten ==
  [][~(\E d \in DesireTypes : Begin(d)) =>
       Remaining' <= Remaining /\ (TurnStep => Remaining' < Remaining)]_vars

\* A call of handle_autonomous_turn ends after a bounded number of steps, whatever
\* the flags, the table, the LLM and the transactions do in between: its stages and
\* its derived topics are finitely many, and no failure sends it back
\* (agent_core.py:434-661).
THEOREM CallsEnd == Spec => [](Remaining <= 17 + MaxNoise) /\ CallsShorten
<1>1. ASSUME TypeOK, TypeOK', [Next]_vars, ~(\E d \in DesireTypes : Begin(d))
      PROVE  Remaining' <= Remaining /\ (TurnStep => Remaining' < Remaining)
  <2>0. Remaining \in Nat /\ Remaining' \in Nat
    BY <1>1, LeftIs, LeftNext DEF Left
  <2>1. TurnStep => Remaining' < Remaining
    BY <1>1, LeftIs, LeftNext, StepAdvances, AdvanceShortens, Zenon
  <2>2. CASE TurnStep
    BY <2>0, <2>1, <2>2
  <2>3. CASE WorkerStep \/ UserInput \/ UNCHANGED vars
    <3>1. pc' = pc /\ noise' = noise /\ stage' = stage
      BY <2>3, Zenon DEF WorkerStep, UserInput, vars, turnVars
    <3>2. Remaining' = Remaining
      BY <3>1 DEF Remaining
    <3> QED
      BY <2>0, <2>1, <3>2
  <2>4. CASE Crash
    <3>1. pc' = "idle"
      BY <2>4, Zenon DEF Crash, Return
    <3>2. Remaining' = 0
      BY <1>1, <3>1, LeftNext, Zenon DEF Left
    <3> QED
      BY <2>0, <2>1, <3>2
  <2> QED
    BY <1>1, <2>2, <2>3, <2>4, Zenon DEF Next
<1>2. Init /\ TypeOK => Remaining <= 17 + MaxNoise
  BY AutonomousTurnAssumption, LeftIs DEF Init, Idle, Left
<1>3. ASSUME TypeOK, TypeOK', [Next]_vars, Remaining <= 17 + MaxNoise
      PROVE  Remaining' <= 17 + MaxNoise
  <2>0. Remaining \in Nat /\ Remaining' \in Nat /\ MaxNoise \in Nat
    BY <1>3, LeftIs, LeftNext DEF Left
  <2>1. ASSUME NEW d \in DesireTypes, Begin(d) PROVE Remaining' <= 17 + MaxNoise
    <3>1. pc' \in {"guard", "pre"}
      BY <2>1 DEF Begin, Goto
    <3> QED
      BY <1>3, <2>0, <3>1, LeftNext DEF Left
  <2>2. CASE ~(\E d \in DesireTypes : Begin(d))
    <3>1. Remaining' <= Remaining
      BY <1>1, <1>3, <2>2, Zenon
    <3> QED
      BY <1>3, <2>0, <3>1
  <2> QED
    BY <2>1, <2>2
<1>4. TypeOK /\ Remaining <= 17 + MaxNoise /\ TypeOK' /\ [Next]_vars =>
        (Remaining <= 17 + MaxNoise)'
  BY <1>3, Zenon
<1>5. TypeOK /\ TypeOK' /\ [Next]_vars =>
        [~(\E d \in DesireTypes : Begin(d)) =>
           Remaining' <= Remaining /\ (TurnStep => Remaining' < Remaining)]_vars
  BY <1>1, Zenon
<1> QED
  BY <1>2, <1>4, <1>5, TypesCorrect, PTL DEF Spec, CallsShorten
=============================================================================
