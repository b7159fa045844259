---------------------- MODULE ConversationMemoryProofs ----------------------
(***************************************************************************)
(* Proofs about ConversationMemory, for any number of days, turns and      *)
(* faults.                                                                 *)
(***************************************************************************)
EXTENDS ConversationMemory, WellFoundedInduction, TLAPS

-----------------------------------------------------------------------------
(* Sequences of observations.                                              *)

\* The parts of a sequence.
LEMMA Parts ==
  ASSUME NEW s \in Seq(Observation), NEW n \in 0..Len(s)
  PROVE  /\ Prefix(s, n) \in Seq(Observation) /\ Rest(s, n) \in Seq(Observation)
         /\ s = Prefix(s, n) \o Rest(s, n)
<1>1. Prefix(s, n) \in Seq(Observation) /\ Len(Prefix(s, n)) = n
      /\ \A i \in 1..n : Prefix(s, n)[i] = s[i]
  BY DEF Prefix
<1>2. Rest(s, n) \in Seq(Observation) /\ Len(Rest(s, n)) = Len(s) - n
      /\ \A i \in 1..(Len(s) - n) : Rest(s, n)[i] = s[n + i]
  BY DEF Rest
<1> HIDE DEF Prefix, Rest
<1>3. ASSUME NEW i \in 1..Len(s) PROVE s[i] = (Prefix(s, n) \o Rest(s, n))[i]
  <2>0. i \in Nat /\ n \in Nat
    OBVIOUS
  <2>1. CASE i <= n
    BY <1>1, <1>2, <2>1
  <2>2. CASE i > n
    <3>1. (Prefix(s, n) \o Rest(s, n))[i] = Rest(s, n)[i - n]
      BY <1>1, <1>2, <2>2
    <3>2. i - n \in 1..(Len(s) - n) /\ n + (i - n) = i
      BY <2>2
    <3>3. Rest(s, n)[i - n] = s[n + (i - n)]
      BY <1>2, <3>2
    <3> QED
      BY <3>1, <3>2, <3>3, Zenon
  <2>3. i <= n \/ i > n
    BY <2>0
  <2> QED
    BY <2>1, <2>2, <2>3, Zenon
<1>4. Prefix(s, n) \o Rest(s, n) \in Seq(Observation) /\ Len(Prefix(s, n) \o Rest(s, n)) = Len(s)
  BY <1>1, <1>2
<1>5. s = Prefix(s, n) \o Rest(s, n)
  <2> DEFINE u == Prefix(s, n) \o Rest(s, n)
  <2>1. u \in Seq(Observation) /\ Len(u) = Len(s) /\ \A i \in 1..Len(s) : s[i] = u[i]
    BY <1>3, <1>4
  <2> HIDE DEF u
  <2>2. s = u
    BY <2>1
  <2> QED
    BY <2>2 DEF u
<1> QED
  BY <1>1, <1>2, <1>5

\* Where the members of a joined sequence are.
LEMMA Joined ==
  ASSUME NEW s \in Seq(Observation), NEW t \in Seq(Observation)
  PROVE  /\ s \o t \in Seq(Observation)
         /\ \A i \in DOMAIN s : i \in DOMAIN (s \o t) /\ (s \o t)[i] = s[i]
         /\ \A i \in DOMAIN t : i + Len(s) \in DOMAIN (s \o t) /\ (s \o t)[i + Len(s)] = t[i]
         /\ \A i \in DOMAIN (s \o t) :
              \/ (i \in DOMAIN s /\ (s \o t)[i] = s[i])
              \/ (i - Len(s) \in DOMAIN t /\ (s \o t)[i] = t[i - Len(s)])
<1>1. DOMAIN (s \o t) = 1..(Len(s) + Len(t)) /\ DOMAIN s = 1..Len(s) /\ DOMAIN t = 1..Len(t)
  OBVIOUS
<1>2. \A i \in DOMAIN s : i \in DOMAIN (s \o t) /\ (s \o t)[i] = s[i]
  BY <1>1
<1>3. \A i \in DOMAIN t : i + Len(s) \in DOMAIN (s \o t) /\ (s \o t)[i + Len(s)] = t[i]
  BY <1>1
<1>4. \A i \in DOMAIN (s \o t) :
        \/ i \in DOMAIN s /\ (s \o t)[i] = s[i]
        \/ i - Len(s) \in DOMAIN t /\ (s \o t)[i] = t[i - Len(s)]
  BY <1>1
<1> QED
  BY <1>2, <1>3, <1>4

LEMMA JoinElements ==
  ASSUME NEW s \in Seq(Observation), NEW t \in Seq(Observation)
  PROVE  Elements(s \o t) = Elements(s) \cup Elements(t)
<1>1. Len(s) \in Nat /\ DOMAIN s \subseteq Nat /\ DOMAIN t \subseteq Nat /\ DOMAIN (s \o t) \subseteq Nat
  OBVIOUS
<1> DEFINE u == s \o t
<1>2. \A i \in DOMAIN s : i \in DOMAIN u /\ u[i] = s[i]
  BY Joined
<1>3. \A i \in DOMAIN t : i + Len(s) \in DOMAIN u /\ u[i + Len(s)] = t[i]
  BY Joined
<1>4. \A i \in DOMAIN u :
        \/ i \in DOMAIN s /\ u[i] = s[i]
        \/ i - Len(s) \in DOMAIN t /\ u[i] = t[i - Len(s)]
  BY Joined
<1> HIDE DEF u
<1>5. ASSUME NEW o \in Elements(u) PROVE o \in Elements(s) \cup Elements(t)
  BY <1>4 DEF Elements
<1>6. ASSUME NEW o \in Elements(s) PROVE o \in Elements(u)
  BY <1>2 DEF Elements
<1>7. ASSUME NEW o \in Elements(t) PROVE o \in Elements(u)
  BY <1>3 DEF Elements
<1> QED
  BY <1>5, <1>6, <1>7 DEF u

LEMMA OneElement ==
  /\ Elements(<<>>) = {}
  /\ \A o : Elements(<<o>>) = {o}
BY DEF Elements

\* Two observations that are the same one.
Same(o, p) == o.turn = p.turn /\ o.speaker = p.speaker

Distinct(s) == \A i, j \in DOMAIN s : Same(s[i], s[j]) => i = j

Apart(s, t) == \A o \in Elements(s), p \in Elements(t) : ~Same(o, p)

\* The parts of a sequence without repetition are such sequences and apart, and
\* the other way round.
LEMMA JoinDistinct ==
  ASSUME NEW s \in Seq(Observation), NEW t \in Seq(Observation)
  PROVE  Distinct(s \o t) <=> Distinct(s) /\ Distinct(t) /\ Apart(s, t)
<1>1. Len(s) \in Nat /\ DOMAIN s \subseteq Nat /\ DOMAIN t \subseteq Nat /\ DOMAIN (s \o t) \subseteq Nat
  OBVIOUS
<1> DEFINE u == s \o t
<1>2. \A i \in DOMAIN s : i \in DOMAIN u /\ u[i] = s[i]
  BY Joined
<1>3. \A i \in DOMAIN t : i + Len(s) \in DOMAIN u /\ u[i + Len(s)] = t[i]
  BY Joined
<1>4. \A i \in DOMAIN u :
        \/ i \in DOMAIN s /\ u[i] = s[i]
        \/ i - Len(s) \in DOMAIN t /\ u[i] = t[i - Len(s)]
  BY Joined
<1> HIDE DEF u
<1>5. ASSUME Distinct(u) PROVE Distinct(s) /\ Distinct(t) /\ Apart(s, t)
  <2>1. Distinct(s)
    BY <1>2, <1>5 DEF Distinct
  <2>2. Distinct(t)
    <3> SUFFICES ASSUME NEW i \in DOMAIN t, NEW j \in DOMAIN t, Same(t[i], t[j]) PROVE i = j
      BY DEF Distinct
    <3>1. i + Len(s) = j + Len(s)
      BY <1>3, <1>5 DEF Distinct
    <3> QED
      BY <1>1, <3>1
  <2>3. Apart(s, t)
    <3> SUFFICES ASSUME NEW i \in DOMAIN s, NEW j \in DOMAIN t, Same(s[i], t[j]) PROVE FALSE
      BY DEF Apart, Elements
    <3>1. i = j + Len(s)
      BY <1>2, <1>3, <1>5 DEF Distinct
    <3>2. i \in 1..Len(s) /\ j \in 1..Len(t)
      OBVIOUS
    <3> QED
      BY <1>1, <3>1, <3>2
  <2> QED
    BY <2>1, <2>2, <2>3
<1>6. ASSUME Distinct(s), Distinct(t), Apart(s, t) PROVE Distinct(u)
  <2> SUFFICES ASSUME NEW i \in DOMAIN u, NEW j \in DOMAIN u,
                      Same(u[i], u[j])
               PROVE  i = j
    BY DEF Distinct
  <2>0. i \in Nat /\ j \in Nat /\ Len(s) \in Nat
    BY <1>1 DEF u
  <2>1. CASE i \in DOMAIN s /\ u[i] = s[i] /\ j \in DOMAIN s /\ u[j] = s[j]
    BY <1>6, <2>1 DEF Distinct
  <2>2. CASE /\ i - Len(s) \in DOMAIN t /\ u[i] = t[i - Len(s)]
             /\ j - Len(s) \in DOMAIN t /\ u[j] = t[j - Len(s)]
    <3>1. i - Len(s) = j - Len(s)
      BY <1>6, <2>2 DEF Distinct
    <3> QED
      BY <2>0, <3>1
  <2>3. CASE i \in DOMAIN s /\ u[i] = s[i] /\ j - Len(s) \in DOMAIN t /\ u[j] = t[j - Len(s)]
    BY <1>6, <2>3 DEF Apart, Elements
  <2>4. CASE j \in DOMAIN s /\ u[j] = s[j] /\ i - Len(s) \in DOMAIN t /\ u[i] = t[i - Len(s)]
    <3>1. Same(u[j], u[i])
      BY DEF Same
    <3> QED
      BY <1>6, <2>4, <3>1 DEF Apart, Elements
  <2> QED
    BY <1>4, <2>1, <2>2, <2>3, <2>4
<1> QED
  BY <1>5, <1>6 DEF u

LEMMA OneDistinct ==
  /\ Distinct(<<>>)
  /\ \A o : Distinct(<<o>>)
BY DEF Distinct

-----------------------------------------------------------------------------
(* The invariant of the recording.                                         *)

Stored == Elements(observations) \cup Elements(buffer)

\* The table and the buffer have no observation twice and none of the future; of the
\* turn in progress they have what the talking thread has recorded; and what an answer
\* answers is stored, or ended with a process.
RecordInv ==
  /\ Distinct(observations \o buffer)
  /\ turnPc # "idle" => turn \in 1..MaxTurns
  /\ \A o \in Stored : o.turn <= turn
  /\ turnPc = "user" => \A o \in Stored : o.turn # turn
  /\ turnPc = "mascot" =>
       /\ \A o \in Stored : o.turn = turn => o.speaker = "user"
       /\ \E u \in Stored \cup lost : u.speaker = "user" /\ u.turn = turn
  /\ \A o \in Stored :
       o.speaker = "mascot" => \E u \in Stored \cup lost : u.speaker = "user" /\ u.turn = o.turn

Outcomes == {"stored", "buffered", "raised"}

\* What a call of save_observation_safe leaves: nothing is lost or doubled, whatever
\* part of the buffer is flushed, and only what it was given is new (db.py:437-460).
LEMMA SafeSaved ==
  ASSUME NEW o \in Observation, NEW n \in 0..Len(buffer), NEW outcome \in Outcomes,
         observations \in Seq(Observation), buffer \in Seq(Observation),
         SaveSafe(o, n, outcome)
  PROVE  /\ observations' \in Seq(Observation) /\ buffer' \in Seq(Observation)
         /\ Elements(observations) \subseteq Elements(observations')
         /\ Elements(observations') \subseteq Stored \cup {o}
         /\ Elements(buffer') \subseteq Elements(buffer) \cup {o}
         /\ Stored' = Stored \cup (IF outcome = "raised" THEN {} ELSE {o})
         /\ Distinct(observations \o buffer) /\ (\A p \in Stored : ~Same(p, o) /\ ~Same(o, p))
              => Distinct(observations' \o buffer')
<1> DEFINE P == Prefix(buffer, n)
           R == Rest(buffer, n)
           X == IF outcome = "stored" THEN <<o>> ELSE <<>>
           Y == IF outcome = "buffered" THEN <<o>> ELSE <<>>
<1>1. P \in Seq(Observation) /\ R \in Seq(Observation) /\ buffer = P \o R
  BY Parts
<1>2. X \in Seq(Observation) /\ Y \in Seq(Observation)
  OBVIOUS
<1>3. observations' = (observations \o P) \o X /\ buffer' = R \o Y
  BY DEF SaveSafe
<1>4. /\ Elements(X) = IF outcome = "stored" THEN {o} ELSE {}
      /\ Elements(Y) = IF outcome = "buffered" THEN {o} ELSE {}
      /\ Distinct(X) /\ Distinct(Y)
  BY OneElement, OneDistinct
<1> HIDE DEF P, R, X, Y
<1>5. observations \o P \in Seq(Observation) /\ observations' \in Seq(Observation)
      /\ buffer' \in Seq(Observation)
  BY <1>1, <1>2, <1>3, Joined
<1>6. /\ Elements(buffer) = Elements(P) \cup Elements(R)
      /\ Elements(observations \o P) = Elements(observations) \cup Elements(P)
      /\ Elements(observations') = Elements(observations) \cup Elements(P) \cup Elements(X)
      /\ Elements(buffer') = Elements(R) \cup Elements(Y)
  <2>1. Elements(P \o R) = Elements(P) \cup Elements(R)
    BY <1>1, JoinElements
  <2>2. Elements(observations \o P) = Elements(observations) \cup Elements(P)
    BY <1>1, JoinElements
  <2>3. Elements((observations \o P) \o X) = Elements(observations \o P) \cup Elements(X)
    BY <1>2, <1>5, JoinElements
  <2>4. Elements(R \o Y) = Elements(R) \cup Elements(Y)
    BY <1>1, <1>2, JoinElements
  <2> QED
    BY <1>1, <1>3, <2>1, <2>2, <2>3, <2>4, Zenon
<1>7. ASSUME Distinct(observations \o buffer), \A p \in Stored : ~Same(p, o) /\ ~Same(o, p)
      PROVE  Distinct(observations' \o buffer')
  <2>1. Distinct(observations) /\ Distinct(buffer) /\ Apart(observations, buffer)
    BY <1>7, JoinDistinct
  <2>2. Distinct(P) /\ Distinct(R) /\ Apart(P, R)
    BY <1>1, <2>1, JoinDistinct
  <2>3. Apart(observations, P) /\ Apart(observations, R)
    BY <1>6, <2>1 DEF Apart
  <2>4. Distinct(observations \o P)
    BY <1>1, <2>1, <2>2, <2>3, JoinDistinct
  <2>5. Apart(observations \o P, X)
    BY <1>4, <1>6, <1>7 DEF Apart, Stored
  <2>6. Distinct(observations')
    BY <1>2, <1>3, <1>4, <1>5, <2>4, <2>5, JoinDistinct
  <2>7. Apart(R, Y)
    BY <1>4, <1>6, <1>7 DEF Apart, Stored
  <2>8. Distinct(buffer')
    BY <1>1, <1>2, <1>3, <1>4, <2>2, <2>7, JoinDistinct
  <2>9. Apart(observations', buffer')
    <3>1. Elements(X) = {} \/ Elements(Y) = {}
      BY <1>4
    <3>2. Elements(X) \subseteq {o} /\ Elements(Y) \subseteq {o}
      BY <1>4
    <3>3. \A p \in Elements(observations) \cup Elements(P), q \in Elements(R) : ~Same(p, q)
      BY <2>2, <2>3 DEF Apart
    <3>4. \A p \in Elements(observations) \cup Elements(P) \cup Elements(R) : ~Same(p, o) /\ ~Same(o, p)
      BY <1>6, <1>7 DEF Stored
    <3> QED
      BY <1>6, <3>1, <3>2, <3>3, <3>4 DEF Apart
  <2> QED
    BY <1>5, <2>6, <2>8, <2>9, JoinDistinct
<1>8. Stored' = Stored \cup Elements(X) \cup Elements(Y)
  BY <1>6 DEF Stored
<1>9. Elements(X) \cup Elements(Y) = IF outcome = "raised" THEN {} ELSE {o}
  BY <1>4 DEF Outcomes
<1> QED
  BY <1>4, <1>5, <1>6, <1>7, <1>8, <1>9 DEF Stored

-----------------------------------------------------------------------------
(* A step of the talking thread that records.                              *)

Spoken(speaker) == [turn |-> turn, speaker |-> speaker, day |-> today]

\* What a recording with that outcome leaves.
RecordedAs(o, outcome, next) ==
  /\ phase = "running"
  /\ Elements(observations) \subseteq Elements(observations')
  /\ Elements(observations') \subseteq Stored \cup {o}
  /\ Elements(buffer') \subseteq Elements(buffer) \cup {o}
  /\ Stored' = Stored \cup (IF outcome = "raised" THEN {} ELSE {o})
  /\ Distinct(observations' \o buffer')
  /\ turnPc' = IF outcome = "raised" THEN "idle" ELSE next

LEMMA RecordSteps ==
  ASSUME TypeOK, RecordInv, NEW speaker \in {"user", "mascot"}, NEW next,
         turnPc = speaker, Record(speaker, next)
  PROVE  /\ observations' \in Seq(Observation) /\ buffer' \in Seq(Observation)
         /\ UNCHANGED summaries /\ faults' \in 0..MaxFaults
         /\ \/ phase = "closed" /\ turnPc' = "idle" /\ UNCHANGED <<observations, buffer>>
            \/ \E outcome \in Outcomes : RecordedAs(Spoken(speaker), outcome, next)
<1> DEFINE o == Spoken(speaker)
<1>0. faults \in 0..MaxFaults /\ MaxFaults \in Nat
  BY BoundsAssumption DEF TypeOK
<1>1. turn \in 1..MaxTurns /\ today \in Days
  BY DEF TypeOK, RecordInv
<1>2. o \in Observation /\ o.turn = turn /\ o.speaker = speaker
  BY <1>1 DEF Observation, Spoken
<1>3. \A p \in Stored : ~Same(p, o) /\ ~Same(o, p)
  <2>1. CASE speaker = "user"
    BY <1>2, <2>1 DEF RecordInv, Same
  <2>2. CASE speaker = "mascot"
    BY <1>2, <2>2 DEF RecordInv, Same
  <2> QED
    BY <2>1, <2>2
<1>4. CASE phase = "closed"
  BY <1>0, <1>4 DEF Record, NoFault, TypeOK, tables
<1>5. CASE phase = "running"
  <2>1. PICK n \in 0..Len(buffer), outcome \in Outcomes :
          SaveSafe(o, n, outcome) /\ turnPc' = IF outcome = "raised" THEN "idle" ELSE next
    BY <1>5 DEF Record, Outcomes, Spoken
  <2>2. UNCHANGED summaries
    BY <1>5 DEF Record
  <2>3. faults' \in 0..MaxFaults
    BY <1>0, <2>1 DEF SaveSafe, Fault, NoFault
  <2>4. observations \in Seq(Observation) /\ buffer \in Seq(Observation)
    BY DEF TypeOK
  <2>5. /\ observations' \in Seq(Observation) /\ buffer' \in Seq(Observation)
        /\ Elements(observations) \subseteq Elements(observations')
        /\ Elements(observations') \subseteq Stored \cup {o}
        /\ Elements(buffer') \subseteq Elements(buffer) \cup {o}
        /\ Stored' = Stored \cup (IF outcome = "raised" THEN {} ELSE {o})
        /\ (Distinct(observations \o buffer) => Distinct(observations' \o buffer'))
    BY <1>2, <1>3, <2>1, <2>4, SafeSaved
  <2>6. RecordedAs(o, outcome, next)
    BY <1>5, <2>1, <2>5 DEF RecordedAs, RecordInv
  <2> QED
    BY <2>2, <2>3, <2>5, <2>6
<1> QED
  BY <1>4, <1>5 DEF Record

-----------------------------------------------------------------------------
(* Type correctness.                                                       *)

LEMMA TypedInitially == Init => TypeOK /\ RecordInv
<1> SUFFICES ASSUME Init PROVE TypeOK /\ RecordInv
  OBVIOUS
<1>1. MaxDay \in Nat /\ MaxDay >= 1 /\ MaxTurns \in Nat /\ MaxFaults \in Nat
  BY BoundsAssumption
<1>2. TypeOK
  <2>1. startFailed \in BOOLEAN
    BY Zenon DEF Init
  <2>2. /\ observations \in Seq(Observation) /\ buffer \in Seq(Observation)
        /\ DOMAIN summaries = Days /\ \A d \in Days : summaries[d] \subseteq Observation
    BY DEF Init, NoSummary
  <2>3. /\ date \in Days /\ today \in Days /\ startDay \in Days
        /\ missing \in SUBSET Days /\ filled \in SUBSET Days
        /\ turn \in 0..MaxTurns /\ faults \in 0..MaxFaults
        /\ read \subseteq Observation /\ lost \subseteq Observation
    BY <1>1 DEF Init, Days
  <2>4. phase = "off" /\ turnPc = "idle" /\ closer = "out"
    BY DEF Init
  <2> QED
    BY <2>1, <2>2, <2>3, <2>4, Zenon DEF TypeOK
<1>3. Stored = {}
  BY OneElement DEF Init, Stored
<1>4. Distinct(observations \o buffer)
  BY DEF Init, Distinct
<1>5. turnPc = "idle"
  BY DEF Init
<1> QED
  BY <1>2, <1>3, <1>4, <1>5 DEF RecordInv

LEMMA ElementsTyped ==
  ASSUME TypeOK
  PROVE  /\ Elements(observations) \subseteq Observation
         /\ Elements(buffer) \subseteq Observation
         /\ \A d : OfDay(d) \subseteq Observation
BY DEF TypeOK, Elements, OfDay

\* The earliest of the missing days is one of them.
LEMMA EarliestMissing ==
  ASSUME TypeOK, missing # {}
  PROVE  (CHOOSE e \in missing : \A f \in missing : e <= f) \in missing
<1>1. missing \in SUBSET Nat
  BY DEF TypeOK, Days
<1>2. PICK k \in missing : \A f \in missing : ~(<<f, k>> \in OpToRel(<, Nat))
  BY <1>1, NatLessThanWellFounded, WFMin
<1>3. \A f \in missing : k <= f
  <2> SUFFICES ASSUME NEW f \in missing, f < k PROVE FALSE
    BY <1>1
  <2>1. <<f, k>> \in {p \in Nat \X Nat : p[1] < p[2]}
    BY <1>1
  <2>2. OpToRel(<, Nat) = {p \in Nat \X Nat : p[1] < p[2]}
    BY DEF OpToRel
  <2> QED
    BY <1>2, <2>1, <2>2, Zenon
<1> QED
  BY <1>3, Zenon

\* A step of FillMissing fills a missing day, or fails to.
LEMMA FillsOne ==
  ASSUME TypeOK, FillMissing
  PROVE  \E d \in missing :
           /\ missing' = missing \ {d}
           /\ \/ /\ summaries' = [summaries EXCEPT ![d] = OfDay(d)]
                 /\ filled' = filled \cup {d} /\ NoFault /\ UNCHANGED startFailed
              \/ UNCHANGED <<summaries, filled>> /\ startFailed' = TRUE /\ Fault
<1> DEFINE earliest == CHOOSE e \in missing : \A f \in missing : e <= f
<1>1. earliest \in missing
  BY EarliestMissing DEF FillMissing
<1>2. /\ missing' = missing \ {earliest}
      /\ \/ /\ summaries' = [summaries EXCEPT ![earliest] = OfDay(earliest)]
            /\ filled' = filled \cup {earliest} /\ NoFault /\ UNCHANGED startFailed
         \/ UNCHANGED <<summaries, filled>> /\ startFailed' = TRUE /\ Fault
  BY Zenon DEF FillMissing
<1> HIDE DEF earliest
<1> QED
  BY <1>1, <1>2, Zenon

LEMMA TypedStep == TypeOK /\ RecordInv /\ [Next]_vars => TypeOK'
<1> SUFFICES ASSUME TypeOK, RecordInv, [Next]_vars PROVE TypeOK'
  OBVIOUS
<1>0. MaxDay \in Nat /\ MaxTurns \in Nat /\ MaxFaults \in Nat /\ Days = 1..MaxDay
  BY BoundsAssumption DEF Days
<1>1. \A d : OfDay(d) \subseteq Observation
  BY ElementsTyped
<1>2. Elements(buffer) \subseteq Observation
  BY ElementsTyped
<1>3. RecordUser \/ RecordMascot =>
        /\ observations' \in Seq(Observation) /\ buffer' \in Seq(Observation)
        /\ UNCHANGED summaries /\ faults' \in 0..MaxFaults
        /\ turnPc' \in {"idle", "mascot"}
  BY RecordSteps DEF RecordUser, RecordMascot, RecordedAs
<1>4. FillMissing =>
        /\ missing' \in SUBSET Days /\ filled' \in SUBSET Days /\ faults' \in 0..MaxFaults
        /\ DOMAIN summaries' = Days /\ \A d \in Days : summaries'[d] \subseteq Observation
  <2> SUFFICES ASSUME FillMissing
               PROVE  /\ missing' \in SUBSET Days /\ filled' \in SUBSET Days
                      /\ faults' \in 0..MaxFaults /\ DOMAIN summaries' = Days
                      /\ \A d \in Days : summaries'[d] \subseteq Observation
    OBVIOUS
  <2>1. PICK d \in missing :
          /\ missing' = missing \ {d}
          /\ \/ /\ summaries' = [summaries EXCEPT ![d] = OfDay(d)]
                /\ filled' = filled \cup {d} /\ NoFault
             \/ UNCHANGED <<summaries, filled>> /\ Fault
    BY FillsOne
  <2>2. missing' \in SUBSET Days /\ filled' \in SUBSET Days
    BY <2>1 DEF TypeOK
  <2>3. faults' \in 0..MaxFaults
    BY <1>0, <2>1 DEF TypeOK, Fault, NoFault
  <2>4. DOMAIN summaries' = Days /\ \A e \in Days : summaries'[e] \subseteq Observation
    BY <1>1, <2>1 DEF TypeOK
  <2> QED
    BY <2>2, <2>3, <2>4
<1> USE DEF tables, session, talk, closing, Gone
<1>5. observations' \in Seq(Observation) /\ buffer' \in Seq(Observation)
  <2>1. RecordUser \/ RecordMascot \/ (observations' = observations /\ buffer' \in {buffer, <<>>})
    BY DEF Next, vars, StartSession, FillMissing, Ready, Answered, Shutdown, ReadDay, AskModel,
        SaveSummary, CloseDb, Exit, Crash, Midnight
  <2>2. observations \in Seq(Observation) /\ buffer \in Seq(Observation)
    BY DEF TypeOK
  <2>3. <<>> \in Seq(Observation)
    OBVIOUS
  <2>4. buffer' \in {buffer, <<>>} => buffer' \in Seq(Observation)
    BY <2>2, <2>3, Zenon
  <2> QED
    BY <1>3, <2>1, <2>2, <2>4, Zenon
<1>6. DOMAIN summaries' = Days /\ \A d \in Days : summaries'[d] \subseteq Observation
  <2>1. SaveSummary => DOMAIN summaries' = Days /\ \A d \in Days : summaries'[d] \subseteq Observation
    BY DEF TypeOK, SaveSummary
  <2> QED
    BY <1>3, <1>4, <2>1
    DEF TypeOK, Next, vars, StartSession, Ready, Answered, Shutdown, ReadDay, AskModel,
        CloseDb, Exit, Crash, Midnight
<1>7. today' \in Days /\ startDay' \in Days /\ date' \in Days
  BY <1>0
  DEF TypeOK, Next, vars, StartSession, FillMissing, Ready, Answered, RecordUser, RecordMascot,
      Shutdown, ReadDay, AskModel, SaveSummary, CloseDb, Exit, Crash, Midnight
<1>8. phase' \in {"off", "starting", "running", "closed"}
      /\ turnPc' \in {"idle", "user", "mascot"}
      /\ closer' \in {"out", "read", "llm", "save", "close"}
  BY <1>3
  DEF TypeOK, Next, vars, StartSession, FillMissing, Ready, Answered, RecordUser, RecordMascot,
      Shutdown, ReadDay, AskModel, SaveSummary, CloseDb, Exit, Crash, Midnight
<1>9. missing' \in SUBSET Days /\ filled' \in SUBSET Days
  BY <1>4
  DEF TypeOK, Next, vars, StartSession, MissingDates, Ready, Answered, RecordUser, RecordMascot,
      Shutdown, ReadDay, AskModel, SaveSummary, CloseDb, Exit, Crash, Midnight
<1>10. startFailed' \in BOOLEAN
  <2>1. startFailed' = TRUE \/ startFailed' = FALSE \/ startFailed' = startFailed
    BY Zenon
    DEF Next, vars, StartSession, FillMissing, Ready, Answered, RecordUser, RecordMascot,
        Shutdown, ReadDay, AskModel, SaveSummary, CloseDb, Exit, Crash, Midnight
  <2> QED
    BY <2>1, Zenon DEF TypeOK
<1>11. turn' \in 0..MaxTurns
  BY <1>0
  DEF TypeOK, Next, vars, StartSession, FillMissing, Ready, Answered, RecordUser, RecordMascot,
      Shutdown, ReadDay, AskModel, SaveSummary, CloseDb, Exit, Crash, Midnight
<1>12. read' \subseteq Observation /\ lost' \subseteq Observation
  BY <1>1, <1>2
  DEF TypeOK, Next, vars, StartSession, FillMissing, Ready, Answered, RecordUser, RecordMascot,
      Shutdown, ReadDay, AskModel, SaveSummary, CloseDb, Exit, Crash, Midnight
<1>13. faults' \in 0..MaxFaults
  BY <1>0, <1>3, <1>4
  DEF TypeOK, Fault, NoFault, Next, vars, StartSession, Ready, Answered,
      Shutdown, ReadDay, AskModel, SaveSummary, CloseDb, Exit, Crash, Midnight
<1> QED
  BY <1>5, <1>6, <1>7, <1>8, <1>9, <1>10, <1>11, <1>12, <1>13, Zenon DEF TypeOK

-----------------------------------------------------------------------------
(* The invariant of the recording is inductive.                            *)

LEMMA RecordInvStep == TypeOK /\ RecordInv /\ [Next]_vars => RecordInv'
<1> SUFFICES ASSUME TypeOK, RecordInv, [Next]_vars PROVE RecordInv'
  OBVIOUS
<1>0. turn \in 0..MaxTurns /\ MaxTurns \in Nat
  BY BoundsAssumption DEF TypeOK
<1>1. \A o \in Stored : o.turn \in Nat /\ o.speaker \in {"user", "mascot"}
  BY ElementsTyped DEF Stored, Observation
\* The table and the buffer stay, and no recording is begun.
<1>2. CASE UNCHANGED <<observations, buffer, lost, turn>> /\ (turnPc' = turnPc \/ turnPc' = "idle")
  <2>1. Stored' = Stored /\ Distinct(observations' \o buffer')
    BY <1>2 DEF Stored, RecordInv, Elements
  <2> QED
    BY <1>2, <2>1 DEF RecordInv
\* A turn begins.
<1>3. CASE Answered
  <2>1. Stored' = Stored /\ Distinct(observations' \o buffer')
    BY <1>3 DEF Answered, tables, Stored, RecordInv, Elements
  <2>2. lost' = lost /\ turn' = turn + 1 /\ turnPc' = "user" /\ turn' \in 1..MaxTurns
    BY <1>0, <1>3 DEF Answered
  <2>3. \A o \in Stored : o.turn < turn'
    BY <1>0, <1>1, <2>2 DEF RecordInv
  <2> QED
    BY <1>1, <2>1, <2>2, <2>3 DEF RecordInv
\* An observation is recorded.
<1>4. ASSUME NEW speaker \in {"user", "mascot"}, NEW next, turnPc = speaker,
             NEW outcome \in Outcomes, RecordedAs(Spoken(speaker), outcome, next),
             UNCHANGED <<turn, lost>>,
             \/ speaker = "user" /\ next = "mascot"
             \/ speaker = "mascot" /\ next = "idle"
      PROVE  RecordInv'
  <2> DEFINE o == Spoken(speaker)
  <2>1. o.turn = turn /\ o.speaker = speaker /\ turn \in 1..MaxTurns
    BY <1>4 DEF Spoken, RecordInv
  <2>2. /\ Stored' = Stored \cup (IF outcome = "raised" THEN {} ELSE {o})
        /\ Distinct(observations' \o buffer')
        /\ turnPc' = IF outcome = "raised" THEN "idle" ELSE next
    BY <1>4 DEF RecordedAs
  <2>3. \A p \in Stored' : p.turn <= turn
    BY <1>0, <2>1, <2>2 DEF RecordInv
  <2> HIDE DEF o
  <2>4. CASE outcome = "raised"
    <3>1. Stored' = Stored /\ turnPc' = "idle"
      BY <2>2, <2>4
    <3> QED
      BY <1>4, <2>2, <3>1 DEF RecordInv
  <2>5. CASE outcome # "raised" /\ speaker = "user"
    <3>1. Stored' = Stored \cup {o} /\ turnPc' = "mascot"
      BY <1>4, <2>2, <2>5
    <3>2. \A p \in Stored' : p.turn = turn => p.speaker = "user"
      BY <1>4, <2>1, <2>5, <3>1 DEF RecordInv
    <3>3. o \in Stored' /\ o.speaker = "user" /\ o.turn = turn
      BY <2>1, <2>5, <3>1
    <3>4. \A p \in Stored' :
            p.speaker = "mascot" => \E u \in Stored' \cup lost : u.speaker = "user" /\ u.turn = p.turn
      BY <3>1, <3>3 DEF RecordInv
    <3> QED
      BY <1>4, <2>1, <2>2, <2>3, <3>1, <3>2, <3>3, <3>4 DEF RecordInv
  <2>6. CASE outcome # "raised" /\ speaker = "mascot"
    <3>1. Stored' = Stored \cup {o} /\ turnPc' = "idle"
      BY <1>4, <2>2, <2>6
    <3>2. \E u \in Stored \cup lost : u.speaker = "user" /\ u.turn = turn
      BY <1>4, <2>6 DEF RecordInv
    <3>3. \A p \in Stored' :
            p.speaker = "mascot" => \E u \in Stored' \cup lost : u.speaker = "user" /\ u.turn = p.turn
      BY <2>1, <3>1, <3>2 DEF RecordInv
    <3> QED
      BY <1>4, <2>2, <2>3, <3>1, <3>3 DEF RecordInv
  <2> QED
    BY <1>4, <2>4, <2>5, <2>6
<1>5. CASE RecordUser \/ RecordMascot
  <2>1. UNCHANGED <<turn, lost>>
    BY <1>5 DEF RecordUser, RecordMascot
  <2>2. CASE RecordUser
    <3>1. \/ turnPc' = "idle" /\ UNCHANGED <<observations, buffer>>
          \/ \E outcome \in Outcomes : RecordedAs(Spoken("user"), outcome, "mascot")
      BY <2>2, RecordSteps DEF RecordUser
    <3> QED
      BY <1>2, <1>4, <2>1, <2>2, <3>1 DEF RecordUser
  <2>3. CASE RecordMascot
    <3>1. \/ turnPc' = "idle" /\ UNCHANGED <<observations, buffer>>
          \/ \E outcome \in Outcomes : RecordedAs(Spoken("mascot"), outcome, "idle")
      BY <2>3, RecordSteps DEF RecordMascot
    <3> QED
      BY <1>2, <1>4, <2>1, <2>3, <3>1 DEF RecordMascot
  <2> QED
    BY <1>5, <2>2, <2>3
\* The process is gone, with its buffer.
<1>6. CASE Exit \/ Crash
  <2>1. /\ observations' = observations /\ buffer' = <<>> /\ turn' = turn /\ turnPc' = "idle"
        /\ lost' = lost \cup Elements(buffer)
    BY <1>6 DEF Exit, Crash, Gone, tables
  <2>2. Stored' = Elements(observations)
    BY <2>1, OneElement DEF Stored, Elements
  <2>3. Stored' \cup lost' = Stored \cup lost /\ Stored' \subseteq Stored
    BY <2>1, <2>2 DEF Stored
  <2>4. Distinct(observations' \o buffer')
    <3>1. Distinct(observations)
      BY JoinDistinct DEF RecordInv, TypeOK
    <3>2. observations' \o buffer' = observations
      BY <2>1 DEF TypeOK
    <3> QED
      BY <3>1, <3>2
  <2> QED
    BY <2>1, <2>3, <2>4 DEF RecordInv
<1> QED
  BY <1>2, <1>3, <1>5, <1>6
  DEF Next, vars, tables, talk, session, closing, StartSession, FillMissing, Ready, Shutdown, ReadDay,
      AskModel, SaveSummary, CloseDb, Midnight

-----------------------------------------------------------------------------
(* The invariant of the summaries.                                         *)

\* What is stored belongs to a day that has come, what is buffered to the session;
\* a session only adds to its own days, and makes summaries for them; the days before
\* it are those the startup has filled, still has to fill or has failed to.
SummaryInv ==
  /\ phase \in {"off", "starting"} => buffer = <<>> /\ turnPc = "idle" /\ closer = "out"
  /\ startDay <= today
  /\ \A o \in Elements(observations) : o.day <= today
  /\ \A o \in Elements(buffer) : startDay <= o.day /\ o.day <= today
  /\ closer # "out" => startDay <= date
  /\ closer \in {"llm", "save"} => read # {}
  /\ \A d \in missing : d < startDay /\ OfDay(d) # {}
  /\ \A d \in filled : d < startDay
  /\ FilledIsComplete
  /\ phase # "off" /\ ~startFailed =>
       \A d \in Days : d < startDay /\ OfDay(d) # {} /\ summaries[d] = NoSummary =>
         d \in missing /\ phase = "starting"

LEMMA SummariesInitially == Init => SummaryInv
BY OneElement DEF Init, SummaryInv, FilledIsComplete, NoSummary

LEMMA SummaryInvStep == TypeOK /\ RecordInv /\ SummaryInv /\ [Next]_vars => SummaryInv'
<1> SUFFICES ASSUME TypeOK, RecordInv, SummaryInv, [Next]_vars PROVE SummaryInv'
  OBVIOUS
<1>0. /\ today \in Nat /\ startDay \in Nat /\ date \in Nat /\ Days \subseteq Nat
      /\ missing \subseteq Days /\ filled \subseteq Days /\ date \in Days
      /\ DOMAIN summaries = Days
  BY DEF TypeOK, Days
<1>1. \A o \in Elements(observations) \cup Elements(buffer) : o.day \in Nat
  BY <1>0, ElementsTyped DEF Observation
\* The table stays, and so does what is read off it.
<1>2. UNCHANGED observations =>
        /\ Elements(observations') = Elements(observations)
        /\ \A d : OfDay(d)' = OfDay(d)
  BY DEF OfDay, Elements
<1>3. UNCHANGED buffer => Elements(buffer') = Elements(buffer)
  OBVIOUS
<1> USE DEF SummaryInv, FilledIsComplete, NoSummary, tables, session, talk, closing, Fault, NoFault
<1> HIDE DEF OfDay, Elements
<1>4. CASE UNCHANGED vars
  BY <1>2, <1>3, <1>4 DEF vars
<1>5. CASE StartSession
  <2>1. /\ UNCHANGED <<observations, summaries, buffer, today, filled, turnPc, closer, date, read>>
        /\ phase = "off" /\ phase' = "starting" /\ startDay' = today
        /\ \/ missing' = MissingDates
           \/ missing' = {} /\ startFailed' = TRUE
    BY <1>5 DEF StartSession
  <2>2. \A d \in MissingDates : d \in Days /\ d # today /\ OfDay(d) # {}
    BY DEF MissingDates
  <2>3. \A d \in MissingDates : d < today
    <3> SUFFICES ASSUME NEW d \in MissingDates PROVE d < today
      OBVIOUS
    <3>1. PICK o \in Elements(observations) : o.day = d
      BY <2>2 DEF OfDay
    <3> QED
      BY <1>0, <1>1, <2>2, <3>1
  <2>4. \A d \in missing' : d < startDay' /\ OfDay(d) # {}
    BY <2>1, <2>2, <2>3
  <2>5. \A d \in filled : d < startDay'
    BY <1>0, <2>1
  <2>6. ~startFailed' => \A d \in Days : d < startDay' /\ OfDay(d) # {} /\ summaries[d] = {} => d \in missing'
    BY <1>0, <2>1 DEF MissingDates
  <2>7. buffer = <<>> /\ Elements(buffer) = {}
    BY <2>1, OneElement
  <2>8. FilledIsComplete' /\ (\A d \in missing' : d < startDay' /\ OfDay(d)' # {})
    BY <1>2, <2>1, <2>4
  <2>9. ~startFailed' =>
          \A d \in Days : d < startDay' /\ OfDay(d)' # {} /\ summaries'[d] = {} => d \in missing'
    BY <1>2, <2>1, <2>6
  <2>10. /\ buffer' = <<>> /\ turnPc' = "idle" /\ closer' = "out" /\ startDay' <= today'
         /\ Elements(buffer') = {} /\ \A o \in Elements(observations') : o.day <= today'
    BY <1>0, <1>2, <1>3, <2>1, <2>7
  <2> QED
    BY <2>1, <2>5, <2>8, <2>9, <2>10
<1>6. CASE FillMissing
  <2>1. /\ UNCHANGED <<observations, buffer, today, phase, startDay, turnPc, closer, date, read>>
        /\ phase = "starting"
    BY <1>6 DEF FillMissing
  <2>2. PICK d \in missing :
          /\ missing' = missing \ {d}
          /\ \/ /\ summaries' = [summaries EXCEPT ![d] = OfDay(d)]
                /\ filled' = filled \cup {d} /\ UNCHANGED startFailed
             \/ UNCHANGED <<summaries, filled>> /\ startFailed' = TRUE
    BY <1>6, FillsOne
  <2>3. d \in Days /\ d < startDay /\ OfDay(d) # {}
    BY <1>0
  <2>4. CASE /\ summaries' = [summaries EXCEPT ![d] = OfDay(d)]
             /\ filled' = filled \cup {d} /\ UNCHANGED startFailed
    <3>1. \A e \in Days : summaries'[e] = IF e = d THEN OfDay(d) ELSE summaries[e]
      BY <1>0, <2>4
    <3>2. \A e \in filled' : e < startDay /\ OfDay(e) = summaries'[e]
      BY <1>0, <2>3, <2>4, <3>1
    <3>3. ~startFailed =>
            \A e \in Days : e < startDay /\ OfDay(e) # {} /\ summaries'[e] = {} => e \in missing'
      BY <2>1, <2>2, <2>3, <3>1
    <3> QED
      BY <1>2, <1>3, <2>1, <2>2, <2>4, <3>2, <3>3
  <2>5. CASE UNCHANGED <<summaries, filled>> /\ startFailed' = TRUE
    BY <1>2, <1>3, <2>1, <2>2, <2>5
  <2> QED
    BY <2>2, <2>4, <2>5
<1>7. CASE Ready
  BY <1>2, <1>3, <1>7 DEF Ready
<1>8. CASE Answered
  BY <1>2, <1>3, <1>8 DEF Answered
<1>9. CASE RecordUser \/ RecordMascot
  <2>1. /\ UNCHANGED <<summaries, today, phase, missing, startDay, startFailed, filled, closer, date, read>>
        /\ \/ phase = "closed" /\ UNCHANGED <<observations, buffer>>
           \/ \E speaker \in {"user", "mascot"}, outcome \in Outcomes, next \in {"mascot", "idle"} :
                RecordedAs(Spoken(speaker), outcome, next)
    <3>1. UNCHANGED <<today, phase, missing, startDay, startFailed, filled, closer, date, read>>
      BY <1>9 DEF RecordUser, RecordMascot
    <3> QED
      BY <1>9, <3>1, RecordSteps DEF RecordUser, RecordMascot
  <2>2. CASE phase = "closed" /\ UNCHANGED <<observations, buffer>>
    BY <1>2, <1>3, <2>1, <2>2
  <2>3. ASSUME NEW o, o.day = today, phase = "running",
               Elements(observations) \subseteq Elements(observations'),
               Elements(observations') \subseteq Stored \cup {o},
               Elements(buffer') \subseteq Elements(buffer) \cup {o}
        PROVE  SummaryInv'
    <3>1. \A p \in Elements(buffer') : startDay <= p.day /\ p.day <= today
      BY <1>0, <2>3
    <3>2. \A p \in Elements(observations') :
            p.day <= today /\ (p \in Elements(observations) \/ startDay <= p.day)
      BY <1>0, <2>3 DEF Stored
    <3>3. \A d \in Days : d < startDay => OfDay(d)' = OfDay(d)
      <4> SUFFICES ASSUME NEW d \in Days, d < startDay PROVE OfDay(d)' = OfDay(d)
        OBVIOUS
      <4>1. \A p \in Elements(observations') : p.day = d => p \in Elements(observations)
        BY <1>0, <3>2
      <4> QED
        BY <2>3, <4>1 DEF OfDay
    <3> QED
      BY <1>0, <2>1, <2>3, <3>1, <3>2, <3>3
  <2>4. ASSUME NEW speaker, NEW outcome, NEW next, RecordedAs(Spoken(speaker), outcome, next)
        PROVE  SummaryInv'
    <3>1. Spoken(speaker).day = today
      BY DEF Spoken
    <3> QED
      BY <2>3, <2>4, <3>1 DEF RecordedAs
  <2> HIDE DEF SummaryInv
  <2> QED
    BY <2>1, <2>2, <2>4
<1>10. CASE Shutdown
  BY <1>0, <1>2, <1>3, <1>10 DEF Shutdown
<1>11. CASE ReadDay
  BY <1>2, <1>3, <1>11 DEF ReadDay
<1>12. CASE AskModel
  BY <1>2, <1>3, <1>12 DEF AskModel
<1>13. CASE SaveSummary
  <2>1. /\ UNCHANGED <<observations, buffer, today, phase, missing, startDay, startFailed, filled, turnPc, date, read>>
        /\ closer = "save" /\ closer' = "close"
        /\ \/ summaries' = [summaries EXCEPT ![date] = read]
           \/ UNCHANGED summaries
    BY <1>13 DEF SaveSummary
  <2>2. \A d \in Days : \/ summaries'[d] = summaries[d]
                        \/ d = date /\ summaries'[d] = read
    BY <1>0, <2>1
  <2>3. \A d \in Days : d < startDay => summaries'[d] = summaries[d]
    BY <1>0, <2>1, <2>2
  <2> QED
    BY <1>0, <1>2, <1>3, <2>1, <2>3
<1>14. CASE CloseDb
  BY <1>2, <1>3, <1>14 DEF CloseDb
<1>15. CASE Exit \/ Crash
  <2>1. /\ UNCHANGED <<observations, summaries, today, startDay, startFailed, filled>>
        /\ phase' = "off" /\ buffer' = <<>> /\ turnPc' = "idle" /\ closer' = "out" /\ missing' = {}
    BY <1>15 DEF Exit, Crash, Gone
  <2>2. Elements(buffer') = {}
    BY <2>1, OneElement
  <2> QED
    BY <1>2, <2>1, <2>2
<1>16. CASE Midnight
  BY <1>0, <1>1, <1>2, <1>3, <1>16 DEF Midnight
<1> QED
  BY <1>4, <1>5, <1>6, <1>7, <1>8, <1>9, <1>10, <1>11, <1>12, <1>13, <1>14, <1>15, <1>16 DEF Next

-----------------------------------------------------------------------------
(* The theorems.                                                           *)

LEMMA AlwaysInvariant == Spec => [](TypeOK /\ RecordInv /\ SummaryInv)
<1>1. Init => TypeOK /\ RecordInv /\ SummaryInv
  BY TypedInitially, SummariesInitially
<1>2. TypeOK /\ RecordInv /\ SummaryInv /\ [Next]_vars => (TypeOK /\ RecordInv /\ SummaryInv)'
  BY TypedStep, RecordInvStep, SummaryInvStep
<1> QED
  BY <1>1, <1>2, PTL DEF Spec

\* The tables, the buffer and the variables of both threads keep their types.
THEOREM MemoryTypes == Spec => []TypeOK
BY AlwaysInvariant, PTL

\* No observation is stored twice, or stored and still buffered, whatever locks
\* interrupt the flush (db.py:437-460, 676-712).
THEOREM StoredOnce == Spec => []NoObservationTwice
<1>1. RecordInv => NoObservationTwice
  BY DEF RecordInv, NoObservationTwice, Distinct, Same
<1> QED
  BY <1>1, AlwaysInvariant, PTL

\* While the process lives nothing that is in the table or waits in the buffer
\* disappears, and nothing ever leaves the table (db.py:437-460, 676-712).
THEOREM NothingDisappears == Spec => RecordedStays
<1> DEFINE Stays == /\ Elements(observations) \subseteq Elements(observations')
                    /\ phase' # "off" =>
                         Elements(buffer) \subseteq Elements(buffer') \cup Elements(observations')
<1>1. ASSUME TypeOK, RecordInv, [Next]_vars PROVE Stays
  <2>1. CASE UNCHANGED <<observations, buffer>>
    BY <2>1 DEF Elements
  <2>2. CASE RecordUser
    <3>1. \/ UNCHANGED <<observations, buffer>>
          \/ \E outcome \in Outcomes : RecordedAs(Spoken("user"), outcome, "mascot")
      BY <1>1, <2>2, RecordSteps DEF RecordUser
    <3> QED
      BY <2>1, <3>1 DEF RecordedAs, Stored
  <2>3. CASE RecordMascot
    <3>1. \/ UNCHANGED <<observations, buffer>>
          \/ \E outcome \in Outcomes : RecordedAs(Spoken("mascot"), outcome, "idle")
      BY <1>1, <2>3, RecordSteps DEF RecordMascot
    <3> QED
      BY <2>1, <3>1 DEF RecordedAs, Stored
  <2>4. CASE Exit \/ Crash
    <3>1. observations' = observations /\ phase' = "off"
      BY <2>4 DEF Exit, Crash, Gone, tables
    <3> QED
      BY <3>1 DEF Elements
  <2> QED
    BY <1>1, <2>1, <2>2, <2>3, <2>4
    DEF Next, vars, tables, StartSession, FillMissing, Ready, Answered, Shutdown, ReadDay, AskModel,
        SaveSummary, CloseDb, Midnight
<1>2. TypeOK /\ RecordInv /\ [Next]_vars => [Stays]_vars
  BY <1>1
<1> QED
  BY <1>2, AlwaysInvariant, PTL DEF Spec, RecordedStays

\* An answer is on record only together with what it answers, unless the process took
\* what was buffered with it (agent_core.py:352-369).
THEOREM AnswersHaveQuestions == Spec => []NoOrphanAnswer
<1>1. TypeOK /\ RecordInv => NoOrphanAnswer
  <2> SUFFICES ASSUME TypeOK, RecordInv PROVE NoOrphanAnswer
    OBVIOUS
  <2>1. Elements(observations \o buffer) = Stored
    BY JoinElements DEF TypeOK, Stored
  <2> QED
    BY <2>1 DEF NoOrphanAnswer, RecordInv
<1> QED
  BY <1>1, AlwaysInvariant, PTL

\* After a startup without failure every earlier day with observations has a summary,
\* and keeps having one (memory_worker.py:122-158, db.py:358-382).
THEOREM GapsFilled == Spec => []NoGapAfterStartup
<1>1. SummaryInv => NoGapAfterStartup
  BY DEF SummaryInv, NoGapAfterStartup
<1> QED
  BY <1>1, AlwaysInvariant, PTL

\* A summary made at startup is made from all that is ever stored of its day, although
\* buffered observations keep their old date (db.py:371-382, 437-460).
THEOREM FilledStayComplete == Spec => []FilledIsComplete
<1>1. SummaryInv => FilledIsComplete
  BY DEF SummaryInv
<1> QED
  BY <1>1, AlwaysInvariant, PTL
=============================================================================
