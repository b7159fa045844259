-------------------------- MODULE SelfEditingProofs --------------------------
(***************************************************************************)
(* Proofs about SelfEditing, for any number of turns, entries, faults and  *)
(* lines of an update: first about the proposals by themselves             *)
(* (TrendsProposal), then about the text of a file (SectionFile), then     *)
(* about the sessions that put them together, and last about the approvals *)
(* and the entries they lead to.                                           *)
(***************************************************************************)
EXTENDS SelfEditing, SequenceTheorems, FiniteSetTheorems, WellFoundedInduction, TLAPS

-----------------------------------------------------------------------------
(* The proposals, for any timeout and any number of turns.                 *)

\* The entries of the history are records with the identity of a proposal.
LEMMA SettledTyped ==
  ASSUME TypeOK
  PROVE  \A i \in DOMAIN history :
           history[i] \in [id : 1..MaxTurns, result : Results] /\ history[i].id \in 1..MaxTurns
<1>1. \A i \in DOMAIN history : history[i] \in [id : 1..MaxTurns, result : Results]
  <2> DEFINE Settlement == [id : 1..MaxTurns, result : Results]
  <2>1. history \in Seq(Settlement)
    BY Zenon DEF TypeOK
  <2> HIDE DEF Settlement
  <2>2. \A i \in DOMAIN history : history[i] \in Settlement
    BY <2>1
  <2> QED
    BY <2>2, Zenon DEF Settlement
<1> QED
  BY <1>1

\* Every settled or pending proposal was made, the settled ones differ from each
\* other and from the pending one, and a pending one comes from a turn that was
\* counted.
ProposalInv ==
  /\ \A i \in DOMAIN history : history[i].id <= made
  /\ pending # NoProposal => pending.id <= made /\ pending.turn <= messageCount
  /\ proposalCount <= messageCount
  /\ SettledOnce
  /\ ApprovedInTime

\* A turn keeps the types of the session and of the proposals, and settles a
\* proposal once and within the timeout.
LEMMA TurnKeeps ==
  ASSUME TypeOK, ProposalInv,
         NEW response, NEW input \in Input, NEW written \in BOOLEAN,
         Turn(response, input, written)
  PROVE  (TypeOK /\ ProposalInv)'
<1> DEFINE n == messageCount + 1
           p == Parsed(response, n)
           result == Judge(p, input, n)
<1>1. n \in 1..MaxTurns /\ messageCount' = n /\ made' \in 0..n /\ made <= made'
  BY TrendsAssumption DEF Turn, TypeOK
<1>2. p \in Proposal \cup {NoProposal}
  <2>1. CASE response \in Sections
    <3>1. made + 1 \in 1..MaxTurns
      BY <1>1, TrendsAssumption DEF TypeOK
    <3> QED
      BY <2>1, <3>1, <1>1 DEF Parsed, Proposal
  <2>2. CASE response \notin Sections
    BY <2>2 DEF Parsed, TypeOK
  <2> QED
    BY <2>1, <2>2
<1>3. /\ p # NoProposal => p.id <= made' /\ p.turn <= n
      /\ \A i \in DOMAIN history : history[i].id # p.id
  <2>1. CASE response \in Sections
    <3>1. p = [id |-> made + 1, section |-> response, turn |-> n] /\ made' = made + 1
      BY <2>1 DEF Parsed, Turn
    <3>2. \A i \in DOMAIN history : history[i].id \in 1..MaxTurns /\ history[i].id <= made
      BY SettledTyped DEF ProposalInv
    <3>3. made \in Nat
      BY TrendsAssumption DEF TypeOK
    <3> QED
      BY <3>1, <3>2, <3>3, <1>1
  <2>2. CASE response \notin Sections
    <3>1. p = pending /\ made' = made
      BY <2>2 DEF Parsed, Turn
    <3> QED
      BY <3>1, <1>1 DEF ProposalInv, SettledOnce, TypeOK, Proposal
  <2> QED
    BY <2>1, <2>2
<1>4. /\ result \in Results \cup {"none", "pending"}
      /\ result # "none" => p \in Proposal
      /\ result = "approved" => n - p.turn <= TimeoutTurns
  <2>1. CASE p = NoProposal
    <3>1. result = "none"
      BY <2>1, Zenon DEF Judge
    <3> QED
      BY <3>1
  <2>2. CASE p # NoProposal /\ TimedOut(p, n)
    <3>1. result = "expired"
      BY <2>2, Zenon DEF Judge
    <3> QED
      BY <3>1, <2>2, <1>2 DEF Results
  <2>3. CASE p # NoProposal /\ ~TimedOut(p, n)
    <3>1. result \in {"rejected", "approved", "pending"}
      BY <2>3 DEF Judge
    <3>2. p \in Proposal /\ n - p.turn <= TimeoutTurns
      BY <2>3, <1>1, <1>2, TrendsAssumption DEF TimedOut, Proposal
    <3> QED
      BY <3>1, <3>2 DEF Results
  <2> QED
    BY <2>1, <2>2, <2>3
<1>5. /\ pending' = (IF result \in Results THEN NoProposal ELSE p)
      /\ history' = (IF result \in Results
                     THEN Append(history, [id |-> p.id, result |-> result])
                     ELSE history)
      /\ appended' = (IF result = "approved" /\ written
                      THEN appended \cup {[id |-> p.id, proposed |-> p.turn, at |-> n]}
                      ELSE appended)
      /\ proposalCount' = (IF result = "approved" THEN proposalCount + 1 ELSE proposalCount)
  BY Zenon DEF Turn, Settles, Clears
<1>6. TypeOK'
  <2> HIDE DEF n, p, result
  <2>1. /\ messageCount' \in 0..MaxTurns /\ made' \in 0..messageCount'
        /\ proposalCount' \in 0..MaxTurns
    BY <1>1, <1>5, TrendsAssumption DEF TypeOK, ProposalInv, n
  <2>2. pending' \in Proposal \cup {NoProposal}
    BY <1>2, <1>5, Zenon
  <2>3. history' \in Seq([id : 1..MaxTurns, result : Results])
    <3>1. CASE result \in Results
      <4>1. p \in Proposal
        BY <1>4, <3>1 DEF Results
      <4>2. [id |-> p.id, result |-> result] \in [id : 1..MaxTurns, result : Results]
        BY <4>1, <3>1 DEF Proposal
      <4> QED
        BY <4>2, <3>1, <1>5 DEF TypeOK
    <3> QED
      BY <3>1, <1>5 DEF TypeOK
  <2>4. appended' \in SUBSET [id : 1..MaxTurns, proposed : 1..MaxTurns, at : 1..MaxTurns]
    <3>1. CASE result = "approved" /\ written
      <4>1. p \in Proposal
        BY <1>4, <3>1
      <4> QED
        BY <4>1, <3>1, <1>1, <1>5 DEF TypeOK, Proposal
    <3> QED
      BY <3>1, <1>5 DEF TypeOK
  <2> QED
    BY <2>1, <2>2, <2>3, <2>4 DEF TypeOK
<1>7. ProposalInv'
  <2> HIDE DEF n, p, result
  <2>1. \A i \in DOMAIN history : history[i].id \in Nat /\ history[i].id <= made'
    BY <1>1, SettledTyped DEF ProposalInv, TypeOK
  <2>2. pending' # NoProposal => /\ result \notin Results /\ pending' = p
                                 /\ pending'.id <= made' /\ pending'.turn <= n
    BY <1>3, <1>5, Zenon
  <2>3. ASSUME result \in Results
        PROVE  SettledOnce' /\ \A i \in DOMAIN history' : history'[i].id <= made'
    <3> DEFINE entry == [id |-> p.id, result |-> result]
    <3>1. p \in Proposal /\ p # NoProposal
      BY <1>4, <2>3 DEF Results, Proposal, NoProposal
    <3>2. history' = Append(history, entry) /\ pending' = NoProposal /\ entry.id = p.id
      BY <1>5, <2>3
    <3>3. history \in Seq([id : 1..MaxTurns, result : Results])
      BY DEF TypeOK
    <3>4. /\ \A i \in DOMAIN history' :
               (i \in DOMAIN history /\ history'[i] = history[i])
               \/ (i = Len(history) + 1 /\ history'[i] = entry)
      BY <3>2, <3>3
    <3>5. entry.id \in 1..MaxTurns /\ entry.id <= made' /\ pending'.id = 0
      BY <1>3, <3>1, <3>2 DEF Proposal, NoProposal
    <3>6. \A i \in DOMAIN history' : history'[i].id <= made' /\ history'[i].id # 0
      BY <2>1, <3>4, <3>5, SettledTyped
    <3>7. \A i, j \in DOMAIN history' : history'[i].id = history'[j].id => i = j
      <4> SUFFICES ASSUME NEW i \in DOMAIN history', NEW j \in DOMAIN history',
                          history'[i].id = history'[j].id
                   PROVE  i = j
        BY Zenon
      <4>1. \A m \in DOMAIN history : history[m].id # entry.id
        BY <1>3, <3>2, Zenon
      <4> HIDE DEF entry
      <4> QED
        BY <3>4, <4>1 DEF ProposalInv, SettledOnce
    <3> QED
      BY <3>2, <3>5, <3>6, <3>7 DEF SettledOnce
  <2>4. ASSUME result \notin Results
        PROVE  SettledOnce' /\ \A i \in DOMAIN history' : history'[i].id <= made'
    <3>1. history' = history /\ pending' = p
      BY <1>5, <2>4
    <3> QED
      BY <3>1, <1>3, <2>1 DEF ProposalInv, SettledOnce
  <2>5. ApprovedInTime'
    <3>1. CASE result = "approved" /\ written
      BY <3>1, <1>4, <1>5 DEF ProposalInv, ApprovedInTime
    <3>2. CASE ~(result = "approved" /\ written)
      BY <3>2, <1>5, Zenon DEF ProposalInv, ApprovedInTime
    <3> QED
      BY <3>1, <3>2
  <2>6. proposalCount' <= messageCount'
    BY <1>1, <1>5, TrendsAssumption DEF ProposalInv, TypeOK, n
  <2>7. pending' # NoProposal => pending'.id <= made' /\ pending'.turn <= messageCount'
    BY <2>2, <1>1, Zenon
  <2> QED
    BY <2>3, <2>4, <2>5, <2>6, <2>7 DEF ProposalInv
<1> QED
  BY <1>6, <1>7

\* What is said of the proposals holds in every state.
LEMMA ProposalsInv == Spec => [](TypeOK /\ ProposalInv)
<1>1. Init => TypeOK /\ ProposalInv
  BY TrendsAssumption DEF Init, TypeOK, ProposalInv, SettledOnce, ApprovedInTime, NoProposal
<1>2. TypeOK /\ ProposalInv /\ [Next]_vars => (TypeOK /\ ProposalInv)'
  <2> SUFFICES ASSUME TypeOK, ProposalInv, [Next]_vars PROVE (TypeOK /\ ProposalInv)'
    OBVIOUS
  <2>1. ASSUME NEW response, NEW input \in Input, NEW written \in BOOLEAN,
               Turn(response, input, written)
        PROVE  (TypeOK /\ ProposalInv)'
    BY <2>1, TurnKeeps
  <2>2. CASE FailedTurn
    BY <2>2, TrendsAssumption
    DEF FailedTurn, TypeOK, ProposalInv, SettledOnce, ApprovedInTime, Proposal, NoProposal
  <2>3. CASE NewSession
    BY <2>3, TrendsAssumption
    DEF NewSession, TypeOK, ProposalInv, SettledOnce, ApprovedInTime, NoProposal
  <2>4. CASE UNCHANGED vars
    BY <2>4 DEF vars, TypeOK, ProposalInv, SettledOnce, ApprovedInTime
  <2> QED
    BY <2>1, <2>2, <2>3, <2>4, Zenon DEF Next
<1> QED
  BY <1>1, <1>2, PTL DEF Spec

\* A proposal is settled at most once and is pending no more when it is, whatever
\* responses and inputs follow each other (trends_proposal.py:333-379).
THEOREM SettlesOnce == Spec => []SettledOnce
BY ProposalsInv, PTL DEF ProposalInv

\* What is written to the file was approved within the timeout, for every timeout
\* and with failed turns in between (agent_core.py:310-311, trends_proposal.py:350).
THEOREM ApprovalInTime == Spec => []ApprovedInTime
BY ProposalsInv, PTL DEF ProposalInv

-----------------------------------------------------------------------------
(* What appending an entry to a section does to the lines of a file, for   *)
(* every text and every entry.                                             *)

\* The entry stands after line e of the old text, which is otherwise unchanged.
Inserted(t, new, e, entry) ==
  /\ e \in 1..Len(t)
  /\ Len(new) = Len(t) + Len(entry)
  /\ \A i \in 1..e : new[i] = t[i]
  /\ \A i \in 1..Len(entry) : new[e + i] = entry[i]
  /\ \A i \in (e + 1)..Len(t) : new[i + Len(entry)] = t[i]

\* Where a line of the old text is in the new one.
Moved(i, e, entry) == IF i <= e THEN i ELSE i + Len(entry)

\* c is a followed by b.
Joins(c, a, b) ==
  /\ Len(c) = Len(a) + Len(b)
  /\ \A i \in 1..Len(a) : c[i] = a[i]
  /\ \A i \in 1..Len(b) : c[Len(a) + i] = b[i]

\* The elements of a concatenation.
LEMMA ConcatAt ==
  ASSUME NEW S, NEW a \in Seq(S), NEW b \in Seq(S)
  PROVE  a \o b \in Seq(S) /\ Joins(a \o b, a, b)
<1>1. /\ a \o b \in Seq(S)
      /\ Len(a \o b) = Len(a) + Len(b)
      /\ \A i \in 1..(Len(a) + Len(b)) : (a \o b)[i] = IF i <= Len(a) THEN a[i] ELSE b[i - Len(a)]
  BY ConcatProperties, Zenon
<1>2. ASSUME NEW i \in 1..Len(a) PROVE (a \o b)[i] = a[i]
  BY <1>1
<1>3. ASSUME NEW i \in 1..Len(b) PROVE (a \o b)[Len(a) + i] = b[i]
  <2>1. Len(a) + i \in 1..(Len(a) + Len(b)) /\ ~(Len(a) + i <= Len(a)) /\ (Len(a) + i) - Len(a) = i
    OBVIOUS
  <2> QED
    BY <1>1, <2>1
<1> QED
  BY <1>1, <1>2, <1>3 DEF Joins

\* What _append_to_section returns is the text with the entry inserted at the end
\* of the section.
LEMMA AppendedInserts ==
  ASSUME NEW t \in Seq(Line), NEW s, NEW entry \in Seq(Line), NEW new \in Appended(t, s, entry)
  PROVE  /\ new \in Seq(Line)
         /\ \E e \in 1..Len(t), h \in 1..Len(t) :
              h <= e /\ FirstHeading(t, s, h) /\ EndsAt(t, h, e) /\ Inserted(t, new, e, entry)
<1>1. PICK e \in 1..Len(t) :
        /\ \E h \in 1..e : FirstHeading(t, s, h) /\ EndsAt(t, h, e)
        /\ new = SubSeq(t, 1, e) \o entry \o SubSeq(t, e + 1, Len(t))
  BY Zenon DEF Appended
<1>2. PICK h \in 1..e : FirstHeading(t, s, h) /\ EndsAt(t, h, e)
  BY <1>1
<1> DEFINE a == SubSeq(t, 1, e)
           b == SubSeq(t, e + 1, Len(t))
<1>3. /\ a \in Seq(Line) /\ Len(a) = e /\ \A i \in 1..e : a[i] = t[i]
      /\ b \in Seq(Line) /\ Len(b) = Len(t) - e /\ \A i \in 1..(Len(t) - e) : b[i] = t[e + i]
  <2> HIDE DEF Line
  <2> QED
    OBVIOUS
<1>4. new = (a \o entry) \o b
  BY <1>1
<1> HIDE DEF a, b, Line
<1> DEFINE c == a \o entry
<1>5. c \in Seq(Line) /\ Len(c) = e + Len(entry)
      /\ (\A i \in 1..e : c[i] = t[i])
      /\ (\A i \in 1..Len(entry) : c[e + i] = entry[i])
  <2>1. c \in Seq(Line) /\ Joins(c, a, entry)
    BY <1>3, ConcatAt, Zenon
  <2> HIDE DEF c
  <2> QED
    BY <2>1, <1>3 DEF Joins
<1> HIDE DEF c
<1>6. new \in Seq(Line) /\ Joins(new, c, b)
  <2>1. new = c \o b
    BY <1>4 DEF c
  <2> QED
    BY <2>1, <1>3, <1>5, ConcatAt, Zenon
<1>7. ASSUME NEW i \in (e + 1)..Len(t) PROVE new[i + Len(entry)] = t[i]
  <2>1. i - e \in 1..Len(b) /\ Len(c) + (i - e) = i + Len(entry) /\ e + (i - e) = i
    BY <1>3, <1>5
  <2>2. new[Len(c) + (i - e)] = b[i - e]
    BY <2>1, <1>6 DEF Joins
  <2>3. b[i - e] = t[e + (i - e)]
    BY <2>1, <1>3
  <2> QED
    BY <2>1, <2>2, <2>3, Zenon
<1>8. \A i \in 1..e : new[i] = t[i]
  BY <1>5, <1>6 DEF Joins
<1>9. \A i \in 1..Len(entry) : new[e + i] = entry[i]
  BY <1>5, <1>6 DEF Joins
<1>10. Inserted(t, new, e, entry)
  BY <1>3, <1>5, <1>6, <1>7, <1>8, <1>9 DEF Inserted, Joins
<1> QED
  BY <1>2, <1>6, <1>10

\* The lines of the new text are those of the old one, moved, and the entry's.
Consists(t, new, e, entry) ==
  /\ \A i \in DOMAIN t : Moved(i, e, entry) \in DOMAIN new /\ new[Moved(i, e, entry)] = t[i]
  /\ \A i \in DOMAIN entry : e + i \in DOMAIN new /\ new[e + i] = entry[i]
  /\ \A n \in DOMAIN new :
       \/ \E i \in DOMAIN t : n = Moved(i, e, entry)
       \/ \E i \in DOMAIN entry : n = e + i

\* It is so after an insertion.
LEMMA InsertedLines ==
  ASSUME NEW t \in Seq(Line), NEW new \in Seq(Line), NEW entry \in Seq(Line), NEW e,
         Inserted(t, new, e, entry)
  PROVE  Consists(t, new, e, entry)
<1> HIDE DEF Line
<1>1. ASSUME NEW i \in DOMAIN t
      PROVE  Moved(i, e, entry) \in DOMAIN new /\ new[Moved(i, e, entry)] = t[i]
  <2>1. CASE i <= e
    BY <2>1 DEF Inserted, Moved
  <2>2. CASE i > e
    <3>1. i \in (e + 1)..Len(t) /\ Moved(i, e, entry) = i + Len(entry)
          /\ i + Len(entry) \in DOMAIN new
      BY <2>2 DEF Inserted, Moved
    <3> QED
      BY <3>1 DEF Inserted
  <2> QED
    BY <2>1, <2>2 DEF Inserted
<1>2. ASSUME NEW n \in DOMAIN new
      PROVE  \/ \E i \in DOMAIN t : n = Moved(i, e, entry)
             \/ \E i \in DOMAIN entry : n = e + i
  <2>1. CASE n <= e
    BY <2>1 DEF Inserted, Moved
  <2>2. CASE n > e /\ n <= e + Len(entry)
    <3>1. n - e \in DOMAIN entry /\ n = e + (n - e)
      BY <2>2 DEF Inserted
    <3> QED
      BY <3>1
  <2>3. CASE n > e + Len(entry)
    <3>1. n - Len(entry) \in DOMAIN t /\ n = Moved(n - Len(entry), e, entry)
      BY <2>3 DEF Inserted, Moved
    <3> QED
      BY <3>1
  <2> QED
    BY <2>1, <2>2, <2>3 DEF Inserted
<1>3. ASSUME NEW i \in DOMAIN entry PROVE e + i \in DOMAIN new /\ new[e + i] = entry[i]
  <2>1. e \in 1..Len(t) /\ i \in 1..Len(entry) /\ Len(new) = Len(t) + Len(entry)
        /\ DOMAIN new = 1..Len(new) /\ Len(t) \in Nat /\ Len(entry) \in Nat
    BY DEF Inserted
  <2>2. new[e + i] = entry[i]
    BY <2>1, Zenon DEF Inserted
  <2> QED
    BY <2>1, <2>2
<1> QED
  BY <1>1, <1>2, <1>3, Zenon DEF Consists

\* A line stays in its section: what is inserted stands at the end of a section,
\* before the next heading.
LEMMA StaysUnder ==
  ASSUME NEW t \in Seq(Line), NEW new \in Seq(Line), NEW entry \in Seq(Line),
         NEW e, NEW h, NEW s, NEW i \in DOMAIN t,
         Inserted(t, new, e, entry), EndsAt(t, h, e), Under(t, i, s)
  PROVE  Under(new, Moved(i, e, entry), s)
<1> HIDE DEF Line
<1>1. PICK g \in 1..i : t[g] = Heading(s) /\ \A j \in (g + 1)..i : t[j].kind # "heading"
  BY DEF Under
<1>2. CASE i <= e
  <2>1. Moved(i, e, entry) = i /\ new[g] = Heading(s) /\ \A j \in (g + 1)..i : new[j] = t[j]
    BY <1>1, <1>2 DEF Inserted, Moved
  <2>2. \A j \in (g + 1)..i : new[j].kind # "heading"
    BY <1>1, <2>1
  <2> QED
    BY <2>1, <2>2, <1>1 DEF Under
<1>3. CASE i > e
  <2>1. t[e + 1].kind = "heading" /\ e + 1 <= Len(t)
    BY <1>3 DEF EndsAt, Inserted, IsHeading
  <2>2. g > e
    <3> SUFFICES ASSUME g <= e PROVE FALSE
      BY <1>1 DEF Inserted
    <3>1. e + 1 \in (g + 1)..i
      BY <1>3, <1>1 DEF Inserted
    <3> QED
      BY <3>1, <2>1, <1>1
  <2> DEFINE m == Len(entry)
  <2>3. m \in Nat /\ Moved(i, e, entry) = i + m /\ g + m \in 1..(i + m)
    BY <1>3, <1>1 DEF Moved, Inserted
  <2>4. new[g + m] = Heading(s)
    BY <2>2, <1>1 DEF Inserted
  <2>5. ASSUME NEW j \in (g + m + 1)..(i + m) PROVE new[j].kind # "heading"
    <3>1. j - m \in (g + 1)..i /\ j - m \in (e + 1)..Len(t) /\ (j - m) + m = j
      BY <2>3, <2>2, <1>1 DEF Inserted
    <3>2. new[j] = t[j - m]
      BY <3>1 DEF Inserted
    <3> QED
      BY <3>1, <3>2, <1>1
  <2> HIDE DEF m
  <2> QED
    BY <2>3, <2>4, <2>5 DEF Under
<1> QED
  BY <1>2, <1>3 DEF Inserted

\* The first lines of an entry, up to a heading of its own, are in the section.
LEMMA EntryUnder ==
  ASSUME NEW t \in Seq(Line), NEW new \in Seq(Line), NEW entry \in Seq(Line),
         NEW e, NEW h \in 1..Len(t), NEW s, NEW i \in DOMAIN entry,
         h <= e, FirstHeading(t, s, h), EndsAt(t, h, e), Inserted(t, new, e, entry),
         \A j \in 1..i : entry[j].kind # "heading"
  PROVE  e + i \in DOMAIN new /\ new[e + i] = entry[i] /\ Under(new, e + i, s)
<1> HIDE DEF Line
<1>0. e \in 1..Len(t) /\ i \in 1..Len(entry) /\ Len(new) = Len(t) + Len(entry)
      /\ DOMAIN new = 1..Len(new)
  BY DEF Inserted
<1>1. e + i \in DOMAIN new /\ new[e + i] = entry[i] /\ h \in 1..(e + i)
  <2>1. new[e + i] = entry[i]
    BY <1>0, Zenon DEF Inserted
  <2> QED
    BY <1>0, <2>1
<1>2. new[h] = Heading(s)
  BY DEF Inserted, FirstHeading
<1>3. ASSUME NEW j \in (h + 1)..(e + i) PROVE new[j].kind # "heading"
  <2>1. CASE j <= e
    BY <2>1 DEF EndsAt, Inserted, IsHeading
  <2>2. CASE j > e
    <3>1. j - e \in 1..i /\ j - e \in 1..Len(entry) /\ e + (j - e) = j
      BY <2>2 DEF Inserted
    <3>2. new[j] = entry[j - e]
      BY <3>1 DEF Inserted
    <3> QED
      BY <3>1, <3>2
  <2> QED
    BY <2>1, <2>2 DEF Inserted
<1> QED
  BY <1>1, <1>2, <1>3 DEF Under

\* When the heading of the section is the only one of its name, the lines of the
\* section stand before what is appended to it.
LEMMA UnderIsBefore ==
  ASSUME NEW t \in Seq(Line), NEW e \in 1..Len(t), NEW h \in 1..Len(t), NEW s, NEW i \in DOMAIN t,
         FirstHeading(t, s, h), EndsAt(t, h, e), Under(t, i, s),
         \A g \in DOMAIN t : t[g] = Heading(s) => g = h
  PROVE  i <= e
<1> HIDE DEF Line
<1>1. PICK g \in 1..i : t[g] = Heading(s) /\ \A j \in (g + 1)..i : t[j].kind # "heading"
  BY DEF Under
<1>2. g = h
  BY <1>1
<1> SUFFICES ASSUME i > e PROVE FALSE
  OBVIOUS
<1>3. t[e + 1].kind = "heading" /\ e + 1 \in (h + 1)..i
  BY DEF EndsAt, IsHeading
<1> QED
  BY <1>1, <1>2, <1>3

\* A section that holds a line of an entry is not taken for empty.
LEMMA EntryIsSomething ==
  ASSUME NEW t \in Seq(Line), NEW s, s # Log, NEW i \in DOMAIN t, t[i].entry # 0,
         t[i].kind # "heading", Under(t, i, s)
  PROVE  ~TrendsEmpty(t)
<1> HIDE DEF Line
<1>1. PICK g \in 1..i : t[g] = Heading(s) /\ \A j \in (g + 1)..i : t[j].kind # "heading"
  BY DEF Under
<1>2. g \in DOMAIN t /\ IsHeading(t[g]) /\ t[g].section = s
  BY <1>1 DEF Heading, IsHeading
<1>3. g # i
  BY <1>2 DEF IsHeading
<1>4. i \in Body(t, g)
  BY <1>1, <1>3 DEF Body, IsHeading
<1>5. t[i] # Hint
  BY DEF Hint
<1> QED
  BY <1>2, <1>4, <1>5 DEF TrendsEmpty, HasNothing

-----------------------------------------------------------------------------

(* The proposals do not notice the files.                                  *)

\* Every step of the files and the proposals is one of the proposals, or none.
LEMMA EditsAreProposals == EditSpec => Spec
<1>1. EditInit => Init
  BY DEF EditInit
<1>2. ASSUME [EditNext]_editVars PROVE [Next]_vars
  <2>1. ASSUME NEW f \in Files, Load(f) PROVE UNCHANGED vars
    BY <2>1, Zenon DEF Load
  <2>2. ASSUME NEW f \in Files, StartupFails(f) PROVE NewSession
    BY <2>2, Zenon DEF StartupFails, Ends
  <2>3. ASSUME Answer PROVE UNCHANGED vars
    BY <2>3, Zenon DEF Answer
  <2>4. ASSUME AnswerFails PROVE FailedTurn
    BY <2>4, Zenon DEF AnswerFails
  <2>5. ASSUME NEW u \in Updates, UpdateHuman(u) PROVE UNCHANGED vars
    BY <2>5, Zenon DEF UpdateHuman
  <2>6. ASSUME NEW response \in Responses, NEW input \in Input, HandleTrends(response, input)
        PROVE  \E written \in BOOLEAN : Turn(response, input, written)
    BY <2>6, Zenon DEF HandleTrends
  <2>7. ASSUME Crash PROVE NewSession
    BY <2>7, Zenon DEF Crash, Ends
  <2>8. ASSUME UNCHANGED editVars PROVE UNCHANGED vars
    BY <2>8, Zenon DEF editVars
  <2> QED
    BY <1>2, <2>1, <2>2, <2>3, <2>4, <2>5, <2>6, <2>7, <2>8, Zenon DEF EditNext, Next
<1> QED
  BY <1>1, <1>2, PTL DEF EditSpec, Spec

\* With the files, too, a proposal is settled at most once and approved in time.
THEOREM EditsSettleOnce == EditSpec => [](SettledOnce /\ ApprovedInTime)
BY EditsAreProposals, ProposalsInv, PTL DEF ProposalInv

-----------------------------------------------------------------------------
(* What is appended.                                                       *)

\* The lines of an entry bear its number; a plain one has text, one of the trends
\* begins with its sub-heading.
EntryLines(f, lines, k) ==
  /\ lines \in Seq(Line)
  /\ \A i \in DOMAIN lines : lines[i].entry \in {0, k}
  /\ IsPlain(lines) => \E i \in DOMAIN lines : lines[i] = Text(k)
  /\ f = "trends" => 1 \in DOMAIN lines /\ lines[1] = SubHeading(k)

\* An accepted update names a section other than the log and has lines.
LEMMA UpdateShape ==
  ASSUME NEW u \in Updates
  PROVE  /\ u.section \in {"basic", "likes", "habits"}
         /\ \E n \in Nat \ {0} : u.shape \in [1..n -> {"text", "likes"}]
<1>1. PICK a \in Accepted(MaxLines) :
        u = [section |-> a.section,
             shape |-> [i \in DOMAIN a.content |->
               IF a.content[i] \in DOMAIN HeadingLine THEN HeadingLine[a.content[i]] ELSE "text"]]
  BY Zenon DEF Updates
<1>2. PICK b \in Blocks(MaxLines) : a \in ParseUpdate(b) /\ IsValid(a)
  BY Zenon DEF Accepted
<1>3. PICK n \in Nat : b \in [1..n -> BlockLine]
  <2>1. PICK n \in 0..MaxLines : b \in [1..n -> BlockLine]
    BY Zenon DEF Blocks
  <2>2. n \in Nat
    OBVIOUS
  <2> QED
    BY <2>1, <2>2
<1>4. a.content = ContentOf(b)
  <2>1. PICK section \in SectionOf(b) : a = [section |-> section, content |-> ContentOf(b)]
    BY <1>2, Zenon DEF ParseUpdate
  <2> QED
    BY <2>1
<1> DEFINE Content == {i \in DOMAIN b : b[i].tag # "section"
                         /\ \E j \in 1..i : BeginsContent(b, j)}
           c == Cardinality(Content)
<1>5. c \in Nat
  <2>1. IsFiniteSet(1..n)
    BY FS_Interval
  <2>2. Content \subseteq 1..n
    BY <1>3, Zenon
  <2> QED
    BY <2>1, <2>2, FS_Subset, FS_CardinalityType, Zenon
<1>6. DOMAIN a.content = 1..c
  BY <1>4, Zenon DEF ContentOf
<1> HIDE DEF c
<1>7. c # 0
  <2>1. \E i \in DOMAIN a.content : TRUE
    BY <1>2, Zenon DEF IsValid, WordsOf
  <2> QED
    BY <2>1, <1>5, <1>6
<1>8. u.shape \in [1..c -> {"text", "likes"}]
  <2>1. ASSUME NEW i \in 1..c
        PROVE  (IF a.content[i] \in DOMAIN HeadingLine THEN HeadingLine[a.content[i]] ELSE "text")
                 \in {"text", "likes"}
    BY DEF HeadingLine
  <2> QED
    BY <1>1, <1>6, <2>1, Zenon
<1>9. u.section \in {"basic", "likes", "habits"}
  BY <1>1, <1>2 DEF IsValid, Valid
<1> QED
  BY <1>5, <1>7, <1>8, <1>9

\* The lines of an update are those of an entry.
LEMMA UpdateEntry ==
  ASSUME NEW u \in Updates, NEW k \in Nat
  PROVE  EntryLines("human", UpdateLines(u, k), k)
<1>1. PICK n \in Nat \ {0} : u.shape \in [1..n -> {"text", "likes"}]
  BY UpdateShape
<1> DEFINE LineOf(i) == IF u.shape[i] = "text" THEN Text(k) ELSE Heading(u.shape[i])
           lines == UpdateLines(u, k)
<1>2. ASSUME NEW i \in 1..n
      PROVE  /\ LineOf(i) \in Line /\ LineOf(i).entry \in {0, k}
             /\ LineOf(i).kind # "heading" => LineOf(i) = Text(k)
  <2>1. u.shape[i] \in {"text", "likes"}
    BY <1>1
  <2> QED
    BY <2>1 DEF Line, Text, Heading
<1>3. lines = [i \in 1..n |-> LineOf(i)]
  BY <1>1, Zenon DEF UpdateLines
<1> HIDE DEF lines, LineOf
<1>4. lines \in [1..n -> Line] /\ DOMAIN lines = 1..n /\ \A i \in 1..n : lines[i] = LineOf(i)
  BY <1>2, <1>3, Zenon
<1>5. lines \in Seq(Line)
  <2> HIDE DEF Line
  <2> QED
    BY <1>4
<1>6. IsPlain(lines) => lines[1] = Text(k) /\ 1 \in DOMAIN lines
  BY <1>2, <1>4 DEF IsPlain
<1> QED
  BY <1>2, <1>4, <1>5, <1>6 DEF EntryLines, lines

\* The lines of a proposal are those of an entry.
LEMMA ProposalEntry ==
  ASSUME NEW k \in Nat, NEW lines \in ProposalLines(k)
  PROVE  EntryLines("trends", lines, k)
<1>1. SubHeading(k) \in Line /\ Text(k) \in Line /\ Heading("T2") \in Line
  BY DEF SubHeading, Text, Heading, Line
<1>2. CASE lines = <<SubHeading(k), Text(k)>>
  <2>1. lines \in Seq(Line)
    BY <1>1, <1>2
  <2>2. lines[1] = SubHeading(k) /\ lines[2] = Text(k) /\ DOMAIN lines = 1..2
    BY <1>2
  <2> QED
    BY <2>1, <2>2 DEF EntryLines, SubHeading, Text
<1>3. CASE lines = <<SubHeading(k), Text(k), Heading("T2"), Text(k)>>
  <2>1. lines \in Seq(Line)
    BY <1>1, <1>3
  <2>2. /\ lines[1] = SubHeading(k) /\ lines[2] = Text(k) /\ lines[3] = Heading("T2")
        /\ lines[4] = Text(k) /\ DOMAIN lines = 1..4
    BY <1>3
  <2> QED
    BY <2>1, <2>2 DEF EntryLines, SubHeading, Text, Heading
<1> QED
  BY <1>2, <1>3, Zenon DEF ProposalLines

-----------------------------------------------------------------------------
(* The invariant of a file whose writes were complete.                     *)

\* Entry k, with the record r, is where it was stored.
Placed(f, t, r, k) ==
  /\ r.plain => /\ \E i \in DOMAIN t : t[i] = Text(k)
                /\ \A i \in LinesOf(t, k) : Under(t, i, r.section)
  /\ f = "trends" => \E i \in DOMAIN t : t[i] = SubHeading(k) /\ Under(t, i, r.section)

\* No two headings have the same name.
HeadingsDiffer(t) ==
  \A g, h \in DOMAIN t :
    t[g].kind = "heading" /\ t[h].kind = "heading" /\ t[g].section = t[h].section => g = h

\* The entries of a section follow each other in the order of their numbers.
Ordered(f, t, st) ==
  \A k, l \in DOMAIN st :
    st[k].file = f /\ st[l].file = f /\ k < l /\ st[k].section = st[l].section =>
      \A i \in LinesOf(t, k), j \in LinesOf(t, l) : i < j

Sound(f, t, st) ==
  /\ \A i \in DOMAIN t : t[i].entry \in 0..Len(st)
  /\ \A k \in DOMAIN st : st[k].file = f => Placed(f, t, st[k], k)
  /\ (\A k \in DOMAIN st : st[k].file = f => st[k].plain) => HeadingsDiffer(t) /\ Ordered(f, t, st)

\* The entries that were stored before another one was.
LEMMA Appending ==
  ASSUME NEW st \in Seq(Entry), NEW r \in Entry
  PROVE  /\ Append(st, r) \in Seq(Entry)
         /\ Len(Append(st, r)) = Len(st) + 1
         /\ DOMAIN Append(st, r) = 1..(Len(st) + 1)
         /\ DOMAIN st = 1..Len(st)
         /\ \A k \in DOMAIN st : Append(st, r)[k] = st[k]
         /\ Append(st, r)[Len(st) + 1] = r
<1> HIDE DEF Entry
<1> QED
  OBVIOUS

\* A template has every heading once and no entries.
LEMMA TemplateSound ==
  ASSUME NEW f \in Files, NEW st \in Seq(Entry), \A k \in DOMAIN st : st[k].file # f
  PROVE  Template[f] \in Seq(Line) /\ Sound(f, Template[f], st)
<1>1. /\ Title \in Line /\ Hint \in Line
      /\ \A s \in {"basic", "likes", "habits", "T1", "T2", "T3", Log} : Heading(s) \in Line
  BY DEF Title, Hint, Heading, Line, Log
<1>2. CASE f = "human"
  <2> DEFINE t == <<Title, Heading("basic"), Hint, Heading("likes"), Heading("habits"), Heading(Log)>>
  <2>1. Template[f] = t
    BY <1>2 DEF Template
  <2>2. t \in Seq(Line)
    BY <1>1
  <2>3. \A i \in DOMAIN t : t[i].entry = 0
    BY DEF Title, Hint, Heading
  <2>4. HeadingsDiffer(t)
    BY DEF HeadingsDiffer, Title, Hint, Heading, Log
  <2> HIDE DEF t
  <2> QED
    BY <2>1, <2>2, <2>3, <2>4 DEF Sound, Ordered
<1>3. CASE f = "trends"
  <2> DEFINE t == <<Title, Heading("T1"), Hint, Heading("T2"), Heading("T3"), Heading(Log)>>
  <2>1. Template[f] = t
    BY <1>3 DEF Template
  <2>2. t \in Seq(Line)
    BY <1>1
  <2>3. \A i \in DOMAIN t : t[i].entry = 0
    BY DEF Title, Hint, Heading
  <2>4. HeadingsDiffer(t)
    BY DEF HeadingsDiffer, Title, Hint, Heading, Log
  <2> HIDE DEF t
  <2> QED
    BY <2>1, <2>2, <2>3, <2>4 DEF Sound, Ordered
<1> QED
  BY <1>2, <1>3 DEF Files

\* An entry of the other file changes nothing.
LEMMA OtherFileSound ==
  ASSUME NEW f \in Files, NEW t \in Seq(Line), NEW st \in Seq(Entry), NEW r \in Entry,
         r.file # f, Sound(f, t, st)
  PROVE  Sound(f, t, Append(st, r))
<1> DEFINE new == Append(st, r)
<1>1. /\ Len(new) = Len(st) + 1 /\ DOMAIN new = 1..(Len(st) + 1) /\ DOMAIN st = 1..Len(st)
      /\ \A k \in DOMAIN st : new[k] = st[k]
      /\ new[Len(st) + 1] = r
  BY Appending, Zenon
<1>2. \A k \in DOMAIN new : new[k].file = f => k \in DOMAIN st /\ new[k] = st[k]
  <2> HIDE DEF new, Entry
  <2> QED
    BY <1>1
<1>3. \A k \in DOMAIN st : k \in DOMAIN new
  <2> HIDE DEF new, Entry
  <2> QED
    BY <1>1
<1>4. \A i \in DOMAIN t : t[i].entry \in 0..Len(new)
  <2> HIDE DEF new, Entry, Line
  <2> QED
    BY <1>1 DEF Sound
<1> HIDE DEF new, Entry, Line
<1>5. \A k \in DOMAIN new : new[k].file = f => Placed(f, t, new[k], k)
  BY <1>2, Zenon DEF Sound
<1>6. (\A k \in DOMAIN new : new[k].file = f => new[k].plain) => HeadingsDiffer(t) /\ Ordered(f, t, new)
  <2> SUFFICES ASSUME \A k \in DOMAIN new : new[k].file = f => new[k].plain
               PROVE  HeadingsDiffer(t) /\ Ordered(f, t, new)
    OBVIOUS
  <2>1. \A k \in DOMAIN st : st[k].file = f => st[k].plain
    BY <1>1, <1>3, Zenon
  <2>2. HeadingsDiffer(t) /\ Ordered(f, t, st)
    BY <2>1, Zenon DEF Sound
  <2> QED
    BY <2>2, <1>2, Zenon DEF Ordered
<1> QED
  BY <1>4, <1>5, <1>6, Zenon DEF Sound, new

\* Lines do not change their order.
LEMMA MovedInOrder ==
  ASSUME NEW e \in Nat, NEW entry \in Seq(Line), NEW i \in Nat, NEW j \in Nat, i < j
  PROVE  Moved(i, e, entry) < Moved(j, e, entry)
<1>1. Len(entry) \in Nat
  OBVIOUS
<1> QED
  BY <1>1 DEF Moved

\* Appending an entry to its file keeps everything where it belongs.
LEMMA AppendSound ==
  ASSUME NEW f \in Files, NEW t \in Seq(Line), NEW st \in Seq(Entry), NEW s,
         NEW lines, NEW new \in Appended(t, s, lines), NEW r \in Entry,
         r.file = f, r.section = s, r.plain = IsPlain(lines),
         EntryLines(f, lines, Len(st) + 1), Sound(f, t, st)
  PROVE  new \in Seq(Line) /\ Sound(f, new, Append(st, r))
<1> DEFINE ns == Append(st, r)
           K == Len(st) + 1
<1>1. lines \in Seq(Line)
  BY DEF EntryLines
<1>2. new \in Seq(Line)
  BY <1>1, AppendedInserts, Zenon
<1>3. PICK e \in 1..Len(t), h \in 1..Len(t) :
        h <= e /\ FirstHeading(t, s, h) /\ EndsAt(t, h, e) /\ Inserted(t, new, e, lines)
  BY <1>1, AppendedInserts, Zenon
<1> HIDE DEF Entry, Line
<1>4. /\ \A i \in DOMAIN t : Moved(i, e, lines) \in DOMAIN new /\ new[Moved(i, e, lines)] = t[i]
      /\ \A n \in DOMAIN new :
           \/ \E i \in DOMAIN t : n = Moved(i, e, lines)
           \/ \E i \in DOMAIN lines : n = e + i
  <2>1. Consists(t, new, e, lines)
    BY <1>1, <1>2, <1>3, InsertedLines, Zenon
  <2> QED
    BY <2>1, Zenon DEF Consists
<1>5. \A i \in DOMAIN lines : e + i \in DOMAIN new /\ new[e + i] = lines[i]
  <2>1. Consists(t, new, e, lines)
    BY <1>1, <1>2, <1>3, InsertedLines, Zenon
  <2> QED
    BY <2>1, Zenon DEF Consists
<1>6. /\ Len(ns) = K /\ DOMAIN ns = 1..K /\ DOMAIN st = 1..Len(st) /\ Len(st) \in Nat
      /\ (\A k \in DOMAIN st : ns[k] = st[k]) /\ ns[K] = r
  BY Appending
<1> HIDE DEF ns
<1>7. \A n \in DOMAIN new : new[n].entry \in 0..Len(ns)
  <2> SUFFICES ASSUME NEW n \in DOMAIN new PROVE new[n].entry \in 0..Len(ns)
    OBVIOUS
  <2>1. ASSUME NEW i \in DOMAIN t, n = Moved(i, e, lines) PROVE new[n].entry \in 0..Len(ns)
    <3>1. new[n].entry \in 0..Len(st)
      BY <1>4, <2>1 DEF Sound
    <3> QED
      BY <3>1, <1>6
  <2>2. ASSUME NEW i \in DOMAIN lines, n = e + i PROVE new[n].entry \in 0..Len(ns)
    <3>1. new[n].entry \in {0, K}
      BY <1>5, <2>2 DEF EntryLines
    <3> QED
      BY <3>1, <1>6
  <2> QED
    BY <1>4, <2>1, <2>2
<1>8. ASSUME NEW k \in DOMAIN st, NEW n \in LinesOf(new, k)
      PROVE  \E i \in LinesOf(t, k) : n = Moved(i, e, lines)
  <2>1. n \in DOMAIN new /\ new[n].entry = k
    BY <1>8 DEF LinesOf
  <2>2. k # 0 /\ k # K
    BY <1>6
  <2>3. ASSUME NEW i \in DOMAIN lines, n = e + i PROVE FALSE
    BY <2>1, <2>2, <2>3, <1>5 DEF EntryLines
  <2>4. PICK i \in DOMAIN t : n = Moved(i, e, lines)
    BY <1>4, <2>1, <2>3
  <2>5. i \in LinesOf(t, k)
    BY <1>4, <2>1, <2>4 DEF LinesOf
  <2> QED
    BY <2>4, <2>5
<1>9. ASSUME NEW n \in LinesOf(new, K)
      PROVE  \E i \in DOMAIN lines : n = e + i
  <2>1. n \in DOMAIN new /\ new[n].entry = K
    BY <1>9 DEF LinesOf
  <2>2. ASSUME NEW i \in DOMAIN t, n = Moved(i, e, lines) PROVE FALSE
    <3>1. new[n].entry \in 0..Len(st)
      BY <1>4, <2>2 DEF Sound
    <3> QED
      BY <3>1, <2>1, <1>6
  <2> QED
    BY <1>4, <2>1, <2>2
<1>10. ASSUME NEW i \in DOMAIN t, NEW sec, Under(t, i, sec) PROVE Under(new, Moved(i, e, lines), sec)
  BY <1>1, <1>2, <1>3, <1>10, StaysUnder, Zenon
<1>11. ASSUME NEW k \in DOMAIN st, st[k].file = f PROVE Placed(f, new, st[k], k)
  <2>1. Placed(f, t, st[k], k)
    BY <1>11 DEF Sound
  <2>2. ASSUME st[k].plain
        PROVE  /\ \E n \in DOMAIN new : new[n] = Text(k)
               /\ \A n \in LinesOf(new, k) : Under(new, n, st[k].section)
    <3>1. \E n \in DOMAIN new : new[n] = Text(k)
      BY <2>1, <2>2, <1>4, Zenon DEF Placed
    <3>2. ASSUME NEW n \in LinesOf(new, k) PROVE Under(new, n, st[k].section)
      <4>1. PICK i \in LinesOf(t, k) : n = Moved(i, e, lines)
        BY <1>8, <3>2
      <4>2. i \in DOMAIN t /\ Under(t, i, st[k].section)
        BY <2>1, <2>2, <4>1, Zenon DEF Placed, LinesOf
      <4> QED
        BY <4>1, <4>2, <1>10, Zenon
    <3> QED
      BY <3>1, <3>2
  <2>3. ASSUME f = "trends"
        PROVE  \E n \in DOMAIN new : new[n] = SubHeading(k) /\ Under(new, n, st[k].section)
    <3>1. PICK i \in DOMAIN t : t[i] = SubHeading(k) /\ Under(t, i, st[k].section)
      BY <2>1, <2>3, Zenon DEF Placed
    <3> QED
      BY <3>1, <1>4, <1>10, Zenon
  <2> QED
    BY <2>2, <2>3, Zenon DEF Placed
<1>12. ASSUME NEW i \in DOMAIN lines, \A j \in 1..i : lines[j].kind # "heading"
       PROVE  Under(new, e + i, s)
  BY <1>1, <1>2, <1>3, <1>12, EntryUnder, Zenon
<1>13. Placed(f, new, r, K)
  <2>1. ASSUME IsPlain(lines)
        PROVE  /\ \E n \in DOMAIN new : new[n] = Text(K)
               /\ \A n \in LinesOf(new, K) : Under(new, n, s)
    <3>1. \E n \in DOMAIN new : new[n] = Text(K)
      <4>1. PICK i \in DOMAIN lines : lines[i] = Text(K)
        BY <2>1, Zenon DEF EntryLines
      <4> QED
        BY <4>1, <1>5, Zenon
    <3>2. ASSUME NEW n \in LinesOf(new, K) PROVE Under(new, n, s)
      <4>1. PICK i \in DOMAIN lines : n = e + i
        BY <1>9, <3>2
      <4>2. \A j \in 1..i : lines[j].kind # "heading"
        BY <2>1, <1>1, <4>1 DEF IsPlain
      <4> QED
        BY <4>1, <4>2, <1>12, Zenon
    <3> QED
      BY <3>1, <3>2
  <2>2. ASSUME f = "trends"
        PROVE  \E n \in DOMAIN new : new[n] = SubHeading(K) /\ Under(new, n, s)
    <3>1. 1 \in DOMAIN lines /\ lines[1] = SubHeading(K)
      BY <2>2, Zenon DEF EntryLines
    <3>2. \A j \in 1..1 : lines[j].kind # "heading"
      BY <3>1 DEF SubHeading
    <3>3. Under(new, e + 1, s)
      BY <3>1, <3>2, <1>12, Zenon
    <3> QED
      BY <3>1, <3>3, <1>5, Zenon
  <2> QED
    BY <2>1, <2>2, Zenon DEF Placed
<1>14. \A k \in DOMAIN ns : k = K \/ (k \in DOMAIN st /\ ns[k] = st[k])
  BY <1>6
<1>15. \A k \in DOMAIN ns : ns[k].file = f => Placed(f, new, ns[k], k)
  BY <1>6, <1>11, <1>13, <1>14, Zenon
<1>16. ASSUME \A k \in DOMAIN ns : ns[k].file = f => ns[k].plain
       PROVE  HeadingsDiffer(new) /\ Ordered(f, new, ns)
  <2>1. IsPlain(lines) /\ \A k \in DOMAIN st : st[k].file = f => st[k].plain
    <3>1. K \in DOMAIN ns /\ \A k \in DOMAIN st : k \in DOMAIN ns
      BY <1>6
    <3> QED
      BY <3>1, <1>6, <1>16, Zenon
  <2>2. HeadingsDiffer(t) /\ Ordered(f, t, st)
    BY <2>1, Zenon DEF Sound
  <2>3. ASSUME NEW n \in DOMAIN new, new[n].kind = "heading"
        PROVE  \E i \in DOMAIN t : n = Moved(i, e, lines) /\ new[n] = t[i]
    <3>1. ASSUME NEW i \in DOMAIN lines, n = e + i PROVE FALSE
      BY <2>1, <2>3, <3>1, <1>5, Zenon DEF IsPlain
    <3> QED
      BY <3>1, <1>4, Zenon
  <2>4. HeadingsDiffer(new)
    <3> SUFFICES ASSUME NEW n \in DOMAIN new, NEW m \in DOMAIN new,
                        new[n].kind = "heading", new[m].kind = "heading",
                        new[n].section = new[m].section
                 PROVE  n = m
      BY Zenon DEF HeadingsDiffer
    <3>1. PICK i \in DOMAIN t : n = Moved(i, e, lines) /\ new[n] = t[i]
      BY <2>3
    <3>2. PICK j \in DOMAIN t : m = Moved(j, e, lines) /\ new[m] = t[j]
      BY <2>3
    <3>3. i = j
      BY <3>1, <3>2, <2>2, Zenon DEF HeadingsDiffer
    <3> QED
      BY <3>1, <3>2, <3>3, Zenon
  <2>5. \A g \in DOMAIN t : t[g] = Heading(s) => g = h
    <3>1. h \in DOMAIN t /\ t[h] = Heading(s)
      BY <1>3 DEF FirstHeading
    <3>2. Heading(s).kind = "heading" /\ Heading(s).section = s
      BY DEF Heading
    <3> QED
      BY <3>1, <3>2, <2>2, Zenon DEF HeadingsDiffer
  <2>6. ASSUME NEW k \in DOMAIN ns, NEW l \in DOMAIN ns, ns[k].file = f, ns[l].file = f,
               k < l, ns[k].section = ns[l].section,
               NEW n \in LinesOf(new, k), NEW m \in LinesOf(new, l)
        PROVE  n < m
    <3>1. k \in DOMAIN st /\ ns[k] = st[k]
      BY <2>6, <1>6
    <3>2. PICK i \in LinesOf(t, k) : n = Moved(i, e, lines)
      BY <1>8, <3>1
    <3>3. CASE l = K
      <4>1. PICK j \in DOMAIN lines : m = e + j
        BY <1>9, <3>3
      <4>2. st[k].section = s /\ st[k].plain
        BY <2>1, <2>6, <3>1, <3>3, <1>6, Zenon
      <4>3. i \in DOMAIN t /\ Under(t, i, s)
        BY <4>2, <2>6, <3>1, <3>2, Zenon DEF Sound, Placed, LinesOf
      <4>4. i <= e
        BY <4>3, <2>5, <1>3, UnderIsBefore, Zenon
      <4> QED
        BY <4>1, <4>3, <4>4, <3>2, <1>1 DEF Moved
    <3>4. CASE l # K
      <4>1. l \in DOMAIN st /\ ns[l] = st[l]
        BY <3>4, <1>14, Zenon
      <4>2. PICK j \in LinesOf(t, l) : m = Moved(j, e, lines)
        BY <1>8, <4>1
      <4>3. i < j
        BY <2>2, <2>6, <3>1, <3>2, <4>1, <4>2, Zenon DEF Ordered
      <4>4. i \in Nat /\ j \in Nat /\ e \in Nat
        BY <3>2, <4>2, <1>3 DEF LinesOf
      <4> QED
        BY <3>2, <4>2, <4>3, <4>4, <1>1, MovedInOrder, Zenon
    <3> QED
      BY <3>3, <3>4
  <2> QED
    BY <2>4, <2>6, Zenon DEF Ordered
<1>17. Sound(f, new, ns)
  BY <1>7, <1>15, <1>16, Zenon DEF Sound
<1> QED
  BY <1>2, <1>17 DEF ns

-----------------------------------------------------------------------------
(* The invariant of the files, step by step.                               *)

FilesOK ==
  /\ text \in [Files -> Seq(Line)]
  /\ present \in SUBSET Files
  /\ torn \in SUBSET present
  /\ stored \in Seq(Entry)
  /\ \A f \in Files \ present : \A k \in DOMAIN stored : stored[k].file # f
  /\ \A f \in present \ torn : Sound(f, text[f], stored)

\* A write that is cut short leaves the other file as it is.
LEMMA CutKeeps ==
  ASSUME FilesOK, NEW f \in Files, NEW new \in Seq(Line), Cut(f, new),
         stored' = stored \/ \E r \in Entry : r.file = f /\ stored' = Append(stored, r)
  PROVE  FilesOK'
<1> HIDE DEF Entry, Line
<1>1. PICK rest \in Seq(Line) : text' = [text EXCEPT ![f] = rest]
  <2>1. PICK rest \in {<<>>, SubSeq(new, 1, Len(new) \div 2), <<Broken>>} :
          text' = [text EXCEPT ![f] = rest]
    BY Zenon DEF Cut
  <2>2. <<>> \in Seq(Line)
    OBVIOUS
  <2>3. SubSeq(new, 1, Len(new) \div 2) \in Seq(Line)
    <3>1. \A i \in 1..(Len(new) \div 2) : new[i] \in Line
      OBVIOUS
    <3>2. 1 \in Int /\ Len(new) \div 2 \in Int
      OBVIOUS
    <3> QED
      BY <3>1, <3>2, SubSeqProperties, Zenon
  <2>4. <<Broken>> \in Seq(Line)
    <3>1. Broken \in Line
      BY DEF Broken, Line
    <3> QED
      BY <3>1
  <2> QED
    BY <2>1, <2>2, <2>3, <2>4, Zenon
<1>2. present' = present \cup {f} /\ torn' = torn \cup {f}
  BY Zenon DEF Cut
<1>3. text' \in [Files -> Seq(Line)] /\ \A g \in Files \ {f} : text'[g] = text[g]
  BY <1>1, Zenon DEF FilesOK
<1>4. present' \in SUBSET Files /\ torn' \in SUBSET present'
  BY <1>2, Zenon DEF FilesOK
<1>5. CASE stored' = stored
  BY <1>2, <1>3, <1>4, <1>5, Zenon DEF FilesOK
<1>6. ASSUME NEW r \in Entry, r.file = f, stored' = Append(stored, r) PROVE FilesOK'
  <2>1. /\ stored' \in Seq(Entry)
        /\ \A k \in DOMAIN stored' : stored'[k] = r \/ (k \in DOMAIN stored /\ stored'[k] = stored[k])
    <3>1. stored \in Seq(Entry)
      BY DEF FilesOK
    <3> QED
      BY <3>1, <1>6
  <2>2. \A g \in Files \ present' : \A k \in DOMAIN stored' : stored'[k].file # g
    BY <2>1, <1>2, <1>6, Zenon DEF FilesOK
  <2>3. ASSUME NEW g \in present' \ torn' PROVE Sound(g, text'[g], stored')
    <3>1. g \in present \ torn /\ g # f /\ g \in Files
      BY <1>2, <2>3, Zenon DEF FilesOK
    <3>2. Sound(g, text[g], stored) /\ text[g] \in Seq(Line) /\ stored \in Seq(Entry)
      BY <3>1, Zenon DEF FilesOK
    <3>3. Sound(g, text[g], stored')
      BY <3>1, <3>2, <1>6, OtherFileSound, Zenon
    <3> QED
      BY <3>1, <3>3, <1>3, Zenon
  <2> QED
    BY <2>1, <2>2, <2>3, <1>3, <1>4, Zenon DEF FilesOK
<1> QED
  BY <1>5, <1>6, Zenon

\* Storing an entry, or trying to.
LEMMA StoreKeeps ==
  ASSUME FilesOK, NEW f \in Files, NEW s \in {"basic", "likes", "habits", "T1", "T2", "T3"},
         NEW lines, NEW proposal \in 0..MaxTurns, NEW written \in BOOLEAN,
         EntryLines(f, lines, Len(stored) + 1), Store(f, s, lines, proposal, written)
  PROVE  FilesOK'
<1> DEFINE r == [file |-> f, section |-> s, proposal |-> proposal, plain |-> IsPlain(lines)]
<1>1. r \in Entry /\ r.file = f /\ r.section = s /\ r.plain = IsPlain(lines)
  <2>1. IsPlain(lines) \in BOOLEAN
    BY DEF IsPlain
  <2> QED
    BY <2>1 DEF Entry
<1>2. stored' = Append(stored, r)
  BY Zenon DEF Store
<1> HIDE DEF r, Entry, Line
<1>3. f \in present /\ text[f] \in Seq(Line) /\ stored \in Seq(Entry) /\ lines \in Seq(Line)
  BY Zenon DEF Store, Readable, FilesOK, EntryLines
<1>4. PICK new \in Appended(text[f], s, lines) :
        IF written THEN text' = [text EXCEPT ![f] = new] /\ UNCHANGED <<present, torn, faults>>
                   ELSE Cut(f, new)
  BY Zenon DEF Store
<1>5. new \in Seq(Line)
  BY <1>3, AppendedInserts, Zenon
<1>6. CASE ~written
  BY <1>1, <1>2, <1>4, <1>5, <1>6, CutKeeps, Zenon
<1>7. CASE written
  <2>1. /\ text' \in [Files -> Seq(Line)] /\ text'[f] = new
        /\ (\A g \in Files \ {f} : text'[g] = text[g])
        /\ present' = present /\ torn' = torn
    BY <1>4, <1>5, <1>7, Zenon DEF FilesOK
  <2>2. /\ stored' \in Seq(Entry)
        /\ \A k \in DOMAIN stored' : stored'[k] = r \/ (k \in DOMAIN stored /\ stored'[k] = stored[k])
    BY <1>1, <1>2, <1>3
  <2>3. \A g \in Files \ present' : \A k \in DOMAIN stored' : stored'[k].file # g
    BY <2>1, <2>2, <1>1, <1>3, Zenon DEF FilesOK
  <2>4. ASSUME NEW g \in present' \ torn' PROVE Sound(g, text'[g], stored')
    <3>1. g \in Files /\ text[g] \in Seq(Line) /\ Sound(g, text[g], stored)
      BY <2>1, <2>4, Zenon DEF FilesOK
    <3>2. CASE g = f
      BY <3>1, <3>2, <2>1, <1>1, <1>2, <1>3, <1>4, AppendSound, Zenon
    <3>3. CASE g # f
      BY <3>1, <3>3, <2>1, <1>1, <1>2, <1>3, OtherFileSound, Zenon
    <3> QED
      BY <3>2, <3>3
  <2> QED
    BY <2>1, <2>2, <2>3, <2>4, Zenon DEF FilesOK
<1> QED
  BY <1>6, <1>7

\* A file that is created holds its template and no entries.
LEMMA CreateKeeps ==
  ASSUME FilesOK, NEW f \in Files, CreateFromTemplate(f)
  PROVE  FilesOK'
<1> HIDE DEF Entry, Line, Template
<1>1. /\ f \notin present /\ text' = [text EXCEPT ![f] = Template[f]]
      /\ present' = present \cup {f} /\ torn' = torn /\ stored' = stored
  BY Zenon DEF CreateFromTemplate
<1>2. Template[f] \in Seq(Line) /\ Sound(f, Template[f], stored)
  BY <1>1, TemplateSound, Zenon DEF FilesOK
<1>3. /\ text' \in [Files -> Seq(Line)] /\ text'[f] = Template[f]
      /\ \A g \in Files \ {f} : text'[g] = text[g]
  BY <1>1, <1>2, Zenon DEF FilesOK
<1>4. ASSUME NEW g \in present' \ torn' PROVE Sound(g, text'[g], stored')
  BY <1>1, <1>2, <1>3, <1>4, Zenon DEF FilesOK
<1> QED
  BY <1>1, <1>3, <1>4, Zenon DEF FilesOK

\* A failed creation.
LEMMA TemplateTyped == ASSUME NEW f \in Files PROVE Template[f] \in Seq(Line)
<1>1. \A k \in DOMAIN <<>> : FALSE
  OBVIOUS
<1>2. <<>> \in Seq(Entry)
  OBVIOUS
<1> QED
  BY <1>1, <1>2, TemplateSound, Zenon

\* The proposal that a turn judges.
LEMMA ParsedTyped ==
  ASSUME TypeOK, NEW response \in Responses, messageCount < MaxTurns,
         NEW input, Judge(Parsed(response, messageCount + 1), input, messageCount + 1) = "approved"
  PROVE  LET p == Parsed(response, messageCount + 1)
         IN  p.section \in Sections /\ p.id \in 0..MaxTurns
<1> DEFINE p == Parsed(response, messageCount + 1)
<1>1. p \in Proposal \cup {NoProposal}
  <2>1. CASE response \in Sections
    <3>1. made + 1 \in 1..MaxTurns /\ messageCount + 1 \in 1..MaxTurns
      BY TrendsAssumption DEF TypeOK
    <3> QED
      BY <2>1, <3>1 DEF Parsed, Proposal
  <2>2. CASE response \notin Sections
    BY <2>2 DEF Parsed, TypeOK
  <2> QED
    BY <2>1, <2>2
<1>2. p # NoProposal
  <2> HIDE DEF p
  <2> QED
    BY DEF Judge, p
<1> QED
  BY <1>1, <1>2, TrendsAssumption DEF Proposal

-----------------------------------------------------------------------------
(* The invariant of a session.                                             *)

SessionOK ==
  /\ phase \in {"off", "loading", "idle", "updates"}
  /\ base \in 0..Len(stored)
  /\ phase \in {"off", "loading"} => base = Len(stored)
  /\ knows \in [Files -> SUBSET Nat]
  /\ blind \in SUBSET Files
  /\ faults \in 0..MaxFaults
  /\ NextSessionKnows

\* What is stored during a session does not change what the session should know.
LEMMA SessionKeeps ==
  ASSUME FilesOK, SessionOK, UNCHANGED <<knows, blind, base>>,
         phase \in {"idle", "updates"}, phase' \in {"idle", "updates"}, Fault \/ UNCHANGED faults,
         torn \subseteq torn', stored' = stored \/ \E r \in Entry : stored' = Append(stored, r)
  PROVE  SessionOK'
<1> HIDE DEF Entry
<1>1. stored \in Seq(Entry)
  BY DEF FilesOK
<1>2. /\ base \in 0..Len(stored')
      /\ \A k \in DOMAIN stored' : k <= base => k \in DOMAIN stored /\ stored'[k] = stored[k]
  BY <1>1 DEF SessionOK
<1>3. NextSessionKnows'
  BY <1>2, Zenon DEF SessionOK, NextSessionKnows, EntriesOf
<1>4. faults' \in 0..MaxFaults
  BY EditAssumption DEF Fault, SessionOK
<1> QED
  BY <1>2, <1>3, <1>4 DEF SessionOK

\* The numbers in a text.
LEMMA EntriesTyped == ASSUME NEW t \in Seq(Line) PROVE EntriesIn(t) \in SUBSET Nat
<1>1. ASSUME NEW i \in DOMAIN t PROVE t[i].entry \in Nat
  <2>1. t[i] \in Line
    <3> HIDE DEF Line
    <3> QED
      OBVIOUS
  <2> QED
    BY <2>1 DEF Line
<1> QED
  BY <1>1, Zenon DEF EntriesIn

\* Every entry of a file that was stored as a whole is in the prompt that is made
\* of it.
LEMMA PromptHolds ==
  ASSUME FilesOK, NEW f \in present \ torn, NEW k \in EntriesOf(f),
         stored[k].plain \/ f = "trends"
  PROVE  k \in InPrompt(f)
<1> HIDE DEF Entry, Line
<1>1. k \in DOMAIN stored /\ stored[k] \in Entry /\ k # 0 /\ stored[k].file = f
  BY DEF EntriesOf, FilesOK
<1>2. text[f] \in Seq(Line) /\ Placed(f, text[f], stored[k], k)
  BY <1>1, Zenon DEF FilesOK, Sound
<1>3. Text(k).entry = k /\ SubHeading(k).entry = k /\ SubHeading(k).kind # "heading"
  BY DEF Text, SubHeading
<1>4. k \in EntriesIn(text[f])
  BY <1>1, <1>2, <1>3, Zenon DEF Placed, EntriesIn
<1>5. ASSUME f = "trends" PROVE ~TrendsEmpty(text[f])
  <2>1. PICK i \in DOMAIN text[f] :
          text[f][i] = SubHeading(k) /\ Under(text[f], i, stored[k].section)
    BY <1>2, <1>5, Zenon DEF Placed
  <2>2. stored[k].section # Log
    BY <1>1 DEF Entry, Log
  <2> QED
    BY <2>1, <2>2, <1>1, <1>2, <1>3, EntryIsSomething, Zenon
<1> QED
  BY <1>4, <1>5, Zenon DEF InPrompt

\* Loading human_block.md and personality_trends.md.
LEMMA LoadKnows ==
  ASSUME FilesOK, SessionOK, NEW f \in Files, Load(f)
  PROVE  FilesOK' /\ SessionOK'
<1> HIDE DEF Entry, Line, Template
<1>1. /\ phase = LoadPhase[f] /\ phase' = LoadedPhase[f] /\ base' = base
      /\ LoadText(f) \/ CreateFromTemplate(f) \/ LoadTemplate(f)
  BY Zenon DEF Load
<1>2. \/ f = "human" /\ phase = "off" /\ phase' = "loading"
      \/ f = "trends" /\ phase = "loading" /\ phase' = "idle"
  BY <1>1 DEF Files, LoadPhase, LoadedPhase
<1>3. /\ FilesOK' /\ stored' = stored /\ torn \subseteq torn' /\ blind \subseteq blind'
      /\ \A g \in Files \ {f} : knows'[g] = knows[g]
      /\ \/ knows'[f] = InPrompt(f) /\ f \in present
         \/ EntriesOf(f) = {}
         \/ f \in blind'
      /\ knows' \in [Files -> SUBSET Nat] /\ blind' \in SUBSET Files
      /\ Fault \/ UNCHANGED faults
  <2>1. CASE LoadText(f)
    <3>1. /\ knows' = [knows EXCEPT ![f] = InPrompt(f)] /\ f \in present
          /\ UNCHANGED <<files, blind, faults>>
      BY <2>1, Zenon DEF LoadText, Readable
    <3>2. InPrompt(f) \in SUBSET Nat
      <4>1. text[f] \in Seq(Line)
        BY Zenon DEF FilesOK
      <4> QED
        BY <4>1, EntriesTyped, Zenon DEF InPrompt
    <3>3. knows' \in [Files -> SUBSET Nat] /\ knows'[f] = InPrompt(f)
          /\ \A g \in Files \ {f} : knows'[g] = knows[g]
      BY <3>1, <3>2, Zenon DEF SessionOK
    <3> QED
      BY <3>1, <3>3, Zenon DEF files, FilesOK, SessionOK
  <2>2. CASE CreateFromTemplate(f)
    <3>1. EntriesOf(f) = {}
      BY <2>2, Zenon DEF CreateFromTemplate, EntriesOf, FilesOK
    <3> QED
      BY <2>2, <3>1, CreateKeeps, Zenon DEF CreateFromTemplate, SessionOK
  <2>3. CASE LoadTemplate(f)
    <3>1. /\ knows' = knows /\ blind' = blind \cup {f}
          /\ \/ Fault /\ UNCHANGED files
             \/ Cut(f, Template[f]) /\ UNCHANGED stored
      BY <2>3, Zenon DEF LoadTemplate
    <3>2. CASE Fault /\ UNCHANGED files
      BY <3>1, <3>2, Zenon DEF files, FilesOK, SessionOK
    <3>3. CASE Cut(f, Template[f]) /\ UNCHANGED stored
      BY <3>1, <3>3, CutKeeps, TemplateTyped, Zenon DEF Cut, SessionOK
    <3> QED
      BY <3>1, <3>2, <3>3, Zenon
  <2> QED
    BY <1>1, <2>1, <2>2, <2>3, Zenon
<1>4. faults' \in 0..MaxFaults
  BY <1>3, EditAssumption DEF Fault, SessionOK
<1>5. \A g \in Files : EntriesOf(g)' = EntriesOf(g)
  BY <1>3, Zenon DEF EntriesOf
<1>6. ASSUME f \notin torn' \cup blind', NEW k \in EntriesOf(f), stored[k].plain \/ f = "trends"
      PROVE  k \in knows'[f]
  BY <1>3, <1>6, PromptHolds, Zenon
<1>7. base' \in 0..Len(stored') /\ (phase' \in {"off", "loading"} => base' = Len(stored'))
  BY <1>1, <1>2, <1>3 DEF SessionOK
<1>8. NextSessionKnows'
  <2>1. CASE f = "human" /\ phase' = "loading"
    <3>1. "human" \notin torn' \cup blind' =>
            \A k \in EntriesOf("human") : stored[k].plain => k \in knows'["human"]
      BY <2>1, <1>6, Zenon
    <3> QED
      BY <2>1, <3>1, <1>3, <1>5, Zenon DEF NextSessionKnows, Files
  <2>2. CASE f = "trends" /\ phase = "loading" /\ phase' = "idle"
    <3>1. "trends" \notin torn' \cup blind' =>
            \A k \in EntriesOf("trends") : k \in knows'["trends"]
      BY <2>2, <1>6, Zenon
    <3>2. "human" \in Files /\ "human" # "trends" /\ "trends" \in Files
      BY DEF Files
    <3> QED
      BY <2>2, <3>1, <3>2, <1>1, <1>3, <1>5, Zenon DEF NextSessionKnows, SessionOK
  <2> QED
    BY <1>2, <2>1, <2>2
<1> QED
  BY <1>1, <1>2, <1>3, <1>4, <1>7, <1>8 DEF SessionOK

\* The end of a session, after which nothing is in the prompt.
LEMMA EndKeeps ==
  ASSUME FilesOK, SessionOK, Ends, stored' = stored, Fault \/ UNCHANGED faults
  PROVE  SessionOK'
<1>1. base' = Len(stored') /\ phase' = "off" /\ blind' = {} /\ knows' = [f \in Files |-> {}]
  BY Zenon DEF Ends
<1>2. Len(stored') \in Nat
  <2> HIDE DEF Entry
  <2> QED
    BY DEF FilesOK
<1>3. knows' \in [Files -> SUBSET Nat]
  BY <1>1, Zenon
<1>4. faults' \in 0..MaxFaults
  BY EditAssumption DEF Fault, SessionOK
<1> QED
  BY <1>1, <1>2, <1>3, <1>4 DEF SessionOK, NextSessionKnows

\* A step on the files and the session.
LEMMA EditStep ==
  ASSUME TypeOK, FilesOK, SessionOK, [EditNext]_editVars
  PROVE  FilesOK' /\ SessionOK'
<1> HIDE DEF Entry, Line, Template
<1>1. ASSUME NEW f \in Files, Load(f) PROVE FilesOK' /\ SessionOK'
  BY <1>1, LoadKnows
<1>2. ASSUME NEW f \in Files, StartupFails(f) PROVE FilesOK' /\ SessionOK'
  <2>1. CASE UNCHANGED files /\ (Fault \/ UNCHANGED faults)
    BY <1>2, <2>1, EndKeeps, Zenon DEF StartupFails, files, FilesOK
  <2>2. CASE Cut(f, Template[f]) /\ UNCHANGED stored
    BY <1>2, <2>2, EndKeeps, CutKeeps, TemplateTyped, Zenon DEF StartupFails, Cut
  <2> QED
    BY <1>2, <2>1, <2>2, Zenon DEF StartupFails
<1>3. ASSUME Answer PROVE FilesOK' /\ SessionOK'
  <2>1. /\ phase = "idle" /\ phase' = "updates"
        /\ UNCHANGED <<text, present, torn, stored, knows, blind, base, faults>>
    BY <1>3, Zenon DEF Answer, files
  <2> QED
    BY <2>1, SessionKeeps, Zenon DEF FilesOK
<1>4. ASSUME AnswerFails PROVE FilesOK' /\ SessionOK'
  <2>1. /\ phase = "idle" /\ phase' = "idle"
        /\ UNCHANGED <<text, present, torn, stored, knows, blind, base, faults>>
    BY <1>4, Zenon DEF AnswerFails, files
  <2> QED
    BY <2>1, SessionKeeps, Zenon DEF FilesOK
<1>5. ASSUME NEW f \in Files, NEW s \in {"basic", "likes", "habits", "T1", "T2", "T3"},
             NEW lines, NEW proposal \in 0..MaxTurns, NEW written \in BOOLEAN,
             EntryLines(f, lines, Len(stored) + 1), Store(f, s, lines, proposal, written),
             phase \in {"idle", "updates"}, phase' \in {"idle", "updates"},
             UNCHANGED <<knows, blind, base>>
      PROVE  FilesOK' /\ SessionOK'
  <2>1. FilesOK'
    BY <1>5, StoreKeeps, Zenon
  <2>2. torn \subseteq torn' /\ (Fault \/ UNCHANGED faults)
    BY <1>5, Zenon DEF Store, Cut
  <2>3. \E r \in Entry : stored' = Append(stored, r)
    <3> DEFINE r == [file |-> f, section |-> s, proposal |-> proposal, plain |-> IsPlain(lines)]
    <3>1. IsPlain(lines) \in BOOLEAN
      BY DEF IsPlain
    <3>2. r \in Entry
      BY <1>5, <3>1 DEF Entry
    <3> QED
      BY <1>5, <3>2, Zenon DEF Store
  <2> QED
    BY <1>5, <2>1, <2>2, <2>3, SessionKeeps, Zenon
<1>6. Len(stored) + 1 \in Nat
  BY DEF FilesOK
<1>7. ASSUME NEW u \in Updates, UpdateHuman(u) PROVE FilesOK' /\ SessionOK'
  <2>1. PICK written \in BOOLEAN :
          Store("human", u.section, UpdateLines(u, Len(stored) + 1), 0, written)
    BY <1>7, Zenon DEF UpdateHuman
  <2>2. phase = "updates" /\ phase' = "updates" /\ UNCHANGED <<knows, blind, base>>
    BY <1>7, Zenon DEF UpdateHuman
  <2>3. /\ u.section \in {"basic", "likes", "habits", "T1", "T2", "T3"}
        /\ 0 \in 0..MaxTurns /\ "human" \in Files
    BY UpdateShape, TrendsAssumption DEF Files
  <2>4. EntryLines("human", UpdateLines(u, Len(stored) + 1), Len(stored) + 1)
    BY <1>6, UpdateEntry, Zenon
  <2> QED
    BY <2>1, <2>2, <2>3, <2>4, <1>5, Zenon
<1>8. ASSUME NEW response \in Responses, NEW input \in Input, HandleTrends(response, input)
      PROVE  FilesOK' /\ SessionOK'
  <2> DEFINE p == Parsed(response, messageCount + 1)
             approved == Judge(p, input, messageCount + 1) = "approved"
  <2>1. /\ phase = "updates" /\ phase' = "idle" /\ UNCHANGED <<knows, blind, base>>
        /\ \/ UNCHANGED files /\ (Fault \/ UNCHANGED faults)
           \/ /\ approved
              /\ messageCount < MaxTurns
              /\ \E written \in BOOLEAN, lines \in ProposalLines(Len(stored) + 1) :
                   Store("trends", p.section, lines, p.id, written)
    BY <1>8, Zenon DEF HandleTrends, Turn, StoreRefused
  <2>2. CASE UNCHANGED files /\ (Fault \/ UNCHANGED faults)
    BY <2>1, <2>2, SessionKeeps, Zenon DEF FilesOK, files
  <2>3. ASSUME approved, messageCount < MaxTurns,
               NEW written \in BOOLEAN, NEW lines \in ProposalLines(Len(stored) + 1),
               Store("trends", p.section, lines, p.id, written)
        PROVE  FilesOK' /\ SessionOK'
    <3>1. p.section \in Sections /\ p.id \in 0..MaxTurns
      BY <2>3, ParsedTyped, Zenon
    <3>2. EntryLines("trends", lines, Len(stored) + 1)
      BY <1>6, ProposalEntry, Zenon
    <3>3. "trends" \in Files /\ p.section \in {"basic", "likes", "habits", "T1", "T2", "T3"}
      BY <3>1 DEF Files, Sections
    <3> HIDE DEF p, approved
    <3> QED
      BY <2>1, <2>3, <3>1, <3>2, <3>3, <1>5, Zenon
  <2> QED
    BY <2>1, <2>2, <2>3, Zenon
<1>9. ASSUME Crash PROVE FilesOK' /\ SessionOK'
  <2>1. Ends /\ UNCHANGED <<text, present, torn, stored, faults>>
    BY <1>9, Zenon DEF Crash, files
  <2> QED
    BY <2>1, EndKeeps, Zenon DEF FilesOK
<1>10. ASSUME UNCHANGED editVars PROVE FilesOK' /\ SessionOK'
  <2>1. UNCHANGED <<text, present, torn, stored, knows, blind, base, phase, faults>>
    BY <1>10, Zenon DEF editVars, files
  <2> QED
    BY <2>1, Zenon DEF FilesOK, SessionOK, NextSessionKnows, EntriesOf
<1> QED
  BY <1>1, <1>2, <1>3, <1>4, <1>7, <1>8, <1>9, <1>10, Zenon DEF EditNext

-----------------------------------------------------------------------------
(* Theorems.                                                               *)

\* The files and the session keep their invariants.
LEMMA EditInv == EditSpec => [](FilesOK /\ SessionOK)
<1>1. EditInit => FilesOK /\ SessionOK
  <2> SUFFICES ASSUME EditInit PROVE FilesOK /\ SessionOK
    OBVIOUS
  <2>1. stored = <<>> /\ stored \in Seq(Entry) /\ DOMAIN stored = {} /\ Len(stored) = 0
    BY DEF EditInit
  <2>2. text \in [Files -> Seq(Line)]
    BY DEF EditInit
  <2>3. knows \in [Files -> SUBSET Nat] /\ present = {} /\ torn = {} /\ blind = {}
        /\ phase = "off" /\ base = 0 /\ faults = 0
    BY Zenon DEF EditInit
  <2>4. FilesOK
    BY <2>1, <2>2, <2>3, Zenon DEF FilesOK
  <2> QED
    BY <2>1, <2>3, <2>4, EditAssumption DEF SessionOK, NextSessionKnows
<1>2. TypeOK /\ FilesOK /\ SessionOK /\ [EditNext]_editVars => FilesOK' /\ SessionOK'
  BY EditStep
<1>3. EditSpec => []TypeOK
  BY EditsAreProposals, ProposalsInv, PTL
<1> QED
  BY <1>1, <1>2, <1>3, PTL DEF EditSpec

\* The types of the files and the session.
THEOREM EditTypes == EditSpec => []EditTypeOK
<1>1. FilesOK /\ SessionOK => EditTypeOK
  BY Zenon DEF FilesOK, SessionOK, EditTypeOK
<1> QED
  BY <1>1, EditInv, PTL

\* Entries stay in their sections, whatever follows, for any number of sessions,
\* entries and turns (persona_system.py:635-694).
THEOREM EntriesAreFiled == EditSpec => []Filed
<1>1. FilesOK => Filed
  <2> SUFFICES ASSUME FilesOK, NEW f \in Files \ torn, NEW k \in EntriesOf(f), stored[k].plain
               PROVE  /\ \E i \in DOMAIN text[f] : text[f][i] = Text(k)
                      /\ \A i \in LinesOf(text[f], k) : Under(text[f], i, stored[k].section)
    BY Zenon DEF Filed
  <2>1. f \in present /\ k \in DOMAIN stored /\ stored[k].file = f
    BY Zenon DEF EntriesOf, FilesOK
  <2>2. Placed(f, text[f], stored[k], k)
    BY <2>1, Zenon DEF FilesOK, Sound
  <2> QED
    BY <2>2, Zenon DEF Placed
<1> QED
  BY <1>1, EditInv, PTL

\* Entries of a section keep their order, for any number of sessions, entries and
\* turns.
THEOREM EntriesInOrder == EditSpec => []InOrder
<1>1. FilesOK => InOrder
  <2> SUFFICES ASSUME FilesOK, NEW f \in Files \ torn, AllPlain(f),
                      NEW k \in EntriesOf(f), NEW l \in EntriesOf(f),
                      k < l, stored[k].section = stored[l].section,
                      NEW i \in LinesOf(text[f], k), NEW j \in LinesOf(text[f], l)
               PROVE  i < j
    BY Zenon DEF InOrder
  <2>1. f \in present /\ k \in DOMAIN stored /\ stored[k].file = f
        /\ l \in DOMAIN stored /\ stored[l].file = f
    BY Zenon DEF EntriesOf, FilesOK
  <2>2. \A m \in DOMAIN stored : stored[m].file = f => stored[m].plain
    BY Zenon DEF AllPlain, EntriesOf
  <2>3. Ordered(f, text[f], stored)
    BY <2>1, <2>2, Zenon DEF FilesOK, Sound
  <2> QED
    BY <2>1, <2>3, Zenon DEF Ordered
<1> QED
  BY <1>1, EditInv, PTL

\* The next session has everything in its prompt that was stored as a whole
\* (main.py:343-355, persona_system.py:483-519).
THEOREM NextSessionHasAll == EditSpec => []NextSessionKnows
BY EditInv, PTL DEF SessionOK

-----------------------------------------------------------------------------
(* Every approval is filed.                                                *)

\* Every set of natural numbers that is not empty has a least element.
LEMMA LeastElement ==
  ASSUME NEW T \in SUBSET Nat, T # {}
  PROVE  \E x \in T : \A y \in T : x <= y
<1>1. PICK x \in T : \A y \in T : ~(<<y, x>> \in OpToRel(<, Nat))
  BY NatLessThanWellFounded, WFMin
<1>2. ASSUME NEW y \in T PROVE ~(y < x)
  BY <1>1 DEF OpToRel
<1> QED
  BY <1>2

\* A section whose heading is in a text can be appended to.
LEMMA AppendedExists ==
  ASSUME NEW t \in Seq(Line), NEW s, NEW entry, NEW g \in DOMAIN t, t[g] = Heading(s)
  PROVE  Appended(t, s, entry) # {}
<1> HIDE DEF Line
<1>1. PICK h \in DOMAIN t : t[h] = Heading(s) /\ \A i \in DOMAIN t : t[i] = Heading(s) => h <= i
  <2> DEFINE T == {i \in DOMAIN t : t[i] = Heading(s)}
  <2>1. T \in SUBSET Nat /\ T # {}
    OBVIOUS
  <2> HIDE DEF T
  <2>2. PICK h \in T : \A i \in T : h <= i
    BY <2>1, LeastElement, Zenon
  <2> QED
    BY <2>2, Zenon DEF T
<1>2. FirstHeading(t, s, h)
  <2>1. ASSUME NEW j \in 1..(h - 1) PROVE t[j] # Heading(s)
    <3>1. j \in DOMAIN t /\ ~(h <= j)
      OBVIOUS
    <3> QED
      BY <1>1, <3>1, Zenon
  <2> QED
    BY <1>1, <2>1, Zenon DEF FirstHeading
<1>3. PICK e \in h..Len(t) :
        /\ e = Len(t) \/ IsHeading(t[e + 1])
        /\ \A i \in h..Len(t) : i = Len(t) \/ IsHeading(t[i + 1]) => e <= i
  <2> DEFINE T == {i \in h..Len(t) : i = Len(t) \/ IsHeading(t[i + 1])}
  <2>1. T \in SUBSET Nat /\ Len(t) \in T
    OBVIOUS
  <2>2. T # {}
    BY <2>1
  <2> HIDE DEF T
  <2>3. PICK e \in T : \A i \in T : e <= i
    BY <2>1, <2>2, LeastElement, Zenon
  <2> QED
    BY <2>3, Zenon DEF T
<1>4. ASSUME NEW j \in (h + 1)..e PROVE ~IsHeading(t[j])
  <2>1. j - 1 \in h..Len(t) /\ (j - 1) + 1 = j /\ ~(e <= j - 1)
    OBVIOUS
  <2>2. ~IsHeading(t[(j - 1) + 1])
    BY <1>3, <2>1, Zenon
  <2> QED
    BY <2>1, <2>2
<1>5. EndsAt(t, h, e) /\ e \in 1..Len(t) /\ h \in 1..e
  BY <1>3, <1>4 DEF EndsAt
<1> QED
  BY <1>2, <1>5, Zenon DEF Appended

\* A text that can be decoded and has every section for which proposals are made.
Complete(t) ==
  /\ \A i \in DOMAIN t : t[i] # Broken
  /\ \A s \in Sections : \E h \in DOMAIN t : t[h] = Heading(s)

\* The lines of a proposal are whole.
LEMMA ProposalWhole ==
  ASSUME NEW k \in Nat, NEW lines \in ProposalLines(k)
  PROVE  \A i \in DOMAIN lines : lines[i] # Broken
<1>1. SubHeading(k) # Broken /\ Text(k) # Broken /\ Heading("T2") # Broken
  BY DEF SubHeading, Text, Heading, Broken
<1>2. CASE lines = <<SubHeading(k), Text(k)>>
  BY <1>1, <1>2
<1>3. CASE lines = <<SubHeading(k), Text(k), Heading("T2"), Text(k)>>
  BY <1>1, <1>3
<1> QED
  BY <1>2, <1>3, Zenon DEF ProposalLines

\* The template of the trends is complete.
LEMMA TemplateComplete == Complete(Template["trends"])
<1> DEFINE t == <<Title, Heading("T1"), Hint, Heading("T2"), Heading("T3"), Heading(Log)>>
<1>1. Template["trends"] = t
  BY DEF Template
<1>2. DOMAIN t = 1..6 /\ t[1] = Title /\ t[2] = Heading("T1") /\ t[3] = Hint
      /\ t[4] = Heading("T2") /\ t[5] = Heading("T3") /\ t[6] = Heading(Log)
  OBVIOUS
<1> HIDE DEF t
<1>3. \A i \in DOMAIN t : t[i] # Broken
  BY <1>2 DEF Title, Heading, Hint, Broken
<1>4. \A s \in Sections : \E h \in DOMAIN t : t[h] = Heading(s)
  <2>1. 2 \in DOMAIN t /\ 4 \in DOMAIN t /\ 5 \in DOMAIN t
    BY <1>2
  <2> QED
    BY <1>2, <2>1, Zenon DEF Sections
<1> QED
  BY <1>1, <1>3, <1>4 DEF Complete

\* A complete text stays complete when lines that are whole are appended.
LEMMA AppendedComplete ==
  ASSUME NEW t \in Seq(Line), NEW s, NEW lines \in Seq(Line), NEW new \in Appended(t, s, lines),
         Complete(t), \A i \in DOMAIN lines : lines[i] # Broken
  PROVE  Complete(new)
<1> HIDE DEF Line
<1>1. new \in Seq(Line) /\ \E e \in 1..Len(t) : Inserted(t, new, e, lines)
  BY AppendedInserts, Zenon
<1>2. PICK e \in 1..Len(t) : Inserted(t, new, e, lines)
  BY <1>1
<1>3. Consists(t, new, e, lines)
  BY <1>1, <1>2, InsertedLines, Zenon
<1>4. ASSUME NEW n \in DOMAIN new PROVE new[n] # Broken
  <2>1. ASSUME NEW i \in DOMAIN t, n = Moved(i, e, lines) PROVE new[n] # Broken
    <3>1. new[n] = t[i] /\ t[i] # Broken
      BY <1>3, <2>1, Zenon DEF Consists, Complete
    <3> QED
      BY <3>1
  <2>2. ASSUME NEW i \in DOMAIN lines, n = e + i PROVE new[n] # Broken
    <3>1. new[n] = lines[i] /\ lines[i] # Broken
      BY <1>3, <2>2, Zenon DEF Consists
    <3> QED
      BY <3>1
  <2> QED
    BY <1>3, <2>1, <2>2, Zenon DEF Consists
<1>5. ASSUME NEW sec \in Sections PROVE \E h \in DOMAIN new : new[h] = Heading(sec)
  BY <1>3, Zenon DEF Consists, Complete
<1> QED
  BY <1>4, <1>5, Zenon DEF Complete

\* Without faults no write is cut short, and once they are loaded the trends are
\* there; they are complete unless a write was cut.
TrendsWhole ==
  /\ faults = 0 => torn = {} /\ (phase \in {"idle", "updates"} => "trends" \in present)
  /\ "trends" \in present \ torn => Complete(text["trends"])

\* Before the files are loaded nothing was judged.
FilingInv ==
  /\ phase \in {"off", "loading"} => history = <<>>
  /\ TrendsWhole
  /\ ApprovedIsFiled

\* What the filing depends on, besides the history.
LEMMA FilingNow ==
  ASSUME FilesOK, SessionOK, NEW r \in Entry, stored' = Append(stored, r), base' = base
  PROVE  LET K == Len(stored) + 1
         IN  /\ FiledNow' = IF r.file = "trends" THEN FiledNow \cup {K} ELSE FiledNow
             /\ K \notin FiledNow
             /\ stored'[K] = r
             /\ \A k \in FiledNow : stored'[k] = stored[k]
<1> DEFINE K == Len(stored) + 1
<1>1. stored \in Seq(Entry) /\ base \in 0..Len(stored)
  BY DEF FilesOK, SessionOK
<1> HIDE DEF Entry
<1>2. /\ DOMAIN stored' = 1..K /\ DOMAIN stored = 1..Len(stored)
      /\ \A k \in DOMAIN stored : stored'[k] = stored[k]
      /\ stored'[K] = r
  BY <1>1, Appending, Zenon
<1>3. K \notin DOMAIN stored /\ K > base /\ DOMAIN stored' = DOMAIN stored \cup {K}
  BY <1>1, <1>2
<1> HIDE DEF K
<1>4. K \notin FiledNow
  BY <1>3, Zenon DEF FiledNow, EntriesOf
<1>5. \A k \in FiledNow : stored'[k] = stored[k]
  BY <1>2, Zenon DEF FiledNow, EntriesOf
<1>6. FiledNow' = {k \in DOMAIN stored \cup {K} : stored'[k].file = "trends" /\ k > base}
  BY <1>3 DEF FiledNow, EntriesOf
<1>7. \A k : k \in FiledNow' <=> k \in FiledNow \/ (k = K /\ r.file = "trends")
  BY <1>2, <1>3, <1>6 DEF FiledNow, EntriesOf
<1>8. FiledNow' = IF r.file = "trends" THEN FiledNow \cup {K} ELSE FiledNow
  BY <1>7
<1> QED
  BY <1>2, <1>4, <1>5, <1>8, Zenon DEF K

\* An entry of human_block.md changes nothing.
LEMMA FilingSame ==
  ASSUME FilesOK, SessionOK, ApprovedIsFiled, history' = history, base' = base, Fault \/ UNCHANGED faults,
         stored' = stored \/ \E r \in Entry : r.file # "trends" /\ stored' = Append(stored, r)
  PROVE  ApprovedIsFiled'
<1> HIDE DEF Entry
<1>1. FiledNow' = FiledNow /\ \A k \in FiledNow : stored'[k] = stored[k]
  <2>1. CASE stored' = stored
    BY <2>1, Zenon DEF FiledNow, EntriesOf
  <2>2. ASSUME NEW r \in Entry, r.file # "trends", stored' = Append(stored, r)
        PROVE  FiledNow' = FiledNow /\ \A k \in FiledNow : stored'[k] = stored[k]
    BY <2>2, FilingNow, Zenon
  <2> QED
    BY <2>1, <2>2
<1>2. Approved' = Approved
  BY DEF Approved
<1>3. faults' = 0 => faults = 0
  BY DEF Fault, SessionOK
<1> QED
  BY <1>1, <1>2, <1>3 DEF ApprovedIsFiled

\* A new session has neither approved nor filed anything.
LEMMA FilingEmpty ==
  ASSUME history' = <<>>, base' = Len(stored'), stored' \in Seq(Entry)
  PROVE  ApprovedIsFiled'
<1>1. DOMAIN stored' = 1..base' /\ base' \in Nat
  <2> HIDE DEF Entry
  <2> QED
    OBVIOUS
<1>2. FiledNow' = {}
  BY <1>1 DEF FiledNow, EntriesOf
<1>3. Approved' = {}
  BY DEF Approved
<1> QED
  BY <1>2, <1>3, Zenon DEF ApprovedIsFiled

\* What a turn does to the approvals.
LEMMA TurnApproves ==
  ASSUME TypeOK, ProposalInv, NEW response, NEW input \in Input, NEW written \in BOOLEAN,
         Turn(response, input, written)
  PROVE  LET p == Parsed(response, messageCount + 1)
             approved == Judge(p, input, messageCount + 1) = "approved"
         IN  /\ ~approved => Approved' = Approved
             /\ approved => Approved' = Approved \cup {p.id} /\ p.id \notin Approved
<1> DEFINE n == messageCount + 1
           p == Parsed(response, n)
           result == Judge(p, input, n)
           entry == [id |-> p.id, result |-> result]
<1>1. history' = (IF result \in Results THEN Append(history, entry) ELSE history)
  BY Zenon DEF Turn, Settles
<1>2. history \in Seq([id : 1..MaxTurns, result : Results])
  BY DEF TypeOK
<1>3. entry.id = p.id /\ entry.result = result
  OBVIOUS
<1>4. \A i \in DOMAIN history : history[i].id # p.id
  <2>1. CASE response \in Sections
    <3>1. p = [id |-> made + 1, section |-> response, turn |-> n]
      BY <2>1 DEF Parsed
    <3>2. \A i \in DOMAIN history : history[i].id \in 1..MaxTurns /\ history[i].id <= made
      BY SettledTyped DEF ProposalInv
    <3>3. made \in Nat
      BY TrendsAssumption DEF TypeOK
    <3> QED
      BY <3>1, <3>2, <3>3
  <2>2. CASE response \notin Sections
    <3>1. p = pending
      BY <2>2 DEF Parsed
    <3> QED
      BY <3>1 DEF ProposalInv, SettledOnce
  <2> QED
    BY <2>1, <2>2
<1>5. p.id \notin Approved
  BY <1>4, Zenon DEF Approved
<1> HIDE DEF n, p, result, entry
<1>6. CASE result \in Results
  <2> DEFINE S == [id : 1..MaxTurns, result : Results]
             k == Len(history) + 1
  <2>1. /\ DOMAIN history' = DOMAIN history \cup {k} /\ k \notin DOMAIN history
        /\ (\A i \in DOMAIN history : history'[i] = history[i]) /\ history'[k] = entry
    <3> HIDE DEF S
    <3>1. history \in Seq(S)
      BY <1>2 DEF S
    <3> QED
      BY <3>1, <1>1, <1>6
  <2> HIDE DEF k, S
  <2>2. ASSUME result # "approved" PROVE Approved' = Approved
    BY <2>1, <2>2, <1>3 DEF Approved
  <2>3. ASSUME result = "approved" PROVE Approved' = Approved \cup {p.id}
    BY <2>1, <2>3, <1>3 DEF Approved
  <2> QED
    BY <2>2, <2>3, <1>5, Zenon DEF result, p, n
<1>7. CASE result \notin Results
  <2>1. result # "approved" /\ Approved' = Approved
    BY <1>1, <1>7 DEF Results, Approved
  <2> QED
    BY <2>1, Zenon DEF result, p, n
<1> QED
  BY <1>6, <1>7

\* What an approval leaves in the file: nothing, after a fault, or the entry.
LEMMA ApprovalFiles ==
  ASSUME FilesOK, SessionOK, ApprovedIsFiled, NEW id, id \notin Approved, base' = base,
         Approved' = Approved \cup {id},
         \/ stored' = stored /\ faults' # 0
         \/ /\ Fault \/ UNCHANGED faults
            /\ \E r \in Entry : /\ r.file = "trends" /\ r.proposal = id
                                /\ stored' = Append(stored, r)
  PROVE  ApprovedIsFiled'
<1> HIDE DEF Entry
<1>1. CASE stored' = stored /\ faults' # 0
  <2>1. FiledNow' = FiledNow
    BY <1>1, Zenon DEF FiledNow, EntriesOf
  <2> QED
    BY <1>1, <2>1 DEF ApprovedIsFiled
<1>2. ASSUME Fault \/ UNCHANGED faults, NEW r \in Entry, r.file = "trends", r.proposal = id,
             stored' = Append(stored, r)
      PROVE  ApprovedIsFiled'
  <2> DEFINE K == Len(stored) + 1
  <2>1. /\ FiledNow' = FiledNow \cup {K} /\ K \notin FiledNow
        /\ stored'[K].proposal = id
        /\ \A k \in FiledNow : stored'[k] = stored[k]
    BY <1>2, FilingNow, Zenon
  <2> HIDE DEF K
  <2>2. faults' = 0 => faults = 0
    BY <1>2 DEF Fault, SessionOK
  <2>3. \A k \in FiledNow : stored[k].proposal \in Approved /\ stored[k].proposal # id
    BY Zenon DEF ApprovedIsFiled
  <2>4. \A k \in FiledNow' : stored'[k].proposal \in Approved'
    BY <2>1, <2>3
  <2>5. \A k, l \in FiledNow' : stored'[k].proposal = stored'[l].proposal => k = l
    BY <2>1, <2>3 DEF ApprovedIsFiled
  <2>6. faults' = 0 => \A i \in Approved' : \E k \in FiledNow' : stored'[k].proposal = i
    BY <2>1, <2>2 DEF ApprovedIsFiled
  <2> QED
    BY <2>4, <2>5, <2>6, Zenon DEF ApprovedIsFiled
<1> QED
  BY <1>1, <1>2

\* A write that is cut short.
LEMMA CutWhole ==
  ASSUME FilesOK, SessionOK, TrendsWhole, NEW f \in Files, NEW new, Cut(f, new)
  PROVE  TrendsWhole'
<1>1. faults' # 0
  BY DEF Cut, Fault, SessionOK
<1>2. ASSUME "trends" \in present' \ torn' PROVE Complete(text'["trends"])
  <2>1. PICK rest : text' = [text EXCEPT ![f] = rest]
    BY Zenon DEF Cut
  <2>2. f # "trends" /\ "trends" \in present \ torn
    BY <1>2, Zenon DEF Cut
  <2>3. "trends" \in Files
    BY DEF Files
  <2>4. text'["trends"] = text["trends"]
    BY <2>1, <2>2, <2>3, Zenon DEF FilesOK
  <2> QED
    BY <2>2, <2>4, Zenon DEF TrendsWhole
<1> QED
  BY <1>1, <1>2, Zenon DEF TrendsWhole

\* The files stay as they are.
LEMMA SameWhole ==
  ASSUME SessionOK, TrendsWhole, UNCHANGED files,
         Fault \/ (UNCHANGED faults /\ (phase' \in {"idle", "updates"} =>
                     phase \in {"idle", "updates"} \/ "trends" \in present))
  PROVE  TrendsWhole'
<1>1. UNCHANGED <<text, present, torn>>
  BY Zenon DEF files
<1>2. faults' = 0 => ~Fault
  BY DEF Fault, SessionOK
<1> QED
  BY <1>1, <1>2 DEF TrendsWhole

\* Loading a file.
LEMMA LoadWhole ==
  ASSUME FilesOK, SessionOK, TrendsWhole, NEW f \in Files, Load(f)
  PROVE  TrendsWhole'
<1> HIDE DEF Template
<1>1. \/ f = "human" /\ phase' = "loading"
      \/ f = "trends" /\ phase' = "idle"
  BY DEF Load, Files, LoadedPhase
<1>2. CASE LoadText(f)
  BY <1>1, <1>2, SameWhole, Zenon DEF LoadText, Readable
<1>3. CASE CreateFromTemplate(f)
  <2>1. /\ text' = [text EXCEPT ![f] = Template[f]] /\ present' = present \cup {f}
        /\ UNCHANGED <<torn, faults>>
    BY <1>3, Zenon DEF CreateFromTemplate
  <2>2. text'[f] = Template[f] /\ \A g \in Files \ {f} : text'[g] = text[g]
    BY <2>1, Zenon DEF FilesOK
  <2>3. "trends" \in Files
    BY DEF Files
  <2>4. "trends" \in present' \ torn' => Complete(text'["trends"])
    BY <2>1, <2>2, <2>3, TemplateComplete, Zenon DEF TrendsWhole
  <2>5. phase' \in {"idle", "updates"} => "trends" \in present'
    BY <1>1, <2>1, Zenon
  <2> QED
    BY <2>1, <2>4, <2>5, Zenon DEF TrendsWhole
<1>4. CASE LoadTemplate(f)
  <2>1. (Fault /\ UNCHANGED files) \/ Cut(f, Template[f])
    BY <1>4, Zenon DEF LoadTemplate
  <2> QED
    BY <2>1, SameWhole, CutWhole, Zenon
<1> QED
  BY <1>2, <1>3, <1>4, Zenon DEF Load

\* Storing an entry whose lines, if it is one of the trends, are whole.
LEMMA StoreWhole ==
  ASSUME FilesOK, SessionOK, TrendsWhole, NEW f \in Files, NEW s, NEW lines \in Seq(Line),
         NEW proposal, NEW written \in BOOLEAN, Store(f, s, lines, proposal, written),
         f = "trends" => \A i \in DOMAIN lines : lines[i] # Broken,
         phase \in {"idle", "updates"}
  PROVE  TrendsWhole'
<1> HIDE DEF Line
<1>1. PICK new \in Appended(text[f], s, lines) :
        IF written THEN text' = [text EXCEPT ![f] = new] /\ UNCHANGED <<present, torn, faults>>
                   ELSE Cut(f, new)
  BY Zenon DEF Store
<1>2. CASE ~written
  BY <1>1, <1>2, CutWhole, Zenon
<1>3. CASE written
  <2>1. /\ text' = [text EXCEPT ![f] = new] /\ UNCHANGED <<present, torn, faults>>
    BY <1>1, <1>3, Zenon
  <2>2. text'[f] = new /\ (\A g \in Files \ {f} : text'[g] = text[g]) /\ text[f] \in Seq(Line)
    BY <2>1, Zenon DEF FilesOK
  <2>3. "trends" \in Files
    BY DEF Files
  <2>4. ASSUME "trends" \in present' \ torn' PROVE Complete(text'["trends"])
    <3>1. Complete(text["trends"])
      BY <2>1, <2>4, Zenon DEF TrendsWhole
    <3>2. CASE f = "trends"
      BY <3>1, <3>2, <2>2, AppendedComplete, Zenon
    <3>3. CASE f # "trends"
      BY <3>1, <3>3, <2>2, <2>3, Zenon
    <3> QED
      BY <3>2, <3>3
  <2> QED
    BY <2>1, <2>4, Zenon DEF TrendsWhole
<1> QED
  BY <1>2, <1>3

\* Without faults a proposal is never refused by the file.
LEMMA NeverRefused ==
  ASSUME FilesOK, SessionOK, TrendsWhole, phase = "updates", NEW s \in Sections,
         StoreRefused("trends", s)
  PROVE  faults' # 0
<1>1. CASE Fault
  BY <1>1 DEF Fault, SessionOK
<1>2. CASE UNCHANGED faults /\ (~Readable("trends") \/ Appended(text["trends"], s, <<>>) = {})
  <2> SUFFICES ASSUME faults = 0 PROVE FALSE
    BY <1>2
  <2>1. "trends" \in present \ torn /\ Complete(text["trends"])
    BY Zenon DEF TrendsWhole
  <2>2. Readable("trends")
    BY <2>1, Zenon DEF Readable, Complete
  <2>3. text["trends"] \in Seq(Line)
    BY <2>1, Zenon DEF FilesOK
  <2>4. PICK h \in DOMAIN text["trends"] : text["trends"][h] = Heading(s)
    BY <2>1, Zenon DEF Complete
  <2>5. Appended(text["trends"], s, <<>>) # {}
    BY <2>3, <2>4, AppendedExists, Zenon
  <2> QED
    BY <1>2, <2>2, <2>5, Zenon
<1> QED
  BY <1>1, <1>2, Zenon DEF StoreRefused

\* Every step keeps the approvals and the entries of the session together.
LEMMA FilingStep ==
  ASSUME TypeOK, ProposalInv, FilesOK, SessionOK, FilingInv, FilesOK', SessionOK',
         [EditNext]_editVars
  PROVE  FilingInv'
<1> HIDE DEF Entry, Line, Template
<1>1. ASSUME NEW f \in Files, Load(f) PROVE FilingInv'
  <2>1. /\ history' = history /\ base' = base /\ stored' = stored
        /\ Fault \/ UNCHANGED faults
    BY <1>1, Zenon DEF Load, LoadText, CreateFromTemplate, LoadTemplate, Cut, vars, files
  <2>2. phase \in {"off", "loading"}
    BY <1>1 DEF Load, LoadPhase, Files
  <2>3. TrendsWhole'
    BY <1>1, LoadWhole, Zenon DEF FilingInv
  <2>4. ApprovedIsFiled'
    BY <2>1, FilingSame, Zenon DEF FilingInv
  <2> QED
    BY <2>1, <2>2, <2>3, <2>4, Zenon DEF FilingInv
<1>2. ASSUME Ends, stored' = stored, TrendsWhole' PROVE FilingInv'
  <2>1. history' = <<>> /\ base' = Len(stored')
    BY <1>2, Zenon DEF Ends, NewSession
  <2>2. stored' \in Seq(Entry)
    BY DEF FilesOK
  <2>3. ApprovedIsFiled'
    BY <2>1, <2>2, FilingEmpty, Zenon
  <2> QED
    BY <1>2, <2>1, <2>3, Zenon DEF FilingInv
<1>3. ASSUME NEW f \in Files, StartupFails(f) PROVE FilingInv'
  <2>1. /\ Ends /\ stored' = stored
        /\ (UNCHANGED files /\ (Fault \/ UNCHANGED faults)) \/ Cut(f, Template[f])
    BY <1>3, Zenon DEF StartupFails, files
  <2>2. phase' = "off"
    BY <2>1, Zenon DEF Ends
  <2>3. TrendsWhole'
    BY <2>1, <2>2, SameWhole, CutWhole, Zenon DEF FilingInv
  <2> QED
    BY <2>1, <2>3, <1>2, Zenon
<1>4. ASSUME Crash PROVE FilingInv'
  <2>1. Ends /\ UNCHANGED files /\ UNCHANGED faults /\ phase' = "off" /\ stored' = stored
    BY <1>4, Zenon DEF Crash, Ends, files
  <2>2. TrendsWhole'
    BY <2>1, SameWhole, Zenon DEF FilingInv
  <2> QED
    BY <2>1, <2>2, <1>2, Zenon
<1>5. ASSUME UNCHANGED files, history' = history, base' = base, faults' = faults,
             phase' = phase \/ (phase = "idle" /\ phase' = "updates")
      PROVE  FilingInv'
  <2>1. stored' = stored
    BY <1>5, Zenon DEF files
  <2>2. TrendsWhole'
    BY <1>5, SameWhole, Zenon DEF FilingInv
  <2>3. ApprovedIsFiled'
    BY <1>5, <2>1, FilingSame, Zenon DEF FilingInv
  <2>4. phase' \in {"off", "loading"} => history' = <<>>
    BY <1>5 DEF FilingInv
  <2> QED
    BY <2>2, <2>3, <2>4, Zenon DEF FilingInv
<1>6. Len(stored) + 1 \in Nat
  BY DEF FilesOK
<1>7. ASSUME NEW u \in Updates, UpdateHuman(u) PROVE FilingInv'
  <2>1. PICK written \in BOOLEAN :
          Store("human", u.section, UpdateLines(u, Len(stored) + 1), 0, written)
    BY <1>7, Zenon DEF UpdateHuman
  <2>2. phase = "updates" /\ phase' = "updates" /\ history' = history /\ base' = base
    BY <1>7, Zenon DEF UpdateHuman, vars
  <2>3. "human" \in Files /\ "human" # "trends"
    BY DEF Files
  <2>4. UpdateLines(u, Len(stored) + 1) \in Seq(Line)
    BY <1>6, UpdateEntry, Zenon DEF EntryLines
  <2>5. TrendsWhole'
    BY <2>1, <2>2, <2>3, <2>4, StoreWhole, Zenon DEF FilingInv
  <2>6. /\ \E r \in Entry : r.file # "trends" /\ stored' = Append(stored, r)
        /\ Fault \/ UNCHANGED faults
    <3> DEFINE r == [file |-> "human", section |-> u.section, proposal |-> 0,
                     plain |-> IsPlain(UpdateLines(u, Len(stored) + 1))]
    <3>1. stored' = Append(stored, r) /\ (Fault \/ UNCHANGED faults)
      BY <2>1, Zenon DEF Store, Cut
    <3>2. r \in Entry /\ r.file # "trends"
      <4>1. IsPlain(UpdateLines(u, Len(stored) + 1)) \in BOOLEAN
        BY DEF IsPlain
      <4>2. u.section \in {"basic", "likes", "habits"} /\ 0 \in 0..MaxTurns
        BY UpdateShape, TrendsAssumption
      <4> QED
        BY <4>1, <4>2 DEF Entry, Files
    <3> QED
      BY <3>1, <3>2, Zenon
  <2>7. ApprovedIsFiled'
    BY <2>2, <2>6, FilingSame, Zenon DEF FilingInv
  <2> QED
    BY <2>2, <2>5, <2>7 DEF FilingInv
<1>8. ASSUME NEW response \in Responses, NEW input \in Input, HandleTrends(response, input)
      PROVE  FilingInv'
  <2> DEFINE p == Parsed(response, messageCount + 1)
             approved == Judge(p, input, messageCount + 1) = "approved"
  <2>1. phase = "updates" /\ phase' = "idle" /\ base' = base
    BY <1>8, Zenon DEF HandleTrends
  <2>2. \E written \in BOOLEAN : Turn(response, input, written)
    BY <1>8, Zenon DEF HandleTrends
  <2>3. /\ ~approved => Approved' = Approved
        /\ approved => Approved' = Approved \cup {p.id} /\ p.id \notin Approved
    BY <2>2, TurnApproves, Zenon
  <2>4. ASSUME ~approved, UNCHANGED <<files, faults>> PROVE FilingInv'
    <3>1. TrendsWhole'
      BY <2>1, <2>4, SameWhole, Zenon DEF FilingInv
    <3>2. stored' = stored
      BY <2>4, Zenon DEF files
    <3>3. FiledNow' = FiledNow /\ Approved' = Approved
      BY <2>1, <2>3, <2>4, <3>2, Zenon DEF FiledNow, EntriesOf
    <3>4. ApprovedIsFiled'
      BY <2>4, <3>2, <3>3 DEF ApprovedIsFiled, FilingInv
    <3> QED
      BY <2>1, <3>1, <3>4 DEF FilingInv
  <2>5. ASSUME approved PROVE p.section \in Sections /\ p.id \in 0..MaxTurns
    <3>1. messageCount < MaxTurns
      BY <2>2, Zenon DEF Turn
    <3> QED
      BY <3>1, <2>5, ParsedTyped, Zenon
  <2>6. ASSUME approved, NEW written \in BOOLEAN, NEW lines \in ProposalLines(Len(stored) + 1),
               Store("trends", p.section, lines, p.id, written)
        PROVE  FilingInv'
    <3>1. lines \in Seq(Line) /\ \A i \in DOMAIN lines : lines[i] # Broken
      BY <1>6, <2>6, ProposalEntry, ProposalWhole, Zenon DEF EntryLines
    <3>2. TrendsWhole'
      <4>1. "trends" \in Files
        BY DEF Files
      <4> HIDE DEF p
      <4> QED
        BY <2>1, <2>6, <3>1, <4>1, StoreWhole, Zenon DEF FilingInv
    <3> DEFINE r == [file |-> "trends", section |-> p.section, proposal |-> p.id,
                     plain |-> IsPlain(lines)]
    <3>3. stored' = Append(stored, r) /\ (Fault \/ UNCHANGED faults)
      BY <2>6, Zenon DEF Store, Cut
    <3>4. r \in Entry /\ r.file = "trends" /\ r.proposal = p.id
      <4>1. IsPlain(lines) \in BOOLEAN
        BY DEF IsPlain
      <4> HIDE DEF p, approved
      <4> QED
        BY <4>1, <2>5, <2>6 DEF Entry, Files, Sections
    <3>5. ApprovedIsFiled'
      <4> HIDE DEF p, approved, r
      <4> QED
        BY <2>1, <2>3, <2>6, <3>3, <3>4, ApprovalFiles, Zenon DEF FilingInv
    <3> QED
      BY <2>1, <3>2, <3>5 DEF FilingInv
  <2>7. ASSUME approved, StoreRefused("trends", p.section) PROVE FilingInv'
    <3>1. faults' # 0 /\ UNCHANGED files /\ (Fault \/ UNCHANGED faults)
      BY <2>1, <2>5, <2>7, NeverRefused, Zenon DEF FilingInv, StoreRefused
    <3>2. TrendsWhole'
      BY <2>1, <3>1, SameWhole, Zenon DEF FilingInv
    <3>3. stored' = stored
      BY <3>1, Zenon DEF files
    <3>4. ApprovedIsFiled'
      <4> HIDE DEF p, approved
      <4> QED
        BY <2>1, <2>3, <2>7, <3>1, <3>3, ApprovalFiles, Zenon DEF FilingInv
    <3> QED
      BY <2>1, <3>2, <3>4 DEF FilingInv
  <2> QED
    BY <1>8, <2>4, <2>6, <2>7, Zenon DEF HandleTrends
<1>9. ASSUME Answer PROVE FilingInv'
  BY <1>9, <1>5, Zenon DEF Answer, vars
<1>10. ASSUME AnswerFails PROVE FilingInv'
  BY <1>10, <1>5, Zenon DEF AnswerFails, FailedTurn
<1>11. ASSUME UNCHANGED editVars PROVE FilingInv'
  BY <1>11, <1>5, Zenon DEF editVars, vars
<1> QED
  BY <1>1, <1>3, <1>4, <1>7, <1>8, <1>9, <1>10, <1>11, Zenon DEF EditNext

\* The mascot writes about itself what was approved and nothing else, once, whatever
\* fails; without faults it writes every approval, for any number of sessions, turns,
\* entries and faults (agent_core.py:724-752).
THEOREM ApprovalsAreFiled == EditSpec => []ApprovedIsFiled
<1>1. EditInit => FilingInv
  <2> SUFFICES ASSUME EditInit PROVE FilingInv
    OBVIOUS
  <2>1. history = <<>> /\ base = 0 /\ stored = <<>> /\ torn = {} /\ present = {} /\ phase = "off"
    BY Zenon DEF EditInit, Init
  <2>2. ApprovedIsFiled
    BY <2>1 DEF ApprovedIsFiled, Approved, FiledNow, EntriesOf
  <2> QED
    BY <2>1, <2>2 DEF FilingInv, TrendsWhole
<1>2. TypeOK /\ ProposalInv /\ FilesOK /\ SessionOK /\ FilesOK' /\ SessionOK'
        /\ FilingInv /\ [EditNext]_editVars => FilingInv'
  BY FilingStep, Zenon
<1>3. EditSpec => [](TypeOK /\ ProposalInv)
  BY EditsAreProposals, ProposalsInv, PTL
<1>4. FilingInv => ApprovedIsFiled
  BY Zenon DEF FilingInv
<1> QED
  BY <1>1, <1>2, <1>3, <1>4, EditInv, PTL DEF EditSpec
=============================================================================
