------------------------ MODULE PromptBuilderProofs ------------------------
(***************************************************************************)
(* Proofs about PromptBuilder, for any limit, any sizes of texts and any   *)
(* number of memories, summaries and calls.                                *)
(***************************************************************************)
EXTENDS PromptBuilder, TLAPS, WellFoundedInduction

\* Every set of natural numbers that is not empty has a least element.
LEMMA LeastElement ==
  ASSUME NEW S \in SUBSET Nat, S # {}
  PROVE  \E k \in S : \A j \in S : k <= j
<1>1. PICK k \in S : \A j \in S : ~(<<j, k>> \in OpToRel(<, Nat))
  BY NatLessThanWellFounded, WFMin
<1>2. ASSUME NEW j \in S, j < k PROVE FALSE
  <2>1. <<j, k>> \in {p \in Nat \X Nat : p[1] < p[2]}
    BY <1>2
  <2>2. OpToRel(<, Nat) = {p \in Nat \X Nat : p[1] < p[2]}
    BY DEF OpToRel
  <2> QED
    BY <1>1, <2>1, <2>2, Zenon
<1> QED
  BY <1>2

\* A loop ends with a prompt that fits or with its last cut, and cuts nothing
\* off a prompt that fits (prompt_builder.py:370-407).
LEMMA LoopEnds ==
  ASSUME NEW n \in Nat, NEW cut
  PROVE  \E k \in 0..n :
           /\ Repeat(n, cut) = cut[k]
           /\ k = n \/ Fits(cut[k])
           /\ k # 0 => ~Fits(cut[0])
<1> DEFINE S == {k \in 0..n : Fits(cut[k])}
           IsFirst(k) == Fits(cut[k]) /\ \A j \in 0..(k - 1) : ~Fits(cut[j])
           m == CHOOSE k \in 0..n : IsFirst(k)
<1>1. CASE S = {}
  <2>1. Repeat(n, cut) = cut[n]
    BY <1>1, Zenon DEF Repeat
  <2>2. n \in 0..n /\ 0 \in 0..n
    OBVIOUS
  <2>3. ~Fits(cut[0])
    BY <1>1, <2>2, Zenon
  <2> QED
    BY <2>1, <2>2, <2>3, Zenon
<1>2. CASE S # {}
  <2>1. PICK k \in S : \A j \in S : k <= j
    <3>1. S \in SUBSET Nat
      OBVIOUS
    <3> HIDE DEF S
    <3> QED
      BY <1>2, <3>1, LeastElement
  <2>2. \E i \in 0..n : IsFirst(i)
    <3>1. k \in 0..n /\ Fits(cut[k])
      BY Zenon
    <3>2. ASSUME NEW j \in 0..(k - 1) PROVE ~Fits(cut[j])
      <4>1. j \in 0..n /\ ~(k <= j)
        BY <3>1
      <4> QED
        BY <4>1, <2>1, Zenon
    <3> QED
      BY <3>1, <3>2, Zenon
  <2>3. m \in 0..n /\ IsFirst(m)
    <3> HIDE DEF IsFirst
    <3> QED
      BY <2>2, Zenon
  <2>4. Repeat(n, cut) = cut[m]
    <3>1. \E i \in 0..n : Fits(cut[i])
      BY <2>2, Zenon
    <3> QED
      BY <3>1, Zenon DEF Repeat
  <2>5. m # 0 => ~Fits(cut[0])
    <3>1. m # 0 => 0 \in 0..(m - 1)
      BY <2>3
    <3> QED
      BY <2>3, <3>1, Zenon
  <2> QED
    BY <2>3, <2>4, <2>5, Zenon
<1> QED
  BY <1>1, <1>2

-----------------------------------------------------------------------------
(* The phases of build_with_truncation.                                    *)

\* Nothing is cut off a sequence by cutting nothing, everything by cutting all.
LEMMA CutsOfSequence ==
  ASSUME NEW T, NEW s \in Seq(T)
  PROVE  /\ WithoutLast(s, 0) = s
         /\ WithoutLast(s, Len(s)) = <<>>
         /\ \A k \in 0..Len(s) : WithoutLast(s, k) \in Seq(T)
BY DEF WithoutLast

\* The first phase cuts memories only, only when the prompt does not fit, and
\* until it fits or none is left (prompt_builder.py:374-379).
LEMMA ColdPhase ==
  ASSUME NEW c \in Contexts
  PROVE  \E s \in Seq(Memory) :
           /\ CutCold(c) = [c EXCEPT !.cold = s]
           /\ s # c.cold => ~Fits(c)
           /\ s = <<>> \/ Fits(CutCold(c))
<1> DEFINE n == Len(c.cold)
           cut == [k \in 0..n |-> [c EXCEPT !.cold = WithoutLast(c.cold, k)]]
<1>1. c.cold \in Seq(Memory) /\ n \in Nat
  BY DEF Contexts
<1>2. PICK k \in 0..n : /\ CutCold(c) = cut[k]
                        /\ k = n \/ Fits(cut[k])
                        /\ k # 0 => ~Fits(cut[0])
  <2>1. CutCold(c) = Repeat(n, cut)
    BY Zenon DEF CutCold
  <2> HIDE DEF cut, n
  <2> QED
    BY <1>1, <2>1, LoopEnds, Zenon
<1>3. cut[0] = c
  <2>1. WithoutLast(c.cold, 0) = c.cold
    BY <1>1, CutsOfSequence
  <2> QED
    BY <1>1, <2>1 DEF Contexts
<1>4. cut[k] = [c EXCEPT !.cold = WithoutLast(c.cold, k)]
  OBVIOUS
<1> DEFINE s == WithoutLast(c.cold, k)
<1>5. s \in Seq(Memory) /\ (k = 0 => s = c.cold) /\ (k = n => s = <<>>)
  BY <1>1, CutsOfSequence
<1> HIDE DEF s, cut, n
<1> QED
  BY <1>2, <1>3, <1>4, <1>5, Zenon DEF s

\* The second phase does the same with the summaries (prompt_builder.py:382-387).
LEMMA WarmPhase ==
  ASSUME NEW c \in Contexts
  PROVE  \E s \in Seq(Summary) :
           /\ CutWarm(c) = [c EXCEPT !.warm = s]
           /\ s # c.warm => ~Fits(c)
           /\ s = <<>> \/ Fits(CutWarm(c))
<1> DEFINE n == Len(c.warm)
           cut == [k \in 0..n |-> [c EXCEPT !.warm = WithoutLast(c.warm, k)]]
<1>1. c.warm \in Seq(Summary) /\ n \in Nat
  BY DEF Contexts
<1>2. PICK k \in 0..n : /\ CutWarm(c) = cut[k]
                        /\ k = n \/ Fits(cut[k])
                        /\ k # 0 => ~Fits(cut[0])
  <2>1. CutWarm(c) = Repeat(n, cut)
    BY Zenon DEF CutWarm
  <2> HIDE DEF cut, n
  <2> QED
    BY <1>1, <2>1, LoopEnds, Zenon
<1>3. cut[0] = c
  <2>1. WithoutLast(c.warm, 0) = c.warm
    BY <1>1, CutsOfSequence
  <2> QED
    BY <1>1, <2>1 DEF Contexts
<1>4. cut[k] = [c EXCEPT !.warm = WithoutLast(c.warm, k)]
  OBVIOUS
<1> DEFINE s == WithoutLast(c.warm, k)
<1>5. s \in Seq(Summary) /\ (k = 0 => s = c.warm) /\ (k = n => s = <<>>)
  BY <1>1, CutsOfSequence
<1> HIDE DEF s, cut, n
<1> QED
  BY <1>2, <1>3, <1>4, <1>5, Zenon DEF s

\* A conversation without its first j pairs of turns.
WithoutPairs(s, j) == SubSeq(s, 2 * j + 1, Len(s))

\* Taking pairs while there are more than two leaves one or two.
LEMMA PairsLeaveTwo ==
  ASSUME NEW L \in Nat
  PROVE  LET n == IF L > 2 THEN (L - 1) \div 2 ELSE 0
         IN  2 * n <= L /\ L - 2 * n <= 2
<1>1. CASE L > 2
  <2> DEFINE n == (L - 1) \div 2
  <2>1. n \in Nat /\ 2 * n <= L - 1 /\ L - 1 < 2 * n + 2
    BY <1>1
  <2> HIDE DEF n
  <2>2. 2 * n <= L /\ L - 2 * n <= 2
    BY <2>1
  <2> QED
    BY <1>1, <2>2, Zenon DEF n
<1>2. CASE ~(L > 2)
  BY <1>2
<1> QED
  BY <1>1, <1>2

\* The third phase drops an even number of turns from the front, only when the
\* prompt does not fit, and until it fits or at most two are left
\* (prompt_builder.py:390-394).
LEMMA TurnsPhase ==
  ASSUME NEW c \in Contexts
  PROVE  \E j \in Nat :
           LET s == WithoutPairs(c.turns, j)
           IN  /\ s \in Seq(Turn)
               /\ CutTurns(c) = [c EXCEPT !.turns = s]
               /\ s # c.turns => ~Fits(c)
               /\ Len(s) <= 2 \/ Fits(CutTurns(c))
<1> DEFINE n == IF Len(c.turns) > 2 THEN (Len(c.turns) - 1) \div 2 ELSE 0
           Rest(k) == WithoutPairs(c.turns, k)
           cut == [k \in 0..n |-> [c EXCEPT !.turns = Rest(k)]]
<1>1. c.turns \in Seq(Turn) /\ n \in Nat
  BY DEF Contexts
<1>2. PICK k \in 0..n : /\ CutTurns(c) = cut[k]
                        /\ k = n \/ Fits(cut[k])
                        /\ k # 0 => ~Fits(cut[0])
  <2>1. CutTurns(c) = Repeat(n, cut)
    BY Zenon DEF CutTurns, WithoutPairs
  <2> HIDE DEF cut, n
  <2> QED
    BY <1>1, <2>1, LoopEnds, Zenon
<1>3. Rest(0) = c.turns
  BY <1>1 DEF WithoutPairs
<1>4. cut[0] = c
  BY <1>1, <1>3 DEF Contexts
<1>5. cut[k] = [c EXCEPT !.turns = Rest(k)]
  OBVIOUS
<1>6. k \in Nat /\ Rest(k) \in Seq(Turn) /\ (k = n => Len(Rest(k)) <= 2)
  <2>1. k \in Nat /\ Rest(k) \in Seq(Turn)
    BY <1>1 DEF WithoutPairs
  <2>2. 2 * n <= Len(c.turns) /\ Len(c.turns) - 2 * n <= 2
    BY <1>1, Len(c.turns) \in Nat, PairsLeaveTwo, Zenon
  <2>3. Len(Rest(n)) <= 2
    <3> HIDE DEF n
    <3> QED
      BY <1>1, <2>2 DEF WithoutPairs
  <2> HIDE DEF n, Rest
  <2> QED
    BY <2>1, <2>3, Zenon
<1> HIDE DEF cut, n
<1>7. Rest(k) # c.turns => ~Fits(c)
  BY <1>2, <1>3, <1>4, Zenon
<1>8. Len(Rest(k)) <= 2 \/ Fits(CutTurns(c))
  BY <1>2, <1>6, Zenon
<1> QED
  BY <1>2, <1>5, <1>6, <1>7, <1>8, Zenon

\* The hot memory as the last phase leaves it after k steps.
HotLeft(c, k) ==
  [c EXCEPT !.trends = IF k >= 1 THEN 0 ELSE @,
            !.human = IF k >= 2 THEN 0 ELSE @,
            !.style = IF k >= 3 /\ @ > StyleCap THEN StyleCap ELSE @]

\* No step, no change.
LEMMA HotKept ==
  ASSUME NEW c \in Contexts
  PROVE  HotLeft(c, 0) = c
<1>1. HotLeft(c, 0) = [c EXCEPT !.trends = @, !.human = @, !.style = @]
  BY ~(0 >= 1), ~(0 >= 2), ~(0 >= 3) DEF HotLeft
<1> QED
  BY <1>1 DEF Contexts

\* The last phase takes its three steps in their order, only when the prompt does
\* not fit, and until it fits (prompt_builder.py:397-407).
LEMMA HotPhase ==
  ASSUME NEW c \in Contexts
  PROVE  \E k \in 0..3 :
           /\ CutHot(c) = HotLeft(c, k)
           /\ k # 0 => ~Fits(c)
           /\ k = 3 \/ Fits(CutHot(c))
<1> DEFINE cut == [k \in 0..3 |->
                     [c EXCEPT !.trends = IF k >= 1 THEN 0 ELSE @,
                               !.human = IF k >= 2 THEN 0 ELSE @,
                               !.style = IF k >= 3 /\ @ > StyleCap THEN StyleCap ELSE @]]
<1>1. PICK k \in 0..3 : /\ CutHot(c) = cut[k]
                        /\ k = 3 \/ Fits(cut[k])
                        /\ k # 0 => ~Fits(cut[0])
  <2>1. CutHot(c) = Repeat(3, cut)
    BY Zenon DEF CutHot
  <2> HIDE DEF cut
  <2> QED
    BY <2>1, LoopEnds, 3 \in Nat, Zenon
<1>2. cut[k] = HotLeft(c, k)
  BY Zenon DEF HotLeft
<1>3. cut[0] = c
  <2>1. cut[0] = HotLeft(c, 0)
    BY 0 \in 0..3, Zenon DEF HotLeft
  <2> QED
    BY <2>1, HotKept, Zenon
<1> HIDE DEF cut
<1> QED
  BY <1>1, <1>2, <1>3, Zenon

-----------------------------------------------------------------------------
(* The prompts.                                                            *)

\* The order of the cuts, of one prompt.
InOrder(c, s) ==
  /\ s # c => ~Fits(c)
  /\ s.warm # c.warm => s.cold = <<>>
  /\ s.turns # c.turns => s.cold = <<>> /\ s.warm = <<>>
  /\ <<s.trends, s.human, s.style>> # <<c.trends, c.human, c.style>> => AllCut(s)
  /\ s.human # c.human => s.trends = 0
  /\ s.style # c.style => s.trends = 0 /\ s.human = 0
  /\ ~Fits(s) => AllCut(s) /\ s.trends = 0 /\ s.human = 0 /\ s.style <= StyleCap

\* build_with_truncation, the four phases after each other, cuts in order.
LEMMA Truncation ==
  ASSUME NEW c \in Contexts
  PROVE  /\ BuildWithTruncation(c) \in Contexts
         /\ InOrder(c, BuildWithTruncation(c))
         /\ \E j \in Nat : BuildWithTruncation(c).turns = WithoutPairs(c.turns, j)
<1> DEFINE c1 == CutCold(c)
           c2 == CutWarm(c1)
           c3 == CutTurns(c2)
           c4 == CutHot(c3)
<1>1. PICK a \in Seq(Memory) : /\ c1 = [c EXCEPT !.cold = a]
                               /\ a # c.cold => ~Fits(c)
                               /\ a = <<>> \/ Fits(c1)
  BY ColdPhase, Zenon
<1>2. c1 \in Contexts
  BY <1>1 DEF Contexts
<1>3. PICK b \in Seq(Summary) : /\ c2 = [c1 EXCEPT !.warm = b]
                                /\ b # c1.warm => ~Fits(c1)
                                /\ b = <<>> \/ Fits(c2)
  BY <1>2, WarmPhase, Zenon
<1>4. c2 \in Contexts
  BY <1>2, <1>3 DEF Contexts
<1>5. PICK t \in Seq(Turn) : /\ c3 = [c2 EXCEPT !.turns = t]
                             /\ t # c2.turns => ~Fits(c2)
                             /\ Len(t) <= 2 \/ Fits(c3)
                             /\ \E j \in Nat : t = WithoutPairs(c2.turns, j)
  BY <1>4, TurnsPhase, Zenon
<1>6. c3 \in Contexts
  BY <1>4, <1>5 DEF Contexts
<1>7. PICK k \in 0..3 : /\ c4 = HotLeft(c3, k)
                        /\ k # 0 => ~Fits(c3)
                        /\ k = 3 \/ Fits(c4)
  BY <1>6, HotPhase, Zenon
<1>8. c4 \in Contexts
  BY <1>6, <1>7, SizeAssumption DEF Contexts, HotLeft
<1>9. BuildWithTruncation(c) = c4
  BY Zenon DEF BuildWithTruncation
<1> HIDE DEF c1, c2, c3, c4
<1>10. /\ Fits(c) => c1 = c
       /\ Fits(c1) => c2 = c1
       /\ Fits(c2) => c3 = c2
       /\ Fits(c3) => c4 = c3
  <2>1. Fits(c) => c1 = c
    BY <1>1 DEF Contexts
  <2>2. Fits(c1) => c2 = c1
    BY <1>2, <1>3 DEF Contexts
  <2>3. Fits(c2) => c3 = c2
    BY <1>4, <1>5 DEF Contexts
  <2>4. Fits(c3) => c4 = c3
    <3>1. Fits(c3) => c4 = HotLeft(c3, 0)
      BY <1>7, Zenon
    <3>2. HotLeft(c3, 0) = c3
      BY <1>6, HotKept, Zenon
    <3> QED
      BY <3>1, <3>2, Zenon
  <2> QED
    BY <2>1, <2>2, <2>3, <2>4
<1>11. /\ c4.cold = a /\ c4.warm = b /\ c4.turns = t
       /\ c1.warm = c.warm /\ c2.turns = c.turns
       /\ c4.trends = (IF k >= 1 THEN 0 ELSE c.trends)
       /\ c4.human = (IF k >= 2 THEN 0 ELSE c.human)
       /\ c4.style = (IF k >= 3 /\ c.style > StyleCap THEN StyleCap ELSE c.style)
       /\ c4.extra = c.extra
  BY <1>1, <1>3, <1>5, <1>7 DEF Contexts, HotLeft
<1>12. /\ ~Fits(c1) => a = <<>>
       /\ ~Fits(c2) => a = <<>> /\ b = <<>>
       /\ ~Fits(c3) => AllCut(c4)
  <2>1. ~Fits(c1) => a = <<>>
    BY <1>1, Zenon
  <2>2. ~Fits(c2) => a = <<>> /\ b = <<>>
    BY <2>1, <1>3, <1>10, Zenon
  <2>3. ~Fits(c3) => AllCut(c4)
    BY <2>2, <1>5, <1>10, <1>11, Zenon DEF AllCut
  <2> QED
    BY <2>1, <2>2, <2>3
<1>13. k >= 1 => ~Fits(c3)
  BY <1>7
<1>14. InOrder(c, c4)
  <2>1. c4 # c => ~Fits(c)
    BY <1>10, Zenon
  <2>2. c4.warm # c.warm => c4.cold = <<>>
    BY <1>3, <1>11, <1>12, Zenon
  <2>3. c4.turns # c.turns => c4.cold = <<>> /\ c4.warm = <<>>
    BY <1>5, <1>11, <1>12, Zenon
  <2>4. <<c4.trends, c4.human, c4.style>> # <<c.trends, c.human, c.style>> => AllCut(c4)
    <3>1. k = 0 => <<c4.trends, c4.human, c4.style>> = <<c.trends, c.human, c.style>>
      BY <1>11
    <3> QED
      BY <3>1, <1>7, <1>12, Zenon
  <2>5. c4.human # c.human => c4.trends = 0
    BY <1>11
  <2>6. c4.style # c.style => c4.trends = 0 /\ c4.human = 0
    BY <1>11
  <2>7. ~Fits(c4) => AllCut(c4) /\ c4.trends = 0 /\ c4.human = 0 /\ c4.style <= StyleCap
    <3> SUFFICES ASSUME ~Fits(c4)
                 PROVE  AllCut(c4) /\ c4.trends = 0 /\ c4.human = 0 /\ c4.style <= StyleCap
      OBVIOUS
    <3>1. k = 3
      BY <1>7, Zenon
    <3>2. AllCut(c4)
      BY <1>12, <1>13, <3>1
    <3>3. c.style \in Nat
      BY SizeAssumption DEF Contexts
    <3>4. c4.trends = 0 /\ c4.human = 0 /\ c4.style <= StyleCap
      BY <1>11, <3>1, <3>3, SizeAssumption
    <3> QED
      BY <3>2, <3>4
  <2> QED
    BY <2>1, <2>2, <2>3, <2>4, <2>5, <2>6, <2>7, Zenon DEF InOrder
<1> QED
  BY <1>5, <1>8, <1>9, <1>11, <1>14, Zenon

\* What the search and the store of summaries return is well formed.
LEMMA InputsTyped == Retrieved \subseteq Seq(Memory) /\ Loaded \subseteq Seq(Summary)
<1>1. ASSUME NEW n \in Nat, NEW T, NEW s \in [1..n -> T] PROVE s \in Seq(T)
  OBVIOUS
<1>2. 0..MaxMemories \subseteq Nat /\ 0..MaxDays \subseteq Nat
  OBVIOUS
<1>3. Retrieved \subseteq Seq(Memory)
  BY <1>1, <1>2, Zenon DEF Retrieved
<1>4. Loaded \subseteq Seq(Summary)
  BY <1>1, <1>2, Zenon DEF Loaded
<1> QED
  BY <1>3, <1>4

\* The first state shows an empty prompt that was never sent; from the first call
\* on what is sent is what build_with_truncation makes of the last prompt.
SentIsBuilt ==
  \/ calls = 0 /\ sent = full
  \/ sent = BuildWithTruncation(full)

\* What a call records in the session are turns.
LEMMA RecordedTyped ==
  ASSUME calls' \in 1..MaxCalls, NEW input \in Sizes, NEW response \in Sizes \cup {0}
  PROVE  Recorded(input, response) \in Seq(Turn)
<1>1. CASE response = 0
  BY <1>1 DEF Recorded
<1>2. CASE response # 0
  <2>1. /\ [role |-> "user", exchange |-> calls', size |-> input] \in Turn
        /\ [role |-> "assistant", exchange |-> calls', size |-> response] \in Turn
    BY <1>2 DEF Turn
  <2> QED
    BY <1>2, <2>1 DEF Recorded
<1> QED
  BY <1>1, <1>2

\* The prompts, the recorded turns and the number of calls keep their types, and
\* every prompt sent is a truncation of the one that was to be sent.
LEMMA PromptInv == Spec => [](TypeOK /\ SentIsBuilt)
<1>1. Init => TypeOK /\ SentIsBuilt
  <2> SUFFICES ASSUME Init PROVE TypeOK /\ SentIsBuilt
    OBVIOUS
  <2>1. day_summaries \in Seq(Summary) /\ turns \in Seq(Turn) /\ hot \in Hot
    BY InputsTyped DEF Init
  <2>2. full \in Contexts /\ sent = full
    BY <2>1 DEF Init, Context, Contexts, Hot
  <2>3. calls \in 0..MaxCalls
    BY SizeAssumption DEF Init
  <2> QED
    BY <2>1, <2>2, <2>3 DEF Init, TypeOK, SentIsBuilt
<1>2. TypeOK /\ SentIsBuilt /\ [Next]_vars => (TypeOK /\ SentIsBuilt)'
  <2> SUFFICES ASSUME TypeOK, SentIsBuilt, [Next]_vars PROVE (TypeOK /\ SentIsBuilt)'
    OBVIOUS
  <2>1. ASSUME NEW cold \in Seq(Memory), NEW extra \in {0, TagSize}, Build(cold, extra)
        PROVE  /\ day_summaries' \in Seq(Summary) /\ hot' \in Hot
               /\ calls' \in 1..MaxCalls
               /\ {full', sent'} \subseteq Contexts
               /\ SentIsBuilt'
    <3>1. full' \in Contexts
      BY <2>1 DEF Build, TypeOK, Context, Contexts, Hot
    <3>2. sent' = BuildWithTruncation(full')
      BY <2>1, Zenon DEF Build
    <3>3. sent' \in Contexts
      BY <3>1, <3>2, Truncation, Zenon
    <3>4. SentIsBuilt'
      BY <3>2, Zenon DEF SentIsBuilt
    <3>5. calls' \in 1..MaxCalls
      BY <2>1, SizeAssumption DEF Build, TypeOK
    <3> QED
      BY <2>1, <3>1, <3>3, <3>4, <3>5 DEF Build, TypeOK
  <2>2. CASE ProcessTurn
    <3>1. PICK cold \in Retrieved, extra \in {0, TagSize}, input \in Sizes,
               response \in Sizes \cup {0} :
            Build(cold, extra) /\ turns' = turns \o Recorded(input, response)
      BY <2>2, Zenon DEF ProcessTurn
    <3>2. cold \in Seq(Memory)
      BY InputsTyped
    <3>3. calls' \in 1..MaxCalls
      BY <2>1, <3>1, <3>2, Zenon
    <3>4. turns' \in Seq(Turn)
      BY <3>1, <3>3, RecordedTyped DEF TypeOK
    <3> QED
      BY <2>1, <3>1, <3>2, <3>4 DEF TypeOK
  <2>3. CASE Tweet
    <3>1. Build(<<>>, TagSize) /\ turns' = turns
      BY <2>3, Zenon DEF Tweet
    <3>2. <<>> \in Seq(Memory) /\ TagSize \in {0, TagSize}
      OBVIOUS
    <3>3. /\ day_summaries' \in Seq(Summary) /\ hot' \in Hot
          /\ calls' \in 1..MaxCalls
          /\ {full', sent'} \subseteq Contexts
          /\ SentIsBuilt'
      BY <2>1, <3>1, <3>2, Zenon
    <3> QED
      BY <3>1, <3>3 DEF TypeOK
  <2>4. CASE UNCHANGED vars
    BY <2>4, Zenon DEF vars, TypeOK, SentIsBuilt
  <2> QED
    BY <2>2, <2>3, <2>4 DEF Next
<1> QED
  BY <1>1, <1>2, PTL DEF Spec

\* Whatever the limit and the sizes are, nothing is cut without need or before what
\* ranks below it is gone, and a prompt that is still too large holds nothing that
\* could be cut (prompt_builder.py:370-407).
THEOREM TruncationInOrder == Spec => []CutInOrder
<1>1. TypeOK /\ SentIsBuilt => CutInOrder
  <2> SUFFICES ASSUME TypeOK, SentIsBuilt PROVE CutInOrder
    OBVIOUS
  <2>1. CASE calls = 0 /\ sent = full
    BY <2>1 DEF CutInOrder
  <2>2. CASE sent = BuildWithTruncation(full)
    <3>1. InOrder(full, sent)
      BY <2>2, Truncation, Zenon DEF TypeOK
    <3> QED
      BY <3>1, Zenon DEF InOrder, CutInOrder
  <2> QED
    BY <2>1, <2>2 DEF SentIsBuilt
<1> QED
  BY <1>1, PromptInv, PTL

-----------------------------------------------------------------------------
(* Whole exchanges.                                                        *)

\* Questions at odd places, each followed by its answer.
Paired(s) ==
  \A i \in 1..Len(s) :
    IF i % 2 = 1
    THEN s[i].role = "user" /\ i < Len(s) /\ s[i + 1].exchange = s[i].exchange
    ELSE s[i].role = "assistant"

\* What a call records keeps the conversation in pairs.
LEMMA PairedRecorded ==
  ASSUME NEW s \in Seq(Turn), Paired(s), calls' \in 1..MaxCalls,
         NEW input \in Sizes, NEW response \in Sizes \cup {0}
  PROVE  Paired(s \o Recorded(input, response))
<1>1. CASE response = 0
  BY <1>1 DEF Recorded
<1>2. CASE response # 0
  <2> DEFINE q == [role |-> "user", exchange |-> calls', size |-> input]
             a == [role |-> "assistant", exchange |-> calls', size |-> response]
             r == s \o <<q, a>>
             n == Len(s)
  <2>1. n \in Nat /\ n % 2 = 0
    <3>1. n \in Nat /\ (n # 0 => n \in 1..n)
      OBVIOUS
    <3>2. n % 2 \in {0, 1}
      BY <3>1
    <3>3. n % 2 = 1 => n # 0
      BY <3>1
    <3>4. ~(n % 2 = 1)
      BY <3>1, <3>3 DEF Paired
    <3> QED
      BY <3>1, <3>2, <3>4
  <2>2. /\ Len(r) = n + 2 /\ r[n + 1] = q /\ r[n + 2] = a
        /\ \A i \in 1..n : r[i] = s[i]
    <3>1. q \in Turn /\ a \in Turn
      BY <1>2 DEF Turn
    <3> HIDE DEF q, a
    <3> QED
      BY <3>1
  <2>3. q.role = "user" /\ a.role = "assistant" /\ a.exchange = q.exchange
    OBVIOUS
  <2>4. (n + 1) % 2 = 1 /\ (n + 2) % 2 = 0
    BY <2>1
  <2> HIDE DEF q, a, r
  <2>5. Paired(r)
    <3> SUFFICES ASSUME NEW i \in 1..(n + 2)
                 PROVE  IF i % 2 = 1
                        THEN r[i].role = "user" /\ i < n + 2
                             /\ r[i + 1].exchange = r[i].exchange
                        ELSE r[i].role = "assistant"
      BY <2>2 DEF Paired
    <3>1. CASE i \in 1..n
      <4>1. r[i] = s[i] /\ (i < n => r[i + 1] = s[i + 1])
        BY <2>1, <2>2, <3>1
      <4>2. IF i % 2 = 1
            THEN s[i].role = "user" /\ i < n /\ s[i + 1].exchange = s[i].exchange
            ELSE s[i].role = "assistant"
        BY <3>1 DEF Paired
      <4> QED
        BY <2>1, <4>1, <4>2
    <3>2. CASE i = n + 1
      BY <2>1, <2>2, <2>3, <2>4, <3>2
    <3>3. CASE i = n + 2
      BY <2>1, <2>2, <2>3, <2>4, <3>3
    <3> QED
      BY <2>1, <3>1, <3>2, <3>3
  <2> QED
    BY <1>2, <2>5 DEF Recorded, r, q, a
<1> QED
  BY <1>1, <1>2

\* The rest of a conversation after its first m turns.
LEMMA RestOf ==
  ASSUME NEW s \in Seq(Turn), NEW m \in Nat, m < Len(s), NEW l \in Nat, Len(s) = m + l
  PROVE  LET r == SubSeq(s, m + 1, Len(s))
         IN  /\ r \in Seq(Turn) /\ Len(r) = l
             /\ \A i \in 1..l : r[i] = s[i + m]
             /\ IsSuffix(r, s)
<1> DEFINE n == Len(s)
           r == SubSeq(s, m + 1, n)
<1>1. r \in Seq(Turn) /\ Len(r) = l
  OBVIOUS
<1>2. ASSUME NEW i \in 1..l PROVE r[i] = s[i + m]
  OBVIOUS
<1>3. IsSuffix(r, s)
  <2> HIDE DEF r
  <2>1. /\ Reverse(r) = [i \in 1..l |-> r[l - i + 1]]
        /\ Reverse(s) = [i \in 1..n |-> s[n - i + 1]]
    BY <1>1 DEF Reverse
  <2>2. ASSUME NEW i \in 1..l PROVE Reverse(r)[i] = Reverse(s)[i]
    <3> DEFINE k == l - i + 1
    <3>1. k \in 1..l /\ k + m = n - i + 1 /\ i \in 1..n
      OBVIOUS
    <3>2. Reverse(r)[i] = r[k] /\ Reverse(s)[i] = s[n - i + 1]
      BY <2>1, <3>1
    <3>3. r[k] = s[k + m]
      BY <1>2, <3>1, Zenon
    <3> HIDE DEF k
    <3> QED
      BY <3>1, <3>2, <3>3
  <2>3. /\ Reverse(r) \in Seq(Turn) /\ Len(Reverse(r)) = l
        /\ Reverse(s) \in Seq(Turn) /\ Len(Reverse(s)) = n
    <3>1. \A i \in 1..l : r[l - i + 1] \in Turn
      BY <1>1
    <3>2. \A i \in 1..n : s[n - i + 1] \in Turn
      OBVIOUS
    <3> QED
      BY <2>1, <3>1, <3>2
  <2>4. SubSeq(Reverse(r), 1, l) = SubSeq(Reverse(s), 1, l)
    BY <2>2, <2>3
  <2> QED
    BY <1>1, <2>3, <2>4 DEF IsSuffix, IsPrefix
<1> HIDE DEF r
<1> QED
  BY <1>1, <1>2, <1>3, Zenon DEF r

\* A conversation in pairs stays one without its first pairs, and what is left is
\* its end.
LEMMA PairedCut ==
  ASSUME NEW s \in Seq(Turn), Paired(s), NEW j \in Nat
  PROVE  Paired(WithoutPairs(s, j)) /\ IsSuffix(WithoutPairs(s, j), s)
<1> DEFINE r == WithoutPairs(s, j)
           n == Len(s)
           m == 2 * j
           l == n - m
<1>1. n \in Nat /\ m \in Nat /\ m % 2 = 0
  OBVIOUS
<1>2. CASE m >= n
  <2>1. r = <<>>
    BY <1>1, <1>2 DEF WithoutPairs
  <2> QED
    BY <2>1 DEF Paired, IsSuffix, IsPrefix, Reverse
<1>3. CASE m < n
  <2>1. l \in Nat /\ n = m + l
    BY <1>1, <1>3
  <2> HIDE DEF m, l
  <2>2. /\ r \in Seq(Turn) /\ Len(r) = l
        /\ \A i \in 1..l : r[i] = s[i + m]
        /\ IsSuffix(r, s)
    BY <1>1, <1>3, <2>1, RestOf, Zenon DEF WithoutPairs, m
  <2> HIDE DEF r
  <2>3. Paired(r)
    <3> SUFFICES ASSUME NEW i \in 1..l
                 PROVE  IF i % 2 = 1
                        THEN r[i].role = "user" /\ i < l
                             /\ r[i + 1].exchange = r[i].exchange
                        ELSE r[i].role = "assistant"
      BY <2>2 DEF Paired
    <3> DEFINE k == i + m
    <3>1. k \in 1..n /\ k % 2 = i % 2 /\ (k < n <=> i < l)
      BY <1>1, <2>1
    <3>2. r[i] = s[k]
      BY <2>2, Zenon
    <3>3. i < l => r[i + 1] = s[k + 1]
      <4> SUFFICES ASSUME i < l PROVE r[i + 1] = s[k + 1]
        OBVIOUS
      <4>1. i + 1 \in 1..l /\ (i + 1) + m = k + 1
        BY <1>1, <2>1
      <4> QED
        BY <2>2, <4>1
    <3> HIDE DEF k
    <3> QED
      BY <3>1, <3>2, <3>3 DEF Paired
  <2> QED
    BY <2>2, <2>3 DEF r
<1> QED
  BY <1>1, <1>2, <1>3

\* The session and the last prompt consist of whole exchanges.
PairsInv == Paired(turns) /\ Paired(full.turns)

\* Whatever calls fail and whatever tweets come between, the conversation in every
\* prompt is made of whole exchanges, the last ones of the session: cutting in twos
\* never separates a question from its answer (prompt_builder.py:391-393,
\* agent_core.py:372-377).
THEOREM ExchangesStayWhole == Spec => []WholeExchanges
<1>1. Init => PairsInv
  BY DEF Init, PairsInv, Paired, Context
<1>2. TypeOK /\ PairsInv /\ [Next]_vars => PairsInv'
  <2> SUFFICES ASSUME TypeOK, PairsInv, [Next]_vars PROVE PairsInv'
    OBVIOUS
  <2>1. ASSUME NEW cold, NEW extra, Build(cold, extra)
        PROVE  full'.turns = turns /\ calls' \in 1..MaxCalls
    BY <2>1, SizeAssumption DEF Build, Context, TypeOK
  <2>2. CASE ProcessTurn
    <3>1. PICK cold \in Retrieved, extra \in {0, TagSize}, input \in Sizes,
               response \in Sizes \cup {0} :
            Build(cold, extra) /\ turns' = turns \o Recorded(input, response)
      BY <2>2, Zenon DEF ProcessTurn
    <3>2. full'.turns = turns /\ calls' \in 1..MaxCalls
      BY <2>1, <3>1, Zenon
    <3>3. turns \in Seq(Turn) /\ Paired(turns)
      BY DEF TypeOK, PairsInv
    <3>4. Paired(turns \o Recorded(input, response))
      BY <3>2, <3>3, PairedRecorded
    <3>5. Paired(turns')
      BY <3>1, <3>4, Zenon
    <3> QED
      BY <3>2, <3>3, <3>5, Zenon DEF PairsInv, Paired
  <2>3. CASE Tweet
    <3>1. Build(<<>>, TagSize) /\ turns' = turns
      BY <2>3, Zenon DEF Tweet
    <3>2. full'.turns = turns
      BY <2>1, <3>1, Zenon
    <3>3. Paired(turns)' /\ Paired(full'.turns)
      BY <3>1, <3>2 DEF PairsInv, Paired
    <3> QED
      BY <3>3, Zenon DEF PairsInv, Paired
  <2>4. CASE UNCHANGED vars
    BY <2>4, Zenon DEF vars, PairsInv, Paired
  <2> QED
    BY <2>2, <2>3, <2>4 DEF Next
<1>3. TypeOK /\ SentIsBuilt /\ PairsInv => WholeExchanges
  <2> SUFFICES ASSUME TypeOK, SentIsBuilt, PairsInv PROVE WholeExchanges
    OBVIOUS
  <2>1. full \in Contexts /\ full.turns \in Seq(Turn) /\ Paired(full.turns)
    BY DEF TypeOK, Contexts, PairsInv
  <2>2. \E j \in Nat : sent.turns = WithoutPairs(full.turns, j)
    <3>1. CASE sent = full
      <4>1. WithoutPairs(full.turns, 0) = full.turns
        BY <2>1 DEF WithoutPairs
      <4> QED
        BY <3>1, <4>1
    <3>2. CASE sent = BuildWithTruncation(full)
      BY <2>1, <3>2, Truncation, Zenon
    <3> QED
      BY <3>1, <3>2 DEF SentIsBuilt
  <2>3. Paired(sent.turns) /\ IsSuffix(sent.turns, full.turns)
    BY <2>1, <2>2, PairedCut, Zenon
  <2>4. DOMAIN sent.turns = 1..Len(sent.turns)
    BY <2>1 DEF TypeOK, Contexts
  <2> QED
    BY <2>3, <2>4, Zenon DEF WholeExchanges, Paired
<1> QED
  BY <1>1, <1>2, <1>3, PromptInv, PTL DEF Spec
=============================================================================
