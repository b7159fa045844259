---------------------------- MODULE PromptBuilder ----------------------------
(***************************************************************************)
(* The prompts of a session and how they are cut to the context window     *)
(* (agent/prompt_builder.py, agent/truncation.py), as AgentCore asks for   *)
(* them: process_turn with the conversation so far and the memories that   *)
(* the search finds, an autonomous tweet without memories.                 *)
(*                                                                         *)
(* A text is abstracted to its size in estimated tokens.  Summaries carry  *)
(* their day, turns the exchange they belong to.                           *)
(***************************************************************************)
EXTENDS Integers, Sequences, SequencesExt

CONSTANTS
  Limit,       \* get_effective_token_limit
  BaseSize,    \* the fixed blocks, the persona and the user's input
  TagSize,     \* the tag and the introduction of an optional section
  StyleCap,    \* STYLE_SAMPLES_TRUNCATION_CHARS
  Sizes,       \* the sizes of texts
  MaxDays,     \* bound on memory.warm_days
  MaxMemories, \* bound on memory.cold_top_k
  MaxCalls     \* bound on the prompts built

ASSUME SizeAssumption ==
  /\ {Limit, BaseSize, TagSize, StyleCap, MaxDays, MaxMemories, MaxCalls} \subseteq Nat
  /\ Sizes \subseteq Nat

VARIABLES
  day_summaries, \* loaded at startup
  hot,           \* personality_trends, human_block and style_samples
  turns,         \* session_context.turns
  calls,         \* the prompts built so far, one per call
  full,          \* what the last prompt was to hold
  sent           \* what it did hold

vars == <<day_summaries, hot, turns, calls, full, sent>>

Summary == [day : 1..MaxDays, size : Sizes]
Memory == [rank : 1..MaxMemories, size : Sizes]
Turn == [role : {"user", "assistant"}, exchange : 1..MaxCalls, size : Sizes]
Hot == [trends : Sizes \cup {0}, human : Sizes \cup {0}, style : Sizes \cup {StyleCap}]

Context(cold, warm, conversation, memory, extra) ==
  [cold |-> cold, warm |-> warm, turns |-> conversation, trends |-> memory.trends,
   human |-> memory.human, style |-> memory.style, extra |-> extra]

Contexts ==
  [cold : Seq(Memory), warm : Seq(Summary), turns : Seq(Turn), trends : Sizes \cup {0},
   human : Sizes \cup {0}, style : Sizes \cup {StyleCap}, extra : {0, TagSize}]

TypeOK ==
  /\ day_summaries \in Seq(Summary)
  /\ hot \in Hot
  /\ turns \in Seq(Turn)
  /\ calls \in 0..MaxCalls
  /\ {full, sent} \subseteq Contexts

\* get_recent_day_summaries: the last days that have one, the oldest first.
Loaded ==
  UNION {{s \in [1..n -> Summary] : \A i \in 1..n : s[i].day = i} : n \in 0..MaxDays}

\* search_observations_fts: the best match first.
Retrieved ==
  UNION {{s \in [1..n -> Memory] : \A i \in 1..n : s[i].rank = i} : n \in 0..MaxMemories}

Init ==
  /\ day_summaries \in Loaded
  /\ hot \in Hot
  /\ turns = <<>>
  /\ calls = 0
  /\ full = Context(<<>>, <<>>, <<>>, hot, 0)
  /\ sent = full

-----------------------------------------------------------------------------
(* The size of a prompt: build_system_prompt, build_messages.              *)

SizeOf(items) == FoldSeq(LAMBDA item, n : n + item.size, 0, items)

\* An empty section is left out with its tag.
Section(size) == IF size = 0 THEN 0 ELSE TagSize + size

EstimateTokens(c) ==
  BaseSize + c.extra + c.style + c.human + Section(c.trends)
    + Section(SizeOf(c.warm)) + Section(SizeOf(c.cold)) + SizeOf(c.turns)

Fits(c) == EstimateTokens(c) <= Limit

-----------------------------------------------------------------------------
(* build_with_truncation.                                                  *)

\* A loop that cuts one step more until the prompt fits, at most n times.
Repeat(n, cut) ==
  cut[IF \E k \in 0..n : Fits(cut[k])
      THEN CHOOSE k \in 0..n : Fits(cut[k]) /\ \A j \in 0..(k - 1) : ~Fits(cut[j])
      ELSE n]

WithoutLast(s, k) == SubSeq(s, 1, Len(s) - k)

CutCold(c) ==
  LET n == Len(c.cold)
  IN  Repeat(n, [k \in 0..n |-> [c EXCEPT !.cold = WithoutLast(c.cold, k)]])

CutWarm(c) ==
  LET n == Len(c.warm)
  IN  Repeat(n, [k \in 0..n |-> [c EXCEPT !.warm = WithoutLast(c.warm, k)]])

\* Two turns at a time while there are more than two.
CutTurns(c) ==
  LET n == IF Len(c.turns) > 2 THEN (Len(c.turns) - 1) \div 2 ELSE 0
  IN  Repeat(n, [k \in 0..n |-> [c EXCEPT !.turns = SubSeq(c.turns, 2 * k + 1, Len(c.turns))]])

\* The three parts of the hot memory, one after the other.
CutHot(c) ==
  Repeat(3, [k \in 0..3 |->
               [c EXCEPT !.trends = IF k >= 1 THEN 0 ELSE @,
                         !.human = IF k >= 2 THEN 0 ELSE @,
                         !.style = IF k >= 3 /\ @ > StyleCap THEN StyleCap ELSE @]])

\* Slip: the conversation is cut before the summaries.
BuildTurnsFirst(c) == CutHot(CutWarm(CutTurns(CutCold(c))))

\* A phase does nothing when the prompt fits already.
BuildWithTruncation(c) == CutHot(CutTurns(CutWarm(CutCold(c))))

-----------------------------------------------------------------------------
(* The calls.                                                              *)

Build(cold, extra) ==
  /\ calls < MaxCalls
  /\ calls' = calls + 1
  /\ full' = Context(cold, day_summaries, turns, hot, extra)
  /\ sent' = BuildWithTruncation(full')
  /\ UNCHANGED <<day_summaries, hot>>

\* Slip: the question is recorded even when no answer comes.
RecordedAlways(input, response) ==
  <<[role |-> "user", exchange |-> calls', size |-> input]>> \o
  IF response = 0 THEN <<>>
  ELSE <<[role |-> "assistant", exchange |-> calls', size |-> response]>>

\* The question is recorded with its answer, or not at all; 0 is a failed call.
Recorded(input, response) ==
  IF response = 0 THEN <<>>
  ELSE <<[role |-> "user", exchange |-> calls', size |-> input],
         [role |-> "assistant", exchange |-> calls', size |-> response]>>

\* process_turn, every few turns with the block of the consistency check.
ProcessTurn ==
  \E cold \in Retrieved, extra \in {0, TagSize}, input \in Sizes, response \in Sizes \cup {0} :
    /\ Build(cold, extra)
    /\ turns' = turns \o Recorded(input, response)

\* _generate_autonomous_tweet: a further block, no memories, nothing recorded.
Tweet ==
  /\ Build(<<>>, TagSize)
  /\ UNCHANGED turns

Next == ProcessTurn \/ Tweet

Spec == Init /\ [][Next]_vars

-----------------------------------------------------------------------------
(* Properties.                                                             *)

AllCut(c) == c.cold = <<>> /\ c.warm = <<>> /\ Len(c.turns) <= 2

\* Nothing is cut without need or before what ranks below it is gone, and a prompt
\* that is still too large has nothing left that may be cut (prompt_builder.py:370-407).
CutInOrder ==
  /\ sent # full => ~Fits(full)
  /\ sent.warm # full.warm => sent.cold = <<>>
  /\ sent.turns # full.turns => sent.cold = <<>> /\ sent.warm = <<>>
  /\ <<sent.trends, sent.human, sent.style>> # <<full.trends, full.human, full.style>>
       => AllCut(sent)
  /\ sent.human # full.human => sent.trends = 0
  /\ sent.style # full.style => sent.trends = 0 /\ sent.human = 0
  /\ calls > 0 /\ ~Fits(sent) =>
       AllCut(sent) /\ sent.trends = 0 /\ sent.human = 0 /\ sent.style <= StyleCap

\* The conversation in a prompt is made of whole exchanges, the last ones of the
\* session, whatever calls failed and tweets came between (prompt_builder.py:391-393,
\* agent_core.py:372-377).
WholeExchanges ==
  /\ IsSuffix(sent.turns, full.turns)
  /\ \A i \in DOMAIN sent.turns :
       IF i % 2 = 1
       THEN /\ sent.turns[i].role = "user"
            /\ i < Len(sent.turns) /\ sent.turns[i + 1].exchange = sent.turns[i].exchange
       ELSE sent.turns[i].role = "assistant"

\* Of the summaries the latest days are kept ("末尾=最古", prompt_builder.py:384).
LatestDaysKept == IsSuffix(sent.warm, full.warm)
=============================================================================
