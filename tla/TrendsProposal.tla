--------------------------- MODULE TrendsProposal ---------------------------
(***************************************************************************)
(* The approval of entries for personality_trends.md:                      *)
(* TrendsProposalManager (agent/trends_proposal.py) as                     *)
(* AgentCore.process_turn uses it, one manager per session.  In every turn *)
(* the model's response may hold a proposal, and the user's input is       *)
(* judged against the pending one.                                         *)
(*                                                                         *)
(* An input is abstracted to the pattern lists it matches; one input may   *)
(* match several.  A proposal has an identity instead of a text.           *)
(***************************************************************************)
EXTENDS Integers, Sequences, FiniteSets

CONSTANTS
  TimeoutTurns,  \* TrendsProposal.timeout_turns
  MaxTurns       \* bound on message_count

ASSUME TrendsAssumption == TimeoutTurns \in Nat /\ MaxTurns \in Nat

VARIABLES
  messageCount,
  pending,      \* pending_proposal
  proposalCount,
  history,      \* _proposal_history
  made,         \* history: how many proposals the responses have made
  appended      \* history: the approved proposals written to the file

vars == <<messageCount, pending, proposalCount, history, made, appended>>

Sections == {"T1", "T2", "T3"}
Proposal == [id : 1..MaxTurns, section : Sections, turn : 1..MaxTurns]
NoProposal == [id |-> 0, section |-> "none", turn |-> 0]
Results == {"approved", "rejected", "expired"}
Input == [rejects : BOOLEAN, approves : BOOLEAN, negated : BOOLEAN]

TypeOK ==
  /\ messageCount \in 0..MaxTurns
  /\ pending \in Proposal \cup {NoProposal}
  /\ proposalCount \in 0..MaxTurns
  /\ history \in Seq([id : 1..MaxTurns, result : Results])
  /\ made \in 0..messageCount
  /\ appended \in SUBSET [id : 1..MaxTurns, proposed : 1..MaxTurns, at : 1..MaxTurns]

Init ==
  /\ messageCount = 0
  /\ pending = NoProposal
  /\ proposalCount = 0
  /\ history = <<>>
  /\ made = 0
  /\ appended = {}

-----------------------------------------------------------------------------
(* A turn.                                                                 *)

\* parse_proposal_from_response: a well-formed proposal replaces the pending one;
\* without the delimiters, or with an unknown kind, nothing changes.
Parsed(response, n) ==
  IF response \in Sections
  THEN [id |-> made + 1, section |-> response, turn |-> n]
  ELSE pending

\* Slip: the timeout is one turn late.
TimedOutLate(p, n) == n - p.turn > TimeoutTurns + 1

TimedOut(p, n) == n - p.turn > TimeoutTurns

\* judge_approval: the timeout first, a rejection before an approval.
Judge(p, input, n) ==
  CASE p = NoProposal -> "none"
    [] p # NoProposal /\ TimedOut(p, n) -> "expired"
    [] p # NoProposal /\ ~TimedOut(p, n) /\ input.rejects -> "rejected"
    [] p # NoProposal /\ ~TimedOut(p, n) /\ ~input.rejects
         /\ input.approves /\ ~input.negated -> "approved"
    [] OTHER -> "pending"

\* What goes to the history.
Settles(result) == result \in Results

\* Slip: an approved proposal is taken without being cleared.
ClearsUnlessApproved(result) == result \in {"rejected", "expired"}

\* What ends the wait: judge_approval clears a proposal that was rejected or has
\* expired, get_approved_proposal one that was approved.
Clears(result) == Settles(result)

\* process_turn with a response.  The input that preceded the response is judged
\* after the response was parsed.  Writing the file may fail.
Turn(response, input, written) ==
  LET n == messageCount + 1
      p == Parsed(response, n)
      result == Judge(p, input, n)
  IN  /\ messageCount < MaxTurns
      /\ messageCount' = n
      /\ made' = IF response \in Sections THEN made + 1 ELSE made
      /\ pending' = IF Clears(result) THEN NoProposal ELSE p
      /\ history' = IF Settles(result)
                    THEN Append(history, [id |-> p.id, result |-> result])
                    ELSE history
      /\ proposalCount' = IF result = "approved" THEN proposalCount + 1 ELSE proposalCount
      /\ appended' = IF result = "approved" /\ written
                     THEN appended \cup {[id |-> p.id, proposed |-> p.turn, at |-> n]}
                     ELSE appended

\* process_turn whose LLM call raises: the turn was counted all the same.
FailedTurn ==
  /\ messageCount < MaxTurns
  /\ messageCount' = messageCount + 1
  /\ UNCHANGED <<pending, proposalCount, history, made, appended>>

\* The next process has a new manager and a new SessionContext.
NewSession ==
  /\ messageCount' = 0
  /\ pending' = NoProposal
  /\ proposalCount' = 0
  /\ history' = <<>>
  /\ made' = 0
  /\ appended' = {}

Responses == Sections \cup {"unknown kind", "no proposal"}

Next ==
  \/ \E response \in Responses, input \in Input, written \in BOOLEAN :
       Turn(response, input, written)
  \/ FailedTurn
  \/ NewSession

Spec == Init /\ [][Next]_vars

-----------------------------------------------------------------------------
(* Properties.                                                             *)

\* A proposal is settled at most once and is pending no more when it is, although
\* judging and clearing it are split between two methods (trends_proposal.py:333-379).
SettledOnce ==
  /\ \A i, j \in DOMAIN history : history[i].id = history[j].id => i = j
  /\ \A i \in DOMAIN history : history[i].id # pending.id

\* What is written to the file was approved within the timeout, even when turns
\* in between failed and were counted without being judged (agent_core.py:310-311).
ApprovedInTime == \A a \in appended : a.at - a.proposed <= TimeoutTurns
=============================================================================
