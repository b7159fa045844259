------------------------------ MODULE LlmClient ------------------------------
(***************************************************************************)
(* LLMClient.send_message_for_purpose and send_message                     *)
(* (agent/llm_client.py): requests to the Messages API, repeated with      *)
(* exponential pauses, until one is answered, an error that no repetition  *)
(* cures comes back, or the retries are used up.                           *)
(*                                                                         *)
(* The API and its SDK are external: a request is answered, refused (401   *)
(* or 403), fails in passing (another status, no connection, the time-out  *)
(* of the SDK), or ends in another exception (an answer without content).  *)
(***************************************************************************)
EXTENDS Configuration

VARIABLES
  settings, \* what the client and its users read of the configuration
  call      \* the call in progress

Idle == [state |-> "idle", purpose |-> "none", outcomes |-> <<>>, attempt |-> 0, slept |-> 0]

Outcomes   == {"answer", "refusal", "failure", "exception"}
Unfinished == {"trying", "sleeping"}
Raised     == {"unknown", "authentication", "exhausted", "raised"}

CallTypeOK ==
  /\ call.state \in {"idle", "answered"} \cup Unfinished \cup Raised
  /\ call.purpose \in VALID_PURPOSES \cup {"none"}
  /\ call.outcomes \in Seq(Outcomes)
  /\ call.attempt \in Nat

\* send_message_for_purpose is called.
Ask(purpose) ==
  /\ call = Idle
  /\ call' = [Idle EXCEPT !.state = IF purpose \in VALID_PURPOSES THEN "trying" ELSE "unknown",
                          !.purpose = purpose]

Attempted(outcome, state) ==
  call' = [call EXCEPT !.outcomes = Append(@, outcome), !.state = state]

Answered  == call.state = "trying" /\ Attempted("answer", "answered")
Exception == call.state = "trying" /\ Attempted("exception", "raised")

\* Slip: an authentication error is an error of the API like any other.
RefusedLikeFailed ==
  /\ call.state = "trying"
  /\ Attempted("refusal", IF call.attempt < settings.max_retries THEN "sleeping" ELSE "exhausted")

\* An authentication error is not repeated.
Refused ==
  /\ call.state = "trying"
  /\ Attempted("refusal", "authentication")

\* No pause after the last attempt.
Failed ==
  /\ call.state = "trying"
  /\ Attempted("failure", IF call.attempt < settings.max_retries THEN "sleeping" ELSE "exhausted")

PowerOfTwo[n \in Nat] == IF n = 0 THEN 1 ELSE 2 * PowerOfTwo[n - 1]

\* time.sleep, which raises for a pause that is no finite number.
Sleep ==
  /\ call.state = "sleeping"
  /\ LET base == settings.retry_backoff_base
     IN  IF base.text = "numeral"
         THEN call' = [call EXCEPT !.state = "trying", !.attempt = @ + 1,
                                   !.slept = @ + base.num * PowerOfTwo[call.attempt]]
         ELSE call' = [call EXCEPT !.state = "raised"]

LlmStep == Answered \/ Refused \/ Exception \/ Failed \/ Sleep

\* The caller takes the text or the exception.
HasText == call.state = "answered"
Ended   == call.state \in {"answered"} \cup Raised
Taken   == call' = Idle

-----------------------------------------------------------------------------
(* Properties.                                                             *)

\* A request is repeated only after a failure in passing, at most max_retries times,
\* and exactly so often before the client gives up; the pauses add up to
\* base * (2^n - 1) after n of them (llm_client.py:157-196).
RetriesBounded ==
  LET n == Len(call.outcomes)
  IN  /\ n <= settings.max_retries + 1
      /\ \A i \in 1..(n - 1) : call.outcomes[i] = "failure"
      /\ call.state = "exhausted" => n = settings.max_retries + 1
      /\ call.state \in {"trying", "answered", "authentication", "exhausted"} =>
           call.slept = settings.retry_backoff_base.num * (PowerOfTwo[call.attempt] - 1)
      /\ HasText => call.outcomes[n] = "answer"
=============================================================================
