--------------------------- MODULE SearchParallel ---------------------------
(***************************************************************************)
(* HaikuEngine.search_parallel (agent/agentic_search.py): one search per   *)
(* query in a worker thread, gathered in an event loop of its own, with a  *)
(* timeout over all of them; and decompose_query, which makes the queries. *)
(*                                                                         *)
(* asyncio is external, as the code uses it: the timeout cancels the       *)
(* awaiting tasks and the queued calls but stops no running thread, and    *)
(* asyncio.run ends the loop by joining the worker threads, for a bounded  *)
(* time.  What a search finds is abstracted to "hits" or nothing.          *)
(***************************************************************************)
EXTENDS Integers, Sequences, FiniteSets

CONSTANTS
  Texts,         \* the queries a model may propose
  Topic,         \* the topic itself
  MaxItems,      \* bound on the lines of a response
  MaxWorkers     \* the threads of the default executor

ASSUME SearchAssumption ==
  /\ MaxWorkers \in Nat \ {0} /\ MaxItems \in Nat
  /\ Topic \notin Texts

VARIABLES
  pc,        \* where the calling thread is
  queries,
  worker,    \* per query: the state of its call in the executor
  found,     \* per query: what its search has returned
  delivered, \* the queries whose task in the event loop is done
  timedOut,
  results    \* what search_parallel returns

vars == <<pc, queries, worker, found, delivered, timedOut, results>>

Found == {"nothing", "hits"}
Calls == DOMAIN queries

TypeOK ==
  /\ pc \in {"idle", "parallel", "gather", "closing", "returned", "failed"}
  /\ queries \in Seq(Texts \cup {Topic})
  /\ worker \in [Calls -> {"queued", "running", "ended", "cancelled"}]
  /\ found \in [Calls -> Found]
  /\ delivered \subseteq Calls
  /\ timedOut \in BOOLEAN
  /\ results \in Seq(Found)

Init ==
  /\ pc = "idle"
  /\ queries = <<>> /\ worker = <<>> /\ found = <<>> /\ delivered = {}
  /\ timedOut = FALSE /\ results = <<>>

Items == UNION {[1..n -> Texts] : n \in 0..MaxItems}

\* A response without items stands for the topic itself; it may repeat an item.
Subqueries(items, limit) ==
  IF items = <<>> THEN <<Topic>>
  ELSE SubSeq(items, 1, IF Len(items) < limit THEN Len(items) ELSE limit)

\* decompose_query with agentic_search.max_subqueries = limit; its LLM call may raise.
DecomposeQuery(limit) ==
  /\ pc = "idle"
  /\ \/ pc' = "parallel" /\ \E items \in Items : queries' = Subqueries(items, limit)
     \/ pc' = "failed" /\ UNCHANGED queries
  /\ worker' = [i \in DOMAIN queries' |-> "queued"]
  /\ found' = [i \in DOMAIN queries' |-> "nothing"]
  /\ UNCHANGED <<delivered, timedOut, results>>

\* search_parallel enters asyncio.run: every query is handed to the executor.
StartLoop ==
  /\ pc = "parallel"
  /\ pc' = "gather"
  /\ UNCHANGED <<queries, worker, found, delivered, timedOut, results>>

-----------------------------------------------------------------------------
(* The worker threads.                                                     *)

WithState(s) == {i \in Calls : worker[i] = s}

\* The oldest queued call is taken by a free thread.
TakeCall ==
  /\ pc = "gather"
  /\ Cardinality(WithState("running")) < MaxWorkers
  /\ \E i \in WithState("queued") :
       /\ \A j \in WithState("queued") : i <= j
       /\ worker' = [worker EXCEPT ![i] = "running"]
  /\ UNCHANGED <<pc, queries, found, delivered, timedOut, results>>

\* search returns; an exception is an empty list.
Search(i) ==
  /\ worker[i] = "running"
  /\ worker' = [worker EXCEPT ![i] = "ended"]
  /\ \E outcome \in Found : found' = [found EXCEPT ![i] = outcome]
  /\ UNCHANGED <<pc, queries, delivered, timedOut, results>>

-----------------------------------------------------------------------------
(* The event loop, in the calling thread.                                  *)

Deliver(i) ==
  /\ pc = "gather"
  /\ worker[i] = "ended" /\ i \notin delivered
  /\ delivered' = delivered \cup {i}
  /\ UNCHANGED <<pc, queries, worker, found, timedOut, results>>

\* Slip: the first hits are enough.
GatherFirst ==
  /\ pc = "gather"
  /\ \E i \in delivered : found[i] = "hits" \/ delivered = Calls
  /\ pc' = "closing"
  /\ results' = found
  /\ UNCHANGED <<queries, worker, found, delivered, timedOut>>

\* gather returns when every task is done, in the order of the queries.
Gather ==
  /\ pc = "gather" /\ delivered = Calls
  /\ pc' = "closing"
  /\ results' = found
  /\ UNCHANGED <<queries, worker, found, delivered, timedOut>>

\* Slip: the timeout never comes.
ExpireNever == FALSE /\ UNCHANGED vars

\* wait_for: queued calls are cancelled, running ones go on.  TimeoutError leaves
\* an empty list for each query.
Expire ==
  /\ pc = "gather"
  /\ pc' = "closing" /\ timedOut' = TRUE
  /\ worker' = [i \in Calls |-> IF worker[i] = "queued" THEN "cancelled" ELSE worker[i]]
  /\ results' = [i \in Calls |-> "nothing"]
  /\ UNCHANGED <<queries, found, delivered>>

\* The end of asyncio.run: it waits for the threads.
CloseLoop ==
  /\ pc = "closing"
  /\ WithState("running") = {}
  /\ pc' = "returned"
  /\ UNCHANGED <<queries, worker, found, delivered, timedOut, results>>

\* asyncio gives up joining after five minutes.
JoinExpires ==
  /\ pc = "closing"
  /\ pc' = "returned"
  /\ UNCHANGED <<queries, worker, found, delivered, timedOut, results>>

-----------------------------------------------------------------------------
Loop == StartLoop \/ (\E i \in Calls : Deliver(i)) \/ Gather \/ CloseLoop

Next ==
  \/ \E limit \in Nat \ {0} : DecomposeQuery(limit)
  \/ Loop
  \/ TakeCall \/ \E i \in Calls : Search(i)
  \/ Expire \/ JoinExpires

Spec == Init /\ [][Next]_vars

-----------------------------------------------------------------------------
(* Properties.                                                             *)

\* Every query gets the result of its own search, whatever the order in which the
\* threads end; with a timeout every query gets nothing, those included whose
\* search had ended (agentic_search.py:371-392).
ResultsFit ==
  pc \in {"closing", "returned"} =>
    /\ DOMAIN results = Calls
    /\ timedOut => \A i \in Calls : results[i] = "nothing"
    /\ ~timedOut => \A i \in Calls : worker[i] = "ended" /\ results[i] = found[i]
=============================================================================
