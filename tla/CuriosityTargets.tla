-------------------------- MODULE CuriosityTargets --------------------------
(***************************************************************************)
(* The table curiosity_targets of memory/db.py: rows in order of id, and   *)
(* its operations as operators on the table.  Each is one transaction.     *)
(* A row keeps its topic, its priority, its status and the id of the row   *)
(* it was derived from (0: none); texts and time stamps are left out.      *)
(***************************************************************************)
EXTENDS Integers, Sequences, FiniteSets

CONSTANTS
  Topics,      \* the topics that occur
  SqlLower,    \* [Topics -> anything]: LOWER(topic) of SQLite (folds ASCII only)
  MaxRows      \* bound on the number of rows

Statuses == {"pending", "searching", "done", "failed"}

Row == [topic : Topics, priority : Nat, status : Statuses, parent : 0..MaxRows]

Ids(rows) == 1..Len(rows)

WithStatus(rows, status) == {i \in Ids(rows) : rows[i].status = status}

\* create_curiosity_target, with the default priority.
DefaultPriority == 5
Create(rows, topic, parent) ==
  Append(rows, [topic |-> topic, priority |-> DefaultPriority,
                status |-> "pending", parent |-> parent])

\* get_pending_targets(limit=1): ORDER BY priority alone, so any of the most
\* urgent pending rows.
MostUrgent(rows) ==
  {i \in WithStatus(rows, "pending") :
     \A j \in WithStatus(rows, "pending") : rows[i].priority <= rows[j].priority}

\* count_pending_curiosity_targets
CountPending(rows) == Cardinality(WithStatus(rows, "pending"))

\* update_target_status of an existing row.
SetStatus(rows, i, status) == [rows EXCEPT ![i].status = status]

\* Slips: recovery does nothing; recovery revives failed rows as well.
RecoverNothing(rows) == rows
RecoverUnfinished(rows) ==
  [i \in Ids(rows) |->
     IF rows[i].status # "done" THEN [rows[i] EXCEPT !.status = "pending"] ELSE rows[i]]

\* recover_stale_searching_targets
RecoverStale(rows) ==
  [i \in Ids(rows) |->
     IF rows[i].status = "searching" THEN [rows[i] EXCEPT !.status = "pending"]
     ELSE rows[i]]

\* Slip: only pending rows are looked at.
TopicExistsPending(rows, topic) ==
  \E i \in WithStatus(rows, "pending") : SqlLower[rows[i].topic] = SqlLower[topic]

\* curiosity_topic_exists, whatever the status of the row.
TopicExists(rows, topic) ==
  \E i \in Ids(rows) : SqlLower[rows[i].topic] = SqlLower[topic]
=============================================================================
