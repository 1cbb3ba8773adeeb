----------------------------- MODULE KMailState -----------------------------
(***************************************************************************)
(* The sqlite store of the triage agent (kmail/state.py): the items table  *)
(* and the retry_queue table, one operator per method of class State.      *)
(* Every method is one transaction of a store that survives the process,   *)
(* so each operator is a part of an atomic step and none is undone by a    *)
(* crash.                                                                  *)
(*                                                                         *)
(* Time is kept only as far as pop_due tells it apart: a queued row is     *)
(* "waiting" until its due_at has passed and "due" from then on.  The      *)
(* delay it was queued with is kept beside it.                             *)
(***************************************************************************)
EXTENDS Tags, Integers, FiniteSets

CONSTANT Item        \* the Akonadi item ids

VARIABLES
    items,           \* table items, one record per id
    retry_queue      \* table retry_queue, one record per id

stateVars == <<items, retry_queue>>
-----------------------------------------------------------------------------
ItemState == {"pending", "classified", "error"}
Reason    == {"attempt_failed", "item_deleted", "exhausted_retries"}

(* A missing row is a record whose other columns already have the values   *)
(* every INSERT gives them, so that the two arms of an upsert are one      *)
(* assignment.                                                             *)
NoRow == [state |-> "absent", verdict |-> NoTag, attempts |-> 0, last_error |-> "none"]

ItemRow == [state      : ItemState \cup {"absent"},
            verdict    : Verdicts \cup {NoTag},
            attempts   : Nat,
            last_error : Reason \cup {"none"}]

NotQueued == [status |-> "out", delay |-> 0]

BackoffSchedule == <<10, 30, 60, 300>>

(* A mutant: past the schedule the delays start over.                      *)
backoff_delay_wraps(attempt) == BackoffSchedule[(attempt % 4) + 1]

backoff_delay(attempt) == BackoffSchedule[IF attempt < 3 THEN attempt + 1 ELSE 4]

QueueRow == [status : {"out", "waiting", "due"},
             delay  : {0} \cup {BackoffSchedule[n] : n \in 1..4}]

StateTypeOK == items \in [Item -> ItemRow] /\ retry_queue \in [Item -> QueueRow]

StateInit == /\ items = [i \in Item |-> NoRow]
             /\ retry_queue = [i \in Item |-> NotQueued]

Known(i)  == items[i].state # "absent"
Queued(i) == retry_queue[i].status # "out"
Due       == {i \in Item : retry_queue[i].status = "due"}
-----------------------------------------------------------------------------
(* A mutant: a row that is there is kept.                                  *)
RecordPendingNew(i) ==
    /\ items' = [items EXCEPT ![i].state = IF @ = "absent" THEN "pending" ELSE @]
    /\ UNCHANGED retry_queue

RecordPending(i) ==
    /\ items' = [items EXCEPT ![i].state = "pending"]
    /\ UNCHANGED retry_queue

(* A mutant: the row stays in the retry queue.                             *)
RecordClassifiedOnly(i, verdict) ==
    /\ items' = [items EXCEPT ![i].state      = "classified",
                              ![i].verdict    = verdict,
                              ![i].last_error = "none"]
    /\ UNCHANGED retry_queue

RecordClassified(i, verdict) ==
    /\ items' = [items EXCEPT ![i].state      = "classified",
                              ![i].verdict    = verdict,
                              ![i].last_error = "none"]
    /\ retry_queue' = [retry_queue EXCEPT ![i] = NotQueued]

(* Mutants: the columns are swapped; the row stays in the retry queue.     *)
RecordErrorSwapped(i, reason) ==
    /\ items' = [items EXCEPT ![i].state = reason, ![i].last_error = "error"]
    /\ retry_queue' = [retry_queue EXCEPT ![i] = NotQueued]

RecordErrorOnly(i, reason) ==
    /\ items' = [items EXCEPT ![i].state = "error", ![i].last_error = reason]
    /\ UNCHANGED retry_queue

RecordError(i, reason) ==
    /\ items' = [items EXCEPT ![i].state = "error", ![i].last_error = reason]
    /\ retry_queue' = [retry_queue EXCEPT ![i] = NotQueued]

(* bump_attempts raises KeyError for an unknown id, hence the guard.       *)
BumpAttempts(i) ==
    /\ Known(i)
    /\ items' = [items EXCEPT ![i].attempts = @ + 1, ![i].last_error = "attempt_failed"]

(* enqueue_retry picks the delay from the attempts it reads in the row.    *)
EnqueueRetry(i, attempts) ==
    retry_queue' = [retry_queue EXCEPT
                        ![i] = [status |-> "waiting", delay |-> backoff_delay(attempts)]]

(* pop_due returns at most limit due rows and leaves them in the table.    *)
(* Which due rows come first (ORDER BY due_at) is left open.               *)
PopDue(limit, rows) ==
    /\ rows \subseteq Due
    /\ Cardinality(rows) = IF Cardinality(Due) < limit THEN Cardinality(Due) ELSE limit

(* The clock passes due_at.                                                *)
BecomeDue(i) ==
    /\ retry_queue[i].status = "waiting"
    /\ retry_queue' = [retry_queue EXCEPT ![i].status = "due"]
    /\ UNCHANGED items
=============================================================================
