------------------------- MODULE KMailServiceProofs -------------------------
(***************************************************************************)
(* Theorems on the triage service.  The inductive invariant is IInv of     *)
(* KMailProperties; the lemmas go from the operators of the store and of a *)
(* task, over the kinds of steps that several actions share, to the        *)
(* actions themselves.                                                     *)
(***************************************************************************)
EXTENDS KMailProperties, TLAPS

(* The tags are distinct strings.                                          *)
USE DEF NoTag, LARES_PENDING, LARES_ERROR, LARES_UNCLASSIFIED

(* What record_pending does: the state of one row, and nothing else.       *)
LEMMA RecordPendingEffect ==
    ASSUME NEW i \in Item, StateTypeOK, RecordPending(i)
    PROVE  /\ StateTypeOK'
           /\ items'[i].state = "pending"
           /\ items'[i].verdict = items[i].verdict
           /\ items'[i].attempts = items[i].attempts
           /\ \A j \in Item \ {i} : items'[j] = items[j]
           /\ retry_queue' = retry_queue
  BY DEF StateTypeOK, RecordPending, ItemRow, ItemState

(* What record_classified does: one row gets its verdict and leaves the    *)
(* queue.                                                                  *)
LEMMA RecordClassifiedEffect ==
    ASSUME NEW i \in Item, NEW v \in Verdicts, StateTypeOK, RecordClassified(i, v)
    PROVE  /\ StateTypeOK'
           /\ items'[i].state = "classified"
           /\ items'[i].verdict = v
           /\ items'[i].attempts = items[i].attempts
           /\ ~Queued(i)'
           /\ \A j \in Item \ {i} : items'[j] = items[j] /\ retry_queue'[j] = retry_queue[j]
  BY ZenonT(40) DEF StateTypeOK, RecordClassified, ItemRow, ItemState, Queued, NotQueued, QueueRow

(* What record_error does: one row is given up and leaves the queue.       *)
LEMMA RecordErrorEffect ==
    ASSUME NEW i \in Item, NEW reason \in Reason, StateTypeOK, RecordError(i, reason)
    PROVE  /\ StateTypeOK'
           /\ items'[i].state = "error"
           /\ items'[i].verdict = items[i].verdict
           /\ items'[i].attempts = items[i].attempts
           /\ ~Queued(i)'
           /\ \A j \in Item \ {i} : items'[j] = items[j] /\ retry_queue'[j] = retry_queue[j]
  BY DEF StateTypeOK, RecordError, ItemRow, ItemState, Queued, NotQueued, QueueRow

(* What bump_attempts does: one more attempt in the row of a known item.   *)
LEMMA BumpEffect ==
    ASSUME NEW i \in Item, StateTypeOK, BumpAttempts(i)
    PROVE  /\ items' \in [Item -> ItemRow]
           /\ Known(i)
           /\ items'[i].state = items[i].state
           /\ items'[i].verdict = items[i].verdict
           /\ items'[i].attempts = items[i].attempts + 1
           /\ \A j \in Item \ {i} : items'[j] = items[j]
<1>1. Known(i) /\ items[i] \in ItemRow
  BY DEF BumpAttempts, StateTypeOK
<1>2. items[i].attempts + 1 \in Nat
  BY <1>1 DEF ItemRow
<1>3. PICK n \in Nat : n = items[i].attempts + 1
  BY <1>2
<1>4. items' = [items EXCEPT ![i].attempts = n, ![i].last_error = "attempt_failed"]
  BY <1>3, Zenon DEF BumpAttempts
<1>5. QED
  BY <1>1, <1>3, <1>4 DEF StateTypeOK, ItemRow, Reason

(* What enqueue_retry does: one item is queued, with a delay of the        *)
(* schedule.                                                               *)
LEMMA EnqueueEffect ==
    ASSUME NEW i \in Item, NEW n \in Nat, StateTypeOK, EnqueueRetry(i, n)
    PROVE  /\ retry_queue' \in [Item -> QueueRow]
           /\ Queued(i)'
           /\ \A j \in Item \ {i} : retry_queue'[j] = retry_queue[j]
<1>1. backoff_delay(n) \in {BackoffSchedule[k] : k \in 1..4}
  <2>1. (IF n < 3 THEN n + 1 ELSE 4) \in 1..4
    OBVIOUS
  <2>2. QED
    BY <2>1 DEF backoff_delay
<1>2. QED
  BY <1>1 DEF StateTypeOK, EnqueueRetry, QueueRow, Queued

(* A task that issues a call of the helper awaits it, with the item and    *)
(* tag given.                                                              *)
LEMMA CallEffect ==
    ASSUME NEW t \in Task, NEW pc \in MutateCalls, NEW i \in Item,
           NEW want \in LaresTags \cup {NoTag}, TaskTypeOK, Call(t, pc, i, want)
    PROVE  /\ task' \in [Task -> TaskState]
           /\ task'[t] = [pc |-> pc, item |-> i, tag |-> want, reply |-> "wait"]
           /\ \A u \in Task \ {t} : task'[u] = task[u]
  BY DEF TaskTypeOK, Call, TaskState, MutateCalls, SetTagsCalls, Replies

(* A task that asks the classifier keeps its item and has no tag.          *)
LEMMA AskEffect ==
    ASSUME NEW t \in Task, TaskTypeOK, Ask(t)
    PROVE  /\ task' \in [Task -> TaskState]
           /\ task'[t].pc = "classify"
           /\ task'[t].item = task[t].item
           /\ task'[t].reply = "none"
           /\ \A u \in Task \ {t} : task'[u] = task[u]
  BY ZenonT(40) DEF TaskTypeOK, Ask, TaskState, Replies

(* A task that returns to its loop is idle.                                *)
LEMMA FinishEffect ==
    ASSUME NEW t \in Task, TaskTypeOK, Finish(t)
    PROVE  /\ task' \in [Task -> TaskState]
           /\ task'[t] = Idle
           /\ \A u \in Task \ {t} : task'[u] = task[u]
  BY DEF TaskTypeOK, Finish, TaskState, Idle, Replies

(* A reply changes the reply of the task that waits, and nothing else.     *)
LEMMA AnswerEffect ==
    ASSUME NEW t \in Task, NEW r \in Replies, TaskTypeOK, Answer(t, r)
    PROVE  /\ task' \in [Task -> TaskState]
           /\ task'[t] = [task[t] EXCEPT !.reply = r]
           /\ \A u \in Task \ {t} : task'[u] = task[u]
  BY DEF TaskTypeOK, Answer, TaskState

(* A reply changes nothing else of the task that waits.                    *)
LEMMA ReplyEffect ==
    ASSUME NEW t \in Task, NEW r \in Replies, TaskTypeOK, Answer(t, r)
    PROVE  /\ task' \in [Task -> TaskState] /\ \A u \in Task \ {t} : task'[u] = task[u]
           /\ task'[t].pc = task[t].pc /\ task'[t].item = task[t].item
           /\ task'[t].tag = task[t].tag /\ task'[t].reply = r
<1>1. /\ task' \in [Task -> TaskState] /\ task[t] \in TaskState
      /\ task'[t] = [task[t] EXCEPT !.reply = r]
      /\ \A u \in Task \ {t} : task'[u] = task[u]
  BY AnswerEffect DEF TaskTypeOK
<1>2. QED
  BY <1>1 DEF TaskState
-----------------------------------------------------------------------------
(* A task that settles its mail, in record_classified or record_error, and *)
(* goes back to its loop keeps the invariant.                              *)
LEMMA SettleKeeps ==
    ASSUME IInv, NEW t \in ServiceTask, NEW i \in Item,
           task[t].pc # "idle", task[t].item = i,
           t = "consume" => task[t].pc \notin {"fetch", "mark"},
           StateTypeOK',
           items'[i].state \in {"classified", "error"},
           items'[i].state = "classified" =>
               tag[i] = items'[i].verdict \/ mail[i] = "deleted",
           ~Queued(i)',
           \A j \in Item \ {i} : items'[j] = items[j] /\ retry_queue'[j] = retry_queue[j],
           task' \in [Task -> TaskState],
           task'[t] = Idle,
           \A u \in Task \ {t} : task'[u] = task[u],
           UNCHANGED <<mail, tag, procVars, loopVars, faults>>
    PROVE  IInv'
<1> USE TaskAssumption DEF ServiceTask, procVars, loopVars
<1>1. items[i].state = "pending" /\ i \notin batch
  <2>1. CASE t = "consume"
    <3>1. task[t].pc \in {"classify", "apply", "exhaust"}
      BY <2>1 DEF IInv, TasksAreSound, TypeOK, TaskTypeOK, TaskState, MutateCalls,
         SetTagsCalls
    <3>2. QED
      BY <2>1, <3>1 DEF IInv, ClaimIsFresh, RetriedIsPending, Retrying
  <2>2. CASE t = "drain"
    BY <2>2 DEF IInv, RetriedIsPending, Retrying, Holds
  <2>3. QED
    BY <2>1, <2>2
<1>2. \A u \in ServiceTask \ {t} : task[u].pc # "idle" /\ task[u].item = i =>
          u = "consume" /\ task[u].pc = "fetch" /\ (task[u].reply = "ok" => is_lares_tag(task[u].tag))
  BY <1>1 DEF IInv, RetriedIsPending, ClaimIsFresh, TasksAreSound, Retrying, Holds,
     Known, Resumes, TypeOK, TaskTypeOK, TaskState, MutateCalls, SetTagsCalls
<1>3. TypeOK'
  BY DEF IInv, TypeOK, TaskTypeOK
<1>4. TasksAreSound'
  BY <1>2 DEF IInv, TasksAreSound, Idle
<1>5. RowsAreTagged'
  BY <1>1 DEF IInv, RowsAreTagged, Known, Tagged
<1>6. RetriedIsPending'
  BY <1>1, <1>2 DEF IInv, RetriedIsPending, Retrying, Holds, Queued, Idle
<1>7. ClaimIsFresh'
  BY <1>2 DEF IInv, ClaimIsFresh, Resumes, Known, Tagged, Queued, Idle, TasksAreSound
<1>8. AppliedIsShown'
  BY DEF IInv, AppliedIsShown, Resumes, Idle
<1>9. VerdictAgrees'
  BY DEF IInv, VerdictAgrees
<1> QED
  BY <1>3, <1>4, <1>5, <1>6, <1>7, <1>8, <1>9 DEF IInv

(* The failure path of _classify_and_apply and drain_one_due,              *)
(* bump_attempts and then the queue or the last set_tags, keeps the        *)
(* invariant.                                                              *)
LEMMA RetryKeeps ==
    ASSUME IInv, NEW t \in ServiceTask, NEW pc \in {"exhaust", "giveup"},
           NEW i \in Item, task[t].item = i,
           \/ task[t].pc = "classify" /\ pc = "exhaust"
           \/ t = "drain" /\ task[t].pc = "fetch" /\ pc = "giveup",
           RetryLater(t, pc),
           UNCHANGED <<procVars, loopVars, faults>>
    PROVE  IInv'
<1> USE TaskAssumption DEF ServiceTask
<1> DEFINE n == items[i].attempts + 1
<1>1. t \in Task /\ StateTypeOK /\ TaskTypeOK
  BY DEF IInv, TypeOK
<1>2. n \in Nat
  BY <1>1 DEF StateTypeOK, ItemRow
<1>3. /\ items' \in [Item -> ItemRow]
      /\ Known(i)
      /\ items'[i].state = items[i].state /\ items'[i].verdict = items[i].verdict
      /\ items'[i].attempts = n
      /\ \A j \in Item \ {i} : items'[j] = items[j]
  BY <1>1, BumpEffect DEF RetryLater
<1>4. /\ task' \in [Task -> TaskState]
      /\ retry_queue' \in [Item -> QueueRow]
      /\ \A u \in Task \ {t} : task'[u] = task[u]
      /\ \A j \in Item \ {i} : retry_queue'[j] = retry_queue[j]
      /\ \/ /\ task'[t] = [pc |-> pc, item |-> i, tag |-> LARES_ERROR, reply |-> "wait"]
            /\ n > MaxRetries
            /\ retry_queue' = retry_queue
         \/ task'[t] = Idle /\ Queued(i)'
  <2>1. CASE n > MaxRetries /\ Call(t, pc, i, LARES_ERROR) /\ UNCHANGED retry_queue
    BY <1>1, <2>1, CallEffect DEF MutateCalls, SetTagsCalls, LaresTags, StateTypeOK
  <2>2. CASE EnqueueRetry(i, n) /\ Finish(t)
    BY <1>1, <1>2, <2>2, FinishEffect, EnqueueEffect
  <2>3. QED
    BY <2>1, <2>2 DEF RetryLater
<1>5. items[i].state = "pending" /\ i \notin batch
  BY <1>1 DEF IInv, RetriedIsPending, ClaimIsFresh, Retrying, Holds
<1>6. UNCHANGED <<mail, tag, up, notify, mutate, events, batch, faults>>
  BY DEF RetryLater, procVars, loopVars
<1>7. \A u \in ServiceTask \ {t} : task[u].pc # "idle" /\ task[u].item = i =>
          u = "consume" /\ task[u].pc = "fetch" /\ (task[u].reply = "ok" => is_lares_tag(task[u].tag))
  BY <1>1, <1>5 DEF IInv, RetriedIsPending, ClaimIsFresh, TasksAreSound, Retrying,
     Holds, Known, Resumes, TypeOK, TaskTypeOK, TaskState, MutateCalls, SetTagsCalls
<1> HIDE DEF n
<1>11. TypeOK'
  BY <1>3, <1>4, <1>6 DEF IInv, TypeOK, TaskTypeOK, StateTypeOK
<1>12. TasksAreSound'
  BY <1>1, <1>3, <1>4, <1>7 DEF IInv, TasksAreSound, Idle
<1>13. RowsAreTagged'
  BY <1>3, <1>6 DEF IInv, RowsAreTagged, Known, Tagged
<1>14. RetriedIsPending'
  BY <1>3, <1>4, <1>5, <1>6, <1>7 DEF IInv, RetriedIsPending, Retrying, Holds, Queued, Idle
<1>15. ClaimIsFresh'
  BY <1>1, <1>3, <1>4, <1>5, <1>6, <1>7 DEF IInv, ClaimIsFresh, Resumes, Known, Tagged,
     Queued, Idle, TasksAreSound
<1>16. AppliedIsShown'
  BY <1>4, <1>6 DEF IInv, AppliedIsShown, Resumes, Idle
<1>17. VerdictAgrees'
  BY <1>3, <1>5, <1>6 DEF IInv, VerdictAgrees
<1> QED
  BY <1>11, <1>12, <1>13, <1>14, <1>15, <1>16, <1>17 DEF IInv

(* A reply of the helper that reads and writes no tag keeps the invariant. *)
LEMMA AnswerKeeps ==
    ASSUME IInv, NEW t \in ServiceTask, NEW r \in Replies \ {"ok"},
           Waits(t), Answer(t, r),
           UNCHANGED <<mail, tag, stateVars, up, notify, mutate, events, batch>>,
           faults' \in Nat
    PROVE  IInv'
<1> USE TaskAssumption DEF ServiceTask, stateVars
<1>1. /\ task' \in [Task -> TaskState]
      /\ task'[t] = [task[t] EXCEPT !.reply = r]
      /\ task[t] \in TaskState
      /\ \A u \in Task \ {t} : task'[u] = task[u]
  BY AnswerEffect DEF IInv, TypeOK, TaskTypeOK
<1>2. /\ task'[t].pc = task[t].pc /\ task'[t].item = task[t].item
      /\ task'[t].tag = task[t].tag /\ task'[t].reply # "ok"
  BY <1>1 DEF TaskState
<1>3. TypeOK'
  BY <1>1 DEF IInv, TypeOK, TaskTypeOK, StateTypeOK
<1>4. TasksAreSound'
  <2>1. \A u \in ServiceTask : /\ task'[u].pc = task[u].pc
                               /\ task'[u].item = task[u].item
                               /\ task'[u].tag = task[u].tag
    BY <1>1, <1>2
  <2>2. QED
    BY <2>1 DEF IInv, TasksAreSound
<1>5. RowsAreTagged'
  BY DEF IInv, RowsAreTagged, Known, Tagged
<1>6. RetriedIsPending'
  BY <1>1, <1>2, ZenonT(40) DEF IInv, RetriedIsPending, Retrying, Holds, Queued
<1>7. ClaimIsFresh'
  BY <1>1, <1>2 DEF IInv, ClaimIsFresh, Resumes, Known, Tagged, Queued
<1>8. AppliedIsShown'
  BY <1>1, <1>2 DEF IInv, AppliedIsShown, Resumes
<1>9. VerdictAgrees'
  BY DEF IInv, VerdictAgrees
<1> QED
  BY <1>3, <1>4, <1>5, <1>6, <1>7, <1>8, <1>9 DEF IInv

(* A set_tags that takes effect keeps the invariant, whether the task      *)
(* learns of it or not.                                                    *)
LEMMA WriteKeeps ==
    ASSUME IInv, NEW t \in ServiceTask, NEW i \in Item, NEW r \in {"ok", "failed"},
           Waits(t), task[t].pc \in SetTagsCalls, task[t].item = i,
           tag' = [tag EXCEPT ![i] = task[t].tag], Answer(t, r),
           UNCHANGED <<mail, stateVars, up, notify, mutate, events, batch>>,
           faults' \in Nat
    PROVE  IInv'
<1> USE TaskAssumption DEF ServiceTask, stateVars
<1>1. /\ task' \in [Task -> TaskState]
      /\ task'[t] = [task[t] EXCEPT !.reply = r]
      /\ task[t] \in TaskState
      /\ \A u \in Task \ {t} : task'[u] = task[u]
  BY AnswerEffect DEF IInv, TypeOK, TaskTypeOK, Replies
<1>2. \A u \in ServiceTask : /\ task'[u].pc = task[u].pc
                             /\ task'[u].item = task[u].item
                             /\ task'[u].tag = task[u].tag
  BY <1>1 DEF TaskState
<1>3. task[t].tag \in LaresTags
  BY <1>1 DEF IInv, TasksAreSound, SetTagsCalls, LaresTags
<1>4. /\ tag'[i] = task[t].tag
      /\ \A j \in Item \ {i} : tag'[j] = tag[j]
      /\ tag' \in [Item -> LaresTags \cup {NoTag}]
  BY <1>3 DEF IInv, TypeOK, TaskTypeOK
<1>5. items[i].state # "classified"
  <2>1. CASE t = "consume"
    BY <2>1 DEF IInv, ClaimIsFresh, TasksAreSound, SetTagsCalls, Known
  <2>2. CASE t = "drain"
    BY <2>2 DEF IInv, RetriedIsPending, Retrying, Holds, SetTagsCalls
  <2>3. QED
    BY <2>1, <2>2
<1>6. \A u \in ServiceTask \ {t} : task[u].item = i => task[u].pc # "apply"
  BY DEF IInv, RetriedIsPending, ClaimIsFresh, TasksAreSound, Retrying, Holds,
     SetTagsCalls, Known, Queued
<1>7. TypeOK'
  BY <1>1, <1>4 DEF IInv, TypeOK, TaskTypeOK, StateTypeOK
<1>8. TasksAreSound'
  BY <1>2 DEF IInv, TasksAreSound
<1>9. RowsAreTagged'
  BY <1>3, <1>4 DEF IInv, RowsAreTagged, Known, Tagged, is_lares_tag
<1>10. RetriedIsPending'
  BY <1>2 DEF IInv, RetriedIsPending, Retrying, Holds, Queued
<1>11. ClaimIsFresh'
  <2>1. Tagged(i)'
    BY <1>3, <1>4 DEF Tagged, is_lares_tag
  <2>2. \A j \in Item : Tagged(j) => Tagged(j)'
    BY <2>1, <1>4 DEF Tagged
  <2>3. QED
    BY <1>1, <1>2, <2>1, <2>2 DEF IInv, ClaimIsFresh, TasksAreSound, Resumes, Known,
       Queued, SetTagsCalls, Tagged
<1>12. AppliedIsShown'
  BY <1>1, <1>2, <1>4, <1>6 DEF IInv, AppliedIsShown, Resumes, TasksAreSound
<1>13. VerdictAgrees'
  BY <1>4, <1>5 DEF IInv, VerdictAgrees
<1> QED
  BY <1>7, <1>8, <1>9, <1>10, <1>11, <1>12, <1>13 DEF IInv

(* What the end of a process leaves of the row of mail i: the row as it    *)
(* was, or with one attempt more that is not beyond the limit.             *)
RowSurvives(i) ==
    \/ items'[i] = items[i]
    \/ /\ Known(i)
       /\ items'[i].state = items[i].state /\ items'[i].verdict = items[i].verdict
       /\ items'[i].attempts = items[i].attempts + 1 /\ items'[i].attempts <= MaxRetries

(* A process that is killed after bump_attempts leaves that of all rows.   *)
LEMMA BumpedOnlyEffect ==
    ASSUME NEW i \in Item, StateTypeOK, BumpedOnly(i)
    PROVE  StateTypeOK' /\ UNCHANGED retry_queue /\ \A j \in Item : RowSurvives(j)
<1>1. /\ items' \in [Item -> ItemRow] /\ Known(i)
      /\ items'[i].state = items[i].state /\ items'[i].verdict = items[i].verdict
      /\ items'[i].attempts = items[i].attempts + 1
      /\ \A j \in Item \ {i} : items'[j] = items[j]
  BY BumpEffect DEF BumpedOnly
<1>2. items[i].attempts \in Nat /\ items[i].attempts < MaxRetries /\ UNCHANGED retry_queue
  BY DEF BumpedOnly, StateTypeOK, ItemRow
<1>3. items'[i].attempts <= MaxRetries
  BY <1>1, <1>2, MaxRetriesAssumption
<1>4. QED
  BY <1>1, <1>2, <1>3 DEF RowSurvives, StateTypeOK

(* The end of the process, by a crash, between two transactions or not, or *)
(* by an exception nobody catches, keeps the invariant: the next process   *)
(* finds tables and tags that fit each other.                              *)
LEMMA EndedKeeps ==
    ASSUME IInv, Ended, faults' \in Nat,
           StateTypeOK', UNCHANGED retry_queue, \A i \in Item : RowSurvives(i)
    PROVE  IInv'
<1> USE TaskAssumption DEF ServiceTask, Ended
<1>1. /\ task' \in [Task -> TaskState]
      /\ \A t \in ServiceTask : task'[t] = Idle
  BY DEF IInv, TypeOK, TaskTypeOK, TaskState, Idle, Replies
<1>2. TypeOK'
  <2>1. events' \in Seq(Item)
    OBVIOUS
  <2>2. QED
    BY <1>1, <2>1 DEF IInv, TypeOK, TaskTypeOK, StateTypeOK
<1>3. TasksAreSound'
  BY <1>1 DEF TasksAreSound, Idle
<1>4. RowsAreTagged'
  BY DEF IInv, RowsAreTagged, Known, Tagged, RowSurvives
<1>5. RetriedIsPending'
  BY <1>1 DEF IInv, RetriedIsPending, Retrying, Holds, Queued, Idle, RowSurvives
<1>6. ClaimIsFresh'
  BY <1>1 DEF ClaimIsFresh, Resumes, Idle
<1>7. AppliedIsShown'
  BY <1>1 DEF AppliedIsShown, Resumes, Idle
<1>8. VerdictAgrees'
  BY DEF IInv, VerdictAgrees, RowSurvives
<1> QED
  BY <1>2, <1>3, <1>4, <1>5, <1>6, <1>7, <1>8 DEF IInv

(* ... by an exception or a crash that leaves all rows as they are,        *)
LEMMA DownKeeps ==
    ASSUME IInv, Down, faults' \in Nat
    PROVE  IInv'
<1>1. StateTypeOK' /\ UNCHANGED retry_queue /\ \A i \in Item : RowSurvives(i)
  BY DEF IInv, TypeOK, StateTypeOK, Down, stateVars, RowSurvives
<1>2. QED
  BY <1>1, EndedKeeps DEF Down

(* ... or by one between bump_attempts and enqueue_retry.                  *)
LEMMA CrashBumpedKeeps ==
    ASSUME IInv, NEW t \in ServiceTask, CrashBumped(t)
    PROVE  IInv'
<1>1. task[t].item \in Item /\ StateTypeOK /\ faults' \in Nat
  BY DEF IInv, TypeOK, TasksAreSound, CrashBumped, Resumes, Fault
<1>2. StateTypeOK' /\ UNCHANGED retry_queue /\ \A i \in Item : RowSurvives(i)
  BY <1>1, BumpedOnlyEffect DEF CrashBumped
<1>3. QED
  BY <1>1, <1>2, EndedKeeps DEF CrashBumped

(* A step that leaves the rows, the set of queued items and the tasks      *)
(* alone keeps the invariant, if no item loses its tag but by deletion.    *)
LEMMA QuietKeeps ==
    ASSUME IInv, TypeOK',
           UNCHANGED <<items, task>>,
           \A i \in Item : Queued(i)' <=> Queued(i),
           batch' \subseteq {i \in Item : Queued(i)},
           task["drain"].pc # "idle" => batch' = batch,
           \A i \in Item : \/ tag'[i] = tag[i] /\ (mail[i] = "deleted" => mail'[i] = "deleted")
                           \/ mail'[i] = "deleted"
    PROVE  IInv'
<1> USE TaskAssumption DEF ServiceTask
<1>1. \A i \in Item : Tagged(i) => Tagged(i)'
  BY DEF Tagged
<1>2. \A t \in ServiceTask : task[t].pc # "idle" => task[t].item \in Item
  BY DEF IInv, TasksAreSound
<1>3. TasksAreSound'
  BY DEF IInv, TasksAreSound
<1>4. RowsAreTagged'
  BY <1>1 DEF IInv, RowsAreTagged, Known
<1>5. RetriedIsPending'
  BY DEF IInv, RetriedIsPending, Retrying, Holds
<1>6. ClaimIsFresh'
  BY <1>1, <1>2 DEF IInv, ClaimIsFresh, Resumes, Known
<1>7. AppliedIsShown'
  BY <1>2 DEF IInv, AppliedIsShown, Resumes
<1>8. VerdictAgrees'
  BY DEF IInv, VerdictAgrees
<1> QED
  BY <1>3, <1>4, <1>5, <1>6, <1>7, <1>8 DEF IInv

(* The steps of consume_one_event keep the invariant.                      *)
LEMMA ConsumeKeeps ==
    ASSUME IInv, Consume
    PROVE  IInv'
<1> USE TaskAssumption DEF ServiceTask
<1> DEFINE c == task["consume"]
<1>1. c \in TaskState /\ TaskTypeOK /\ StateTypeOK /\ "consume" \in Task
  BY DEF IInv, TypeOK, TaskTypeOK
<1>2. ASSUME NEW pc \in {"idle", "fetch"},
             task' \in [Task -> TaskState],
             task'["consume"].pc = pc, task'["consume"].reply # "ok",
             pc # "idle" => task'["consume"].item \in Item,
             task'["drain"] = task["drain"],
             UNCHANGED <<mail, tag, stateVars, procVars, batch, faults>>,
             events' \in Seq(Item)
      PROVE  IInv'
  <2> USE <1>2 DEF stateVars, procVars
  <2>1. TypeOK'
    BY DEF IInv, TypeOK, TaskTypeOK, StateTypeOK
  <2>2. TasksAreSound'
    BY DEF IInv, TasksAreSound
  <2>3. RowsAreTagged'
    BY DEF IInv, RowsAreTagged, Known, Tagged
  <2>4. RetriedIsPending'
    BY DEF IInv, RetriedIsPending, Retrying, Holds, Queued
  <2>5. ClaimIsFresh'
    BY DEF IInv, ClaimIsFresh, Resumes
  <2>6. AppliedIsShown'
    BY DEF IInv, AppliedIsShown, Resumes
  <2>7. VerdictAgrees'
    BY DEF IInv, VerdictAgrees
  <2>8. QED
    BY <2>1, <2>2, <2>3, <2>4, <2>5, <2>6, <2>7 DEF IInv
<1>3. CASE ConsumeTake
  <2>1. Head(events) \in Item /\ Tail(events) \in Seq(Item)
    BY <1>3 DEF ConsumeTake, IInv, TypeOK
  <2>2. /\ task' \in [Task -> TaskState]
        /\ task'["consume"] = [pc |-> "fetch", item |-> Head(events), tag |-> NoTag, reply |-> "wait"]
        /\ task'["drain"] = task["drain"]
    BY <1>1, <1>3, <2>1, CallEffect DEF ConsumeTake, MutateCalls
  <2>3. QED
    BY <1>2, <1>3, <2>1, <2>2 DEF ConsumeTake
<1>4. CASE ConsumeDrop \/ ConsumeSkip
  <2>1. /\ task' \in [Task -> TaskState]
        /\ task'["consume"] = Idle
        /\ task'["drain"] = task["drain"]
    BY <1>1, <1>4, FinishEffect DEF ConsumeDrop, ConsumeSkip
  <2>2. QED
    BY <1>2, <1>4, <2>1 DEF ConsumeDrop, ConsumeSkip, Idle, loopVars, IInv, TypeOK
<1>5. CASE ConsumeMark
  <2> USE DEF stateVars, procVars, loopVars
  <2>1. PICK i \in Item : c.item = i
    BY <1>5 DEF ConsumeMark, Resumes, IInv, TasksAreSound
  <2>2. /\ c.pc = "fetch" /\ ~Known(i)
        /\ UNCHANGED <<mail, tag, stateVars, procVars, loopVars, faults>>
    BY <1>5, <2>1 DEF ConsumeMark, IInv, ClaimIsFresh, Resumes
  <2>3. /\ task' \in [Task -> TaskState]
        /\ task'["consume"] = [pc |-> "mark", item |-> i, tag |-> LARES_PENDING, reply |-> "wait"]
        /\ task'["drain"] = task["drain"]
    BY <1>1, <1>5, <2>1, CallEffect DEF ConsumeMark, MutateCalls, SetTagsCalls, LaresTags
  <2>4. TypeOK'
    BY <2>2, <2>3 DEF IInv, TypeOK, TaskTypeOK, StateTypeOK
  <2>5. TasksAreSound'
    BY <2>2, <2>3 DEF IInv, TasksAreSound
  <2>6. RowsAreTagged'
    BY <2>2 DEF IInv, RowsAreTagged, Known, Tagged
  <2>7. RetriedIsPending'
    BY <2>2, <2>3 DEF IInv, RetriedIsPending, Retrying, Holds, Queued
  <2>8. ClaimIsFresh'
    BY <2>2, <2>3 DEF ClaimIsFresh, Resumes, Known
  <2>9. AppliedIsShown'
    BY <2>2, <2>3 DEF IInv, AppliedIsShown, Resumes
  <2>10. VerdictAgrees'
    BY <2>2 DEF IInv, VerdictAgrees
  <2>11. QED
    BY <2>4, <2>5, <2>6, <2>7, <2>8, <2>9, <2>10 DEF IInv
<1>6. CASE ConsumeMarked
  <2> USE DEF procVars, loopVars
  <2>1. PICK i \in Item : c.item = i
    BY <1>6 DEF ConsumeMarked, Resumes, IInv, TasksAreSound
  <2>2. /\ c.pc = "mark" /\ ~Known(i) /\ Tagged(i)
        /\ UNCHANGED <<mail, tag, procVars, loopVars, faults>>
    BY <1>6, <2>1 DEF ConsumeMarked, IInv, ClaimIsFresh, Resumes
  <2>3. ~Queued(i) /\ ~Retrying(i)
    BY <2>2 DEF IInv, RetriedIsPending, Known
  <2>4. /\ StateTypeOK'
        /\ items'[i].state = "pending"
        /\ \A j \in Item \ {i} : items'[j] = items[j]
        /\ retry_queue' = retry_queue
    BY <1>1, <1>6, <2>1, RecordPendingEffect DEF ConsumeMarked
  <2>5. /\ task' \in [Task -> TaskState]
        /\ task'["consume"].pc = "classify" /\ task'["consume"].item = i
        /\ task'["drain"] = task["drain"]
    BY <1>1, <1>6, <2>1, AskEffect DEF ConsumeMarked
  <2>6. TypeOK'
    BY <2>2, <2>4, <2>5 DEF IInv, TypeOK, TaskTypeOK
  <2>7. TasksAreSound'
    BY <2>3, <2>4, <2>5 DEF IInv, TasksAreSound, Retrying, Holds
  <2>8. RowsAreTagged'
    BY <2>2, <2>4 DEF IInv, RowsAreTagged, Known, Tagged
  <2>9. RetriedIsPending'
    BY <2>2, <2>3, <2>4, <2>5 DEF IInv, RetriedIsPending, Retrying, Holds, Queued
  <2>10. ClaimIsFresh'
    BY <2>3, <2>4, <2>5 DEF ClaimIsFresh, Resumes, Queued
  <2>11. AppliedIsShown'
    BY <2>2, <2>5 DEF IInv, AppliedIsShown, Resumes
  <2>12. VerdictAgrees'
    BY <2>2, <2>4 DEF IInv, VerdictAgrees
  <2>13. QED
    BY <2>6, <2>7, <2>8, <2>9, <2>10, <2>11, <2>12 DEF IInv
<1>7. QED
  BY <1>3, <1>4, <1>5, <1>6 DEF Consume

(* The steps of _drain_loop and drain_one_due keep the invariant.          *)
LEMMA DrainKeeps ==
    ASSUME IInv, Drain
    PROVE  IInv'
<1> USE TaskAssumption DEF ServiceTask
<1> DEFINE d == task["drain"]
<1>1. TaskTypeOK /\ StateTypeOK /\ "drain" \in Task /\ d \in TaskState
  BY DEF IInv, TypeOK, TaskTypeOK
<1>2. CASE DrainPop
  <2>1. batch' \subseteq {i \in Item : Queued(i)} /\ task["drain"].pc = "idle"
    BY <1>2 DEF DrainPop, PopDue, Due, Queued
  <2>2. UNCHANGED <<mail, tag, task, items, retry_queue, up, notify, mutate, events, faults>>
    BY <1>2 DEF DrainPop, stateVars, taskVars, procVars
  <2>3. TypeOK'
    BY <2>1, <2>2 DEF IInv, TypeOK, TaskTypeOK, StateTypeOK
  <2>4. QED
    BY <2>1, <2>2, <2>3, QuietKeeps DEF Queued
<1>3. CASE DrainNext
  <2> USE DEF stateVars, procVars
  <2>1. PICK i \in batch : Call("drain", "fetch", i, NoTag) /\ batch' = batch \ {i}
    BY <1>3 DEF DrainNext
  <2>2. i \in Item /\ Queued(i)
    BY DEF IInv, TypeOK, RetriedIsPending, Retrying
  <2>3. /\ task' \in [Task -> TaskState]
        /\ task'["drain"] = [pc |-> "fetch", item |-> i, tag |-> NoTag, reply |-> "wait"]
        /\ task'["consume"] = task["consume"]
    BY <1>1, <2>1, <2>2, CallEffect DEF MutateCalls
  <2>4. UNCHANGED <<mail, tag, stateVars, procVars, events, faults>>
    BY <1>3 DEF DrainNext
  <2>5. TypeOK'
    BY <2>1, <2>3, <2>4 DEF IInv, TypeOK, TaskTypeOK, StateTypeOK
  <2>6. TasksAreSound'
    BY <2>2, <2>3, <2>4 DEF IInv, TasksAreSound
  <2>7. RowsAreTagged'
    BY <2>4 DEF IInv, RowsAreTagged, Known, Tagged
  <2>8. RetriedIsPending'
    BY <2>1, <2>2, <2>3, <2>4 DEF IInv, RetriedIsPending, Retrying, Holds, Queued
  <2>9. ClaimIsFresh'
    BY <2>3, <2>4 DEF IInv, ClaimIsFresh, Resumes, Known, Tagged, Queued
  <2>10. AppliedIsShown'
    BY <2>3, <2>4 DEF IInv, AppliedIsShown, Resumes
  <2>11. VerdictAgrees'
    BY <2>4 DEF IInv, VerdictAgrees
  <2>12. QED
    BY <2>5, <2>6, <2>7, <2>8, <2>9, <2>10, <2>11 DEF IInv
<1>4. CASE DrainClassify
  <2> USE DEF stateVars, procVars, loopVars
  <2>1. d.pc = "fetch" /\ d.item \in Item
    BY <1>4 DEF DrainClassify, Resumes, IInv, TasksAreSound
  <2>2. /\ task' \in [Task -> TaskState]
        /\ task'["drain"].pc = "classify" /\ task'["drain"].item = d.item
        /\ task'["consume"] = task["consume"]
    BY <1>1, <1>4, AskEffect DEF DrainClassify
  <2>3. UNCHANGED <<mail, tag, stateVars, procVars, loopVars, faults>>
    BY <1>4 DEF DrainClassify
  <2>4. TypeOK'
    BY <2>2, <2>3 DEF IInv, TypeOK, TaskTypeOK, StateTypeOK
  <2>5. TasksAreSound'
    BY <2>1, <2>2, <2>3 DEF IInv, TasksAreSound
  <2>6. RowsAreTagged'
    BY <2>3 DEF IInv, RowsAreTagged, Known, Tagged
  <2>7. RetriedIsPending'
    BY <2>1, <2>2, <2>3 DEF IInv, RetriedIsPending, Retrying, Holds, Queued
  <2>8. ClaimIsFresh'
    BY <2>2, <2>3 DEF IInv, ClaimIsFresh, Resumes, Known, Tagged, Queued
  <2>9. AppliedIsShown'
    BY <2>2, <2>3 DEF IInv, AppliedIsShown, Resumes
  <2>10. VerdictAgrees'
    BY <2>3 DEF IInv, VerdictAgrees
  <2>11. QED
    BY <2>4, <2>5, <2>6, <2>7, <2>8, <2>9, <2>10 DEF IInv
<1>5. CASE DrainPostpone
  <2>1. d.pc = "fetch" /\ d.item \in Item
    BY <1>5 DEF DrainPostpone, Resumes, IInv, TasksAreSound
  <2>2. QED
    BY <1>5, <2>1, RetryKeeps DEF DrainPostpone
<1>6. ASSUME NEW reason \in Reason, d.pc # "idle", RecordError(d.item, reason), Finish("drain"),
             UNCHANGED <<mail, tag, procVars, loopVars, faults>>
      PROVE  IInv'
  <2>1. PICK i \in Item : d.item = i
    BY <1>6 DEF IInv, TasksAreSound
  <2>2. /\ StateTypeOK'
        /\ items'[i].state = "error"
        /\ ~Queued(i)'
        /\ \A j \in Item \ {i} : items'[j] = items[j] /\ retry_queue'[j] = retry_queue[j]
    BY <1>1, <1>6, <2>1, RecordErrorEffect
  <2>3. /\ task' \in [Task -> TaskState]
        /\ task'["drain"] = Idle
        /\ \A u \in Task \ {"drain"} : task'[u] = task[u]
    BY <1>1, <1>6, FinishEffect
  <2>4. QED
    BY <1>6, <2>1, <2>2, <2>3, SettleKeeps
<1>7. CASE DrainDeleted \/ DrainGaveUp
  BY <1>6, <1>7 DEF DrainDeleted, DrainGaveUp, Resumes, Reason
<1>8. QED
  BY <1>2, <1>3, <1>4, <1>5, <1>7 DEF Drain

(* The steps of _classify_and_apply keep the invariant, in either task.    *)
LEMMA ClassifyAndApplyKeeps ==
    ASSUME IInv, NEW t \in ServiceTask, ClassifyAndApply(t)
    PROVE  IInv'
<1> USE TaskAssumption DEF ServiceTask
<1>1. TaskTypeOK /\ StateTypeOK /\ t \in Task /\ task[t] \in TaskState
  BY DEF IInv, TypeOK, TaskTypeOK
<1>2. UNCHANGED <<procVars, loopVars, faults>>
  BY DEF ClassifyAndApply
<1>3. PICK i \in Item : task[t].item = i
  BY DEF ClassifyAndApply, Classify, ClassifierFails, Applied, Exhausted, Resumes,
     IInv, TasksAreSound
<1>4. CASE Classify(t)
  <2> USE DEF stateVars, procVars, loopVars
  <2>1. PICK v \in Verdicts : Call(t, "apply", i, v)
    BY <1>3, <1>4 DEF Classify
  <2>2. /\ task' \in [Task -> TaskState]
        /\ task'[t] = [pc |-> "apply", item |-> i, tag |-> v, reply |-> "wait"]
        /\ \A u \in Task \ {t} : task'[u] = task[u]
    BY <1>1, <2>1, CallEffect DEF MutateCalls, SetTagsCalls, LaresTags
  <2>3. task[t].pc = "classify" /\ UNCHANGED <<mail, tag, stateVars>>
    BY <1>4 DEF Classify
  <2>4. TypeOK'
    BY <1>2, <2>2, <2>3 DEF IInv, TypeOK, TaskTypeOK, StateTypeOK
  <2>5. TasksAreSound'
    BY <2>2, <2>3 DEF IInv, TasksAreSound
  <2>6. RowsAreTagged'
    BY <2>3 DEF IInv, RowsAreTagged, Known, Tagged
  <2>7. RetriedIsPending'
    BY <1>2, <1>3, <2>2, <2>3 DEF IInv, RetriedIsPending, Retrying, Holds, Queued
  <2>8. ClaimIsFresh'
    BY <1>3, <2>2, <2>3 DEF IInv, ClaimIsFresh, Resumes, Known, Tagged, Queued
  <2>9. AppliedIsShown'
    BY <2>2, <2>3 DEF IInv, AppliedIsShown, Resumes
  <2>10. VerdictAgrees'
    BY <2>3 DEF IInv, VerdictAgrees
  <2>11. QED
    BY <2>4, <2>5, <2>6, <2>7, <2>8, <2>9, <2>10 DEF IInv
<1>5. CASE ClassifierFails(t)
  BY <1>2, <1>3, <1>5, RetryKeeps DEF ClassifierFails
<1>6. CASE Applied(t)
  <2>1. task[t].pc = "apply" /\ (tag[i] = task[t].tag \/ mail[i] = "deleted") /\ task[t].tag \in Verdicts
    BY <1>3, <1>6 DEF Applied, Resumes, IInv, AppliedIsShown, TasksAreSound
  <2>2. /\ StateTypeOK'
        /\ items'[i].state = "classified" /\ items'[i].verdict = task[t].tag
        /\ ~Queued(i)'
        /\ \A j \in Item \ {i} : items'[j] = items[j] /\ retry_queue'[j] = retry_queue[j]
    BY <1>1, <1>3, <1>6, <2>1, RecordClassifiedEffect DEF Applied
  <2>3. /\ task' \in [Task -> TaskState]
        /\ task'[t] = Idle
        /\ \A u \in Task \ {t} : task'[u] = task[u]
        /\ UNCHANGED <<mail, tag>>
    BY <1>1, <1>6, FinishEffect DEF Applied
  <2>4. QED
    BY <1>2, <1>3, <2>1, <2>2, <2>3, SettleKeeps
<1>7. CASE Exhausted(t)
  <2>1. task[t].pc = "exhaust"
    BY <1>7 DEF Exhausted, Resumes
  <2>2. /\ StateTypeOK'
        /\ items'[i].state = "error"
        /\ ~Queued(i)'
        /\ \A j \in Item \ {i} : items'[j] = items[j] /\ retry_queue'[j] = retry_queue[j]
    BY <1>1, <1>3, <1>7, RecordErrorEffect DEF Exhausted, Reason
  <2>3. /\ task' \in [Task -> TaskState]
        /\ task'[t] = Idle
        /\ \A u \in Task \ {t} : task'[u] = task[u]
        /\ UNCHANGED <<mail, tag>>
    BY <1>1, <1>7, FinishEffect DEF Exhausted
  <2>4. QED
    BY <1>2, <1>3, <2>1, <2>2, <2>3, SettleKeeps
<1>8. QED
  BY <1>4, <1>5, <1>6, <1>7 DEF ClassifyAndApply

(* The helper serving, failing or missing a call keeps the invariant.      *)
LEMMA HelperKeeps ==
    ASSUME IInv, NEW t \in ServiceTask, Serve(t) \/ ServeFails(t) \/ Unserved(t)
    PROVE  IInv'
<1>1. UNCHANGED <<mail, stateVars, up, notify, mutate, events, batch>> /\ faults' \in Nat
  BY DEF Serve, ServeFetch, ServeSetTags, ServeFails, FetchJobFails, AnswerTooLong,
     CallFails, Unserved,
         Fault, procVars, loopVars, IInv, TypeOK
<1>2. PICK i \in Item : task[t].item = i
  BY DEF Serve, ServeFetch, ServeSetTags, ServeFails, FetchJobFails, AnswerTooLong,
     CallFails, Unserved,
         Waits, MutateCalls, SetTagsCalls, IInv, TasksAreSound
<1>3. ASSUME NEW r \in Replies \ {"ok"}, Waits(t), Answer(t, r), UNCHANGED tag
      PROVE  IInv'
  BY <1>1, <1>3, AnswerKeeps
<1>4. ASSUME NEW r \in {"ok", "failed"}, Waits(t), task[t].pc \in SetTagsCalls,
             tag' = [tag EXCEPT ![i] = task[t].tag], Answer(t, r)
      PROVE  IInv'
  BY <1>1, <1>2, <1>4, WriteKeeps
<1>5. CASE Waits(t) /\ task[t].pc = "fetch" /\ mail[i] = "present" /\ UNCHANGED tag
           /\ task' = [task EXCEPT ![t].reply = "ok", ![t].tag = tag[i]]
  <2> USE TaskAssumption DEF ServiceTask, stateVars
  <2>1. /\ task' \in [Task -> TaskState]
        /\ task'[t].pc = "fetch" /\ task'[t].item = i /\ task'[t].tag = tag[i]
        /\ \A u \in Task \ {t} : task'[u] = task[u]
    BY <1>2, <1>5 DEF IInv, TypeOK, TaskTypeOK, TaskState, Replies
  <2>2. TypeOK'
    BY <1>1, <2>1, <1>5 DEF IInv, TypeOK, TaskTypeOK, StateTypeOK
  <2>3. TasksAreSound'
    BY <1>1, <2>1 DEF IInv, TasksAreSound
  <2>4. RowsAreTagged'
    BY <1>1, <1>5 DEF IInv, RowsAreTagged, Known, Tagged
  <2>5. RetriedIsPending'
    BY <1>1, <1>2, <1>5, <2>1 DEF IInv, RetriedIsPending, Retrying, Holds, Queued
  <2>6. ClaimIsFresh'
    BY <1>1, <1>5, <2>1 DEF IInv, ClaimIsFresh, RowsAreTagged, Resumes, Known, Tagged,
       Queued
  <2>7. AppliedIsShown'
    BY <1>1, <1>5, <2>1 DEF IInv, AppliedIsShown, Resumes
  <2>8. VerdictAgrees'
    BY <1>1, <1>5 DEF IInv, VerdictAgrees
  <2>9. QED
    BY <2>2, <2>3, <2>4, <2>5, <2>6, <2>7, <2>8 DEF IInv
<1>6. CASE Serve(t)
  BY <1>2, <1>3, <1>4, <1>5, <1>6 DEF Serve, ServeFetch, ServeSetTags, Replies
<1>7. CASE ServeFails(t)
  BY <1>2, <1>3, <1>4, <1>7 DEF ServeFails, FetchJobFails, AnswerTooLong, CallFails, Replies
<1>8. CASE Unserved(t)
  BY <1>3, <1>8 DEF Unserved, Replies
<1>9. QED
  BY <1>6, <1>7, <1>8

(* Helpers that exit, the restart, mail and the clock keep the invariant.  *)
LEMMA EnvironmentKeeps ==
    ASSUME IInv,
           \/ MutateExits \/ NotifyExits \/ Restart
           \/ \E i \in Item : NewMail(i) \/ Duplicate(i) \/ Delete(i) \/ RetryDue(i)
    PROVE  IInv'
<1> USE DEF stateVars, taskVars, procVars, loopVars
<1>1. TypeOK /\ batch \subseteq {i \in Item : Queued(i)}
  BY DEF IInv, TypeOK, RetriedIsPending, Retrying
<1>2. CASE MutateExits \/ NotifyExits \/ Restart
  <2>1. faults' \in Nat
    BY <1>1, <1>2 DEF TypeOK, MutateExits, NotifyExits, Restart, Fault
  <2>2. UNCHANGED <<items, retry_queue, mail, tag, task, events, batch>>
    BY <1>2 DEF MutateExits, NotifyExits, Restart
  <2>3. up' \in BOOLEAN /\ notify' \in {"running", "exited"} /\ mutate' \in {"running", "exited"}
    BY <1>1, <1>2 DEF TypeOK, MutateExits, NotifyExits, Restart
  <2>4. TypeOK'
    BY <1>1, <2>1, <2>2, <2>3 DEF TypeOK, TaskTypeOK, StateTypeOK
  <2>5. QED
    BY <1>1, <2>2, <2>4, QuietKeeps DEF Queued
<1>3. ASSUME NEW i \in Item, NewMail(i) \/ Duplicate(i)
      PROVE  IInv'
  <2>1. events' \in Seq(Item)
    BY <1>1, <1>3 DEF TypeOK, NewMail, Duplicate, Report
  <2>2. TypeOK'
    BY <1>1, <1>3, <2>1 DEF TypeOK, TaskTypeOK, StateTypeOK, NewMail, Duplicate
  <2>3. \A j \in Item : tag'[j] = tag[j] /\ (mail[j] = "deleted" => mail'[j] = "deleted")
    BY <1>1, <1>3 DEF TypeOK, TaskTypeOK, NewMail, Duplicate
  <2>4. QED
    BY <1>1, <1>3, <2>2, <2>3, QuietKeeps DEF NewMail, Duplicate, Queued
<1>4. ASSUME NEW i \in Item, Delete(i)
      PROVE  IInv'
  <2>1. TypeOK'
    BY <1>1, <1>4 DEF TypeOK, TaskTypeOK, StateTypeOK, Delete
  <2>2. \A j \in Item : \/ tag'[j] = tag[j] /\ (mail[j] = "deleted" => mail'[j] = "deleted")
                        \/ mail'[j] = "deleted"
    BY <1>1, <1>4 DEF TypeOK, TaskTypeOK, Delete
  <2>3. QED
    BY <1>1, <1>4, <2>1, <2>2, QuietKeeps DEF Delete, Queued
<1>5. ASSUME NEW i \in Item, RetryDue(i)
      PROVE  IInv'
  <2>1. retry_queue' \in [Item -> QueueRow] /\ \A j \in Item : Queued(j)' <=> Queued(j)
    BY <1>1, <1>5 DEF TypeOK, StateTypeOK, RetryDue, BecomeDue, QueueRow, Queued
  <2>2. TypeOK'
    BY <1>1, <1>5, <2>1 DEF TypeOK, TaskTypeOK, StateTypeOK, RetryDue, BecomeDue
  <2>3. QED
    BY <1>1, <1>5, <2>1, <2>2, QuietKeeps DEF RetryDue, BecomeDue
<1>6. QED
  BY <1>2, <1>3, <1>4, <1>5

(* The service starts in the invariant.                                    *)
LEMMA InitIsSound ==
    ASSUME Init
    PROVE  IInv
<1> USE TaskAssumption DEF Init, StateInit, TaskInit, ServiceTask
<1>1. StateTypeOK
  BY DEF StateTypeOK, ItemRow, QueueRow, NoRow, NotQueued
<1>2. TaskTypeOK
  BY DEF TaskTypeOK, TaskState, Idle, Replies
<1>3. TypeOK
  BY <1>1, <1>2 DEF TypeOK
<1>4. TasksAreSound /\ ClaimIsFresh /\ AppliedIsShown
  BY DEF TasksAreSound, ClaimIsFresh, AppliedIsShown, Resumes, Idle
<1>5. RowsAreTagged /\ RetriedIsPending /\ VerdictAgrees
  BY DEF RowsAreTagged, RetriedIsPending, VerdictAgrees, Known, Queued, Retrying,
     Holds, NoRow, NotQueued, Idle
<1>6. QED
  BY <1>3, <1>4, <1>5 DEF IInv

(* Every step of the service keeps the invariant.                          *)
LEMMA NextKeeps ==
    ASSUME IInv, [Next]_vars
    PROVE  IInv'
<1>1. CASE Consume
  BY <1>1, ConsumeKeeps
<1>2. CASE Drain
  BY <1>2, DrainKeeps
<1>3. ASSUME NEW t \in ServiceTask, Raise(t) PROVE IInv'
  BY <1>3, DownKeeps DEF Raise, IInv, TypeOK
<1>4. ASSUME NEW t \in ServiceTask, Common(t) \/ ServeFails(t) \/ CrashBumped(t) PROVE IInv'
  BY <1>3, <1>4, ClassifyAndApplyKeeps, HelperKeeps, CrashBumpedKeeps DEF Common
<1>5. CASE Crash
  BY <1>5, DownKeeps DEF Crash, Fault, IInv, TypeOK
<1>6. CASE \/ MutateExits \/ NotifyExits \/ Restart
           \/ \E i \in Item : NewMail(i) \/ Duplicate(i) \/ Delete(i) \/ RetryDue(i)
  BY <1>6, EnvironmentKeeps
<1>7. CASE UNCHANGED vars
  <2>1. TypeOK' /\ batch \subseteq {i \in Item : Queued(i)}
    BY <1>7 DEF vars, stateVars, taskVars, procVars, loopVars, IInv, TypeOK,
       TaskTypeOK, StateTypeOK, RetriedIsPending, Retrying
  <2>2. QED
    BY <1>7, <2>1, QuietKeeps DEF vars, stateVars, taskVars, procVars, loopVars, Queued
<1>8. QED
  BY <1>1, <1>2, <1>4, <1>5, <1>6, <1>7 DEF Next

(* The inductive invariant: in every behaviour, whatever fails and         *)
(* whenever the process ends, rows, queue, tags and tasks fit each other.  *)
THEOREM Invariance == Spec => []IInv
<1>1. Init => IInv
  BY InitIsSound
<1>2. IInv /\ [Next]_vars => IInv'
  BY NextKeeps
<1>3. QED
  BY <1>1, <1>2, PTL DEF Spec

(* Every variable has its type.                                            *)
THEOREM TypeCorrect == Spec => []TypeOK
<1>1. IInv => TypeOK
  BY DEF IInv
<1>2. QED
  BY <1>1, Invariance, PTL

(* The consume task and the drain task never work on the same mail, though *)
(* nothing but the skip check of service.py:87 keeps them apart.           *)
THEOREM Exclusion == Spec => []NoDoubleProcessing
<1>1. IInv => NoDoubleProcessing
  <2> SUFFICES ASSUME IInv, NEW i \in Item, Claimed(i), Retrying(i) PROVE FALSE
    BY DEF NoDoubleProcessing
  <2>1. task["consume"].item = i /\ task["consume"].pc \in {"mark", "classify", "apply", "exhaust"}
    BY TaskAssumption DEF IInv, Claimed, Holds, TasksAreSound, TypeOK, TaskTypeOK,
       TaskState,
                          MutateCalls, SetTagsCalls, ServiceTask
  <2>2. Queued(i) /\ items[i].state = "pending"
    BY DEF IInv, RetriedIsPending
  <2>3. QED
    BY <2>1, <2>2 DEF IInv, ClaimIsFresh, Known
<1>2. QED
  BY <1>1, Invariance, PTL

(* A queued mail is pending in the table and carries a lares-* tag, unless *)
(* it was deleted.                                                         *)
THEOREM QueueSound == Spec => []QueueAgrees
<1>1. IInv => QueueAgrees
  BY DEF IInv, QueueAgrees, RetriedIsPending, RowsAreTagged, Known
<1>2. QED
  BY <1>1, Invariance, PTL

(* The KeyError of bump_attempts is never raised: what a task may still    *)
(* have to count has a row.                                                *)
THEOREM NoUnknownItem == Spec => []AttemptsAreCounted
<1>1. IInv => AttemptsAreCounted
  BY TaskAssumption DEF IInv, AttemptsAreCounted, RetriedIsPending, ClaimIsFresh,
     TasksAreSound, Claimed,
         Holds, Known, TypeOK, TaskTypeOK, TaskState, MutateCalls, SetTagsCalls, ServiceTask
<1>2. QED
  BY <1>1, Invariance, PTL

(* A mail recorded as classified carries the verdict that is recorded,     *)
(* though tag and row are written one after the other.                     *)
THEOREM Agreement == Spec => []VerdictAgrees
<1>1. IInv => VerdictAgrees
  BY DEF IInv
<1>2. QED
  BY <1>1, Invariance, PTL

(* The service implements TriageLedger: its initial states are ledgers,    *)
(* and each step is a step of the ledger or leaves the items table alone.  *)
THEOREM LedgerIsKept == Spec => KeepsLedger
<1>1. Init => Ledger!LedgerInit
  BY DEF Init, StateInit, NoRow, Ledger!LedgerInit, Ledger!Unseen, Ledger!NoTag
<1>2. IInv /\ [Next]_vars => [Ledger!LedgerNext]_items
  <2> SUFFICES ASSUME IInv, [Next]_vars PROVE Ledger!LedgerNext \/ items' = items
    OBVIOUS
  <2> USE TaskAssumption DEF ServiceTask, Ledger!LedgerNext
  <2>1. \A t \in ServiceTask : task[t].pc # "idle" => task[t].item \in Item
    BY DEF IInv, TasksAreSound
  <2>2. ASSUME NEW t \in ServiceTask, NEW pc, task[t].pc # "idle",
               items[task[t].item].state = "pending", RetryLater(t, pc)
        PROVE  Ledger!LedgerNext
    BY <2>1, <2>2 DEF RetryLater, BumpAttempts, Ledger!Fail
  <2>3. ASSUME NEW t \in ServiceTask, NEW reason \in {"item_deleted", "exhausted_retries"},
               task[t].pc # "idle",
               items[task[t].item].state = "pending", RecordError(task[t].item, reason),
               reason = "exhausted_retries" => items[task[t].item].attempts > MaxRetries
        PROVE  Ledger!LedgerNext
    BY <2>1, <2>3 DEF RecordError, Ledger!GiveUp
  <2>4. \A t \in ServiceTask : task[t].pc \in {"classify", "apply", "exhaust", "giveup"} =>
            items[task[t].item].state = "pending"
    BY <2>1 DEF IInv, ClaimIsFresh, RetriedIsPending, TasksAreSound, Retrying, Holds
  <2>5. task["drain"].pc # "idle" => items[task["drain"].item].state = "pending"
    BY <2>1 DEF IInv, RetriedIsPending, Retrying, Holds
  <2>6. CASE ConsumeMarked
    <3>1. items[task["consume"].item] = Ledger!Unseen /\ task["consume"].item \in Item
      BY <2>1, <2>6 DEF ConsumeMarked, Resumes, IInv, ClaimIsFresh, RowsAreTagged, NoRow,
             Ledger!Unseen, Ledger!NoTag
    <3>2. QED
      BY <2>6, <3>1 DEF ConsumeMarked, RecordPending, Ledger!Claim
  <2>7. CASE ConsumeTake \/ ConsumeDrop \/ ConsumeSkip \/ ConsumeMark
    BY <2>7 DEF ConsumeTake, ConsumeDrop, ConsumeSkip, ConsumeMark, stateVars
  <2>8. CASE DrainPostpone
    BY <2>2, <2>5, <2>8 DEF DrainPostpone, Resumes
  <2>9. CASE DrainDeleted
    BY <2>3, <2>5, <2>9 DEF DrainDeleted, Resumes
  <2>10. CASE DrainGaveUp
    <3>1. items[task["drain"].item].attempts > MaxRetries
      BY <2>10 DEF DrainGaveUp, Resumes, IInv, TasksAreSound
    <3>2. QED
      BY <2>3, <2>5, <2>10, <3>1 DEF DrainGaveUp, Resumes
  <2>11. CASE DrainPop \/ DrainNext \/ DrainClassify
    BY <2>11 DEF DrainPop, DrainNext, DrainClassify, stateVars
  <2>12. ASSUME NEW t \in ServiceTask, ClassifyAndApply(t)
         PROVE  Ledger!LedgerNext \/ items' = items
    <3>1. CASE Classify(t)
      BY <3>1 DEF Classify, stateVars
    <3>2. CASE ClassifierFails(t)
      BY <2>2, <2>4, <3>2 DEF ClassifierFails
    <3>3. CASE Applied(t)
      <4>1. task[t].pc = "apply" /\ task[t].tag \in Verdicts
        BY <3>3 DEF Applied, Resumes, IInv, TasksAreSound
      <4>2. task[t].item \in Item /\ items[task[t].item].state = "pending"
        BY <2>1, <2>4, <4>1
      <4>3. Ledger!Settle(task[t].item)
        BY <3>3, <4>1, <4>2 DEF Applied, RecordClassified, Ledger!Settle,
           Ledger!Verdicts, Verdicts,
                                Ledger!LARES_UNCLASSIFIED
      <4>4. QED
        BY <4>2, <4>3
    <3>4. CASE Exhausted(t)
      <4>1. task[t].pc = "exhaust" /\ items[task[t].item].attempts > MaxRetries
        BY <3>4 DEF Exhausted, Resumes, IInv, TasksAreSound
      <4>2. QED
        BY <2>3, <2>4, <3>4, <4>1 DEF Exhausted
    <3>5. QED
      BY <2>12, <3>1, <3>2, <3>3, <3>4 DEF ClassifyAndApply
  <2>13. ASSUME NEW t \in ServiceTask, Raise(t) \/ Serve(t) \/ Unserved(t) \/ ServeFails(t)
         PROVE  items' = items
    BY <2>13 DEF Raise, Down, Serve, ServeFetch, ServeSetTags, Unserved, ServeFails,
                 FetchJobFails, AnswerTooLong, CallFails, stateVars
  <2>14. CASE MutateExits \/ NotifyExits \/ Crash \/ Restart \/ UNCHANGED vars
    BY <2>14 DEF MutateExits, NotifyExits, Crash, Restart, Down, stateVars, vars
  <2>15. ASSUME NEW i \in Item, NewMail(i) \/ Duplicate(i) \/ Delete(i) \/ RetryDue(i)
         PROVE  items' = items
    BY <2>15 DEF NewMail, Duplicate, Delete, RetryDue, BecomeDue, stateVars
  <2>16. ASSUME NEW t \in ServiceTask, CrashBumped(t) PROVE Ledger!LedgerNext
    <3>1. task[t].item \in Item /\ items[task[t].item].state = "pending"
      BY <2>1, <2>4, <2>5, <2>16 DEF CrashBumped, Resumes
    <3>2. QED
      BY <2>16, <3>1 DEF CrashBumped, BumpedOnly, BumpAttempts, Ledger!Fail
  <2>17. QED
    BY <2>6, <2>7, <2>8, <2>9, <2>10, <2>11, <2>12, <2>13, <2>14, <2>15, <2>16
       DEF Next, Consume, Drain, Common
<1>3. QED
  BY <1>1, <1>2, Invariance, PTL DEF Spec, KeepsLedger, Ledger!LedgerSpec

(* backoff_delay never falls as the attempts grow.                         *)
LEMMA BackoffIsMonotone ==
    ASSUME NEW m \in Nat, NEW n \in Nat, m <= n
    PROVE  backoff_delay(m) \in Nat /\ backoff_delay(m) <= backoff_delay(n)
<1>1. \A k \in Nat : backoff_delay(k) = IF k = 0 THEN 10 ELSE IF k = 1 THEN 30
                                        ELSE IF k = 2 THEN 60 ELSE 300
  BY DEF backoff_delay, BackoffSchedule
<1>2. QED
  BY <1>1

(* What a step may do to the queue entry of mail i: there is none after    *)
(* it; the delay stays and the attempts do not fall; or a new delay for    *)
(* one more attempt.                                                       *)
QueueStep(i) ==
    \/ ~Queued(i)'
    \/ /\ Queued(i)
       /\ retry_queue'[i].delay = retry_queue[i].delay
       /\ items'[i].attempts >= items[i].attempts
    \/ /\ items'[i].attempts = items[i].attempts + 1
       /\ retry_queue'[i].delay = backoff_delay(items'[i].attempts)

(* The steps of the tasks in T, the service's and maybe others, treat the  *)
(* queue entry of a mail in one of these ways, and so does the clock.      *)
LEMMA TaskQueueSteps ==
    ASSUME StateTypeOK, NEW T \in SUBSET Task, ServiceTask \subseteq T,
           \A t \in T : /\ task[t].pc # "idle" => task[t].item \in Item
                        /\ task[t].pc = "apply" => task[t].tag \in Verdicts,
           NEW i \in Item,
           \/ Consume \/ Drain
           \/ \E t \in T : ClassifyAndApply(t)
           \/ \E j \in Item : RetryDue(j)
    PROVE  QueueStep(i)
<1> USE DEF QueueStep
<1>1. items[i].attempts \in Nat
  BY DEF StateTypeOK, ItemRow
<1>2. ASSUME UNCHANGED stateVars PROVE QueueStep(i)
  BY <1>1, <1>2 DEF stateVars, Queued
<1>3. \A t \in ServiceTask : t \in T
  OBVIOUS
<1>4. ASSUME NEW t \in T, NEW pc, task[t].pc # "idle", RetryLater(t, pc)
      PROVE  QueueStep(i)
  <2>1. PICK j \in Item : j = task[t].item
    BY <1>4
  <2>2. BumpAttempts(j)
    BY <1>4, <2>1 DEF RetryLater
  <2>3. /\ items'[i].attempts >= items[i].attempts
        /\ i = j => items'[i].attempts = items[i].attempts + 1
    BY <1>1, <2>2, BumpEffect
  <2>4. CASE UNCHANGED retry_queue
    BY <1>1, <2>3, <2>4 DEF Queued
  <2>5. CASE EnqueueRetry(j, items[j].attempts + 1)
    BY <1>1, <2>3, <2>5 DEF EnqueueRetry, Queued, StateTypeOK
  <2>6. QED
    BY <1>4, <2>1, <2>4, <2>5 DEF RetryLater
<1>5. ASSUME NEW j \in Item, NEW v \in Verdicts, RecordClassified(j, v) PROVE QueueStep(i)
  BY <1>1, <1>5, RecordClassifiedEffect DEF Queued
<1>6. ASSUME NEW j \in Item, NEW reason \in Reason, RecordError(j, reason) PROVE QueueStep(i)
  BY <1>1, <1>6, RecordErrorEffect DEF Queued
<1>7. ASSUME NEW j \in Item, RecordPending(j) PROVE QueueStep(i)
  BY <1>1, <1>7, RecordPendingEffect DEF Queued, RecordPending, StateTypeOK
<1>8. CASE Consume
  <2>1. CASE ConsumeMarked
    BY <1>3, <1>7, <2>1 DEF ConsumeMarked, Resumes, ServiceTask
  <2>2. QED
    BY <1>2, <1>8, <2>1 DEF Consume, ConsumeTake, ConsumeDrop, ConsumeSkip, ConsumeMark
<1>9. CASE Drain
  <2>1. CASE DrainPostpone
    BY <1>3, <1>4, <2>1 DEF DrainPostpone, Resumes, ServiceTask
  <2>2. CASE DrainDeleted \/ DrainGaveUp
    BY <1>3, <1>6, <2>2 DEF DrainDeleted, DrainGaveUp, Resumes, ServiceTask, Reason
  <2>3. QED
    BY <1>2, <1>9, <2>1, <2>2 DEF Drain, DrainPop, DrainNext, DrainClassify
<1>10. ASSUME NEW t \in T, ClassifyAndApply(t) PROVE QueueStep(i)
  <2>1. CASE Applied(t)
    BY <1>5, <2>1 DEF Applied, Resumes
  <2>2. CASE Exhausted(t)
    BY <1>6, <2>2 DEF Exhausted, Resumes, Reason
  <2>3. CASE ClassifierFails(t)
    BY <1>4, <2>3 DEF ClassifierFails
  <2>4. QED
    BY <1>2, <1>10, <2>1, <2>2, <2>3 DEF ClassifyAndApply, Classify
<1>11. ASSUME NEW j \in Item, RetryDue(j) PROVE QueueStep(i)
  BY <1>1, <1>11 DEF RetryDue, BecomeDue, Queued, StateTypeOK, QueueRow
<1>12. QED
  BY <1>8, <1>9, <1>10, <1>11

(* So does the end of a process that leaves rows as above.                 *)
LEMMA EndQueueStep ==
    ASSUME StateTypeOK, NEW i \in Item, RowSurvives(i), UNCHANGED retry_queue
    PROVE  QueueStep(i)
<1>1. items[i].attempts \in Nat /\ items'[i].attempts >= items[i].attempts
  BY DEF StateTypeOK, ItemRow, RowSurvives
<1>2. QED
  BY <1>1 DEF QueueStep, Queued

(* Every step of the service treats the queue entry of a mail in one of    *)
(* these ways.                                                             *)
LEMMA QueueSteps ==
    ASSUME IInv, [Next]_vars, NEW i \in Item
    PROVE  QueueStep(i)
<1>1. StateTypeOK /\ items[i].attempts \in Nat
  BY DEF IInv, TypeOK, StateTypeOK, ItemRow
<1>2. CASE UNCHANGED stateVars
  BY <1>1, <1>2 DEF stateVars, Queued, QueueStep
<1>3. CASE \/ Consume \/ Drain
           \/ \E t \in ServiceTask : ClassifyAndApply(t)
           \/ \E j \in Item : RetryDue(j)
  <2>1. \A t \in ServiceTask : /\ task[t].pc # "idle" => task[t].item \in Item
                               /\ task[t].pc = "apply" => task[t].tag \in Verdicts
    BY DEF IInv, TasksAreSound
  <2>2. QED
    BY <1>1, <1>3, <2>1, TaskAssumption, TaskQueueSteps
<1>4. ASSUME NEW t \in ServiceTask, Raise(t) \/ Serve(t) \/ Unserved(t) \/ ServeFails(t)
      PROVE  UNCHANGED stateVars
  BY <1>4 DEF Raise, Down, Serve, ServeFetch, ServeSetTags, Unserved, ServeFails,
              FetchJobFails, AnswerTooLong, CallFails
<1>5. CASE MutateExits \/ NotifyExits \/ Crash \/ Restart \/ UNCHANGED vars
  BY <1>2, <1>5 DEF MutateExits, NotifyExits, Crash, Restart, Down, vars
<1>6. ASSUME NEW j \in Item, NewMail(j) \/ Duplicate(j) \/ Delete(j)
      PROVE  UNCHANGED stateVars
  BY <1>6 DEF NewMail, Duplicate, Delete
<1>7. ASSUME NEW t \in ServiceTask, CrashBumped(t) PROVE QueueStep(i)
  <2>1. task[t].item \in Item
    BY <1>7 DEF IInv, TasksAreSound, CrashBumped, Resumes
  <2>2. QED
    BY <1>1, <1>7, <2>1, BumpedOnlyEffect, EndQueueStep DEF CrashBumped
<1>8. QED
  BY <1>2, <1>3, <1>4, <1>5, <1>6, <1>7 DEF Next, Common

(* A step of these kinds keeps the delay within what the attempts account  *)
(* for, and never shortens it.                                             *)
LEMMA DelayIsKept ==
    ASSUME NEW i \in Item, StateTypeOK, StateTypeOK', QueueStep(i), Queued(i)',
           Queued(i) => retry_queue[i].delay <= backoff_delay(items[i].attempts)
    PROVE  /\ retry_queue'[i].delay <= backoff_delay(items'[i].attempts)
           /\ Queued(i) => retry_queue'[i].delay >= retry_queue[i].delay
<1>1. items[i].attempts \in Nat /\ items'[i].attempts \in Nat
  BY DEF StateTypeOK, ItemRow
<1>2. \A k \in 1..4 : BackoffSchedule[k] \in Nat
  BY DEF BackoffSchedule
<1>3. retry_queue[i].delay \in Nat
  BY <1>2 DEF StateTypeOK, QueueRow
<1>4. backoff_delay(items[i].attempts) <= backoff_delay(items'[i].attempts)
         \/ ~(items'[i].attempts >= items[i].attempts)
  BY <1>1, BackoffIsMonotone
<1>5. /\ backoff_delay(items[i].attempts) \in Nat
      /\ backoff_delay(items'[i].attempts) \in Nat
  BY <1>1, BackoffIsMonotone
<1>6. QED
  BY <1>1, <1>3, <1>4, <1>5 DEF QueueStep

(* A mail that stays in the queue never gets a shorter delay than the one  *)
(* it had: attempts only grow, and its delay is the one they account for.  *)
THEOREM BackoffIsKept == Spec => BackoffGrows
<1>1. Init => DelayFitsAttempts
  BY DEF Init, StateInit, NotQueued, Queued, DelayFitsAttempts
<1>2. IInv /\ DelayFitsAttempts /\ [Next]_vars
        => DelayFitsAttempts' /\ \A i \in Item : Queued(i) /\ Queued(i)' =>
                                       retry_queue'[i].delay >= retry_queue[i].delay
  <2> SUFFICES ASSUME IInv, DelayFitsAttempts, [Next]_vars, NEW i \in Item, Queued(i)'
               PROVE  /\ retry_queue'[i].delay <= backoff_delay(items'[i].attempts)
                      /\ Queued(i) => retry_queue'[i].delay >= retry_queue[i].delay
    BY DEF DelayFitsAttempts
  <2>1. QueueStep(i) /\ StateTypeOK /\ StateTypeOK'
    BY QueueSteps, NextKeeps DEF IInv, TypeOK
  <2>2. QED
    BY <2>1, DelayIsKept DEF DelayFitsAttempts
<1>3. IInv /\ DelayFitsAttempts /\ UNCHANGED vars => DelayFitsAttempts'
  BY DEF DelayFitsAttempts, vars, stateVars, Queued
<1>4. QED
  BY <1>1, <1>2, <1>3, Invariance, PTL DEF Spec, BackoffGrows
=============================================================================
