----------------------------- MODULE KMailTask ------------------------------
(***************************************************************************)
(* One asyncio task handling one mail, as far as it is the same for both   *)
(* tasks of the service: the awaited calls to the mutate helper and to     *)
(* Ollama, and _classify_and_apply (kmail/service.py).                     *)
(*                                                                         *)
(* A coroutine runs without interruption from one await to the next, so a  *)
(* step of a task is the code between two awaits.  An awaited call of the  *)
(* helper is three steps: the task issues it (its pc names the call, its   *)
(* reply becomes "wait"), the helper serves it (it reads or writes         *)
(* Akonadi's tags and the reply arrives), the task resumes on the reply.   *)
(* Anything may happen in between, so what fetch returned may be stale     *)
(* when the task acts on it.                                               *)
(***************************************************************************)
EXTENDS KMailState

CONSTANTS
    Task,            \* the asyncio tasks
    NoItem,          \* the item of an idle task
    MaxRetries       \* [kmail].max_retries

ASSUME NoItemAssumption     == NoItem \notin Item
ASSUME MaxRetriesAssumption == MaxRetries \in Nat

VARIABLES
    mail,            \* what Akonadi holds: is the item there
    tag,             \* the lares-* tag Akonadi holds for the item
    task             \* what each task awaits, for which item, and the reply

taskVars == <<mail, tag, task>>
-----------------------------------------------------------------------------
SetTagsCalls == {"mark", "apply", "exhaust", "giveup"}   \* the set_tags calls
MutateCalls  == SetTagsCalls \cup {"fetch"}

(* A reply is a result ("ok"), the MutateError of code not_found, any      *)
(* other MutateError ("failed"), or an exception that is no MutateError    *)
(* ("broken": the helper's stdin is gone, the answer is too long).         *)
Replies == {"none", "wait", "ok", "not_found", "failed", "broken"}

TaskState == [pc    : MutateCalls \cup {"idle", "classify"},
              item  : Item \cup {NoItem},
              tag   : LaresTags \cup {NoTag},
              reply : Replies]

Idle == [pc |-> "idle", item |-> NoItem, tag |-> NoTag, reply |-> "none"]

TaskTypeOK == /\ mail \in [Item -> {"absent", "present", "deleted"}]
              /\ tag \in [Item -> LaresTags \cup {NoTag}]
              /\ task \in [Task -> TaskState]

TaskInit == /\ mail \in [Item -> {"absent", "present"}]
            /\ tag = [i \in Item |-> NoTag]
            /\ task = [t \in Task |-> Idle]

Holds(t, i) == task[t].pc # "idle" /\ task[t].item = i

(* Task t resumes from a call: it awaited pc and reply r has arrived.      *)
Resumes(t, pc, r) == task[t].pc = pc /\ task[t].reply = r

(* Task t awaits a call of the helper that has not been answered.          *)
Waits(t) == task[t].pc \in MutateCalls /\ task[t].reply = "wait"

Call(t, pc, i, want) ==
    task' = [task EXCEPT ![t] = [pc |-> pc, item |-> i, tag |-> want, reply |-> "wait"]]

Ask(t) ==      \* await classifier.classify(...)
    task' = [task EXCEPT ![t].pc = "classify", ![t].tag = NoTag, ![t].reply = "none"]

Finish(t) == task' = [task EXCEPT ![t] = Idle]

Answer(t, r) == task' = [task EXCEPT ![t].reply = r]
-----------------------------------------------------------------------------
(* The helper answers a fetch with the tag the item has now.               *)
ServeFetch(t) ==
    LET i == task[t].item IN
    /\ Waits(t) /\ task[t].pc = "fetch"
    /\ \/ /\ mail[i] = "present"
          /\ task' = [task EXCEPT ![t].reply = "ok", ![t].tag = tag[i]]
       \/ /\ mail[i] # "present"
          /\ Answer(t, "not_found")
    /\ UNCHANGED <<mail, tag, stateVars>>

(* set_tags replaces the whole lares-* subset of the item's tags.          *)
ServeSetTags(t) ==
    LET i == task[t].item IN
    /\ Waits(t) /\ task[t].pc \in SetTagsCalls
    /\ \/ /\ mail[i] = "present"
          /\ tag' = [tag EXCEPT ![i] = task[t].tag]
          /\ Answer(t, "ok")
       \/ /\ mail[i] # "present"
          /\ Answer(t, "not_found")
          /\ UNCHANGED tag
    /\ UNCHANGED <<mail, stateVars>>

(* A fetch job fails on an item that is there: the helper reports every    *)
(* job error as not_found.                                                 *)
FetchJobFails(t) ==
    /\ Waits(t) /\ task[t].pc = "fetch"
    /\ Answer(t, "not_found")
    /\ UNCHANGED <<mail, tag, stateVars>>

(* The answer to a fetch is longer than StreamReader.readline takes.       *)
AnswerTooLong(t) ==
    /\ Waits(t) /\ task[t].pc = "fetch"
    /\ Answer(t, "broken")
    /\ UNCHANGED <<mail, tag, stateVars>>

(* The call fails: Akonadi is offline, a tag or modify job fails, or the   *)
(* answer is lost.  A set_tags may then have taken effect all the same.    *)
CallFails(t) ==
    LET i == task[t].item IN
    /\ Waits(t)
    /\ Answer(t, "failed")
    /\ \/ UNCHANGED tag
       \/ /\ task[t].pc \in SetTagsCalls /\ mail[i] = "present"
          /\ tag' = [tag EXCEPT ![i] = task[t].tag]
    /\ UNCHANGED <<mail, stateVars>>
-----------------------------------------------------------------------------
(* Mutants of RetryLater: given up after one attempt too many or too few;  *)
(* no enqueue_retry.                                                       *)
RetryLaterUpTo(t, pc, limit) ==
    LET i == task[t].item
        attempts == items[i].attempts + 1 IN
    /\ BumpAttempts(i)
    /\ \/ /\ attempts > limit
          /\ Call(t, pc, i, LARES_ERROR)
          /\ UNCHANGED retry_queue
       \/ /\ attempts <= limit
          /\ EnqueueRetry(i, attempts)
          /\ Finish(t)
    /\ UNCHANGED <<mail, tag>>

RetryOnceMore(t, pc) == RetryLaterUpTo(t, pc, MaxRetries + 1)
RetryOnceLess(t, pc) == RetryLaterUpTo(t, pc, MaxRetries - 1)

RetryForgotten(t, pc) ==
    LET i == task[t].item IN
    /\ BumpAttempts(i)
    /\ IF items[i].attempts + 1 > MaxRetries THEN Call(t, pc, i, LARES_ERROR) ELSE Finish(t)
    /\ UNCHANGED <<mail, tag, retry_queue>>

(* bump_attempts, then the retry queue or, past the limit, set_tags with   *)
(* LARES_ERROR awaited at pc: the failure path that _classify_and_apply    *)
(* and drain_one_due share.                                                *)
RetryLater(t, pc) ==
    LET i == task[t].item
        attempts == items[i].attempts + 1 IN
    /\ BumpAttempts(i)
    /\ \/ /\ attempts > MaxRetries
          /\ Call(t, pc, i, LARES_ERROR)
          /\ UNCHANGED retry_queue
       \/ /\ attempts <= MaxRetries
          /\ EnqueueRetry(i, attempts)
          /\ Finish(t)
    /\ UNCHANGED <<mail, tag>>

(* The two are transactions of their own: all that is left of them when    *)
(* the process is killed in between.                                       *)
BumpedOnly(i) ==
    /\ items[i].attempts < MaxRetries
    /\ BumpAttempts(i)
    /\ UNCHANGED retry_queue

(* Ollama answers with a usable verdict.                                   *)
Classify(t) ==
    /\ task[t].pc = "classify"
    /\ \E v \in Verdicts : Call(t, "apply", task[t].item, v)
    /\ UNCHANGED <<mail, tag, stateVars>>

(* ClassifierError: transport error, timeout, or an unusable answer.       *)
ClassifierFails(t) ==
    /\ task[t].pc = "classify"
    /\ RetryLater(t, "exhaust")

(* A mutant: the outcome of set_tags is not looked at.                     *)
AppliedAnyway(t) ==
    /\ Resumes(t, "apply", "ok") \/ Resumes(t, "apply", "failed")
    /\ RecordClassified(task[t].item, task[t].tag)
    /\ Finish(t)
    /\ UNCHANGED <<mail, tag>>

Applied(t) ==
    /\ Resumes(t, "apply", "ok")
    /\ RecordClassified(task[t].item, task[t].tag)
    /\ Finish(t)
    /\ UNCHANGED <<mail, tag>>

Exhausted(t) ==
    /\ Resumes(t, "exhaust", "ok")
    /\ RecordError(task[t].item, "exhausted_retries")
    /\ Finish(t)
    /\ UNCHANGED <<mail, tag>>
=============================================================================
