---------------------------- MODULE KMailService ----------------------------
(***************************************************************************)
(* The running triage service (kmail/service.py): the consume task, which  *)
(* handles the item_added events of the notify helper one after the other, *)
(* and the drain task, which retries the due rows of the retry queue.      *)
(* Both use one mutate helper and one store, on one event loop.            *)
(*                                                                         *)
(* An exception that leaves a task cancels the other task (TaskGroup) and  *)
(* ends the process, and systemd starts it again.  Only the store and      *)
(* Akonadi survive.  What the environment does wrong is counted in faults  *)
(* and bounded by MaxFaults.                                               *)
(***************************************************************************)
EXTENDS KMailTask, Sequences

CONSTANTS
    BatchLimit,      \* the limit _drain_loop passes to pop_due
    MaxFaults,       \* bound on the faults of the environment
    MaxEvents,       \* bound on the events unread in the notify pipe
    Deletable        \* the items a user may delete

ServiceTask == {"consume", "drain"}

ASSUME TaskAssumption       == ServiceTask \subseteq Task
ASSUME BatchLimitAssumption == BatchLimit \in Nat \ {0}

VARIABLES
    up,              \* the service process runs
    notify,          \* the notify helper: "running" or "exited"
    mutate,          \* the mutate helper: "running" or "exited"
    events,          \* item_added events the consume task has not read
    batch,           \* what is left of the list pop_due returned
    faults           \* faults so far

procVars == <<up, notify, mutate>>
loopVars == <<events, batch>>
vars     == <<stateVars, taskVars, procVars, loopVars, faults>>
-----------------------------------------------------------------------------
Init == /\ StateInit
        /\ TaskInit
        /\ up = TRUE /\ notify = "running" /\ mutate = "running"
        /\ events = <<>>
        /\ batch = {}
        /\ faults = 0

Fault == faults < MaxFaults /\ faults' = faults + 1
-----------------------------------------------------------------------------
(* consume_one_event                                                       *)

ConsumeTake ==
    /\ up
    /\ task["consume"].pc = "idle"
    /\ events # <<>>
    /\ Call("consume", "fetch", Head(events), NoTag)
    /\ events' = Tail(events)
    /\ UNCHANGED <<mail, tag, stateVars, procVars, batch, faults>>

(* fetch raised MutateError: the event is dropped.                         *)
ConsumeDrop ==
    /\ Resumes("consume", "fetch", "not_found") \/ Resumes("consume", "fetch", "failed")
    /\ Finish("consume")
    /\ UNCHANGED <<mail, tag, stateVars, procVars, loopVars, faults>>

(* The fetched item carries a lares-* tag: it is somebody's already.       *)
ConsumeSkip ==
    /\ Resumes("consume", "fetch", "ok")
    /\ is_lares_tag(task["consume"].tag)
    /\ Finish("consume")
    /\ UNCHANGED <<mail, tag, stateVars, procVars, loopVars, faults>>

(* A mutant: no skip check.                                                *)
ConsumeMarkAny ==
    /\ Resumes("consume", "fetch", "ok")
    /\ Call("consume", "mark", task["consume"].item, LARES_PENDING)
    /\ UNCHANGED <<mail, tag, stateVars, procVars, loopVars, faults>>

ConsumeMark ==
    /\ Resumes("consume", "fetch", "ok")
    /\ ~is_lares_tag(task["consume"].tag)
    /\ Call("consume", "mark", task["consume"].item, LARES_PENDING)
    /\ UNCHANGED <<mail, tag, stateVars, procVars, loopVars, faults>>

(* A mutant: no record_pending.                                            *)
ConsumeMarkedUnrecorded ==
    /\ Resumes("consume", "mark", "ok")
    /\ Ask("consume")
    /\ UNCHANGED <<mail, tag, stateVars, procVars, loopVars, faults>>

ConsumeMarked ==
    /\ Resumes("consume", "mark", "ok")
    /\ RecordPending(task["consume"].item)
    /\ Ask("consume")
    /\ UNCHANGED <<mail, tag, procVars, loopVars, faults>>
-----------------------------------------------------------------------------
(* _drain_loop and drain_one_due                                           *)

(* The tick: the batch may be empty.                                       *)
DrainPop ==
    /\ up
    /\ task["drain"].pc = "idle" /\ batch = {}
    /\ \E rows \in SUBSET Due : PopDue(BatchLimit, rows) /\ batch' = rows
    /\ UNCHANGED <<stateVars, taskVars, procVars, events, faults>>

DrainNext ==
    /\ up
    /\ task["drain"].pc = "idle"
    /\ \E i \in batch : /\ Call("drain", "fetch", i, NoTag)
                        /\ batch' = batch \ {i}
    /\ UNCHANGED <<mail, tag, stateVars, procVars, events, faults>>

(* The item goes to the classifier whatever tag it carries.                *)
DrainClassify ==
    /\ Resumes("drain", "fetch", "ok")
    /\ Ask("drain")
    /\ UNCHANGED <<mail, tag, stateVars, procVars, loopVars, faults>>

DrainDeleted ==
    /\ Resumes("drain", "fetch", "not_found")
    /\ RecordError(task["drain"].item, "item_deleted")
    /\ Finish("drain")
    /\ UNCHANGED <<mail, tag, procVars, loopVars, faults>>

DrainPostpone ==
    /\ Resumes("drain", "fetch", "failed")
    /\ RetryLater("drain", "giveup")
    /\ UNCHANGED <<procVars, loopVars, faults>>

(* A MutateError of this set_tags is only logged.                          *)
DrainGaveUp ==
    /\ \E r \in {"ok", "not_found", "failed"} : Resumes("drain", "giveup", r)
    /\ RecordError(task["drain"].item, "exhausted_retries")
    /\ Finish("drain")
    /\ UNCHANGED <<mail, tag, procVars, loopVars, faults>>
-----------------------------------------------------------------------------
(* _classify_and_apply, run by either task                                 *)

ClassifyAndApply(t) ==
    /\ Classify(t) \/ ClassifierFails(t) \/ Applied(t) \/ Exhausted(t)
    /\ UNCHANGED <<procVars, loopVars, faults>>

(* The process is gone, with both helpers and what their pipes held.       *)
Ended ==
    /\ up' = FALSE /\ notify' = "exited" /\ mutate' = "exited"
    /\ events' = <<>>
    /\ batch' = {}
    /\ task' = [t \in Task |-> IF t \in ServiceTask THEN Idle ELSE task[t]]
    /\ UNCHANGED <<mail, tag>>

Down == Ended /\ UNCHANGED stateVars

(* Nothing catches a MutateError of these set_tags, nor any other          *)
(* exception anywhere.                                                     *)
Raise(t) ==
    /\ \/ /\ task[t].pc \in {"mark", "apply", "exhaust"}
          /\ task[t].reply \in {"not_found", "failed"}
       \/ task[t].reply = "broken"
    /\ Down
    /\ UNCHANGED faults
-----------------------------------------------------------------------------
(* The helpers, systemd, and the environment                               *)

Serve(t) ==
    /\ mutate = "running"
    /\ ServeFetch(t) \/ ServeSetTags(t)
    /\ UNCHANGED <<procVars, loopVars, faults>>

ServeFails(t) ==
    /\ mutate = "running"
    /\ Fault
    /\ FetchJobFails(t) \/ AnswerTooLong(t) \/ CallFails(t)
    /\ UNCHANGED <<procVars, loopVars>>

MutateExits ==
    /\ mutate = "running"
    /\ Fault
    /\ mutate' = "exited"
    /\ UNCHANGED <<stateVars, taskVars, up, notify, loopVars>>

(* Without its helper a call meets end of file, or a closed stdin.         *)
Unserved(t) ==
    /\ mutate = "exited"
    /\ Waits(t)
    /\ \E r \in {"failed", "broken"} : Answer(t, r)
    /\ UNCHANGED <<mail, tag, stateVars, procVars, loopVars, faults>>

(* _consume_loop returns once the pipe is read, and the service goes on.   *)
NotifyExits ==
    /\ notify = "running"
    /\ Fault
    /\ notify' = "exited"
    /\ UNCHANGED <<stateVars, taskVars, up, mutate, loopVars>>

Crash ==
    /\ up
    /\ Fault
    /\ Down

(* It is killed between bump_attempts and enqueue_retry.                   *)
CrashBumped(t) ==
    /\ task[t].pc = "classify" \/ (t = "drain" /\ Resumes(t, "fetch", "failed"))
    /\ Fault
    /\ BumpedOnly(task[t].item)
    /\ Ended

Restart ==
    /\ ~up
    /\ up' = TRUE /\ notify' = "running" /\ mutate' = "running"
    /\ UNCHANGED <<stateVars, taskVars, loopVars, faults>>

(* The notify helper, while it runs, reports an item.                      *)
Report(i) == events' = IF notify = "running" THEN Append(events, i) ELSE events

NewMail(i) ==
    /\ mail[i] = "absent"
    /\ Len(events) < MaxEvents
    /\ mail' = [mail EXCEPT ![i] = "present"]
    /\ Report(i)
    /\ UNCHANGED <<tag, task, stateVars, procVars, batch, faults>>

(* Another item_added for an item that is there: an Akonadi restart.       *)
Duplicate(i) ==
    /\ mail[i] = "present"
    /\ notify = "running"
    /\ Len(events) < MaxEvents
    /\ Report(i)
    /\ UNCHANGED <<stateVars, taskVars, procVars, batch, faults>>

Delete(i) ==
    /\ i \in Deletable
    /\ mail[i] = "present"
    /\ mail' = [mail EXCEPT ![i] = "deleted"]
    /\ tag' = [tag EXCEPT ![i] = NoTag]
    /\ UNCHANGED <<task, stateVars, procVars, loopVars, faults>>

RetryDue(i) ==
    /\ BecomeDue(i)
    /\ UNCHANGED <<taskVars, procVars, loopVars, faults>>
-----------------------------------------------------------------------------
Consume == ConsumeTake \/ ConsumeDrop \/ ConsumeSkip \/ ConsumeMark \/ ConsumeMarked

Drain == DrainPop \/ DrainNext \/ DrainClassify \/ DrainDeleted \/ DrainPostpone
            \/ DrainGaveUp

Common(t) == ClassifyAndApply(t) \/ Raise(t) \/ Serve(t) \/ Unserved(t)

Next == \/ Consume
        \/ Drain
        \/ \E t \in ServiceTask : Common(t) \/ ServeFails(t) \/ CrashBumped(t)
        \/ MutateExits \/ NotifyExits \/ Crash \/ Restart
        \/ \E i \in Item : NewMail(i) \/ Duplicate(i) \/ Delete(i) \/ RetryDue(i)

Spec == Init /\ [][Next]_vars

(* The event loop runs every task that can run, the helper answers while   *)
(* it lives, httpx times out, the clock advances, and systemd restarts the *)
(* service.  No fault and no mail is ever due to happen.                   *)
Fairness ==
    /\ WF_vars(Consume \/ Common("consume"))
    /\ WF_vars(Drain \/ Common("drain"))
    /\ WF_vars(Restart)
    /\ \A i \in Item : WF_vars(RetryDue(i))

FairSpec == Spec /\ Fairness
=============================================================================
