-------------------------- MODULE KMailProperties ---------------------------
(***************************************************************************)
(* What makes the triage service correct, and the inductive invariant its  *)
(* safety rests on.                                                        *)
(***************************************************************************)
EXTENDS KMailService

(* Every variable has its type.                                            *)
TypeOK ==
    /\ StateTypeOK
    /\ TaskTypeOK
    /\ up \in BOOLEAN
    /\ notify \in {"running", "exited"}
    /\ mutate \in {"running", "exited"}
    /\ events \in Seq(Item)
    /\ batch \subseteq Item
    /\ faults \in Nat
-----------------------------------------------------------------------------
(* The consume task has passed its skip check for item i.                  *)
Claimed(i) == Holds("consume", i) /\ task["consume"].pc # "fetch"

(* The drain task is to retry item i, or is at it.                         *)
Retrying(i) == i \in batch \/ Holds("drain", i)

Tagged(i) == is_lares_tag(tag[i]) \/ mail[i] = "deleted"

(* No mail is ever handled by both tasks.  The code has no lock for it:    *)
(* the consume task keeps off what carries a lares-* tag, by a fetch whose *)
(* answer is old when it acts on it (service.py:87), and the drain task    *)
(* works from a list of rows that stay in the table (state.py:208).        *)
NoDoubleProcessing == \A i \in Item : ~(Claimed(i) /\ Retrying(i))

(* A queued mail is one that is not settled and that the skip check        *)
(* protects from a second claim, whatever crash came in between.           *)
QueueAgrees ==
    \A i \in Item : Queued(i) => items[i].state = "pending" /\ Tagged(i)

(* bump_attempts never meets an unknown id (its KeyError would end the     *)
(* service): whatever may still fail has a row.                            *)
AttemptsAreCounted ==
    \A i \in Item :
        Retrying(i) \/ (Claimed(i) /\ task["consume"].pc # "mark") => Known(i)

(* What the store calls classified is what Akonadi shows, although tag and *)
(* row are written one after the other by a process that may crash.        *)
VerdictAgrees ==
    \A i \in Item :
        items[i].state = "classified" /\ mail[i] # "deleted" => tag[i] = items[i].verdict

Deleted == {i \in Item : mail[i] = "deleted"}

(* Nothing has gone wrong but, maybe, the classifier.                      *)
Calm == faults = 0 /\ Deleted = {}

(* While all is calm, an Ollama that fails as often as it likes loses      *)
(* nothing: a mail tagged pending is queued or in hand (or "pending" is    *)
(* the verdict it got: a category may have that name).                     *)
OutageIsHarmless ==
    Calm => \A i \in Item : tag[i] = LARES_PENDING =>
                Queued(i) \/ Claimed(i) \/ items[i].verdict = LARES_PENDING

(* The attempts of a mail are bounded: beyond the MaxRetries + 1 after     *)
(* which it is given up, each one takes something that ended the service   *)
(* just before it could record that, a fault or the deletion of a mail the *)
(* other task had in hand.                                                 *)
AttemptsBounded ==
    \A i \in Item :
        items[i].attempts <= MaxRetries + 1 + faults + Cardinality(Deleted)

(* A retry is never rescheduled sooner than the one before it was.         *)
BackoffGrows ==
    [][\A i \in Item : Queued(i) /\ Queued(i)' =>
            retry_queue'[i].delay >= retry_queue[i].delay]_vars

(* The items table keeps the ledger of every mail.                         *)
Ledger == INSTANCE TriageLedger
KeepsLedger == Ledger!LedgerSpec

(* Every queued mail leaves the queue: the service retries it until it is  *)
(* settled, through crashes and restarts.                                  *)
RetriesEnd == \A i \in Item : Queued(i) ~> ~Queued(i)

(* Every mail that is reported is settled, however often Ollama fails,     *)
(* unless something else went wrong or a mail was deleted: an event waits  *)
(* for those before it, and for the retry of others, but not for ever.     *)
ReportedIsSettled ==
    \A i \in Item :
        (\E n \in DOMAIN events : events[n] = i)
            ~> \/ items[i].state \in {"classified", "error"}
               \/ ~Calm
-----------------------------------------------------------------------------
(* The inductive invariant.                                                *)

(* A busy task has an item, awaits what its code can await, and asks the   *)
(* helper for the tag that belongs to the call.                            *)
TasksAreSound ==
    /\ task["consume"].pc # "giveup" /\ task["drain"].pc # "mark"
    /\ \A t \in ServiceTask :
          /\ task[t].pc # "idle" => task[t].item \in Item
          /\ task[t].pc = "mark" => task[t].tag = LARES_PENDING
          /\ task[t].pc = "apply" => task[t].tag \in Verdicts
          /\ task[t].pc \in {"exhaust", "giveup"} =>
                /\ task[t].tag = LARES_ERROR
                /\ items[task[t].item].attempts > MaxRetries

(* A row is written after the tag, so a tag tells that a row may exist.    *)
RowsAreTagged ==
    \A i \in Item : IF Known(i) THEN Tagged(i) ELSE items[i] = NoRow

(* Only pending mail is queued, only queued mail is retried, and the drain *)
(* task has what it works on off its list.                                 *)
RetriedIsPending ==
    \A i \in Item : /\ Queued(i) => items[i].state = "pending"
                    /\ Retrying(i) => Queued(i)
                    /\ Holds("drain", i) => i \notin batch

(* What the consume task is about to claim is new to the store and, from   *)
(* its row on, pending and not in the queue.                               *)
ClaimIsFresh ==
    LET c == task["consume"] IN
    /\ Resumes("consume", "fetch", "ok") /\ ~is_lares_tag(c.tag) => ~Known(c.item)
    /\ c.pc = "mark" => ~Known(c.item)
    /\ Resumes("consume", "mark", "ok") => Tagged(c.item)
    /\ c.pc \in {"classify", "apply", "exhaust"} =>
          items[c.item].state = "pending" /\ ~Queued(c.item)

(* The tag a task was told it has written is the one the item carries.     *)
AppliedIsShown ==
    \A t \in ServiceTask :
        Resumes(t, "apply", "ok") =>
            tag[task[t].item] = task[t].tag \/ mail[task[t].item] = "deleted"

(* The delay a mail waits out is no longer than its attempts account for.  *)
DelayFitsAttempts ==
    \A i \in Item : Queued(i) => retry_queue[i].delay <= backoff_delay(items[i].attempts)

IInv == TypeOK /\ TasksAreSound /\ RowsAreTagged /\ RetriedIsPending
            /\ ClaimIsFresh /\ AppliedIsShown /\ VerdictAgrees
-----------------------------------------------------------------------------
(* What faults and deletions can do, by an invariant beyond IInv.          *)

(* What is reported, queued or in hand has come, and nothing is in hand    *)
(* while the service is down.                                              *)
MailHasCome ==
    /\ \A i \in Item : \/ Queued(i)
                       \/ \E t \in ServiceTask : Holds(t, i)
                       \/ \E n \in DOMAIN events : events[n] = i
                       => mail[i] # "absent"
    /\ ~up => \A t \in ServiceTask : task[t].pc = "idle"

(* While all is calm every call succeeds, and nothing is lost.             *)
CalmIsKept ==
    Calm => /\ up /\ mutate = "running"
            /\ \A t \in ServiceTask :
                  /\ task[t].reply \in {"none", "wait", "ok"}
                  /\ Resumes(t, "exhaust", "ok") \/ Resumes(t, "giveup", "ok") =>
                         tag[task[t].item] = LARES_ERROR
            /\ OutageIsHarmless

(* An exception of a call of task t ends the service, at the latest when   *)
(* the call after it meets a mail that is gone.                            *)
Dooms(t) ==
    LET k == task[t] IN
    \/ k.reply = "broken"
    \/ k.pc \in {"mark", "apply", "exhaust"} /\ k.reply \in {"failed", "not_found"}
    \/ /\ k.pc \in {"mark", "classify", "apply", "exhaust"} \/ Resumes(t, "fetch", "ok")
       /\ k.item \in Deleted

Doomed == (up /\ mutate = "exited") \/ \E t \in ServiceTask : Dooms(t)

(* The attempt that was one too many for mail i is recorded, or about to   *)
(* be.                                                                     *)
GivenUp(i) == \/ items[i].state # "pending"
              \/ \E t \in ServiceTask : Holds(t, i) /\ task[t].pc \in {"exhaust", "giveup"}

(* The ends of the service there have been, at the most: each disaster     *)
(* brings one, and the one it is about to bring is not counted yet.        *)
Ends == faults + Cardinality(Deleted) - (IF Doomed THEN 1 ELSE 0)

EndsAreCounted ==
    /\ Ends >= 0
    /\ \A i \in Item :
          items[i].attempts <= MaxRetries + (IF GivenUp(i) THEN 1 ELSE 0) + Ends

FInv == IInv /\ MailHasCome /\ CalmIsKept /\ IsFiniteSet(Deleted) /\ EndsAreCounted
=============================================================================
