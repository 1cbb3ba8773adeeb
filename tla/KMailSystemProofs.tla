------------------------- MODULE KMailSystemProofs --------------------------
(***************************************************************************)
(* Theorems on the service beside the commands, for any number of mails    *)
(* and commands.  The inductive invariant is SystemInv of KMailSystem: a   *)
(* part on everything, and a part on each mail no command disturbed.       *)
(*                                                                         *)
(* Every step but those of the environment is one of one task on one mail  *)
(* (StepOf).  Such a step keeps the first part if the task is as it should *)
(* be after it, and the second part for every other mail (StepKeeps); what *)
(* is left to show of an action is the mail at hand, on which the other    *)
(* tasks have nothing to write (OwnerIsAlone).                             *)
(***************************************************************************)
EXTENDS KMailSystem, KMailServiceProofs

(* The tags are distinct strings.                                          *)
USE DEF NoTag, LARES_PENDING, LARES_ERROR, LARES_UNCLASSIFIED

(* Task t may go on to write for mail i.                                   *)
Owns(t, i) == \/ t = "consume" /\ Committed(i)
              \/ t = "drain" /\ Holds("drain", i)
              \/ t = "retag" /\ Writes(i)

(* What AllTasksAreSound, StoreInUse and RowsAreThere say of task t.       *)
TaskIsSound(t) ==
    LET k == task[t] IN
    /\ k.pc # "idle" => IF t = "retag" THEN ~purged ELSE up
    /\ k.pc = "mark" => \/ t # "drain" /\ k.tag = LARES_PENDING
                        \/ t = "retag" /\ k.tag = NoTag
    /\ k.pc = "apply" => k.tag \in Verdicts
    /\ k.pc \in {"exhaust", "giveup"} => k.tag = LARES_ERROR
    /\ k.pc = "giveup" => t = "drain"
    /\ \/ k.pc \in {"classify", "apply", "exhaust", "giveup"}
       \/ k.pc # "idle" /\ t = "drain"
       \/ k.pc = "fetch" /\ t = "retag"
       => Known(k.item)

(* A step of task t on mail i: no other task and no other mail changes.    *)
StepOf(t, i) ==
    /\ task' \in [Task -> TaskState] /\ \A u \in Task \ {t} : task'[u] = task[u]
    /\ task'[t].pc # "idle" => task'[t].item = i
    /\ StateTypeOK' /\ tag' \in [Item -> LaresTags \cup {NoTag}]
    /\ \A j \in Item \ {i} : /\ items'[j] = items[j] /\ retry_queue'[j] = retry_queue[j]
                             /\ tag'[j] = tag[j]
    /\ UNCHANGED <<mail, up, notify, mutate, purged>>
    /\ batch' \subseteq batch
    /\ events' \in Seq(Item)
    /\ \A n \in DOMAIN events' : \E m \in DOMAIN events : events[m] = events'[n]
    /\ faults' \in Nat /\ commands' \in 0..MaxCommands
    /\ disturbed \subseteq disturbed' /\ disturbed' \subseteq Item
-----------------------------------------------------------------------------
(* The tasks are the three.                                                *)
LEMMA ThreeTasks == Task = {"consume", "drain", "retag"} /\ ServiceTask = {"consume", "drain"}
  BY RetagAssumption DEF ServiceTask

(* The types of the state, as far as the proofs use them, and what the     *)
(* invariant says of one task.                                             *)
LEMMA BaseFacts ==
    ASSUME SystemBase
    PROVE  /\ TypeOK /\ StateTypeOK /\ TaskTypeOK
           /\ commands \in 0..MaxCommands /\ disturbed \subseteq Item
           /\ \A t \in Task : /\ task[t] \in TaskState
                              /\ task[t].pc # "idle" => task[t].item \in Item
                              /\ TaskIsSound(t)
<1>1. \A t \in Task : TaskIsSound(t)
  BY ThreeTasks DEF SystemBase, AllTasksAreSound, StoreInUse, RowsAreThere, RowsForAll,
     TaskIsSound, Holds, Retrying
<1>2. QED
  BY <1>1 DEF SystemBase, SystemTypeOK, TypeOK, TaskTypeOK, AllTasksAreSound

(* A step of task t on mail i keeps the part of the invariant that is      *)
(* about everything, if task t is as it should be after it and the mail    *)
(* keeps its row.                                                          *)
LEMMA StepKeepsBase ==
    ASSUME SystemBase, NEW t \in Task, NEW i \in Item, StepOf(t, i), TaskIsSound(t)',
           Known(i) \/ Queued(i)' => Known(i)',
           mail[i] # "present" => tag'[i] = NoTag
    PROVE  SystemBase'
<1> USE ThreeTasks DEF StepOf, TaskIsSound
<1>1. SystemTypeOK'
  BY DEF SystemBase, SystemTypeOK, TypeOK, TaskTypeOK
<1>2. AllTasksAreSound'
  BY DEF SystemBase, AllTasksAreSound
<1>3. StoreInUse'
  BY DEF SystemBase, StoreInUse
<1>4. RowsAreThere'
  <2>0. \A j \in Item : (Known(j) => Known(j)') /\ (Queued(j)' => Known(j)')
    BY DEF SystemBase, RowsAreThere, Known, Queued
  <2>1. \A j \in Item : Retrying(j)' => Known(j)'
    BY <2>0 DEF SystemBase, RowsAreThere, Retrying, Holds
  <2>2. \A j \in Item : Holds("retag", j)' /\ task'["retag"].pc = "fetch" => Known(j)'
    BY <2>0 DEF SystemBase, RowsAreThere, Holds
  <2>3. RowsForAll'
    BY <2>0 DEF SystemBase, RowsAreThere, RowsForAll, Holds
  <2>4. QED
    BY <2>0, <2>1, <2>2, <2>3 DEF RowsAreThere
<1>5. OnlyMailIsTagged'
  BY DEF SystemBase, OnlyMailIsTagged
<1>6. QED
  BY <1>1, <1>2, <1>3, <1>4, <1>5 DEF SystemBase

(* A step that changes neither state, verdict, queue nor tag of mail i,    *)
(* and has no task take it, keeps the part of the invariant about mail i.  *)
LEMMA ElsewhereKeeps ==
    ASSUME NEW i \in Item, Undisturbed(i),
           items'[i].state = items[i].state, items'[i].verdict = items[i].verdict,
           tag'[i] = tag[i], mail'[i] = mail[i],
           Queued(i)' <=> Queued(i),
           i \in batch' => i \in batch,
           \A t \in Task : Holds(t, i)' => task'[t] = task[t],
           \A n \in DOMAIN events' : events'[n] = i => \E m \in DOMAIN events : events[m] = i
    PROVE  Undisturbed(i)'
<1> USE ThreeTasks
<1>1. QueueIsSafe(i)'
  BY DEF Undisturbed, QueueIsSafe, Retrying, Holds, Tagged
<1>2. ClaimIsSafe(i)'
  BY DEF Undisturbed, ClaimIsSafe, Committed, Holds, Waits, Resumes
<1>3. RetagIsSafe(i)'
  BY DEF Undisturbed, RetagIsSafe, Writes, Committed, Holds, Tagged
<1>4. VerdictIsShown(i)'
  BY DEF Undisturbed, VerdictIsShown, Holds, Resumes
<1>5. QED
  BY <1>1, <1>2, <1>3, <1>4 DEF Undisturbed

(* A step of task t on mail i keeps the invariant, if it does so as far as *)
(* task and mail are concerned.                                            *)
LEMMA StepKeeps ==
    ASSUME SystemInv, NEW t \in Task, NEW i \in Item, StepOf(t, i), TaskIsSound(t)',
           Known(i) \/ Queued(i)' => Known(i)',
           mail[i] # "present" => tag'[i] = NoTag,
           i \notin disturbed' /\ Undisturbed(i) => Undisturbed(i)'
    PROVE  SystemInv'
<1>1. SystemBase'
  BY StepKeepsBase DEF SystemInv
<1>2. ASSUME NEW j \in Item \ disturbed' PROVE Undisturbed(j)'
  <2>1. Undisturbed(j)
    BY <1>2 DEF SystemInv, StepOf
  <2>2. CASE j = i
    BY <1>2, <2>1, <2>2
  <2>3. CASE j # i
    BY <2>1, <2>3, ElsewhereKeeps DEF StepOf, Holds, Queued
  <2>4. QED
    BY <2>2, <2>3
<1>3. QED
  BY <1>1, <1>2 DEF SystemInv

(* The tasks do not get into each other's way: of the tasks that may write *)
(* for a mail there is one, and only the drain task's mail is queued.      *)
LEMMA OwnerIsAlone ==
    ASSUME NEW i \in Item, Undisturbed(i), NEW t \in Task, Owns(t, i)
    PROVE  /\ \A u \in Task \ {t} : ~Owns(u, i)
           /\ IF t = "drain" THEN Queued(i) /\ i \notin batch /\ items[i].state = "pending" /\ Tagged(i)
                             ELSE ~Queued(i) /\ ~Retrying(i)
  BY ThreeTasks DEF Undisturbed, QueueIsSafe, ClaimIsSafe, RetagIsSafe, Owns, Retrying
-----------------------------------------------------------------------------
(* The steps that are alike for all tasks.                                 *)

(* A task that goes back to its loop, or ends, having done nothing.        *)
LEMMA LeavingKeeps ==
    ASSUME SystemInv, NEW t \in Task, task[t].pc # "idle", Finish(t),
           UNCHANGED <<mail, tag, stateVars, procVars, loopVars, commandVars>>,
           faults' \in Nat
    PROVE  SystemInv'
<1> USE DEF stateVars, procVars, loopVars, commandVars
<1>1. SystemBase
  BY DEF SystemInv
<1>2. PICK i \in Item : task[t].item = i
  BY <1>1, BaseFacts
<1>3. task' \in [Task -> TaskState] /\ task'[t] = Idle /\ \A u \in Task \ {t} : task'[u] = task[u]
  BY <1>1, BaseFacts, FinishEffect
<1>4. StepOf(t, i) /\ TaskIsSound(t)'
  BY <1>1, <1>3, BaseFacts DEF StepOf, TaskIsSound, Idle, StateTypeOK, TypeOK, TaskTypeOK
<1>5. Undisturbed(i) => Undisturbed(i)'
  BY <1>3, ElsewhereKeeps DEF Queued, Holds, Idle
<1>6. QED
  BY <1>1, <1>4, <1>5, StepKeeps DEF SystemBase, RowsAreThere, OnlyMailIsTagged, Known, Queued

(* A task that settles its mail, in record_classified or record_error.     *)
LEMMA SettlingKeeps ==
    ASSUME SystemInv, NEW t \in Task, NEW i \in Item, task[t].pc # "idle", task[t].item = i,
           i \notin disturbed => Owns(t, i),
           StateTypeOK', items'[i].state \in {"classified", "error"}, ~Queued(i)',
           \A j \in Item \ {i} : items'[j] = items[j] /\ retry_queue'[j] = retry_queue[j],
           i \notin disturbed /\ items'[i].state = "classified" =>
               tag[i] = items'[i].verdict \/ mail[i] = "deleted",
           Finish(t),
           UNCHANGED <<mail, tag, procVars, loopVars, commandVars, faults>>
    PROVE  SystemInv'
<1> USE DEF procVars, loopVars, commandVars
<1>1. SystemBase
  BY DEF SystemInv
<1>2. task' \in [Task -> TaskState] /\ task'[t] = Idle /\ \A u \in Task \ {t} : task'[u] = task[u]
  BY <1>1, BaseFacts, FinishEffect
<1>3. StepOf(t, i) /\ TaskIsSound(t)'
  BY <1>1, <1>2, BaseFacts DEF StepOf, TaskIsSound, Idle, TypeOK, TaskTypeOK
<1>4. ASSUME i \notin disturbed, Undisturbed(i) PROVE Undisturbed(i)'
  <2> USE ThreeTasks
  <2>1. \A u \in Task \ {t} : ~Owns(u, i)
    BY <1>4, OwnerIsAlone
  <2>2. i \notin batch
    BY <1>4, OwnerIsAlone DEF Retrying
  <2>3. QueueIsSafe(i)'
    BY <1>2, <2>1, <2>2 DEF QueueIsSafe, Retrying, Holds, Owns, Idle
  <2>4. ClaimIsSafe(i)' /\ RetagIsSafe(i)'
    BY <1>2, <2>1 DEF ClaimIsSafe, RetagIsSafe, Owns, Committed, Writes, Holds, Idle
  <2>5. VerdictIsShown(i)'
    <3>1. \A u \in Task : Holds(u, i)' => task'[u].pc # "apply"
      BY <1>2, <2>1 DEF Owns, Committed, Writes, Holds, Idle
    <3>2. mail[i] = "deleted" => tag[i] \notin Verdicts
      BY <1>1, TaxonomyAssumption DEF SystemBase, OnlyMailIsTagged, Verdicts
    <3>3. QED
      BY <1>4, <3>1, <3>2 DEF VerdictIsShown, Resumes
  <2>6. QED
    BY <2>3, <2>4, <2>5 DEF Undisturbed
<1>5. QED
  BY <1>1, <1>3, <1>4, StepKeeps DEF SystemBase, OnlyMailIsTagged, Known

(* The failure path: bump_attempts, and then the queue or the last         *)
(* set_tags.                                                               *)
LEMMA RetryingKeeps ==
    ASSUME SystemInv, NEW t \in Task, NEW pc \in {"exhaust", "giveup"}, NEW i \in Item,
           task[t].item = i,
           \/ task[t].pc = "classify" /\ pc = "exhaust"
           \/ t = "drain" /\ task[t].pc = "fetch" /\ pc = "giveup",
           RetryLater(t, pc),
           UNCHANGED <<procVars, loopVars, commandVars, faults>>
    PROVE  SystemInv'
<1> USE DEF procVars, loopVars, commandVars
<1> DEFINE n == items[i].attempts + 1
<1>1. SystemBase /\ StateTypeOK /\ TaskTypeOK /\ n \in Nat
  BY BaseFacts DEF SystemInv, StateTypeOK, ItemRow
<1>2. /\ items' \in [Item -> ItemRow] /\ Known(i)
      /\ items'[i].state = items[i].state /\ items'[i].verdict = items[i].verdict
      /\ \A j \in Item \ {i} : items'[j] = items[j]
  BY <1>1, BumpEffect DEF RetryLater
<1>3. /\ task' \in [Task -> TaskState] /\ retry_queue' \in [Item -> QueueRow]
      /\ \A u \in Task \ {t} : task'[u] = task[u]
      /\ \A j \in Item \ {i} : retry_queue'[j] = retry_queue[j]
      /\ \/ /\ task'[t] = [pc |-> pc, item |-> i, tag |-> LARES_ERROR, reply |-> "wait"]
            /\ retry_queue' = retry_queue
         \/ task'[t] = Idle /\ Queued(i)'
  <2>1. CASE Call(t, pc, i, LARES_ERROR) /\ UNCHANGED retry_queue
    BY <1>1, <2>1, CallEffect DEF MutateCalls, SetTagsCalls, LaresTags, StateTypeOK
  <2>2. CASE EnqueueRetry(i, n) /\ Finish(t)
    BY <1>1, <2>2, FinishEffect, EnqueueEffect
  <2>3. QED
    BY <2>1, <2>2 DEF RetryLater
<1>4. UNCHANGED <<mail, tag>>
  BY DEF RetryLater
<1> HIDE DEF n
<1>5. Known(i)'
  BY <1>2 DEF Known
<1>6. TaskIsSound(t) /\ task[t].pc # "idle"
  BY <1>1, BaseFacts
<1>7. StepOf(t, i)
  BY <1>1, <1>2, <1>3, <1>4, BaseFacts DEF StepOf, Idle, TypeOK, TaskTypeOK, StateTypeOK
<1>8. TaskIsSound(t)'
  BY <1>3, <1>5, <1>6, <1>7 DEF TaskIsSound, Idle, StepOf
<1>9. ASSUME i \notin disturbed, Undisturbed(i) PROVE Undisturbed(i)'
  <2> USE ThreeTasks
  <2>1. Owns(t, i)
    BY DEF Owns, Committed, Writes, Holds
  <2>2. \A u \in Task \ {t} : ~Owns(u, i)
    BY <1>9, <2>1, OwnerIsAlone
  <2>3. items[i].state = "pending" /\ Tagged(i) /\ i \notin batch
    BY <1>1, <1>9, <2>1, OwnerIsAlone DEF Undisturbed, ClaimIsSafe, RetagIsSafe,
       Owns, Retrying, Tagged, is_lares_tag, LaresTags
  <2>4. QueueIsSafe(i)'
    BY <1>2, <1>3, <1>4, <1>9, <2>1, <2>2, <2>3, OwnerIsAlone
       DEF QueueIsSafe, Retrying, Tagged, Owns, Holds, Idle, Queued
  <2>5. ClaimIsSafe(i)'
    BY <1>2, <1>3, <1>4, <1>9, <2>1, <2>2, <2>3
       DEF Undisturbed, ClaimIsSafe, Owns, Committed, Holds, Idle, Queued, Waits, Resumes
  <2>6. RetagIsSafe(i)'
    BY <1>2, <1>3, <1>4, <1>9, <2>1, <2>2, <2>3
       DEF Undisturbed, RetagIsSafe, Owns, Writes, Committed, Holds, Idle, Queued, Tagged
  <2>7. VerdictIsShown(i)'
    BY <1>2, <1>3, <1>4, <1>9, <2>3 DEF Undisturbed, VerdictIsShown, Holds, Resumes, Idle
  <2>8. QED
    BY <2>4, <2>5, <2>6, <2>7 DEF Undisturbed
<1>10. QED
  BY <1>1, <1>4, <1>5, <1>7, <1>8, <1>9, StepKeeps DEF SystemBase, OnlyMailIsTagged

(* A reply that tells of no success, after which nothing has been written. *)
LEMMA FailedReplyKeeps ==
    ASSUME SystemInv, NEW t \in Task, NEW r \in Replies \ {"ok", "wait"}, Waits(t), Answer(t, r),
           UNCHANGED <<mail, tag, stateVars, procVars, loopVars, commandVars>>,
           faults' \in Nat
    PROVE  SystemInv'
<1> USE DEF stateVars, procVars, loopVars, commandVars
<1>1. SystemBase /\ task[t].pc # "idle"
  BY DEF SystemInv, Waits, MutateCalls, SetTagsCalls
<1>2. PICK i \in Item : task[t].item = i
  BY <1>1, BaseFacts
<1>3. /\ task' \in [Task -> TaskState] /\ \A u \in Task \ {t} : task'[u] = task[u]
      /\ task'[t].pc = task[t].pc /\ task'[t].item = i /\ task'[t].tag = task[t].tag
      /\ task'[t].reply \notin {"ok", "wait"}
  BY <1>1, <1>2, BaseFacts, ReplyEffect
<1>4. StepOf(t, i)
  BY <1>1, <1>3, BaseFacts DEF StepOf, StateTypeOK, TypeOK, TaskTypeOK
<1>5. TaskIsSound(t)'
  BY <1>1, <1>2, <1>3, BaseFacts DEF TaskIsSound, Known
<1>6. ASSUME Undisturbed(i) PROVE Undisturbed(i)'
  <2> USE ThreeTasks
  <2>1. QueueIsSafe(i)'
    BY <1>2, <1>3, <1>6 DEF Undisturbed, QueueIsSafe, Retrying, Holds, Tagged, Queued
  <2>2. ClaimIsSafe(i)'
    BY <1>2, <1>3, <1>6 DEF Undisturbed, ClaimIsSafe, Committed, Holds, Waits, Resumes, Queued
  <2>3. RetagIsSafe(i)'
    BY <1>2, <1>3, <1>6 DEF Undisturbed, RetagIsSafe, Writes, Committed, Holds, Tagged, Queued
  <2>4. VerdictIsShown(i)'
    BY <1>2, <1>3, <1>6 DEF Undisturbed, VerdictIsShown, Holds, Resumes
  <2>5. QED
    BY <2>1, <2>2, <2>3, <2>4 DEF Undisturbed
<1>7. QED
  BY <1>1, <1>4, <1>5, <1>6, StepKeeps DEF SystemBase, RowsAreThere, OnlyMailIsTagged, Known, Queued

(* A set_tags that takes effect, whether the task learns of it or not.     *)
LEMMA WritingKeeps ==
    ASSUME SystemInv, NEW t \in Task, NEW i \in Item, NEW r \in {"ok", "failed"},
           Waits(t), task[t].pc \in SetTagsCalls, task[t].item = i, mail[i] = "present",
           tag' = [tag EXCEPT ![i] = task[t].tag], Answer(t, r),
           UNCHANGED <<mail, stateVars, procVars, loopVars, commandVars>>,
           faults' \in Nat
    PROVE  SystemInv'
<1> USE DEF stateVars, procVars, loopVars, commandVars
<1>1. SystemBase /\ task[t].pc # "idle" /\ task[t].reply = "wait"
  BY DEF SystemInv, Waits, SetTagsCalls
<1>2. /\ task' \in [Task -> TaskState] /\ \A u \in Task \ {t} : task'[u] = task[u]
      /\ task'[t].pc = task[t].pc /\ task'[t].item = i /\ task'[t].tag = task[t].tag
      /\ task'[t].reply = r
  BY <1>1, BaseFacts, ReplyEffect DEF Replies
<1>3. /\ tag' \in [Item -> LaresTags \cup {NoTag}] /\ tag'[i] = task[t].tag
      /\ \A j \in Item \ {i} : tag'[j] = tag[j]
  BY <1>1, BaseFacts DEF TypeOK, TaskTypeOK, TaskState
<1>4. StepOf(t, i)
  BY <1>1, <1>2, <1>3, BaseFacts DEF StepOf, StateTypeOK, TypeOK
<1>5. TaskIsSound(t)
  BY <1>1, BaseFacts
<1>6. TaskIsSound(t)'
  BY <1>2, <1>5 DEF TaskIsSound, Known
<1>7. ASSUME Undisturbed(i) PROVE Undisturbed(i)'
  <2> USE ThreeTasks DEF SetTagsCalls
  <2>1. Owns(t, i)
    BY <1>1, <1>5 DEF Owns, Committed, Writes, Holds, TaskIsSound
  <2>2. \A u \in Task \ {t} : ~Owns(u, i)
    BY <1>7, <2>1, OwnerIsAlone
  <2>3. CASE task[t].pc = "mark"
    <3>1. t # "drain" /\ ~Queued(i) /\ ~Retrying(i)
      BY <1>5, <1>7, <2>1, <2>3, OwnerIsAlone DEF TaskIsSound
    <3>2. tag'[i] \in {LARES_PENDING, NoTag} /\ (t = "consume" => tag'[i] = LARES_PENDING)
      BY <1>3, <1>5, <2>3 DEF TaskIsSound
    <3>3. QueueIsSafe(i)'
      BY <1>2, <2>2, <3>1 DEF QueueIsSafe, Retrying, Owns, Holds, Queued
    <3>4. ClaimIsSafe(i)'
      BY <1>1, <1>2, <1>3, <2>2, <2>3, <3>1, <3>2
         DEF ClaimIsSafe, Committed, Owns, Holds, Waits, Resumes, Queued
    <3>5. RetagIsSafe(i)'
      BY <1>1, <1>2, <1>3, <2>2, <2>3, <3>1, <3>2
         DEF RetagIsSafe, Writes, Committed, Owns, Holds, Queued, Tagged, is_lares_tag, LaresTags
    <3>6. VerdictIsShown(i)'
      <4>1. \A u \in Task : Holds(u, i)' => task'[u].pc # "apply"
        BY <1>2, <2>2, <2>3 DEF Owns, Committed, Writes, Holds
      <4>2. tag'[i] \notin Verdicts \ {LARES_PENDING, LARES_ERROR}
        BY <3>2, TaxonomyAssumption DEF Verdicts
      <4>3. QED
        BY <4>1, <4>2 DEF VerdictIsShown, Resumes
    <3>7. QED
      BY <3>3, <3>4, <3>5, <3>6 DEF Undisturbed
  <2>4. CASE task[t].pc \in {"apply", "exhaust", "giveup"}
    <3>1. items[i].state = "pending"
      BY <1>5, <1>7, <2>1, <2>4, OwnerIsAlone
         DEF TaskIsSound, Undisturbed, ClaimIsSafe, RetagIsSafe, Owns
    <3>2. is_lares_tag(tag'[i])
      BY <1>3, <1>5, <2>4 DEF TaskIsSound, is_lares_tag, LaresTags
    <3>3. QueueIsSafe(i)'
      BY <1>2, <1>7, <3>1, <3>2 DEF Undisturbed, QueueIsSafe, Retrying, Holds, Queued, Tagged
    <3>4. ClaimIsSafe(i)'
      BY <1>1, <1>2, <1>7, <2>2, <2>4
         DEF Undisturbed, ClaimIsSafe, Committed, Owns, Holds, Waits, Resumes, Queued
    <3>5. RetagIsSafe(i)'
      BY <1>1, <1>2, <1>7, <2>2, <2>4, <3>1, <3>2
         DEF Undisturbed, RetagIsSafe, Writes, Committed, Owns, Holds, Queued, Tagged
    <3>6. VerdictIsShown(i)'
      <4>1. \A u \in Task \ {t} : Holds(u, i)' => task'[u].pc # "apply"
        BY <1>2, <2>2 DEF Owns, Committed, Writes, Holds
      <4>2. QED
        BY <1>2, <1>3, <3>1, <4>1 DEF VerdictIsShown, Resumes
    <3>7. QED
      BY <3>3, <3>4, <3>5, <3>6 DEF Undisturbed
  <2>5. QED
    BY <2>3, <2>4
<1>8. QED
  BY <1>1, <1>4, <1>6, <1>7, StepKeeps DEF SystemBase, RowsAreThere, Known, Queued

(* A fetch that is answered with the tag the mail has.                     *)
LEMMA FetchingKeeps ==
    ASSUME SystemInv, NEW t \in Task, NEW i \in Item,
           Waits(t), task[t].pc = "fetch", task[t].item = i, mail[i] = "present",
           task' = [task EXCEPT ![t].reply = "ok", ![t].tag = tag[i]],
           UNCHANGED <<mail, tag, stateVars, procVars, loopVars, commandVars, faults>>
    PROVE  SystemInv'
<1> USE DEF stateVars, procVars, loopVars, commandVars
<1>1. SystemBase
  BY DEF SystemInv
<1>2. /\ task' \in [Task -> TaskState] /\ \A u \in Task \ {t} : task'[u] = task[u]
      /\ task'[t].pc = "fetch" /\ task'[t].item = i /\ task'[t].tag = tag[i]
      /\ task'[t].reply = "ok"
  BY <1>1, BaseFacts DEF TypeOK, TaskTypeOK, TaskState, Replies
<1>3. StepOf(t, i)
  BY <1>1, <1>2, BaseFacts DEF StepOf, StateTypeOK, TypeOK, TaskTypeOK
<1>4. TaskIsSound(t)'
  BY <1>1, <1>2, BaseFacts DEF TaskIsSound, Known
<1>5. ASSUME Undisturbed(i) PROVE Undisturbed(i)'
  <2> USE ThreeTasks
  <2>1. QueueIsSafe(i)'
    BY <1>2, <1>5 DEF Undisturbed, QueueIsSafe, Retrying, Holds, Tagged, Queued
  <2>2. ClaimIsSafe(i)'
    BY <1>2, <1>5 DEF Undisturbed, QueueIsSafe, ClaimIsSafe, Committed, Holds, Waits, Resumes,
       Queued, Tagged
  <2>3. RetagIsSafe(i)'
    BY <1>2, <1>5 DEF Undisturbed, RetagIsSafe, Writes, Committed, Holds, Tagged, Queued
  <2>4. VerdictIsShown(i)'
    BY <1>2, <1>5 DEF Undisturbed, VerdictIsShown, Holds, Resumes
  <2>5. QED
    BY <2>1, <2>2, <2>3, <2>4 DEF Undisturbed
<1>6. QED
  BY <1>1, <1>3, <1>4, <1>5, StepKeeps DEF SystemBase, RowsAreThere, OnlyMailIsTagged, Known, Queued

(* The helper, of the service or of retag, serves a call or fails to.      *)
LEMMA ServingKeeps ==
    ASSUME SystemInv, NEW t \in Task,
           \/ ServeFetch(t) /\ faults' = faults
           \/ ServeSetTags(t) \/ FetchJobFails(t) \/ AnswerTooLong(t) \/ CallFails(t),
           UNCHANGED <<procVars, loopVars, commandVars>>,
           faults' \in Nat
    PROVE  SystemInv'
<1>1. UNCHANGED <<mail, stateVars>> /\ Waits(t)
  BY DEF ServeFetch, ServeSetTags, FetchJobFails, AnswerTooLong, CallFails
<1>2. PICK i \in Item : task[t].item = i
  BY <1>1, BaseFacts DEF SystemInv, Waits, MutateCalls, SetTagsCalls
<1>3. ASSUME NEW r \in Replies \ {"ok", "wait"}, Answer(t, r), UNCHANGED tag PROVE SystemInv'
  BY <1>1, <1>3, FailedReplyKeeps
<1>4. ASSUME NEW r \in {"ok", "failed"}, task[t].pc \in SetTagsCalls, mail[i] = "present",
             tag' = [tag EXCEPT ![i] = task[t].tag], Answer(t, r)
      PROVE  SystemInv'
  BY <1>1, <1>2, <1>4, WritingKeeps
<1>5. CASE ServeFetch(t) /\ faults' = faults
  <2>1. CASE mail[i] = "present" /\ task' = [task EXCEPT ![t].reply = "ok", ![t].tag = tag[i]]
    BY <1>1, <1>2, <1>5, <2>1, FetchingKeeps DEF ServeFetch
  <2>2. QED
    BY <1>2, <1>3, <1>5, <2>1 DEF ServeFetch, Replies
<1>6. CASE ServeSetTags(t)
  BY <1>2, <1>3, <1>4, <1>6 DEF ServeSetTags, Replies
<1>7. CASE FetchJobFails(t) \/ AnswerTooLong(t) \/ CallFails(t)
  BY <1>2, <1>3, <1>4, <1>7 DEF FetchJobFails, AnswerTooLong, CallFails, Replies
<1>8. QED
  BY <1>5, <1>6, <1>7
-----------------------------------------------------------------------------
(* The actions of the tasks.                                               *)

(* _classify_and_apply, run by any of the three tasks.                     *)
LEMMA SharedStepsKeep ==
    ASSUME SystemInv, NEW t \in Task, ClassifyAndApply(t), UNCHANGED commandVars
    PROVE  SystemInv'
<1>1. SystemBase /\ StateTypeOK /\ TaskTypeOK
  BY BaseFacts DEF SystemInv
<1>2. UNCHANGED <<procVars, loopVars, commandVars, faults>>
  BY DEF ClassifyAndApply
<1>3. task[t].pc \in {"classify", "apply", "exhaust"}
  BY DEF ClassifyAndApply, Classify, ClassifierFails, Applied, Exhausted, Resumes
<1>4. PICK i \in Item : task[t].item = i
  BY <1>1, <1>3, BaseFacts
<1>5. TaskIsSound(t)
  BY <1>1, BaseFacts
<1>6. Owns(t, i)
  BY <1>3, <1>4, ThreeTasks DEF Owns, Committed, Writes, Holds
<1>7. CASE Classify(t)
  <2> USE DEF stateVars, procVars, loopVars, commandVars
  <2>1. PICK v \in Verdicts : Call(t, "apply", i, v)
    BY <1>4, <1>7 DEF Classify
  <2>2. /\ task' \in [Task -> TaskState] /\ \A u \in Task \ {t} : task'[u] = task[u]
        /\ task'[t] = [pc |-> "apply", item |-> i, tag |-> v, reply |-> "wait"]
    BY <1>1, <2>1, CallEffect DEF MutateCalls, SetTagsCalls, LaresTags
  <2>3. task[t].pc = "classify" /\ UNCHANGED <<mail, tag, stateVars>>
    BY <1>7 DEF Classify
  <2>4. StepOf(t, i)
    BY <1>1, <1>2, <2>2, <2>3, BaseFacts DEF StepOf, StateTypeOK, TypeOK, TaskTypeOK
  <2>5. TaskIsSound(t)'
    BY <1>2, <1>4, <1>5, <2>2, <2>3 DEF TaskIsSound, Known
  <2>6. ASSUME Undisturbed(i) PROVE Undisturbed(i)'
    <3> USE ThreeTasks
    <3>1. QueueIsSafe(i)'
      BY <1>2, <1>4, <2>2, <2>3, <2>6 DEF Undisturbed, QueueIsSafe, Retrying, Holds, Queued, Tagged
    <3>2. ClaimIsSafe(i)'
      BY <1>2, <1>4, <2>2, <2>3, <2>6
         DEF Undisturbed, ClaimIsSafe, Committed, Holds, Queued, Waits, Resumes
    <3>3. RetagIsSafe(i)'
      BY <1>2, <1>4, <2>2, <2>3, <2>6
         DEF Undisturbed, RetagIsSafe, Writes, Committed, Holds, Queued, Tagged
    <3>4. VerdictIsShown(i)'
      BY <2>2, <2>3, <2>6 DEF Undisturbed, VerdictIsShown, Holds, Resumes
    <3>5. QED
      BY <3>1, <3>2, <3>3, <3>4 DEF Undisturbed
  <2>7. QED
    BY <1>1, <2>3, <2>4, <2>5, <2>6, StepKeeps
       DEF SystemBase, RowsAreThere, OnlyMailIsTagged, Known, Queued
<1>8. CASE ClassifierFails(t)
  BY <1>2, <1>4, <1>8, RetryingKeeps DEF ClassifierFails
<1>9. CASE Applied(t)
  <2>1. task[t].pc = "apply" /\ task[t].tag \in Verdicts
    BY <1>5, <1>9 DEF Applied, Resumes, TaskIsSound
  <2>2. /\ StateTypeOK' /\ items'[i].state = "classified" /\ items'[i].verdict = task[t].tag
        /\ ~Queued(i)'
        /\ \A j \in Item \ {i} : items'[j] = items[j] /\ retry_queue'[j] = retry_queue[j]
    BY <1>1, <1>4, <1>9, <2>1, RecordClassifiedEffect DEF Applied
  <2>3. i \notin disturbed => tag[i] = task[t].tag \/ mail[i] = "deleted"
    BY <1>4, <1>9, <2>1 DEF Applied, SystemInv, Undisturbed, VerdictIsShown, Holds, Resumes
  <2>4. QED
    BY <1>2, <1>4, <1>6, <1>9, <2>1, <2>2, <2>3, SettlingKeeps DEF Applied
<1>10. CASE Exhausted(t)
  <2>1. task[t].pc = "exhaust"
    BY <1>10 DEF Exhausted, Resumes
  <2>2. /\ StateTypeOK' /\ items'[i].state = "error" /\ ~Queued(i)'
        /\ \A j \in Item \ {i} : items'[j] = items[j] /\ retry_queue'[j] = retry_queue[j]
    BY <1>1, <1>4, <1>10, RecordErrorEffect DEF Exhausted, Reason
  <2>3. QED
    BY <1>2, <1>4, <1>6, <1>10, <2>1, <2>2, SettlingKeeps DEF Exhausted
<1>11. QED
  BY <1>7, <1>8, <1>9, <1>10 DEF ClassifyAndApply

(* consume_one_event.                                                      *)
LEMMA ConsumeStepsKeep ==
    ASSUME SystemInv, Consume, UNCHANGED commandVars
    PROVE  SystemInv'
<1> USE ThreeTasks DEF stateVars, procVars, loopVars, commandVars
<1> DEFINE c == task["consume"]
<1>1. SystemBase /\ StateTypeOK /\ TaskTypeOK /\ TypeOK /\ c \in TaskState /\ TaskIsSound("consume")
  BY BaseFacts DEF SystemInv
<1>2. CASE ConsumeTake
  <2>1. PICK i \in Item : i = Head(events)
    BY <1>1, <1>2 DEF ConsumeTake, TypeOK
  <2>2. /\ Tail(events) \in Seq(Item)
        /\ \A n \in DOMAIN Tail(events) : \E m \in DOMAIN events : events[m] = Tail(events)[n]
        /\ \E m \in DOMAIN events : events[m] = i
    <3>1. events \in Seq(Item) /\ events # <<>>
      BY <1>1, <1>2 DEF ConsumeTake, TypeOK
    <3>2. Len(events) \in Nat /\ Len(events) > 0 /\ DOMAIN events = 1..Len(events)
      BY <3>1
    <3>3. Tail(events) \in Seq(Item) /\ DOMAIN Tail(events) = 1..(Len(events) - 1)
      BY <3>1
    <3>4. \A n \in 1..(Len(events) - 1) : Tail(events)[n] = events[n + 1] /\ n + 1 \in DOMAIN events
      BY <3>1, <3>2
    <3>5. QED
      BY <2>1, <3>1, <3>2, <3>3, <3>4
  <2>3. /\ task' \in [Task -> TaskState] /\ \A u \in Task \ {"consume"} : task'[u] = task[u]
        /\ task'["consume"] = [pc |-> "fetch", item |-> i, tag |-> NoTag, reply |-> "wait"]
    BY <1>1, <1>2, <2>1, CallEffect DEF ConsumeTake, MutateCalls
  <2>4. UNCHANGED <<mail, tag, stateVars, procVars, batch, faults>> /\ events' = Tail(events)
        /\ up /\ c.pc = "idle"
    BY <1>2 DEF ConsumeTake
  <2>5. StepOf("consume", i)
    BY <1>1, <2>2, <2>3, <2>4, BaseFacts DEF StepOf, StateTypeOK, TypeOK, TaskTypeOK
  <2>6. TaskIsSound("consume")'
    BY <2>3, <2>4 DEF TaskIsSound
  <2>7. ASSUME Undisturbed(i) PROVE Undisturbed(i)'
    <3>1. QueueIsSafe(i)' /\ VerdictIsShown(i)'
      BY <2>3, <2>4, <2>7 DEF Undisturbed, QueueIsSafe, VerdictIsShown, Retrying, Holds, Queued,
         Tagged, Resumes
    <3>2. ~Committed(i)'
      BY <2>3 DEF Committed
    <3>3. RetagIsSafe(i)'
      BY <2>2, <2>3, <2>4, <2>7, <3>2 DEF Undisturbed, RetagIsSafe, Writes, Holds, Queued, Tagged
    <3>4. QED
      BY <3>1, <3>2, <3>3 DEF Undisturbed, ClaimIsSafe
  <2>8. QED
    BY <1>1, <2>4, <2>5, <2>6, <2>7, StepKeeps
       DEF SystemBase, RowsAreThere, OnlyMailIsTagged, Known, Queued
<1>3. CASE ConsumeDrop \/ ConsumeSkip
  BY <1>1, <1>3, LeavingKeeps DEF ConsumeDrop, ConsumeSkip, Resumes, TypeOK
<1>4. CASE ConsumeMark
  <2>1. PICK i \in Item : c.item = i
    BY <1>1, <1>4, BaseFacts DEF ConsumeMark, Resumes
  <2>2. /\ task' \in [Task -> TaskState] /\ \A u \in Task \ {"consume"} : task'[u] = task[u]
        /\ task'["consume"] = [pc |-> "mark", item |-> i, tag |-> LARES_PENDING, reply |-> "wait"]
    BY <1>1, <1>4, <2>1, CallEffect DEF ConsumeMark, MutateCalls, SetTagsCalls, LaresTags
  <2>3. UNCHANGED <<mail, tag, stateVars, procVars, loopVars, faults>>
        /\ c.pc = "fetch" /\ c.reply = "ok" /\ ~is_lares_tag(c.tag)
    BY <1>4 DEF ConsumeMark, Resumes
  <2>4. StepOf("consume", i)
    BY <1>1, <2>2, <2>3, BaseFacts DEF StepOf, StateTypeOK, TypeOK, TaskTypeOK
  <2>5. TaskIsSound("consume")'
    BY <1>1, <2>2, <2>3 DEF TaskIsSound
  <2>6. ASSUME Undisturbed(i) PROVE Undisturbed(i)'
    <3>1. QueueIsSafe(i)' /\ VerdictIsShown(i)'
      BY <2>1, <2>2, <2>3, <2>6 DEF Undisturbed, QueueIsSafe, VerdictIsShown, Retrying, Holds,
         Queued, Tagged, Resumes
    <3>2. Committed(i)
      BY <2>1, <2>3 DEF Committed, Holds
    <3>3. ClaimIsSafe(i)' /\ RetagIsSafe(i)'
      BY <2>2, <2>3, <2>6, <3>2
         DEF Undisturbed, ClaimIsSafe, RetagIsSafe, Writes, Holds, Queued, Waits, Resumes
    <3>4. QED
      BY <3>1, <3>3 DEF Undisturbed
  <2>7. QED
    BY <1>1, <2>3, <2>4, <2>5, <2>6, StepKeeps
       DEF SystemBase, RowsAreThere, OnlyMailIsTagged, Known, Queued
<1>5. CASE ConsumeMarked
  <2>1. PICK i \in Item : c.item = i
    BY <1>1, <1>5, BaseFacts DEF ConsumeMarked, Resumes
  <2>2. /\ task' \in [Task -> TaskState] /\ \A u \in Task \ {"consume"} : task'[u] = task[u]
        /\ task'["consume"].pc = "classify" /\ task'["consume"].item = i
    BY <1>1, <1>5, <2>1, AskEffect DEF ConsumeMarked
  <2>3. /\ StateTypeOK' /\ items'[i].state = "pending" /\ retry_queue' = retry_queue
        /\ \A j \in Item \ {i} : items'[j] = items[j]
    BY <1>1, <1>5, <2>1, RecordPendingEffect DEF ConsumeMarked
  <2>4. UNCHANGED <<mail, tag, procVars, loopVars, faults>> /\ c.pc = "mark" /\ c.reply = "ok"
    BY <1>5 DEF ConsumeMarked, Resumes
  <2>5. StepOf("consume", i)
    BY <1>1, <2>2, <2>3, <2>4, BaseFacts DEF StepOf, TypeOK, TaskTypeOK
  <2>6. TaskIsSound("consume")'
    BY <1>1, <2>2, <2>3, <2>4 DEF TaskIsSound, Known
  <2>7. ASSUME Undisturbed(i) PROVE Undisturbed(i)'
    <3>1. Owns("consume", i)
      BY <2>1, <2>4 DEF Owns, Committed, Holds
    <3>2. ~Queued(i) /\ ~Retrying(i) /\ ~Writes(i)
      BY <2>7, <3>1, OwnerIsAlone DEF Owns
    <3>3. QueueIsSafe(i)' /\ VerdictIsShown(i)'
      BY <2>2, <2>3, <2>4, <2>7, <3>2 DEF Undisturbed, QueueIsSafe, VerdictIsShown, Retrying, Holds,
         Queued, Tagged, Resumes
    <3>4. ClaimIsSafe(i)' /\ RetagIsSafe(i)'
      BY <2>1, <2>2, <2>3, <2>4, <2>7, <3>1, <3>2
         DEF Undisturbed, ClaimIsSafe, RetagIsSafe, Writes, Owns, Holds, Queued, Waits, Resumes
    <3>5. QED
      BY <3>3, <3>4 DEF Undisturbed
  <2>8. QED
    BY <1>1, <2>3, <2>4, <2>5, <2>6, <2>7, StepKeeps DEF SystemBase, OnlyMailIsTagged, Known
<1>6. QED
  BY <1>2, <1>3, <1>4, <1>5 DEF Consume

(* _drain_loop and drain_one_due.                                          *)
LEMMA DrainStepsKeep ==
    ASSUME SystemInv, Drain, UNCHANGED commandVars
    PROVE  SystemInv'
<1> USE ThreeTasks DEF stateVars, procVars, loopVars, commandVars
<1> DEFINE d == task["drain"]
<1>1. SystemBase /\ StateTypeOK /\ TaskTypeOK /\ TypeOK /\ d \in TaskState /\ TaskIsSound("drain")
  BY BaseFacts DEF SystemInv
<1>2. CASE DrainPop
  <2>1. batch' \subseteq {j \in Item : Queued(j)} /\ d.pc = "idle" /\ up
    BY <1>2 DEF DrainPop, PopDue, Due, Queued
  <2>2. UNCHANGED <<mail, tag, task, items, retry_queue, up, notify, mutate, events, faults>>
    BY <1>2 DEF DrainPop, taskVars
  <2>3. SystemTypeOK'
    BY <1>1, <2>1, <2>2, BaseFacts DEF SystemBase, SystemTypeOK, TypeOK, TaskTypeOK, StateTypeOK
  <2>4. AllTasksAreSound' /\ StoreInUse' /\ OnlyMailIsTagged'
    BY <1>1, <2>1, <2>2 DEF SystemBase, AllTasksAreSound, StoreInUse, OnlyMailIsTagged
  <2>5. RowsAreThere'
    BY <1>1, <2>1, <2>2
       DEF SystemBase, RowsAreThere, RowsForAll, Retrying, Holds, Known, Queued
  <2>6. ASSUME NEW i \in Item \ disturbed PROVE Undisturbed(i)'
    <3>1. Undisturbed(i)
      BY DEF SystemInv
    <3>2. QueueIsSafe(i)'
      BY <2>1, <2>2, <3>1 DEF Undisturbed, QueueIsSafe, Retrying, Holds, Tagged, Queued
    <3>3. ClaimIsSafe(i)' /\ RetagIsSafe(i)' /\ VerdictIsShown(i)'
      BY <2>2, <3>1 DEF Undisturbed, ClaimIsSafe, RetagIsSafe, VerdictIsShown, Committed, Writes,
         Holds, Queued, Waits, Resumes, Tagged
    <3>4. QED
      BY <3>2, <3>3 DEF Undisturbed
  <2>7. QED
    BY <2>3, <2>4, <2>5, <2>6 DEF SystemInv, SystemBase
<1>3. CASE DrainNext
  <2>1. PICK i \in batch : Call("drain", "fetch", i, NoTag) /\ batch' = batch \ {i}
    BY <1>3 DEF DrainNext
  <2>2. i \in Item /\ Known(i)
    BY <1>1 DEF TypeOK, SystemBase, RowsAreThere, Retrying
  <2>3. /\ task' \in [Task -> TaskState] /\ \A u \in Task \ {"drain"} : task'[u] = task[u]
        /\ task'["drain"] = [pc |-> "fetch", item |-> i, tag |-> NoTag, reply |-> "wait"]
    BY <1>1, <2>1, <2>2, CallEffect DEF MutateCalls
  <2>4. UNCHANGED <<mail, tag, stateVars, procVars, events, faults>> /\ up
    BY <1>3 DEF DrainNext
  <2>5. StepOf("drain", i)
    BY <1>1, <2>1, <2>3, <2>4, BaseFacts DEF StepOf, StateTypeOK, TypeOK, TaskTypeOK
  <2>6. TaskIsSound("drain")'
    BY <2>2, <2>3, <2>4 DEF TaskIsSound, Known
  <2>7. ASSUME Undisturbed(i) PROVE Undisturbed(i)'
    <3>1. QueueIsSafe(i)' /\ VerdictIsShown(i)'
      BY <2>1, <2>3, <2>4, <2>7 DEF Undisturbed, QueueIsSafe, VerdictIsShown, Retrying, Holds, Queued,
         Tagged, Resumes
    <3>2. ClaimIsSafe(i)' /\ RetagIsSafe(i)'
      BY <2>3, <2>4, <2>7 DEF Undisturbed, ClaimIsSafe, RetagIsSafe, Committed, Writes,
         Holds, Queued, Waits, Resumes, Tagged
    <3>3. QED
      BY <3>1, <3>2 DEF Undisturbed
  <2>8. QED
    BY <1>1, <2>2, <2>4, <2>5, <2>6, <2>7, StepKeeps
       DEF SystemBase, RowsAreThere, OnlyMailIsTagged, Known, Queued
<1>4. CASE DrainClassify
  <2>1. d.pc = "fetch" /\ UNCHANGED <<mail, tag, stateVars, procVars, loopVars, faults>>
    BY <1>4 DEF DrainClassify, Resumes
  <2>2. PICK i \in Item : d.item = i
    BY <1>1, <2>1, BaseFacts
  <2>3. /\ task' \in [Task -> TaskState] /\ \A u \in Task \ {"drain"} : task'[u] = task[u]
        /\ task'["drain"].pc = "classify" /\ task'["drain"].item = i
    BY <1>1, <1>4, <2>2, AskEffect DEF DrainClassify
  <2>4. StepOf("drain", i)
    BY <1>1, <2>1, <2>3, BaseFacts DEF StepOf, StateTypeOK, TypeOK, TaskTypeOK
  <2>5. TaskIsSound("drain")'
    BY <1>1, <2>1, <2>2, <2>3 DEF TaskIsSound, Known
  <2>6. ASSUME Undisturbed(i) PROVE Undisturbed(i)'
    <3>1. QueueIsSafe(i)' /\ VerdictIsShown(i)'
      BY <2>1, <2>2, <2>3, <2>6 DEF Undisturbed, QueueIsSafe, VerdictIsShown, Retrying, Holds, Queued,
         Tagged, Resumes
    <3>2. ClaimIsSafe(i)' /\ RetagIsSafe(i)'
      BY <2>1, <2>3, <2>6 DEF Undisturbed, ClaimIsSafe, RetagIsSafe, Committed, Writes,
         Holds, Queued, Waits, Resumes, Tagged
    <3>3. QED
      BY <3>1, <3>2 DEF Undisturbed
  <2>7. QED
    BY <1>1, <2>1, <2>4, <2>5, <2>6, StepKeeps
       DEF SystemBase, RowsAreThere, OnlyMailIsTagged, Known, Queued
<1>5. CASE DrainPostpone
  <2>1. d.pc = "fetch" /\ d.item \in Item
    BY <1>1, <1>5, BaseFacts DEF DrainPostpone, Resumes
  <2>2. QED
    BY <1>5, <2>1, RetryingKeeps DEF DrainPostpone
<1>6. CASE DrainDeleted \/ DrainGaveUp
  <2>1. PICK reason \in Reason : RecordError(d.item, reason)
    BY <1>6 DEF DrainDeleted, DrainGaveUp, Reason
  <2>2. /\ d.pc # "idle" /\ Finish("drain")
        /\ UNCHANGED <<mail, tag, procVars, loopVars, commandVars, faults>>
    BY <1>6 DEF DrainDeleted, DrainGaveUp, Resumes
  <2>3. PICK i \in Item : d.item = i
    BY <1>1, <2>2, BaseFacts
  <2>4. /\ StateTypeOK' /\ items'[i].state = "error" /\ ~Queued(i)'
        /\ \A j \in Item \ {i} : items'[j] = items[j] /\ retry_queue'[j] = retry_queue[j]
    BY <1>1, <2>1, <2>3, RecordErrorEffect
  <2>5. QED
    BY <2>2, <2>3, <2>4, SettlingKeeps DEF Owns, Holds
<1>7. QED
  BY <1>2, <1>3, <1>4, <1>5, <1>6 DEF Drain

(* The retag command: it starts on any mail, at rest or not.               *)
LEMMA RetagStartKeeps ==
    ASSUME SystemInv, NEW i \in Item, RetagStart(i)
    PROVE  SystemInv'
<1> USE ThreeTasks DEF stateVars, procVars, loopVars, serviceVars
<1>1. SystemBase /\ StateTypeOK /\ TaskTypeOK /\ TypeOK
  BY BaseFacts DEF SystemInv
<1>2. PICK want \in {LARES_PENDING, NoTag} : Call("retag", "mark", i, want)
  BY DEF RetagStart
<1>3. /\ task' \in [Task -> TaskState] /\ \A u \in Task \ {"retag"} : task'[u] = task[u]
      /\ task'["retag"] = [pc |-> "mark", item |-> i, tag |-> want, reply |-> "wait"]
  BY <1>1, <1>2, CallEffect DEF MutateCalls, SetTagsCalls, LaresTags
<1>4. /\ UNCHANGED <<mail, tag, stateVars, serviceVars, purged>> /\ ~purged
      /\ task["retag"].pc = "idle" /\ commands' \in 0..MaxCommands
      /\ disturbed \subseteq disturbed' /\ disturbed' \subseteq Item
      /\ i \notin disturbed' => AtRest(i)
  BY <1>1, MaxCommandsAssumption, BaseFacts DEF RetagStart, Commanded
<1>5. StepOf("retag", i)
  BY <1>1, <1>3, <1>4, BaseFacts DEF StepOf, StateTypeOK, TypeOK, TaskTypeOK
<1>6. TaskIsSound("retag")'
  BY <1>3, <1>4 DEF TaskIsSound
<1>7. ASSUME AtRest(i), Undisturbed(i) PROVE Undisturbed(i)'
  <2>1. QueueIsSafe(i)' /\ ClaimIsSafe(i)' /\ VerdictIsShown(i)'
    BY <1>3, <1>4, <1>7 DEF Undisturbed, QueueIsSafe, ClaimIsSafe, VerdictIsShown, Committed,
       Retrying, Holds, Queued, Tagged, Waits, Resumes
  <2>2. RetagIsSafe(i)'
    BY <1>3, <1>4, <1>7 DEF AtRest, RetagIsSafe, Writes, Committed, Holds, Queued
  <2>3. QED
    BY <2>1, <2>2 DEF Undisturbed
<1>8. QED
  BY <1>1, <1>4, <1>5, <1>6, <1>7, StepKeeps
     DEF SystemBase, RowsAreThere, OnlyMailIsTagged, Known, Queued

(* A step that leaves mail, tags and the states of rows alone, and tasks   *)
(* but for those whose process ends.                                       *)
LEMMA StandingBackKeeps ==
    ASSUME SystemInv, SystemTypeOK', StoreInUse',
           \A t \in Task : task'[t] = task[t] \/ task'[t] = Idle,
           UNCHANGED <<mail, tag, disturbed>>,
           \A i \in Item : /\ items'[i].state = items[i].state
                           /\ items'[i].verdict = items[i].verdict
                           /\ Queued(i)' <=> Queued(i),
           batch' \subseteq batch,
           \A n \in DOMAIN events' : \E m \in DOMAIN events : events[m] = events'[n]
    PROVE  SystemInv'
<1>1. SystemBase
  BY DEF SystemInv
<1>2. AllTasksAreSound'
  BY <1>1, ThreeTasks DEF SystemBase, AllTasksAreSound, Idle
<1>3. RowsAreThere' /\ OnlyMailIsTagged'
  BY <1>1, ThreeTasks DEF SystemBase, RowsAreThere, RowsForAll, OnlyMailIsTagged, Retrying, Holds,
     Known, Idle
<1>4. ASSUME NEW i \in Item \ disturbed' PROVE Undisturbed(i)'
  <2>1. Undisturbed(i)
    BY <1>4 DEF SystemInv
  <2>2. \A t \in Task : Holds(t, i)' => task'[t] = task[t]
    BY DEF Holds, Idle
  <2>3. \A n \in DOMAIN events' : events'[n] = i => \E m \in DOMAIN events : events[m] = i
    OBVIOUS
  <2>4. QED
    BY <2>1, <2>2, <2>3, ElsewhereKeeps
<1>5. QED
  BY <1>1, <1>2, <1>3, <1>4 DEF SystemInv, SystemBase

(* The retag command is killed, maybe between bump_attempts and            *)
(* enqueue_retry.                                                          *)
LEMMA RetagKilledKeeps ==
    ASSUME SystemInv, RetagKilled
    PROVE  SystemInv'
<1> USE ThreeTasks DEF procVars, loopVars, commandVars
<1>1. SystemBase /\ StateTypeOK /\ TaskTypeOK /\ TypeOK
  BY BaseFacts DEF SystemInv
<1>2. UNCHANGED <<mail, tag, up, notify, mutate, events, batch, commands, purged, disturbed>>
  BY DEF RetagKilled
<1>3. /\ task' \in [Task -> TaskState] /\ task'["retag"] = Idle
      /\ \A u \in Task \ {"retag"} : task'[u] = task[u]
  BY <1>1, FinishEffect DEF RetagKilled
<1>4. StateTypeOK' /\ UNCHANGED retry_queue /\ \A i \in Item : RowSurvives(i)
  <2>1. CASE UNCHANGED stateVars
    BY <1>1, <2>1 DEF StateTypeOK, RowSurvives, stateVars
  <2>2. CASE task["retag"].pc = "classify" /\ BumpedOnly(task["retag"].item)
    BY <1>1, <2>2, BaseFacts, BumpedOnlyEffect
  <2>3. QED
    BY <2>1, <2>2 DEF RetagKilled
<1>5. faults' \in Nat
  BY <1>1 DEF RetagKilled, Fault, TypeOK
<1>6. SystemTypeOK'
  BY <1>1, <1>2, <1>3, <1>4, <1>5 DEF SystemBase, SystemTypeOK, TypeOK, TaskTypeOK
<1>7. StoreInUse'
  BY <1>1, <1>2, <1>3 DEF SystemBase, StoreInUse, Idle
<1>8. QED
  BY <1>2, <1>3, <1>4, <1>6, <1>7, StandingBackKeeps DEF Queued, RowSurvives

(* ... and goes on to its end, in whichever way it ends.                   *)
LEMMA RetagStepsKeep ==
    ASSUME SystemInv, Retag \/ RetagServeFails \/ RetagKilled
    PROVE  SystemInv'
<1> USE ThreeTasks DEF stateVars, procVars, loopVars, serviceVars, commandVars
<1> DEFINE r == task["retag"]
<1>1. SystemBase /\ StateTypeOK /\ TaskTypeOK /\ TypeOK /\ r \in TaskState /\ TaskIsSound("retag")
  BY BaseFacts DEF SystemInv
<1>2. CASE RetagRemoved \/ RetagRaises
  <2>1. r.pc # "idle" /\ Finish("retag") /\ faults' \in Nat
        /\ UNCHANGED <<mail, tag, stateVars, procVars, loopVars, commandVars>>
    BY <1>1, <1>2 DEF RetagRemoved, RetagRaises, Resumes, MutateCalls, SetTagsCalls, TypeOK
  <2>2. QED
    BY <2>1, LeavingKeeps
<1>3. CASE RetagKilled
  BY <1>3, RetagKilledKeeps
<1>4. CASE RetagMarked
  <2>1. /\ r.pc = "mark" /\ r.reply = "ok" /\ r.tag = LARES_PENDING
        /\ UNCHANGED <<mail, tag, serviceVars, commandVars>>
    BY <1>4 DEF RetagMarked, Resumes
  <2>2. PICK i \in Item : r.item = i
    BY <1>1, <2>1, BaseFacts
  <2>3. /\ task' \in [Task -> TaskState] /\ \A u \in Task \ {"retag"} : task'[u] = task[u]
        /\ task'["retag"] = [pc |-> "fetch", item |-> i, tag |-> NoTag, reply |-> "wait"]
    BY <1>1, <1>4, <2>2, CallEffect DEF RetagMarked, MutateCalls
  <2>4. /\ StateTypeOK' /\ items'[i].state = "pending" /\ retry_queue' = retry_queue
        /\ \A j \in Item \ {i} : items'[j] = items[j]
    BY <1>1, <1>4, <2>2, RecordPendingEffect DEF RetagMarked
  <2>5. StepOf("retag", i)
    BY <1>1, <2>1, <2>3, <2>4, BaseFacts DEF StepOf, TypeOK, TaskTypeOK
  <2>6. TaskIsSound("retag")'
    BY <1>1, <2>1, <2>3, <2>4 DEF TaskIsSound, Known
  <2>7. ASSUME Undisturbed(i) PROVE Undisturbed(i)'
    <3>1. Owns("retag", i)
      BY <2>1, <2>2 DEF Owns, Writes, Holds
    <3>2. ~Queued(i) /\ ~Retrying(i) /\ ~Committed(i)
      BY <2>7, <3>1, OwnerIsAlone DEF Owns
    <3>3. QueueIsSafe(i)' /\ VerdictIsShown(i)'
      BY <2>1, <2>3, <2>4, <2>7, <3>2 DEF Undisturbed, QueueIsSafe, VerdictIsShown, Retrying, Holds,
         Queued, Tagged, Resumes
    <3>4. ClaimIsSafe(i)' /\ RetagIsSafe(i)'
      BY <2>1, <2>2, <2>3, <2>4, <2>7, <3>1, <3>2
         DEF Undisturbed, ClaimIsSafe, RetagIsSafe, Committed, Writes, Owns, Holds, Queued, Tagged
    <3>5. QED
      BY <3>3, <3>4 DEF Undisturbed
  <2>8. QED
    BY <1>1, <2>1, <2>4, <2>5, <2>6, <2>7, StepKeeps DEF SystemBase, OnlyMailIsTagged, Known
<1>5. CASE RetagFetched
  <2>1. r.pc = "fetch" /\ UNCHANGED <<mail, tag, stateVars, procVars, loopVars, faults, commandVars>>
    BY <1>5 DEF RetagFetched, Resumes
  <2>2. PICK i \in Item : r.item = i
    BY <1>1, <2>1, BaseFacts
  <2>3. /\ task' \in [Task -> TaskState] /\ \A u \in Task \ {"retag"} : task'[u] = task[u]
        /\ task'["retag"].pc = "classify" /\ task'["retag"].item = i
    BY <1>1, <1>5, <2>2, AskEffect DEF RetagFetched
  <2>4. StepOf("retag", i)
    BY <1>1, <2>1, <2>3, BaseFacts DEF StepOf, StateTypeOK, TypeOK, TaskTypeOK
  <2>5. TaskIsSound("retag")'
    BY <1>1, <2>1, <2>2, <2>3 DEF TaskIsSound, Known
  <2>6. ASSUME Undisturbed(i) PROVE Undisturbed(i)'
    <3>1. QueueIsSafe(i)' /\ ClaimIsSafe(i)' /\ VerdictIsShown(i)'
      BY <2>1, <2>3, <2>6 DEF Undisturbed, QueueIsSafe, ClaimIsSafe, VerdictIsShown, Committed,
         Retrying, Holds, Queued, Tagged, Waits, Resumes
    <3>2. RetagIsSafe(i)'
      BY <2>1, <2>2, <2>3, <2>6
         DEF Undisturbed, RetagIsSafe, Writes, Committed, Holds, Queued, Tagged
    <3>3. QED
      BY <3>1, <3>2 DEF Undisturbed
  <2>7. QED
    BY <1>1, <2>1, <2>4, <2>5, <2>6, StepKeeps
       DEF SystemBase, RowsAreThere, OnlyMailIsTagged, Known, Queued
<1>6. CASE RetagServed \/ RetagServeFails
  <2>1. faults' \in Nat
    BY <1>1, <1>6 DEF RetagServed, RetagServeFails, Fault, TypeOK
  <2>2. QED
    BY <1>6, <2>1, ServingKeeps DEF RetagServed, RetagServeFails
<1>7. CASE ClassifyAndApply("retag") /\ UNCHANGED commandVars
  BY <1>7, SharedStepsKeep
<1>8. QED
  BY <1>2, <1>4, <1>5, <1>6, <1>7, <1>3 DEF Retag
-----------------------------------------------------------------------------
(* The environment, the end of the service, and purge.                     *)

(* The end of the service process: its tasks, its batch and its pipes are  *)
(* gone, and the retag command goes on.                                    *)
LEMMA DyingKeeps ==
    ASSUME SystemInv, Ended, faults' \in Nat, UNCHANGED commandVars,
           StateTypeOK', UNCHANGED retry_queue, \A i \in Item : RowSurvives(i)
    PROVE  SystemInv'
<1> USE ThreeTasks DEF Ended, commandVars
<1>1. SystemBase /\ TypeOK /\ TaskTypeOK
  BY BaseFacts DEF SystemInv
<1>2. /\ task' \in [Task -> TaskState]
      /\ task'["consume"] = Idle /\ task'["drain"] = Idle /\ task'["retag"] = task["retag"]
  BY <1>1 DEF TaskTypeOK, TaskState, Idle, Replies
<1>3. events' \in Seq(Item) /\ DOMAIN events' = {}
  OBVIOUS
<1>4. SystemTypeOK'
  BY <1>1, <1>2, <1>3 DEF SystemBase, SystemTypeOK, TypeOK, TaskTypeOK, StateTypeOK
<1>5. StoreInUse'
  BY <1>1, <1>2 DEF SystemBase, StoreInUse, Idle
<1>6. QED
  BY <1>2, <1>3, <1>4, <1>5, StandingBackKeeps DEF Queued, RowSurvives

(* The service may also end at a write to the unlinked store, which sqlite *)
(* refuses, or between bump_attempts and enqueue_retry.                    *)
LEMMA ServiceEndKeeps ==
    ASSUME SystemInv, UNCHANGED commandVars, NEW t \in ServiceTask,
           Raise(t) \/ StoreRefuses(t) \/ Crash \/ CrashBumped(t)
    PROVE  SystemInv'
<1> USE ThreeTasks
<1>1. SystemBase /\ StateTypeOK /\ faults \in Nat
  BY BaseFacts DEF SystemInv, TypeOK
<1>2. CASE Raise(t) \/ StoreRefuses(t) \/ Crash
  <2>1. Ended /\ UNCHANGED stateVars /\ faults' \in Nat
    BY <1>1, <1>2 DEF Raise, StoreRefuses, Crash, Down, Fault
  <2>2. StateTypeOK' /\ UNCHANGED retry_queue /\ \A i \in Item : RowSurvives(i)
    BY <1>1, <2>1 DEF StateTypeOK, RowSurvives, stateVars
  <2>3. QED
    BY <2>1, <2>2, DyingKeeps
<1>3. CASE CrashBumped(t)
  <2>1. task[t].item \in Item /\ Ended /\ faults' \in Nat
    BY <1>1, <1>3, BaseFacts DEF CrashBumped, Resumes, Fault
  <2>2. QED
    BY <1>1, <1>3, <2>1, BumpedOnlyEffect, DyingKeeps DEF CrashBumped
<1>4. QED
  BY <1>2, <1>3

(* A new store, found by a service that starts or made by nobody yet: no   *)
(* task has anything from the old one.                                     *)
LEMMA NewStoreKeeps ==
    ASSUME SystemInv, NewStore, ~up, task["retag"].pc = "idle",
           UNCHANGED <<taskVars, loopVars, disturbed>>,
           up' \in BOOLEAN, notify' \in {"running", "exited"}, mutate' \in {"running", "exited"},
           faults' = faults, commands' \in 0..MaxCommands, purged' = FALSE
    PROVE  SystemInv'
<1> USE ThreeTasks DEF taskVars, loopVars
<1>1. SystemBase /\ TypeOK /\ TaskTypeOK
  BY BaseFacts DEF SystemInv
<1>2. batch = {} /\ \A t \in Task : task[t].pc = "idle"
  BY <1>1 DEF SystemBase, StoreInUse
<1>3. StateTypeOK' /\ \A i \in Item : items'[i].state = "absent" /\ ~Queued(i)'
  BY DEF NewStore, StateTypeOK, ItemRow, QueueRow, NoRow, NotQueued, Queued
<1>4. SystemTypeOK'
  BY <1>1, <1>3 DEF SystemBase, SystemTypeOK, TypeOK, TaskTypeOK
<1>5. AllTasksAreSound' /\ StoreInUse'
  BY <1>1, <1>2 DEF SystemBase, AllTasksAreSound, StoreInUse
<1>6. RowsAreThere' /\ OnlyMailIsTagged'
  BY <1>1, <1>2, <1>3
     DEF SystemBase, RowsAreThere, RowsForAll, OnlyMailIsTagged, Retrying, Holds
<1>7. \A i \in Item : Undisturbed(i)'
  BY <1>2, <1>3 DEF Undisturbed, QueueIsSafe, ClaimIsSafe, RetagIsSafe, VerdictIsShown,
     Retrying, Committed, Writes, Holds
<1>8. QED
  BY <1>4, <1>5, <1>6, <1>7 DEF SystemInv, SystemBase

(* Purge, beside a service that runs or not.                               *)
LEMMA PurgeKeeps ==
    ASSUME SystemInv, Purge \/ RestartPurged
    PROVE  SystemInv'
<1> USE DEF taskVars, stateVars, procVars, loopVars, serviceVars
<1>1. SystemBase /\ TypeOK
  BY BaseFacts DEF SystemInv
<1>2. CASE Purge
  <2>1. task["retag"].pc = "idle" /\ commands' \in 0..MaxCommands
    BY <1>1, <1>2, MaxCommandsAssumption, BaseFacts DEF Purge, Commanded
  <2>2. CASE up /\ purged' = TRUE /\ UNCHANGED stateVars
    <3>1. UNCHANGED <<mail, tag, task, items, retry_queue, up, notify, mutate, events, batch, faults, disturbed>>
      BY <1>2, <2>2 DEF Purge
    <3>2. SystemTypeOK'
      BY <1>1, <2>1, <2>2, <3>1 DEF SystemBase, SystemTypeOK, TypeOK, TaskTypeOK, StateTypeOK
    <3>3. StoreInUse'
      BY <1>1, <2>1, <2>2, <3>1 DEF SystemBase, StoreInUse
    <3>4. QED
      BY <3>1, <3>2, <3>3, StandingBackKeeps DEF Queued
  <2>3. CASE ~up /\ purged' = FALSE /\ NewStore
    BY <1>1, <1>2, <2>1, <2>3, NewStoreKeeps DEF Purge, TypeOK
  <2>4. QED
    BY <1>2, <2>2, <2>3 DEF Purge
<1>3. CASE RestartPurged
  <2>1. task["retag"].pc = "idle" /\ commands \in 0..MaxCommands
    BY <1>1, <1>3, BaseFacts DEF RestartPurged, SystemBase, StoreInUse
  <2>2. QED
    BY <1>3, <2>1, NewStoreKeeps DEF RestartPurged
<1>4. QED
  BY <1>2, <1>3

(* Mail that comes, and the events for it.                                 *)
LEMMA ReportingKeeps ==
    ASSUME SystemInv, NEW i \in Item, Reported(i)
    PROVE  SystemInv'
<1> USE ThreeTasks DEF taskVars, stateVars, procVars
<1>1. SystemBase /\ TypeOK /\ TaskTypeOK
  BY BaseFacts DEF SystemInv
<1>2. /\ UNCHANGED <<tag, task, items, retry_queue, up, notify, mutate, batch, faults, commands, purged>>
      /\ events' \in {events, Append(events, i)}
      /\ mail' = mail \/ (mail[i] = "absent" /\ mail' = [mail EXCEPT ![i] = "present"])
      /\ disturbed' = IF Holds("retag", i) /\ ~is_lares_tag(tag[i])
                      THEN disturbed \cup {i} ELSE disturbed
  BY DEF Reported, NewMail, Duplicate, Report
<1>3. /\ events' \in Seq(Item)
      /\ \A n \in DOMAIN events' : events'[n] = i \/ \E m \in DOMAIN events : events[m] = events'[n]
  <2>1. events \in Seq(Item)
    BY <1>1 DEF TypeOK
  <2>2. QED
    BY <1>2, <2>1
<1>4. SystemTypeOK'
  BY <1>1, <1>2, <1>3, BaseFacts DEF SystemBase, SystemTypeOK, TypeOK, TaskTypeOK, StateTypeOK
<1>5. AllTasksAreSound' /\ StoreInUse' /\ RowsAreThere' /\ OnlyMailIsTagged'
  BY <1>1, <1>2 DEF SystemBase, AllTasksAreSound, StoreInUse, RowsAreThere, RowsForAll,
     OnlyMailIsTagged, Retrying, Holds, Known, Queued, TaskTypeOK
<1>6. ASSUME NEW j \in Item \ disturbed' PROVE Undisturbed(j)'
  <2>1. Undisturbed(j)
    BY <1>2, <1>6 DEF SystemInv
  <2>2. CASE j # i
    <3>1. mail'[j] = mail[j] /\ tag'[j] = tag[j]
      BY <1>1, <1>2, <1>6, <2>2 DEF TaskTypeOK
    <3>2. QED
      BY <1>2, <1>3, <2>1, <2>2, <3>1, ElsewhereKeeps DEF Queued
  <2>3. CASE j = i
    <3>1. Holds("retag", i) => is_lares_tag(tag[i])
      BY <1>2, <1>6, <2>3
    <3>2. (mail[i] = "deleted") <=> (mail'[i] = "deleted")
      BY <1>1, <1>2 DEF TaskTypeOK
    <3>3. QueueIsSafe(i)' /\ ClaimIsSafe(i)' /\ VerdictIsShown(i)'
      BY <1>2, <2>1, <2>3, <3>2 DEF Undisturbed, QueueIsSafe, ClaimIsSafe, VerdictIsShown, Retrying,
         Committed, Holds, Queued, Tagged, Waits, Resumes
    <3>4. RetagIsSafe(i)'
      BY <1>2, <2>1, <2>3, <3>1, <3>2
         DEF Undisturbed, RetagIsSafe, Writes, Committed, Holds, Queued, Tagged
    <3>5. QED
      BY <2>3, <3>3, <3>4 DEF Undisturbed
  <2>4. QED
    BY <2>2, <2>3
<1>7. QED
  BY <1>4, <1>5, <1>6 DEF SystemInv, SystemBase

(* Mail that is deleted, whatever is going on about it.                    *)
LEMMA DeletingKeeps ==
    ASSUME SystemInv, NEW i \in Item, Delete(i), UNCHANGED commandVars
    PROVE  SystemInv'
<1> USE ThreeTasks DEF stateVars, procVars, loopVars, commandVars
<1>1. SystemBase /\ TypeOK /\ TaskTypeOK
  BY BaseFacts DEF SystemInv
<1>2. /\ UNCHANGED <<task, items, retry_queue, up, notify, mutate, events, batch, faults, commands, purged, disturbed>>
      /\ mail' = [mail EXCEPT ![i] = "deleted"] /\ tag' = [tag EXCEPT ![i] = NoTag]
  BY DEF Delete
<1>3. /\ mail'[i] = "deleted" /\ tag'[i] = NoTag
      /\ \A j \in Item \ {i} : mail'[j] = mail[j] /\ tag'[j] = tag[j]
  BY <1>1, <1>2 DEF TaskTypeOK
<1>4. SystemTypeOK'
  BY <1>1, <1>2 DEF SystemBase, SystemTypeOK, TypeOK, TaskTypeOK, StateTypeOK
<1>5. AllTasksAreSound' /\ StoreInUse' /\ RowsAreThere'
  BY <1>1, <1>2 DEF SystemBase, AllTasksAreSound, StoreInUse, RowsAreThere, RowsForAll,
     Retrying, Holds, Known, Queued
<1>6. OnlyMailIsTagged'
  BY <1>1, <1>3 DEF SystemBase, OnlyMailIsTagged
<1>7. ASSUME NEW j \in Item \ disturbed' PROVE Undisturbed(j)'
  <2>1. Undisturbed(j)
    BY <1>2, <1>7 DEF SystemInv
  <2>2. CASE j # i
    BY <1>2, <1>3, <2>1, <2>2, ElsewhereKeeps DEF Queued
  <2>3. CASE j = i
    <3>1. NoTag \notin LaresTags
      BY TaxonomyAssumption DEF LaresTags, Verdicts
    <3>2. QueueIsSafe(i)' /\ ClaimIsSafe(i)'
      BY <1>2, <1>3, <2>1, <2>3, <3>1 DEF Undisturbed, QueueIsSafe, ClaimIsSafe, Retrying,
         Committed, Holds, Queued, Tagged, Waits, Resumes, is_lares_tag
    <3>3. RetagIsSafe(i)'
      BY <1>2, <1>3, <2>1, <2>3
         DEF Undisturbed, RetagIsSafe, Writes, Committed, Holds, Queued, Tagged
    <3>4. VerdictIsShown(i)'
      BY <1>3, <3>1 DEF VerdictIsShown, LaresTags
    <3>5. QED
      BY <2>3, <3>2, <3>3, <3>4 DEF Undisturbed
  <2>4. QED
    BY <2>2, <2>3
<1>8. QED
  BY <1>4, <1>5, <1>6, <1>7 DEF SystemInv, SystemBase

(* A helper that exits, a restart, and the clock.                          *)
LEMMA TurningKeeps ==
    ASSUME SystemInv, UNCHANGED commandVars,
           \/ MutateExits \/ NotifyExits \/ Restart \/ UNCHANGED vars
           \/ \E i \in Item : RetryDue(i)
    PROVE  SystemInv'
<1> USE DEF taskVars, stateVars, procVars, loopVars, commandVars
<1>1. SystemBase /\ TypeOK /\ StateTypeOK
  BY BaseFacts DEF SystemInv
<1>2. UNCHANGED <<items, mail, tag, task, events, batch>>
  BY DEF MutateExits, NotifyExits, Restart, vars, RetryDue, BecomeDue
<1>3. retry_queue' \in [Item -> QueueRow] /\ \A i \in Item : Queued(i)' <=> Queued(i)
  <2>1. ASSUME NEW i \in Item, RetryDue(i)
        PROVE  retry_queue' \in [Item -> QueueRow] /\ \A j \in Item : Queued(j)' <=> Queued(j)
    BY <1>1, <2>1 DEF StateTypeOK, RetryDue, BecomeDue, QueueRow, Queued
  <2>2. CASE UNCHANGED retry_queue
    BY <1>1, <2>2 DEF StateTypeOK, Queued
  <2>3. QED
    BY <2>1, <2>2 DEF MutateExits, NotifyExits, Restart, vars
<1>4. /\ up' \in BOOLEAN /\ (up => up') /\ faults' \in Nat
      /\ notify' \in {"running", "exited"} /\ mutate' \in {"running", "exited"}
  <2>1. CASE MutateExits \/ NotifyExits
    BY <1>1, <2>1 DEF MutateExits, NotifyExits, Fault, TypeOK
  <2>2. CASE Restart \/ UNCHANGED vars \/ \E i \in Item : RetryDue(i)
    BY <1>1, <2>2 DEF Restart, vars, RetryDue, TypeOK
  <2>3. QED
    BY <2>1, <2>2
<1>5. SystemTypeOK'
  BY <1>1, <1>2, <1>3, <1>4, BaseFacts DEF SystemTypeOK, SystemBase, TypeOK, TaskTypeOK, StateTypeOK
<1>6. StoreInUse'
  BY <1>1, <1>2, <1>4 DEF SystemBase, StoreInUse
<1>7. QED
  BY <1>2, <1>3, <1>5, <1>6, StandingBackKeeps

(* The system starts in the invariant.                                     *)
LEMMA SystemInitIsSound ==
    ASSUME SystemInit
    PROVE  SystemInv
<1> USE ThreeTasks DEF SystemInit, Init, StateInit, TaskInit
<1>1. TypeOK
  BY InitIsSound DEF IInv
<1>2. SystemTypeOK
  <2>1. commands = 0 /\ 0 \in 0..MaxCommands
    BY MaxCommandsAssumption
  <2>2. purged \in BOOLEAN /\ disturbed \subseteq Item
    OBVIOUS
  <2>3. QED
    BY <1>1, <2>1, <2>2 DEF SystemTypeOK
<1>3. AllTasksAreSound /\ StoreInUse /\ OnlyMailIsTagged
  BY DEF AllTasksAreSound, StoreInUse, OnlyMailIsTagged, Idle
<1>4. RowsAreThere
  BY DEF RowsAreThere, RowsForAll, Retrying, Holds, Queued, NotQueued, Idle
<1>5. ASSUME NEW i \in Item PROVE Undisturbed(i)
  BY DEF Undisturbed, QueueIsSafe, ClaimIsSafe, RetagIsSafe, VerdictIsShown, Committed, Writes,
     Retrying, Holds, Queued, NotQueued, NoRow, Idle
<1>6. QED
  BY <1>2, <1>3, <1>4, <1>5 DEF SystemInv, SystemBase

(* A step of the service is one of Next, but for the refused writes.       *)
LEMMA ServiceSteps ==
    ASSUME ServiceStep
    PROVE  \/ Consume \/ Drain \/ Restart
           \/ \E t \in ServiceTask : Common(t) \/ StoreRefuses(t)
<1>1. CASE ReadingStep
  BY <1>1 DEF ReadingStep, Consume, Drain, Common, ClassifyAndApply, serviceVars
<1>2. CASE WritingStep
  BY <1>2 DEF WritingStep, Consume, Drain, Common, ClassifyAndApply, serviceVars
<1>3. QED
  BY <1>1, <1>2 DEF ServiceStep

(* Every step of the system keeps the invariant.                           *)
LEMMA SystemNextKeeps ==
    ASSUME SystemInv, [SystemNext]_sysVars
    PROVE  SystemInv'
<1>1. faults \in Nat
  BY BaseFacts DEF SystemInv, TypeOK
<1>2. ASSUME NEW t \in ServiceTask, Common(t) \/ ServeFails(t), UNCHANGED commandVars
      PROVE  SystemInv'
  <2>1. CASE ClassifyAndApply(t)
    BY <1>2, <2>1, ThreeTasks, SharedStepsKeep
  <2>2. CASE Raise(t)
    BY <1>2, <2>2, ServiceEndKeeps
  <2>3. CASE Serve(t) \/ ServeFails(t)
    BY <1>1, <1>2, <2>3, ThreeTasks, ServingKeeps DEF Serve, ServeFails, Fault, procVars, loopVars
  <2>4. CASE Unserved(t)
    <3>1. PICK r \in {"failed", "broken"} : Answer(t, r)
      BY <2>4 DEF Unserved
    <3>2. QED
      BY <1>1, <1>2, <2>4, <3>1, ThreeTasks, FailedReplyKeeps DEF Unserved, Replies
  <2>5. QED
    BY <1>2, <2>1, <2>2, <2>3, <2>4 DEF Common
<1>3. CASE ServiceStep
  <2>1. UNCHANGED commandVars
    BY <1>3 DEF ServiceStep
  <2>2. QED
    BY <1>2, <1>3, <2>1, ServiceSteps, ConsumeStepsKeep, DrainStepsKeep, TurningKeeps, ServiceEndKeeps
<1>4. CASE Environment
  <2>1. CASE Crash \/ \E t \in ServiceTask : CrashBumped(t)
    BY <1>4, <2>1, ThreeTasks, ServiceEndKeeps DEF Environment
  <2>2. QED
    BY <1>2, <1>4, <2>1, TurningKeeps, DeletingKeeps DEF Environment
<1>5. CASE Retag \/ RetagServeFails \/ RetagKilled
  BY <1>5, RetagStepsKeep
<1>6. CASE Purge \/ RestartPurged
  BY <1>6, PurgeKeeps
<1>7. CASE \E i \in Item : RetagStart(i) \/ Reported(i)
  BY <1>7, RetagStartKeeps, ReportingKeeps
<1>8. CASE UNCHANGED sysVars
  BY <1>8, TurningKeeps DEF sysVars
<1>9. QED
  BY <1>3, <1>4, <1>5, <1>6, <1>7, <1>8 DEF SystemNext
-----------------------------------------------------------------------------
(* The inductive invariant: whatever the user commands, whatever fails and *)
(* whenever a process ends.                                                *)
THEOREM SystemInvariance == SystemSpec => []SystemInv
<1>1. SystemInit => SystemInv
  BY SystemInitIsSound
<1>2. SystemInv /\ [SystemNext]_sysVars => SystemInv'
  BY SystemNextKeeps
<1>3. QED
  BY <1>1, <1>2, PTL DEF SystemSpec

(* Every variable has its type.                                            *)
THEOREM SystemTypeCorrect == SystemSpec => []SystemTypeOK
<1>1. SystemInv => SystemTypeOK
  BY DEF SystemInv, SystemBase
<1>2. QED
  BY <1>1, SystemInvariance, PTL

(* A mail the retag command found at rest, and no event reached while it   *)
(* was untagged, is never handled by two of the three tasks, although no   *)
(* lock keeps the command off the service.                                 *)
THEOREM RetagExclusion == SystemSpec => []RetagAlone
<1>1. SystemInv => RetagAlone
  <2> SUFFICES ASSUME SystemInv, NEW i \in Item \ disturbed, NEW t \in Task, NEW u \in Task,
                      Handles(t, i), Handles(u, i), t # u
               PROVE  FALSE
    BY DEF RetagAlone
  <2> USE ThreeTasks
  <2>1. Undisturbed(i)
    BY DEF SystemInv
  <2>2. Handles("consume", i) => Owns("consume", i)
    BY DEF Handles, Claimed, Owns, Committed
  <2>3. Handles("retag", i) => Owns("retag", i)
    BY DEF Handles, Owns, Writes
  <2>4. Handles("drain", i) => Queued(i)
    BY <2>1 DEF Handles, Undisturbed, QueueIsSafe
  <2>5. QED
    BY <2>1, <2>2, <2>3, <2>4, OwnerIsAlone DEF Handles
<1>2. QED
  BY <1>1, SystemInvariance, PTL

(* Such a mail is in the queue only while it is pending in the table and   *)
(* the skip check protects it.                                             *)
THEOREM UndisturbedQueueSound == SystemSpec => []QueueAgreesUndisturbed
<1>1. SystemInv => QueueAgreesUndisturbed
  BY DEF SystemInv, Undisturbed, QueueIsSafe, QueueAgreesUndisturbed
<1>2. QED
  BY <1>1, SystemInvariance, PTL

(* bump_attempts never meets a mail without a row, of any of the three     *)
(* tasks, disturbed mail and purged stores included.                       *)
THEOREM RowsExist == SystemSpec => []RowsForAll
<1>1. SystemInv => RowsForAll
  BY DEF SystemInv, SystemBase, RowsAreThere
<1>2. QED
  BY <1>1, SystemInvariance, PTL

(* A classified mail that shows a verdict shows the one that is recorded.  *)
THEOREM ShownAgrees == SystemSpec => []ShownIsRecorded
<1>1. SystemInv => ShownIsRecorded
  BY DEF SystemInv, Undisturbed, VerdictIsShown, ShownIsRecorded
<1>2. QED
  BY <1>1, SystemInvariance, PTL

(* A mail's tag changes by a set_tags that is awaited for it, or by its    *)
(* deletion.                                                               *)
LEMMA TagChanges ==
    ASSUME SystemInv, [SystemNext]_sysVars, NEW i \in Item, tag'[i] # tag[i]
    PROVE  \/ mail'[i] = "deleted"
           \/ \E t \in Task : Waits(t) /\ task[t].pc \in SetTagsCalls /\ task[t].item = i
                              /\ mail[i] = "present"
<1> USE ThreeTasks DEF taskVars
<1>1. TaskTypeOK
  BY BaseFacts DEF SystemInv
<1>2. ASSUME NEW t \in Task, Waits(t), task[t].pc \in SetTagsCalls, mail[task[t].item] = "present",
             tag' = [tag EXCEPT ![task[t].item] = task[t].tag]
      PROVE  task[t].item = i
  BY <1>1, <1>2 DEF TaskTypeOK
<1>3. ASSUME NEW t \in Task, ServeSetTags(t) \/ CallFails(t) \/ tag' = tag
      PROVE  Waits(t) /\ task[t].pc \in SetTagsCalls /\ task[t].item = i /\ mail[i] = "present"
  BY <1>2, <1>3 DEF ServeSetTags, CallFails
<1>4. ASSUME NEW t \in Task, ClassifyAndApply(t) \/ ServeFetch(t) \/ FetchJobFails(t) \/ AnswerTooLong(t)
      PROVE  tag' = tag
  BY <1>4 DEF ClassifyAndApply, Classify, ClassifierFails, RetryLater, Applied, Exhausted, ServeFetch,
     FetchJobFails, AnswerTooLong
<1>5. ASSUME NEW t \in ServiceTask, Common(t) \/ ServeFails(t) \/ StoreRefuses(t) \/ CrashBumped(t)
      PROVE  Waits(t) /\ task[t].pc \in SetTagsCalls /\ task[t].item = i /\ mail[i] = "present"
  BY <1>3, <1>4, <1>5 DEF Common, Raise, Down, Ended, Serve, Unserved, ServeFails, StoreRefuses, CrashBumped
<1>6. CASE Consume \/ Drain
  BY <1>6 DEF Consume, ConsumeTake, ConsumeDrop, ConsumeSkip, ConsumeMark, ConsumeMarked,
     Drain, DrainPop, DrainNext, DrainClassify, DrainDeleted, DrainPostpone, DrainGaveUp, RetryLater
<1>7. CASE Restart \/ MutateExits \/ NotifyExits \/ Crash \/ Purge \/ RestartPurged
           \/ UNCHANGED sysVars
  BY <1>7 DEF Restart, MutateExits, NotifyExits, Crash, Down, Ended, Purge, RestartPurged, sysVars, vars
<1>8. ASSUME NEW j \in Item, Delete(j) PROVE mail'[i] = "deleted"
  BY <1>1, <1>8 DEF Delete, TaskTypeOK
<1>9. ASSUME NEW j \in Item, RetryDue(j) \/ RetagStart(j) \/ Reported(j) PROVE tag' = tag
  BY <1>9 DEF RetryDue, RetagStart, Reported, NewMail, Duplicate
<1>10. CASE Retag \/ RetagServeFails \/ RetagKilled
  <2>1. RetagServed \/ RetagServeFails
    BY <1>4, <1>10 DEF Retag, RetagRemoved, RetagMarked, RetagFetched, RetagRaises, RetagKilled
  <2>2. QED
    BY <1>3, <1>4, <2>1 DEF RetagServed, RetagServeFails
<1>11. QED
  BY <1>5, <1>6, <1>7, <1>8, <1>9, <1>10, ServiceSteps DEF SystemNext, Environment

(* The tag of a settled mail stays: neither a lost store, nor a crash, nor *)
(* an event told twice makes the service write it again; only its retry    *)
(* queue and the retag command do.                                         *)
THEOREM SettledIsKept == SystemSpec => SettledStays
<1>1. SystemInv /\ [SystemNext]_sysVars
        => [\A i \in Item \ disturbed' :
               Settled(i) /\ ~Queued(i) /\ ~Holds("retag", i) =>
                   tag'[i] = tag[i] \/ mail'[i] = "deleted"]_sysVars
  <2> SUFFICES ASSUME SystemInv, [SystemNext]_sysVars, NEW i \in Item \ disturbed',
                      Settled(i), ~Queued(i), ~Holds("retag", i),
                      tag'[i] # tag[i], mail'[i] # "deleted"
               PROVE  FALSE
    OBVIOUS
  <2> USE ThreeTasks
  <2>1. disturbed \subseteq disturbed'
    <3>1. CASE UNCHANGED disturbed
      BY <3>1
    <3>2. CASE \E j \in Item : RetagStart(j) \/ Reported(j)
      BY <3>2 DEF RetagStart, Reported
    <3>3. QED
      BY <3>1, <3>2 DEF SystemNext, ServiceStep, Environment, Retag, RetagServeFails, RetagKilled,
         RetagRemoved, RetagMarked, RetagFetched, RetagRaises, RetagServed, Purge, RestartPurged,
         commandVars, sysVars
  <2>2. Undisturbed(i)
    BY <2>1 DEF SystemInv
  <2>3. PICK t \in Task : Waits(t) /\ task[t].pc \in SetTagsCalls /\ task[t].item = i
                          /\ mail[i] = "present"
    BY TagChanges
  <2>4. TaskIsSound(t)
    BY BaseFacts DEF SystemInv
  <2>5. CASE t = "consume"
    BY <2>2, <2>3, <2>4, <2>5 DEF Undisturbed, ClaimIsSafe, Committed, Holds, SetTagsCalls,
       TaskIsSound, Settled
  <2>6. CASE t = "drain"
    BY <2>2, <2>3, <2>6 DEF Undisturbed, QueueIsSafe, Retrying, Holds, SetTagsCalls
  <2>7. CASE t = "retag"
    BY <2>3, <2>7 DEF Holds, SetTagsCalls
  <2>8. QED
    BY <2>5, <2>6, <2>7
<1>2. QED
  BY <1>1, SystemInvariance, PTL DEF SystemSpec, SettledStays

(* Also beside the commands no retry of a mail is rescheduled sooner than  *)
(* the one before it: retag keeps the attempts of a row, and purge, which  *)
(* does not, empties the queue as well.                                    *)
THEOREM SystemBackoffIsKept == SystemSpec => BackoffGrows
<1>1. SystemInit => DelayFitsAttempts
  BY DEF SystemInit, Init, StateInit, NotQueued, Queued, DelayFitsAttempts
<1>2. ASSUME SystemInv, [SystemNext]_sysVars, NEW i \in Item PROVE QueueStep(i)
  <2> USE ThreeTasks
  <2>1. SystemBase
    BY <1>2 DEF SystemInv
  <2>2. StateTypeOK /\ items[i].attempts \in Nat
    BY <2>1, BaseFacts DEF StateTypeOK, ItemRow
  <2>3. \A t \in Task : /\ task[t].pc # "idle" => task[t].item \in Item
                        /\ task[t].pc = "apply" => task[t].tag \in Verdicts
    BY <2>1, BaseFacts DEF TaskIsSound
  <2>4. CASE UNCHANGED stateVars
    BY <2>2, <2>4 DEF stateVars, Queued, QueueStep
  <2>5. CASE \/ Consume \/ Drain
             \/ \E t \in Task : ClassifyAndApply(t)
             \/ \E j \in Item : RetryDue(j)
    BY <2>2, <2>3, <2>5, TaskQueueSteps
  <2>6. CASE RetagMarked
    <3>1. RecordPending(task["retag"].item) /\ task["retag"].item \in Item
      BY <2>3, <2>6 DEF RetagMarked, Resumes
    <3>2. QED
      BY <2>2, <3>1, RecordPendingEffect DEF QueueStep, Queued, RecordPending, StateTypeOK
  <2>7. CASE NewStore
    BY <2>7 DEF NewStore, NotQueued, Queued, QueueStep
  <2>8. ASSUME NEW t \in Task, \/ ServeFetch(t) \/ ServeSetTags(t) \/ FetchJobFails(t)
                               \/ AnswerTooLong(t) \/ CallFails(t)
        PROVE  UNCHANGED stateVars
    BY <2>8 DEF ServeFetch, ServeSetTags, FetchJobFails, AnswerTooLong, CallFails
  <2>9. ASSUME NEW j \in Item, BumpedOnly(j) PROVE QueueStep(i)
    BY <2>2, <2>9, BumpedOnlyEffect, EndQueueStep
  <2>10. CASE RetagKilled
    BY <2>3, <2>4, <2>9, <2>10 DEF RetagKilled
  <2>11. CASE Retag \/ RetagServeFails
    BY <2>4, <2>5, <2>6, <2>8, <2>11 DEF Retag, RetagRemoved, RetagFetched, RetagRaises, RetagServed,
       RetagServeFails
  <2>12. ASSUME NEW t \in ServiceTask, Common(t) \/ ServeFails(t) \/ StoreRefuses(t) PROVE QueueStep(i)
    BY <2>4, <2>5, <2>8, <2>12 DEF Common, Raise, Down, Serve, Unserved, ServeFails, StoreRefuses
  <2>13. ASSUME NEW t \in ServiceTask, CrashBumped(t) PROVE QueueStep(i)
    BY <2>3, <2>9, <2>13 DEF CrashBumped, Resumes
  <2>14. CASE Restart \/ MutateExits \/ NotifyExits \/ Crash \/ UNCHANGED sysVars
    BY <2>4, <2>14 DEF Restart, MutateExits, NotifyExits, Crash, Down, sysVars, vars
  <2>15. CASE Purge \/ RestartPurged
    BY <2>4, <2>7, <2>15 DEF Purge, RestartPurged
  <2>16. ASSUME NEW j \in Item, Delete(j) \/ RetagStart(j) \/ Reported(j) PROVE QueueStep(i)
    BY <2>4, <2>16 DEF Delete, RetagStart, Reported, NewMail, Duplicate
  <2>17. QED
    BY <1>2, <2>5, <2>11, <2>12, <2>14, <2>15, <2>16, <2>10, <2>13, ServiceSteps
       DEF SystemNext, Environment
<1>3. SystemInv /\ DelayFitsAttempts /\ [SystemNext]_sysVars
        => DelayFitsAttempts' /\ \A i \in Item : Queued(i) /\ Queued(i)' =>
                                       retry_queue'[i].delay >= retry_queue[i].delay
  <2> SUFFICES ASSUME SystemInv, DelayFitsAttempts, [SystemNext]_sysVars, NEW i \in Item, Queued(i)'
               PROVE  /\ retry_queue'[i].delay <= backoff_delay(items'[i].attempts)
                      /\ Queued(i) => retry_queue'[i].delay >= retry_queue[i].delay
    BY DEF DelayFitsAttempts
  <2>1. QueueStep(i) /\ StateTypeOK /\ StateTypeOK'
    BY <1>2, SystemNextKeeps DEF SystemInv, SystemBase, SystemTypeOK, TypeOK
  <2>2. QED
    BY <2>1, DelayIsKept DEF DelayFitsAttempts
<1>4. QED
  BY <1>1, <1>3, SystemInvariance, PTL DEF SystemSpec, BackoffGrows
=============================================================================
