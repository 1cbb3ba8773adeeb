------------------------- MODULE KMailFailureProofs -------------------------
(***************************************************************************)
(* Theorems on what failures can do to the triage service: nothing is lost *)
(* while only Ollama fails, and the attempts of a mail are bounded by what *)
(* ended the service.  The inductive invariant is FInv of KMailProperties, *)
(* which rests on IInv.                                                    *)
(***************************************************************************)
EXTENDS KMailServiceProofs, FiniteSetTheorems

(* The tags are distinct strings.                                          *)
USE DEF NoTag, LARES_PENDING, LARES_ERROR, LARES_UNCLASSIFIED

(* The types of the state, as far as the proofs use them, and what the     *)
(* invariant says of one task.                                             *)
LEMMA FailureFacts ==
    ASSUME FInv
    PROVE  /\ IInv /\ TypeOK /\ StateTypeOK /\ TaskTypeOK
           /\ "consume" \in Task /\ "drain" \in Task
           /\ faults \in Nat /\ Cardinality(Deleted) \in Nat /\ Ends \in Int
           /\ \A i \in Item : items[i].attempts \in Nat
           /\ \A t \in ServiceTask :
                 /\ task[t] \in TaskState
                 /\ task[t].pc # "idle" =>
                       task[t].item \in Item /\ mail[task[t].item] # "absent" /\ up
<1>1. IInv /\ TypeOK /\ StateTypeOK /\ TaskTypeOK
  BY DEF FInv, IInv, TypeOK
<1>2. \A i \in Item : items[i].attempts \in Nat
  BY <1>1 DEF StateTypeOK, ItemRow
<1>3. \A t \in ServiceTask : task[t] \in TaskState
  BY <1>1, TaskAssumption DEF TaskTypeOK
<1>4. \A t \in ServiceTask : task[t].pc # "idle" =>
          task[t].item \in Item /\ mail[task[t].item] # "absent" /\ up
  BY <1>1 DEF IInv, TasksAreSound, FInv, MailHasCome, Holds
<1>5. faults \in Nat /\ Cardinality(Deleted) \in Nat
  BY <1>1, FS_CardinalityType DEF FInv, TypeOK
<1>6. Ends \in Int
  BY <1>5 DEF Ends
<1>7. QED
  BY <1>1, <1>2, <1>3, <1>4, <1>5, <1>6, TaskAssumption DEF ServiceTask

(* What the tasks may be at mail i at the same time: a task that may write *)
(* for it, or retry it, is alone.                                          *)
LEMMA WriterIsAlone ==
    ASSUME IInv, NEW t \in ServiceTask, NEW i \in Item, Holds(t, i),
           t = "consume" => task[t].pc # "fetch"
    PROVE  /\ \A u \in ServiceTask \ {t} :
                 Holds(u, i) => u = "consume" /\ task[u].pc = "fetch"
           /\ t = "drain" => Queued(i) /\ items[i].state = "pending"
           /\ task[t].pc = "classify" => items[i].state = "pending"
<1>1. task["consume"] \in TaskState
  BY TaskAssumption DEF IInv, TypeOK, TaskTypeOK, ServiceTask
<1>2. QED
  BY <1>1 DEF IInv, RetriedIsPending, ClaimIsFresh, TasksAreSound, Retrying, Holds, Known, TaskState,
     MutateCalls, SetTagsCalls, ServiceTask
-----------------------------------------------------------------------------
(* A step of task t on mail i, and nothing else of the service.            *)
WorksOn(t, i) ==
    /\ \A u \in ServiceTask \ {t} : task'[u] = task[u]
    /\ task[t].pc # "idle" => task[t].item = i
    /\ task'[t].pc # "idle" => task'[t].item = i
    /\ up /\ mail[i] # "absent"
    /\ UNCHANGED <<mail, up, mutate>>
    /\ \A j \in Item \ {i} : /\ items'[j] = items[j] /\ retry_queue'[j] = retry_queue[j]
                             /\ tag'[j] = tag[j]
    /\ \A n \in DOMAIN events' : \E m \in DOMAIN events : events[m] = events'[n]

(* What a step on mail i leaves of CalmIsKept to task t.                   *)
KeepsCalm(t, i) ==
    Calm' => /\ task'[t].reply \in {"none", "wait", "ok"}
             /\ Resumes(t, "exhaust", "ok")' \/ Resumes(t, "giveup", "ok")' =>
                    tag'[i] = LARES_ERROR
             /\ tag'[i] = LARES_PENDING =>
                    Queued(i)' \/ Claimed(i)' \/ items'[i].verdict = LARES_PENDING

(* A step of one task keeps the invariant if it does so for that task and  *)
(* that mail, as far as calm is concerned and the count: no more ends come *)
(* than were about to, and if the attempts grow, by one, they were not one *)
(* too many.                                                               *)
LEMMA WorkKeeps ==
    ASSUME FInv, IInv', NEW t \in ServiceTask, NEW i \in Item, WorksOn(t, i),
           KeepsCalm(t, i), tag'[i] = tag[i] \/ (Holds(t, i) /\ task[t].pc \in SetTagsCalls),
           \/ faults' = faults /\ (Dooms(t)' => Doomed)
           \/ faults' = faults + 1,
           \/ /\ items'[i].attempts = items[i].attempts
              /\ GivenUp(i) => GivenUp(i)' \/ items[i].attempts = 0
           \/ /\ items'[i].attempts = items[i].attempts + 1 /\ ~GivenUp(i)
              /\ GivenUp(i)' \/ items'[i].attempts <= MaxRetries
    PROVE  FInv'
<1>1. IInv /\ TypeOK /\ faults \in Nat /\ Cardinality(Deleted) \in Nat /\ Ends \in Int
      /\ \A j \in Item : items[j].attempts \in Nat
  BY FailureFacts
<1>2. Deleted' = Deleted
  BY DEF WorksOn, Deleted
<1>3. MailHasCome'
  <2>1. \A j \in Item : Queued(j)' => Queued(j) \/ j = i
    BY DEF WorksOn, Queued
  <2>2. QED
    BY <2>1 DEF FInv, MailHasCome, WorksOn, Holds
<1>4. CalmIsKept'
  <2> SUFFICES ASSUME Calm'
               PROVE  /\ up' /\ mutate' = "running"
                      /\ \A u \in ServiceTask :
                            /\ task'[u].reply \in {"none", "wait", "ok"}
                            /\ Resumes(u, "exhaust", "ok")' \/ Resumes(u, "giveup", "ok")' =>
                                  tag'[task'[u].item] = LARES_ERROR
                      /\ OutageIsHarmless'
    BY DEF CalmIsKept
  <2>1. Calm
    BY <1>1, <1>2 DEF Calm
  <2>2. up' /\ mutate' = "running"
    BY <2>1 DEF FInv, CalmIsKept, WorksOn
  <2>3. ASSUME NEW u \in ServiceTask
        PROVE  /\ task'[u].reply \in {"none", "wait", "ok"}
               /\ Resumes(u, "exhaust", "ok")' \/ Resumes(u, "giveup", "ok")' =>
                      tag'[task'[u].item] = LARES_ERROR
    <3>1. CASE u = t
      BY <3>1 DEF KeepsCalm, WorksOn, Resumes
    <3>2. CASE u # t
      <4>1. task'[u] = task[u] /\ task[u].reply \in {"none", "wait", "ok"}
        BY <2>1, <3>2 DEF WorksOn, FInv, CalmIsKept
      <4>2. ASSUME Resumes(u, "exhaust", "ok") \/ Resumes(u, "giveup", "ok")
            PROVE  tag'[task[u].item] = LARES_ERROR
        <5>1. tag[task[u].item] = LARES_ERROR /\ task[u].item \in Item
          BY <2>1, <4>2, FailureFacts DEF FInv, CalmIsKept, Resumes
        <5>2. task[u].item = i => tag'[i] = tag[i]
          <6> SUFFICES ASSUME task[u].item = i, Holds(t, i), task[t].pc \in SetTagsCalls
                       PROVE  FALSE
            OBVIOUS
          <6>1. Holds(u, i) /\ task[u].pc # "fetch"
            BY <4>2 DEF Holds, Resumes
          <6>2. QED
            BY <1>1, <3>2, <6>1, WriterIsAlone DEF SetTagsCalls
        <5>3. QED
          BY <5>1, <5>2 DEF WorksOn
      <4>3. QED
        BY <4>1, <4>2 DEF Resumes
    <3>3. QED
      BY <3>1, <3>2
  <2>4. OutageIsHarmless'
    <3> SUFFICES ASSUME NEW j \in Item, tag'[j] = LARES_PENDING
                 PROVE  Queued(j)' \/ Claimed(j)' \/ items'[j].verdict = LARES_PENDING
      BY DEF OutageIsHarmless
    <3>1. CASE j = i
      BY <3>1 DEF KeepsCalm
    <3>2. CASE j # i
      <4>1. Queued(j) \/ Claimed(j) \/ items[j].verdict = LARES_PENDING
        BY <2>1, <3>2 DEF FInv, CalmIsKept, OutageIsHarmless, WorksOn
      <4>2. Claimed(j) => Claimed(j)'
        BY <3>2 DEF Claimed, Holds, WorksOn, ServiceTask
      <4>3. QED
        BY <3>2, <4>1, <4>2 DEF WorksOn, Queued
    <3>3. QED
      BY <3>1, <3>2
  <2>5. QED
    BY <2>2, <2>3, <2>4
<1>5. Ends' \in Int /\ Ends' >= Ends
  <2>1. faults' = faults => (Doomed' => Doomed)
    <3>1. ASSUME faults' = faults, Doomed' PROVE Doomed
      <4>1. CASE up' /\ mutate' = "exited"
        BY <4>1 DEF Doomed, WorksOn
      <4>2. ASSUME NEW u \in ServiceTask, Dooms(u)' PROVE Doomed
        <5>1. CASE u = t
          BY <1>1, <3>1, <4>2, <5>1
        <5>2. CASE u # t
          BY <1>2, <4>2, <5>2 DEF Doomed, Dooms, Resumes, WorksOn
        <5>3. QED
          BY <5>1, <5>2
      <4>3. QED
        BY <3>1, <4>1, <4>2 DEF Doomed
    <3>2. QED
      BY <3>1
  <2>2. QED
    BY <1>1, <1>2, <2>1 DEF Ends
<1>6. EndsAreCounted'
  <2>1. ASSUME NEW j \in Item
        PROVE  items'[j].attempts <= MaxRetries + (IF GivenUp(j)' THEN 1 ELSE 0) + Ends'
    <3>1. items[j].attempts <= MaxRetries + (IF GivenUp(j) THEN 1 ELSE 0) + Ends /\ Ends >= 0
          /\ items[j].attempts \in Nat
      BY <1>1 DEF FInv, EndsAreCounted
    <3>2. CASE j = i
      BY <1>1, <1>5, <3>1, <3>2, MaxRetriesAssumption
    <3>3. CASE j # i
      <4>1. GivenUp(j) => GivenUp(j)'
        BY <3>3 DEF GivenUp, WorksOn, Holds
      <4>2. items'[j] = items[j]
        BY <3>3 DEF WorksOn
      <4>3. QED
        BY <1>1, <1>5, <3>1, <4>1, <4>2, MaxRetriesAssumption
    <3>4. QED
      BY <3>2, <3>3
  <2>2. QED
    BY <1>1, <1>5, <2>1 DEF FInv, EndsAreCounted
<1>7. QED
  BY <1>2, <1>3, <1>4, <1>6 DEF FInv
-----------------------------------------------------------------------------
(* A task that goes back to its loop with nothing written: no call of it   *)
(* failed, or all is not calm.                                             *)
LEMMA AbandoningKeeps ==
    ASSUME FInv, IInv', NEW t \in ServiceTask, task[t].pc = "fetch", Finish(t),
           UNCHANGED <<mail, tag, stateVars, procVars, loopVars, faults>>
    PROVE  FInv'
<1> USE TaskAssumption DEF ServiceTask, stateVars, procVars, loopVars
<1>1. PICK i \in Item : task[t].item = i /\ mail[i] # "absent" /\ up
  BY FailureFacts
<1>2. task' \in [Task -> TaskState] /\ task'[t] = Idle /\ \A u \in Task \ {t} : task'[u] = task[u]
  BY FailureFacts, FinishEffect
<1>3. WorksOn(t, i)
  BY <1>1, <1>2 DEF WorksOn, Idle
<1>4. KeepsCalm(t, i)
  <2>1. Calm' => Calm
    BY DEF Calm, Deleted
  <2>2. Queued(i) => Queued(i)'
    BY DEF Queued
  <2>3. Claimed(i) => Claimed(i)'
    BY <1>2 DEF Claimed, Holds
  <2>4. QED
    BY <1>2, <2>1, <2>2, <2>3 DEF KeepsCalm, FInv, CalmIsKept, OutageIsHarmless, Resumes, Idle
<1>5. ~Dooms(t)'
  BY <1>2 DEF Dooms, Resumes, Idle
<1>6. GivenUp(i) => GivenUp(i)'
  BY <1>2 DEF GivenUp, Holds
<1>7. QED
  BY <1>3, <1>4, <1>5, <1>6, WorkKeeps

(* A task that settles its mail.                                           *)
LEMMA GivingUpKeeps ==
    ASSUME FInv, IInv', NEW t \in ServiceTask, NEW i \in Item, task[t].pc # "idle", task[t].item = i,
           items'[i].state \in {"classified", "error"}, items'[i].attempts = items[i].attempts,
           \A j \in Item \ {i} : items'[j] = items[j] /\ retry_queue'[j] = retry_queue[j],
           Calm => tag[i] # LARES_PENDING \/ items'[i].verdict = LARES_PENDING,
           Finish(t), UNCHANGED <<mail, tag, procVars, loopVars, faults>>
    PROVE  FInv'
<1> USE TaskAssumption DEF ServiceTask, procVars, loopVars
<1>1. mail[i] # "absent" /\ up
  BY FailureFacts
<1>2. task' \in [Task -> TaskState] /\ task'[t] = Idle /\ \A u \in Task \ {t} : task'[u] = task[u]
  BY FailureFacts, FinishEffect
<1>3. WorksOn(t, i)
  BY <1>1, <1>2 DEF WorksOn, Idle
<1>4. KeepsCalm(t, i)
  BY <1>2 DEF KeepsCalm, Calm, Deleted, Resumes, Idle
<1>5. ~Dooms(t)'
  BY <1>2 DEF Dooms, Resumes, Idle
<1>6. GivenUp(i)'
  BY DEF GivenUp
<1>7. QED
  BY <1>3, <1>4, <1>5, <1>6, WorkKeeps

(* The failure path: one attempt more, and the queue if it was not too     *)
(* many.                                                                   *)
LEMMA CountingKeeps ==
    ASSUME FInv, IInv', NEW t \in ServiceTask, NEW pc \in {"exhaust", "giveup"}, NEW i \in Item,
           task[t].item = i,
           \/ task[t].pc = "classify" /\ pc = "exhaust"
           \/ Resumes("drain", "fetch", "failed") /\ t = "drain" /\ pc = "giveup",
           RetryLater(t, pc),
           UNCHANGED <<procVars, loopVars, faults>>
    PROVE  FInv'
<1> USE TaskAssumption DEF ServiceTask, procVars, loopVars
<1> DEFINE n == items[i].attempts + 1
<1>1. IInv /\ StateTypeOK /\ TaskTypeOK /\ n \in Nat
  BY FailureFacts
<1>2. task[t].pc # "idle" /\ mail[i] # "absent" /\ up
  BY FailureFacts DEF Resumes
<1>3. /\ items'[i].attempts = n /\ items'[i].verdict = items[i].verdict
      /\ \A j \in Item \ {i} : items'[j] = items[j]
  BY <1>1, BumpEffect DEF RetryLater
<1>4. /\ \A u \in Task \ {t} : task'[u] = task[u]
      /\ \A j \in Item \ {i} : retry_queue'[j] = retry_queue[j]
      /\ \/ /\ task'[t] = [pc |-> pc, item |-> i, tag |-> LARES_ERROR, reply |-> "wait"]
            /\ retry_queue' = retry_queue
         \/ task'[t] = Idle /\ Queued(i)' /\ n <= MaxRetries
  <2>1. CASE Call(t, pc, i, LARES_ERROR) /\ UNCHANGED retry_queue
    BY <1>1, <2>1, CallEffect DEF MutateCalls, SetTagsCalls, LaresTags
  <2>2. CASE EnqueueRetry(i, n) /\ Finish(t) /\ n <= MaxRetries
    BY <1>1, <2>2, FinishEffect, EnqueueEffect
  <2>3. QED
    BY <2>1, <2>2 DEF RetryLater
<1>5. UNCHANGED <<mail, tag>>
  BY DEF RetryLater
<1> HIDE DEF n
<1>6. WorksOn(t, i)
  BY <1>2, <1>3, <1>4, <1>5 DEF WorksOn, Idle
<1>7. KeepsCalm(t, i)
  <2>1. Calm' => Calm
    BY <1>5 DEF Calm, Deleted
  <2>2. CASE task[t].pc = "classify" /\ pc = "exhaust"
    <3>1. Queued(i) \/ Claimed(i) \/ items[i].verdict = LARES_PENDING
              => Queued(i)' \/ Claimed(i)' \/ items'[i].verdict = LARES_PENDING
      BY <1>2, <1>3, <1>4, <2>2 DEF Claimed, Holds, Queued, Idle
    <3>2. QED
      BY <1>4, <1>5, <2>1, <2>2, <3>1
         DEF KeepsCalm, FInv, CalmIsKept, OutageIsHarmless, Resumes, Idle
  <2>3. CASE Resumes("drain", "fetch", "failed")
    BY <2>1, <2>3 DEF KeepsCalm, FInv, CalmIsKept, Resumes
  <2>4. QED
    BY <2>2, <2>3
<1>8. Dooms(t)' => Doomed
  BY <1>2, <1>4, <1>5 DEF Doomed, Dooms, Deleted, Resumes, Idle
<1>9. ~GivenUp(i)
  <2>1. Holds(t, i) /\ (t = "consume" => task[t].pc # "fetch")
    BY <1>2 DEF Holds
  <2>2. items[i].state = "pending"
    BY <1>1, <2>1, WriterIsAlone
  <2>3. ASSUME NEW u \in ServiceTask, Holds(u, i) PROVE task[u].pc \notin {"exhaust", "giveup"}
    BY <1>1, <2>1, <2>3, WriterIsAlone DEF Resumes
  <2>4. QED
    BY <2>2, <2>3 DEF GivenUp
<1>10. GivenUp(i)' \/ items'[i].attempts <= MaxRetries
  BY <1>3, <1>4 DEF GivenUp, Holds
<1>11. QED
  BY <1>3, <1>5, <1>6, <1>7, <1>8, <1>9, <1>10, WorkKeeps DEF n

(* A task that goes on with its mail, from one await to the next, while    *)
(* the tags and the queue stay as they are.                                *)
LEMMA GoingOnKeeps ==
    ASSUME FInv, IInv', NEW t \in ServiceTask, NEW i \in Item,
           task[t].pc # "idle" => task[t].item = i,
           task[t].pc = "idle" => up /\ mail[i] # "absent",
           task'[t].item = i, task'[t].reply \in {"none", "wait"},
           \A u \in ServiceTask \ {t} : task'[u] = task[u],
           /\ task[t].pc \in {"idle", "fetch"} /\ task'[t].pc = "fetch"
           \/ /\ Resumes(t, "fetch", "ok") \/ task[t].pc \in {"mark", "classify"}
              /\ task'[t].pc \in {"mark", "classify", "apply"},
           UNCHANGED <<mail, tag, retry_queue, procVars, faults>>,
           \A n \in DOMAIN events' : \E m \in DOMAIN events : events[m] = events'[n],
           items'[i].attempts = items[i].attempts, items'[i].verdict = items[i].verdict,
           items'[i].state = items[i].state \/ items[i].attempts = 0,
           \A j \in Item \ {i} : items'[j] = items[j]
    PROVE  FInv'
<1> USE DEF procVars
<1>1. WorksOn(t, i)
  BY FailureFacts DEF WorksOn, Resumes
<1>2. KeepsCalm(t, i)
  <2>1. Calm' => Calm
    BY DEF Calm, Deleted
  <2>2. (Queued(i) => Queued(i)') /\ (Claimed(i) => Claimed(i)')
    BY DEF Queued, Claimed, Holds, ServiceTask
  <2>3. QED
    BY <2>1, <2>2 DEF KeepsCalm, FInv, CalmIsKept, OutageIsHarmless, Resumes
<1>3. Dooms(t)' => Dooms(t)
  BY DEF Dooms, Deleted, Resumes
<1>4. Dooms(t) => Doomed
  BY DEF Doomed
<1>5. GivenUp(i) => GivenUp(i)' \/ items[i].attempts = 0
  BY DEF GivenUp, Holds, Resumes
<1>6. QED
  BY <1>1, <1>2, <1>3, <1>4, <1>5, WorkKeeps
-----------------------------------------------------------------------------
(* The actions of the tasks and of the helper.                             *)

(* consume_one_event.                                                      *)
LEMMA ConsumingKeeps ==
    ASSUME FInv, IInv', Consume
    PROVE  FInv'
<1> USE DEF ServiceTask, stateVars, procVars, loopVars
<1> DEFINE c == task["consume"]
<1>1. IInv /\ TypeOK /\ StateTypeOK /\ TaskTypeOK /\ "consume" \in Task
  BY FailureFacts
<1>2. c.pc # "idle" => c.item \in Item
  BY FailureFacts
<1>3. CASE ConsumeTake
  <2>1. events \in Seq(Item) /\ events # <<>> /\ Len(events) \in Nat /\ DOMAIN events = 1..Len(events)
    BY <1>1, <1>3 DEF ConsumeTake, TypeOK
  <2>2. PICK i \in Item : i = Head(events) /\ mail[i] # "absent"
    <3>1. 1 \in DOMAIN events /\ Head(events) = events[1] /\ events[1] \in Item
      BY <2>1
    <3>2. QED
      BY <3>1 DEF FInv, MailHasCome
  <2>3. \A n \in DOMAIN Tail(events) : \E m \in DOMAIN events : events[m] = Tail(events)[n]
    <3>1. \A n \in 1..(Len(events) - 1) : Tail(events)[n] = events[n + 1] /\ n + 1 \in DOMAIN events
      BY <2>1
    <3>2. DOMAIN Tail(events) = 1..(Len(events) - 1)
      BY <2>1
    <3>3. QED
      BY <3>1, <3>2
  <2>4. /\ task'["consume"] = [pc |-> "fetch", item |-> i, tag |-> NoTag, reply |-> "wait"]
        /\ \A u \in ServiceTask \ {"consume"} : task'[u] = task[u]
    BY <1>1, <1>3, <2>2, TaskAssumption, CallEffect DEF ConsumeTake, MutateCalls
  <2>5. QED
    BY <1>3, <2>2, <2>3, <2>4, GoingOnKeeps DEF ConsumeTake
<1>4. CASE ConsumeDrop \/ ConsumeSkip
  BY <1>4, AbandoningKeeps DEF ConsumeDrop, ConsumeSkip, Resumes
<1>5. CASE ConsumeMark
  <2>1. PICK i \in Item : c.item = i
    BY <1>2, <1>5 DEF ConsumeMark, Resumes
  <2>2. /\ task'["consume"] = [pc |-> "mark", item |-> i, tag |-> LARES_PENDING, reply |-> "wait"]
        /\ \A u \in ServiceTask \ {"consume"} : task'[u] = task[u]
    BY <1>1, <1>5, <2>1, TaskAssumption, CallEffect
       DEF ConsumeMark, MutateCalls, SetTagsCalls, LaresTags
  <2>3. Resumes("consume", "fetch", "ok")
        /\ UNCHANGED <<mail, tag, stateVars, procVars, loopVars, faults>>
    BY <1>5 DEF ConsumeMark
  <2>4. QED
    BY <2>1, <2>2, <2>3, GoingOnKeeps DEF Resumes
<1>6. CASE ConsumeMarked
  <2>1. PICK i \in Item : c.item = i
    BY <1>2, <1>6 DEF ConsumeMarked, Resumes
  <2>2. /\ task'["consume"].pc = "classify" /\ task'["consume"].item = i
        /\ task'["consume"].reply = "none"
        /\ \A u \in ServiceTask \ {"consume"} : task'[u] = task[u]
    BY <1>1, <1>6, <2>1, TaskAssumption, AskEffect DEF ConsumeMarked
  <2>3. /\ items'[i].attempts = items[i].attempts /\ items'[i].verdict = items[i].verdict
        /\ retry_queue' = retry_queue /\ \A j \in Item \ {i} : items'[j] = items[j]
    BY <1>1, <1>6, <2>1, RecordPendingEffect DEF ConsumeMarked
  <2>4. items[i].attempts = 0
    BY <1>1, <1>6, <2>1 DEF ConsumeMarked, Resumes, IInv, ClaimIsFresh, RowsAreTagged, NoRow
  <2>5. c.pc = "mark" /\ UNCHANGED <<mail, tag, procVars, loopVars, faults>>
    BY <1>6 DEF ConsumeMarked, Resumes
  <2>6. QED
    BY <2>1, <2>2, <2>3, <2>4, <2>5, GoingOnKeeps
<1>7. QED
  BY <1>3, <1>4, <1>5, <1>6 DEF Consume

(* _drain_loop and drain_one_due, but for the pop.                         *)
LEMMA DrainingKeeps ==
    ASSUME FInv, IInv', Drain, ~DrainPop
    PROVE  FInv'
<1> USE DEF ServiceTask, stateVars, procVars, loopVars
<1> DEFINE d == task["drain"]
<1>1. IInv /\ TypeOK /\ StateTypeOK /\ TaskTypeOK /\ "drain" \in Task
  BY FailureFacts
<1>2. d.pc # "idle" => d.item \in Item
  BY FailureFacts
<1>3. CASE DrainNext
  <2>1. PICK i \in batch : Call("drain", "fetch", i, NoTag) /\ batch' = batch \ {i}
    BY <1>3 DEF DrainNext
  <2>2. i \in Item /\ mail[i] # "absent"
    BY <1>1 DEF TypeOK, IInv, RetriedIsPending, Retrying, FInv, MailHasCome
  <2>3. /\ task'["drain"] = [pc |-> "fetch", item |-> i, tag |-> NoTag, reply |-> "wait"]
        /\ \A u \in ServiceTask \ {"drain"} : task'[u] = task[u]
    BY <1>1, <2>1, <2>2, TaskAssumption, CallEffect DEF MutateCalls
  <2>4. d.pc = "idle" /\ up /\ UNCHANGED <<mail, tag, stateVars, procVars, events, faults>>
    BY <1>3 DEF DrainNext
  <2>5. QED
    BY <2>2, <2>3, <2>4, GoingOnKeeps
<1>4. CASE DrainClassify
  <2>1. PICK i \in Item : d.item = i
    BY <1>2, <1>4 DEF DrainClassify, Resumes
  <2>2. /\ task'["drain"].pc = "classify" /\ task'["drain"].item = i
        /\ task'["drain"].reply = "none"
        /\ \A u \in ServiceTask \ {"drain"} : task'[u] = task[u]
    BY <1>1, <1>4, <2>1, TaskAssumption, AskEffect DEF DrainClassify
  <2>3. Resumes("drain", "fetch", "ok")
        /\ UNCHANGED <<mail, tag, stateVars, procVars, loopVars, faults>>
    BY <1>4 DEF DrainClassify
  <2>4. QED
    BY <2>1, <2>2, <2>3, GoingOnKeeps DEF Resumes
<1>5. CASE DrainPostpone
  <2>1. d.item \in Item /\ Resumes("drain", "fetch", "failed")
    BY <1>2, <1>5 DEF DrainPostpone, Resumes
  <2>2. QED
    BY <1>5, <2>1, CountingKeeps DEF DrainPostpone
<1>6. CASE DrainDeleted \/ DrainGaveUp
  <2>1. PICK reason \in Reason : RecordError(d.item, reason)
    BY <1>6 DEF DrainDeleted, DrainGaveUp, Reason
  <2>2. /\ d.pc # "idle" /\ Finish("drain")
        /\ UNCHANGED <<mail, tag, procVars, loopVars, faults>>
    BY <1>6 DEF DrainDeleted, DrainGaveUp, Resumes
  <2>3. PICK i \in Item : d.item = i
    BY <1>2, <2>2
  <2>4. /\ items'[i].state = "error" /\ items'[i].attempts = items[i].attempts
        /\ \A j \in Item \ {i} : items'[j] = items[j] /\ retry_queue'[j] = retry_queue[j]
    BY <1>1, <2>1, <2>3, RecordErrorEffect
  <2>5. Calm => tag[i] = LARES_ERROR
    BY <1>6, <2>3 DEF DrainDeleted, DrainGaveUp, Resumes, FInv, CalmIsKept
  <2>6. QED
    BY <2>2, <2>3, <2>4, <2>5, GivingUpKeeps
<1>7. QED
  BY <1>3, <1>4, <1>5, <1>6 DEF Drain

(* _classify_and_apply, run by either task.                                *)
LEMMA ClassifyingKeeps ==
    ASSUME FInv, IInv', NEW t \in ServiceTask, ClassifyAndApply(t)
    PROVE  FInv'
<1> USE DEF stateVars, procVars, loopVars
<1>1. IInv /\ StateTypeOK /\ TaskTypeOK /\ t \in Task
  BY FailureFacts, TaskAssumption
<1>2. UNCHANGED <<procVars, loopVars, faults>>
  BY DEF ClassifyAndApply
<1>3. task[t].pc \in {"classify", "apply", "exhaust"}
  BY DEF ClassifyAndApply, Classify, ClassifierFails, Applied, Exhausted, Resumes
<1>4. PICK i \in Item : task[t].item = i
  BY <1>3, FailureFacts
<1>5. CASE Classify(t)
  <2>1. PICK v \in Verdicts : Call(t, "apply", i, v)
    BY <1>4, <1>5 DEF Classify
  <2>2. /\ task'[t] = [pc |-> "apply", item |-> i, tag |-> v, reply |-> "wait"]
        /\ \A u \in ServiceTask \ {t} : task'[u] = task[u]
    BY <1>1, <2>1, TaskAssumption, CallEffect DEF MutateCalls, SetTagsCalls, LaresTags
  <2>3. task[t].pc = "classify" /\ UNCHANGED <<mail, tag, stateVars>>
    BY <1>5 DEF Classify
  <2>4. QED
    BY <1>2, <1>4, <2>2, <2>3, GoingOnKeeps
<1>6. CASE ClassifierFails(t)
  BY <1>2, <1>4, <1>6, CountingKeeps DEF ClassifierFails
<1>7. CASE Applied(t)
  <2>1. Resumes(t, "apply", "ok") /\ task[t].tag \in Verdicts
    BY <1>1, <1>7 DEF Applied, Resumes, IInv, TasksAreSound
  <2>2. /\ items'[i].state = "classified" /\ items'[i].verdict = task[t].tag
        /\ items'[i].attempts = items[i].attempts
        /\ \A j \in Item \ {i} : items'[j] = items[j] /\ retry_queue'[j] = retry_queue[j]
    BY <1>1, <1>4, <1>7, <2>1, RecordClassifiedEffect DEF Applied
  <2>3. Calm => tag[i] = task[t].tag
    BY <1>1, <1>4, <2>1 DEF IInv, AppliedIsShown, Calm, Deleted
  <2>4. QED
    BY <1>2, <1>3, <1>4, <1>7, <2>2, <2>3, GivingUpKeeps DEF Applied
<1>8. CASE Exhausted(t)
  <2>1. /\ items'[i].state = "error" /\ items'[i].attempts = items[i].attempts
        /\ \A j \in Item \ {i} : items'[j] = items[j] /\ retry_queue'[j] = retry_queue[j]
    BY <1>1, <1>4, <1>8, RecordErrorEffect DEF Exhausted, Reason
  <2>2. Calm => tag[i] = LARES_ERROR
    BY <1>4, <1>8 DEF Exhausted, FInv, CalmIsKept
  <2>3. QED
    BY <1>2, <1>3, <1>4, <1>8, <2>1, <2>2, GivingUpKeeps DEF Exhausted
<1>9. QED
  BY <1>5, <1>6, <1>7, <1>8 DEF ClassifyAndApply

(* The helper serves a call, fails to, or is gone.                         *)
LEMMA AnsweringKeeps ==
    ASSUME FInv, IInv', NEW t \in ServiceTask, Serve(t) \/ ServeFails(t) \/ Unserved(t)
    PROVE  FInv'
<1> USE DEF stateVars, procVars, loopVars
<1>1. IInv /\ TaskTypeOK /\ faults \in Nat /\ t \in Task /\ task[t] \in TaskState
  BY FailureFacts, TaskAssumption
<1>2. Waits(t) /\ UNCHANGED <<mail, items, retry_queue, up, notify, mutate, events, batch>>
  BY DEF Serve, ServeFetch, ServeSetTags, ServeFails, FetchJobFails, AnswerTooLong, CallFails, Unserved
<1>3. PICK i \in Item : task[t].item = i /\ mail[i] # "absent" /\ up
  BY <1>2, FailureFacts DEF Waits, MutateCalls, SetTagsCalls
<1>4. PICK r \in Replies : /\ \A u \in ServiceTask \ {t} : task'[u] = task[u]
                           /\ task'[t].pc = task[t].pc /\ task'[t].item = i /\ task'[t].reply = r
  <2>1. ASSUME NEW r \in Replies, Answer(t, r)
        PROVE  /\ \A u \in ServiceTask \ {t} : task'[u] = task[u]
               /\ task'[t].pc = task[t].pc /\ task'[t].item = i /\ task'[t].reply = r
    BY <1>1, <1>3, <2>1, TaskAssumption, ReplyEffect
  <2>2. CASE task' = [task EXCEPT ![t].reply = "ok", ![t].tag = tag[i]]
    BY <1>1, <1>3, <2>2, TaskAssumption DEF TaskTypeOK, TaskState, Replies
  <2>3. QED
    BY <1>3, <2>1, <2>2 DEF Serve, ServeFetch, ServeSetTags, ServeFails, FetchJobFails, AnswerTooLong,
       CallFails, Unserved, Replies
<1>5. \/ tag' = tag
      \/ task[t].pc \in SetTagsCalls /\ tag' = [tag EXCEPT ![i] = task[t].tag]
  BY <1>3 DEF Serve, ServeFetch, ServeSetTags, ServeFails, FetchJobFails, AnswerTooLong, CallFails, Unserved
<1>6. WorksOn(t, i)
  BY <1>1, <1>2, <1>3, <1>4, <1>5 DEF WorksOn, TaskTypeOK
<1>7. GivenUp(i) => GivenUp(i)'
  BY <1>2, <1>4 DEF GivenUp, Holds
<1>8. Holds(t, i)
  BY <1>2, <1>3 DEF Holds, Waits, MutateCalls, SetTagsCalls
<1>9. CASE ServeFails(t)
  <2>1. faults' = faults + 1
    BY <1>9 DEF ServeFails, Fault
  <2>2. KeepsCalm(t, i)
    BY <1>1, <2>1 DEF KeepsCalm, Calm
  <2>3. QED
    BY <1>2, <1>5, <1>6, <1>7, <1>8, <2>1, <2>2, WorkKeeps
<1>10. CASE Unserved(t)
  <2>1. faults' = faults /\ mutate = "exited"
    BY <1>10 DEF Unserved
  <2>2. Doomed
    BY <1>3, <2>1 DEF Doomed
  <2>3. KeepsCalm(t, i)
    BY <1>2, <2>1 DEF KeepsCalm, Calm, Deleted, FInv, CalmIsKept
  <2>4. QED
    BY <1>2, <1>5, <1>6, <1>7, <1>8, <2>1, <2>2, <2>3, WorkKeeps
<1>11. CASE Serve(t)
  <2>1. faults' = faults
    BY <1>11 DEF Serve
  <2>2. \/ r = "not_found" /\ i \in Deleted /\ tag' = tag
        \/ r = "ok" /\ i \notin Deleted /\ task[t].pc = "fetch" /\ tag' = tag
        \/ r = "ok" /\ i \notin Deleted /\ task[t].pc \in SetTagsCalls
           /\ tag' = [tag EXCEPT ![i] = task[t].tag]
    <3>1. ASSUME NEW a \in Replies, Answer(t, a) PROVE r = a
      BY <1>1, <1>4, <3>1, ReplyEffect
    <3>2. mail[i] \in {"present", "deleted"}
      BY <1>1, <1>3 DEF TaskTypeOK
    <3>3. CASE task' = [task EXCEPT ![t].reply = "ok", ![t].tag = tag[i]]
               /\ task[t].pc = "fetch" /\ mail[i] = "present" /\ tag' = tag
      BY <1>1, <1>4, <3>3 DEF TaskTypeOK, TaskState, Deleted
    <3>4. QED
      BY <1>3, <1>11, <3>1, <3>2, <3>3 DEF Serve, ServeFetch, ServeSetTags, Replies, Deleted
  <2>3. Dooms(t)' => Dooms(t)
    BY <1>2, <1>3, <1>4, <2>2 DEF Dooms, Deleted, Resumes, Waits, MutateCalls, SetTagsCalls
  <2>4. KeepsCalm(t, i)
    <3> SUFFICES ASSUME Calm'
                 PROVE  /\ r \in {"none", "wait", "ok"}
                        /\ task[t].pc \in {"exhaust", "giveup"} /\ r = "ok" => tag'[i] = LARES_ERROR
                        /\ tag'[i] = LARES_PENDING =>
                               Queued(i)' \/ Claimed(i)' \/ items'[i].verdict = LARES_PENDING
      BY <1>4 DEF KeepsCalm, Resumes
    <3>1. Calm /\ r = "ok"
      BY <1>2, <2>1, <2>2 DEF Calm, Deleted
    <3>2. task[t].pc \in {"exhaust", "giveup"} => tag'[i] = LARES_ERROR
      BY <1>1, <2>2, <3>1 DEF SetTagsCalls, IInv, TasksAreSound, TaskTypeOK
    <3>3. Queued(i) => Queued(i)'
      BY <1>2 DEF Queued
    <3>4. Claimed(i) => Claimed(i)'
      BY <1>3, <1>4, TaskAssumption DEF Claimed, Holds, ServiceTask
    <3>5. CASE tag' = tag
      BY <1>2, <3>1, <3>2, <3>3, <3>4, <3>5 DEF FInv, CalmIsKept, OutageIsHarmless
    <3>6. CASE task[t].pc \in SetTagsCalls
      <4>1. Claimed(i) \/ Queued(i)
        BY <1>1, <1>8, <3>6, WriterIsAlone DEF Claimed, Holds, SetTagsCalls, ServiceTask
      <4>2. QED
        BY <3>1, <3>2, <3>3, <3>4, <4>1
    <3>7. QED
      BY <2>2, <3>5, <3>6
  <2>5. Dooms(t) => Doomed
    BY DEF Doomed
  <2>6. QED
    BY <1>2, <1>5, <1>6, <1>7, <1>8, <2>1, <2>3, <2>4, <2>5, WorkKeeps
<1>12. QED
  BY <1>9, <1>10, <1>11
-----------------------------------------------------------------------------
(* The environment, the pop, and the end of the service.                   *)

(* A step that changes neither tasks nor rows nor the queue's members, nor *)
(* which mail is deleted, and brings no end nearer without a fault.        *)
LEMMA LookingOnKeeps ==
    ASSUME FInv, IInv', UNCHANGED <<task, items, tag>>,
           \A i \in Item : Queued(i)' <=> Queued(i),
           \A i \in Item : \/ mail'[i] = mail[i]
                           \/ mail[i] = "absent" /\ mail'[i] = "present",
           \A n \in DOMAIN events' : \/ \E m \in DOMAIN events : events[m] = events'[n]
                                     \/ events'[n] \in Item /\ mail'[events'[n]] # "absent",
           \/ faults' = faults /\ (up => up' /\ mutate' = mutate) /\ (up' => up \/ mutate' = "running")
           \/ faults' = faults + 1 /\ up' = up
    PROVE  FInv'
<1>1. IInv /\ faults \in Nat /\ Cardinality(Deleted) \in Nat /\ Ends \in Int
      /\ \A i \in Item : items[i].attempts \in Nat
  BY FailureFacts
<1>2. Deleted' = Deleted
  BY DEF Deleted
<1>3. MailHasCome'
  <2>1. \A i \in Item : mail[i] # "absent" => mail'[i] # "absent"
    OBVIOUS
  <2>2. ASSUME NEW i \in Item, \E n \in DOMAIN events' : events'[n] = i PROVE mail'[i] # "absent"
    BY <2>1, <2>2 DEF FInv, MailHasCome
  <2>3. \A t \in ServiceTask : task[t].pc # "idle" => up
    BY FailureFacts
  <2>4. QED
    BY <2>1, <2>2, <2>3 DEF FInv, MailHasCome, Holds
<1>4. CalmIsKept'
  <2> SUFFICES ASSUME Calm' PROVE CalmIsKept'
    BY DEF CalmIsKept
  <2>1. Calm /\ faults' = faults
    BY <1>1, <1>2 DEF Calm
  <2>2. OutageIsHarmless'
    BY <2>1 DEF FInv, CalmIsKept, OutageIsHarmless, Claimed, Holds
  <2>3. up' /\ mutate' = "running"
    <3>1. faults' # faults + 1
      BY <1>1, <2>1
    <3>2. up /\ mutate = "running"
      BY <2>1 DEF FInv, CalmIsKept
    <3>3. QED
      BY <3>1, <3>2
  <2>4. \A t \in ServiceTask :
           /\ task'[t].reply \in {"none", "wait", "ok"}
           /\ Resumes(t, "exhaust", "ok")' \/ Resumes(t, "giveup", "ok")' =>
                  tag'[task'[t].item] = LARES_ERROR
    BY <2>1 DEF FInv, CalmIsKept, Resumes
  <2>5. QED
    BY <2>2, <2>3, <2>4 DEF CalmIsKept
<1>5. Ends' \in Int /\ Ends' >= Ends
  <2>1. \A t \in ServiceTask : Dooms(t)' <=> Dooms(t)
    BY <1>2 DEF Dooms, Resumes
  <2>2. faults' = faults => (Doomed' => Doomed)
    BY <1>1, <2>1 DEF Doomed
  <2>3. QED
    BY <1>1, <1>2, <2>2 DEF Ends
<1>6. EndsAreCounted'
  <2>1. \A i \in Item : GivenUp(i)' <=> GivenUp(i)
    BY DEF GivenUp, Holds
  <2>2. Ends' >= 0
    BY <1>1, <1>5 DEF FInv, EndsAreCounted
  <2>3. ASSUME NEW i \in Item
        PROVE  items'[i].attempts <= MaxRetries + (IF GivenUp(i)' THEN 1 ELSE 0) + Ends'
    <3>1. /\ items[i].attempts <= MaxRetries + (IF GivenUp(i) THEN 1 ELSE 0) + Ends
          /\ items[i].attempts \in Nat
      BY <1>1 DEF FInv, EndsAreCounted
    <3>2. QED
      BY <1>1, <1>5, <2>1, <3>1, MaxRetriesAssumption
  <2>4. QED
    BY <2>2, <2>3 DEF EndsAreCounted
<1>7. QED
  BY <1>2, <1>3, <1>4, <1>6 DEF FInv

(* The end of the process takes back what was about to be recorded, but it *)
(* is counted: it was about to come, or it is a fault.                     *)
LEMMA EndingKeeps ==
    ASSUME FInv, IInv', Ended, UNCHANGED retry_queue, \A i \in Item : RowSurvives(i),
           (Doomed /\ faults' = faults) \/ faults' = faults + 1
    PROVE  FInv'
<1> USE TaskAssumption DEF Ended
<1>1. IInv /\ faults \in Nat /\ Cardinality(Deleted) \in Nat /\ Ends \in Int
      /\ \A i \in Item : items[i].attempts \in Nat
  BY FailureFacts
<1>2. Deleted' = Deleted
  BY DEF Deleted
<1>3. ~up' /\ \A t \in ServiceTask : task'[t] = Idle
  OBVIOUS
<1>4. MailHasCome'
  BY <1>3 DEF FInv, MailHasCome, Holds, Queued, Idle
<1>5. ~Calm'
  BY <1>1, <1>2 DEF FInv, CalmIsKept, Calm, Doomed, Dooms
<1>6. ~Doomed'
  BY <1>3 DEF Doomed, Dooms, Resumes, Idle
<1>7. Ends' \in Int /\ Ends' >= Ends + 1
  BY <1>1, <1>2, <1>6 DEF Ends
<1>8. EndsAreCounted'
  <2>1. Ends' >= 0
    BY <1>1, <1>7 DEF FInv, EndsAreCounted
  <2>2. ASSUME NEW i \in Item
        PROVE  items'[i].attempts <= MaxRetries + (IF GivenUp(i)' THEN 1 ELSE 0) + Ends'
    <3>1. /\ items[i].attempts <= MaxRetries + (IF GivenUp(i) THEN 1 ELSE 0) + Ends
          /\ items[i].attempts \in Nat
      BY <1>1 DEF FInv, EndsAreCounted
    <3>2. CASE items'[i] = items[i]
      BY <1>1, <1>7, <3>1, <3>2, MaxRetriesAssumption
    <3>3. CASE items'[i].attempts = items[i].attempts + 1 /\ items'[i].attempts <= MaxRetries
      BY <1>1, <1>7, <2>1, <3>1, <3>3, MaxRetriesAssumption
    <3>4. QED
      BY <3>2, <3>3 DEF RowSurvives
  <2>3. QED
    BY <2>1, <2>2 DEF EndsAreCounted
<1>9. QED
  BY <1>2, <1>4, <1>5, <1>8 DEF FInv, CalmIsKept

(* A deletion is counted, whether or not some task trips over it.          *)
LEMMA LosingKeeps ==
    ASSUME FInv, IInv', NEW i \in Item, Delete(i)
    PROVE  FInv'
<1> USE DEF stateVars, procVars, loopVars
<1>1. IInv /\ faults \in Nat /\ Cardinality(Deleted) \in Nat /\ Ends \in Int /\ TaskTypeOK
      /\ \A j \in Item : items[j].attempts \in Nat
  BY FailureFacts
<1>2. /\ mail[i] = "present" /\ mail' = [mail EXCEPT ![i] = "deleted"]
      /\ UNCHANGED <<task, items, retry_queue, up, notify, mutate, events, batch, faults>>
  BY DEF Delete
<1>3. Deleted' = Deleted \cup {i} /\ i \notin Deleted
  BY <1>1, <1>2 DEF Deleted, TaskTypeOK
<1>4. IsFiniteSet(Deleted') /\ Cardinality(Deleted') = Cardinality(Deleted) + 1
  BY <1>3, FS_AddElement DEF FInv
<1>5. MailHasCome'
  BY <1>1, <1>2 DEF FInv, MailHasCome, Holds, Queued, TaskTypeOK
<1>6. ~Calm'
  BY <1>3 DEF Calm
<1>7. Ends' \in Int /\ Ends' >= Ends
  BY <1>1, <1>2, <1>4 DEF Ends
<1>8. EndsAreCounted'
  <2>1. \A j \in Item : GivenUp(j)' <=> GivenUp(j)
    BY <1>2 DEF GivenUp, Holds
  <2>2. Ends' >= 0
    BY <1>1, <1>7 DEF FInv, EndsAreCounted
  <2>3. ASSUME NEW j \in Item
        PROVE  items'[j].attempts <= MaxRetries + (IF GivenUp(j)' THEN 1 ELSE 0) + Ends'
    <3>1. /\ items[j].attempts <= MaxRetries + (IF GivenUp(j) THEN 1 ELSE 0) + Ends
          /\ items[j].attempts \in Nat /\ items'[j] = items[j]
      BY <1>1, <1>2 DEF FInv, EndsAreCounted
    <3>2. QED
      BY <1>1, <1>7, <2>1, <3>1, MaxRetriesAssumption
  <2>4. QED
    BY <2>2, <2>3 DEF EndsAreCounted
<1>9. QED
  BY <1>4, <1>5, <1>6, <1>8 DEF FInv, CalmIsKept

(* The steps that only look on.                                            *)
LEMMA BystandersKeep ==
    ASSUME FInv, IInv',
           \/ DrainPop \/ MutateExits \/ NotifyExits \/ Restart \/ UNCHANGED vars
           \/ \E i \in Item : NewMail(i) \/ Duplicate(i) \/ RetryDue(i)
    PROVE  FInv'
<1> USE DEF vars, stateVars, taskVars, procVars, loopVars
<1>1. StateTypeOK /\ TaskTypeOK /\ events \in Seq(Item)
  BY FailureFacts DEF TypeOK
<1>2. CASE DrainPop \/ MutateExits \/ NotifyExits \/ Restart \/ UNCHANGED vars
  <2>1. UNCHANGED <<items, retry_queue, mail, tag, task, events>>
    BY <1>2 DEF DrainPop, MutateExits, NotifyExits, Restart
  <2>2. \/ faults' = faults /\ (up => up' /\ mutate' = mutate) /\ (up' => up \/ mutate' = "running")
        \/ faults' = faults + 1 /\ up' = up
    BY <1>2 DEF DrainPop, MutateExits, NotifyExits, Restart, Fault
  <2>3. QED
    BY <2>1, <2>2, LookingOnKeeps DEF Queued
<1>3. ASSUME NEW i \in Item, NewMail(i) \/ Duplicate(i) PROVE FInv'
  <2>1. /\ UNCHANGED <<items, retry_queue, tag, task, up, mutate, faults>>
        /\ events' \in {events, Append(events, i)}
        /\ \/ mail' = mail /\ mail[i] = "present"
           \/ mail[i] = "absent" /\ mail' = [mail EXCEPT ![i] = "present"]
    BY <1>3 DEF NewMail, Duplicate, Report
  <2>2. \A j \in Item : mail'[j] = mail[j] \/ (mail[j] = "absent" /\ mail'[j] = "present")
    BY <1>1, <2>1 DEF TaskTypeOK
  <2>3. mail'[i] # "absent"
    BY <1>1, <2>1 DEF TaskTypeOK
  <2>4. \A n \in DOMAIN events' : events'[n] = i \/ \E m \in DOMAIN events : events[m] = events'[n]
    BY <1>1, <2>1
  <2>5. QED
    BY <2>1, <2>2, <2>3, <2>4, LookingOnKeeps DEF Queued
<1>4. ASSUME NEW i \in Item, RetryDue(i) PROVE FInv'
  <2>1. \A j \in Item : Queued(j)' <=> Queued(j)
    BY <1>1, <1>4 DEF StateTypeOK, RetryDue, BecomeDue, QueueRow, Queued
  <2>2. QED
    BY <1>4, <2>1, LookingOnKeeps DEF RetryDue, BecomeDue
<1>5. QED
  BY <1>2, <1>3, <1>4

(* Every step of the service keeps the invariant.                          *)
LEMMA FailureNextKeeps ==
    ASSUME FInv, [Next]_vars
    PROVE  FInv'
<1>1. IInv'
  BY NextKeeps DEF FInv
<1>2. CASE Consume
  BY <1>1, <1>2, ConsumingKeeps
<1>3. CASE Drain
  BY <1>1, <1>3, DrainingKeeps, BystandersKeep
<1>4. ASSUME NEW t \in ServiceTask, Common(t) \/ ServeFails(t) PROVE FInv'
  <2>1. Raise(t) => Doomed
    BY DEF Raise, Doomed, Dooms
  <2>2. CASE Raise(t)
    BY <1>1, <2>1, <2>2, EndingKeeps DEF Raise, Down, stateVars, RowSurvives
  <2>3. QED
    BY <1>1, <1>4, <2>2, ClassifyingKeeps, AnsweringKeeps DEF Common
<1>5. CASE Crash
  BY <1>1, <1>5, EndingKeeps DEF Crash, Fault, Down, stateVars, RowSurvives
<1>6. ASSUME NEW i \in Item, NewMail(i) \/ Duplicate(i) \/ Delete(i) \/ RetryDue(i) PROVE FInv'
  BY <1>1, <1>6, BystandersKeep, LosingKeeps
<1>7. CASE MutateExits \/ NotifyExits \/ Restart \/ UNCHANGED vars
  BY <1>1, <1>7, BystandersKeep
<1>8. ASSUME NEW t \in ServiceTask, CrashBumped(t) PROVE FInv'
  <2>1. task[t].item \in Item /\ StateTypeOK
    BY <1>8, FailureFacts DEF CrashBumped, Resumes
  <2>2. QED
    BY <1>1, <1>8, <2>1, BumpedOnlyEffect, EndingKeeps DEF CrashBumped, Fault
<1>9. QED
  BY <1>2, <1>3, <1>4, <1>5, <1>6, <1>7, <1>8 DEF Next

(* The service starts in the invariant.                                    *)
LEMMA FailureInit ==
    ASSUME Init
    PROVE  FInv
<1> USE TaskAssumption DEF Init, StateInit, TaskInit, ServiceTask
<1>1. IInv
  BY InitIsSound
<1>2. Deleted = {}
  BY DEF Deleted
<1>3. IsFiniteSet(Deleted) /\ Cardinality(Deleted) = 0
  BY <1>2, FS_EmptySet
<1>4. MailHasCome
  BY DEF MailHasCome, Queued, NotQueued, Holds, Idle
<1>5. CalmIsKept
  BY TaxonomyAssumption DEF CalmIsKept, OutageIsHarmless, Resumes, Idle
<1>6. ~Doomed
  BY DEF Doomed, Dooms, Resumes, Idle
<1>7. EndsAreCounted
  BY <1>3, <1>6, MaxRetriesAssumption DEF EndsAreCounted, Ends, GivenUp, NoRow
<1>8. QED
  BY <1>1, <1>3, <1>4, <1>5, <1>7 DEF FInv
-----------------------------------------------------------------------------
(* The inductive invariant: every disaster is counted, and while there is  *)
(* none no call fails and nothing is lost.                                 *)
THEOREM FailureInvariance == Spec => []FInv
<1>1. Init => FInv
  BY FailureInit
<1>2. FInv /\ [Next]_vars => FInv'
  BY FailureNextKeeps
<1>3. QED
  BY <1>1, <1>2, PTL DEF Spec

(* As long as only Ollama fails, a mail tagged pending is queued or in     *)
(* hand, however often it fails.                                           *)
THEOREM OutageLosesNothing == Spec => []OutageIsHarmless
<1>1. FInv => OutageIsHarmless
  BY DEF FInv, CalmIsKept, OutageIsHarmless
<1>2. QED
  BY <1>1, FailureInvariance, PTL

(* No mail is tried for ever: MaxRetries + 1 times, and once more for each *)
(* fault and each deleted mail.                                            *)
THEOREM AttemptsAreBounded == Spec => []AttemptsBounded
<1>1. FInv => AttemptsBounded
  <2> SUFFICES ASSUME FInv, NEW i \in Item
               PROVE  items[i].attempts <= MaxRetries + 1 + faults + Cardinality(Deleted)
    BY DEF AttemptsBounded
  <2>1. faults \in Nat /\ Cardinality(Deleted) \in Nat /\ items[i].attempts \in Nat
    BY FailureFacts
  <2>2. items[i].attempts <= MaxRetries + (IF GivenUp(i) THEN 1 ELSE 0) + Ends
    BY DEF FInv, EndsAreCounted
  <2>3. QED
    BY <2>1, <2>2, MaxRetriesAssumption DEF Ends
<1>2. QED
  BY <1>1, FailureInvariance, PTL
=============================================================================
