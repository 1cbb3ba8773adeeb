---------------------------- MODULE KMailSystem ----------------------------
(***************************************************************************)
(* The triage service and the commands a user runs beside it               *)
(* (kmail/cli.py): retag, with or without --remove, and purge.  Retag is a *)
(* third task on the same store and the same tags, in a process and with a *)
(* mutate helper of its own: nothing keeps it off a mail the service is    *)
(* at, and it ends with the first exception.  Purge unlinks the file of    *)
(* the store.  A service that has it open goes on reading it, but sqlite   *)
(* refuses to write to a database that has moved (SQLITE_READONLY_DBMOVED):*)
(* the next write raises, and ends the service.                            *)
(*                                                                         *)
(* Limits: one command runs at a time, and no retag between a purge and    *)
(* the restart that follows it, when two stores are in use at once.        *)
(***************************************************************************)
EXTENDS KMailProperties

CONSTANT MaxCommands     \* bound on the commands

ASSUME RetagAssumption       == "retag" \in Task /\ Task = ServiceTask \cup {"retag"}
ASSUME MaxCommandsAssumption == MaxCommands \in Nat

VARIABLES
    commands,            \* commands so far
    purged,              \* the store the service has open is unlinked, and read-only
    disturbed            \* ghost: the mails a retag found in the service's hands

commandVars == <<commands, purged, disturbed>>
sysVars     == <<vars, commandVars>>
serviceVars == <<procVars, loopVars, faults>>
-----------------------------------------------------------------------------
SystemInit == Init /\ commands = 0 /\ purged = FALSE /\ disturbed = {}

(* The service has nothing to do with item i, and its skip check will keep *)
(* it off: i is no event it may read untagged, no queued row, in no hand.  *)
AtRest(i) == /\ ~Queued(i) /\ i \notin batch
             /\ \A t \in ServiceTask : ~Holds(t, i)
             /\ is_lares_tag(tag[i]) \/ \A n \in DOMAIN events : events[n] # i

(* The user runs a command.                                                *)
Commanded == /\ task["retag"].pc = "idle"
             /\ commands < MaxCommands
             /\ commands' = commands + 1
-----------------------------------------------------------------------------
(* _run_retag                                                              *)

(* set_tags with no tag is what --remove asks for.                         *)
RetagStart(i) ==
    /\ Commanded
    /\ ~purged
    /\ mail[i] # "absent"
    /\ \E want \in {LARES_PENDING, NoTag} : Call("retag", "mark", i, want)
    /\ disturbed' = IF AtRest(i) THEN disturbed ELSE disturbed \cup {i}
    /\ UNCHANGED <<mail, tag, stateVars, serviceVars, purged>>

RetagRemoved ==
    /\ Resumes("retag", "mark", "ok")
    /\ task["retag"].tag = NoTag
    /\ Finish("retag")
    /\ UNCHANGED <<mail, tag, stateVars, serviceVars, commandVars>>

(* A mutant: no record_pending.                                            *)
RetagMarkedUnrecorded ==
    /\ Resumes("retag", "mark", "ok")
    /\ task["retag"].tag = LARES_PENDING
    /\ Call("retag", "fetch", task["retag"].item, NoTag)
    /\ UNCHANGED <<mail, tag, stateVars, serviceVars, commandVars>>

(* A mutant: the mail is queued while it is at hand.                       *)
RetagMarkedQueued ==
    LET i == task["retag"].item IN
    /\ Resumes("retag", "mark", "ok")
    /\ task["retag"].tag = LARES_PENDING
    /\ items' = [items EXCEPT ![i].state = "pending"]
    /\ EnqueueRetry(i, 0)
    /\ Call("retag", "fetch", i, NoTag)
    /\ UNCHANGED <<mail, tag, serviceVars, commandVars>>

RetagMarked ==
    /\ Resumes("retag", "mark", "ok")
    /\ task["retag"].tag = LARES_PENDING
    /\ RecordPending(task["retag"].item)
    /\ Call("retag", "fetch", task["retag"].item, NoTag)
    /\ UNCHANGED <<mail, tag, serviceVars, commandVars>>

RetagFetched ==
    /\ Resumes("retag", "fetch", "ok")
    /\ Ask("retag")
    /\ UNCHANGED <<mail, tag, stateVars, serviceVars, commandVars>>

(* Any exception ends the command, with a traceback.                       *)
RetagRaises ==
    /\ task["retag"].pc \in MutateCalls
    /\ task["retag"].reply \in {"not_found", "failed", "broken"}
    /\ Finish("retag")
    /\ UNCHANGED <<mail, tag, stateVars, serviceVars, commandVars>>

RetagKilled ==
    /\ task["retag"].pc # "idle"
    /\ Fault
    /\ \/ UNCHANGED stateVars
       \/ task["retag"].pc = "classify" /\ BumpedOnly(task["retag"].item)
    /\ Finish("retag")
    /\ UNCHANGED <<mail, tag, procVars, loopVars, commandVars>>

(* Its mutate helper.                                                      *)
RetagServed ==
    /\ ServeFetch("retag") \/ ServeSetTags("retag")
    /\ UNCHANGED <<serviceVars, commandVars>>

RetagServeFails ==
    /\ Fault
    /\ FetchJobFails("retag") \/ AnswerTooLong("retag") \/ CallFails("retag")
    /\ UNCHANGED <<procVars, loopVars, commandVars>>

Retag == \/ RetagRemoved \/ RetagMarked \/ RetagFetched \/ RetagRaises \/ RetagServed
         \/ ClassifyAndApply("retag") /\ UNCHANGED commandVars
-----------------------------------------------------------------------------
(* A new store has empty tables.                                           *)
NewStore == items' = [i \in Item |-> NoRow] /\ retry_queue' = [i \in Item |-> NotQueued]

Purge ==
    /\ Commanded
    /\ \/ up /\ purged' = TRUE /\ UNCHANGED stateVars
       \/ ~up /\ purged' = FALSE /\ NewStore
    /\ UNCHANGED <<taskVars, serviceVars, disturbed>>

(* The service opens the store by its path.                                *)
RestartPurged ==
    /\ ~up /\ purged
    /\ up' = TRUE /\ notify' = "running" /\ mutate' = "running"
    /\ purged' = FALSE
    /\ NewStore
    /\ UNCHANGED <<taskVars, loopVars, faults, commands, disturbed>>

(* An event for a mail that carries no tag yet reaches the service while   *)
(* a retag is about to tag it.                                             *)
Reported(i) ==
    /\ NewMail(i) \/ Duplicate(i)
    /\ disturbed' = IF Holds("retag", i) /\ ~is_lares_tag(tag[i])
                    THEN disturbed \cup {i} ELSE disturbed
    /\ UNCHANGED <<commands, purged>>
-----------------------------------------------------------------------------
(* The steps of the service that write no row, and those that do.          *)
ReadingStep ==
    \/ ConsumeTake \/ ConsumeDrop \/ ConsumeSkip \/ ConsumeMark
    \/ DrainPop \/ DrainNext \/ DrainClassify
    \/ \E t \in ServiceTask : \/ Classify(t) /\ UNCHANGED serviceVars
                             \/ Raise(t) \/ Serve(t) \/ Unserved(t)

WritingStep ==
    \/ ConsumeMarked \/ DrainDeleted \/ DrainPostpone \/ DrainGaveUp
    \/ \E t \in ServiceTask : /\ ClassifierFails(t) \/ Applied(t) \/ Exhausted(t)
                             /\ UNCHANGED serviceVars

(* Where task t of the service is when one of the latter is next.          *)
IsToWrite(t) ==
    \/ task[t].pc \in {"mark", "apply", "exhaust", "giveup"} /\ task[t].reply = "ok"
    \/ task[t].pc = "classify"
    \/ t = "drain" /\ task[t].pc \in {"fetch", "giveup"} /\ task[t].reply \in {"not_found", "failed"}

(* The write to the unlinked store raises, and nothing catches that.       *)
StoreRefuses(t) ==
    /\ purged
    /\ IsToWrite(t)
    /\ Down
    /\ UNCHANGED faults

ServiceStep == /\ \/ ReadingStep
                  \/ ~purged /\ (WritingStep \/ Restart)
                  \/ \E t \in ServiceTask : StoreRefuses(t)
               /\ UNCHANGED commandVars

Environment == /\ \/ \E t \in ServiceTask : ServeFails(t)
                  \/ ~purged /\ \E t \in ServiceTask : CrashBumped(t)
                  \/ MutateExits \/ NotifyExits \/ Crash
                  \/ \E i \in Item : Delete(i) \/ RetryDue(i)
               /\ UNCHANGED commandVars

SystemNext == \/ ServiceStep \/ Environment \/ Retag \/ RetagServeFails \/ RetagKilled
              \/ Purge \/ RestartPurged
              \/ \E i \in Item : RetagStart(i) \/ Reported(i)

SystemSpec == SystemInit /\ [][SystemNext]_sysVars
-----------------------------------------------------------------------------
(* Every variable has its type.                                            *)
SystemTypeOK == TypeOK /\ commands \in 0..MaxCommands /\ purged \in BOOLEAN
                       /\ disturbed \subseteq Item

(* Task t has item i and goes on to write it.                              *)
Handles(t, i) == \/ t = "consume" /\ Claimed(i)
                 \/ t = "drain" /\ Retrying(i)
                 \/ /\ t = "retag" /\ Holds(t, i)
                    /\ task[t].pc = "mark" => task[t].tag = LARES_PENDING

(* A retag of a mail at rest is safe beside the service: no mail is ever   *)
(* handled by two of the three tasks (cli.py:298 takes no lock, and        *)
(* service.py:87 knows only tags).                                         *)
RetagAlone ==
    \A i \in Item \ disturbed : \A t, u \in Task :
        Handles(t, i) /\ Handles(u, i) => t = u

(* ... and leaves queue, table and tag in agreement.                       *)
QueueAgreesUndisturbed ==
    \A i \in Item \ disturbed :
        Queued(i) => items[i].state = "pending" /\ Tagged(i)

(* No task bumps the attempts of a mail that has no row (state.py:177      *)
(* would raise), also in the empty tables a purge leads to, for disturbed  *)
(* mail, and for mail the service never saw.                               *)
RowsForAll ==
    \A i \in Item, t \in Task :
        Holds(t, i) /\ task[t].pc \in {"classify", "apply", "exhaust", "giveup"} => Known(i)

(* A mail never shows another verdict than the one recorded for it.  (A    *)
(* control tag is not taken for a verdict, though a category may have its  *)
(* name.)                                                                  *)
ShownIsRecorded ==
    \A i \in Item \ disturbed :
        items[i].state = "classified" /\ tag[i] \in Verdicts \ {LARES_PENDING, LARES_ERROR}
            => tag[i] = items[i].verdict

(* design:370: idempotency derives from the tag, "so a lost sqlite file    *)
(* does not cause re-classification of already-tagged items".  The service *)
(* leaves a settled mail alone after a purge, a crash or a refused write,  *)
(* and when the mail is reported again; only the queue and the user bring  *)
(* it back.                                                                *)
Settled(i) == is_lares_tag(tag[i]) /\ tag[i] # LARES_PENDING
SettledStays ==
    [][\A i \in Item \ disturbed' :
          Settled(i) /\ ~Queued(i) /\ ~Holds("retag", i) =>
              tag'[i] = tag[i] \/ mail'[i] = "deleted"]_sysVars
-----------------------------------------------------------------------------
(* The inductive invariant: what holds of the tasks, the store and every   *)
(* mail, and of each mail that is not disturbed.                           *)

(* As in KMailProperties, for the three tasks.                             *)
AllTasksAreSound ==
    /\ task["consume"].pc # "giveup" /\ task["drain"].pc # "mark" /\ task["retag"].pc # "giveup"
    /\ \A t \in Task :
          /\ task[t].pc # "idle" => task[t].item \in Item
          /\ task[t].pc = "mark" =>
                task[t].tag = LARES_PENDING \/ (t = "retag" /\ task[t].tag = NoTag)
          /\ task[t].pc = "apply" => task[t].tag \in Verdicts
          /\ task[t].pc \in {"exhaust", "giveup"} => task[t].tag = LARES_ERROR

(* A store is given up only when no task has anything from it.             *)
StoreInUse == /\ ~up => batch = {} /\ \A t \in ServiceTask : task[t].pc = "idle"
              /\ purged => task["retag"].pc = "idle"

(* What is queued, to be retried or reclassified has a row.                *)
RowsAreThere ==
    /\ RowsForAll
    /\ \A i \in Item : /\ Queued(i) \/ Retrying(i) => Known(i)
                       /\ Holds("retag", i) /\ task["retag"].pc = "fetch" => Known(i)

OnlyMailIsTagged == \A i \in Item : mail[i] # "present" => tag[i] = NoTag

SystemBase == SystemTypeOK /\ AllTasksAreSound /\ StoreInUse /\ RowsAreThere /\ OnlyMailIsTagged

(* The consume task is past its skip check, or is sure to pass it.         *)
Committed(i) ==
    LET c == task["consume"] IN
    Holds("consume", i) /\ (c.pc = "fetch" => c.reply = "ok" /\ ~is_lares_tag(c.tag))

(* The retag command has yet to write something for item i.                *)
Writes(i) ==
    LET r == task["retag"] IN
    Holds("retag", i) /\ (r.pc = "mark" /\ r.tag = NoTag => r.reply = "wait")

QueueIsSafe(i) == /\ Queued(i) => items[i].state = "pending" /\ Tagged(i)
                  /\ Retrying(i) => Queued(i)
                  /\ Holds("drain", i) => i \notin batch

(* What the consume task fetched is what the tag still is, until it writes *)
(* it, and again until the verdict.                                        *)
ClaimIsSafe(i) ==
    LET c == task["consume"] IN
    Committed(i) =>
        /\ ~Queued(i)
        /\ c.pc = "fetch" \/ (Waits("consume") /\ c.pc = "mark") => ~is_lares_tag(tag[i])
        /\ \/ Resumes("consume", "mark", "ok")
           \/ c.pc = "classify"
           \/ Waits("consume") /\ c.pc \in {"apply", "exhaust"}
           => tag[i] = LARES_PENDING \/ mail[i] = "deleted"
        /\ c.pc \in {"classify", "apply", "exhaust"} => items[i].state = "pending"

(* A retag of a mail that no tag protects meets no event for it.           *)
RetagIsSafe(i) ==
    LET r == task["retag"] IN
    Writes(i) =>
        /\ ~Queued(i) /\ ~Committed(i)
        /\ mail[i] = "present" /\ ~is_lares_tag(tag[i]) =>
               ~Holds("consume", i) /\ \A n \in DOMAIN events : events[n] # i
        /\ r.pc # "mark" \/ r.reply = "ok" => Tagged(i)
        /\ r.pc \in {"fetch", "classify", "apply", "exhaust"} => items[i].state = "pending"

VerdictIsShown(i) ==
    /\ \A t \in Task :
          Holds(t, i) /\ Resumes(t, "apply", "ok") => tag[i] = task[t].tag \/ mail[i] = "deleted"
    /\ items[i].state = "classified" /\ tag[i] \in Verdicts \ {LARES_PENDING, LARES_ERROR}
           => tag[i] = items[i].verdict

Undisturbed(i) == QueueIsSafe(i) /\ ClaimIsSafe(i) /\ RetagIsSafe(i) /\ VerdictIsShown(i)

SystemInv == SystemBase /\ \A i \in Item \ disturbed : Undisturbed(i)
=============================================================================
