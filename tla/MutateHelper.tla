---------------------------- MODULE MutateHelper ----------------------------
(***************************************************************************)
(* The mutate helper and its client: class Mutate (kmail/mutate.py), which *)
(* serializes its callers with a lock and exchanges one line for one line  *)
(* over a pipe, and the helper process (akonadi_bridge/mutate.cpp), which  *)
(* turns a request into a chain of asynchronous Akonadi jobs.              *)
(*                                                                         *)
(* The tasks of the service share one helper; a lares-kmail retag running  *)
(* beside the service has its own.  Akonadi is what the helpers and the    *)
(* user both change.                                                       *)
(***************************************************************************)
EXTENDS Integers, Sequences, FiniteSets

CONSTANTS
    Client,          \* who calls: the tasks of the service, the retag command
    Helper,          \* the helper processes
    HelperOf,        \* the helper of each client
    Item,
    LaresTag,
    UserTag,         \* the tags outside the lares- namespace
    Wants,           \* the tag lists set_tags is called with
    IdSpan,          \* bound: request ids repeat after this many
    MaxSpent         \* bound on the failed set_tags whose jobs still run when
                     \* another call is made

VARIABLES
    there,           \* the items Akonadi has
    tags,            \* all tags of each item
    alive,           \* the helpers that run
    lock,            \* who holds a helper's lock (the head) and who waits
    nextId,          \* the counter request ids are drawn from
    stdin, stdout,   \* the pipes of each helper
    jobs,            \* the requests each helper is at
    call,            \* the call of each client
    overran,         \* the clients that ended at an answer too long to read
    rest,            \* the helpers whose stdout starts with the rest of such an answer
    effect           \* ghost: did the call take effect, and what did it see

akonadiVars == <<there, tags>>
pipeVars    == <<stdin, stdout>>
clientVars  == <<lock, nextId, call, overran, rest>>
vars == <<akonadiVars, alive, clientVars, pipeVars, jobs, effect>>

ASSUME HelperOfAssumption == HelperOf \in [Client -> Helper]
ASSUME WantsAssumption    == Wants \subseteq SUBSET LaresTag
ASSUME MaxSpentAssumption == MaxSpent \in Nat \ {0}
ASSUME IdSpanAssumption   == IdSpan \in Nat \ {0}
ASSUME LaresTagAssumption == IsFiniteSet(LaresTag) /\ LaresTag \cap UserTag = {}
-----------------------------------------------------------------------------
Requests == [op : {"fetch"}, item : Item, want : {{}}]
                \cup [op : {"set_tags"}, item : Item, want : Wants]

Idle     == [pc |-> "idle"]
NoEffect == [done |-> FALSE, seen |-> {}]

Lares(i) == tags[i] \cap LaresTag

Init == /\ there \in SUBSET Item
        /\ tags = [i \in Item |-> {}]
        /\ alive = Helper
        /\ lock = [h \in Helper |-> <<>>]
        /\ nextId = [h \in Helper |-> 0]
        /\ stdin = [h \in Helper |-> <<>>]
        /\ stdout = [h \in Helper |-> <<>>]
        /\ jobs = [h \in Helper |-> {}]
        /\ call = [c \in Client |-> Idle]
        /\ overran = {} /\ rest = {}
        /\ effect = [c \in Client |-> NoEffect]
-----------------------------------------------------------------------------
(* Mutate._call                                                            *)

(* The id is drawn before the lock is asked for.                           *)
Request(c) ==
    LET h == HelperOf[c] IN
    /\ call[c].pc = "idle" /\ c \notin overran
    /\ Cardinality({j \in jobs[h] : j.counter < 0}) < MaxSpent
    /\ \E req \in Requests :
          call' = [call EXCEPT ![c] = [pc |-> "queued", id |-> nextId[h], req |-> req]]
    /\ nextId' = [nextId EXCEPT ![h] = (@ + 1) % IdSpan]
    /\ lock' = [lock EXCEPT ![h] = Append(@, c)]
    /\ UNCHANGED <<akonadiVars, alive, pipeVars, jobs, effect, overran, rest>>

(* A mutant: no lock.                                                      *)
MaySendAnytime(c) == TRUE

(* The lock is first in, first out.                                        *)
MaySend(c) == lock[HelperOf[c]] # <<>> /\ Head(lock[HelperOf[c]]) = c

Send(c) ==
    LET h == HelperOf[c] IN
    /\ h \in alive
    /\ call[c].pc = "queued" /\ MaySend(c)
    /\ call' = [call EXCEPT ![c].pc = "sent"]
    /\ stdin' = [stdin EXCEPT ![h] = Append(@, [id |-> call[c].id, req |-> call[c].req])]
    /\ UNCHANGED <<akonadiVars, alive, lock, nextId, stdout, jobs, effect, overran, rest>>

(* The caller that leaves has the lock: only it is past its acquisition.   *)
Release(c) == lock' = [lock EXCEPT ![HelperOf[c]] = Tail(@)]

Answer(c, reply, seen) ==
    /\ call' = [call EXCEPT ![c] = [pc |-> "replied", reply |-> reply, tags |-> seen]]
    /\ effect' = [effect EXCEPT ![c] = NoEffect]
    /\ Release(c)
    /\ UNCHANGED <<akonadiVars, alive, nextId, stdin, jobs>>

(* A task of the process of helper h failed at an answer that was too long *)
(* to read.                                                                *)
Overran(h) == \E c \in overran : HelperOf[c] = h

(* A response with another id is a MutateError like any other.  Nothing    *)
(* arrives between the failure of one task and the cancellation of the     *)
(* other: both are steps of one turn of the event loop.                    *)
Receive(c) ==
    LET h == HelperOf[c] IN
    /\ call[c].pc = "sent" /\ ~Overran(h)
    /\ stdout[h] # <<>>
    /\ stdout' = [stdout EXCEPT ![h] = Tail(@)]
    /\ LET resp == Head(stdout[h]) IN
       IF resp.id = call[c].id THEN Answer(c, resp.reply, resp.tags)
                               ELSE Answer(c, "failed", {})
    /\ UNCHANGED <<overran, rest>>

(* A write to, or a read from, the pipes of a dead helper.                 *)
Disconnected(c) ==
    LET h == HelperOf[c] IN
    /\ h \notin alive /\ ~Overran(h)
    /\ \/ call[c].pc = "queued" /\ MaySend(c)
       \/ call[c].pc = "sent" /\ stdout[h] = <<>>
    /\ \E r \in {"failed", "broken"} : Answer(c, r, {})
    /\ UNCHANGED <<stdout, overran, rest>>

(* An answer longer than the 64 KiB limit of StreamReader.readline, which  *)
(* raises a ValueError: it takes the line out of the pipe if it has the    *)
(* end of it, and else what it has buffered.  The task ends, the lock is   *)
(* free, and a task that waits for it sends before it is cancelled.        *)
TooLong(c) ==
    LET h == HelperOf[c] IN
    /\ call[c].pc = "sent" /\ call[c].req.op = "fetch" /\ ~Overran(h)
    /\ stdout[h] # <<>>
    /\ Head(stdout[h]).reply = "ok"
    /\ stdout' = [stdout EXCEPT ![h] = Tail(@)]
    /\ overran' = overran \cup {c}
    /\ rest' \in {rest, rest \cup {h}}
    /\ Answer(c, "broken", {})

(* What the cancelled tasks asked for is over when their process is, which *)
(* waits for the helper to end (Mutate.__aexit__) and reads no more of it. *)
Cancelled(c) ==
    LET h == HelperOf[c] IN
    /\ Overran(h) /\ h \notin alive
    /\ call[c].pc \in {"queued", "sent"} /\ MaySend(c)
    /\ stdout' = [stdout EXCEPT ![h] = <<>>]
    /\ Answer(c, "broken", {})
    /\ UNCHANGED <<overran, rest>>

Return(c) ==
    /\ call[c].pc = "replied"
    /\ call' = [call EXCEPT ![c] = Idle]
    /\ UNCHANGED <<akonadiVars, alive, lock, nextId, pipeVars, jobs, effect, overran, rest>>
-----------------------------------------------------------------------------
(* The helper process                                                      *)

Job(m) == [id |-> m.id, op |-> m.req.op, item |-> m.req.item, want |-> m.req.want,
           stage |-> "fetch", tags |-> {}, left |-> {}, counter |-> 0]

Respond(h, id, reply, seen) ==
    stdout' = [stdout EXCEPT ![h] = Append(@, [id |-> id, reply |-> reply, tags |-> seen])]

Becomes(h, j, new) == jobs' = [jobs EXCEPT ![h] = (@ \ {j}) \cup {new}]
Ends(h, j)         == jobs' = [jobs EXCEPT ![h] = @ \ {j}]

(* The call that job j of helper h works for takes effect.                 *)
TakesEffect(h, j, seen) ==
    effect' = [c \in Client |->
                  IF HelperOf[c] = h /\ call[c].pc = "sent" /\ call[c].id = j.id
                  THEN [done |-> TRUE, seen |-> seen] ELSE effect[c]]

Dispatch(h) ==
    /\ stdin[h] # <<>>
    /\ stdin' = [stdin EXCEPT ![h] = Tail(@)]
    /\ \/ /\ jobs' = [jobs EXCEPT ![h] = @ \cup {Job(Head(stdin[h]))}]
          /\ UNCHANGED stdout
       \/ /\ Respond(h, Head(stdin[h]).id, "failed", {})      \* akonadi_offline
          /\ UNCHANGED jobs
    /\ UNCHANGED <<akonadiVars, alive, clientVars, effect>>

(* A mutant: the error path of the fetch job writes no response.           *)
FetchFailedSilently(h, j) ==
    /\ j.stage = "fetch"
    /\ Ends(h, j)
    /\ UNCHANGED <<akonadiVars, alive, clientVars, pipeVars, effect>>

(* The ItemFetchJob of either operation.  Whatever goes wrong with it is   *)
(* reported as not_found.                                                  *)
FetchFailed(h, j) ==
    /\ j.stage = "fetch"
    /\ Respond(h, j.id, "not_found", {})
    /\ Ends(h, j)
    /\ UNCHANGED <<akonadiVars, alive, clientVars, stdin, effect>>

Fetched(h, j) ==
    /\ j.stage = "fetch" /\ j.op = "fetch"
    /\ j.item \in there
    /\ Respond(h, j.id, "ok", Lares(j.item))
    /\ TakesEffect(h, j, Lares(j.item))
    /\ Ends(h, j)
    /\ UNCHANGED <<akonadiVars, alive, clientVars, stdin>>

(* handleSetTags keeps the tags outside the namespace as they are now.     *)
ReadForSetTags(h, j) ==
    /\ j.stage = "fetch" /\ j.op = "set_tags"
    /\ j.item \in there
    /\ Becomes(h, j, [j EXCEPT !.stage   = IF j.want = {} THEN "modify" ELSE "create",
                               !.tags    = tags[j.item] \cap UserTag,
                               !.left    = j.want,
                               !.counter = Cardinality(j.want)])
    /\ UNCHANGED <<akonadiVars, alive, clientVars, pipeVars, effect>>

(* A mutant: the counter is not looked at before it is decremented.        *)
TagCountedDown(h, j, t) ==
    /\ j.stage = "create" /\ t \in j.left /\ j.counter < 0
    /\ Becomes(h, j, [j EXCEPT !.left = @ \ {t}, !.counter = @ - 1])
    /\ UNCHANGED <<akonadiVars, alive, clientVars, pipeVars, effect>>

(* One TagCreateJob of several has a result.  After an error the others    *)
(* still end, and are not heard.                                           *)
TagIgnored(h, j, t) ==
    /\ j.stage = "create" /\ t \in j.left /\ j.counter < 0
    /\ Becomes(h, j, [j EXCEPT !.left = @ \ {t}])
    /\ UNCHANGED <<akonadiVars, alive, clientVars, pipeVars, effect>>

TagCreated(h, j, t) ==
    /\ j.stage = "create" /\ t \in j.left /\ j.counter >= 0
    /\ Becomes(h, j, [j EXCEPT !.left    = @ \ {t},
                               !.tags    = @ \cup {t},
                               !.counter = @ - 1,
                               !.stage   = IF j.counter = 1 THEN "modify" ELSE "create"])
    /\ UNCHANGED <<akonadiVars, alive, clientVars, pipeVars, effect>>

(* A mutant: a tag that fails is reported, and counts like one created.    *)
TagFailedCounted(h, j, t) ==
    /\ j.stage = "create" /\ t \in j.left /\ j.counter >= 0
    /\ Respond(h, j.id, "failed", {})
    /\ Becomes(h, j, [j EXCEPT !.left    = @ \ {t},
                               !.counter = @ - 1,
                               !.stage   = IF j.counter = 1 THEN "modify" ELSE "create"])
    /\ UNCHANGED <<akonadiVars, alive, clientVars, stdin, effect>>

TagFailed(h, j, t) ==
    /\ j.stage = "create" /\ t \in j.left /\ j.counter >= 0
    /\ Respond(h, j.id, "failed", {})
    /\ Becomes(h, j, [j EXCEPT !.left = @ \ {t}, !.tags = {}, !.counter = -1])
    /\ UNCHANGED <<akonadiVars, alive, clientVars, stdin, effect>>

(* Akonadi carries out the ItemModifyJob: setTags overwrites them all,     *)
(* and the revision of the item is not checked.                            *)
Modify(h, j) ==
    /\ j.stage = "modify"
    /\ j.item \in there
    /\ tags' = [tags EXCEPT ![j.item] = j.tags]
    /\ TakesEffect(h, j, {})
    /\ Becomes(h, j, [j EXCEPT !.stage = "modified"])
    /\ UNCHANGED <<there, alive, clientVars, pipeVars>>

Modified(h, j) ==
    /\ j.stage = "modified"
    /\ Respond(h, j.id, "ok", {})
    /\ Ends(h, j)
    /\ UNCHANGED <<akonadiVars, alive, clientVars, stdin, effect>>

(* The job fails, before or after Akonadi carried it out.                  *)
ModifyFailed(h, j) ==
    /\ j.stage \in {"modify", "modified"}
    /\ Respond(h, j.id, "failed", {})
    /\ Ends(h, j)
    /\ UNCHANGED <<akonadiVars, alive, clientVars, stdin, effect>>

(* The last result of a set of TagCreateJobs one of which failed.          *)
Spent(h, j) ==
    /\ j.stage = "create" /\ j.left = {}
    /\ Ends(h, j)
    /\ UNCHANGED <<akonadiVars, alive, clientVars, pipeVars, effect>>

Works(h, j) ==
    \/ FetchFailed(h, j) \/ Fetched(h, j) \/ ReadForSetTags(h, j)
    \/ \E t \in LaresTag : TagIgnored(h, j, t) \/ TagCreated(h, j, t) \/ TagFailed(h, j, t)
    \/ Modify(h, j) \/ Modified(h, j) \/ ModifyFailed(h, j) \/ Spent(h, j)

Exit(h) ==
    /\ h \in alive
    /\ alive' = alive \ {h}
    /\ jobs' = [jobs EXCEPT ![h] = {}]
    /\ stdin' = [stdin EXCEPT ![h] = <<>>]
    /\ UNCHANGED <<akonadiVars, clientVars, stdout, effect>>
-----------------------------------------------------------------------------
(* The user                                                                *)

UserTags(i) ==
    /\ i \in there
    /\ \E u \in UserTag : \/ tags' = [tags EXCEPT ![i] = @ \cup {u}]
                          \/ tags' = [tags EXCEPT ![i] = @ \ {u}]
    /\ UNCHANGED <<there, alive, clientVars, pipeVars, jobs, effect>>

Delete(i) ==
    /\ i \in there
    /\ there' = there \ {i}
    /\ tags' = [tags EXCEPT ![i] = {}]
    /\ UNCHANGED <<alive, clientVars, pipeVars, jobs, effect>>
-----------------------------------------------------------------------------
Runs(h) == h \in alive /\ (Dispatch(h) \/ \E j \in jobs[h] : Works(h, j))

Calls(c) == Send(c) \/ Receive(c) \/ TooLong(c) \/ Disconnected(c) \/ Cancelled(c) \/ Return(c)

Next == \/ \E c \in Client : Request(c) \/ Calls(c)
        \/ \E h \in Helper : Runs(h) \/ Exit(h)
        \/ \E i \in Item : UserTags(i) \/ Delete(i)

Spec == Init /\ [][Next]_vars

(* A task resumes when it can, and a helper that runs ends every job it    *)
(* started: Akonadi gives each job a result.  Nobody has to call, and no   *)
(* helper has to exit but that of a process that ends (mutate.py:90).      *)
Fairness == /\ \A c \in Client : WF_vars(Calls(c))
            /\ \A h \in Helper : WF_vars(Runs(h)) /\ WF_vars(Overran(h) /\ Exit(h))

FairSpec == Spec /\ Fairness
=============================================================================
