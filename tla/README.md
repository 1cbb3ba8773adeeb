# A verification model of the lares KMail triage agent

This directory holds TLA+ models of `src/lares/kmail` and
`src/akonadi_bridge`: TLC checks them on small instances, and TLAPS proves the
safety of the service, of its helpers and of the commands beside it for every
value of the constants. Paths
below are relative to the repository; *design* is
`docs/superpowers/specs/2026-05-18-kmail-triage-agent-design.md`.

## 1. The system

`lares kmail run` is one process with one asyncio event loop and two C++
subprocesses. A systemd user unit starts it again five seconds after it failed.
Beside it the user may run other commands, which share its store and its mailbox.

| Component | State it keeps | Operations | Talks to |
|---|---|---|---|
| Service (`service.py`) | what each of its two tasks awaits; the list `pop_due` returned | `consume_one_event`, `drain_one_due`, `_classify_and_apply`, the two loops, `run` | all of the following |
| Store (`state.py`) | sqlite tables `items` and `retry_queue` | `record_pending`, `record_classified`, `record_error`, `bump_attempts`, `enqueue_retry`, `pop_due`, queries | called by the service and the command line, no `await` inside |
| Mutate client (`mutate.py`) | a lock, a request counter, two pipes | `fetch`, `set_tags` | one line out, one line in |
| Mutate helper (`mutate.cpp`) | a line accumulator; a chain of Akonadi jobs per request | `dispatch`, `handleFetch`, `handleSetTags`, `applyTagsAndModify` | Akonadi, asynchronously |
| Notify client and helper (`notify.py`, `notify.cpp`) | a pipe of `item_added` events | `events`, `emitEvent` | Akonadi's monitor |
| Classifier (`classifier.py`) | none between calls | `classify` | Ollama over HTTP |
| Tags (`tags.py`), configuration (`config.py`) | constants | `is_lares_tag`; validation at start-up | |
| Command line (`cli.py`) | none of its own | `retag [--remove]`, `purge`, `status`, installers | store, a mutate helper of its own, Ollama |

A new mail travels like this: the notify helper reports it; the consume task
fetches it, skips it if it carries any `lares-*` tag, tags it `lares-pending`,
writes its row, and asks Ollama. A verdict replaces the tag and settles the
row. A failure raises the row's attempts and queues the mail with a delay, or,
past `max_retries`, flips it to `lares-error`. The drain task looks for due
rows every five seconds and takes them through the same classification.

What makes this hard:

* **Interleaving.** Coroutines are atomic between two awaits and nowhere else.
  Both tasks read Akonadi, wait, and act on what they read. Nothing in the code
  excludes them from one mail but the skip check and the queue.
* **Two stores, no transaction.** The tag lives in Akonadi and the row in
  sqlite. They are written one after the other by a process that may end in
  between; only these two survive.
* **Failure travels.** A `MutateError` of most `set_tags` calls is caught by
  nobody: it cancels the other task, in the middle of another mail, and ends
  the process.
* **Old answers.** The list of `pop_due` and the tags of a fetch are snapshots;
  so are the tags the helper keeps while it creates tags and modifies the item.
* **Other hands.** `retag` writes tags and rows of the same mail from another
  process, without a lock; `purge` unlinks the tables under a running service,
  whose next write sqlite refuses.
* **Starts and stops.** Four nested contexts are entered and left in order, with
  helpers that may not start, not end, or hang; signals cut this short; a
  `systemctl` that fails goes unnoticed.
* **Retries.** Attempts, delays, the limit, and deletion by the user while a
  mail waits.

The properties each component owes:

* service: one task per mail; queue, row and tag agree after any crash; the
  attempts are bounded; queued and reported mail is settled in the end;
* store: a row is pending until it is settled, once; delays never shrink;
* mutate client and helper: a request is answered once, with its own answer;
  `set_tags` is one step to its caller; tags outside the namespace are left
  alone;
* reader of the mutate helper: chunks of bytes that end anywhere are the lines
  that were written; a body is cut between two characters;
* notify: an event for every new mail while the helper runs;
* commands: a retag of a mail the service is not at disturbs nothing; a purge
  costs queue and history, but never lets settled mail be classified again;
* starts and stops: every exit ends, no helper outlives a service that ends by
  itself, and systemd brings the service back.

`PROJECT.json` lists all components, also those not modelled, and the hazards at
the lines where they bite.

## 2. The modules

| Module | Models | Remarks |
|---|---|---|
| `Tags` | `tags.py`, the range of verdicts | a tag is its full name; the taxonomy is a constant |
| `KMailState` | `state.py` | one operator per method; every method is one transaction |
| `KMailTask` | what both tasks share: an awaited helper call in three steps, `_classify_and_apply`, the retry path | extends `KMailState` |
| `KMailService` | `service.py`: both tasks, crash, restart, helpers, user | extends `KMailTask`; `Init`, `Next`, `Spec`, `FairSpec` |
| `KMailProperties` | properties of the service and its inductive invariant | extends `KMailService` |
| `TriageLedger` | abstract specification of the `items` table | instantiated by `KMailProperties` |
| `KMailClaims` | sentences of the documentation the code does not keep | one violation run each |
| `KMailServiceProofs`, `KMailFailureProofs` | theorems | extend `KMailProperties` and `TLAPS` |
| `MutateHelper` | `mutate.py` and `mutate.cpp`: lock, pipes, jobs | `Spec`, `FairSpec`; properties and inductive invariant are in `MCMutateHelper` |
| `MutateHelperProofs` | theorems | extends `MCMutateHelper` and `TLAPS` |
| `MutateRPC` | abstract specification of a helper call | implemented by `MutateHelper`, assumed by `KMailTask` |
| `KMailSystem` | `cli.py`: `retag`, `retag --remove`, `purge`, beside the service | extends `KMailProperties`; `retag` is a third task of `KMailTask`; `SystemSpec` |
| `KMailSystemProofs` | theorems | extends `KMailSystem` and `KMailServiceProofs` |
| `Supervision` | `run` of `service.py`, `__aenter__` and `__aexit__` of the clients, signals, `install systemd`, the unit | `SupervisionSpec`, `FairSupervision` |
| `ServiceLife` | abstract specification of starts and stops | implemented by `Supervision`; its steps are the ones `KMailService` takes on `up`, `notify` and `mutate` |
| `SupervisionProofs` | theorems | extends `Supervision` and `TLAPS` |
| `HelperIO` | the bytes of `mutate.cpp`: stdin reader, truncation of bodies | `IOSpec` |
| `LineQueue` | abstract specification of a pipe of lines | implemented by `HelperIO`, assumed by `MutateHelper` |
| `HelperIOProofs` | theorems | extends `HelperIO` and `Induction` |
| `Induction` | lemmas: induction over numbers and sequences | models no code |
| `MCKMailService`, `MCKMailSystem`, `MCMutateHelper`, `MCHelperIO` | instances for TLC; the third also states the helper's properties | |

### How the service's state maps to the code

* `items`, `retry_queue`: the two tables, total functions over the mails. A
  missing row is a record whose other columns have the values every `INSERT`
  gives, so that the two arms of an upsert are one assignment. Timestamps are
  dropped, except that a queue row is `waiting` until its `due_at` has passed
  and `due` from then on, with the delay it was queued with beside it. Error
  texts are the three reasons that differ.
* `task[t]`: what coroutine `t` awaits (`pc`), for which mail, the tag it asks
  for or has fetched, and the reply. `pc` is one of the awaited calls: `fetch`,
  `mark` (`lares-pending`), `classify`, `apply` (the verdict), `exhaust` and
  `giveup` (`lares-error`, from `_classify_and_apply` and from `drain_one_due`,
  which treat a failure differently).
* `events`, `batch`: the unread lines of the notify pipe, what is left of the
  list `pop_due` returned.
* `up`, `notify`, `mutate`: which processes run.
* `mail`, `tag`: what Akonadi holds. The service only ever sets one `lares-*`
  tag, so the tag of a mail is a single value in this model;
  `MutateHelper` has sets of tags.
* `faults`: counts what the environment does wrong, to bound it.

An action of a task is the code between two awaits. A helper call is issued by
the task, served (`Serve`) or failed (`ServeFails`, `Unserved`) at any later
moment, and resumed from at any moment after that. A call that fails may have
taken effect. The TaskGroup is `Raise`: an exception nobody catches ends the
process at once; `Crash` is any other end. Both leave Akonadi and the tables as
they are. `CrashBumped` is the end between `bump_attempts` and `enqueue_retry`,
two transactions with no `await` between them: the attempt is counted and the
mail is queued as it was before. An exception of `classify` that is no
`ClassifierError` (`classifier.py:106` does not catch every `ValueError`) is a
`Crash` as well, and a fault: `Calm` does not hold after it.

`KMailService` lets a few things happen that the code orders: the due rows are
taken in any order rather than by `due_at`; taking the list and starting on its
first row are two steps. Both only add behaviours.

### The helper

`MutateHelper` has the lock as a queue (asyncio's lock is first in, first out),
a counter of ids, both pipes, and one record per request at work in the helper:
the stage its chain of jobs has reached, the tags kept and created so far, the
TagCreateJobs still running, and the counter the callbacks share, with its `-1`
after an error. Every job may fail; a modify job may fail after Akonadi carried
it out. The ghost variable `effect` notes when a call took effect; it guards
nothing.

An answer longer than the limit of `readline` (`TooLong`) ends its task with a
`ValueError`. What `readline` leaves of that line precedes all else in the pipe
(`rest`). The task that waits for the lock gets it and sends its request in the
same turn of the event loop, and is cancelled there by the TaskGroup, before
anything can be read; one that did not wait may do the same. What they asked for
may still take effect. Their calls are over (`Cancelled`) when the process has
waited for its helper to end. From then on the model has callers that no process
is behind; they get no answer but that one.

The refinement maps a call in flight to `called` or `applied` by `effect`.

### The commands

`KMailSystem` adds a task `retag` to those of the service. Its awaited calls are
those of any task, with a mutate helper of its own, and `_classify_and_apply` is
the same code; any exception ends the command and nothing else. `purge` unlinks
the file of the store. A service that has it open (`purged`) reads the unlinked
tables, but sqlite looks whether the file is still at its path before it writes,
and refuses (`SQLITE_READONLY_DBMOVED`; the store has a rollback journal, the
default). `State._tx` rolls back and raises, nobody catches it, and the service
ends at its next write (`StoreRefuses`), perhaps between the tag of a mail and its
row. The restart opens new tables; without a service the tables are gone at once.

The service's safety does not survive *every* retag. `disturbed` is a ghost that
collects the mails a retag met while the service had something to do with them:
queued, in hand, or about to be read from an event without a tag. For such a
mail `RetagAlone`, `QueueAgreesUndisturbed`, `ShownIsRecorded` and `SettledStays`
can each fail (TLC finds a behaviour for each once the restriction is dropped);
for all others they hold. `RowsForAll` needs no such restriction. `ShownIsRecorded`
leaves `lares-pending` and `lares-error` out: a taxonomy may use these names, and
then a control tag would be taken for a verdict.

Limits: one command at a time; no retag between a purge and the restart that
follows it, when two stores are in use. The process may be killed between the
transactions of `bump_attempts` and `enqueue_retry`, in the service and in a
retag; that the other process writes between them, and waiting for sqlite's lock,
are left out.

### Starts and stops

`service` says what `run` awaits: the spawn of a helper (`notify`, `mutate`), its
tasks (`serving`), the classifier's client (`closing`), or the end of a helper
(`exit_mutate`, `exit_notify`). Entering an exit sends SIGTERM at once, as there
is no `await` before it. A helper then obeys, or two seconds pass and it is
killed. An interrupt is a cancellation: of the tasks, or of a spawn (asyncio
kills the process it was about to hand out), or of the wait in an exit, which
then neither kills nor waits any more. SIGTERM, SIGKILL and crashes of Python
are `Killed`. What lives on is counted in `stray`. A `notify` helper notices
that its reader is gone when it next writes, so no stray is ever sure to end.
A start that fails stands for every reason the code has: no helper binary, a
refused configuration, a store that cannot be opened. A helper that hangs is one
whose stderr pipe is full.

`host` is systemd or a shell, once and for all. Under systemd a start waits for
an empty control group, and SIGINT and SIGTERM count as clean ends. An uninstall
is `Uninstall`, `systemctl stop` sending SIGTERM, and `Unlinked`, its success. It
may fail at once or while it waits (`UninstallFails`): the code does not look at
its status and removes the file all the same (`unlinked`). The service then goes
on as it was; whether systemd starts it again after a failure depends on whether
its reload failed as well, so it may and need not.

### The bytes of the helper

`HelperIO` has the pipe as a sequence of bytes. `Read(n)` takes any number of
them, appends them to the accumulator and dispatches every complete line. When
the client is gone, a suffix of what it wrote may be missing, mid-line too. `Split` takes the bytes in
one by one, as the loop over `indexOf('\n')` does by stretches. A body is a
sequence of characters with a width of one to four bytes; `truncated` is
the loop of `mutate.cpp:133`, written over the kinds of bytes it tests for.

## 3. What the runs check

| Run | Module, config | Shows |
|---|---|---|
| `service` | `MCKMailService`, `MCKMailService.cfg` | safety: types, `NoDoubleProcessing`, `QueueAgrees`, `AttemptsAreCounted`, `VerdictAgrees`, `OutageIsHarmless`, `AttemptsBounded`, and that the `items` table implements `TriageLedger` |
| `retries` | `MCKMailService`, `Retries.cfg` | liveness: `RetriesEnd`, `ReportedIsSettled` |
| `helper` | `MCMutateHelper`, `MCMutateHelper.cfg` | types, `FramingInStep`, `EveryCallReturns`, and that the helper implements `MutateRPC` |
| `system` | `MCKMailSystem`, `MCKMailSystem.cfg` | the service beside the commands: `RetagAlone`, `QueueAgreesUndisturbed`, `RowsForAll`, `ShownIsRecorded`, `SettledStays`; and `BackoffGrows` along the whole schedule |
| `lifecycle` | `Supervision`, `Supervision.cfg` | `NoStray`, `UninstalledIsGone`, liveness `StopEnds` and `KeepsServing`, and that starts and stops implement `ServiceLife` |
| `io` | `MCHelperIO`, `MCHelperIO.cfg` | that chunks implement `LineQueue`, `NoRequestWaits`, `HelperFollows`, and `BodyIsText` for every body of up to three characters |

*Bounds.* Two mails are enough for one to be in each task, for one to be in hand
while the other fails and ends the process, and for a batch with a rest; there
are only two tasks. Mails are symmetric in the safety run. Two faults reach a
crash after a failure (or a restart in between), and `MaxEvents = 2` a duplicate
behind a first event. `MaxRetries = 1` has an attempt within the limit and one
beyond; the `system` run has four and with them every
entry of the schedule the code reaches. One taxonomy tag
and `lares-unclassified` are two verdicts. The helper run has the two callers
the service has, requests for no tag and for two (two TagCreateJobs, one of
which may fail first), ids modulo three (more than are in flight), and one
failed request whose jobs still run when the next call is made. The liveness
run has one fault, and deletion of one of the mails. The `system` run has one
mail, since a command disturbs only the mail it names and a purge all alike; two
commands are a purge and a retag in either order, or two retags; the fault is a
crash between them, or between two transactions. The `lifecycle` run has three faults: one that ends the
service, one that makes a helper hang or exit, and one that cuts the exit short
or fails an uninstall; restarts are not bounded. The `io` run has lines of one and two bytes, two or
three of which fit into the pipe, a limit of four bytes, and all 85 bodies of up to three
characters of every width, so that the cut falls on each byte of a character.

*Fairness.* Each task of the service is weakly fair: the event loop runs what
can run, Ollama calls end (httpx has a timeout), the helper answers while it
lives (Akonadi gives every job a result). `Restart` is weakly fair because the
unit says `Restart=on-failure`, and a mail in the queue becomes due because the
clock advances. No fault, no new mail and no deletion is fair: none is ever
due. In `MutateHelper`, a task resumes when it can and a running helper goes on
with its jobs; a helper has to exit only when an answer was too long, as its
process then ends and kills it. In `Supervision`, the event loop enters and leaves
its contexts, timers included, and systemd empties the control group and restarts
a unit that is installed; helpers need not obey. In `HelperIO`, the socket notifier fires while there is something to
read, end of file included.

*Deadlock* is checked but for `Supervision`, where a service that serves, or is
down and not to be restarted, needs no further step.

### Where documentation and code part

Six runs, each expected to end in a violation, show a behaviour of the model
that a sentence of the documentation excludes (`KMailClaims`,
`SigtermEndsHelpers` in `Supervision`, and `UserTagsArePreserved` in
`MCMutateHelper`). `PROJECT.json` quotes the lines.

| Run | What the code does |
|---|---|
| `orphan` | a mail is tagged `lares-pending` but queued only after a failure; if the process ends in between, no one ever retries it, and its tag makes every later event skip it. No fault is needed: the deletion of another mail ends the process |
| `not_found` | any fetch error is `not_found` to the service, which records a mail as deleted that is there |
| `error_shown` | a mail given up while Akonadi fails is `error` in the table and `lares-pending` on screen |
| `deaf` | a notify helper that exits is not started again, and the service runs on without it |
| `sigterm` | SIGTERM ends Python before any context is left; a service that was started by hand leaves both helpers behind |
| `user_tags` | a tag the user adds between the fetch and the modify job of `set_tags` is lost |

More sentences that do not hold have no run of their own:

* `--uninstall` "stops, disables, removes the unit" (design:443): when
  `systemctl --user stop` fails, `cli.py:179` removes the file all the same,
  reports success, and the service runs on (`UninstallFails`);
* the lock keeps "the stdio framing in step" (`mutate.py:4`): after an answer too
  long to read, the next task sends its request while the rest of that answer is
  in the pipe (`TooLong`, then `Send`). Nothing comes of it, as the process ends
  and nobody reads it;
* the schedule "10s → 30s → 60s → 5min cap" (design:295): attempts are raised
  before the delay is looked up, so the first delay is 30 s;
* "single in-flight Ollama call" (design:302): both tasks may be at Ollama at
  once, and a retag beside them;
* after a crash of the mutate helper nothing is re-issued (design:225): a call
  meets end of file and fails;
* after a crash between the verdict's tag and its row, mail that already shows a
  verdict is classified again (`service.py:56` says the step is reached with
  `lares-pending` set);
* a taxonomy category named `pending` or `error` is accepted although
  `tags.py:4` calls those tags reserved;
* purge "uninstalls" the service (design:446): the code unlinks the database
  and leaves service and unit alone;
* stderr of the helpers goes to journald (design:196): it goes to a pipe nobody
  reads.

`OutageIsHarmless` is the other side of `orphan`: as long as only Ollama fails
(`Calm`: no fault, no deletion), every pending mail is queued or in hand. A
taxonomy may have a category named `pending`, so a mail with that verdict counts
as settled, not as lost.

## 4. What is proved

`KMailServiceProofs` proves, for any set of mails, any taxonomy and all values of
the limits (with the named assumptions of the modules: `TaxonomyAssumption`,
`NoItemAssumption`, `MaxRetriesAssumption`, `TaskAssumption`,
`BatchLimitAssumption`):

| Theorem | Statement |
|---|---|
| `Invariance` | `Spec => []IInv` |
| `TypeCorrect` | `Spec => []TypeOK` |
| `Exclusion` | `Spec => []NoDoubleProcessing` |
| `QueueSound` | `Spec => []QueueAgrees` |
| `NoUnknownItem` | `Spec => []AttemptsAreCounted` |
| `Agreement` | `Spec => []VerdictAgrees` |
| `LedgerIsKept` | `Spec => KeepsLedger`: the refinement of `TriageLedger` |
| `BackoffIsKept` | `Spec => BackoffGrows` |

The argument. None of the properties is inductive by itself. That the two tasks
keep apart rests on a chain: a mail the drain task has is queued
(`RetriedIsPending`: only that task unqueues, and it drops its list when the
process ends); a queued mail has a row; a mail with a row is tagged or deleted
(`RowsAreTagged`: the row is always written after the tag, and no one takes the
tag away but by deleting the mail); and what the consume task is about to claim
has no row (`ClaimIsFresh`: the fetch saw no tag, and no other task writes a
first row). So the snapshot the consume task acts on, though old, is old in a
harmless way. `TasksAreSound` ties the tag of a call to the call, and
`AppliedIsShown` carries the verdict from the helper's write to the row.
`IInv` is the conjunction of these parts. TLC has checked `IInv` as an invariant
of the safety run before it was proved. Each action preserves it by a lemma;
the lemmas of actions of one kind share one on what the kind does (`SettleKeeps`,
`RetryKeeps`, `AnswerKeeps`, `WriteKeeps`, `DownKeeps`, `QuietKeeps`), and below
those are lemmas on the operators of the store.

`BackoffIsKept` needs one more: a queued delay is at most what the attempts
account for (`DelayFitsAttempts`), attempts only grow, and `backoff_delay` is
monotone.

`KMailFailureProofs` proves what failures can do to the service at the worst, with
the same assumptions:

| Theorem | Statement |
|---|---|
| `FailureInvariance` | `Spec => []FInv` |
| `OutageLosesNothing` | `Spec => []OutageIsHarmless` |
| `AttemptsAreBounded` | `Spec => []AttemptsBounded` |

`FInv` adds to `IInv` that only mail that has come is ever reported, queued or in
hand, that a call fails only after a fault or a deletion (`CalmIsKept`), and a
count (`EndsAreCounted`). A mail passes `MaxRetries` once, unless the process ends
between the attempt and its record. Each end is paid for by a fault or by a deleted
mail, but not at the same time: a deletion or an exit of the helper is counted at
once, and the exception it leads to ends the service steps later. `Dooms` says of
a task that such an exception is on its way, and `Ends` leaves one out of the
count while it is.

`KMailSystemProofs` proves of the service beside the commands, for any number of
commands:

| Theorem | Statement |
|---|---|
| `SystemInvariance` | `SystemSpec => []SystemInv` |
| `SystemTypeCorrect` | `SystemSpec => []SystemTypeOK` |
| `RetagExclusion` | `SystemSpec => []RetagAlone` |
| `UndisturbedQueueSound` | `SystemSpec => []QueueAgreesUndisturbed` |
| `RowsExist` | `SystemSpec => []RowsForAll` |
| `ShownAgrees` | `SystemSpec => []ShownIsRecorded` |
| `SettledIsKept` | `SystemSpec => SettledStays` |
| `SystemBackoffIsKept` | `SystemSpec => BackoffGrows` |

`IInv` does not survive a command: `retag --remove` takes tags away, and a purge
takes rows. So `SystemInv` has two parts. `SystemBase` holds of everything,
disturbed or not: what a task asks for, what a purge leaves, that a mail queued or
in hand has a row. The rest is said of one undisturbed mail at a time: its queue
entry (`QueueIsSafe`), its claim (`ClaimIsSafe`), a retag of it (`RetagIsSafe`)
and its verdict (`VerdictIsShown`). `RetagIsSafe` is what replaces the skip check
while the mail is bare: no event for it is unread and the consume task has none in
hand. A step of one task is then a step at the mail it holds (`StepOf`), which
changes nothing of any other (`StepKeeps`), and an undisturbed mail has one task
past its skip check at a time (`OwnerIsAlone`).

`MutateHelperProofs` proves of the mutate helper and its client, for any number of
callers, helpers, mails, and tags, and any span of ids (with `HelperOfAssumption`,
`WantsAssumption`, `IdSpanAssumption`, and `LaresTagAssumption`: the namespace is
finite and no tag of the user's is in it):

| Theorem | Statement |
|---|---|
| `HelperInvariance` | `Spec => []HelperInv` |
| `HelperTypeCorrect` | `Spec => []TypeOK` |
| `StaysFramed` | `Spec => []FramingInStep` |
| `ContractIsKept` | `Spec => KeepsContract`: the refinement of `MutateRPC` |

`HelperInv` follows a call on its way: the caller that has the head of the lock
has sent one, and it is one line in the request pipe (`Asked`), one live job
(`Worked`) or one line of the answer (`Told`); with no such caller all three are
empty. This holds behind the `rest` of an answer, too; but there the pipe is out
of step, so `FramingInStep` speaks of helpers none of whose callers met such an
answer. `ContractIsKept` has no such condition: a cancelled call is answered when
the helper can do nothing more. That ids repeat does no harm, as only one call is compared. `Serves` ties
a live job to the tags: those created so far and those still to be created make up
what was asked for, and the shared counter is the number of the latter, so it
reaches zero when the last one is created and not before. A job whose counter is
negative answered already and does nothing that is heard. In the refinement a fetch
takes effect with its fetch job, a `set_tags` with its modify job, and all other
steps are stutters, `Lares(i)` being the mail as the contract sees it.

`SupervisionProofs` proves of the starts and stops, for any number of faults (with
`MaxFaultsAssumption`):

| Theorem | Statement |
|---|---|
| `LifeInvariance` | `SupervisionSpec => []LifeInv` |
| `SupervisionTypeCorrect` | `SupervisionSpec => []SupervisionTypeOK` |
| `NoneIsLeftBehind` | `SupervisionSpec => []NoStray` |
| `UninstallIsComplete` | `SupervisionSpec => []UninstalledIsGone` |
| `LifeIsImplemented` | `SupervisionSpec => ImplementsLife`: the refinement of `ServiceLife` |

`NoStray` rests on the order of the contexts (`SpawnedInOrder`): when the exit of
the notify helper is left, the mutate helper was ended before it or was never
spawned, unless an interrupt cut its exit short. `UninstalledIsGone` is about
an uninstall whose `systemctl stop` succeeded (`unit = "absent"`) and rests on that
being waited for (`StoppingIsDown`); where it fails nothing of the kind holds. The
refinement needs that a
service that starts has noticed nothing of an earlier helper (`StartsFresh`).

`HelperIOProofs` proves of the bytes of the mutate helper, for lines and bodies of
any length, reads of any size and any limit (with `LineAssumption`: a request holds
no newline; `TextAssumption`: a character has one to four bytes; `BodyAssumption`,
`PipeAssumption`):

| Theorem | Statement |
|---|---|
| `IOInvariance` | `IOSpec => []IOInv` |
| `IOTypeCorrect` | `IOSpec => []IOTypeOK` |
| `NoRequestIsLeft` | `IOSpec => []NoRequestWaits` |
| `BodiesAreText` | `IOSpec => []BodyIsText` |
| `LinesDoArrive` | `IOSpec => LinesArrive`: the refinement of `LineQueue` |

What a fold over bytes computes is proved by induction over its argument. The
induction theorems of the library take an operator, which the provers cannot
instantiate, so `Induction` states induction for a *set* of numbers or sequences,
from the well-foundedness of `<` on the naturals: a proof names the set of arguments
that have the property and shows that it is all of them. For the recursive functions
inside `Split` and `FlattenSeq` that gives existence and uniqueness (`HistoryExists`,
`HistoryIsUnique`, `JoinedExists`, `JoinedIsUnique`), hence what one more element does
(`SplitMore`, `FlattenMore`), hence by induction again the two facts all else rests
on. `SplitAgain`: where the bytes are cut makes no difference, as what is left of the
first part splits with the second into the other lines. `Utf8Character`: each
character takes its bytes right after those before it, a first byte that is not 0 and
then zeros. `TruncatedIsText` looks at the first character that reaches the limit: its
first byte is the last one up to the limit that is not 0. `IOInv` adds `WholeLines`
to the properties: the accumulator and the pipe together are lines that were written,
and end with one while there is a client. TLC checked `IOInv` on the `io` run before.

*Only model-checked*: liveness under fairness (`RetriesEnd`, `ReportedIsSettled`,
`EveryCallReturns`, `StopEnds`, `KeepsServing`, `HelperFollows`), which needs
`ENABLED`. The safety and refinement properties of all passing runs are proved. The
claims of section 3 that fail need no proof.

## 5. What is not modelled, and why

* `status` and `config check`, which only read; `install config`, whose file the
  running service does not look at; `backfill` and `catchup`, which only print
  that they do not exist yet.
* A second service on the same store, which nothing in the code prevents: every
  property of the service is about its two tasks.
* The user changing `lares-*` tags by hand in KMail. `RowsAreTagged` would not
  survive it: a mail whose tag is removed while queued can be claimed again.
* Akonadi carrying out a modify job after the helper that sent it has died and
  the caller has gone on. The five seconds before a restart make it unlikely;
  the contract of `MutateRPC` excludes it.
* What calls do to a helper that hangs: with no timeout in `_call` they wait for
  it, and with them both tasks.
* Prompt, schema and HTTP of the classifier; the collection filter of the notify
  helper; malformed events, which are dropped before they are events; the
  validation of the configuration, whose values are constants here.
* `remove_from_queue` and `peek_next_due`, which have no caller.
* The `retry_added` event the design describes does not exist in the code: the
  drain task only polls.

## 6. Plan

1. A timed retry queue (clock, `due_at`, `ORDER BY`, batch limit) shown to
   implement the abstract queue of `KMailState`.
2. Two services on one store: which properties are left.

## 7. Running

    tlc -config MCKMailService.cfg MCKMailService
    tlapm KMailServiceProofs.tla
    tlapm KMailFailureProofs.tla
    tlapm KMailSystemProofs.tla
    tlapm MutateHelperProofs.tla
    tlapm SupervisionProofs.tla
    tlapm Induction.tla
    tlapm HelperIOProofs.tla

A definition whose comment calls it a mutant is a faulty variant of the one below
it, kept to show that a property notices the fault; no action uses it.
`PROJECT.json` pairs each property of a run with one.
