---------------------------- MODULE Supervision -----------------------------
(***************************************************************************)
(* How the service and its helpers start and stop: the contexts of run     *)
(* (service.py:151), which spawn the helpers in order and end them in the  *)
(* reverse order on any exception; the signals that cut this short; and    *)
(* the host that starts the service, systemd or a shell.                   *)
(*                                                                         *)
(* A helper obeys SIGTERM or not; it may exit at any time; and it may hang *)
(* in a write to its stderr, a pipe that nobody reads (mutate.py:78).  One *)
(* service runs at a time.                                                 *)
(***************************************************************************)
EXTENDS Naturals

CONSTANT MaxFaults       \* bound on exceptions, signals, and helpers that fail

ASSUME MaxFaultsAssumption == MaxFaults \in Nat

Helper == {"notify", "mutate"}

VARIABLES
    host,                \* "systemd" or "shell"
    unit,                \* the unit: "absent", "installed", "stopping", or "unlinked", its
                         \* file removed though systemctl failed to stop it
    service,             \* what run awaits: the start or the exit of a helper, or its tasks
    helper,              \* the helpers of this service
    ended,               \* the helpers whose end the tasks have noticed
    stray,               \* how many helpers outlive the service that started them
    result,              \* how the last service ended, for systemd
    orderly,             \* ghost: no service was killed or cut short in its exits
    unwanted,            \* ghost: the user has not started the service, or has ended it
    faults               \* faults so far

hostVars    == <<host, unit>>
processVars == <<service, helper, ended>>
ghosts      == <<orderly, unwanted>>
lifeVars    == <<hostVars, processVars, stray, result, ghosts, faults>>

None == [h \in Helper |-> "none"]
Zero == [h \in Helper |-> 0]

Lives(h)  == helper[h] \in {"running", "hangs"}
Exit(h)   == IF h = "mutate" THEN "exit_mutate" ELSE "exit_notify"
Onward    == CASE service = "serving"                     -> "closing"
               [] service = "closing"                     -> "exit_mutate"
               [] service \in {"exit_mutate", "mutate"}   -> "exit_notify"
               [] service \in {"exit_notify", "notify"}   -> "down"
Leaving   == service \in {"closing", "exit_mutate", "exit_notify"}
Fault     == faults < MaxFaults /\ faults' = faults + 1
-----------------------------------------------------------------------------
SupervisionInit ==
    /\ host \in {"systemd", "shell"} /\ unit = "absent"
    /\ service = "down" /\ helper = None /\ ended = {}
    /\ stray = Zero /\ result = "none" /\ orderly = TRUE
    /\ unwanted = TRUE /\ faults = 0

(* What is left of a service that is gone: its live helpers are strays.    *)
Gone(how) ==
    /\ service' = "down" /\ result' = how
    /\ stray' = [h \in Helper |-> stray[h] + IF Lives(h) THEN 1 ELSE 0]
    /\ helper' = None /\ ended' = {}

(* The exception or the end of one context passes to the next, whose exit  *)
(* first sends SIGTERM to its helper.                                      *)
Leave(to, how) ==
    IF to = "down" THEN Gone(how)
    ELSE /\ service' = to /\ result' = how
         /\ UNCHANGED <<helper, ended, stray>>
-----------------------------------------------------------------------------
(* The contexts of run                                                     *)

(* A mutant: the tasks start before the mutate helper does.                *)
SpawnedEarly(h) ==
    /\ service = h
    /\ helper' = [helper EXCEPT ![h] = "running"]
    /\ service' = "serving"
    /\ UNCHANGED <<hostVars, ended, stray, result, ghosts, faults>>

Spawned(h) ==
    /\ service = h
    /\ helper' = [helper EXCEPT ![h] = "running"]
    /\ service' = IF h = "notify" THEN "mutate" ELSE "serving"
    /\ UNCHANGED <<hostVars, ended, stray, result, ghosts, faults>>

(* A mutant: the notify helper is left alone.                              *)
SpawnFailsAlone(h) ==
    /\ service = h
    /\ Fault
    /\ Leave("down", "failure")
    /\ UNCHANGED <<hostVars, ghosts>>

SpawnFails(h) ==
    /\ service = h
    /\ Fault
    /\ Leave(Onward, "failure")
    /\ UNCHANGED <<hostVars, ghosts>>

(* The loops notice that a helper is gone at the end of its stdout.        *)
Notices(h) ==
    /\ service = "serving"
    /\ helper[h] = "exited"
    /\ ended' = ended \cup {h}
    /\ UNCHANGED <<hostVars, service, helper, stray, result, ghosts, faults>>

(* A mutant: _cmd_kmail_run returns 0 whatever run raised.                 *)
RaisesSilently ==
    /\ service = "serving"
    /\ Fault
    /\ Leave(Onward, "clean")
    /\ UNCHANGED <<hostVars, ghosts>>

(* One of the tasks raises; the TaskGroup cancels the other one.           *)
Raises ==
    /\ service = "serving"
    /\ Fault
    /\ Leave(Onward, "failure")
    /\ UNCHANGED <<hostVars, ghosts>>

(* The HTTP client of the classifier is closed.                            *)
Closed ==
    /\ service = "closing"
    /\ Leave(Onward, result)
    /\ UNCHANGED <<hostVars, ghosts, faults>>

Left(h) ==
    /\ service = Exit(h)
    /\ helper[h] = "exited"
    /\ Leave(Onward, result)
    /\ UNCHANGED <<hostVars, ghosts, faults>>

(* A mutant: the helper is not killed, and left.                           *)
TimesOutAndLeaves(h) ==
    /\ service = Exit(h)
    /\ Lives(h)
    /\ Leave(Onward, result)
    /\ UNCHANGED <<hostVars, ghosts, faults>>

(* A mutant: the helper is not killed, and awaited.                        *)
TimesOutAndWaits(h) ==
    /\ service = Exit(h)
    /\ Lives(h)
    /\ UNCHANGED lifeVars

(* Two seconds have passed: SIGKILL.                                       *)
TimesOut(h) ==
    /\ service = Exit(h)
    /\ Lives(h)
    /\ helper' = [helper EXCEPT ![h] = "exited"]
    /\ UNCHANGED <<hostVars, service, ended, stray, result, ghosts, faults>>
-----------------------------------------------------------------------------
(* Signals.  Nothing calls _install_signal_shutdown, so that SIGTERM ends  *)
(* Python at once; asyncio turns SIGINT into the cancellation of run.      *)

(* ... which waits for nothing any more if run is in an exit already.      *)
Interrupt ==
    /\ service # "down"
    /\ Fault
    /\ Leave(Onward, "clean")
    /\ unwanted' = TRUE
    /\ orderly' = (orderly /\ ~(\E h \in Helper : service = Exit(h) /\ Lives(h)))
    /\ UNCHANGED hostVars

Killed ==
    /\ service # "down"
    /\ Fault
    /\ \E how \in {"failure", "sigterm"} :
          Gone(how) /\ unwanted' = (unwanted \/ how = "sigterm")
    /\ orderly' = FALSE
    /\ UNCHANGED hostVars
-----------------------------------------------------------------------------
(* The helpers                                                             *)

Obeys(h) ==
    /\ Leaving /\ (service = Exit(h) \/ h = "mutate")
    /\ Lives(h)
    /\ helper' = [helper EXCEPT ![h] = "exited"]
    /\ UNCHANGED <<hostVars, service, ended, stray, result, ghosts, faults>>

Exits(h) ==
    /\ Lives(h)
    /\ Fault
    /\ helper' = [helper EXCEPT ![h] = "exited"]
    /\ UNCHANGED <<hostVars, service, ended, stray, result, ghosts>>

Hangs(h) ==
    /\ helper[h] = "running"
    /\ Fault
    /\ helper' = [helper EXCEPT ![h] = "hangs"]
    /\ UNCHANGED <<hostVars, service, ended, stray, result, ghosts>>

(* Its pipes are closed: a stray ends at its next read or write.           *)
StrayEnds(h) ==
    /\ stray[h] > 0
    /\ stray' = [stray EXCEPT ![h] = @ - 1]
    /\ UNCHANGED <<hostVars, processVars, result, ghosts, faults>>
-----------------------------------------------------------------------------
(* The hosts                                                               *)

Begin == /\ service = "down"
         /\ service' = "notify" /\ result' = "none" /\ unwanted' = FALSE
         /\ UNCHANGED <<host, helper, ended, stray, orderly, faults>>

(* lares kmail run, by hand                                                *)
Run == host = "shell" /\ Begin /\ UNCHANGED unit

(* install systemd, with --start or without                                *)
Install ==
    /\ host = "systemd"
    /\ unit # "stopping"
    /\ unit' = "installed"
    /\ \/ stray = Zero /\ Begin
       \/ UNCHANGED <<host, processVars, stray, result, ghosts, faults>>

(* Restart=on-failure, when the control group of the unit is empty.  What  *)
(* systemd has loaded outlives the file, if its reload failed too.         *)
Restart ==
    /\ unit \in {"installed", "unlinked"} /\ result = "failure"
    /\ stray = Zero
    /\ Begin
    /\ UNCHANGED unit

(* systemd kills what is left in the control group.                        *)
ControlGroupKilled ==
    /\ host = "systemd" /\ service = "down" /\ stray # Zero
    /\ stray' = Zero
    /\ UNCHANGED <<hostVars, processVars, result, ghosts, faults>>

(* A mutant: systemctl stop is not waited for.                             *)
UninstallAtOnce ==
    /\ unit = "installed"
    /\ unit' = "absent" /\ unwanted' = TRUE
    /\ IF service = "down" THEN UNCHANGED <<processVars, stray, result, orderly>>
       ELSE Gone("sigterm") /\ orderly' = FALSE
    /\ UNCHANGED <<host, faults>>

(* install systemd --uninstall: systemctl stop sends SIGTERM ...           *)
Uninstall ==
    /\ unit = "installed"
    /\ unit' = "stopping" /\ unwanted' = TRUE
    /\ IF service = "down" THEN UNCHANGED <<processVars, stray, result, orderly>>
       ELSE Gone("sigterm") /\ orderly' = FALSE
    /\ UNCHANGED <<host, faults>>

(* ... and succeeds when all is gone.                                      *)
Unlinked ==
    /\ unit = "stopping" /\ stray = Zero
    /\ unit' = "absent"
    /\ UNCHANGED <<host, processVars, stray, result, ghosts, faults>>

(* It may fail, before it reached systemd or while it waits.  Nobody looks *)
(* at its status: the file is removed all the same.                        *)
UninstallFails ==
    /\ unit \in {"installed", "stopping"}
    /\ Fault
    /\ unit' = "unlinked" /\ unwanted' = TRUE
    /\ UNCHANGED <<host, processVars, stray, result, orderly>>
-----------------------------------------------------------------------------
Exiting == Closed \/ \E h \in Helper : Left(h) \/ TimesOut(h)

SupervisionNext ==
    \/ Exiting \/ Raises \/ Interrupt \/ Killed
    \/ \E h \in Helper : Spawned(h) \/ SpawnFails(h) \/ Notices(h)
    \/ \E h \in Helper : Obeys(h) \/ Exits(h) \/ Hangs(h) \/ StrayEnds(h)
    \/ Run \/ Install \/ Restart \/ ControlGroupKilled
    \/ Uninstall \/ Unlinked \/ UninstallFails

SupervisionSpec == SupervisionInit /\ [][SupervisionNext]_lifeVars

(* The event loop goes on while the process lives, and systemd does its    *)
(* part.  No helper is sure to obey a signal, no stray to end.             *)
FairSupervision ==
    /\ SupervisionSpec
    /\ WF_lifeVars(Exiting) /\ WF_lifeVars(\E h \in Helper : Spawned(h))
    /\ WF_lifeVars(unit = "installed" /\ Restart) /\ WF_lifeVars(ControlGroupKilled)
-----------------------------------------------------------------------------
(* Every variable has its type, and a helper is there when it was spawned. *)
SupervisionTypeOK ==
    /\ host \in {"systemd", "shell"}
    /\ unit \in {"absent", "installed", "stopping", "unlinked"}
    /\ service \in Helper \cup {"down", "serving", "closing", "exit_mutate", "exit_notify"}
    /\ helper \in [Helper -> {"none", "running", "hangs", "exited"}]
    /\ ended \subseteq Helper /\ orderly \in BOOLEAN /\ unwanted \in BOOLEAN
    /\ helper["notify"] = "none" <=> service \in {"down", "notify"}
    /\ service \in {"serving", "closing", "exit_mutate"} => helper["mutate"] # "none"
    /\ stray \in [Helper -> Nat]
    /\ result \in {"none", "failure", "clean", "sigterm"} /\ faults \in 0..MaxFaults

(* A service that ends by itself, by an exception at any point of its      *)
(* start or its work or by an interrupt, takes its helpers along, those    *)
(* that hang or ignore SIGTERM too (mutate.py:82, notify.py:77).           *)
NoStray == orderly => stray = Zero

(* After an uninstall whose systemctl stop succeeded nothing of the        *)
(* service runs, and nothing starts it again (cli.py:177).  If it failed   *)
(* the unit is "unlinked", and the service may go on.                      *)
UninstalledIsGone ==
    host = "systemd" /\ unit = "absent" => service = "down" /\ stray = Zero

(* Once run is on its way out it gets out, whatever its helpers do.        *)
StopEnds == Leaving ~> service = "down"

(* Under systemd the service comes back from everything but what the user  *)
(* does to it.                                                             *)
KeepsServing ==
    unit = "installed" ~> service = "serving" \/ unwanted

(* Starts and stops implement the life KMailService takes for granted.     *)
Serves(h) == IF service = "serving" /\ helper[h] # "none" /\ h \notin ended
             THEN "running" ELSE "exited"
Life == INSTANCE ServiceLife WITH
            up     <- service = "serving",
            notify <- Serves("notify"), mutate <- Serves("mutate")
ImplementsLife == Life!LifeSpec

(* design:267: "Cancellation on SIGTERM propagates through structured      *)
(* concurrency; each subprocess context-manager sends SIGTERM, waits <=2s, *)
(* SIGKILLs if needed."  No helper outlives a service that got SIGTERM.    *)
SigtermEndsHelpers == result = "sigterm" /\ service = "down" => stray = Zero
=============================================================================
