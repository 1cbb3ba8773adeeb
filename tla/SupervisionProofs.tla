------------------------- MODULE SupervisionProofs --------------------------
(***************************************************************************)
(* Starts and stops of the service, for any number of faults.              *)
(***************************************************************************)
EXTENDS Supervision, TLAPS

(* A helper that was not spawned is none.                                  *)
SpawnedInOrder ==
    /\ service \in {"down", "notify", "mutate"} => helper["mutate"] = "none"
    /\ orderly /\ service = "exit_notify" => ~Lives("mutate")

(* Nothing starts while the unit is being uninstalled, and only systemd    *)
(* has one.                                                                *)
StoppingIsDown == /\ unit = "stopping" => service = "down"
                  /\ unit # "absent" => host = "systemd"

(* Only a service that serves has noticed that a helper ended.             *)
StartsFresh == service \in {"down", "notify", "mutate"} => ended = {}

LifeInv == /\ SupervisionTypeOK /\ SpawnedInOrder /\ NoStray
           /\ StoppingIsDown /\ UninstalledIsGone /\ StartsFresh
-----------------------------------------------------------------------------
(* What Gone does when no helper is left to be a stray.                    *)
LEMMA GoneLeavesNone ==
    ASSUME SupervisionTypeOK, NEW how, Gone(how),
           \A h \in Helper : ~Lives(h)
    PROVE  stray' = stray
  BY SMT DEF SupervisionTypeOK, Gone, Helper

(* Initially the invariant holds.                                          *)
LEMMA LifeInvInit == SupervisionInit => LifeInv
  BY MaxFaultsAssumption, SMT DEF SupervisionInit, LifeInv, SupervisionTypeOK, SpawnedInOrder,
     NoStray, StoppingIsDown, UninstalledIsGone, StartsFresh, None, Zero, Helper, Lives

(* Whatever ends the service at once: strays are counted, nothing runs.    *)
LEMMA GoneKeeps ==
    ASSUME LifeInv, NEW how \in {"none", "failure", "clean", "sigterm"}, Gone(how),
           UNCHANGED host, unit' \in {unit, "stopping"},
           unit' # unit => unit = "installed",
           faults' \in 0..MaxFaults,
           orderly' \in BOOLEAN, unwanted' \in BOOLEAN, service # "down",
           orderly' => orderly /\ \A h \in Helper : ~Lives(h)
    PROVE  LifeInv'
<1>1. SupervisionTypeOK'
  BY MaxFaultsAssumption, SMT DEF LifeInv, SupervisionTypeOK, Gone, None, Helper
<1>2. SpawnedInOrder' /\ StoppingIsDown' /\ StartsFresh'
  BY SMT DEF LifeInv, Gone, SpawnedInOrder, StoppingIsDown, StartsFresh, None, Helper
<1>3. NoStray'
  BY GoneLeavesNone, SMT DEF LifeInv, NoStray, Zero
<1>4. UninstalledIsGone'
  BY SMT DEF LifeInv, UninstalledIsGone, Gone
<1>. QED
  BY <1>1, <1>2, <1>3, <1>4 DEF LifeInv

(* Whatever passes from one context to the next.                           *)
LEMMA LeaveKeeps ==
    ASSUME LifeInv, NEW how \in {"none", "failure", "clean", "sigterm"}, Leave(Onward, how),
           UNCHANGED hostVars, faults' \in 0..MaxFaults,
           orderly' \in BOOLEAN, unwanted' \in BOOLEAN, service # "down",
           orderly' => orderly /\ ~\E h \in Helper : service = Exit(h) /\ Lives(h)
    PROVE  LifeInv'
<1>1. CASE Onward = "down"
  <2>1. Gone(how)
    BY <1>1 DEF Leave
  <2>2. service \in {"exit_notify", "notify"}
    BY <1>1, SMT DEF Onward, LifeInv, SupervisionTypeOK, Helper
  <2>3. orderly' => \A h \in Helper : ~Lives(h)
    BY <2>2, SMT DEF LifeInv, SupervisionTypeOK, SpawnedInOrder, Helper, Lives, Exit
  <2>4. unit' = unit /\ UNCHANGED host
    BY DEF hostVars
  <2>. QED
    BY <2>1, <2>3, <2>4, GoneKeeps DEF hostVars
<1>2. CASE Onward # "down"
  <2>1. /\ service' = Onward /\ result' = how /\ UNCHANGED <<helper, ended, stray>>
        /\ Onward \in {"closing", "exit_mutate", "exit_notify"}
    BY <1>2, SMT DEF Leave, Onward, LifeInv, SupervisionTypeOK, Helper
  <2>2. SupervisionTypeOK'
    BY <2>1, SMT DEF LifeInv, SupervisionTypeOK, Onward, Helper, hostVars
  <2>3. SpawnedInOrder'
    BY <2>1, SMT DEF LifeInv, SupervisionTypeOK, SpawnedInOrder, Onward, Helper, Lives, Exit
  <2>4. NoStray' /\ StoppingIsDown' /\ UninstalledIsGone' /\ StartsFresh'
    BY <2>1, SMT DEF LifeInv, NoStray, StoppingIsDown, UninstalledIsGone, StartsFresh,
       hostVars, Zero
  <2>. QED
    BY <2>2, <2>3, <2>4 DEF LifeInv
<1>. QED
  BY <1>1, <1>2

(* A helper that ends or hangs stays what it was to everything else.       *)
LEMMA HelperKeeps ==
    ASSUME LifeInv, NEW h \in Helper, Lives(h), NEW to \in {"hangs", "exited"},
           helper[h] = "running" \/ to = "exited",
           helper' = [helper EXCEPT ![h] = to], faults' \in 0..MaxFaults,
           UNCHANGED <<hostVars, service, ended, stray, result, ghosts>>
    PROVE  LifeInv'
<1>1. SupervisionTypeOK' /\ SpawnedInOrder'
  BY SMT DEF LifeInv, SupervisionTypeOK, SpawnedInOrder, Helper, Lives, hostVars, ghosts
<1>2. NoStray' /\ StoppingIsDown' /\ UninstalledIsGone' /\ StartsFresh'
  BY SMT DEF LifeInv, NoStray, StoppingIsDown, UninstalledIsGone, StartsFresh, hostVars,
     ghosts, Zero
<1>. QED
  BY <1>1, <1>2 DEF LifeInv

(* Fewer strays, and nothing else.                                         *)
LEMMA StrayKeeps ==
    ASSUME LifeInv, stray # Zero, stray' \in [Helper -> Nat],
           UNCHANGED <<hostVars, processVars, result, ghosts, faults>>
    PROVE  LifeInv'
  BY SMT DEF LifeInv, SupervisionTypeOK, SpawnedInOrder, NoStray, StoppingIsDown,
     UninstalledIsGone, StartsFresh, hostVars, processVars, ghosts, Zero, Helper, Lives

(* A service that begins finds no helper of its own.                       *)
LEMMA BeginKeeps ==
    ASSUME LifeInv, Begin,
           unit' \in IF host = "systemd" THEN {"installed", "unlinked"} ELSE {"absent"}
    PROVE  LifeInv'
<1>. USE DEF LifeInv, Begin
<1>1. SpawnedInOrder'
  BY SMT DEF SpawnedInOrder
<1>3. SupervisionTypeOK'
  <2>1. unwanted' \in BOOLEAN
    OBVIOUS
  <2>. QED
    BY <2>1, SMT DEF SupervisionTypeOK, Helper
<1>2. NoStray' /\ StoppingIsDown' /\ UninstalledIsGone' /\ StartsFresh'
  BY SMT DEF NoStray, StoppingIsDown, UninstalledIsGone, StartsFresh, Zero
<1>. QED
  BY <1>1, <1>2, <1>3
-----------------------------------------------------------------------------
(* Every step keeps the invariant.                                         *)
LEMMA LifeInvNext == LifeInv /\ [SupervisionNext]_lifeVars => LifeInv'
<1>. SUFFICES ASSUME LifeInv, [SupervisionNext]_lifeVars PROVE LifeInv'
  OBVIOUS
<1>. USE DEF hostVars, processVars, ghosts
<1>f. ASSUME Fault PROVE faults' \in 0..MaxFaults
  BY <1>f, MaxFaultsAssumption, SMT DEF Fault, LifeInv, SupervisionTypeOK
<1>t. /\ orderly \in BOOLEAN /\ unwanted \in BOOLEAN /\ faults \in 0..MaxFaults
      /\ unit \in {"absent", "installed", "stopping", "unlinked"} /\ host \in {"systemd", "shell"}
      /\ result \in {"none", "failure", "clean", "sigterm"}
  BY DEF LifeInv, SupervisionTypeOK
<1>1. CASE Closed
  BY <1>1, <1>t, LeaveKeeps DEF Closed, Exit
<1>2. ASSUME NEW h \in Helper, Left(h) PROVE LifeInv'
  <2>1. ~\E g \in Helper : service = Exit(g) /\ Lives(g)
    BY <1>2, SMT DEF Left, Exit, Lives, Helper
  <2>. QED
    BY <1>2, <1>t, <2>1, LeaveKeeps DEF Left, Exit
<1>3. ASSUME NEW h \in Helper, TimesOut(h) PROVE LifeInv'
  BY <1>3, <1>t, HelperKeeps DEF TimesOut
<1>4. CASE Raises
  BY <1>4, <1>f, <1>t, LeaveKeeps DEF Raises, Exit
<1>5. CASE Interrupt
  BY <1>5, <1>f, <1>t, LeaveKeeps DEF Interrupt
<1>6. CASE Killed
  BY <1>6, <1>f, <1>t, GoneKeeps DEF Killed
<1>7. ASSUME NEW h \in Helper, Spawned(h) PROVE LifeInv'
  <2>1. SupervisionTypeOK' /\ SpawnedInOrder'
    BY <1>7, SMT DEF Spawned, LifeInv, SupervisionTypeOK, SpawnedInOrder, Helper
  <2>2. NoStray' /\ StoppingIsDown' /\ UninstalledIsGone' /\ StartsFresh'
    BY <1>7, SMT DEF Spawned, LifeInv, NoStray, StoppingIsDown, UninstalledIsGone,
       StartsFresh, Zero, Helper
  <2>. QED
    BY <2>1, <2>2 DEF LifeInv
<1>8. ASSUME NEW h \in Helper, SpawnFails(h) PROVE LifeInv'
  <2>1. service \in Helper /\ ~\E g \in Helper : service = Exit(g)
    BY <1>8, SMT DEF SpawnFails, Exit, Helper
  <2>. QED
    BY <1>8, <1>f, <1>t, <2>1, LeaveKeeps DEF SpawnFails, Helper
<1>9. ASSUME NEW h \in Helper, Notices(h) PROVE LifeInv'
  BY <1>9, SMT DEF Notices, LifeInv, SupervisionTypeOK, SpawnedInOrder, NoStray,
     StoppingIsDown, UninstalledIsGone, StartsFresh, Zero, Helper, Lives
<1>10. ASSUME NEW h \in Helper, Obeys(h) \/ Exits(h) PROVE LifeInv'
  BY <1>10, <1>f, <1>t, HelperKeeps DEF Obeys, Exits
<1>11. ASSUME NEW h \in Helper, Hangs(h) PROVE LifeInv'
  BY <1>11, <1>f, HelperKeeps DEF Hangs, Lives
<1>12. ASSUME NEW h \in Helper, StrayEnds(h) PROVE LifeInv'
  BY <1>12, StrayKeeps, SMT DEF StrayEnds, LifeInv, SupervisionTypeOK, Zero
<1>13. CASE ControlGroupKilled
  BY <1>13, StrayKeeps, SMT DEF ControlGroupKilled, Zero
<1>14. CASE Run
  BY <1>14, <1>t, BeginKeeps DEF Run, LifeInv, StoppingIsDown
<1>15. CASE Install
  <2>1. CASE Begin
    BY <1>15, <2>1, BeginKeeps DEF Install
  <2>2. CASE UNCHANGED <<host, processVars, stray, result, ghosts, faults>>
    BY <1>15, <1>t, <2>2, SMT DEF Install, LifeInv, SupervisionTypeOK, SpawnedInOrder, NoStray,
       StoppingIsDown, UninstalledIsGone, StartsFresh, Lives
  <2>. QED
    BY <1>15, <2>1, <2>2 DEF Install
<1>16. CASE Restart
  BY <1>16, BeginKeeps DEF Restart, LifeInv, StoppingIsDown
<1>17. CASE Uninstall
  <2>1. CASE service = "down"
    <3>1. /\ unit = "installed" /\ unit' = "stopping" /\ unwanted' \in BOOLEAN
          /\ UNCHANGED <<host, processVars, stray, result, orderly, faults>>
      BY <1>17, <2>1 DEF Uninstall
    <3>. QED
      BY <2>1, <3>1, SMT DEF LifeInv, SupervisionTypeOK, SpawnedInOrder, NoStray,
         StoppingIsDown, UninstalledIsGone, StartsFresh, Lives
  <2>2. CASE service # "down"
    BY <1>17, <2>2, <1>t, GoneKeeps DEF Uninstall
  <2>. QED
    BY <2>1, <2>2
<1>18. CASE Unlinked
  BY <1>18, SMT DEF Unlinked, LifeInv, SupervisionTypeOK, SpawnedInOrder, NoStray,
     StoppingIsDown, UninstalledIsGone, StartsFresh, Lives
<1>19. CASE UninstallFails
  <2>1. SupervisionTypeOK'
    <3>1. faults' \in 0..MaxFaults /\ unwanted' \in BOOLEAN
      BY <1>19, <1>f DEF UninstallFails
    <3>. QED
      BY <1>19, <3>1, SMT DEF UninstallFails, LifeInv, SupervisionTypeOK
  <2>2. SpawnedInOrder' /\ NoStray' /\ StoppingIsDown' /\ UninstalledIsGone' /\ StartsFresh'
    BY <1>19, SMT DEF UninstallFails, LifeInv, SpawnedInOrder, NoStray, StoppingIsDown,
       UninstalledIsGone, StartsFresh, Lives
  <2>. QED
    BY <2>1, <2>2 DEF LifeInv
<1>20. CASE UNCHANGED lifeVars
  BY <1>20, SMT DEF lifeVars, LifeInv, SupervisionTypeOK, SpawnedInOrder, NoStray,
     StoppingIsDown, UninstalledIsGone, StartsFresh, Lives
<1>. QED
  BY <1>1, <1>2, <1>3, <1>4, <1>5, <1>6, <1>7, <1>8, <1>9, <1>10, <1>11, <1>12, <1>13,
     <1>14, <1>15, <1>16, <1>17, <1>18, <1>19, <1>20 DEF SupervisionNext, Exiting
-----------------------------------------------------------------------------
(* The invariant holds in every behaviour.                                 *)
THEOREM LifeInvariance == SupervisionSpec => []LifeInv
  BY LifeInvInit, LifeInvNext, PTL DEF SupervisionSpec

(* Every variable keeps its type, and helpers are spawned in order.        *)
THEOREM SupervisionTypeCorrect == SupervisionSpec => []SupervisionTypeOK
<1>1. LifeInv => SupervisionTypeOK
  BY DEF LifeInv
<1>. QED
  BY <1>1, LifeInvariance, PTL

(* A service that ends by itself never leaves a helper behind: strays are  *)
(* left only by a service that was killed, or was interrupted while it     *)
(* waited for a helper to end.                                             *)
THEOREM NoneIsLeftBehind == SupervisionSpec => []NoStray
<1>1. LifeInv => NoStray
  BY DEF LifeInv
<1>. QED
  BY <1>1, LifeInvariance, PTL

(* After an uninstall whose systemctl stop succeeded nothing of the        *)
(* service runs.                                                           *)
THEOREM UninstallIsComplete == SupervisionSpec => []UninstalledIsGone
<1>1. LifeInv => UninstalledIsGone
  BY DEF LifeInv
<1>. QED
  BY <1>1, LifeInvariance, PTL
-----------------------------------------------------------------------------
(* No exit leads back to work.                                             *)
LEMMA LeaveNeverServes ==
    ASSUME SupervisionTypeOK, service # "down", NEW how, Leave(Onward, how)
    PROVE  service' \in {"closing", "exit_mutate", "exit_notify", "down"}
<1>1. Onward \in {"closing", "exit_mutate", "exit_notify", "down"}
  BY SMT DEF Onward, SupervisionTypeOK, Helper
<1>. QED
  BY <1>1, SMT DEF Leave, Gone

(* The service serves when the mutate helper is spawned, and not before.   *)
LEMMA ServesWhenSpawned ==
    ASSUME SupervisionTypeOK, [SupervisionNext]_lifeVars,
           service # "serving", service' = "serving"
    PROVE  Spawned("mutate")
<1>. USE DEF processVars
<1>1. ~Closed /\ ~Raises /\ ~Interrupt /\ \A h \in Helper : ~Left(h) /\ ~SpawnFails(h)
  BY LeaveNeverServes, SMT DEF Closed, Raises, Interrupt, Left, SpawnFails, Exit, Helper
<1>2. ~Killed /\ ~Uninstall
  BY SMT DEF Killed, Uninstall, Gone
<1>3. \A h \in Helper : /\ ~TimesOut(h) /\ ~Notices(h) /\ ~Obeys(h)
                        /\ ~Exits(h) /\ ~Hangs(h) /\ ~StrayEnds(h)
  BY SMT DEF TimesOut, Notices, Obeys, Exits, Hangs, StrayEnds
<1>4. ~Run /\ ~Install /\ ~Restart /\ ~ControlGroupKilled /\ ~Unlinked /\ ~UninstallFails
  BY SMT DEF Run, Install, Restart, Begin, ControlGroupKilled, Unlinked, UninstallFails
<1>5. ~UNCHANGED lifeVars
  BY DEF lifeVars
<1>6. ~Spawned("notify")
  BY SMT DEF Spawned
<1>. QED
  BY <1>1, <1>2, <1>3, <1>4, <1>5, <1>6 DEF SupervisionNext, Exiting, Helper

(* While it serves, no helper goes back to none, and the tasks notice one  *)
(* end at a time.                                                          *)
LEMMA ServesOn ==
    ASSUME SupervisionTypeOK, [SupervisionNext]_lifeVars,
           service = "serving", service' = "serving"
    PROVE  /\ \A h \in Helper : helper'[h] = "none" <=> helper[h] = "none"
           /\ ended' = ended \/ \E h \in Helper : ended' = ended \cup {h}
<1>. USE DEF processVars
<1>1. ~Closed /\ ~Raises /\ ~Interrupt /\ \A h \in Helper : ~Left(h) /\ ~SpawnFails(h)
  BY LeaveNeverServes, SMT DEF Closed, Raises, Interrupt, Left, SpawnFails, Exit, Helper
<1>2. ~Killed /\ ~Uninstall
  BY SMT DEF Killed, Uninstall, Gone
<1>3. \A h \in Helper : ~TimesOut(h) /\ ~Spawned(h) /\ ~Obeys(h)
  BY SMT DEF TimesOut, Spawned, Obeys, Leaving, Exit, Helper
<1>4. ~Run /\ ~Restart /\ ~(Install /\ Begin) /\ ~ControlGroupKilled
  BY SMT DEF Run, Restart, Begin, ControlGroupKilled
<1>5. CASE Install \/ Unlinked \/ UninstallFails \/ UNCHANGED lifeVars \/ \E h \in Helper : StrayEnds(h)
  BY <1>4, <1>5, SMT DEF Install, Unlinked, UninstallFails, lifeVars, StrayEnds
<1>6. ASSUME NEW h \in Helper, Exits(h) \/ Hangs(h)
      PROVE  UNCHANGED ended /\ \A g \in Helper : helper'[g] = "none" <=> helper[g] = "none"
  BY <1>6, SMT DEF Exits, Hangs, Lives, SupervisionTypeOK, Helper
<1>7. ASSUME NEW h \in Helper, Notices(h)
      PROVE  UNCHANGED helper /\ ended' = ended \cup {h}
  BY <1>7 DEF Notices
<1>. QED
  BY <1>1, <1>2, <1>3, <1>4, <1>5, <1>6, <1>7 DEF SupervisionNext, Exiting

(* The service starts and stops with both helpers, and either may exit     *)
(* while it runs: what KMailService takes for granted.                     *)
THEOREM LifeIsImplemented == SupervisionSpec => ImplementsLife
<1>1. SupervisionInit => Life!On \/ Life!Off
  BY SMT DEF SupervisionInit, Life!On, Life!Off, Serves
<1>2. LifeInv /\ [SupervisionNext]_lifeVars =>
         [Life!Start \/ Life!Stop \/ Life!NotifyEnds \/ Life!MutateEnds]_<<service = "serving",
                                                 Serves("notify"), Serves("mutate")>>
  <2>. SUFFICES ASSUME LifeInv, [SupervisionNext]_lifeVars
                PROVE  \/ Life!Start \/ Life!Stop \/ Life!NotifyEnds \/ Life!MutateEnds
                       \/ UNCHANGED <<service = "serving", Serves("notify"), Serves("mutate")>>
    OBVIOUS
  <2>1. CASE service # "serving" /\ service' # "serving"
    BY <2>1 DEF Serves
  <2>2. CASE service # "serving" /\ service' = "serving"
    <3>1. /\ service = "mutate" /\ helper' = [helper EXCEPT !["mutate"] = "running"]
          /\ UNCHANGED ended
      BY <2>2, ServesWhenSpawned, SMT DEF LifeInv, Spawned
    <3>2. helper["notify"] # "none" /\ ended = {}
      BY <3>1, SMT DEF LifeInv, SupervisionTypeOK, StartsFresh, Helper
    <3>3. Serves("notify")' = "running" /\ Serves("mutate")' = "running"
      BY <2>2, <3>1, <3>2, SMT DEF LifeInv, SupervisionTypeOK, Serves, Helper
    <3>. QED
      BY <2>2, <3>3 DEF Life!Start, Life!On, Life!Off, Serves
  <2>3. CASE service = "serving" /\ service' # "serving"
    BY <2>3 DEF Life!Stop, Life!Off, Serves
  <2>4. CASE service = "serving" /\ service' = "serving"
    BY <2>4, ServesOn, SMT DEF LifeInv, Life!NotifyEnds, Life!MutateEnds, Serves, Helper
  <2>. QED
    BY <2>1, <2>2, <2>3, <2>4
<1>. QED
  BY <1>1, <1>2, LifeInvariance, PTL DEF SupervisionSpec, ImplementsLife, Life!LifeSpec
=============================================================================
