---------------------------- MODULE KMailClaims -----------------------------
(***************************************************************************)
(* What the README, the design document and comments say of the running    *)
(* service and the code does not do.  Each definition states the sentence  *)
(* it quotes; a run of its own shows a behaviour of KMailService without   *)
(* it.  "design" is docs/superpowers/specs/                                *)
(* 2026-05-18-kmail-triage-agent-design.md.                                *)
(***************************************************************************)
EXTENDS MCKMailService

(* README.md:96: of mail that stays lares-pending, "Service auto-retries   *)
(* with exponential backoff up to 10 attempts, then flips to lares-error". *)
(* No mail stays lares-pending for good.                                   *)
PendingIsRetried ==
    \A i \in Item : tag[i] = LARES_PENDING ~> tag[i] # LARES_PENDING

(* design:297: "After cap, replace lares-pending with lares-error; persist *)
(* state='error'."  A mail the store has given up shows it.                *)
ErrorIsShown ==
    \A i \in Item :
        items[i].last_error = "exhausted_retries" /\ mail[i] = "present"
            => tag[i] = LARES_ERROR

(* design:283: "If the item was deleted in the meantime (code: not_found), *)
(* remove from queue and persist state='error' with                        *)
(* last_error='item_deleted'."  Only deleted mail is recorded as deleted.  *)
DeletedIsDeleted ==
    \A i \in Item : items[i].last_error = "item_deleted" => mail[i] = "deleted"

(* design:77: the service "supervises both C++ subprocesses (restart on    *)
(* exit)".  A notify helper that exited is started again.                  *)
NotifyIsRestarted == notify = "exited" ~> notify = "running"
=============================================================================
