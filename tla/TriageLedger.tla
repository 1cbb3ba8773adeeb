---------------------------- MODULE TriageLedger ----------------------------
(***************************************************************************)
(* What the items table promises its readers, whatever the tasks, helpers  *)
(* and crashes behind it do: the history of an item is a line.  It is      *)
(* claimed once, fails a number of times, and is settled once, by one      *)
(* verdict or by an error, and it is only given up for too many attempts   *)
(* when there were more than MaxRetries of them.                           *)
(***************************************************************************)
EXTENDS Tags, Naturals

CONSTANTS Item, MaxRetries

VARIABLE items

Unseen == [state |-> "absent", verdict |-> NoTag, attempts |-> 0, last_error |-> "none"]

LedgerInit == items = [i \in Item |-> Unseen]

Claim(i) ==
    /\ items[i] = Unseen
    /\ items' = [items EXCEPT ![i].state = "pending"]

Fail(i) ==
    /\ items[i].state = "pending"
    /\ items' = [items EXCEPT ![i].attempts = @ + 1, ![i].last_error = "attempt_failed"]

Settle(i) ==
    /\ items[i].state = "pending"
    /\ \E v \in Verdicts :
          items' = [items EXCEPT ![i].state      = "classified",
                                 ![i].verdict    = v,
                                 ![i].last_error = "none"]

GiveUp(i) ==
    /\ items[i].state = "pending"
    /\ \E reason \in {"item_deleted", "exhausted_retries"} :
          /\ reason = "exhausted_retries" => items[i].attempts > MaxRetries
          /\ items' = [items EXCEPT ![i].state = "error", ![i].last_error = reason]

LedgerNext == \E i \in Item : Claim(i) \/ Fail(i) \/ Settle(i) \/ GiveUp(i)

LedgerSpec == LedgerInit /\ [][LedgerNext]_items
=============================================================================
