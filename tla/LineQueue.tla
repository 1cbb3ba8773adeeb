----------------------------- MODULE LineQueue ------------------------------
(***************************************************************************)
(* What a client of the mutate helper may rely on when it writes requests  *)
(* to the helper's stdin: each line arrives, once, whole and in order;     *)
(* when the client is gone a suffix of what was not read may be missing,   *)
(* and the helper quits when it has read the rest, not before.             *)
(***************************************************************************)
EXTENDS Naturals, Sequences

CONSTANT Line

VARIABLES queue,      \* the lines written and not read
          got,        \* the lines the reader got last
          open,       \* the client lives
          reader      \* "reads" or "quit"

queueVars == <<queue, got, open, reader>>

QueueInit == queue = <<>> /\ got = <<>> /\ open = TRUE /\ reader = "reads"

Put == /\ open
       /\ \E line \in Line : queue' = Append(queue, line)
       /\ UNCHANGED <<got, open, reader>>

Get == /\ reader = "reads"
       /\ \E n \in 0..Len(queue) : /\ got' = SubSeq(queue, 1, n)
                                   /\ queue' = SubSeq(queue, n + 1, Len(queue))
       /\ UNCHANGED <<open, reader>>

Close == /\ open
         /\ open' = FALSE
         /\ \E n \in 0..Len(queue) : queue' = SubSeq(queue, 1, n)
         /\ UNCHANGED <<got, reader>>

Quit == /\ ~open /\ queue = <<>>
        /\ reader' = "quit"
        /\ UNCHANGED <<queue, got, open>>

QueueNext == Put \/ Get \/ Close \/ Quit

QueueSpec == QueueInit /\ [][QueueNext]_queueVars
=============================================================================
