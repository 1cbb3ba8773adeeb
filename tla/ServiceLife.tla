---------------------------- MODULE ServiceLife -----------------------------
(***************************************************************************)
(* The life of the service as the model of its tasks takes it: the service *)
(* starts with both helpers, either may exit while it runs, and when it is *)
(* down it has none.                                                       *)
(***************************************************************************)
VARIABLES up, notify, mutate     \* as in KMailService

Off == up = FALSE /\ notify = "exited" /\ mutate = "exited"
On  == up = TRUE /\ notify = "running" /\ mutate = "running"

Start == Off /\ On'

Stop == up /\ Off'

NotifyEnds == /\ up /\ notify = "running"
              /\ notify' = "exited"
              /\ UNCHANGED <<up, mutate>>

MutateEnds == /\ up /\ mutate = "running"
              /\ mutate' = "exited"
              /\ UNCHANGED <<up, notify>>

LifeSpec == /\ On \/ Off
            /\ [][Start \/ Stop \/ NotifyEnds \/ MutateEnds]_<<up, notify, mutate>>
=============================================================================
