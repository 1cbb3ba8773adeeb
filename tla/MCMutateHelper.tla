--------------------------- MODULE MCMutateHelper ---------------------------
(***************************************************************************)
(* What a caller gets from the helper, and MutateHelper on small           *)
(* instances: the two tasks of the service with their helper, or one of    *)
(* them beside the retag command, which has a helper of its own.           *)
(***************************************************************************)
EXTENDS MutateHelper

OneHelper  == [c \in Client |-> "service"]
TwoHelpers == [c \in Client |-> IF c = "retag" THEN "cli" ELSE "service"]
-----------------------------------------------------------------------------
Jobs == [id : 0..(IdSpan - 1), op : {"fetch", "set_tags"}, item : Item,
         want : Wants \cup {{}}, stage : {"fetch", "create", "modify", "modified"},
         tags : SUBSET (LaresTag \cup UserTag), left : SUBSET LaresTag,
         counter : -1..Cardinality(LaresTag)]

RequestLines == [id : 0..(IdSpan - 1), req : Requests]
Responses == [id : 0..(IdSpan - 1), reply : {"ok", "not_found", "failed"},
              tags : SUBSET LaresTag]

CallStates ==
    {Idle}
      \cup [pc : {"queued", "sent"}, id : 0..(IdSpan - 1), req : Requests]
      \cup [pc : {"replied"}, reply : {"ok", "not_found", "failed", "broken"},
            tags : SUBSET LaresTag]

(* Every variable has its type.                                            *)
TypeOK ==
    /\ there \subseteq Item
    /\ tags \in [Item -> SUBSET (LaresTag \cup UserTag)]
    /\ alive \subseteq Helper
    /\ lock \in [Helper -> Seq(Client)]
    /\ nextId \in [Helper -> 0..(IdSpan - 1)]
    /\ stdin \in [Helper -> Seq(RequestLines)]
    /\ stdout \in [Helper -> Seq(Responses)]
    /\ jobs \in [Helper -> SUBSET Jobs]
    /\ call \in [Client -> CallStates]
    /\ overran \subseteq Client /\ rest \subseteq Helper
    /\ effect \in [Client -> [done : BOOLEAN, seen : SUBSET LaresTag]]

(* mutate.py:4-6: the callers are serialized "so the stdio framing stays   *)
(* in step".  Between the pipes and the jobs of a helper there is one      *)
(* answer under way for the call that holds the lock, and none for any     *)
(* other, however many jobs set_tags starts and whichever of them fail.    *)
(* This lasts until an answer is too long to read; then nobody reads any   *)
(* more.                                                                   *)
FramingInStep ==
    \A h \in Helper :
      ~Overran(h) =>
        LET underWay == {m.id : m \in {stdin[h][n] : n \in DOMAIN stdin[h]}}
                   \cup {j.id : j \in {k \in jobs[h] : k.counter >= 0}}
                   \cup {m.id : m \in {stdout[h][n] : n \in DOMAIN stdout[h]}}
            awaited  == {call[c].id : c \in {d \in Client : HelperOf[d] = h
                                                             /\ call[d].pc = "sent"}}
        IN /\ Len(stdin[h]) + Cardinality({j \in jobs[h] : j.counter >= 0})
                            + Len(stdout[h]) <= 1
           /\ underWay \subseteq awaited
           /\ h \in alive => underWay = awaited

(* The helper and its client keep the contract of MutateRPC: the chain of  *)
(* jobs behind a call takes effect in one step, or not at all, and the     *)
(* reply says which.                                                       *)
LaresNow == [i \in Item |-> Lares(i)]
CallNow  == [c \in Client |->
                IF call[c].pc \notin {"queued", "sent"} THEN call[c]
                ELSE IF effect[c].done
                THEN [pc |-> "applied", req |-> call[c].req, seen |-> effect[c].seen]
                ELSE [pc |-> "called", req |-> call[c].req]]

RPC == INSTANCE MutateRPC WITH lares <- LaresNow, call <- CallNow
KeepsContract == RPC!RPCSpec

(* Every call returns, through helpers that exit and jobs that fail.       *)
EveryCallReturns == \A c \in Client : call[c].pc # "idle" ~> call[c].pc = "idle"

(* mutate.cpp:12: "non-lares tags on the item are preserved across         *)
(* set_tags calls".  A step that changes the lares-* tags of a mail leaves *)
(* it the others.                                                          *)
UserTagsArePreserved ==
    [][\A i \in Item : i \in there' /\ Lares(i)' # Lares(i)
            => tags'[i] \cap UserTag = tags[i] \cap UserTag]_vars
-----------------------------------------------------------------------------
(* Why the framing stays in step and the contract is kept: the inductive   *)
(* invariant.                                                              *)
Live(h) == {j \in jobs[h] : j.counter >= 0}
Sent(h) == {c \in Client : HelperOf[c] = h /\ call[c].pc = "sent"}

(* A live job works for the call of c; what it is at says whether the call *)
(* took effect, and which lares-* tags are still to be created.            *)
Serves(j, c) ==
    /\ j.id = call[c].id
    /\ [op |-> j.op, item |-> j.item, want |-> j.want] = call[c].req
    /\ j.stage # "fetch" => j.op = "set_tags"
    /\ j.stage = "create" => /\ j.left # {} /\ j.left \cap j.tags = {}
                             /\ j.counter = Cardinality(j.left)
                             /\ (j.tags \cap LaresTag) \cup j.left = j.want
    /\ j.stage = "modify" => j.tags \cap LaresTag = j.want
    /\ effect[c] = [done |-> j.stage = "modified", seen |-> {}]

(* The answer to the call of c says what became of it.                     *)
Tells(m, c) == /\ m.id = call[c].id
               /\ m.reply = "ok" => effect[c] = [done |-> TRUE, seen |-> m.tags]
               /\ m.reply = "not_found" => effect[c] = NoEffect
               /\ m.reply # "ok" => m.tags = {}

(* The call of c is in the request pipe, at the helper, or answered.       *)
Asked(h, c)  == /\ h \in alive
                /\ stdin[h] = <<[id |-> call[c].id, req |-> call[c].req]>>
                /\ Live(h) = {} /\ stdout[h] = <<>>
                /\ effect[c] = NoEffect
Worked(h, c) == /\ h \in alive
                /\ stdin[h] = <<>> /\ stdout[h] = <<>>
                /\ \E j \in jobs[h] : Live(h) = {j} /\ Serves(j, c)
Told(h, c)   == /\ stdin[h] = <<>> /\ Live(h) = {}
                /\ \E m \in Responses : stdout[h] = <<m>> /\ Tells(m, c)
Quiet(h)     == stdin[h] = <<>> /\ Live(h) = {} /\ stdout[h] = <<>>

InStep(h) == \/ Quiet(h) /\ (h \in alive => Sent(h) = {})
             \/ \E c \in Sent(h) : Asked(h, c) \/ Worked(h, c) \/ Told(h, c)

HolderSends == \A c \in Client : call[c].pc = "sent" => MaySend(c)
OnlySentActs == \A c \in Client : call[c].pc # "sent" => effect[c] = NoEffect
SpentStays   == \A h \in Helper : \A j \in jobs[h] : j.counter < 0 => j.stage = "create"

HelperInv == /\ TypeOK /\ HolderSends /\ OnlySentActs /\ SpentStays
             /\ \A h \in Helper : InStep(h)
=============================================================================
