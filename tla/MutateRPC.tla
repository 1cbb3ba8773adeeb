----------------------------- MODULE MutateRPC ------------------------------
(***************************************************************************)
(* What a caller of Mutate.fetch and Mutate.set_tags may rely on: a call   *)
(* takes effect at most once, as one step, between its issue and its       *)
(* reply.  A set_tags replaces the whole lares-* subset of the item's tags *)
(* by what was asked for; "ok" is the reply of a call that took effect,    *)
(* "not_found" of one that did not, and after "failed" it may have.        *)
(* KMailTask uses the helper under this contract.                          *)
(***************************************************************************)
CONSTANTS Client, Item, LaresTag, Wants

VARIABLES there,     \* the items Akonadi has
          lares,     \* the lares-* tags of each item
          call       \* the call of each client

rpcVars == <<there, lares, call>>

Requests == [op : {"fetch"}, item : Item, want : {{}}]
                \cup [op : {"set_tags"}, item : Item, want : Wants]

RPCInit == /\ there \in SUBSET Item
           /\ lares \in [Item -> SUBSET LaresTag]
           /\ call = [c \in Client |-> [pc |-> "idle"]]

Issue(c) ==
    /\ call[c].pc = "idle"
    /\ \E req \in Requests : call' = [call EXCEPT ![c] = [pc |-> "called", req |-> req]]
    /\ UNCHANGED <<there, lares>>

Effect(c) ==
    /\ call[c].pc = "called"
    /\ call[c].req.item \in there
    /\ LET req == call[c].req IN
       IF req.op = "fetch"
       THEN /\ call' = [call EXCEPT ![c] =
                           [pc |-> "applied", req |-> req, seen |-> lares[req.item]]]
            /\ UNCHANGED lares
       ELSE /\ call' = [call EXCEPT ![c] = [pc |-> "applied", req |-> req, seen |-> {}]]
            /\ lares' = [lares EXCEPT ![req.item] = req.want]
    /\ UNCHANGED there

Answered(c, reply, tags) ==
    /\ call' = [call EXCEPT ![c] = [pc |-> "replied", reply |-> reply, tags |-> tags]]
    /\ UNCHANGED <<there, lares>>

Reply(c) == \/ /\ call[c].pc = "applied"
               /\ Answered(c, "ok", call[c].seen)
            \/ /\ call[c].pc = "called"
               /\ Answered(c, "not_found", {})
            \/ /\ call[c].pc \in {"called", "applied"}
               /\ \E r \in {"failed", "broken"} : Answered(c, r, {})

Return(c) ==
    /\ call[c].pc = "replied"
    /\ call' = [call EXCEPT ![c] = [pc |-> "idle"]]
    /\ UNCHANGED <<there, lares>>

(* The user deletes the item.                                              *)
Vanish(i) ==
    /\ i \in there
    /\ there' = there \ {i}
    /\ lares' = [lares EXCEPT ![i] = {}]
    /\ UNCHANGED call

RPCNext == \/ \E c \in Client : Issue(c) \/ Effect(c) \/ Reply(c) \/ Return(c)
           \/ \E i \in Item : Vanish(i)

RPCSpec == RPCInit /\ [][RPCNext]_rpcVars
=============================================================================
