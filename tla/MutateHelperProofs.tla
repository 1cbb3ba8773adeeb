------------------------- MODULE MutateHelperProofs -------------------------
(***************************************************************************)
(* Theorems on the mutate helper and its client.  The inductive invariant  *)
(* is HelperInv of MCMutateHelper: the types first, then who holds the     *)
(* lock and where his call is, action by action.                           *)
(***************************************************************************)
EXTENDS MCMutateHelper, FiniteSetTheorems, TLAPS

USE HelperOfAssumption DEF Idle, NoEffect

(* A line is written to one of several pipes, or read from it.             *)
LEMMA PipePut ==
    ASSUME NEW S, NEW I, NEW f \in [I -> Seq(S)], NEW i \in I, NEW m \in S
    PROVE  [f EXCEPT ![i] = Append(@, m)] \in [I -> Seq(S)]
  OBVIOUS

LEMMA PipeTake ==
    ASSUME NEW S, NEW I, NEW f \in [I -> Seq(S)], NEW i \in I, f[i] # <<>>
    PROVE  /\ Head(f[i]) \in S
           /\ [f EXCEPT ![i] = Tail(@)] \in [I -> Seq(S)]
  OBVIOUS

(* A pipe that holds one line.                                             *)
LEMMA OneLine ==
    ASSUME NEW m
    PROVE  /\ Append(<<>>, m) = <<m>> /\ Head(<<m>>) = m /\ Tail(<<m>>) = <<>>
           /\ <<m>> # <<>> /\ Len(<<m>>) = 1 /\ {<<m>>[n] : n \in DOMAIN <<m>>} = {m}
  OBVIOUS

(* The tags one set_tags asks for are as few as the namespace has.         *)
LEMMA WantIsCounted ==
    ASSUME NEW W \in Wants \cup {{}}
    PROVE  /\ W \subseteq LaresTag /\ IsFiniteSet(W)
           /\ Cardinality(W) \in 0..Cardinality(LaresTag)
           /\ Cardinality(W) = 0 <=> W = {}
<1>1. W \subseteq LaresTag
  BY WantsAssumption
<1>2. /\ IsFiniteSet(W) /\ Cardinality(W) <= Cardinality(LaresTag)
  BY <1>1, FS_Subset, LaresTagAssumption
<1>3. Cardinality(W) \in Nat /\ Cardinality(LaresTag) \in Nat
  BY <1>2, FS_CardinalityType, LaresTagAssumption
<1> QED
  BY <1>1, <1>2, <1>3, FS_EmptySet

(* What leaving the lock, and a reply to the caller, keep of the types.    *)
LEMMA AnswerType ==
    ASSUME TypeOK, HolderSends, NEW c \in Client,
           NEW reply \in {"ok", "not_found", "failed", "broken"}, NEW seen \in SUBSET LaresTag,
           MaySend(c), Answer(c, reply, seen),
           stdout' \in [Helper -> Seq(Responses)],
           overran' \subseteq Client, rest' \subseteq Helper
    PROVE  TypeOK'
<1>1. lock' \in [Helper -> Seq(Client)]
  BY PipeTake DEF Answer, Release, MaySend, TypeOK
<1>2. call' \in [Client -> CallStates]
  BY DEF Answer, TypeOK, CallStates
<1>3. effect' \in [Client -> [done : BOOLEAN, seen : SUBSET LaresTag]]
  BY DEF Answer, TypeOK
<1> QED
  BY <1>1, <1>2, <1>3 DEF Answer, TypeOK, akonadiVars

(* The steps of a caller.                                                  *)
LEMMA CallerType ==
    ASSUME TypeOK, HolderSends, NEW c \in Client, Request(c) \/ Calls(c)
    PROVE  TypeOK'
<1> DEFINE h == HelperOf[c]
<1>0. h \in Helper
  OBVIOUS
<1>1. CASE Request(c)
  <2>1. PICK req \in Requests :
            call' = [call EXCEPT ![c] = [pc |-> "queued", id |-> nextId[h], req |-> req]]
    BY <1>1 DEF Request
  <2>2. call' \in [Client -> CallStates]
    BY <2>1, <1>0 DEF TypeOK, CallStates
  <2>3. nextId' \in [Helper -> 0..(IdSpan - 1)]
    BY <1>1, <1>0, IdSpanAssumption DEF Request, TypeOK
  <2>4. lock' \in [Helper -> Seq(Client)]
    BY <1>1, <1>0, PipePut DEF Request, TypeOK
  <2> QED
    BY <1>1, <2>2, <2>3, <2>4 DEF Request, TypeOK, akonadiVars, pipeVars
<1>2. CASE Send(c)
  <2>1. call[c] \in [pc : {"queued", "sent"}, id : 0..(IdSpan - 1), req : Requests]
    BY <1>2 DEF Send, TypeOK, CallStates
  <2>2. call' \in [Client -> CallStates]
    BY <1>2, <2>1 DEF Send, TypeOK, CallStates
  <2>3. [id |-> call[c].id, req |-> call[c].req] \in RequestLines
    BY <2>1 DEF RequestLines
  <2>4. stdin' \in [Helper -> Seq(RequestLines)]
    <3>1. stdin' = [stdin EXCEPT ![h] = Append(@, [id |-> call[c].id, req |-> call[c].req])]
      BY <1>2 DEF Send
    <3>2. stdin \in [Helper -> Seq(RequestLines)]
      BY DEF TypeOK
    <3> QED
      BY <3>1, <3>2, <1>0, <2>3, PipePut
  <2> QED
    BY <1>2, <2>2, <2>4 DEF Send, TypeOK, akonadiVars
<1>3. CASE Receive(c)
  <2>1. stdout' \in [Helper -> Seq(Responses)] /\ Head(stdout[h]) \in Responses
    BY <1>3, <1>0, PipeTake DEF Receive, TypeOK
  <2>2. MaySend(c)
    BY <1>3 DEF Receive, HolderSends
  <2>3. \/ Answer(c, Head(stdout[h]).reply, Head(stdout[h]).tags)
        \/ Answer(c, "failed", {})
    BY <1>3 DEF Receive
  <2>4. /\ Head(stdout[h]).reply \in {"ok", "not_found", "failed"}
        /\ Head(stdout[h]).tags \in SUBSET LaresTag
    BY <2>1 DEF Responses
  <2>5. overran' \subseteq Client /\ rest' \subseteq Helper
    BY <1>3 DEF Receive, TypeOK
  <2>6. CASE Answer(c, Head(stdout[h]).reply, Head(stdout[h]).tags)
    BY <2>1, <2>2, <2>4, <2>5, <2>6, AnswerType
  <2>7. CASE Answer(c, "failed", {})
    BY <2>1, <2>2, <2>5, <2>7, AnswerType
  <2> QED
    BY <2>3, <2>6, <2>7
<1>4. CASE TooLong(c)
  <2>1. stdout' \in [Helper -> Seq(Responses)]
    BY <1>4, <1>0, PipeTake DEF TooLong, TypeOK
  <2>2. MaySend(c) /\ Answer(c, "broken", {})
    BY <1>4 DEF TooLong, HolderSends
  <2>3. overran' \subseteq Client /\ rest' \subseteq Helper
    BY <1>0, <1>4 DEF TooLong, TypeOK
  <2> QED
    BY <2>1, <2>2, <2>3, AnswerType
<1>5. CASE Disconnected(c)
  <2>1. MaySend(c) /\ \E r \in {"failed", "broken"} : Answer(c, r, {})
    BY <1>5 DEF Disconnected, HolderSends
  <2>2. /\ stdout' \in [Helper -> Seq(Responses)]
        /\ overran' \subseteq Client /\ rest' \subseteq Helper
    BY <1>5 DEF Disconnected, TypeOK
  <2> QED
    BY <2>1, <2>2, AnswerType
<1>6. CASE Cancelled(c)
  <2>1. MaySend(c) /\ Answer(c, "broken", {})
    BY <1>6 DEF Cancelled
  <2>2. overran' \subseteq Client /\ rest' \subseteq Helper
    BY <1>6 DEF Cancelled, TypeOK
  <2>3. stdout' \in [Helper -> Seq(Responses)]
    <3>1. stdout' = [stdout EXCEPT ![h] = <<>>]
      BY <1>6 DEF Cancelled
    <3>2. <<>> \in Seq(Responses)
      OBVIOUS
    <3> QED
      BY <3>1, <3>2 DEF TypeOK
  <2> QED
    BY <2>1, <2>2, <2>3, AnswerType
<1>7. CASE Return(c)
  <2>1. call' \in [Client -> CallStates]
    BY <1>7 DEF Return, TypeOK, CallStates
  <2> QED
    BY <1>7, <2>1 DEF Return, TypeOK, akonadiVars, pipeVars
<1> QED
  BY <1>1, <1>2, <1>3, <1>4, <1>5, <1>6, <1>7 DEF Calls

(* What an answer of the helper, a job that ends and a job that goes on    *)
(* keep of the types.                                                      *)
LEMMA RespondType ==
    ASSUME TypeOK, NEW h \in Helper, NEW id \in 0..(IdSpan - 1),
           NEW reply \in {"ok", "not_found", "failed"}, NEW seen \in SUBSET LaresTag,
           Respond(h, id, reply, seen)
    PROVE  stdout' \in [Helper -> Seq(Responses)]
  BY PipePut, ZenonT(40) DEF Respond, TypeOK, Responses

LEMMA EndsType ==
    ASSUME TypeOK, NEW h \in Helper, NEW j, Ends(h, j)
    PROVE  jobs' \in [Helper -> SUBSET Jobs]
  BY DEF Ends, TypeOK

LEMMA BecomesType ==
    ASSUME TypeOK, NEW h \in Helper, NEW j, NEW new \in Jobs, Becomes(h, j, new)
    PROVE  jobs' \in [Helper -> SUBSET Jobs]
  BY DEF Becomes, TypeOK

LEMMA EffectType ==
    ASSUME TypeOK, NEW h \in Helper, NEW j, NEW seen \in SUBSET LaresTag,
           TakesEffect(h, j, seen)
    PROVE  effect' \in [Client -> [done : BOOLEAN, seen : SUBSET LaresTag]]
  BY DEF TakesEffect, TypeOK

(* The steps of the helper.                                                *)
LEMMA DispatchType ==
    ASSUME TypeOK, NEW h \in Helper, Dispatch(h)
    PROVE  TypeOK'
<1> DEFINE m == Head(stdin[h])
<1>1. /\ m \in RequestLines
      /\ stdin' \in [Helper -> Seq(RequestLines)]
  BY PipeTake DEF Dispatch, TypeOK
<1> HIDE DEF m
<1>2. Job(m) \in Jobs
  <2>1. Cardinality(LaresTag) \in Nat
    BY LaresTagAssumption, FS_CardinalityType
  <2> QED
    BY <1>1, <2>1 DEF Job, Jobs, Requests, RequestLines
<1>3. jobs' \in [Helper -> SUBSET Jobs]
  <2>1. \/ jobs' = [jobs EXCEPT ![h] = @ \cup {Job(m)}]
        \/ jobs' = jobs
    BY DEF Dispatch, m
  <2>2. jobs \in [Helper -> SUBSET Jobs]
    BY DEF TypeOK
  <2>3. PICK new \in Jobs : new = Job(m)
    BY <1>2
  <2>4. CASE jobs' = [jobs EXCEPT ![h] = @ \cup {new}]
    BY <2>2, <2>4
  <2> QED
    BY <2>1, <2>2, <2>3, <2>4
<1>4. stdout' \in [Helper -> Seq(Responses)]
  <2>1. \/ stdout' = stdout
        \/ Respond(h, m.id, "failed", {})
    BY DEF Dispatch, m
  <2>2. m.id \in 0..(IdSpan - 1)
    BY <1>1 DEF RequestLines
  <2>3. CASE stdout' = stdout
    BY <2>3 DEF TypeOK
  <2>4. CASE Respond(h, m.id, "failed", {})
    BY <2>2, <2>4, RespondType
  <2> QED
    BY <2>1, <2>3, <2>4
<1> QED
  BY <1>1, <1>3, <1>4 DEF Dispatch, TypeOK, akonadiVars, clientVars

LEMMA WorksType ==
    ASSUME TypeOK, NEW h \in Helper, NEW j \in jobs[h], Works(h, j)
    PROVE  TypeOK'
<1>0. j \in Jobs
  BY DEF TypeOK
<1>1. /\ j.id \in 0..(IdSpan - 1) /\ j.item \in Item
      /\ j.want \in Wants \cup {{}} /\ j.tags \subseteq LaresTag \cup UserTag
      /\ j.left \subseteq LaresTag /\ j.counter \in -1..Cardinality(LaresTag)
  BY <1>0 DEF Jobs
<1>2. Cardinality(LaresTag) \in Nat
  BY LaresTagAssumption, FS_CardinalityType
<1>3. CASE FetchFailed(h, j)
  BY <1>1, <1>3, RespondType, EndsType DEF FetchFailed, TypeOK, akonadiVars, clientVars
<1>4. CASE Fetched(h, j)
  <2>1. Lares(j.item) \in SUBSET LaresTag
    BY DEF Lares
  <2>2. Respond(h, j.id, "ok", Lares(j.item)) /\ TakesEffect(h, j, Lares(j.item)) /\ Ends(h, j)
    BY <1>4 DEF Fetched
  <2>3. /\ stdout' \in [Helper -> Seq(Responses)]
        /\ jobs' \in [Helper -> SUBSET Jobs]
        /\ effect' \in [Client -> [done : BOOLEAN, seen : SUBSET LaresTag]]
    BY <1>1, <2>1, <2>2, RespondType, EndsType, EffectType
  <2> QED
    BY <1>4, <2>3 DEF Fetched, TypeOK, akonadiVars, clientVars
<1>5. CASE ReadForSetTags(h, j)
  <2>1. Cardinality(j.want) \in -1..Cardinality(LaresTag) /\ j.want \subseteq LaresTag
    BY <1>1, <1>2, WantIsCounted
  <2>2. tags[j.item] \cap UserTag \subseteq LaresTag \cup UserTag
    OBVIOUS
  <2>3. [j EXCEPT !.stage   = IF j.want = {} THEN "modify" ELSE "create",
                  !.tags    = tags[j.item] \cap UserTag,
                  !.left    = j.want,
                  !.counter = Cardinality(j.want)] \in Jobs
    BY <1>0, <2>1, <2>2 DEF Jobs
  <2>4. jobs' \in [Helper -> SUBSET Jobs]
    BY <1>5, <2>3, BecomesType DEF ReadForSetTags
  <2> QED
    BY <1>5, <2>4 DEF ReadForSetTags, TypeOK, akonadiVars, clientVars, pipeVars
<1>6. ASSUME NEW t \in LaresTag, TagIgnored(h, j, t)
      PROVE  TypeOK'
  <2>1. [j EXCEPT !.left = @ \ {t}] \in Jobs
    BY <1>0 DEF Jobs
  <2>2. jobs' \in [Helper -> SUBSET Jobs]
    BY <1>6, <2>1, BecomesType DEF TagIgnored
  <2> QED
    BY <1>6, <2>2 DEF TagIgnored, TypeOK, akonadiVars, clientVars, pipeVars
<1>7. ASSUME NEW t \in LaresTag, TagCreated(h, j, t)
      PROVE  TypeOK'
  <2>1. j.counter - 1 \in -1..Cardinality(LaresTag)
    BY <1>1, <1>2, <1>7 DEF TagCreated
  <2>2. [j EXCEPT !.left    = @ \ {t},
                  !.tags    = @ \cup {t},
                  !.counter = @ - 1,
                  !.stage   = IF j.counter = 1 THEN "modify" ELSE "create"] \in Jobs
    BY <1>0, <2>1 DEF Jobs
  <2>3. jobs' \in [Helper -> SUBSET Jobs]
    BY <1>7, <2>2, BecomesType DEF TagCreated
  <2> QED
    BY <1>7, <2>3 DEF TagCreated, TypeOK, akonadiVars, clientVars, pipeVars
<1>8. ASSUME NEW t \in LaresTag, TagFailed(h, j, t)
      PROVE  TypeOK'
  <2> DEFINE new == [j EXCEPT !.left = @ \ {t}, !.tags = {}, !.counter = -1]
  <2>0. -1 \in -1..Cardinality(LaresTag)
    BY <1>2
  <2>1. new \in Jobs
    BY <1>0, <2>0 DEF Jobs
  <2>2. jobs' \in [Helper -> SUBSET Jobs]
    BY <1>8, <2>1, BecomesType DEF TagFailed
  <2>3. stdout' \in [Helper -> Seq(Responses)]
    BY <1>1, <1>8, RespondType DEF TagFailed
  <2> QED
    BY <1>8, <2>2, <2>3 DEF TagFailed, TypeOK, akonadiVars, clientVars
<1>9. CASE Modify(h, j)
  <2>1. [j EXCEPT !.stage = "modified"] \in Jobs
    BY <1>0 DEF Jobs
  <2>2. /\ jobs' \in [Helper -> SUBSET Jobs]
        /\ effect' \in [Client -> [done : BOOLEAN, seen : SUBSET LaresTag]]
    BY <1>9, <2>1, BecomesType, EffectType DEF Modify
  <2>3. tags' \in [Item -> SUBSET (LaresTag \cup UserTag)]
    BY <1>1, <1>9 DEF Modify, TypeOK
  <2> QED
    BY <1>9, <2>2, <2>3 DEF Modify, TypeOK, clientVars, pipeVars
<1>10. CASE Modified(h, j)
  BY <1>1, <1>10, RespondType, EndsType DEF Modified, TypeOK, akonadiVars, clientVars
<1>11. CASE ModifyFailed(h, j)
  BY <1>1, <1>11, RespondType, EndsType DEF ModifyFailed, TypeOK, akonadiVars, clientVars
<1>12. CASE Spent(h, j)
  BY <1>12, EndsType DEF Spent, TypeOK, akonadiVars, clientVars, pipeVars
<1> QED
  BY <1>3, <1>4, <1>5, <1>6, <1>7, <1>8, <1>9, <1>10, <1>11, <1>12 DEF Works

LEMMA ExitType ==
    ASSUME TypeOK, NEW h \in Helper, Exit(h)
    PROVE  TypeOK'
<1>1. jobs' \in [Helper -> SUBSET Jobs]
  BY DEF Exit, TypeOK
<1>2. stdin' \in [Helper -> Seq(RequestLines)]
  <2>1. <<>> \in Seq(RequestLines)
    OBVIOUS
  <2> QED
    BY <2>1 DEF Exit, TypeOK
<1> QED
  BY <1>1, <1>2 DEF Exit, TypeOK, akonadiVars, clientVars

LEMMA UserType ==
    ASSUME TypeOK, NEW i \in Item, UserTags(i) \/ Delete(i)
    PROVE  TypeOK'
<1>1. tags' \in [Item -> SUBSET (LaresTag \cup UserTag)] /\ there' \subseteq Item
  BY ZenonT(40) DEF UserTags, Delete, TypeOK
<1> QED
  BY <1>1 DEF UserTags, Delete, TypeOK, clientVars, pipeVars
-----------------------------------------------------------------------------
(* Only the holder of the lock has a call at the helper.                   *)
LEMMA OneSent ==
    ASSUME HolderSends, NEW c \in Client, NEW d \in Client,
           HelperOf[c] = HelperOf[d], call[d].pc = "sent", MaySend(c)
    PROVE  c = d
  BY DEF HolderSends, MaySend

(* A step that leaves the pipes, the live job and the calls of a helper    *)
(* alone leaves it in step.                                                *)
LEMMA StaysInStep ==
    ASSUME NEW h \in Helper, InStep(h),
           stdin'[h] = stdin[h], stdout'[h] = stdout[h], Live(h)' = Live(h),
           h \in alive <=> h \in alive',
           \A c \in Client : HelperOf[c] = h =>
                /\ call[c].pc = "sent" <=> call'[c].pc = "sent"
                /\ call[c].pc = "sent" => call'[c] = call[c] /\ effect'[c] = effect[c]
    PROVE  InStep(h)'
<1>1. Sent(h)' = Sent(h)
  BY DEF Sent
<1>2. CASE Quiet(h) /\ (h \in alive => Sent(h) = {})
  BY <1>1, <1>2 DEF InStep, Quiet
<1>3. ASSUME NEW c \in Sent(h), Asked(h, c) \/ Worked(h, c) \/ Told(h, c)
      PROVE  InStep(h)'
  <2>1. c \in Sent(h)' /\ call'[c] = call[c] /\ effect'[c] = effect[c]
    BY <1>1 DEF Sent
  <2>2. Asked(h, c) => Asked(h, c)'
    BY <2>1 DEF Asked
  <2>3. Worked(h, c) => Worked(h, c)'
    <3>1. ASSUME NEW j \in jobs[h], Live(h) = {j}, Serves(j, c)
          PROVE  j \in jobs'[h] /\ Live(h)' = {j} /\ Serves(j, c)'
      <4>1. j \in Live(h)'
        BY <3>1
      <4>2. j \in jobs'[h]
        BY <4>1 DEF Live
      <4>3. Serves(j, c)'
        BY <3>1, <2>1 DEF Serves
      <4> QED
        BY <3>1, <4>2, <4>3
    <3> QED
      BY <3>1 DEF Worked
  <2>4. Told(h, c) => Told(h, c)'
    BY <2>1 DEF Told, Tells
  <2> QED
    BY <1>3, <2>1, <2>2, <2>3, <2>4 DEF InStep
<1> QED
  BY <1>2, <1>3 DEF InStep

(* What a caller does with the lock in hand: the others have no call at    *)
(* the helper, before or after.                                            *)
LEMMA AnswerKeeps ==
    ASSUME HelperInv, NEW c \in Client, MaySend(c),
           NEW reply, NEW seen, Answer(c, reply, seen),
           \A h \in Helper : h # HelperOf[c] => stdout'[h] = stdout[h],
           Quiet(HelperOf[c])', TypeOK'
    PROVE  HelperInv'
<1>1. /\ call' = [call EXCEPT ![c] = [pc |-> "replied", reply |-> reply, tags |-> seen]]
      /\ effect' = [effect EXCEPT ![c] = NoEffect]
      /\ lock' = [lock EXCEPT ![HelperOf[c]] = Tail(@)]
      /\ stdin' = stdin /\ jobs' = jobs /\ alive' = alive
  BY DEF Answer, Release
<1>2. /\ call \in [Client -> CallStates] /\ lock \in [Helper -> Seq(Client)]
      /\ DOMAIN effect = Client
  BY DEF HelperInv, TypeOK
<1>3. call'[c].pc # "sent" /\ \A d \in Client \ {c} : call'[d] = call[d] /\ effect'[d] = effect[d]
  BY <1>1, <1>2
<1>4. \A d \in Client : HelperOf[d] = HelperOf[c] /\ d # c => call[d].pc # "sent"
  BY OneSent DEF HelperInv
<1>5. HolderSends'
  BY <1>1, <1>2, <1>3, <1>4 DEF HelperInv, HolderSends, MaySend
<1>6. OnlySentActs'
  BY <1>1, <1>2, <1>3 DEF HelperInv, OnlySentActs
<1>7. SpentStays'
  BY <1>1 DEF HelperInv, SpentStays
<1>8. ASSUME NEW h \in Helper
      PROVE  InStep(h)'
  <2>1. CASE h = HelperOf[c]
    <3>1. Sent(h)' = {}
      BY <2>1, <1>3, <1>4 DEF Sent
    <3> QED
      BY <2>1, <3>1 DEF InStep
  <2>2. CASE h # HelperOf[c]
    <3>1. Live(h)' = Live(h)
      BY <1>1 DEF Live
    <3> QED
      BY <2>2, <3>1, <1>1, <1>3, StaysInStep DEF HelperInv
  <2> QED
    BY <2>1, <2>2
<1> QED
  BY <1>5, <1>6, <1>7, <1>8 DEF HelperInv

(* A caller asks for the lock, or forgets the reply it got.                *)
LEMMA AsideKeeps ==
    ASSUME HelperInv, NEW c \in Client, Request(c) \/ Return(c)
    PROVE  HelperInv'
<1>1. /\ call[c].pc # "sent" /\ call'[c].pc # "sent"
      /\ \A d \in Client \ {c} : call'[d] = call[d]
      /\ effect' = effect /\ stdin' = stdin /\ stdout' = stdout /\ jobs' = jobs
      /\ alive' = alive
  BY DEF Request, Return, HelperInv, TypeOK, pipeVars
<1>2. TypeOK'
  BY CallerType DEF HelperInv, Calls
<1>3. ASSUME NEW d \in Client, call'[d].pc = "sent"
      PROVE  MaySend(d)'
  <2>1. MaySend(d)
    BY <1>1, <1>3 DEF HelperInv, HolderSends
  <2>2. lock \in [Helper -> Seq(Client)]
    BY DEF HelperInv, TypeOK
  <2>3. CASE lock' = [lock EXCEPT ![HelperOf[c]] = Append(@, c)]
    <3>1. /\ lock[HelperOf[d]] \in Seq(Client) /\ lock[HelperOf[d]] # <<>>
          /\ Head(lock[HelperOf[d]]) = d
      BY <2>1, <2>2 DEF MaySend
    <3>2. lock'[HelperOf[d]] \in {lock[HelperOf[d]], Append(lock[HelperOf[d]], c)}
      BY <2>2, <2>3
    <3>3. \A s \in Seq(Client) : s # <<>> =>
              Append(s, c) # <<>> /\ Head(Append(s, c)) = Head(s)
      OBVIOUS
    <3> QED
      BY <3>1, <3>2, <3>3 DEF MaySend
  <2>4. CASE lock' = lock
    BY <2>1, <2>4 DEF MaySend
  <2> QED
    BY <2>3, <2>4 DEF Request, Return
<1>4. HolderSends' /\ OnlySentActs' /\ SpentStays'
  BY <1>1, <1>3 DEF HelperInv, HolderSends, OnlySentActs, SpentStays
<1>5. ASSUME NEW h \in Helper
      PROVE  InStep(h)'
  <2>1. Live(h)' = Live(h)
    BY <1>1 DEF Live
  <2> QED
    BY <1>1, <2>1, StaysInStep DEF HelperInv
<1> QED
  BY <1>2, <1>4, <1>5 DEF HelperInv

(* The holder of the lock finds the pipes and the helper quiet.            *)
LEMMA SendKeeps ==
    ASSUME HelperInv, NEW c \in Client, Send(c)
    PROVE  HelperInv'
<1> DEFINE h == HelperOf[c]
           line == [id |-> call[c].id, req |-> call[c].req]
<1>0. h \in Helper /\ h \in alive /\ call[c].pc = "queued" /\ MaySend(c)
  BY DEF Send
<1>1. TypeOK'
  BY CallerType DEF HelperInv, Calls
<1>2. /\ call'[c].pc = "sent" /\ call'[c].id = call[c].id /\ call'[c].req = call[c].req
      /\ \A d \in Client \ {c} : call'[d] = call[d]
  <2>1. call \in [Client -> CallStates] /\ call' = [call EXCEPT ![c].pc = "sent"]
    BY DEF Send, HelperInv, TypeOK
  <2>2. call[c] \in [pc : {"queued", "sent"}, id : 0..(IdSpan - 1), req : Requests]
    BY <2>1, <1>0 DEF CallStates
  <2> QED
    BY <2>1, <2>2
<1>3. /\ stdin'[h] = Append(stdin[h], line)
      /\ \A k \in Helper \ {h} : stdin'[k] = stdin[k]
      /\ stdout' = stdout /\ jobs' = jobs /\ alive' = alive /\ lock' = lock /\ effect' = effect
  BY DEF Send, HelperInv, TypeOK
<1>4. Sent(h) = {}
  BY <1>0, OneSent DEF HelperInv, Sent
<1>5. Quiet(h)
  BY <1>0, <1>4 DEF HelperInv, InStep
<1>6. HolderSends'
  BY <1>0, <1>2, <1>3 DEF HelperInv, HolderSends, MaySend
<1>7. OnlySentActs' /\ SpentStays'
  BY <1>2, <1>3 DEF HelperInv, OnlySentActs, SpentStays
<1>8. ASSUME NEW k \in Helper
      PROVE  InStep(k)'
  <2>1. Live(k)' = Live(k)
    BY <1>3 DEF Live
  <2>2. CASE k = h
    <3>1. c \in Sent(h)'
      BY <1>2 DEF Sent
    <3>2. stdin'[h] = <<line>>
      BY <1>3, <1>5, OneLine DEF Quiet
    <3>3. effect'[c] = NoEffect
      BY <1>0, <1>3 DEF HelperInv, OnlySentActs
    <3>4. Asked(h, c)'
      BY <1>0, <1>2, <1>3, <1>5, <2>1, <2>2, <3>2, <3>3 DEF Asked, Quiet
    <3> QED
      BY <2>2, <3>1, <3>4 DEF InStep
  <2>3. CASE k # h
    <3>1. \A d \in Client : HelperOf[d] = k => d # c
      BY <2>3
    <3> QED
      BY <1>2, <1>3, <2>1, <2>3, <3>1, StaysInStep DEF HelperInv
  <2> QED
    BY <2>2, <2>3
<1> QED
  BY <1>1, <1>6, <1>7, <1>8 DEF HelperInv

(* The holder of the lock reads: what it finds is the answer to its call.  *)
LEMMA ReadsItsAnswer ==
    ASSUME HelperInv, NEW c \in Client, call[c].pc = "sent", stdout[HelperOf[c]] # <<>>
    PROVE  Told(HelperOf[c], c)
<1>1. MaySend(c)
  BY DEF HelperInv, HolderSends
<1>2. PICK d \in Sent(HelperOf[c]) : Told(HelperOf[c], d)
  BY DEF HelperInv, InStep, Quiet, Asked, Worked
<1>3. d = c
  BY <1>1, <1>2, OneSent DEF HelperInv, Sent
<1> QED
  BY <1>2, <1>3

LEMMA ReceiveKeeps ==
    ASSUME HelperInv, NEW c \in Client, Receive(c) \/ TooLong(c)
    PROVE  HelperInv'
<1> DEFINE h == HelperOf[c]
<1>1. call[c].pc = "sent" /\ stdout[h] # <<>> /\ stdout' = [stdout EXCEPT ![h] = Tail(@)]
  BY DEF Receive, TooLong
<1>2. MaySend(c) /\ Told(h, c)
  BY <1>1, ReadsItsAnswer DEF HelperInv, HolderSends
<1>3. TypeOK'
  BY CallerType DEF HelperInv, Calls
<1>4. PICK reply, seen : Answer(c, reply, seen)
  BY DEF Receive, TooLong
<1>5. stdout'[h] = <<>> /\ \A k \in Helper : k # h => stdout'[k] = stdout[k]
  BY <1>1, <1>2, OneLine DEF HelperInv, TypeOK, Told
<1>6. Quiet(h)'
  BY <1>2, <1>4, <1>5 DEF Told, Quiet, Answer, Live
<1> QED
  BY <1>2, <1>3, <1>4, <1>5, <1>6, AnswerKeeps

LEMMA DisconnectedKeeps ==
    ASSUME HelperInv, NEW c \in Client, Disconnected(c)
    PROVE  HelperInv'
<1> DEFINE h == HelperOf[c]
<1>1. MaySend(c)
  BY DEF Disconnected, HelperInv, HolderSends
<1>2. TypeOK'
  BY CallerType DEF HelperInv, Calls
<1>3. PICK reply : Answer(c, reply, {})
  BY DEF Disconnected
<1>4. Quiet(h)
  <2>1. ASSUME NEW d \in Sent(h), Told(h, d)
        PROVE  FALSE
    <3>1. d = c
      BY <1>1, OneSent DEF HelperInv, Sent
    <3> QED
      BY <2>1, <3>1, OneLine DEF Disconnected, Told, Sent
  <2> QED
    BY <2>1 DEF HelperInv, InStep, Asked, Worked, Disconnected
<1>5. stdout' = stdout /\ Quiet(h)'
  BY <1>3, <1>4 DEF Disconnected, Quiet, Answer, Live
<1> QED
  BY <1>1, <1>2, <1>3, <1>5, AnswerKeeps

(* A process that is cancelled waits for the end of its helper: then its   *)
(* pipes hold at most the answer to the call that it gives up.             *)
LEMMA CancelledKeeps ==
    ASSUME HelperInv, NEW c \in Client, Cancelled(c)
    PROVE  HelperInv'
<1> DEFINE h == HelperOf[c]
<1>1. /\ h \notin alive /\ MaySend(c) /\ Answer(c, "broken", {})
      /\ stdout' = [stdout EXCEPT ![h] = <<>>]
  BY DEF Cancelled
<1>2. TypeOK'
  BY CallerType DEF HelperInv, Calls
<1>3. stdin[h] = <<>> /\ Live(h) = {}
  BY <1>1 DEF HelperInv, InStep, Quiet, Asked, Worked, Told
<1>4. stdout'[h] = <<>> /\ \A k \in Helper : k # h => stdout'[k] = stdout[k]
  BY <1>1 DEF HelperInv, TypeOK
<1>5. Quiet(h)'
  BY <1>1, <1>3, <1>4 DEF Quiet, Answer, Live
<1> QED
  BY <1>1, <1>2, <1>4, <1>5, AnswerKeeps
-----------------------------------------------------------------------------
(* What a step of helper h has to bring about: the rest follows, for the   *)
(* step touches no lock and no caller.                                     *)
LEMMA HelperStepKeeps ==
    ASSUME HelperInv, NEW h \in Helper, TypeOK',
           lock' = lock, call' = call, alive' = alive,
           \A k \in Helper : k # h =>
               stdin'[k] = stdin[k] /\ stdout'[k] = stdout[k] /\ jobs'[k] = jobs[k],
           \A c \in Client : HelperOf[c] # h \/ call[c].pc # "sent" => effect'[c] = effect[c],
           \A j \in jobs'[h] : j.counter < 0 => j.stage = "create",
           InStep(h)'
    PROVE  HelperInv'
<1>1. HolderSends' /\ OnlySentActs'
  BY DEF HelperInv, HolderSends, MaySend, OnlySentActs
<1>2. SpentStays'
  BY DEF HelperInv, SpentStays
<1>3. ASSUME NEW k \in Helper, k # h
      PROVE  InStep(k)'
  <2>1. Live(k)' = Live(k)
    BY <1>3 DEF Live
  <2> QED
    BY <1>3, <2>1, StaysInStep DEF HelperInv
<1> QED
  BY <1>1, <1>2, <1>3 DEF HelperInv

(* The call of a caller at the helper.                                     *)
LEMMA SentCall ==
    ASSUME TypeOK, NEW h \in Helper, NEW c \in Sent(h)
    PROVE  call[c].id \in 0..(IdSpan - 1) /\ call[c].req \in Requests
<1>1. call[c] \in CallStates /\ call[c].pc = "sent"
  BY DEF Sent, TypeOK
<1> QED
  BY <1>1 DEF CallStates

(* A helper that reads finds the request of the holder of the lock, and is *)
(* at no other.                                                            *)
LEMMA DispatchKeeps ==
    ASSUME HelperInv, NEW h \in Helper, h \in alive, Dispatch(h)
    PROVE  HelperInv'
<1>0. TypeOK'
  BY DispatchType DEF HelperInv
<1>1. PICK c \in Sent(h) : Asked(h, c)
  BY DEF Dispatch, HelperInv, InStep, Quiet, Worked, Told
<1> DEFINE line == [id |-> call[c].id, req |-> call[c].req]
<1>2. /\ stdin[h] = <<line>> /\ Head(stdin[h]) = line /\ stdout[h] = <<>>
      /\ Live(h) = {} /\ effect[c] = NoEffect
  BY <1>1, OneLine DEF Asked
<1>3. /\ stdin'[h] = <<>> /\ \A k \in Helper : k # h => stdin'[k] = stdin[k]
      /\ lock' = lock /\ call' = call /\ alive' = alive /\ effect' = effect
  BY <1>2, OneLine DEF Dispatch, HelperInv, TypeOK, clientVars
<1>4. c \in Sent(h)'
  BY <1>3 DEF Sent
<1>5. CASE jobs' = [jobs EXCEPT ![h] = @ \cup {Job(Head(stdin[h]))}] /\ stdout' = stdout
  <2> DEFINE new == Job(line)
  <2>1. /\ jobs'[h] = jobs[h] \cup {new}
        /\ \A k \in Helper : k # h => jobs'[k] = jobs[k]
    BY <1>2, <1>5 DEF HelperInv, TypeOK
  <2>2. new.stage = "fetch" /\ new.counter = 0
    BY DEF Job
  <2>3. Live(h)' = {new}
    BY <1>2, <2>1, <2>2 DEF Live
  <2>4. call[c].req \in Requests
    BY SentCall DEF HelperInv
  <2>5. Serves(new, c)'
    BY <1>2, <1>3, <2>4 DEF Serves, Job, Requests
  <2>6. Worked(h, c)'
    BY <1>2, <1>3, <1>5, <2>1, <2>3, <2>5 DEF Worked
  <2>7. InStep(h)'
    BY <1>4, <2>6 DEF InStep
  <2>8. \A j \in jobs'[h] : j.counter < 0 => j.stage = "create"
    BY <2>1, <2>2 DEF HelperInv, SpentStays
  <2> QED
    BY <1>0, <1>3, <1>5, <2>1, <2>7, <2>8, HelperStepKeeps
<1>6. CASE Respond(h, Head(stdin[h]).id, "failed", {}) /\ jobs' = jobs
  <2>0. PICK m : m = [id |-> call[c].id, reply |-> "failed", tags |-> {}]
    OBVIOUS
  <2>1. /\ stdout'[h] = <<m>>
        /\ \A k \in Helper : k # h => stdout'[k] = stdout[k]
    <3>1. stdout' = [stdout EXCEPT ![h] = Append(@, m)]
      <4>1. Head(stdin[h]).id = call[c].id
        BY <1>2
      <4> QED
        BY <1>6, <2>0, <4>1 DEF Respond
    <3> QED
      BY <1>2, <3>1, OneLine DEF HelperInv, TypeOK
  <2>2. m \in Responses
    BY <2>0, SentCall DEF Responses, HelperInv
  <2>3. Tells(m, c)'
    BY <1>3, <2>0 DEF Tells
  <2>4. Told(h, c)'
    BY <1>2, <1>3, <1>6, <2>1, <2>2, <2>3 DEF Told, Live
  <2>5. InStep(h)'
    BY <1>4, <2>4 DEF InStep
  <2> QED
    BY <1>0, <1>3, <1>6, <2>1, <2>5, HelperStepKeeps DEF HelperInv, SpentStays
<1> QED
  BY <1>5, <1>6 DEF Dispatch

(* A live job works for the call of the lock's holder.                     *)
LEMMA LiveJobServes ==
    ASSUME HelperInv, NEW h \in Helper, NEW j \in jobs[h], j.counter >= 0
    PROVE  \E c \in Sent(h) : Worked(h, c) /\ Live(h) = {j} /\ Serves(j, c)
<1>1. j \in Live(h)
  BY DEF Live
<1>2. PICK c \in Sent(h) : Worked(h, c)
  BY <1>1 DEF HelperInv, InStep, Quiet, Asked, Told
<1> QED
  BY <1>1, <1>2 DEF Worked

(* The call that takes effect is that one.                                 *)
LEMMA EffectOfOne ==
    ASSUME HelperInv, NEW h \in Helper, NEW c \in Sent(h), NEW j, j.id = call[c].id,
           NEW seen, TakesEffect(h, j, seen)
    PROVE  /\ effect'[c] = [done |-> TRUE, seen |-> seen]
           /\ \A d \in Client : d # c => effect'[d] = effect[d]
<1>1. MaySend(c)
  BY DEF HelperInv, HolderSends, Sent
<1>2. \A d \in Client : HelperOf[d] = h /\ call[d].pc = "sent" => d = c
  BY <1>1, OneSent DEF HelperInv, Sent
<1> QED
  BY <1>2 DEF TakesEffect, Sent

(* A job of the holder's call answers and ends.                            *)
LEMMA LastAnswer ==
    ASSUME HelperInv, NEW h \in Helper, NEW j \in jobs[h], NEW c \in Sent(h),
           Worked(h, c), Live(h) = {j}, Serves(j, c),
           NEW reply \in {"ok", "not_found", "failed"}, NEW seen \in SUBSET LaresTag,
           Respond(h, j.id, reply, seen), TypeOK',
           reply = "ok" => effect'[c] = [done |-> TRUE, seen |-> seen],
           reply = "not_found" => effect'[c] = NoEffect,
           reply # "ok" => seen = {},
           \A d \in Client : d # c => effect'[d] = effect[d],
           jobs'[h] \cap Live(h) = {},
           \A k \in jobs'[h] : k \in jobs[h] \/ (~(k.counter >= 0) /\ k.stage = "create"),
           \A k \in Helper : k # h => jobs'[k] = jobs[k],
           UNCHANGED <<alive, clientVars, stdin>>
    PROVE  HelperInv'
<1>0. PICK m : m = [id |-> call[c].id, reply |-> reply, tags |-> seen]
  OBVIOUS
<1>1. /\ lock' = lock /\ call' = call /\ alive' = alive /\ stdin' = stdin
  BY DEF clientVars
<1>2. stdin[h] = <<>> /\ stdout[h] = <<>> /\ j.id = call[c].id
  BY DEF Worked, Serves
<1>3. /\ stdout'[h] = <<m>>
      /\ \A k \in Helper : k # h => stdout'[k] = stdout[k]
  BY <1>0, <1>2, OneLine DEF Respond, HelperInv, TypeOK
<1>4. m \in Responses
  BY <1>0, SentCall DEF Responses, HelperInv
<1>5. Tells(m, c)'
  BY <1>0, <1>1 DEF Tells
<1>6. Live(h)' = {}
  BY DEF Live
<1>7. Told(h, c)'
  BY <1>1, <1>2, <1>3, <1>4, <1>5, <1>6 DEF Told
<1>8. c \in Sent(h)'
  BY <1>1 DEF Sent
<1>9. InStep(h)'
  BY <1>7, <1>8 DEF InStep
<1>10. \A k \in jobs'[h] : k.counter < 0 => k.stage = "create"
  BY DEF HelperInv, SpentStays
<1>11. \A d \in Client : HelperOf[d] # h \/ call[d].pc # "sent" => effect'[d] = effect[d]
  BY DEF Sent
<1> QED
  BY <1>1, <1>3, <1>9, <1>10, <1>11, HelperStepKeeps

(* A job of the holder's call goes on.                                     *)
LEMMA GoesOn ==
    ASSUME HelperInv, NEW h \in Helper, NEW j \in jobs[h], NEW c \in Sent(h),
           Worked(h, c), Live(h) = {j}, NEW new, Becomes(h, j, new), TypeOK',
           new.counter >= 0, Serves(new, c)',
           \A d \in Client : d # c => effect'[d] = effect[d],
           UNCHANGED <<alive, clientVars, pipeVars>>
    PROVE  HelperInv'
<1>1. /\ lock' = lock /\ call' = call /\ alive' = alive /\ stdin' = stdin /\ stdout' = stdout
  BY DEF clientVars, pipeVars
<1>2. /\ jobs'[h] = (jobs[h] \ {j}) \cup {new}
      /\ \A k \in Helper : k # h => jobs'[k] = jobs[k]
  BY DEF Becomes, HelperInv, TypeOK
<1>3. Live(h)' = {new}
  BY <1>2 DEF Live
<1>4. Worked(h, c)'
  BY <1>1, <1>2, <1>3 DEF Worked
<1>5. c \in Sent(h)'
  BY <1>1 DEF Sent
<1>6. InStep(h)'
  BY <1>4, <1>5 DEF InStep
<1>7. \A k \in jobs'[h] : k.counter < 0 => k.stage = "create"
  <2>1. new \in Jobs
    BY <1>2 DEF TypeOK
  <2>2. ~(new.counter < 0)
    BY <2>1 DEF Jobs
  <2> QED
    BY <1>2, <2>2 DEF HelperInv, SpentStays
<1>8. \A d \in Client : HelperOf[d] # h \/ call[d].pc # "sent" => effect'[d] = effect[d]
  BY DEF Sent
<1> QED
  BY <1>1, <1>2, <1>6, <1>7, <1>8, HelperStepKeeps

(* What the jobs of an abandoned set_tags still do is not heard.           *)
LEMMA SpentJobKeeps ==
    ASSUME HelperInv, NEW h \in Helper, NEW j \in jobs[h], j.counter < 0, Works(h, j)
    PROVE  HelperInv'
<1>0. TypeOK' /\ j.stage = "create" /\ ~(j.counter >= 0)
  <2>1. j \in Jobs
    BY DEF HelperInv, TypeOK
  <2>2. ~(j.counter >= 0)
    BY <2>1 DEF Jobs
  <2> QED
    BY <2>2, WorksType DEF HelperInv, SpentStays
<1>1. \/ Spent(h, j)
      \/ \E t \in LaresTag : TagIgnored(h, j, t)
  BY <1>0 DEF Works, FetchFailed, Fetched, ReadForSetTags, TagCreated, TagFailed,
              Modify, Modified, ModifyFailed
<1>2. /\ lock' = lock /\ call' = call /\ alive' = alive /\ stdin' = stdin /\ stdout' = stdout
      /\ effect' = effect
  BY <1>1 DEF Spent, TagIgnored, clientVars, pipeVars
<1>3. \/ Ends(h, j)
      \/ \E t \in LaresTag : Becomes(h, j, [j EXCEPT !.left = @ \ {t}])
  BY <1>1 DEF Spent, TagIgnored
<1>4. \A k \in Helper : k # h => jobs'[k] = jobs[k]
  BY <1>3 DEF Ends, Becomes, HelperInv, TypeOK
<1>5. \E fate : /\ jobs'[h] \in {jobs[h] \ {j}, (jobs[h] \ {j}) \cup {fate}}
                /\ ~(fate.counter >= 0) /\ fate.stage = "create"
  <2>1. CASE Ends(h, j)
    <3>1. jobs'[h] = jobs[h] \ {j}
      BY <2>1 DEF Ends, HelperInv, TypeOK
    <3> QED
      BY <1>0, <3>1
  <2>2. ASSUME NEW t \in LaresTag, Becomes(h, j, [j EXCEPT !.left = @ \ {t}])
        PROVE  \E fate : /\ jobs'[h] \in {jobs[h] \ {j}, (jobs[h] \ {j}) \cup {fate}}
                         /\ ~(fate.counter >= 0) /\ fate.stage = "create"
    <3>1. PICK fate : fate = [j EXCEPT !.left = @ \ {t}]
      OBVIOUS
    <3>2. fate.counter = j.counter /\ fate.stage = j.stage
      BY <3>1 DEF HelperInv, TypeOK, Jobs
    <3>3. jobs'[h] = (jobs[h] \ {j}) \cup {fate}
      BY <2>2, <3>1 DEF Becomes, HelperInv, TypeOK
    <3> QED
      BY <1>0, <3>2, <3>3
  <2> QED
    BY <1>3, <2>1, <2>2
<1>6. Live(h)' = Live(h)
  BY <1>0, <1>5 DEF Live
<1>7. InStep(h)'
  BY <1>2, <1>6, StaysInStep DEF HelperInv
<1>8. \A k \in jobs'[h] : k.counter < 0 => k.stage = "create"
  BY <1>0, <1>5 DEF HelperInv, SpentStays
<1> QED
  BY <1>0, <1>2, <1>4, <1>7, <1>8, HelperStepKeeps

(* The steps of the job that works for the holder's call.                  *)
LEMMA LiveJobKeeps ==
    ASSUME HelperInv, NEW h \in Helper, NEW j \in jobs[h], j.counter >= 0, Works(h, j)
    PROVE  HelperInv'
<1>0. PICK c \in Sent(h) : Worked(h, c) /\ Live(h) = {j} /\ Serves(j, c)
  BY LiveJobServes
<1>1. /\ TypeOK' /\ j \in Jobs
      /\ j.left \subseteq LaresTag /\ j.want \in Wants \cup {{}} /\ j.counter \in Int
  <2>1. j \in Jobs
    BY DEF HelperInv, TypeOK
  <2> QED
    BY <2>1, WorksType DEF HelperInv, Jobs
<1>2. /\ j.id = call[c].id
      /\ effect[c] = [done |-> j.stage = "modified", seen |-> {}]
  BY <1>0 DEF Serves
<1>3. ASSUME Ends(h, j)
      PROVE  /\ jobs'[h] \cap Live(h) = {} 
             /\ \A k \in jobs'[h] : k \in jobs[h] \/ (~(k.counter >= 0) /\ k.stage = "create")
             /\ \A k \in Helper : k # h => jobs'[k] = jobs[k]
  <2>1. jobs'[h] = jobs[h] \ {j} /\ \A k \in Helper : k # h => jobs'[k] = jobs[k]
    BY <1>3 DEF Ends, HelperInv, TypeOK
  <2>2. j \notin jobs'[h] /\ \A k \in jobs'[h] : k \in jobs[h]
    BY <2>1
  <2> QED
    BY <1>0, <2>1, <2>2
<1>4. ASSUME Ends(h, j), UNCHANGED effect, UNCHANGED <<alive, clientVars, stdin>>,
             NEW reply \in {"ok", "not_found", "failed"}, Respond(h, j.id, reply, {}),
             reply = "ok" => j.stage = "modified",
             reply = "not_found" => j.stage = "fetch"
      PROVE  HelperInv'
  <2>1. reply = "ok" => effect'[c] = [done |-> TRUE, seen |-> {}]
    BY <1>2, <1>4
  <2>2. reply = "not_found" => effect'[c] = NoEffect
    BY <1>2, <1>4
  <2>3. \A d \in Client : d # c => effect'[d] = effect[d]
    BY <1>4
  <2>4. /\ jobs'[h] \cap Live(h) = {}
        /\ \A k \in jobs'[h] : k \in jobs[h] \/ (~(k.counter >= 0) /\ k.stage = "create")
        /\ \A k \in Helper : k # h => jobs'[k] = jobs[k]
    BY <1>3, <1>4
  <2>5. Respond(h, j.id, reply, {}) /\ UNCHANGED <<alive, clientVars, stdin>> /\ TypeOK'
    BY <1>1, <1>4
  <2>6. {} \in SUBSET LaresTag /\ (reply # "ok" => {} = {})
    OBVIOUS
  <2> QED
    BY <1>0, <2>1, <2>2, <2>3, <2>4, <2>5, <2>6, LastAnswer, ZenonT(40)
<1>5. CASE FetchFailed(h, j)
  BY <1>4, <1>5 DEF FetchFailed
<1>6. CASE Fetched(h, j)
  <2> DEFINE seen == Lares(j.item)
  <2>1. /\ Respond(h, j.id, "ok", seen) /\ TakesEffect(h, j, seen) /\ Ends(h, j)
        /\ UNCHANGED <<alive, clientVars, stdin>>
    BY <1>6 DEF Fetched
  <2>2. /\ effect'[c] = [done |-> TRUE, seen |-> seen]
        /\ \A d \in Client : d # c => effect'[d] = effect[d]
    BY <1>0, <1>2, <2>1, EffectOfOne
  <2>3. seen \in SUBSET LaresTag
    BY DEF Lares
  <2> HIDE DEF seen
  <2> QED
    BY <1>0, <1>1, <1>3, <2>1, <2>2, <2>3, LastAnswer
<1>7. CASE ReadForSetTags(h, j)
  <2>1. PICK new : new = [j EXCEPT !.stage   = IF j.want = {} THEN "modify" ELSE "create",
                                   !.tags    = tags[j.item] \cap UserTag,
                                   !.left    = j.want,
                                   !.counter = Cardinality(j.want)]
    OBVIOUS
  <2>2. /\ new.id = j.id /\ new.op = j.op /\ new.item = j.item /\ new.want = j.want
        /\ new.stage = IF j.want = {} THEN "modify" ELSE "create"
        /\ new.tags = tags[j.item] \cap UserTag
        /\ new.left = j.want /\ new.counter = Cardinality(j.want)
    BY <1>1, <2>1 DEF Jobs
  <2>3. j.want \subseteq LaresTag /\ Cardinality(j.want) \in Nat
    BY <1>1, WantIsCounted, LaresTagAssumption, FS_CardinalityType
  <2>4. effect'[c] = effect[c] /\ call'[c] = call[c] /\ j.stage = "fetch" /\ j.op = "set_tags"
    BY <1>7 DEF ReadForSetTags, clientVars
  <2>5. Serves(new, c)'
    <3>1. /\ new.id = call'[c].id
          /\ [op |-> new.op, item |-> new.item, want |-> new.want] = call'[c].req
      BY <1>0, <2>2, <2>4 DEF Serves
    <3>2. new.tags \cap LaresTag = {} /\ new.left \cap new.tags = {}
      BY <2>2, <2>3, LaresTagAssumption
    <3>3. effect'[c] = [done |-> new.stage = "modified", seen |-> {}]
      BY <1>2, <2>2, <2>4
    <3> QED
      BY <2>2, <2>4, <3>1, <3>2, <3>3 DEF Serves
  <2>6. new.counter >= 0 /\ Becomes(h, j, new) /\ UNCHANGED <<alive, clientVars, pipeVars>>
    BY <1>7, <2>1, <2>2, <2>3 DEF ReadForSetTags
  <2>7. \A d \in Client : d # c => effect'[d] = effect[d]
    BY <1>7 DEF ReadForSetTags
  <2> QED
    BY <1>0, <1>1, <2>5, <2>6, <2>7, GoesOn
<1>8. ASSUME NEW t \in LaresTag, TagCreated(h, j, t)
      PROVE  HelperInv'
  <2>1. PICK new : new = [j EXCEPT !.left    = @ \ {t},
                                   !.tags    = @ \cup {t},
                                   !.counter = @ - 1,
                                   !.stage   = IF j.counter = 1 THEN "modify" ELSE "create"]
    OBVIOUS
  <2>2. /\ new.id = j.id /\ new.op = j.op /\ new.item = j.item /\ new.want = j.want
        /\ new.stage = IF j.counter = 1 THEN "modify" ELSE "create"
        /\ new.tags = j.tags \cup {t}
        /\ new.left = j.left \ {t} /\ new.counter = j.counter - 1
    BY <1>1, <2>1 DEF Jobs
  <2>3. /\ effect'[c] = effect[c] /\ call'[c] = call[c] /\ j.stage = "create" /\ t \in j.left
        /\ j.op = "set_tags"
    BY <1>0, <1>8 DEF TagCreated, clientVars, Serves
  <2>4. /\ j.left \cap j.tags = {} /\ (j.tags \cap LaresTag) \cup j.left = j.want
        /\ j.counter = Cardinality(j.left) /\ IsFiniteSet(j.left)
    BY <1>0, <1>1, <2>3, FS_Subset, LaresTagAssumption DEF Serves
  <2>5. Cardinality(new.left) = j.counter - 1 /\ IsFiniteSet(new.left)
    BY <2>2, <2>3, <2>4, FS_RemoveElement
  <2>6. Cardinality(new.left) \in Nat /\ (Cardinality(new.left) = 0 <=> new.left = {})
    BY <2>5, FS_CardinalityType, FS_EmptySet
  <2>7. (new.tags \cap LaresTag) \cup new.left = j.want /\ new.left \cap new.tags = {}
    BY <2>2, <2>3, <2>4
  <2>8. j.counter = 1 <=> new.left = {}
    BY <1>1, <2>5, <2>6
  <2>9. Serves(new, c)'
    <3>1. /\ new.id = call'[c].id
          /\ [op |-> new.op, item |-> new.item, want |-> new.want] = call'[c].req
      BY <1>0, <2>2, <2>3 DEF Serves
    <3>2. new.stage = "create" => new.left # {} /\ new.counter = Cardinality(new.left)
      BY <2>2, <2>5, <2>8
    <3>3. new.stage = "modify" => new.tags \cap LaresTag = new.want
      BY <2>2, <2>7, <2>8
    <3>4. effect'[c] = [done |-> new.stage = "modified", seen |-> {}]
      BY <1>2, <2>2, <2>3
    <3> QED
      BY <2>2, <2>3, <2>7, <3>1, <3>2, <3>3, <3>4 DEF Serves
  <2>10. new.counter >= 0
    BY <2>2, <2>5, <2>6
  <2>11. Becomes(h, j, new) /\ UNCHANGED <<alive, clientVars, pipeVars>>
    BY <1>8, <2>1 DEF TagCreated
  <2>12. \A d \in Client : d # c => effect'[d] = effect[d]
    BY <1>8 DEF TagCreated
  <2> QED
    BY <1>0, <1>1, <2>9, <2>10, <2>11, <2>12, GoesOn
<1>9. ASSUME NEW t \in LaresTag, TagFailed(h, j, t)
      PROVE  HelperInv'
  <2>1. PICK new : new = [j EXCEPT !.left = @ \ {t}, !.tags = {}, !.counter = -1]
    OBVIOUS
  <2>2. new.counter = -1 /\ new.stage = "create"
    BY <1>1, <1>9, <2>1 DEF Jobs, TagFailed
  <2>3. Becomes(h, j, new)
    BY <1>9, <2>1 DEF TagFailed
  <2>4. /\ jobs'[h] = (jobs[h] \ {j}) \cup {new}
        /\ \A k \in Helper : k # h => jobs'[k] = jobs[k]
    BY <2>3 DEF Becomes, HelperInv, TypeOK
  <2>5. ~(new.counter >= 0)
    BY <2>2
  <2>51. new # j
    BY <2>5
  <2>6. /\ jobs'[h] \cap Live(h) = {}
        /\ \A k \in jobs'[h] : k \in jobs[h] \/ (~(k.counter >= 0) /\ k.stage = "create")
    <3>1. j \notin jobs'[h] /\ \A k \in jobs'[h] : k \in jobs[h] \/ k = new
      BY <2>4, <2>51
    <3> QED
      BY <1>0, <2>2, <2>5, <3>1
  <2>7. /\ Respond(h, j.id, "failed", {}) /\ UNCHANGED <<alive, clientVars, stdin>>
        /\ \A d \in Client : d # c => effect'[d] = effect[d]
    BY <1>9 DEF TagFailed
  <2> QED
    BY <1>0, <1>1, <2>4, <2>6, <2>7, LastAnswer
<1>10. CASE Modify(h, j)
  <2>1. PICK new : new = [j EXCEPT !.stage = "modified"]
    OBVIOUS
  <2>2. /\ new.id = j.id /\ new.op = j.op /\ new.item = j.item /\ new.want = j.want
        /\ new.stage = "modified" /\ new.counter = j.counter
    BY <1>1, <2>1 DEF Jobs
  <2>3. TakesEffect(h, j, {}) /\ call' = call /\ j.op = "set_tags"
    BY <1>0, <1>10 DEF Modify, clientVars, Serves
  <2>4. /\ effect'[c] = [done |-> TRUE, seen |-> {}]
        /\ \A d \in Client : d # c => effect'[d] = effect[d]
    BY <1>0, <1>2, <2>3, EffectOfOne
  <2>5. Serves(new, c)'
    <3>1. /\ new.id = call'[c].id
          /\ [op |-> new.op, item |-> new.item, want |-> new.want] = call'[c].req
      BY <1>0, <2>2, <2>3 DEF Serves
    <3>2. effect'[c] = [done |-> new.stage = "modified", seen |-> {}]
      BY <2>2, <2>4
    <3> QED
      BY <2>2, <2>3, <3>1, <3>2 DEF Serves
  <2>6. Becomes(h, j, new) /\ UNCHANGED <<alive, clientVars, pipeVars>> /\ new.counter >= 0
    BY <1>10, <2>1, <2>2 DEF Modify
  <2> QED
    BY <1>0, <1>1, <2>4, <2>5, <2>6, GoesOn
<1>11. CASE Modified(h, j)
  BY <1>4, <1>11 DEF Modified
<1>12. CASE ModifyFailed(h, j)
  BY <1>4, <1>12 DEF ModifyFailed
<1>13. ~Spent(h, j)
  BY <1>0 DEF Spent, Serves
<1>14. ~\E t \in LaresTag : TagIgnored(h, j, t)
  <2>1. ~(j.counter < 0)
    BY <1>1
  <2> QED
    BY <2>1 DEF TagIgnored
<1> QED
  BY <1>5, <1>6, <1>7, <1>8, <1>9, <1>10, <1>11, <1>12, <1>13, <1>14 DEF Works

(* A helper that exits takes the call it was at with it, or leaves the     *)
(* answer in the pipe.                                                     *)
LEMMA ExitKeeps ==
    ASSUME HelperInv, NEW h \in Helper, Exit(h)
    PROVE  HelperInv'
<1>0. TypeOK'
  BY ExitType DEF HelperInv
<1>1. /\ lock' = lock /\ call' = call /\ effect' = effect /\ stdout' = stdout
      /\ alive' = alive \ {h} /\ stdin'[h] = <<>> /\ jobs'[h] = {}
      /\ \A k \in Helper : k # h => stdin'[k] = stdin[k] /\ jobs'[k] = jobs[k]
  BY DEF Exit, clientVars, HelperInv, TypeOK
<1>2. HolderSends' /\ OnlySentActs' /\ SpentStays'
  BY <1>1 DEF HelperInv, HolderSends, MaySend, OnlySentActs, SpentStays
<1>3. ASSUME NEW k \in Helper
      PROVE  InStep(k)'
  <2>1. CASE k # h
    <3>1. Live(k)' = Live(k)
      BY <1>1, <2>1 DEF Live
    <3> QED
      BY <1>1, <2>1, <3>1, StaysInStep DEF HelperInv
  <2>2. CASE k = h
    <3>1. Live(h)' = {} /\ h \notin alive' /\ Sent(h)' = Sent(h)
      BY <1>1 DEF Live, Sent
    <3>2. ASSUME stdout[h] = <<>>
          PROVE  Quiet(h)'
      BY <1>1, <3>1, <3>2 DEF Quiet
    <3>3. ASSUME NEW c \in Sent(h), Told(h, c)
          PROVE  Told(h, c)'
      BY <1>1, <3>1, <3>3 DEF Told, Tells
    <3>4. stdout[h] = <<>> \/ \E c \in Sent(h) : Told(h, c)
      BY DEF HelperInv, InStep, Quiet, Asked, Worked
    <3> QED
      BY <2>2, <3>1, <3>2, <3>3, <3>4 DEF InStep
  <2> QED
    BY <2>1, <2>2
<1> QED
  BY <1>0, <1>2, <1>3 DEF HelperInv

(* The user is at the mailbox, not at the pipes.                           *)
LEMMA UserKeeps ==
    ASSUME HelperInv, TypeOK', UNCHANGED <<alive, clientVars, pipeVars, jobs, effect>>
    PROVE  HelperInv'
<1>1. /\ lock' = lock /\ call' = call /\ effect' = effect /\ stdout' = stdout
      /\ stdin' = stdin /\ alive' = alive /\ jobs' = jobs
  BY DEF clientVars, pipeVars
<1>2. HolderSends' /\ OnlySentActs' /\ SpentStays'
  BY <1>1 DEF HelperInv, HolderSends, MaySend, OnlySentActs, SpentStays
<1>3. ASSUME NEW h \in Helper
      PROVE  InStep(h)'
  <2>1. Live(h)' = Live(h)
    BY <1>1 DEF Live
  <2> QED
    BY <1>1, <2>1, StaysInStep DEF HelperInv
<1> QED
  BY <1>2, <1>3 DEF HelperInv
-----------------------------------------------------------------------------
LEMMA InitIsInStep == Init => HelperInv
<1> SUFFICES ASSUME Init
             PROVE  HelperInv
  OBVIOUS
<1>1. 0 \in 0..(IdSpan - 1)
  BY IdSpanAssumption
<1>2. call \in [Client -> CallStates] /\ effect \in [Client -> [done : BOOLEAN, seen : SUBSET LaresTag]]
  BY DEF Init, CallStates
<1>3. /\ lock \in [Helper -> Seq(Client)] /\ stdin \in [Helper -> Seq(RequestLines)]
      /\ stdout \in [Helper -> Seq(Responses)]
  BY DEF Init
<1>4. TypeOK
  BY <1>1, <1>2, <1>3 DEF Init, TypeOK
<1>5. HolderSends /\ OnlySentActs /\ SpentStays
  BY DEF Init, HolderSends, OnlySentActs, SpentStays
<1>6. \A h \in Helper : Quiet(h) /\ Sent(h) = {}
  BY DEF Init, Quiet, Live, Sent
<1> QED
  BY <1>4, <1>5, <1>6 DEF HelperInv, InStep

LEMMA HelperInvIsKept == HelperInv /\ [Next]_vars => HelperInv'
<1> SUFFICES ASSUME HelperInv, [Next]_vars
             PROVE  HelperInv'
  OBVIOUS
<1>1. ASSUME NEW c \in Client, Request(c) \/ Calls(c)
      PROVE  HelperInv'
  BY <1>1, AsideKeeps, SendKeeps, ReceiveKeeps, DisconnectedKeeps, CancelledKeeps
     DEF Calls
<1>2. ASSUME NEW h \in Helper, Runs(h)
      PROVE  HelperInv'
  <2>1. CASE Dispatch(h)
    BY <1>2, <2>1, DispatchKeeps DEF Runs
  <2>2. ASSUME NEW j \in jobs[h], Works(h, j)
        PROVE  HelperInv'
    <3>1. j.counter < 0 \/ j.counter >= 0
      <4>1. j \in Jobs
        BY DEF HelperInv, TypeOK
      <4> QED
        BY <4>1 DEF Jobs
    <3> QED
      BY <2>2, <3>1, SpentJobKeeps, LiveJobKeeps
  <2> QED
    BY <1>2, <2>1, <2>2 DEF Runs
<1>3. ASSUME NEW h \in Helper, Exit(h)
      PROVE  HelperInv'
  BY <1>3, ExitKeeps
<1>4. ASSUME NEW i \in Item, UserTags(i) \/ Delete(i)
      PROVE  HelperInv'
  <2>1. TypeOK'
    BY <1>4, UserType DEF HelperInv
  <2>2. UNCHANGED <<alive, clientVars, pipeVars, jobs, effect>>
    BY <1>4 DEF UserTags, Delete
  <2> QED
    BY <2>1, <2>2, UserKeeps
<1>5. CASE UNCHANGED vars
  <2>1. UNCHANGED <<alive, clientVars, pipeVars, jobs, effect>> /\ UNCHANGED akonadiVars
    BY <1>5 DEF vars
  <2>2. TypeOK'
    BY <2>1 DEF HelperInv, TypeOK, akonadiVars, clientVars, pipeVars
  <2> QED
    BY <2>1, <2>2, UserKeeps
<1> QED
  BY <1>1, <1>2, <1>3, <1>4, <1>5 DEF Next

(* Mutate and its helper: the call of the lock's holder, and no other, is  *)
(* in the request pipe, at the helper, or answered; and the helper is      *)
(* where the tags of the mail say it is.                                   *)
THEOREM HelperInvariance == Spec => []HelperInv
<1>1. Init => HelperInv
  BY InitIsInStep
<1>2. HelperInv /\ [Next]_vars => HelperInv'
  BY HelperInvIsKept
<1> QED
  BY <1>1, <1>2, PTL DEF Spec

(* Every variable of the helper and its client has its type.               *)
THEOREM HelperTypeCorrect == Spec => []TypeOK
<1>1. HelperInv => TypeOK
  BY DEF HelperInv
<1> QED
  BY <1>1, HelperInvariance, PTL

(* mutate.py:4-6: "the stdio framing stays in step", for any number of     *)
(* callers, helpers, mails and tags, until an answer is too long to read,  *)
(* which is the last one that is read.                                     *)
THEOREM StaysFramed == Spec => []FramingInStep
<1>1. ASSUME HelperInv, NEW h \in Helper
      PROVE  LET underWay == {m.id : m \in {stdin[h][n] : n \in DOMAIN stdin[h]}}
                   \cup {j.id : j \in {k \in jobs[h] : k.counter >= 0}}
                   \cup {m.id : m \in {stdout[h][n] : n \in DOMAIN stdout[h]}}
                 awaited  == {call[c].id : c \in {d \in Client : HelperOf[d] = h
                                                             /\ call[d].pc = "sent"}}
             IN /\ Len(stdin[h]) + Cardinality({j \in jobs[h] : j.counter >= 0})
                            + Len(stdout[h]) <= 1
                /\ underWay \subseteq awaited
                /\ h \in alive => underWay = awaited
  <2> DEFINE lines(s) == {s[n] : n \in DOMAIN s}
  <2>1. Cardinality({}) = 0 /\ \A x : Cardinality({x}) = 1
    BY FS_EmptySet, FS_Singleton
  <2>2. Len(<<>>) = 0 /\ lines(<<>>) = {}
    OBVIOUS
  <2>3. ASSUME NEW c \in Sent(h), NEW d \in Sent(h)
        PROVE  c = d
    BY <1>1, <2>3, OneSent DEF HelperInv, HolderSends, Sent
  <2> DEFINE underWay == {m.id : m \in lines(stdin[h])} \cup {j.id : j \in Live(h)}
                            \cup {m.id : m \in lines(stdout[h])}
             awaited  == {call[c].id : c \in Sent(h)}
             total    == Len(stdin[h]) + Cardinality(Live(h)) + Len(stdout[h])
  <2>4. ASSUME Quiet(h)
        PROVE  total = 0 /\ underWay = {}
    <3>1. stdin[h] = <<>> /\ Live(h) = {} /\ stdout[h] = <<>>
      BY <2>4 DEF Quiet
    <3>2. lines(stdin[h]) = {} /\ lines(stdout[h]) = {}
      BY <2>2, <3>1
    <3>3. underWay = {}
      BY <3>1, <3>2
    <3>4. total = 0
      BY <2>1, <2>2, <3>1
    <3> QED
      BY <3>3, <3>4
  <2>5. ASSUME NEW c \in Sent(h), Asked(h, c) \/ Worked(h, c) \/ Told(h, c)
        PROVE  total = 1 /\ underWay = {call[c].id}
    <3>1. CASE Asked(h, c)
      <4>1. PICK m : stdin[h] = <<m>> /\ m.id = call[c].id
        BY <3>1 DEF Asked
      <4>2. Len(stdin[h]) = 1 /\ lines(stdin[h]) = {m}
        BY <4>1, OneLine
      <4> QED
        BY <2>1, <2>2, <3>1, <4>1, <4>2 DEF Asked
    <3>2. CASE Worked(h, c)
      <4>1. PICK j : Live(h) = {j} /\ j.id = call[c].id
        BY <3>2 DEF Worked, Serves
      <4>2. stdin[h] = <<>> /\ stdout[h] = <<>>
        BY <3>2 DEF Worked
      <4>3. lines(stdin[h]) = {} /\ lines(stdout[h]) = {}
        BY <2>2, <4>2
      <4>4. total = 1
        <5>1. Cardinality(Live(h)) = 1
          BY <2>1, <4>1
        <5> QED
          BY <2>2, <4>2, <5>1
      <4>5. {k.id : k \in Live(h)} = {call[c].id}
        BY <4>1
      <4>6. underWay = {call[c].id}
        BY <4>3, <4>5
      <4> QED
        BY <4>4, <4>6
    <3>3. CASE Told(h, c)
      <4>1. PICK m : stdout[h] = <<m>> /\ m.id = call[c].id
        BY <3>3 DEF Told, Tells
      <4>2. Len(stdout[h]) = 1 /\ lines(stdout[h]) = {m}
        BY <4>1, OneLine
      <4> QED
        BY <2>1, <2>2, <3>3, <4>1, <4>2 DEF Told
    <3> QED
      BY <2>5, <3>1, <3>2, <3>3
  <2>6. ASSUME NEW c \in Sent(h)
        PROVE  {call[d].id : d \in Sent(h)} = {call[c].id}
    BY <2>3, <2>6
  <2>7. ASSUME NEW c \in Sent(h), Asked(h, c) \/ Worked(h, c) \/ Told(h, c)
        PROVE  total = 1 /\ underWay = awaited
    BY <2>5, <2>6, <2>7
  <2>8. Sent(h) = {} => awaited = {}
    OBVIOUS
  <2> HIDE DEF total, underWay, awaited
  <2>9. total <= 1 /\ underWay \subseteq awaited /\ (h \in alive => underWay = awaited)
    <3>1. CASE Quiet(h) /\ (h \in alive => Sent(h) = {})
      BY <2>4, <2>8, <3>1
    <3>2. CASE \E c \in Sent(h) : Asked(h, c) \/ Worked(h, c) \/ Told(h, c)
      BY <2>7, <3>2
    <3> QED
      BY <1>1, <3>1, <3>2 DEF HelperInv, InStep
  <2> QED
    BY <2>9 DEF total, underWay, awaited, Live, Sent
<1>2. HelperInv => FramingInStep
  BY <1>1 DEF FramingInStep
<1> QED
  BY <1>2, HelperInvariance, PTL
-----------------------------------------------------------------------------
(* The contract sees one call change, and the tags of no mail.             *)
LEMMA OneCallChanges ==
    ASSUME NEW c \in Client,
           \A d \in Client : d # c => call'[d] = call[d] /\ effect'[d] = effect[d]
    PROVE  CallNow' = [CallNow EXCEPT ![c] = CallNow'[c]]
  BY DEF CallNow

LEMMA NoCallChanges ==
    ASSUME \A c \in Client : call'[c] = call[c] /\ effect'[c] = effect[c]
    PROVE  CallNow' = CallNow
  BY DEF CallNow

LEMMA NoTagChanges ==
    ASSUME UNCHANGED akonadiVars
    PROVE  there' = there /\ LaresNow' = LaresNow
  BY DEF akonadiVars, LaresNow, Lares

(* What the contract sees of a call that is under way.                     *)
LEMMA CallSeen ==
    ASSUME HelperInv, NEW c \in Client, call[c].pc \in {"queued", "sent"}
    PROVE  /\ effect[c] = NoEffect =>
                  CallNow[c] = [pc |-> "called", req |-> call[c].req]
           /\ \A seen : effect[c] = [done |-> TRUE, seen |-> seen] =>
                  CallNow[c] = [pc |-> "applied", req |-> call[c].req, seen |-> seen]
           /\ CallNow[c].pc \in {"called", "applied"}
  BY DEF CallNow

(* A reply keeps the contract when it is one the contract allows.          *)
LEMMA ReplyIsAllowed ==
    ASSUME HelperInv, NEW c \in Client, call[c].pc \in {"queued", "sent"},
           NEW reply, NEW seen, Answer(c, reply, seen),
           \/ reply = "ok" /\ effect[c] = [done |-> TRUE, seen |-> seen]
           \/ reply = "not_found" /\ effect[c] = NoEffect /\ seen = {}
           \/ reply \in {"failed", "broken"} /\ seen = {}
    PROVE  RPC!Reply(c)
<1>1. /\ call'[c] = [pc |-> "replied", reply |-> reply, tags |-> seen]
      /\ \A d \in Client : d # c => call'[d] = call[d] /\ effect'[d] = effect[d]
      /\ UNCHANGED akonadiVars
  BY DEF Answer, HelperInv, TypeOK
<1>2. CallNow'[c] = [pc |-> "replied", reply |-> reply, tags |-> seen]
  BY <1>1 DEF CallNow
<1>3. RPC!Answered(c, reply, seen)
  BY <1>1, <1>2, OneCallChanges, NoTagChanges DEF RPC!Answered
<1>4. CASE reply = "ok" /\ effect[c] = [done |-> TRUE, seen |-> seen]
  <2>1. CallNow[c] = [pc |-> "applied", req |-> call[c].req, seen |-> seen]
    BY <1>4, CallSeen
  <2> QED
    BY <1>3, <1>4, <2>1 DEF RPC!Reply
<1>5. CASE reply = "not_found" /\ effect[c] = NoEffect /\ seen = {}
  <2>1. CallNow[c] = [pc |-> "called", req |-> call[c].req]
    BY <1>5, CallSeen
  <2> QED
    BY <1>3, <1>5, <2>1 DEF RPC!Reply
<1>6. CASE reply \in {"failed", "broken"} /\ seen = {}
  BY <1>3, <1>6, CallSeen DEF RPC!Reply
<1> QED
  BY <1>4, <1>5, <1>6

(* What a caller does.                                                     *)
LEMMA CallerKeepsContract ==
    ASSUME HelperInv, NEW c \in Client, Request(c) \/ Calls(c)
    PROVE  RPC!Issue(c) \/ RPC!Reply(c) \/ RPC!Return(c) \/ UNCHANGED RPC!rpcVars
<1>1. CASE Request(c)
  <2>1. PICK req \in Requests :
            call' = [call EXCEPT ![c] = [pc |-> "queued", id |-> nextId[HelperOf[c]], req |-> req]]
    BY <1>1 DEF Request
  <2>2. /\ call[c].pc = "idle" /\ effect' = effect /\ UNCHANGED akonadiVars
        /\ call'[c].pc = "queued" /\ call'[c].req = req
        /\ \A d \in Client : d # c => call'[d] = call[d]
    BY <1>1, <2>1 DEF Request, HelperInv, TypeOK
  <2>3. effect'[c] = NoEffect
    BY <2>2 DEF HelperInv, OnlySentActs
  <2>4. CallNow'[c] = [pc |-> "called", req |-> req] /\ CallNow[c].pc = "idle"
    BY <2>2, <2>3 DEF CallNow
  <2>5. CallNow' = [CallNow EXCEPT ![c] = [pc |-> "called", req |-> req]]
    BY <2>2, <2>4, OneCallChanges
  <2>6. RPC!Issue(c)
    BY <2>2, <2>4, <2>5, NoTagChanges DEF RPC!Issue, RPC!Requests, Requests
  <2> QED
    BY <2>6
<1>2. CASE Send(c)
  <2>1. /\ call[c].pc = "queued" /\ effect' = effect /\ UNCHANGED akonadiVars
        /\ call' = [call EXCEPT ![c].pc = "sent"]
    BY <1>2 DEF Send
  <2>2. call[c] \in [pc : {"queued", "sent"}, id : 0..(IdSpan - 1), req : Requests]
    BY <2>1 DEF HelperInv, TypeOK, CallStates
  <2>3. /\ call'[c].pc = "sent" /\ call'[c].req = call[c].req
        /\ \A d \in Client : d # c => call'[d] = call[d]
    BY <2>1, <2>2 DEF HelperInv, TypeOK
  <2>4. CallNow' = CallNow
    BY <2>1, <2>3 DEF CallNow
  <2> QED
    BY <2>1, <2>4, NoTagChanges DEF RPC!rpcVars
<1>3. CASE Receive(c)
  <2>1. call[c].pc = "sent" /\ Told(HelperOf[c], c)
    BY <1>3, ReadsItsAnswer DEF Receive
  <2>2. PICK m \in Responses : stdout[HelperOf[c]] = <<m>> /\ Tells(m, c)
    BY <2>1 DEF Told
  <2>3. Head(stdout[HelperOf[c]]) = m /\ m.id = call[c].id
    BY <2>2, OneLine DEF Tells
  <2>4. Answer(c, m.reply, m.tags)
    BY <1>3, <2>3 DEF Receive
  <2>5. \/ m.reply = "ok" /\ effect[c] = [done |-> TRUE, seen |-> m.tags]
        \/ m.reply = "not_found" /\ effect[c] = NoEffect /\ m.tags = {}
        \/ m.reply \in {"failed", "broken"} /\ m.tags = {}
    <3>1. m.reply \in {"ok", "not_found", "failed"}
      BY <2>2 DEF Responses
    <3> QED
      BY <2>2, <3>1 DEF Tells
  <2> QED
    BY <2>1, <2>4, <2>5, ReplyIsAllowed
<1>4. CASE TooLong(c)
  BY <1>4, ReplyIsAllowed DEF TooLong
<1>5. CASE Disconnected(c)
  <2>1. PICK r \in {"failed", "broken"} : Answer(c, r, {})
    BY <1>5 DEF Disconnected
  <2>2. call[c].pc \in {"queued", "sent"}
    BY <1>5 DEF Disconnected
  <2> QED
    BY <2>1, <2>2, ReplyIsAllowed
<1>6. CASE Cancelled(c)
  BY <1>6, ReplyIsAllowed DEF Cancelled
<1>7. CASE Return(c)
  <2>1. /\ call[c].pc = "replied" /\ effect' = effect /\ UNCHANGED akonadiVars
        /\ call'[c] = Idle /\ \A d \in Client : d # c => call'[d] = call[d]
    BY <1>7 DEF Return, HelperInv, TypeOK
  <2>2. CallNow[c].pc = "replied" /\ CallNow'[c] = [pc |-> "idle"]
    BY <2>1 DEF CallNow
  <2>3. RPC!Return(c)
    BY <2>1, <2>2, OneCallChanges, NoTagChanges DEF RPC!Return
  <2> QED
    BY <2>3
<1> QED
  BY <1>1, <1>2, <1>3, <1>4, <1>5, <1>6, <1>7 DEF Calls

(* Of the jobs behind a call one makes it take effect: the fetch of a      *)
(* fetch, and the modification of a set_tags.                              *)
LEMMA JobKeepsContract ==
    ASSUME HelperInv, NEW h \in Helper, NEW j \in jobs[h], Works(h, j)
    PROVE  (\E c \in Client : RPC!Effect(c)) \/ UNCHANGED RPC!rpcVars
<1>1. CASE Fetched(h, j) \/ Modify(h, j)
  <2> DEFINE seen == IF Fetched(h, j) THEN Lares(j.item) ELSE {}
  <2>1. j \in Jobs /\ j.counter >= 0
    <3>1. j \in Jobs /\ ~(j.counter < 0)
      BY <1>1 DEF Fetched, Modify, HelperInv, SpentStays, TypeOK
    <3> QED
      BY <3>1 DEF Jobs
  <2>2. PICK c \in Sent(h) : Serves(j, c)
    BY <2>1, LiveJobServes
  <2>3. /\ c \in Client /\ call[c].pc = "sent" /\ j.id = call[c].id
        /\ call[c].req.op = j.op /\ call[c].req.item = j.item /\ call[c].req.want = j.want
    BY <2>2 DEF Sent, Serves
  <2>4. effect[c] = NoEffect /\ j.item \in there /\ there' = there /\ call' = call
    BY <1>1, <2>2 DEF Fetched, Modify, Serves, akonadiVars, clientVars
  <2>5. CallNow[c] = [pc |-> "called", req |-> call[c].req]
    BY <2>3, <2>4, CallSeen
  <2>6. PICK req : /\ req = call[c].req /\ CallNow[c].req = req /\ CallNow[c].pc = "called"
                   /\ req.op = j.op /\ req.item = j.item /\ req.want = j.want
    BY <2>3, <2>5
  <2>7. ASSUME NEW found, TakesEffect(h, j, found)
        PROVE  CallNow' = [CallNow EXCEPT ![c] =
                              [pc |-> "applied", req |-> req, seen |-> found]]
    <3>1. /\ effect'[c] = [done |-> TRUE, seen |-> found]
          /\ \A d \in Client : d # c => effect'[d] = effect[d]
      BY <2>2, <2>3, <2>7, EffectOfOne
    <3>2. CallNow'[c] = [pc |-> "applied", req |-> call[c].req, seen |-> found]
      BY <2>3, <2>4, <3>1 DEF CallNow
    <3> QED
      BY <2>3, <2>4, <2>6, <3>1, <3>2, OneCallChanges
  <2>8. CASE Fetched(h, j)
    <3>1. /\ j.op = "fetch" /\ TakesEffect(h, j, Lares(j.item)) /\ UNCHANGED akonadiVars
      BY <2>8 DEF Fetched
    <3>2. LaresNow[j.item] = Lares(j.item)
      BY <2>1 DEF LaresNow, Jobs
    <3>3. CallNow' = [CallNow EXCEPT ![c] =
                         [pc |-> "applied", req |-> req, seen |-> LaresNow[j.item]]]
      BY <2>7, <3>1, <3>2
    <3>4. RPC!Effect(c)
      BY <2>4, <2>6, <3>1, <3>3, NoTagChanges DEF RPC!Effect
    <3> QED
      BY <2>3, <3>4
  <2>9. CASE Modify(h, j)
    <3>1. /\ j.stage = "modify" /\ tags' = [tags EXCEPT ![j.item] = j.tags]
          /\ TakesEffect(h, j, {})
      BY <2>9 DEF Modify
    <3>2. j.op = "set_tags" /\ j.tags \cap LaresTag = j.want
      BY <2>2, <3>1 DEF Serves
    <3>3. LaresNow' = [LaresNow EXCEPT ![j.item] = j.want]
      BY <3>1, <3>2 DEF LaresNow, Lares, HelperInv, TypeOK
    <3>4. CallNow' = [CallNow EXCEPT ![c] =
                         [pc |-> "applied", req |-> req, seen |-> {}]]
      BY <2>7, <3>1
    <3>5. RPC!Effect(c)
      BY <2>4, <2>6, <3>2, <3>3, <3>4 DEF RPC!Effect
    <3> QED
      BY <2>3, <3>5
  <2> QED
    BY <1>1, <2>8, <2>9
<1>2. CASE ~(Fetched(h, j) \/ Modify(h, j))
  <2>1. UNCHANGED akonadiVars /\ call' = call /\ effect' = effect
    BY <1>2 DEF Works, FetchFailed, ReadForSetTags, TagIgnored, TagCreated, TagFailed,
                Modified, ModifyFailed, Spent, clientVars
  <2> QED
    BY <2>1, NoTagChanges, NoCallChanges DEF RPC!rpcVars
<1> QED
  BY <1>1, <1>2

(* The user's own tags are outside the namespace; a mail he deletes has    *)
(* none.                                                                   *)
LEMMA UserKeepsContract ==
    ASSUME HelperInv, NEW i \in Item, UserTags(i) \/ Delete(i)
    PROVE  RPC!Vanish(i) \/ UNCHANGED RPC!rpcVars
<1>1. UNCHANGED <<call, effect>>
  BY DEF UserTags, Delete, clientVars
<1>2. CallNow' = CallNow
  BY <1>1, NoCallChanges
<1>3. tags \in [Item -> SUBSET (LaresTag \cup UserTag)]
  BY DEF HelperInv, TypeOK
<1>4. CASE UserTags(i)
  <2>1. PICK u \in UserTag : \/ tags' = [tags EXCEPT ![i] = @ \cup {u}]
                             \/ tags' = [tags EXCEPT ![i] = @ \ {u}]
    BY <1>4 DEF UserTags
  <2>2. u \notin LaresTag
    BY LaresTagAssumption
  <2>3. \A k \in Item : tags'[k] \cap LaresTag = tags[k] \cap LaresTag
    BY <1>3, <2>1, <2>2
  <2>4. LaresNow' = LaresNow /\ there' = there
    BY <1>4, <2>3 DEF LaresNow, Lares, UserTags
  <2> QED
    BY <1>2, <2>4 DEF RPC!rpcVars
<1>5. CASE Delete(i)
  <2>1. LaresNow' = [LaresNow EXCEPT ![i] = {}]
    BY <1>3, <1>5 DEF LaresNow, Lares, Delete
  <2> QED
    BY <1>2, <1>5, <2>1 DEF RPC!Vanish, Delete
<1> QED
  BY <1>4, <1>5

(* The helper and its client keep the contract of MutateRPC, which the     *)
(* model of the service uses them under: between its issue and its reply a *)
(* call takes effect at most once, as one step, and the reply says whether *)
(* it did.                                                                 *)
THEOREM ContractIsKept == Spec => KeepsContract
<1>1. Init => RPC!RPCInit
  BY DEF Init, RPC!RPCInit, LaresNow, Lares, CallNow
<1>2. HelperInv /\ [Next]_vars => [RPC!RPCNext]_(RPC!rpcVars)
  <2> SUFFICES ASSUME HelperInv, [Next]_vars
               PROVE  RPC!RPCNext \/ UNCHANGED RPC!rpcVars
    OBVIOUS
  <2>1. ASSUME NEW c \in Client, Request(c) \/ Calls(c)
        PROVE  RPC!RPCNext \/ UNCHANGED RPC!rpcVars
    BY <2>1, CallerKeepsContract DEF RPC!RPCNext
  <2>2. ASSUME NEW h \in Helper, Runs(h) \/ Exit(h)
        PROVE  RPC!RPCNext \/ UNCHANGED RPC!rpcVars
    <3>1. CASE \E j \in jobs[h] : Works(h, j)
      BY <3>1, JobKeepsContract DEF RPC!RPCNext
    <3>2. CASE Dispatch(h) \/ Exit(h)
      <4>1. UNCHANGED akonadiVars /\ call' = call /\ effect' = effect
        BY <3>2 DEF Dispatch, Exit, clientVars
      <4> QED
        BY <4>1, NoTagChanges, NoCallChanges DEF RPC!rpcVars
    <3> QED
      BY <2>2, <3>1, <3>2 DEF Runs
  <2>3. ASSUME NEW i \in Item, UserTags(i) \/ Delete(i)
        PROVE  RPC!RPCNext \/ UNCHANGED RPC!rpcVars
    BY <2>3, UserKeepsContract DEF RPC!RPCNext
  <2>4. CASE UNCHANGED vars
    <3>1. UNCHANGED akonadiVars /\ call' = call /\ effect' = effect
      BY <2>4 DEF vars, clientVars
    <3> QED
      BY <3>1, NoTagChanges, NoCallChanges DEF RPC!rpcVars
  <2> QED
    BY <2>1, <2>2, <2>3, <2>4 DEF Next
<1> QED
  BY <1>1, <1>2, HelperInvariance, PTL DEF Spec, KeepsContract, RPC!RPCSpec
=============================================================================
