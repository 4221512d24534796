-------------------------- MODULE WorkflowRun_proofs --------------------------
(***************************************************************************)
(* Proofs about WorkflowRun, for any agents, callers, workflows, registry  *)
(* and round limit, any messages, and any use of cancel and retry.         *)
(***************************************************************************)
EXTENDS WorkflowRun, SequenceTheorems, TLAPS

Execution == Instance \cup {NoInstance}

(* The registered workflows are well formed. *)
LEMMA RegistryType == TypeOK => registry \in [Workflows -> Definition]
BY RunAssumption DEF TypeOK

(* No execution is the absent one, and NoInstance has an id no execution has. *)
LEMMA InstanceFacts ==
  /\ \A i \in Instance : i # NoInstance /\ i.id \in Nat \ {0}
  /\ NoInstance.id = 0
BY DEF Instance, NoInstance

(* The workflow store is a sequence: its domain holds no 0. *)
LEMMA SavedDomain ==
  ASSUME TypeOK
  PROVE  /\ saved \in Seq(Execution)
         /\ DOMAIN saved = 1 .. Len(saved) /\ Len(saved) \in Nat
         /\ \A e \in DOMAIN saved : e \in Nat \ {0} /\ saved[e] \in Execution
BY LenProperties, ElementOfSeq DEF TypeOK, Execution

(* Saving an execution changes its own record only. *)
LEMMA SaveFacts ==
  ASSUME TypeOK, NEW i, Known(i), SaveInstance(i)
  PROVE  /\ saved' \in Seq(Execution) /\ DOMAIN saved' = DOMAIN saved
         /\ saved'[i.id] = i
         /\ \A e \in DOMAIN saved : e # i.id => saved'[e] = saved[e]
         /\ \A e \in DOMAIN saved' : saved'[e].id \in {0, e}
<1>1. i.id \in 1 .. Len(saved) /\ i \in Execution
  BY SavedDomain DEF Known, Execution
<1>2. /\ saved' \in Seq(Execution) /\ Len(saved') = Len(saved)
      /\ \A j \in 1 .. Len(saved) : saved'[j] = IF j = i.id THEN i ELSE saved[j]
  <2>1. saved \in Seq(Execution)
    BY SavedDomain
  <2>2. /\ [saved EXCEPT ![i.id] = i] \in Seq(Execution)
        /\ Len([saved EXCEPT ![i.id] = i]) = Len(saved)
        /\ \A j \in 1 .. Len(saved) :
             [saved EXCEPT ![i.id] = i][j] = IF j = i.id THEN i ELSE saved[j]
    BY <1>1, <2>1, ExceptSeq
  <2> QED
    BY <2>2 DEF SaveInstance
<1>3. DOMAIN saved' = DOMAIN saved
  BY <1>2, SavedDomain, LenProperties
<1> QED
  BY <1>1, <1>2, <1>3, SavedDomain DEF TypeOK

(* A new execution takes the next id; its record is empty at first. *)
LEMMA StartFacts ==
  ASSUME TypeOK, NEW w \in Workflows
  PROVE  /\ Started(w) \in Instance /\ Started(w).id = Len(saved) + 1
         /\ Started(w).status = "running" /\ Started(w).id \notin DOMAIN saved
<1>1. registry[w].start \in Steps
  BY RegistryType DEF Definition
<1> QED
  BY <1>1, SavedDomain DEF Started, Instance, Statuses

LEMMA AppendFacts ==
  ASSUME TypeOK, NEW i \in Execution, i.id \in {0, Len(saved) + 1},
         saved' = Append(saved, i)
  PROVE  /\ saved' \in Seq(Execution)
         /\ DOMAIN saved' = 1 .. Len(saved) + 1
         /\ \A e \in DOMAIN saved : e \in DOMAIN saved' /\ saved'[e] = saved[e]
         /\ saved'[Len(saved) + 1] = i
         /\ \A e \in DOMAIN saved' : saved'[e].id \in {0, e}
<1>1. /\ saved' \in Seq(Execution) /\ Len(saved') = Len(saved) + 1
      /\ \A j \in 1 .. Len(saved) : saved'[j] = saved[j]
      /\ saved'[Len(saved) + 1] = i
  <2>1. saved \in Seq(Execution)
    BY SavedDomain
  <2> QED
    BY <2>1, AppendProperties
<1>2. DOMAIN saved' = 1 .. Len(saved) + 1
  BY <1>1, LenProperties
<1> QED
  BY <1>1, <1>2, SavedDomain DEF TypeOK

------------------------------------------------------------------------------
(* What a caller's own steps leave alone. *)

Others(c) == \A d \in Callers : d # c => call'[d] = call[d]
SameErrand(c) == /\ call'[c].agent = call[c].agent
                 /\ call'[c].resumed = call[c].resumed
                 /\ call'[c].line = call[c].line

LEMMA KeepFacts ==
  ASSUME TypeOK, NEW c \in Callers, NEW state \in AgentState, Keep(c, state)
  PROVE  /\ call' \in [Callers -> Call] /\ Others(c) /\ SameErrand(c)
         /\ call'[c].pc = "save" /\ call'[c].state = state
         /\ call'[c].instance = call[c].instance /\ call'[c].step = call[c].step
<1>1. call \in [Callers -> Call] /\ call[c] \in Call
  BY DEF TypeOK
<1>2. call' = [call EXCEPT ![c] = [call[c] EXCEPT !.pc = "save", !.state = state]]
  BY <1>1 DEF Keep, Call
<1>3. [call[c] EXCEPT !.pc = "save", !.state = state] \in Call
  BY <1>1 DEF Call
<1>4. Others(c) /\ call' \in [Callers -> Call]
  BY <1>1, <1>2, <1>3 DEF Others
<1>5. call'[c] = [call[c] EXCEPT !.pc = "save", !.state = state]
  BY <1>1, <1>2
<1> QED
  BY <1>1, <1>4, <1>5 DEF Call, SameErrand

(* With the same definitions, a coherent state is still coherent when a call
   carries it. *)
LEMMA CopyCoherent ==
  ASSUME NEW c, NEW s, Coherent(s), call'[c].state = s, registry' = registry
  PROVE  Coherent(call[c].state)'
BY DEF Coherent, Behind, Def

LEMMA RunLoopFacts ==
  ASSUME TypeOK, NEW c \in Callers, NEW i \in Instance, RunLoop(c, i)
  PROVE  /\ call' \in [Callers -> Call] /\ Others(c) /\ SameErrand(c)
         /\ call'[c].pc = "loop" /\ call'[c].instance = i
         /\ call'[c].state = call[c].state /\ call'[c].step = call[c].step
<1>1. call \in [Callers -> Call] /\ call[c] \in Call
  BY DEF TypeOK
<1>2. call' = [call EXCEPT ![c] = [call[c] EXCEPT !.pc = "loop", !.instance = i]]
  BY <1>1 DEF RunLoop, Call
<1>3. [call[c] EXCEPT !.pc = "loop", !.instance = i] \in Call
  BY <1>1 DEF Call
<1>4. Others(c) /\ call' \in [Callers -> Call]
  BY <1>1, <1>2, <1>3 DEF Others
<1>5. call'[c] = [call[c] EXCEPT !.pc = "loop", !.instance = i]
  BY <1>1, <1>2
<1> QED
  BY <1>1, <1>4, <1>5 DEF Call, SameErrand

------------------------------------------------------------------------------
(* A step of an active caller c that leaves the agent store and the other
   calls alone keeps the invariant when it writes only the execution it
   carries, takes hold of no other that was there, and leaves its own call
   well placed. *)

(* What a call or a record of the store holds is in the workflow store. *)
LEMMA HeldIsSaved ==
  ASSUME CallInv, NEW c \in Callers, NEW e, e # 0, Holds(c, e)
  PROVE  e \in DOMAIN saved
<1>1. CASE Carrying(c, e)
  BY <1>1 DEF CallInv, PlaceOK, Carrying, Known
<1>2. CASE call[c].state.frozen.id = e
  <2>1. call[c].state.frozen # NoInstance
    BY <1>2, InstanceFacts
  <2> QED
    BY <1>2, <2>1 DEF CallInv, CopyOK, Known
<1> QED
  BY <1>1, <1>2 DEF Holds

LEMMA StoredIsSaved ==
  ASSUME StoreInv, NEW a \in Agents, store[a].frozen.id # 0
  PROVE  store[a].frozen.id \in DOMAIN saved
BY InstanceFacts DEF StoreInv, Known

Moves(c) ==
  /\ Active(c) /\ Active(c)'
  /\ Others(c) /\ SameErrand(c)
  /\ UNCHANGED <<registry, store, operating>>
  /\ 0 \notin DOMAIN saved'
  /\ \A e \in DOMAIN saved :
       /\ e \in DOMAIN saved' /\ (saved'[e] = saved[e] \/ Carrying(c, e))
       /\ saved[e].status = "failed" => saved'[e].status = "failed"
       /\ Holds(c, e)' => Holds(c, e)
  /\ PlaceOK(c)' /\ CopyOK(c)' /\ FreshOK(c)'

LEMMA MoveKeeps ==
  ASSUME CallInv, StoreInv, OwnInv, OperatorInv, ParkedIsCurrent,
         NEW c \in Callers, Moves(c), UNCHANGED waiting
  PROVE  CallInv' /\ StoreInv' /\ OwnInv' /\ OperatorInv' /\ ParkedIsCurrent'
<1>1. \A d \in Callers \ {c} : call'[d] = call[d]
  BY DEF Moves, Others
<1>2. registry' = registry /\ store' = store
  BY DEF Moves
<1>3. \A i : Known(i) => Known(i)'
  BY DEF Moves, Known
<1>4. \A e \in DOMAIN saved : Holds(c, e) \/ saved'[e] = saved[e]
  BY DEF Moves, Holds
<1>5. \A d \in Callers : \A e : Holds(d, e)' /\ e \in DOMAIN saved => Holds(d, e)
  BY <1>1 DEF Moves, Holds, Carrying, Active
<1>6. \A d \in Callers : \A a : Resumed(d, a)' <=> Resumed(d, a)
  BY <1>1 DEF Moves, SameErrand, Resumed
<1>7. CallInv'
  <2> SUFFICES ASSUME NEW d \in Callers
               PROVE  PlaceOK(d)' /\ CopyOK(d)' /\ FreshOK(d)'
    BY DEF CallInv
  <2>1. CASE d = c
    BY <2>1 DEF Moves
  <2>2. CASE d # c
    <3>1. call'[d] = call[d]
      BY <1>1, <2>2
    <3>2. PlaceOK(d) /\ CopyOK(d) /\ FreshOK(d)
      BY DEF CallInv
    <3>3. PlaceOK(d)'
      BY <3>1, <3>2, <1>2, <1>3 DEF PlaceOK, Active, Behind, Def
    <3>4. CopyOK(d)'
      BY <3>1, <3>2, <1>2, <1>3 DEF CopyOK, Coherent, Behind, Def
    <3>5. \A e \in DOMAIN saved : Holds(d, e) => saved'[e] = saved[e]
      BY <1>4, <2>2 DEF OwnInv
    <3>6. FreshOK(d)'
      <4>1. CASE call[d].pc \in {"loop", "doing"}
        <5>1. /\ call[d].instance.id \in DOMAIN saved
              /\ Holds(d, call[d].instance.id)
          BY <3>2, <4>1 DEF PlaceOK, Known, Holds, Carrying
        <5> QED
          BY <3>1, <3>2, <3>5, <4>1, <5>1 DEF FreshOK, Current
      <4>2. CASE /\ call[d].pc \in {"route", "save"}
                 /\ call[d].state.frozen # NoInstance
        <5>1. /\ call[d].state.frozen.id \in DOMAIN saved
              /\ Holds(d, call[d].state.frozen.id)
          BY <3>2, <4>2 DEF CopyOK, Known, Holds, Active
        <5> QED
          BY <3>1, <3>2, <3>5, <4>2, <5>1 DEF FreshOK, Current
      <4> QED
        BY <3>1, <4>1, <4>2 DEF FreshOK
    <3> QED
      BY <3>3, <3>4, <3>6
  <2> QED
    BY <2>1, <2>2
<1>8. StoreInv'
  BY <1>2, <1>3 DEF StoreInv, Coherent, Behind, Def
<1>9. OwnInv'
  <2>1. ASSUME NEW a \in Agents, NEW b \in Agents,
               store'[a].frozen # NoInstance, store'[a].frozen.id = store'[b].frozen.id
        PROVE  a = b
    BY <1>2, <2>1 DEF OwnInv
  <2>2. ASSUME NEW d \in Callers, NEW f \in Callers, NEW e \in DOMAIN saved',
               Holds(d, e)', Holds(f, e)'
        PROVE  d = f
    <3>1. CASE e \in DOMAIN saved
      BY <1>5, <2>2, <3>1 DEF OwnInv
    <3>2. CASE e \notin DOMAIN saved
      <4>1. \A g \in Callers : Holds(g, e)' => g = c
        <5> SUFFICES ASSUME NEW g \in Callers, Holds(g, e)', g # c PROVE FALSE
          OBVIOUS
        <5>1. Holds(g, e)
          BY <1>1 DEF Holds, Carrying, Active
        <5>2. e # 0
          BY DEF Moves
        <5> QED
          BY <3>2, <5>1, <5>2, HeldIsSaved
      <4> QED
        BY <2>2, <4>1
    <3> QED
      BY <3>1, <3>2
  <2>3. ASSUME NEW d \in Callers, NEW a \in Agents, NEW e \in DOMAIN saved',
               Holds(d, e)', store'[a].frozen.id = e
        PROVE  Resumed(d, a)'
    <3>1. e \in DOMAIN saved
      BY <1>2, <2>3, StoredIsSaved DEF Moves
    <3> QED
      BY <1>2, <1>5, <1>6, <2>3, <3>1 DEF OwnInv
  <2> QED
    BY <2>1, <2>2, <2>3 DEF OwnInv
<1>10. ParkedIsCurrent'
  <2> SUFFICES ASSUME NEW a \in Agents, waiting' = a, Parked(a)',
                      \A d \in Callers : ~Resumed(d, a)'
               PROVE  Current(store[a].frozen)'
    BY DEF ParkedIsCurrent
  <2>1. Current(store[a].frozen)
    BY <1>2, <1>6 DEF ParkedIsCurrent, Parked
  <2>2. store[a].frozen.id \in DOMAIN saved
    BY <1>2 DEF StoreInv, Known, Parked
  <2>3. saved'[store[a].frozen.id] = saved[store[a].frozen.id]
    BY <1>4, <1>6, <2>2 DEF OwnInv
  <2> QED
    BY <1>2, <2>1, <2>3 DEF Current
<1>11. OperatorInv'
  BY <1>3 DEF OperatorInv, Moves, Known
<1> QED
  BY <1>7, <1>8, <1>9, <1>10, <1>11

------------------------------------------------------------------------------
(* The shapes a caller's step takes. *)

(* It writes, in the workflow store, at most what it carries, or a new
   execution; what has failed there stays so. *)
Writes(c) ==
  /\ saved' \in Seq(Execution)
  /\ \A e \in DOMAIN saved' : saved'[e].id \in {0, e}
  /\ 0 \notin DOMAIN saved'
  /\ \A e \in DOMAIN saved :
       /\ e \in DOMAIN saved' /\ (saved'[e] = saved[e] \/ Carrying(c, e))
       /\ saved[e].status = "failed" => saved'[e].status = "failed"

LEMMA WritesNothing ==
  ASSUME TypeOK, NEW c \in Callers, UNCHANGED saved
  PROVE  Writes(c)
BY SavedDomain DEF TypeOK, Writes

LEMMA WritesOwn ==
  ASSUME TypeOK, NEW c \in Callers, NEW i, Known(i), Carrying(c, i.id),
         saved[i.id].status = "failed" => i.status = "failed", SaveInstance(i)
  PROVE  Writes(c) /\ DOMAIN saved' = DOMAIN saved /\ saved'[i.id] = i
BY SaveFacts, SavedDomain DEF Writes

LEMMA WritesNew ==
  ASSUME TypeOK, NEW c \in Callers, NEW i \in Execution,
         i.id \in {0, Len(saved) + 1}, saved' = Append(saved, i)
  PROVE  /\ Writes(c) /\ Len(saved) + 1 \in DOMAIN saved'
         /\ saved'[Len(saved) + 1] = i
BY AppendFacts, SavedDomain DEF Writes

(* It goes on to save a state. *)
LEMMA KeepMoves ==
  ASSUME TypeOK, CallInv, NEW c \in Callers, Active(c),
         NEW state \in AgentState, Keep(c, state), Coherent(state),
         Writes(c), UNCHANGED <<registry, store, operating>>,
         \/ state.frozen = NoInstance
         \/ /\ saved' = saved
            /\ Known(state.frozen) /\ Holds(c, state.frozen.id)
            /\ state.life = "waiting" => Current(state.frozen)
  PROVE  Moves(c) /\ call' \in [Callers -> Call]
<1>1. /\ call' \in [Callers -> Call] /\ Others(c) /\ SameErrand(c)
      /\ call'[c].pc = "save" /\ call'[c].state = state
  BY KeepFacts
<1>2. PlaceOK(c)
  BY DEF CallInv
<1>3. \A e \in DOMAIN saved : Holds(c, e)' => Holds(c, e)
  BY <1>1, SavedDomain, InstanceFacts DEF Holds, Carrying
<1>4. Active(c)' /\ PlaceOK(c)'
  BY <1>1, <1>2 DEF PlaceOK, Active, SameErrand
<1>5. CopyOK(c)'
  <2>1. Coherent(call[c].state)'
    BY <1>1, CopyCoherent
  <2> QED
    BY <1>1, <2>1 DEF CopyOK, Known
<1>6. FreshOK(c)'
  BY <1>1 DEF FreshOK, Current
<1> QED
  BY <1>1, <1>3, <1>4, <1>5, <1>6 DEF Moves, Writes

(* It goes round the loop with an instance, its own or a new one. *)
LEMMA LoopMoves ==
  ASSUME TypeOK, CallInv, NEW c \in Callers, Active(c), call[c].pc # "save",
         NEW i \in Instance, i.id \in DOMAIN saved',
         i.id \in DOMAIN saved => Holds(c, i.id),
         i.status \in {"running", "completed", "failed"},
         saved'[i.id].status = "failed" => i.status = "failed", Others(c), SameErrand(c), call'[c].pc = "loop",
         call'[c].instance = i, call'[c].state = call[c].state,
         Writes(c), UNCHANGED <<registry, store, operating>>
  PROVE  Moves(c)
<1>1. PlaceOK(c) /\ CopyOK(c)
  BY DEF CallInv
<1>2. \A e \in DOMAIN saved : Holds(c, e)' => Holds(c, e)
  BY DEF Holds, Carrying
<1>3. Active(c)' /\ PlaceOK(c)'
  BY <1>1 DEF PlaceOK, Active, SameErrand, Known
<1>4. CopyOK(c)'
  <2>1. Coherent(call[c].state)'
    BY <1>1, CopyCoherent DEF CopyOK
  <2>2. call[c].state.frozen # NoInstance => Known(call[c].state.frozen) /\ call[c].resumed
    BY <1>1 DEF CopyOK
  <2>3. DOMAIN saved \subseteq DOMAIN saved'
    BY DEF Writes
  <2>4. call'[c].state.frozen # NoInstance =>
          Known(call[c].state.frozen)' /\ call'[c].resumed
    BY <2>2, <2>3 DEF Known, SameErrand
  <2> QED
    BY <2>1, <2>4 DEF CopyOK
<1>5. FreshOK(c)'
  BY DEF FreshOK
<1> QED
  BY <1>2, <1>3, <1>4, <1>5 DEF Moves, Writes

------------------------------------------------------------------------------
(* The steps of a caller whose line is being routed. *)

(* It starts from a coherent, current copy of its agent's state. *)
LEMMA RouteFacts ==
  ASSUME TypeOK, CallInv, NEW c \in Callers, call[c].pc = "route"
  PROVE  /\ Active(c) /\ call[c].agent \in Agents
         /\ call[c].state \in AgentState /\ Coherent(call[c].state)
         /\ call[c].state.frozen # NoInstance =>
              /\ call[c].state.frozen \in Instance /\ Known(call[c].state.frozen)
              /\ Holds(c, call[c].state.frozen.id) /\ Current(call[c].state.frozen)
              /\ saved[call[c].state.frozen.id].status # "failed"
<1>1. /\ Active(c) /\ call[c].agent \in Agents
      /\ call[c].state \in AgentState /\ Coherent(call[c].state)
  BY DEF TypeOK, CallInv, PlaceOK, CopyOK, Active, Call
<1>2. ASSUME call[c].state.frozen # NoInstance
      PROVE  /\ call[c].state.frozen \in Instance /\ Known(call[c].state.frozen)
             /\ Holds(c, call[c].state.frozen.id) /\ Current(call[c].state.frozen)
  BY <1>1, <1>2 DEF CallInv, CopyOK, FreshOK, Holds, Known
<1>3. ASSUME call[c].state.frozen # NoInstance
      PROVE  call[c].state.frozen.status # "failed"
  BY <1>1, <1>3 DEF Coherent, Behind, AgentState
<1> QED
  BY <1>1, <1>2, <1>3 DEF Current

LEMMA ConverseStep ==
  ASSUME TypeOK, CallInv, NEW c \in Callers, Converse(c)
  PROVE  TypeOK' /\ Moves(c)
<1>1. call[c].pc = "route"
  BY DEF Converse, Routed
<1>2. ASSUME NEW state \in AgentState, Keep(c, state),
             state.frozen = call[c].state.frozen, Coherent(state)
      PROVE  Moves(c) /\ call' \in [Callers -> Call]
  BY <1>1, <1>2, RouteFacts, WritesNothing, KeepMoves DEF Converse
<1>3. PICK state \in AgentState :
        /\ Keep(c, state) /\ state.frozen = call[c].state.frozen /\ Coherent(state)
  <2>1. CASE Keep(c, [call[c].state EXCEPT !.life = "completed", !.replied = TRUE])
    <3> DEFINE s == [call[c].state EXCEPT !.life = "completed", !.replied = TRUE]
    <3>1. s \in AgentState /\ s.frozen = call[c].state.frozen /\ Coherent(s)
      <4>1. call[c].state \in AgentState /\ Coherent(call[c].state)
        BY <1>1, RouteFacts
      <4> QED BY <4>1 DEF AgentState, Coherent
    <3> QED
      BY <2>1, <3>1
  <2>2. CASE Keep(c, [call[c].state EXCEPT !.life = "waiting", !.calls = TRUE,
                                           !.replied = TRUE])
    <3> DEFINE s == [call[c].state EXCEPT !.life = "waiting", !.calls = TRUE,
                                          !.replied = TRUE]
    <3>1. s \in AgentState /\ s.frozen = call[c].state.frozen /\ Coherent(s)
      <4>1. call[c].state \in AgentState /\ Coherent(call[c].state)
        BY <1>1, RouteFacts
      <4> QED BY <4>1 DEF AgentState, Coherent
    <3> QED
      BY <2>2, <3>1
  <2> QED
    BY <2>1, <2>2 DEF Converse
<1> QED
  BY <1>2, <1>3 DEF Converse, TypeOK, requestVars, humanVars, historyVars

LEMMA ConfirmStep ==
  ASSUME TypeOK, CallInv, NEW c \in Callers, Confirm(c)
  PROVE  TypeOK' /\ Moves(c)
<1> DEFINE s == [call[c].state EXCEPT !.life = "activated", !.calls = FALSE,
                                      !.replied = TRUE]
<1>1. call[c].pc = "route" /\ Keep(c, s)
  BY DEF Confirm, Routed
<1>2. s \in AgentState /\ s.frozen = call[c].state.frozen /\ Coherent(s)
      /\ s.life # "waiting"
  <2>1. call[c].state \in AgentState /\ Coherent(call[c].state)
    BY <1>1, RouteFacts
  <2> QED
    BY <2>1 DEF AgentState, Coherent
<1>3. Moves(c) /\ call' \in [Callers -> Call]
  BY <1>1, <1>2, RouteFacts, WritesNothing, KeepMoves DEF Confirm
<1> QED
  BY <1>3 DEF Confirm, TypeOK, requestVars, humanVars

LEMMA CouncilStep ==
  ASSUME TypeOK, CallInv, NEW c \in Callers, Council(c)
  PROVE  TypeOK' /\ Moves(c)
<1>1. PICK life \in {"completed", "failed"}, reply \in BOOLEAN :
        Keep(c, [call[c].state EXCEPT !.life = life, !.replied = @ \/ reply])
  BY DEF Council
<1> DEFINE s == [call[c].state EXCEPT !.life = life, !.replied = @ \/ reply]
<1>2. call[c].pc = "route" /\ Keep(c, s)
  BY <1>1 DEF Council, Routed
<1>3. s \in AgentState /\ s.frozen = call[c].state.frozen /\ Coherent(s)
      /\ s.life # "waiting"
  <2>1. call[c].state \in AgentState /\ Coherent(call[c].state)
    BY <1>2, RouteFacts
  <2> QED
    BY <2>1 DEF AgentState, Coherent
<1>4. Moves(c) /\ call' \in [Callers -> Call]
  BY <1>2, <1>3, RouteFacts, WritesNothing, KeepMoves DEF Council
<1> QED
  BY <1>4 DEF Council, TypeOK, requestVars, humanVars, historyVars

LEMMA StartWorkflowStep ==
  ASSUME TypeOK, CallInv, NEW c \in Callers, StartWorkflow(c)
  PROVE  TypeOK' /\ Moves(c)
<1>1. call[c].pc = "route" /\ call[c].state.frozen = NoInstance
  BY DEF StartWorkflow, Routed
<1>2. CASE Target(c) \in Workflows
  <2> DEFINE i == Started(Target(c))
  <2>1. RunLoop(c, i) /\ saved' = Append(saved, NoInstance)
    BY <1>2 DEF StartWorkflow
  <2>2. i \in Instance /\ i.id = Len(saved) + 1 /\ i.status = "running"
        /\ i.id \notin DOMAIN saved
    BY <1>2, StartFacts
  <2>3. Writes(c) /\ i.id \in DOMAIN saved' /\ saved'[i.id] = NoInstance
    BY <2>1, <2>2, InstanceFacts, WritesNew DEF Execution
  <2>4. /\ call' \in [Callers -> Call] /\ Others(c) /\ SameErrand(c)
        /\ call'[c].pc = "loop" /\ call'[c].instance = i
        /\ call'[c].state = call[c].state
    BY <2>1, <2>2, RunLoopFacts
  <2>5. UNCHANGED <<registry, store, operating>>
    BY DEF StartWorkflow
  <2> HIDE DEF i
  <2>6. Moves(c)
    BY <1>1, <2>2, <2>3, <2>4, <2>5, RouteFacts, LoopMoves DEF NoInstance
  <2> QED
    BY <2>3, <2>4, <2>6 DEF StartWorkflow, TypeOK, Writes, Execution, requestVars,
       humanVars, historyVars
<1>3. CASE Target(c) \notin Workflows
  <2> DEFINE s == [call[c].state EXCEPT !.life = "failed"]
  <2>1. Keep(c, s) /\ UNCHANGED saved
    BY <1>3 DEF StartWorkflow
  <2>2. s \in AgentState /\ s.frozen = NoInstance /\ Coherent(s)
    BY <1>1, RouteFacts DEF AgentState, Coherent, Behind, Def
  <2>3. Moves(c) /\ call' \in [Callers -> Call]
    BY <1>1, <2>1, <2>2, RouteFacts, WritesNothing, KeepMoves DEF StartWorkflow
  <2> QED
    BY <2>1, <2>3 DEF StartWorkflow, TypeOK, requestVars, humanVars, historyVars
<1> QED
  BY <1>2, <1>3

(* Following a failure edge keeps the execution, and it stops or runs. *)
LEMMA FollowFacts ==
  ASSUME TypeOK, NEW i \in Instance, NEW s \in Steps
  PROVE  /\ FollowFailure(i, s) \in Instance /\ FollowFailure(i, s).id = i.id
         /\ FollowFailure(i, s).status \in {"running", "completed", "failed"}
<1>1. Def(i).fail[s] \in Steps \cup {End, Absent}
  BY RegistryType DEF Def, Definition, Instance
<1>2. CASE Def(i).fail[s] = Absent
  BY <1>2 DEF FollowFailure, Instance, Statuses, Terminal
<1>3. CASE Def(i).fail[s] = End
  BY <1>3, RunAssumption DEF FollowFailure, Instance, Statuses, Terminal, End, Absent
<1>4. CASE Def(i).fail[s] \in Steps
  <2>1. Def(i).fail[s] # Absent /\ Def(i).fail[s] # End
    BY <1>4, RunAssumption
  <2> QED
    BY <1>4, <2>1 DEF FollowFailure, Instance, Statuses, Terminal
<1> QED
  BY <1>1, <1>2, <1>3, <1>4

(* An answered, expired or finished wait goes back into the loop. *)
LEMMA ResumeLoop ==
  ASSUME TypeOK, CallInv, NEW c \in Callers, call[c].pc = "route",
         call[c].state.frozen # NoInstance,
         NEW i \in Instance, i.id = call[c].state.frozen.id,
         i.status \in {"running", "completed", "failed"},
         RunLoop(c, i), UNCHANGED <<registry, store, operating, saved>>
  PROVE  Moves(c) /\ call' \in [Callers -> Call]
<1>1. /\ call' \in [Callers -> Call] /\ Others(c) /\ SameErrand(c)
      /\ call'[c].pc = "loop" /\ call'[c].instance = i
      /\ call'[c].state = call[c].state
  BY RunLoopFacts
<1>2. /\ Active(c) /\ i.id \in DOMAIN saved /\ Holds(c, i.id)
      /\ saved[i.id].status # "failed"
  BY RouteFacts DEF Known
<1> QED
  BY <1>1, <1>2, WritesNothing, LoopMoves

LEMMA AnsweringFacts ==
  ASSUME TypeOK, CallInv, NEW c \in Callers, Answering(c)
  PROVE  /\ call[c].pc = "route" /\ call[c].agent \in Agents
         /\ call[c].state.frozen # NoInstance /\ call[c].state.frozen \in Instance
         /\ call[c].state.request \in Requests
         /\ call[c].state.request[2] \in Steps
<1>1. call[c].pc = "route" /\ call[c].state.frozen # NoInstance
      /\ call[c].state.waitingFor = "user_input"
  BY DEF Answering, Routed
<1>2. call[c].state.request \in Requests
  BY <1>1, RouteFacts DEF Coherent, AgentState
<1> QED
  BY <1>1, <1>2, RouteFacts DEF Requests

LEMMA AnswerStep ==
  ASSUME TypeOK, CallInv, NEW c \in Callers, Answer(c)
  PROVE  TypeOK' /\ Moves(c)
<1>1. Answering(c)
  BY DEF Answer
<1> DEFINE i == [call[c].state.frozen EXCEPT !.status = "running"]
           r == call[c].state.request
<1>2. i \in Instance /\ i.id = call[c].state.frozen.id /\ i.status = "running"
  BY <1>1, AnsweringFacts DEF Instance, Statuses
<1>3. Moves(c) /\ call' \in [Callers -> Call]
  <2>1. RunLoop(c, i) /\ UNCHANGED <<registry, store, operating, saved>>
    BY DEF Answer
  <2> HIDE DEF i
  <2> QED
    BY <1>1, <1>2, <2>1, AnsweringFacts, ResumeLoop
<1>4. requests' = requests \ {r} /\ r \notin expired /\ expired' = expired
  BY DEF Answer
<1>5. answered' \subseteq Agents \X Prompts \X Requests
  <2>1. <<call[c].agent, shown, r>> \in Agents \X Prompts \X Requests
    BY <1>1, AnsweringFacts DEF TypeOK
  <2>2. answered' = answered \cup {<<call[c].agent, shown, r>>}
    BY DEF Answer
  <2> QED
    BY <2>1, <2>2 DEF TypeOK
<1>6. requests' \subseteq Requests /\ expired' \subseteq requests'
  BY <1>4 DEF TypeOK
<1> QED
  BY <1>3, <1>5, <1>6 DEF Answer, TypeOK, humanVars

LEMMA RefuseStep ==
  ASSUME TypeOK, CallInv, NEW c \in Callers, Refuse(c)
  PROVE  TypeOK' /\ Moves(c)
<1> DEFINE s == [call[c].state EXCEPT !.life = "waiting"]
<1>1. Answering(c) /\ Keep(c, s)
  BY DEF Refuse
<1>2. call[c].pc = "route" /\ call[c].state.frozen # NoInstance
  BY <1>1, AnsweringFacts
<1>3. s \in AgentState /\ s.frozen = call[c].state.frozen /\ Coherent(s)
  BY <1>2, RouteFacts DEF AgentState, Coherent, Behind, Def
<1>4. UNCHANGED <<registry, store, operating, saved>>
  BY DEF Refuse
<1>5. Moves(c) /\ call' \in [Callers -> Call]
  <2> HIDE DEF s
  <2> QED
    BY <1>1, <1>2, <1>3, <1>4, RouteFacts, WritesNothing, KeepMoves
<1> QED
  BY <1>5 DEF Refuse, TypeOK, requestVars, humanVars, historyVars

LEMMA TimedOutStep ==
  ASSUME TypeOK, CallInv, NEW c \in Callers, TimedOut(c)
  PROVE  TypeOK' /\ Moves(c)
<1> DEFINE i == FollowFailure(call[c].state.frozen, call[c].state.request[2])
           r == call[c].state.request
<1>1. Answering(c) /\ RunLoop(c, i) /\ UNCHANGED <<registry, store, operating, saved>>
  BY DEF TimedOut
<1>2. /\ i \in Instance /\ i.id = call[c].state.frozen.id
      /\ i.status \in {"running", "completed", "failed"}
  BY <1>1, AnsweringFacts, FollowFacts
<1>3. Moves(c) /\ call' \in [Callers -> Call]
  <2> HIDE DEF i
  <2> QED
    BY <1>1, <1>2, AnsweringFacts, ResumeLoop
<1>4. requests' \subseteq Requests /\ expired' \subseteq requests'
  BY DEF TimedOut, TypeOK
<1> QED
  BY <1>3, <1>4 DEF TimedOut, TypeOK, humanVars, historyVars

LEMMA ToolResultStep ==
  ASSUME TypeOK, CallInv, NEW c \in Callers, ToolResult(c)
  PROVE  TypeOK' /\ Moves(c)
<1> DEFINE i == [call[c].state.frozen EXCEPT !.status = "running"]
<1>1. call[c].pc = "route" /\ RunLoop(c, i) /\ UNCHANGED <<registry, store, operating, saved>>
  BY DEF ToolResult, Routed
<1>2. call[c].state.frozen # NoInstance
  BY <1>1, RouteFacts DEF ToolResult, Coherent
<1>3. i \in Instance /\ i.id = call[c].state.frozen.id /\ i.status = "running"
  BY <1>1, <1>2, RouteFacts DEF Instance, Statuses
<1>4. Moves(c) /\ call' \in [Callers -> Call]
  <2> HIDE DEF i
  <2> QED
    BY <1>1, <1>2, <1>3, ResumeLoop
<1> QED
  BY <1>4 DEF ToolResult, TypeOK, requestVars, humanVars, historyVars

------------------------------------------------------------------------------
(* The steps of a caller in the workflow loop. *)

LEMMA LoopFacts ==
  ASSUME TypeOK, CallInv, NEW c \in Callers, call[c].pc \in {"loop", "doing"}
  PROVE  /\ Active(c) /\ call[c].instance \in Instance /\ Known(call[c].instance)
         /\ Carrying(c, call[c].instance.id) /\ Holds(c, call[c].instance.id)
         /\ call[c].state \in AgentState /\ Coherent(call[c].state)
         /\ call[c].iteration \in 0 .. MaxIterations
         /\ saved[call[c].instance.id].status = "failed"
              => call[c].instance.status = "failed"
         /\ call[c].pc = "doing" => call[c].instance.status # "failed"
<1>1. call[c].pc = "doing" => call[c].instance.status # "failed"
  BY DEF CallInv, PlaceOK, Behind
<1>2. saved[call[c].instance.id].status = "failed" => call[c].instance.status = "failed"
  BY DEF CallInv, FreshOK, Current
<1> QED
  BY <1>1, <1>2 DEF TypeOK, CallInv, PlaceOK, CopyOK, Active, Carrying, Holds, Known, Call

(* At the end of a workflow nothing is frozen. *)
LEMMA FinishedFacts ==
  ASSUME NEW state \in AgentState, Coherent(state),
         NEW life \in {"completed", "failed"}
  PROVE  /\ Finished(state, life) \in AgentState
         /\ Finished(state, life).frozen = NoInstance
         /\ Coherent(Finished(state, life))
BY DEF Finished, AgentState, Coherent, Behind, Def

LEMMA FinishStep ==
  ASSUME TypeOK, CallInv, NEW c \in Callers, Finish(c)
  PROVE  TypeOK' /\ Moves(c)
<1> DEFINE i == call[c].instance
           done == IF i.status \in Terminal THEN i ELSE [i EXCEPT !.status = "completed"]
           s == Finished(call[c].state, IF done.status = "completed"
                                        THEN "completed" ELSE "failed")
<1>1. call[c].pc = "loop" /\ SaveInstance(done) /\ Keep(c, s)
      /\ UNCHANGED <<registry, store, operating>>
  BY DEF Finish, InLoop, LoopUnchanged
<1>2. done \in Instance /\ done.id = i.id
  BY <1>1, LoopFacts DEF Instance, Statuses, Terminal
<1>3. /\ Known(done) /\ Carrying(c, done.id)
      /\ saved[done.id].status = "failed" => done.status = "failed"
  BY <1>1, <1>2, LoopFacts DEF Known, Terminal
<1>4. s \in AgentState /\ s.frozen = NoInstance /\ Coherent(s)
  BY <1>1, LoopFacts, FinishedFacts
<1> HIDE DEF s, done
<1>5. Writes(c)
  BY <1>1, <1>3, WritesOwn
<1>6. Moves(c) /\ call' \in [Callers -> Call]
  BY <1>1, <1>4, <1>5, LoopFacts, KeepMoves
<1> QED
  BY <1>5, <1>6 DEF Finish, TypeOK, Writes, Execution, LoopUnchanged, requestVars,
     humanVars, historyVars

LEMMA BrokenStep ==
  ASSUME TypeOK, CallInv, NEW c \in Callers, Broken(c)
  PROVE  TypeOK' /\ Moves(c)
<1> DEFINE i == [call[c].instance EXCEPT !.status = "failed"]
           s == Finished(call[c].state, "failed")
<1>1. call[c].pc = "loop" /\ SaveInstance(i) /\ Keep(c, s)
      /\ UNCHANGED <<registry, store, operating>>
  BY DEF Broken, InLoop, LoopUnchanged
<1>2. i \in Instance /\ i.id = call[c].instance.id /\ i.status = "failed"
  BY <1>1, LoopFacts DEF Instance, Statuses, Terminal
<1>3. Known(i) /\ Carrying(c, i.id)
  BY <1>1, <1>2, LoopFacts DEF Known
<1>4. s \in AgentState /\ s.frozen = NoInstance /\ Coherent(s)
  BY <1>1, LoopFacts, FinishedFacts
<1> HIDE DEF s, i
<1>5. Writes(c)
  BY <1>1, <1>2, <1>3, WritesOwn
<1>6. Moves(c) /\ call' \in [Callers -> Call]
  BY <1>1, <1>4, <1>5, LoopFacts, KeepMoves
<1> QED
  BY <1>5, <1>6 DEF Broken, TypeOK, Writes, Execution, LoopUnchanged, requestVars,
     humanVars, historyVars

(* A call in the loop at a step has a running instance there. *)
LEMMA AtStepFacts ==
  ASSUME TypeOK, CallInv, NEW c \in Callers, InLoop(c), AtStep(c)
  PROVE  /\ call[c].pc = "loop" /\ call[c].instance.status = "running"
         /\ call[c].instance.at \in Steps
         /\ call[c].instance.workflow \in Workflows
         /\ Def(call[c].instance) \in Definition
         /\ call[c].iteration + 1 \in 0 .. MaxIterations
<1>1. call[c].pc = "loop" /\ call[c].iteration < MaxIterations
  BY DEF InLoop
<1>2. call[c].instance \in Instance /\ call[c].iteration \in 0 .. MaxIterations
  BY <1>1, LoopFacts
<1>3. call[c].instance.status = "running"
  BY <1>1 DEF CallInv, PlaceOK, AtStep, Terminal
<1>4. call[c].instance.at \in Steps /\ call[c].instance.workflow \in Workflows
  BY <1>2 DEF AtStep, Instance
<1>5. call[c].iteration + 1 \in 0 .. MaxIterations
  BY <1>1, <1>2, RunAssumption
<1> QED
  BY <1>1, <1>3, <1>4, <1>5, RegistryType DEF Def

LEMMA BranchStep ==
  ASSUME TypeOK, CallInv, NEW c \in Callers, Branch(c)
  PROVE  TypeOK' /\ Moves(c)
<1> DEFINE i == call[c].instance
<1>1. PICK target \in Steps \cup {End} : Moved(c, [i EXCEPT !.at = target])
  <2>1. Def(i) \in Definition /\ i.at \in Steps
    BY AtStepFacts DEF Branch
  <2>2. Def(i).ok[i.at] \in Steps \cup {End}
        /\ Def(i).fail[i.at] \in Steps \cup {End, Absent}
    BY <2>1 DEF Definition
  <2> QED
    BY <2>2 DEF Branch
<1> DEFINE j == [i EXCEPT !.at = target]
<1>2. call[c].pc = "loop" /\ i.status = "running"
      /\ call[c].iteration + 1 \in 0 .. MaxIterations
  BY AtStepFacts DEF Branch
<1>3. /\ i \in Instance /\ Known(i) /\ Carrying(c, i.id) /\ Holds(c, i.id) /\ Active(c)
      /\ saved[i.id].status # "failed"
  BY <1>2, LoopFacts
<1>4. j \in Instance /\ j.id = i.id /\ j.status = "running"
  BY <1>2, <1>3 DEF Instance
<1>5. /\ SaveInstance(j)
      /\ call' = [call EXCEPT ![c].instance = j, ![c].iteration = @ + 1]
  BY <1>1 DEF Moved
<1>6. Known(j) /\ Carrying(c, j.id) /\ Holds(c, j.id)
  BY <1>3, <1>4 DEF Known
<1> HIDE DEF j
<1>7. Writes(c) /\ DOMAIN saved' = DOMAIN saved /\ saved'[j.id] = j
  BY <1>3, <1>4, <1>5, <1>6, WritesOwn
<1>8. /\ call' \in [Callers -> Call] /\ Others(c) /\ SameErrand(c)
      /\ call'[c].pc = "loop" /\ call'[c].instance = j
      /\ call'[c].state = call[c].state
  BY <1>2, <1>4, <1>5 DEF TypeOK, Call, Others, SameErrand
<1>9. Moves(c)
  <2>1. j.id \in DOMAIN saved' /\ UNCHANGED <<registry, store, operating>>
    BY <1>6, <1>7 DEF Branch, LoopUnchanged, Known
  <2> QED
    BY <1>2, <1>3, <1>4, <1>6, <1>7, <1>8, <2>1, LoopMoves
<1> QED
  BY <1>7, <1>8, <1>9 DEF Branch, TypeOK, Writes, Execution, LoopUnchanged, requestVars,
     humanVars, historyVars

LEMMA BeginStep ==
  ASSUME TypeOK, CallInv, NEW c \in Callers, Begin(c)
  PROVE  TypeOK' /\ Moves(c)
<1> DEFINE i == call[c].instance
           j == [i EXCEPT !.at = Def(i).ok[i.at],
                          !.status = IF StepType(c) = "user_input"
                                     THEN "waiting_for_input" ELSE @]
<1>1. Begun(c, j)
  BY DEF Begin
<1>2. /\ call[c].pc = "loop" /\ i.status = "running" /\ i.at \in Steps
      /\ Def(i) \in Definition /\ call[c].iteration + 1 \in 0 .. MaxIterations
  BY <1>1, AtStepFacts DEF Begun
<1>3. /\ i \in Instance /\ Known(i) /\ Carrying(c, i.id) /\ Active(c)
      /\ saved[i.id].status # "failed"
  BY <1>2, LoopFacts
<1>4. /\ j \in Instance /\ j.id = i.id /\ j.workflow = i.workflow
      /\ Behind(j, i.at, Def(j).type[i.at],
                IF Def(j).type[i.at] = "user_input"
                THEN "waiting_for_input" ELSE "running")
  <2>1. Def(i).ok[i.at] \in Steps \cup {End}
    BY <1>2 DEF Definition
  <2>2. /\ j \in Instance /\ j.id = i.id /\ j.workflow = i.workflow
        /\ j.at = Def(i).ok[i.at]
        /\ j.status = IF Def(i).type[i.at] = "user_input"
                      THEN "waiting_for_input" ELSE "running"
    BY <1>2, <1>3, <2>1 DEF Instance, Statuses, StepType
  <2> HIDE DEF j
  <2>3. Def(j) = Def(i)
    BY <2>2 DEF Def
  <2> QED
    BY <2>2, <2>3 DEF Behind
<1>5. /\ SaveInstance(j)
      /\ call' = [call EXCEPT ![c].pc = "doing", ![c].instance = j,
                              ![c].step = i.at, ![c].iteration = @ + 1]
  BY <1>1 DEF Begun
<1>6. Known(j) /\ Carrying(c, j.id)
  BY <1>3, <1>4 DEF Known
<1> HIDE DEF j
<1>7. Writes(c) /\ DOMAIN saved' = DOMAIN saved /\ saved'[j.id] = j
  BY <1>3, <1>4, <1>5, <1>6, WritesOwn
<1>8. /\ call' \in [Callers -> Call] /\ Others(c) /\ SameErrand(c)
      /\ call'[c].pc = "doing" /\ call'[c].instance = j
      /\ call'[c].state = call[c].state /\ call'[c].step = i.at
  <2> DEFINE k == [call[c] EXCEPT !.pc = "doing", !.instance = j, !.step = i.at,
                                  !.iteration = @ + 1]
  <2>1. call \in [Callers -> Call] /\ call[c] \in Call
    BY DEF TypeOK
  <2>2. call' = [call EXCEPT ![c] = k]
    BY <1>5, <2>1 DEF Call
  <2>3. /\ k \in Call /\ k.pc = "doing" /\ k.instance = j /\ k.step = i.at
        /\ k.state = call[c].state /\ k.agent = call[c].agent
        /\ k.resumed = call[c].resumed /\ k.line = call[c].line
    BY <1>2, <1>4, <2>1 DEF Call
  <2> HIDE DEF k
  <2> QED
    BY <2>1, <2>2, <2>3 DEF Others, SameErrand
<1>9. UNCHANGED <<registry, store, operating>>
  BY <1>1 DEF Begun, LoopUnchanged
<1>10. Moves(c)
  <2>1. PlaceOK(c) /\ CopyOK(c)
    BY DEF CallInv
  <2>2. \A e \in DOMAIN saved : Holds(c, e)' => Holds(c, e)
    BY <1>2, <1>3, <1>4, <1>8 DEF Holds, Carrying
  <2>3. Active(c)' /\ PlaceOK(c)'
    BY <1>2, <1>3, <1>4, <1>6, <1>7, <1>8, <1>9, <2>1
       DEF PlaceOK, Active, SameErrand, Known, Behind, Def
  <2>4. CopyOK(c)'
    <3>1. Coherent(call[c].state)'
      BY <1>8, <1>9, <2>1, CopyCoherent DEF CopyOK
    <3>2. call[c].state.frozen # NoInstance => Known(call[c].state.frozen) /\ call[c].resumed
      BY <1>2, <2>1 DEF CopyOK
    <3>3. call'[c].state.frozen # NoInstance =>
            Known(call[c].state.frozen)' /\ call'[c].resumed
      BY <1>7, <1>8, <3>2 DEF Known, SameErrand
    <3> QED
      BY <3>1, <3>3 DEF CopyOK
  <2>5. FreshOK(c)'
    BY <1>7, <1>8 DEF FreshOK, Current
  <2> QED
    BY <1>3, <1>7, <1>8, <1>9, <2>2, <2>3, <2>4, <2>5 DEF Moves, Writes
<1> QED
  BY <1>1, <1>7, <1>8, <1>10 DEF Begun, TypeOK, Writes, Execution, LoopUnchanged,
     requestVars, humanVars, historyVars

(* A call that carries a step out has its instance right behind that step, as
   the workflow store has it. *)
LEMMA DoingFacts ==
  ASSUME TypeOK, CallInv, NEW c \in Callers, NEW types, Doing(c, types)
  PROVE  LET i == call[c].instance
             s == call[c].step
         IN /\ call[c].pc = "doing" /\ s \in Steps /\ Def(i).type[s] \in types
            /\ i.workflow \in Workflows /\ Def(i) \in Definition
            /\ Behind(i, s, Def(i).type[s], IF Def(i).type[s] = "user_input"
                 THEN "waiting_for_input" ELSE "running")
            /\ Current(i)
<1>1. call[c].pc = "doing"
  BY DEF Doing
<1>2. call[c].instance.workflow \in Workflows
  BY <1>1, LoopFacts DEF Instance
<1> QED
  BY <1>1, <1>2, RegistryType DEF Doing, CallInv, PlaceOK, FreshOK, Def

(* The step's outcome is recorded, and the loop goes on. *)
LEMMA RecordedMoves ==
  ASSUME TypeOK, CallInv, NEW c \in Callers, call[c].pc = "doing",
         NEW i \in Instance, i.id = call[c].instance.id,
         i.status \in {"running", "completed", "failed"},
         Recorded(c, i), UNCHANGED requestVars, LoopUnchanged
  PROVE  TypeOK' /\ Moves(c)
<1>1. /\ Active(c) /\ Known(i) /\ Carrying(c, i.id) /\ Holds(c, i.id)
      /\ saved[i.id].status # "failed"
  BY LoopFacts DEF Known
<1>2. Writes(c) /\ DOMAIN saved' = DOMAIN saved /\ saved'[i.id] = i
  BY <1>1, WritesOwn DEF Recorded
<1>3. /\ call' \in [Callers -> Call] /\ Others(c) /\ SameErrand(c)
      /\ call'[c].pc = "loop" /\ call'[c].instance = i
      /\ call'[c].state = call[c].state
  BY RunLoopFacts DEF Recorded
<1>4. Moves(c)
  BY <1>1, <1>2, <1>3, LoopMoves DEF Known, LoopUnchanged
<1> QED
  BY <1>2, <1>3, <1>4 DEF TypeOK, Writes, Execution, LoopUnchanged, requestVars,
     humanVars, historyVars

LEMMA SucceedStep ==
  ASSUME TypeOK, CallInv, NEW c \in Callers, Succeed(c)
  PROVE  TypeOK' /\ Moves(c)
<1> DEFINE i == [call[c].instance EXCEPT !.status = "running"]
<1>1. call[c].pc = "doing" /\ Recorded(c, i) /\ UNCHANGED requestVars /\ LoopUnchanged
  BY DEF Succeed, Doing
<1>2. i \in Instance /\ i.id = call[c].instance.id /\ i.status = "running"
  BY <1>1, LoopFacts DEF Instance, Statuses
<1> HIDE DEF i
<1> QED
  BY <1>1, <1>2, RecordedMoves

LEMMA FailStepStep ==
  ASSUME TypeOK, CallInv, NEW c \in Callers, FailStep(c)
  PROVE  TypeOK' /\ Moves(c)
<1> DEFINE i == FollowFailure(call[c].instance, call[c].step)
<1>1. call[c].pc = "doing" /\ Recorded(c, i) /\ UNCHANGED requestVars /\ LoopUnchanged
  BY DEF FailStep, MayFail, Doing
<1>2. call[c].instance \in Instance /\ call[c].step \in Steps
  BY <1>1, LoopFacts DEF CallInv, PlaceOK
<1>3. /\ i \in Instance /\ i.id = call[c].instance.id
      /\ i.status \in {"running", "completed", "failed"}
  BY <1>2, FollowFacts
<1> HIDE DEF i
<1> QED
  BY <1>1, <1>3, RecordedMoves

LEMMA DispatchStep ==
  ASSUME TypeOK, CallInv, NEW c \in Callers, Dispatch(c)
  PROVE  TypeOK' /\ Moves(c)
<1> DEFINE i == call[c].instance
           s == [call[c].state EXCEPT !.life = "waiting", !.frozen = i,
                                      !.waitingFor = "tool_result"]
<1>1. Doing(c, {"tool_execute"}) /\ Keep(c, s) /\ UNCHANGED <<registry, store, operating, saved>>
  BY DEF Dispatch, LoopUnchanged
<1>2. /\ call[c].pc = "doing" /\ Behind(i, call[c].step, "tool_execute", "running")
      /\ call[c].step \in Steps /\ Current(i)
  BY <1>1, DoingFacts
<1>3. i \in Instance /\ i # NoInstance /\ Known(i) /\ Holds(c, i.id) /\ Active(c)
  BY <1>2, LoopFacts, InstanceFacts
<1>4. s \in AgentState /\ s.frozen = i /\ Coherent(s)
  <2>1. /\ s \in AgentState /\ s.frozen = i /\ s.waitingFor = "tool_result"
    BY <1>2, <1>3, LoopFacts DEF AgentState
  <2> HIDE DEF s
  <2> QED
    BY <1>2, <1>3, <2>1 DEF Coherent
<1> HIDE DEF s
<1>5. Moves(c) /\ call' \in [Callers -> Call]
  BY <1>1, <1>2, <1>3, <1>4, WritesNothing, KeepMoves
<1> QED
  BY <1>5 DEF Dispatch, TypeOK, LoopUnchanged, requestVars, humanVars, historyVars

LEMMA AskStep ==
  ASSUME TypeOK, CallInv, NEW c \in Callers, Ask(c)
  PROVE  TypeOK' /\ Moves(c)
<1> DEFINE i == call[c].instance
           r == <<i.workflow, call[c].step>>
           s == [call[c].state EXCEPT !.life = "waiting", !.frozen = i,
                                      !.waitingFor = "user_input", !.request = r]
<1>1. Doing(c, {"user_input"}) /\ Keep(c, s) /\ UNCHANGED <<registry, store, operating, saved>>
  BY DEF Ask, LoopUnchanged
<1>2. /\ call[c].pc = "doing" /\ Behind(i, call[c].step, "user_input", "waiting_for_input")
      /\ call[c].step \in Steps /\ i.workflow \in Workflows /\ Current(i)
  BY <1>1, DoingFacts
<1>3. i \in Instance /\ i # NoInstance /\ Known(i) /\ Holds(c, i.id) /\ Active(c)
  BY <1>2, LoopFacts, InstanceFacts
<1>4. r \in Requests /\ r # Nothing /\ r[1] = i.workflow /\ r[2] = call[c].step
  BY <1>2 DEF Requests, Nothing
<1>5. s \in AgentState /\ s.frozen = i /\ Coherent(s)
  <2>1. /\ s \in AgentState /\ s.frozen = i /\ s.waitingFor = "user_input"
        /\ s.request = r
    BY <1>2, <1>3, <1>4, LoopFacts DEF AgentState
  <2> HIDE DEF s
  <2> QED
    BY <1>2, <1>3, <1>4, <2>1 DEF Coherent
<1>6. requests' \subseteq Requests /\ expired' \subseteq requests'
  BY <1>4 DEF Ask, TypeOK
<1> HIDE DEF s
<1>7. Moves(c) /\ call' \in [Callers -> Call]
  BY <1>1, <1>2, <1>3, <1>5, WritesNothing, KeepMoves
<1> QED
  BY <1>6, <1>7 DEF Ask, TypeOK, LoopUnchanged, humanVars, historyVars

LEMMA StartSubStep ==
  ASSUME TypeOK, CallInv, NEW c \in Callers, StartSub(c)
  PROVE  TypeOK' /\ Moves(c)
<1> DEFINE w == Def(call[c].instance).sub[call[c].step]
           i == Started(w)
<1>1. /\ Doing(c, {"sub_workflow"}) /\ w # Unregistered
      /\ saved' = Append(saved, i) /\ RunLoop(c, i)
      /\ UNCHANGED requestVars /\ LoopUnchanged
  BY DEF StartSub
<1>2. call[c].pc = "doing" /\ w \in Workflows /\ Active(c)
  <2>1. /\ call[c].pc = "doing" /\ Active(c) /\ call[c].step \in Steps
        /\ Def(call[c].instance) \in Definition
    BY <1>1, DoingFacts, LoopFacts
  <2> QED
    BY <1>1, <2>1 DEF Definition
<1>3. /\ i \in Instance /\ i.id = Len(saved) + 1 /\ i.status = "running"
      /\ i.id \notin DOMAIN saved
  BY <1>2, StartFacts
<1> HIDE DEF i
<1>4. Writes(c) /\ i.id \in DOMAIN saved' /\ saved'[i.id] = i
  BY <1>1, <1>3, WritesNew DEF Execution
<1>5. /\ call' \in [Callers -> Call] /\ Others(c) /\ SameErrand(c)
      /\ call'[c].pc = "loop" /\ call'[c].instance = i
      /\ call'[c].state = call[c].state
  BY <1>1, <1>3, RunLoopFacts
<1>6. Moves(c)
  BY <1>1, <1>2, <1>3, <1>4, <1>5, LoopMoves DEF LoopUnchanged
<1> QED
  BY <1>1, <1>4, <1>5, <1>6 DEF TypeOK, Writes, Execution, LoopUnchanged, requestVars,
     humanVars, historyVars

LEMMA LoopLimitStep ==
  ASSUME TypeOK, CallInv, NEW c \in Callers, LoopLimit(c)
  PROVE  TypeOK' /\ Moves(c)
<1> DEFINE s == Finished(call[c].state, "failed")
<1>1. call[c].pc = "loop" /\ Keep(c, s) /\ UNCHANGED <<registry, store, operating, saved>>
  BY DEF LoopLimit, LoopUnchanged
<1>2. s \in AgentState /\ s.frozen = NoInstance /\ Coherent(s)
  BY <1>1, LoopFacts, FinishedFacts
<1> HIDE DEF s
<1>3. Moves(c) /\ call' \in [Callers -> Call]
  BY <1>1, <1>2, LoopFacts, WritesNothing, KeepMoves
<1> QED
  BY <1>3 DEF LoopLimit, TypeOK, LoopUnchanged, requestVars, humanVars, historyVars

------------------------------------------------------------------------------
(* The steps that touch the agent store, and those that are nobody's call. *)

Inv == CallInv /\ StoreInv /\ OwnInv /\ OperatorInv /\ ParkedIsCurrent

(* An idle or crashed call is in order, and holds nothing. *)
LEMMA NewStateCoherent ==
  \A life \in {"absent", "activated"} :
    /\ NewState(life) \in AgentState /\ Coherent(NewState(life))
    /\ NewState(life).frozen = NoInstance /\ NewState(life).life = life
BY DEF NewState, AgentState, Coherent, Nothing

LEMMA IdleType == Idle \in Call
<1>1. 0 \in 0 .. MaxIterations
  BY RunAssumption
<1>2. NewState("absent") \in AgentState /\ "plain" \in Lines
  BY NewStateCoherent DEF Lines
<1> QED
  BY <1>1, <1>2 DEF Idle, Call

LEMMA IdleFacts ==
  ASSUME NEW c \in Callers, call'[c] \in {Idle, [Idle EXCEPT !.pc = "crashed"]}
  PROVE  /\ PlaceOK(c)' /\ CopyOK(c)' /\ FreshOK(c)' /\ ~Active(c)'
         /\ \A e : ~Holds(c, e)'
         /\ \A a : ~Resumed(c, a)'
<1>1. /\ call'[c].pc \in {"idle", "crashed"} /\ call'[c].state = NewState("absent")
      /\ call'[c].resumed = FALSE
  BY DEF Idle
<1>2. CopyOK(c)'
  <2>1. Coherent(call[c].state)'
    BY <1>1 DEF Coherent, NewState
  <2>2. call'[c].state.frozen = NoInstance
    BY <1>1 DEF NewState
  <2> QED
    BY <2>1, <2>2 DEF CopyOK
<1> QED
  BY <1>1, <1>2 DEF PlaceOK, FreshOK, Active, Holds, Carrying, Resumed

(* A call is in order as long as it, the registry and the workflow store stay. *)
LEMMA SameCall ==
  ASSUME NEW d \in Callers, PlaceOK(d), CopyOK(d), FreshOK(d),
         call'[d] = call[d], UNCHANGED <<registry, saved>>
  PROVE  PlaceOK(d)' /\ CopyOK(d)' /\ FreshOK(d)'
<1>1. PlaceOK(d)'
  BY DEF PlaceOK, Active, Known, Behind, Def
<1>2. CopyOK(d)'
  BY DEF CopyOK, Coherent, Known, Behind, Def
<1>3. FreshOK(d)'
  BY DEF FreshOK, Current
<1> QED
  BY <1>1, <1>2, <1>3

(* So is everything while the agent store stays too, and the command line waits for
   no other agent than before. *)
LEMMA SameInv ==
  ASSUME TypeOK, Inv, UNCHANGED <<registry, store, saved, call>>,
         waiting' \in {waiting, "none"}
  PROVE  CallInv' /\ StoreInv' /\ OwnInv' /\ ParkedIsCurrent'
<1>1. CallInv'
  BY SameCall DEF Inv, CallInv
<1>2. StoreInv'
  BY DEF Inv, StoreInv, Coherent, Known, Behind, Def
<1>3. OwnInv'
  BY DEF Inv, OwnInv, Holds, Carrying, Active, Resumed
<1>4. ParkedIsCurrent'
  BY RunAssumption DEF Inv, ParkedIsCurrent, Parked, Current, Resumed
<1> QED
  BY <1>1, <1>2, <1>3, <1>4

LEMMA SameOperator == Inv /\ UNCHANGED <<saved, operating>> => OperatorInv'
BY DEF Inv, OperatorInv, Known

(* Ingest puts a fresh state in place of its agent's and holds no execution. *)
LEMMA IngestStep ==
  ASSUME TypeOK, Inv, NEW c \in Callers, Ingest(c)
  PROVE  TypeOK' /\ Inv'
<1>1. PICK a \in Reach[c], l \in Lines :
        /\ store' = [store EXCEPT ![a] = NewState("activated")]
        /\ call' = [call EXCEPT ![c] = [Idle EXCEPT
             !.pc = "route", !.agent = a, !.line = l,
             !.state = NewState("activated")]]
  BY DEF Ingest
<1>2. a \in Agents /\ Reach[c] \subseteq Agents
  BY RunAssumption
<1>3. UNCHANGED <<registry, saved, operating>>
  BY DEF Ingest
<1>4. /\ call'[c].pc = "route" /\ call'[c].agent = a /\ call'[c].resumed = FALSE
      /\ call'[c].state = NewState("activated")
      /\ \A d \in Callers \ {c} : call'[d] = call[d]
  BY <1>1 DEF TypeOK, Idle
<1>5. call' \in [Callers -> Call]
  <2>1. [Idle EXCEPT !.pc = "route", !.agent = a, !.line = l,
                     !.state = NewState("activated")] \in Call
    BY <1>2, IdleType, NewStateCoherent DEF Call
  <2> QED
    BY <1>1, <2>1 DEF TypeOK
<1>6. /\ store' \in [Agents -> AgentState] /\ store'[a] = NewState("activated")
      /\ \A b \in Agents \ {a} : store'[b] = store[b]
  BY <1>1, <1>2, NewStateCoherent DEF TypeOK
<1>7. TypeOK'
  <2>1. ingests' \in 0 .. MaxIngests
    BY RunAssumption DEF Ingest, TypeOK
  <2> QED
    BY <1>5, <1>6, <2>1 DEF Ingest, TypeOK, requestVars, humanVars, historyVars
<1>8. /\ \A e \in DOMAIN saved : ~Holds(c, e)'
      /\ \A b : ~Resumed(c, b) /\ ~Resumed(c, b)'
  <2>1. ~call[c].resumed
    BY DEF Inv, CallInv, PlaceOK, Active, Ingest
  <2> QED
    BY <1>4, <2>1, SavedDomain, InstanceFacts, NewStateCoherent
       DEF Holds, Carrying, Resumed
<1>9. CallInv'
  <2> SUFFICES ASSUME NEW d \in Callers
               PROVE  PlaceOK(d)' /\ CopyOK(d)' /\ FreshOK(d)'
    BY DEF CallInv
  <2>1. CASE d = c
    <3>1. Coherent(call[c].state)'
      BY <1>4 DEF Coherent, NewState
    <3>2. call'[c].state.frozen = NoInstance
      BY <1>4, NewStateCoherent
    <3> QED
      BY <1>2, <1>4, <2>1, <3>1, <3>2 DEF PlaceOK, CopyOK, FreshOK, Active
  <2>2. CASE d # c
    BY <1>3, <1>4, <2>2, SameCall DEF Inv, CallInv
  <2> QED
    BY <2>1, <2>2
<1>10. StoreInv'
  <2> SUFFICES ASSUME NEW b \in Agents
               PROVE  /\ Coherent(store[b])'
                      /\ store'[b].frozen # NoInstance => Known(store[b].frozen)'
    BY DEF StoreInv
  <2>1. CASE b = a
    <3>1. Coherent(store[b])'
      BY <1>6, <2>1 DEF Coherent, NewState
    <3> QED
      BY <1>6, <2>1, <3>1, NewStateCoherent
  <2>2. CASE b # a
    <3>1. /\ Coherent(store[b]) /\ store'[b] = store[b]
          /\ store[b].frozen # NoInstance => Known(store[b].frozen)
      BY <1>6, <2>2 DEF Inv, StoreInv
    <3>2. Coherent(store[b])'
      BY <1>3, <3>1 DEF Coherent, Behind, Def
    <3> QED
      BY <1>3, <3>1, <3>2 DEF Known
  <2> QED
    BY <2>1, <2>2
<1>11. \A b \in Agents : store'[b].frozen = NoInstance \/ store'[b] = store[b]
  BY <1>6, NewStateCoherent
<1>12. \A d \in Callers, e \in DOMAIN saved : Holds(d, e)' => d # c /\ Holds(d, e)
  BY <1>4, <1>8 DEF Holds, Carrying, Active
<1>13. OwnInv'
  <2>1. \A b, d \in Agents :
          store'[b].frozen # NoInstance /\ store'[b].frozen.id = store'[d].frozen.id
            => b = d
    <3> SUFFICES ASSUME NEW b \in Agents, NEW d \in Agents,
                        store'[b].frozen # NoInstance,
                        store'[b].frozen.id = store'[d].frozen.id
                 PROVE  b = d
      OBVIOUS
    <3>1. store'[b].frozen \in Instance
      BY <1>6 DEF AgentState
    <3>2. store'[d].frozen # NoInstance
      BY <3>1, InstanceFacts
    <3> QED
      BY <1>11, <3>2 DEF Inv, OwnInv
  <2>2. \A d, f \in Callers, e \in DOMAIN saved' : Holds(d, e)' /\ Holds(f, e)' => d = f
    BY <1>3, <1>12 DEF Inv, OwnInv
  <2>3. \A d \in Callers, b \in Agents, e \in DOMAIN saved' :
          Holds(d, e)' /\ store'[b].frozen.id = e => Resumed(d, b)'
    BY <1>3, <1>4, <1>11, <1>12, SavedDomain, InstanceFacts DEF Inv, OwnInv, Resumed
  <2> QED
    BY <2>1, <2>2, <2>3 DEF OwnInv
<1>14. ParkedIsCurrent'
  <2> SUFFICES ASSUME NEW b \in Agents, waiting' = b, Parked(b)',
                      \A d \in Callers : ~Resumed(d, b)'
               PROVE  Current(store[b].frozen)'
    BY DEF ParkedIsCurrent
  <2>1. store'[b] = store[b] /\ waiting = b
    BY <1>11 DEF Parked, Ingest, humanVars
  <2>2. \A d \in Callers : ~Resumed(d, b)
    BY <1>4, <1>8 DEF Resumed
  <2> QED
    BY <1>3, <2>1, <2>2 DEF Inv, ParkedIsCurrent, Parked, Current
<1> QED
  BY <1>3, <1>7, <1>9, <1>10, <1>13, <1>14, SameOperator DEF Inv

(* Resume takes a current copy of what the store holds for the agent. *)
LEMMA ResumeStep ==
  ASSUME TypeOK, Inv, NEW c \in Callers, Resume(c)
  PROVE  TypeOK' /\ Inv'
<1>1. CASE UNCHANGED call
  <2>1. TypeOK'
    BY <1>1 DEF Resume, TypeOK, Prompts, humanVars, requestVars, historyVars
  <2>2. /\ UNCHANGED <<registry, store, saved, operating, call>>
        /\ waiting' \in {waiting, "none"}
    BY <1>1 DEF Resume, humanVars
  <2> QED
    BY <2>1, <2>2, SameInv, SameOperator DEF Inv
<1>2. CASE store[waiting].life = "waiting"
  <2>1. PICK l \in Lines :
          call' = [call EXCEPT ![c] = [Idle EXCEPT
            !.pc = "route", !.agent = waiting, !.resumed = TRUE, !.line = l,
            !.state = store[waiting]]]
    BY <1>2 DEF Resume
  <2>2. waiting \in Agents /\ store[waiting] \in AgentState /\ c = Human
    BY DEF Resume, TypeOK
  <2>3. UNCHANGED <<registry, store, saved, operating>>
    BY DEF Resume
  <2>4. /\ call'[c].pc = "route" /\ call'[c].agent = waiting /\ call'[c].resumed = TRUE
        /\ call'[c].state = store[waiting]
        /\ \A d \in Callers \ {c} : call'[d] = call[d]
    BY <2>1 DEF TypeOK, Idle
  <2>5. TypeOK'
    <3>1. [Idle EXCEPT !.pc = "route", !.agent = waiting, !.resumed = TRUE, !.line = l,
                       !.state = store[waiting]] \in Call
      BY <2>2, IdleType DEF Call
    <3>2. call' \in [Callers -> Call]
      BY <2>1, <3>1 DEF TypeOK
    <3> QED
      BY <1>2, <3>2 DEF Resume, TypeOK, humanVars, requestVars, historyVars
  <2>6. \A d \in Callers : \A a : ~Resumed(d, a)
    BY <2>2 DEF Inv, CallInv, PlaceOK, Active, Resumed, Resume
  <2>7. store[waiting].frozen # NoInstance =>
          Current(store[waiting].frozen) /\ Known(store[waiting].frozen)
    BY <1>2, <2>2, <2>6 DEF Inv, ParkedIsCurrent, Parked, StoreInv
  <2>8. \A e \in DOMAIN saved : Holds(c, e)' => store[waiting].frozen.id = e
    BY <2>4 DEF Holds, Carrying
  <2>9. \A d \in Callers \ {c}, e \in DOMAIN saved : Holds(d, e)' => Holds(d, e)
    BY <2>4 DEF Holds, Carrying, Active
  <2>10. \A d \in Callers, a \in Agents, e \in DOMAIN saved :
           ~(Holds(d, e) /\ store[a].frozen.id = e)
    BY <2>6 DEF Inv, OwnInv
  <2>11. CallInv'
    <3> SUFFICES ASSUME NEW d \in Callers
                 PROVE  PlaceOK(d)' /\ CopyOK(d)' /\ FreshOK(d)'
      BY DEF CallInv
    <3>1. CASE d = c
      <4>1. PlaceOK(c)'
        BY <2>2, <2>4 DEF PlaceOK, Active
      <4>2. CopyOK(c)'
        <5>1. /\ Coherent(store[waiting])
              /\ store[waiting].frozen # NoInstance => Known(store[waiting].frozen)
          BY <2>2 DEF Inv, StoreInv
        <5>2. Coherent(call[c].state)'
          BY <2>3, <2>4, <5>1, CopyCoherent
        <5> QED
          BY <2>3, <2>4, <5>1, <5>2 DEF CopyOK, Known
      <4>3. FreshOK(c)'
        BY <2>3, <2>4, <2>7 DEF FreshOK, Current
      <4> QED
        BY <3>1, <4>1, <4>2, <4>3
    <3>2. CASE d # c
      BY <2>3, <2>4, <3>2, SameCall DEF Inv, CallInv
    <3> QED
      BY <3>1, <3>2
  <2>12. StoreInv'
    BY <2>3 DEF Inv, StoreInv, Coherent, Known, Behind, Def
  <2>13. OwnInv'
    <3>1. \A a, b \in Agents :
            store'[a].frozen # NoInstance /\ store'[a].frozen.id = store'[b].frozen.id
              => a = b
      BY <2>3 DEF Inv, OwnInv
    <3>2. \A d, f \in Callers, e \in DOMAIN saved' :
            Holds(d, e)' /\ Holds(f, e)' => d = f
      BY <2>2, <2>3, <2>8, <2>9, <2>10 DEF Inv, OwnInv
    <3>3. ASSUME NEW d \in Callers, NEW a \in Agents, NEW e \in DOMAIN saved',
                 Holds(d, e)', store'[a].frozen.id = e
          PROVE  Resumed(d, a)'
      <4>1. d = c /\ store[waiting].frozen.id = e
        BY <2>3, <2>8, <2>9, <2>10, <3>3
      <4>2. store[waiting].frozen # NoInstance
        BY <2>3, <3>3, <4>1, SavedDomain, InstanceFacts
      <4>3. a = waiting
        BY <2>2, <2>3, <3>3, <4>1, <4>2 DEF Inv, OwnInv
      <4> QED
        BY <2>4, <4>1, <4>3 DEF Resumed
    <3> QED
      BY <3>1, <3>2, <3>3 DEF OwnInv
  <2>14. ParkedIsCurrent'
    <3>1. waiting' = waiting
      BY <1>2 DEF Resume, humanVars
    <3> QED
      BY <2>3, <2>6, <3>1 DEF Inv, ParkedIsCurrent, Parked, Current
  <2> QED
    BY <2>3, <2>5, <2>11, <2>12, <2>13, <2>14, SameOperator DEF Inv
<1> QED
  BY <1>1, <1>2 DEF Resume

(* Save hands what the call holds over to its agent's record. *)
LEMMA SaveStep ==
  ASSUME TypeOK, Inv, NEW c \in Callers, Save(c)
  PROVE  TypeOK' /\ Inv'
<1> DEFINE a == call[c].agent
           s == call[c].state
<1>1. /\ call[c].pc = "save" /\ store' = [store EXCEPT ![a] = s]
      /\ UNCHANGED <<registry, saved, operating>>
  BY DEF Save
<1>2. /\ a \in Agents /\ s \in AgentState /\ Active(c) /\ Coherent(s)
      /\ s.frozen # NoInstance => Known(s.frozen) /\ Holds(c, s.frozen.id)
      /\ s.life = "waiting" /\ s.frozen # NoInstance => Current(s.frozen)
  BY <1>1 DEF TypeOK, Inv, CallInv, PlaceOK, CopyOK, FreshOK, Active, Holds, Call
<1>3. PICK idle \in {Idle, [Idle EXCEPT !.pc = "crashed"]} : call' = [call EXCEPT ![c] = idle]
  BY DEF Save
<1>4. /\ call'[c] \in {Idle, [Idle EXCEPT !.pc = "crashed"]}
      /\ \A d \in Callers \ {c} : call'[d] = call[d]
      /\ call' \in [Callers -> Call]
  <2>1. [Idle EXCEPT !.pc = "crashed"] \in Call
    BY IdleType DEF Call
  <2> QED
    BY <1>3, <2>1, IdleType DEF TypeOK
<1>5. /\ store' \in [Agents -> AgentState] /\ store'[a] = s
      /\ \A b \in Agents \ {a} : store'[b] = store[b]
  BY <1>1, <1>2 DEF TypeOK
<1>6. PlaceOK(c)' /\ CopyOK(c)' /\ FreshOK(c)' /\ \A e : ~Holds(c, e)'
      /\ \A b : ~Resumed(c, b)'
  BY <1>4, IdleFacts
<1>7. TypeOK'
  <2>1. Prompt(s) \in Prompts
    BY <1>2 DEF Prompt, Prompts, AgentState
  <2>2. waiting' \in Agents \cup {"none"} /\ shown' \in Prompts
    BY <1>2, <2>1 DEF Save, TypeOK, humanVars
  <2> QED
    BY <1>1, <1>4, <1>5, <2>2 DEF Save, TypeOK, requestVars, historyVars
<1> HIDE DEF a, s
<1>8. CallInv'
  BY <1>1, <1>4, <1>6, SameCall DEF Inv, CallInv
<1>9. StoreInv'
  <2> SUFFICES ASSUME NEW b \in Agents
               PROVE  /\ Coherent(store[b])'
                      /\ store'[b].frozen # NoInstance => Known(store[b].frozen)'
    BY DEF StoreInv
  <2>1. CASE b = a
    BY <1>1, <1>2, <1>5, <2>1 DEF Known, Behind, Def, Coherent
  <2>2. CASE b # a
    BY <1>1, <1>5, <2>2 DEF Inv, StoreInv, Known, Behind, Def, Coherent
  <2> QED
    BY <2>1, <2>2
<1>10. \A d \in Callers : \A e : Holds(d, e)' => d # c /\ Holds(d, e)
  BY <1>4, <1>6 DEF Holds, Carrying, Active
<1>11. \A e \in DOMAIN saved, b \in Agents :
         Holds(c, e) /\ store[b].frozen.id = e => b = a
  BY DEF Inv, OwnInv, Resumed, a
<1>12. OwnInv'
  <2>1. ASSUME NEW b \in Agents, NEW d \in Agents, store'[b].frozen # NoInstance,
               store'[b].frozen.id = store'[d].frozen.id
        PROVE  b = d
    <3>1. store'[b].frozen \in Instance /\ store'[d].frozen # NoInstance
      BY <1>5, <2>1, InstanceFacts DEF AgentState
    <3>2. s.frozen # NoInstance =>
            s.frozen.id \in DOMAIN saved /\ Holds(c, s.frozen.id)
      BY <1>2 DEF Known
    <3> QED
      BY <1>5, <1>11, <2>1, <3>1, <3>2 DEF Inv, OwnInv
  <2>2. \A d, f \in Callers, e \in DOMAIN saved' : Holds(d, e)' /\ Holds(f, e)' => d = f
    BY <1>1, <1>10 DEF Inv, OwnInv
  <2>3. ASSUME NEW d \in Callers, NEW b \in Agents, NEW e \in DOMAIN saved',
               Holds(d, e)', store'[b].frozen.id = e
        PROVE  Resumed(d, b)'
    <3>1. d # c /\ Holds(d, e) /\ e \in DOMAIN saved
      BY <1>1, <1>10, <2>3
    <3>2. b # a
      <4> SUFFICES ASSUME b = a PROVE FALSE
        OBVIOUS
      <4>1. s.frozen.id = e /\ s.frozen # NoInstance
        BY <1>5, <2>3, <3>1, SavedDomain, InstanceFacts
      <4> QED
        BY <1>2, <3>1, <4>1 DEF Inv, OwnInv
    <3> QED
      BY <1>4, <1>5, <2>3, <3>1, <3>2 DEF Inv, OwnInv, Resumed
  <2> QED
    BY <2>1, <2>2, <2>3 DEF OwnInv
<1>13. ParkedIsCurrent'
  <2> SUFFICES ASSUME NEW b \in Agents, waiting' = b, Parked(b)',
                      \A d \in Callers : ~Resumed(d, b)'
               PROVE  Current(store[b].frozen)'
    BY DEF ParkedIsCurrent
  <2>1. CASE b = a
    BY <1>1, <1>2, <1>5, <2>1 DEF Parked, Current
  <2>2. CASE b # a
    <3>1. \A d \in Callers : ~Resumed(d, b)
      BY <1>4, <2>2 DEF Resumed, a
    <3>2. waiting = b
      BY <2>2, RunAssumption DEF Save, humanVars, a
    <3> QED
      BY <1>1, <1>5, <2>2, <3>1, <3>2 DEF Inv, ParkedIsCurrent, Parked, Current
  <2> QED
    BY <2>1, <2>2
<1> QED
  BY <1>1, <1>7, <1>8, <1>9, <1>12, <1>13, SameOperator DEF Inv

(* A call that raises lets go of what it held; the command line, of its agent. *)
LEMMA RaisesStep ==
  ASSUME TypeOK, Inv, NEW c \in Callers, Raises(c)
  PROVE  TypeOK' /\ Inv'
<1>1. /\ call' = [call EXCEPT ![c] = Idle]
      /\ UNCHANGED <<registry, operating, store, saved>>
  BY DEF Raises
<1>2. /\ call'[c] = Idle /\ call' \in [Callers -> Call]
      /\ \A d \in Callers \ {c} : call'[d] = call[d]
  BY <1>1, IdleType DEF TypeOK
<1>3. /\ PlaceOK(c)' /\ CopyOK(c)' /\ FreshOK(c)' /\ \A e : ~Holds(c, e)'
      /\ \A a : ~Resumed(c, a)'
  BY <1>2, IdleFacts
<1>4. TypeOK'
  <2>1. waiting' \in Agents \cup {"none"} /\ shown' \in Prompts
    BY DEF Raises, TypeOK, Prompts, humanVars
  <2> QED
    BY <1>1, <1>2, <2>1 DEF Raises, TypeOK, requestVars, historyVars
<1>5. CallInv'
  BY <1>1, <1>2, <1>3, SameCall DEF Inv, CallInv
<1>6. StoreInv'
  BY <1>1 DEF Inv, StoreInv, Coherent, Known, Behind, Def
<1>7. \A d \in Callers : \A e : Holds(d, e)' => d # c /\ Holds(d, e)
  BY <1>2, <1>3 DEF Holds, Carrying, Active
<1>8. OwnInv'
  BY <1>1, <1>2, <1>7 DEF Inv, OwnInv, Resumed
<1>9. ParkedIsCurrent'
  <2> SUFFICES ASSUME NEW a \in Agents, waiting' = a, Parked(a)',
                      \A d \in Callers : ~Resumed(d, a)'
               PROVE  Current(store[a].frozen)'
    BY DEF ParkedIsCurrent
  <2>1. c # Human /\ waiting = a
    BY RunAssumption DEF Raises, humanVars
  <2>2. \A d \in Callers : ~Resumed(d, a)
    BY <1>2, <2>1 DEF Resumed, Inv, CallInv, PlaceOK
  <2> QED
    BY <1>1, <2>1, <2>2 DEF Inv, ParkedIsCurrent, Parked, Current
<1> QED
  BY <1>1, <1>4, <1>5, <1>6, <1>8, <1>9, SameOperator DEF Inv

LEMMA ExpireStep ==
  ASSUME TypeOK, Inv, NEW r \in Requests, Expire(r)
  PROVE  TypeOK' /\ Inv'
<1>1. TypeOK'
  BY DEF Expire, TypeOK, humanVars, historyVars
<1>2. UNCHANGED <<registry, store, saved, operating, call, waiting>>
  BY DEF Expire, humanVars
<1> QED
  BY <1>1, <1>2, SameInv, SameOperator DEF Inv

(* The operator reads a record, and touches nothing. *)
LEMMA OperateStep ==
  ASSUME TypeOK, Inv, NEW e \in DOMAIN saved, CancelInstance(e) \/ RetryInstance(e)
  PROVE  TypeOK' /\ Inv'
<1>1. PICK status \in {"running", "cancelled"} :
        /\ Operate(e, status)
        /\ status = "running" => saved[e].status = "failed"
  BY DEF CancelInstance, RetryInstance
<1>2. UNCHANGED <<registry, store, saved, requests, expired, call, waiting, shown, ingests,
                  ran, answered>>
  BY <1>1 DEF Operate, requestVars, humanVars, historyVars
<1>3. saved[e] \in Instance /\ saved[e].id = e
  <2>1. saved[e] # NoInstance /\ saved[e] \in Instance \cup {NoInstance}
    BY <1>1, SavedDomain DEF Operate, Execution
  <2> QED
    BY <2>1, InstanceFacts DEF TypeOK
<1>4. /\ operating' \in Instance /\ operating'.id = e /\ operating'.status = status
  BY <1>1, <1>3 DEF Operate, Instance, Statuses, Terminal
<1>5. TypeOK'
  BY <1>2, <1>4 DEF TypeOK
<1>6. OperatorInv'
  BY <1>1, <1>2, <1>4 DEF OperatorInv, Known
<1> QED
  BY <1>2, <1>5, <1>6, SameInv DEF Inv

(* It saves what it read, with another status.  What was current stays current:
   the record is cancelled, or it read "failed", as none does whose instance
   waits or runs. *)
LEMMA SaveOperationStep ==
  ASSUME TypeOK, Inv, SaveOperation
  PROVE  TypeOK' /\ Inv'
<1> DEFINE i == operating
           e == operating.id
<1>1. /\ i \in Instance /\ Known(i) /\ SaveInstance(i)
      /\ \/ i.status = "cancelled"
         \/ i.status = "running" /\ saved[e].status = "failed"
  BY DEF SaveOperation, TypeOK, Inv, OperatorInv
<1>2. UNCHANGED <<registry, store, requests, expired, call, waiting, shown, ingests, ran,
                  answered>> /\ operating' = NoInstance
  BY DEF SaveOperation, requestVars, humanVars, historyVars
<1> HIDE DEF i
<1>3. /\ saved' \in Seq(Execution) /\ DOMAIN saved' = DOMAIN saved /\ saved'[i.id] = i
      /\ \A f \in DOMAIN saved : f # i.id => saved'[f] = saved[f]
      /\ \A f \in DOMAIN saved' : saved'[f].id \in {0, f}
  BY <1>1, SaveFacts
<1>4. saved'[e] = i /\ \A f \in DOMAIN saved : f # e => saved'[f] = saved[f]
  BY <1>3 DEF i
<1>5. TypeOK'
  BY <1>2, <1>3 DEF TypeOK, Execution
<1>6. \A j : /\ j.id \in DOMAIN saved /\ Current(j) /\ j.status # "failed"
             => Current(j)'
  BY <1>1, <1>4 DEF Current
<1>7. \A j : Known(j)' <=> Known(j)
  BY <1>3 DEF Known
<1>8. ASSUME NEW state \in AgentState, Coherent(state), state.frozen # NoInstance,
             Known(state.frozen), Current(state.frozen)
      PROVE  Current(state.frozen)'
  <2>1. state.frozen.status # "failed"
    BY <1>8 DEF Coherent, Behind, AgentState
  <2> QED
    BY <1>6, <1>8, <2>1 DEF Known
<1>9. CallInv'
  <2> SUFFICES ASSUME NEW d \in Callers
               PROVE  PlaceOK(d)' /\ CopyOK(d)' /\ FreshOK(d)'
    BY DEF CallInv
  <2>1. PlaceOK(d) /\ CopyOK(d) /\ FreshOK(d) /\ call[d].state \in AgentState
    BY DEF Inv, CallInv, TypeOK, Call
  <2>2. PlaceOK(d)'
    BY <1>2, <1>7, <2>1 DEF PlaceOK, Active, Behind, Def
  <2>3. CopyOK(d)'
    BY <1>2, <1>7, <2>1 DEF CopyOK, Coherent, Behind, Def
  <2>4. /\ call[d].pc = "loop"
        /\ saved'[call[d].instance.id].status = "failed"
        => call[d].instance.status = "failed"
    BY <1>1, <1>4, <2>1 DEF FreshOK, PlaceOK, Known
  <2>5. \A j : call[d].pc = "doing" /\ j = call[d].instance => Current(j)'
    BY <1>6, <2>1 DEF PlaceOK, FreshOK, Known, Behind
  <2>6. \A j : j = call[d].state.frozen /\ j # NoInstance /\ Current(j) => Current(j)'
    BY <1>8, <2>1 DEF CopyOK
  <2>7. FreshOK(d)'
    BY <1>2, <2>1, <2>4, <2>5, <2>6 DEF FreshOK, Current
  <2> QED
    BY <2>2, <2>3, <2>7
<1>10. StoreInv'
  BY <1>2, <1>7 DEF Inv, StoreInv, Coherent, Behind, Def
<1>11. OwnInv'
  BY <1>2, <1>3 DEF Inv, OwnInv, Holds, Carrying, Active, Resumed
<1>12. OperatorInv'
  BY <1>2 DEF OperatorInv
<1>13. ParkedIsCurrent'
  <2> SUFFICES ASSUME NEW a \in Agents, waiting' = a, Parked(a)',
                      \A d \in Callers : ~Resumed(d, a)'
               PROVE  Current(store[a].frozen)'
    BY DEF ParkedIsCurrent
  <2>1. waiting = a /\ Parked(a) /\ \A d \in Callers : ~Resumed(d, a)
    BY <1>2 DEF Parked, Resumed
  <2>2. /\ store[a] \in AgentState /\ Coherent(store[a]) /\ Known(store[a].frozen)
        /\ Current(store[a].frozen) /\ store[a].frozen # NoInstance
    BY <2>1 DEF TypeOK, Inv, StoreInv, ParkedIsCurrent, Parked
  <2>3. \A j : j = store[a].frozen => Current(j)'
    BY <1>8, <2>2
  <2> QED
    BY <1>2, <2>2, <2>3 DEF Current
<1> QED
  BY <1>5, <1>9, <1>10, <1>11, <1>12, <1>13 DEF Inv

------------------------------------------------------------------------------
(* The theorems. *)

LEMMA InitInv == Init => TypeOK /\ Inv
<1> SUFFICES ASSUME Init PROVE TypeOK /\ Inv
  OBVIOUS
<1>1. /\ \A a \in Agents : store[a] = NewState("absent")
      /\ \A c \in Callers : call[c] = Idle /\ call[c].pc = "idle" /\ ~call[c].resumed
                            /\ call[c].state = NewState("absent")
      /\ DOMAIN saved = {}
  BY DEF Init, Idle
<1>2. /\ NewState("absent") \in AgentState /\ Coherent(NewState("absent"))
      /\ NewState("absent").frozen = NoInstance /\ NewState("absent").life = "absent"
  BY NewStateCoherent
<1>3. TypeOK
  <2>1. saved \in Seq(Instance \cup {NoInstance})
    BY EmptySeq DEF Init
  <2> QED
    BY <1>1, <1>2, <2>1, IdleType, RunAssumption DEF Init, TypeOK, Prompts
<1>4. CallInv
  BY <1>1, <1>2 DEF CallInv, PlaceOK, CopyOK, FreshOK, Active
<1>5. StoreInv /\ ParkedIsCurrent
  BY <1>1, <1>2 DEF StoreInv, ParkedIsCurrent, Parked
<1>6. OwnInv /\ OperatorInv
  BY <1>1, <1>2 DEF OwnInv, OperatorInv, Init
<1> QED
  BY <1>3, <1>4, <1>5, <1>6 DEF Inv

(* All a caller does between its message and the save keeps to this. *)
LEMMA CallMoves ==
  ASSUME TypeOK, Inv, NEW c \in Callers, CallStep(c), ~Save(c)
  PROVE  TypeOK' /\ Moves(c)
BY ConverseStep, ConfirmStep, CouncilStep, StartWorkflowStep, AnswerStep,
   RefuseStep, TimedOutStep, ToolResultStep, FinishStep, BrokenStep, BranchStep,
   BeginStep, SucceedStep, FailStepStep, DispatchStep, AskStep, StartSubStep,
   LoopLimitStep
   DEF CallStep, Inv

(* Until it saves, the screen stays as it is. *)
LEMMA CallKeepsScreen ==
  ASSUME NEW c \in Callers, CallStep(c), ~Save(c)
  PROVE  UNCHANGED <<waiting, shown>>
BY DEF CallStep, Converse, Confirm, Council, StartWorkflow, Answer, Refuse, TimedOut,
   ToolResult, Finish, Broken, Branch, Begin, Begun, Succeed, FailStep, Dispatch, Ask,
   StartSub, LoopLimit, LoopUnchanged, humanVars

LEMMA NextInv == TypeOK /\ Inv /\ [Next]_vars => TypeOK' /\ Inv'
<1> SUFFICES ASSUME TypeOK, Inv, [Next]_vars PROVE TypeOK' /\ Inv'
  OBVIOUS
<1>1. ASSUME NEW c \in Callers, CallStep(c)
      PROVE  TypeOK' /\ Inv'
  <2>1. CASE Save(c)
    BY <2>1, SaveStep
  <2>2. CASE ~Save(c)
    BY <1>1, <2>2, CallMoves, CallKeepsScreen, MoveKeeps DEF Inv
  <2> QED
    BY <2>1, <2>2
<1>2. ASSUME NEW c \in Callers, Ingest(c) \/ Resume(c) \/ Raises(c)
      PROVE  TypeOK' /\ Inv'
  BY <1>2, IngestStep, ResumeStep, RaisesStep
<1>3. CASE UNCHANGED vars
  <2>1. TypeOK'
    BY <1>3 DEF vars, TypeOK, requestVars, humanVars, historyVars
  <2>2. Inv'
    BY <1>3, SameInv, SameOperator DEF vars, humanVars, Inv
  <2> QED
    BY <2>1, <2>2
<1> QED
  BY <1>1, <1>2, <1>3, ExpireStep, OperateStep, SaveOperationStep DEF Next

(* The inductive invariant holds in every reachable state. *)
THEOREM Invariance == Spec => []IndInv
<1>1. Init => IndInv
  BY InitInv DEF IndInv, Inv
<1>2. IndInv /\ [Next]_vars => IndInv'
  BY NextInv DEF IndInv, Inv
<1> QED
  BY <1>1, <1>2, PTL DEF Spec

(* Stores, requests and calls always hold well-formed values. *)
THEOREM TypesCorrect == Spec => []TypeOK
<1>1. IndInv => TypeOK
  BY DEF IndInv
<1> QED
  BY <1>1, Invariance, PTL

(* An agent that waits can always go on, right behind the step it stopped at. *)
THEOREM WaitsAreCoherent == Spec => []WaitIsCoherent
<1>1. IndInv => WaitIsCoherent
  BY DEF IndInv, StoreInv, WaitIsCoherent
<1> QED
  BY <1>1, Invariance, PTL

(* What the command line will resume is never behind the workflow store, whatever
   call raised before. *)
THEOREM ParkedAreCurrent == Spec => []ParkedIsCurrent
<1>1. IndInv => ParkedIsCurrent
  BY DEF IndInv
<1> QED
  BY <1>1, Invariance, PTL

(* No execution is ever in two hands. *)
THEOREM OneOwnerEach == Spec => []OneOwner
<1>1. IndInv => OneOwner
  BY DEF IndInv, OwnInv, OneOwner, Parked, Holds
<1> QED
  BY <1>1, Invariance, PTL

------------------------------------------------------------------------------
(* A call runs down. *)

LEMMA CallStepsDown ==
  ASSUME TypeOK, NEW c \in Callers, CallStep(c)
  PROVE  StepsLeft(c)' < StepsLeft(c)
<1>1. /\ call \in [Callers -> Call] /\ call[c].iteration \in 0 .. MaxIterations
      /\ MaxIterations \in Nat
  BY RunAssumption DEF TypeOK, Call
<1> DEFINE rounds == MaxIterations - call[c].iteration
<1>2. rounds \in Nat
  BY <1>1
<1>3. ASSUME call[c].pc \in {"route", "loop", "doing"}, \E state : Keep(c, state)
      PROVE  StepsLeft(c)' < StepsLeft(c)
  <2>1. call'[c].pc = "save"
    BY <1>1, <1>3 DEF Keep, Call
  <2> QED
    BY <1>2, <1>3, <2>1 DEF StepsLeft
<1>4. ASSUME call[c].pc \in {"route", "doing"}, \E i : RunLoop(c, i)
      PROVE  StepsLeft(c)' < StepsLeft(c)
  <2>1. call'[c].pc = "loop" /\ call'[c].iteration = call[c].iteration
    BY <1>1, <1>4 DEF RunLoop, Call
  <2> QED
    BY <1>2, <1>4, <2>1 DEF StepsLeft
<1>5. CASE Branch(c) \/ Begin(c)
  <2>1. /\ call[c].pc = "loop" /\ call'[c].pc \in {"loop", "doing"}
        /\ call'[c].iteration = call[c].iteration + 1
    <3>1. CASE Branch(c)
      <4>1. PICK i : Moved(c, i)
        BY <3>1 DEF Branch
      <4> QED
        BY <1>1, <3>1, <4>1 DEF Branch, Moved, InLoop, Call
    <3>2. CASE Begin(c)
      <4>1. PICK i : Begun(c, i)
        BY <3>2 DEF Begin
      <4> QED
        BY <1>1, <4>1 DEF Begun, InLoop, Call
    <3> QED
      BY <1>5, <3>1, <3>2
  <2> QED
    BY <1>1, <1>2, <2>1 DEF StepsLeft
<1>6. CASE Save(c)
  <2>1. call[c].pc = "save" /\ call'[c].pc \in {"idle", "crashed"}
    BY <1>1, <1>6 DEF Save, Idle
  <2> QED
    BY <2>1 DEF StepsLeft
<1>7. CASE \/ Converse(c) \/ Confirm(c) \/ Council(c) \/ Refuse(c) \/ Finish(c)
           \/ Broken(c) \/ Dispatch(c) \/ Ask(c) \/ LoopLimit(c)
  BY <1>3, <1>7 DEF Converse, Confirm, Council, Refuse, Answering, Routed, Finish, Broken,
     InLoop, Dispatch, Ask, Doing, LoopLimit
<1>8. CASE \/ Answer(c) \/ TimedOut(c) \/ ToolResult(c) \/ Succeed(c) \/ FailStep(c)
           \/ StartSub(c)
  BY <1>4, <1>8 DEF Answer, TimedOut, ToolResult, Answering, Routed, Succeed, FailStep,
     MayFail, StartSub, Recorded, Doing
<1>9. CASE StartWorkflow(c)
  BY <1>3, <1>4, <1>9 DEF StartWorkflow, Routed
<1> QED
  BY <1>5, <1>6, <1>7, <1>8, <1>9 DEF CallStep

(* One that raises has none left. *)
LEMMA RaisesDown ==
  ASSUME TypeOK, NEW c \in Callers, Raises(c)
  PROVE  StepsLeft(c)' < StepsLeft(c)
<1>1. call'[c].pc = "idle"
  BY DEF Raises, TypeOK, Idle
<1>2. /\ call[c].pc \in {"route", "loop", "doing", "save"}
      /\ call[c].iteration \in 0 .. MaxIterations /\ MaxIterations \in Nat
  BY RunAssumption DEF Raises, TypeOK, Active, Call
<1> QED
  BY <1>1, <1>2 DEF StepsLeft

(* A caller's step changes no call but its own. *)
LEMMA OwnCallOnly ==
  ASSUME TypeOK, Inv, NEW c \in Callers,
         Ingest(c) \/ Resume(c) \/ CallStep(c) \/ Raises(c)
  PROVE  Others(c)
<1>1. CASE Ingest(c) \/ Resume(c) \/ Save(c) \/ Raises(c)
  BY <1>1 DEF Ingest, Resume, Save, Raises, TypeOK, Others
<1>2. CASE CallStep(c) /\ ~Save(c)
  BY <1>2, CallMoves DEF Moves
<1> QED
  BY <1>1, <1>2

(* Every call is over after a bounded number of its own steps, however the edges of
   its workflow loop and whatever runs beside it. *)
THEOREM CallsAreBounded == Spec => CallsRunDown
<1> DEFINE Down == \A c \in Callers : Active(c) /\ call'[c] # call[c] =>
                     StepsLeft(c)' < StepsLeft(c)
<1>1. IndInv /\ [Next]_vars => [Down]_vars
  <2> SUFFICES ASSUME IndInv, Next, NEW c \in Callers, Active(c), call'[c] # call[c]
               PROVE  StepsLeft(c)' < StepsLeft(c)
    OBVIOUS
  <2>1. TypeOK /\ Inv
    BY DEF IndInv, Inv
  <2>2. CASE \E d \in Callers : Ingest(d) \/ Resume(d) \/ CallStep(d) \/ Raises(d)
    <3>1. PICK d \in Callers : Ingest(d) \/ Resume(d) \/ CallStep(d) \/ Raises(d)
      BY <2>2
    <3>2. d = c
      BY <2>1, <3>1, OwnCallOnly DEF Others
    <3> QED
      BY <2>1, <3>1, <3>2, CallStepsDown, RaisesDown DEF Ingest, Resume, Active
  <2>3. CASE UNCHANGED call
    BY <2>3
  <2> QED
    BY <2>2, <2>3 DEF Next, Expire, CancelInstance, RetryInstance, Operate, SaveOperation
<1> QED
  BY <1>1, Invariance, PTL DEF Spec, CallsRunDown
=============================================================================
