------------------------ MODULE WorkflowRequests_proofs ------------------------
(***************************************************************************)
(* Proofs about WorkflowRun's interaction requests: an agent that only the *)
(* person talks to can be answered whenever the command line waits for it  *)
(* and it waits for input, and takes an answer only to the prompt on the   *)
(* screen, for any agents, workflows and registry, whatever raises, and    *)
(* whatever the other callers and the operator do.  The workflows may be   *)
(* shared, and so may be the requests of their steps.                      *)
(***************************************************************************)
EXTENDS WorkflowRun_proofs

(* Only a call that resumed holds an instance while its line is routed: the
   other callers answer nothing, and let no request time out. *)
LEMMA OnlyPersonAnswers ==
  ASSUME TypeOK, Inv, NEW c \in Callers, Answering(c)
  PROVE  c = Human /\ call[c].resumed
BY AnsweringFacts DEF Inv, CallInv, CopyOK, PlaceOK

(* What a caller's step does to the shared state the person's requests are
   about, until it saves. *)
LEMMA CallFrame ==
  ASSUME TypeOK, NEW c \in Callers, CallStep(c), ~Save(c)
  PROVE  /\ UNCHANGED <<waiting, shown>>
         /\ answered' = answered \/ Answer(c)
         /\ requests \subseteq requests' \/ Answering(c)
         /\ call'[c].pc # "route"
<1>1. UNCHANGED <<waiting, shown>>
  BY CallKeepsScreen
<1>2. answered' = answered \/ Answer(c)
  BY DEF CallStep, Converse, Confirm, Council, StartWorkflow, Answer, Refuse, TimedOut,
     ToolResult, Finish, Broken, Branch, Begin, Begun, Succeed, FailStep, Dispatch, Ask,
     StartSub, LoopLimit, LoopUnchanged, historyVars
<1>3. requests \subseteq requests' \/ Answering(c)
  BY DEF CallStep, Converse, Confirm, Council, StartWorkflow, Answer, Refuse, TimedOut,
     ToolResult, Finish, Broken, Branch, Begin, Begun, Succeed, FailStep, Dispatch, Ask,
     StartSub, LoopLimit, requestVars
<1>4. call'[c].pc # "route"
  <2>1. DOMAIN call = Callers /\ call[c] \in Call
    BY DEF TypeOK
  <2>2. (\E state : Keep(c, state)) \/ (\E i : RunLoop(c, i)) => call'[c].pc # "route"
    BY <2>1 DEF Keep, RunLoop, Call
  <2>3. Branch(c) => call'[c].pc # "route"
    BY <2>1 DEF Branch, Moved, InLoop, Call
  <2>4. Begin(c) => call'[c].pc # "route"
    BY <2>1 DEF Begin, Begun, Call
  <2>5. CASE Converse(c) \/ Confirm(c) \/ Council(c) \/ Refuse(c) \/ Finish(c) \/ Broken(c)
             \/ Dispatch(c) \/ Ask(c) \/ LoopLimit(c)
    <3>1. \E state : Keep(c, state)
      BY <2>5 DEF Converse, Confirm, Council, Refuse, Finish, Broken, Dispatch, Ask, LoopLimit
    <3> QED
      BY <2>2, <3>1
  <2>6. CASE Answer(c) \/ TimedOut(c) \/ ToolResult(c) \/ Succeed(c) \/ FailStep(c)
             \/ StartSub(c)
    <3>1. \E i : RunLoop(c, i)
      BY <2>6 DEF Answer, TimedOut, ToolResult, Succeed, FailStep, StartSub, Recorded
    <3> QED
      BY <2>2, <3>1
  <2>7. CASE StartWorkflow(c)
    BY <2>2, <2>7 DEF StartWorkflow
  <2> QED
    BY <2>3, <2>4, <2>5, <2>6, <2>7 DEF CallStep
<1> QED
  BY <1>1, <1>2, <1>3, <1>4

(* An agent that only the person talks to: no other caller has it in hand. *)
LEMMA AloneIsApart ==
  ASSUME AddressInv, NEW a \in Agents, Alone(a), NEW c \in Callers \ {Human}, Active(c)
  PROVE  call[c].agent # a
BY DEF AddressInv, Alone

------------------------------------------------------------------------------
(* A step of somebody else: it may touch the agents others talk to, and add
   requests, but takes none away and leaves the screen alone. *)
LEMMA ElsewhereKeeps ==
  ASSUME PersonInv, UNCHANGED <<waiting, shown, answered>>, requests \subseteq requests',
         \A a \in Agents : Alone(a) => store'[a] = store[a],
         call'[Human] = call[Human],
         \A c \in Callers \ {Human} :
           \/ Active(c)' => call'[c].agent \in Reach[c]
           \/ call'[c] = call[c],
         waiting # "none" => waiting \in Agents
  PROVE  PersonInv'
<1>1. AddressInv'
  BY DEF PersonInv, AddressInv, Active
<1>2. ScreenInv'
  BY DEF PersonInv, ScreenInv, Active, Prompt
<1>3. PendingInv'
  BY DEF PersonInv, PendingInv, Active
<1>4. RequestForEveryWait'
  <2> SUFFICES ASSUME NEW a \in Agents, waiting = a, Alone(a), AtRest(a)', Parked(a)',
                      store'[a].waitingFor = "user_input"
               PROVE  store'[a].request \in requests'
    BY DEF RequestForEveryWait
  <2>1. AtRest(a)
    <3> SUFFICES ASSUME NEW c \in Callers, Active(c), call[c].agent = a PROVE FALSE
      BY DEF AtRest, Active
    <3>1. CASE c = Human
      BY <3>1 DEF AtRest, Active
    <3>2. CASE c # Human
      BY <3>2, AloneIsApart DEF PersonInv
    <3> QED
      BY <3>1, <3>2
  <2> QED
    BY <2>1 DEF PersonInv, RequestForEveryWait, Parked
<1>5. AnswersMatchPrompt'
  BY DEF PersonInv, AnswersMatchPrompt
<1> QED
  BY <1>1, <1>2, <1>3, <1>4, <1>5 DEF PersonInv

(* The steps of the other callers. *)
LEMMA OthersKeep ==
  ASSUME TypeOK, Inv, PersonInv, NEW c \in Callers \ {Human},
         Ingest(c) \/ Resume(c) \/ CallStep(c) \/ Raises(c)
  PROVE  PersonInv'
<1>0. /\ c \in Callers /\ c # Human /\ Human \in Callers
      /\ waiting # "none" => waiting \in Agents
  BY RunAssumption DEF TypeOK
<1>1. CASE Ingest(c)
  <2>1. PICK a \in Reach[c], l \in Lines :
          /\ store' = [store EXCEPT ![a] = NewState("activated")]
          /\ call' = [call EXCEPT ![c] = [Idle EXCEPT
               !.pc = "route", !.agent = a, !.line = l,
               !.state = NewState("activated")]]
    BY <1>1 DEF Ingest
  <2>2. /\ \A d \in Callers : d # c => call'[d] = call[d]
        /\ call'[c].agent \in Reach[c]
    BY <1>0, <2>1 DEF TypeOK, Idle
  <2>3. \A b \in Agents : Alone(b) => store'[b] = store[b]
    BY <1>0, <2>1 DEF Alone, TypeOK
  <2>4. UNCHANGED <<waiting, shown, answered, requests>>
    BY <1>1 DEF Ingest, humanVars, historyVars, requestVars
  <2> QED
    BY <1>0, <2>2, <2>3, <2>4, ElsewhereKeeps
<1>2. CASE Resume(c)
  BY <1>0, <1>2 DEF Resume
<1>3. CASE Save(c)
  <2>1. /\ Active(c) /\ call[c].agent \in Reach[c]
        /\ store' = [store EXCEPT ![call[c].agent] = call[c].state]
    BY <1>0, <1>3 DEF Save, Active, PersonInv, AddressInv
  <2>2. \A b \in Agents : Alone(b) => store'[b] = store[b]
    BY <1>0, <2>1 DEF Alone, TypeOK
  <2>3. /\ \A d \in Callers : d # c => call'[d] = call[d]
        /\ ~Active(c)'
    BY <1>0, <1>3 DEF Save, TypeOK, Active, Idle
  <2>4. UNCHANGED <<waiting, shown, answered, requests>>
    BY <1>0, <1>3 DEF Save, humanVars, historyVars, requestVars
  <2> QED
    BY <1>0, <2>2, <2>3, <2>4, ElsewhereKeeps
<1>4. CASE CallStep(c) /\ ~Save(c)
  <2>1. Moves(c)
    BY <1>0, <1>4, CallMoves
  <2>2. ~Answering(c)
    BY <1>0, OnlyPersonAnswers
  <2>3. UNCHANGED <<waiting, shown, answered>> /\ requests \subseteq requests'
    BY <1>0, <1>4, <2>2, CallFrame DEF Answer
  <2>4. /\ \A d \in Callers : d # c => call'[d] = call[d]
        /\ call'[c].agent \in Reach[c]
    BY <1>0, <2>1 DEF Moves, Others, SameErrand, PersonInv, AddressInv
  <2> QED
    BY <1>0, <2>1, <2>3, <2>4, ElsewhereKeeps DEF Moves
<1>5. CASE Raises(c)
  <2>1. /\ \A d \in Callers : d # c => call'[d] = call[d]
        /\ ~Active(c)'
    BY <1>0, <1>5 DEF Raises, TypeOK, Active, Idle
  <2>2. UNCHANGED <<store, waiting, shown, answered, requests>>
    BY <1>0, <1>5 DEF Raises, humanVars, historyVars, requestVars
  <2> QED
    BY <1>0, <2>1, <2>2, ElsewhereKeeps
<1> QED
  BY <1>1, <1>2, <1>3, <1>4, <1>5

(* The clock's steps and the operator's. *)
LEMMA OutsideKeeps ==
  ASSUME TypeOK, PersonInv, UNCHANGED <<store, call, waiting, shown, requests, answered>>
  PROVE  PersonInv'
<1>1. waiting # "none" => waiting \in Agents
  BY DEF TypeOK
<1> QED
  BY <1>1, ElsewhereKeeps

------------------------------------------------------------------------------
(* The person's own steps. *)

(* A message is typed only when the command line waits for no agent. *)
LEMMA PersonIngests ==
  ASSUME TypeOK, Inv, PersonInv, Ingest(Human)
  PROVE  PersonInv'
<1>0. Human \in Callers /\ "none" \notin Agents
  BY RunAssumption
<1>1. PICK a \in Reach[Human], l \in Lines :
        /\ store' = [store EXCEPT ![a] = NewState("activated")]
        /\ call' = [call EXCEPT ![Human] = [Idle EXCEPT
             !.pc = "route", !.agent = a, !.line = l,
             !.state = NewState("activated")]]
  BY DEF Ingest
<1>2. /\ waiting = "none" /\ ~Active(Human)
      /\ UNCHANGED <<waiting, shown, answered, requests>>
  BY DEF Ingest, Active, humanVars, historyVars, requestVars
<1>3. /\ \A c \in Callers \ {Human} : call'[c] = call[c]
      /\ call'[Human].pc = "route" /\ ~call'[Human].resumed
      /\ call'[Human].state = NewState("activated")
  BY <1>0, <1>1 DEF TypeOK, Idle
<1>6. AddressInv'
  BY <1>0, <1>2, <1>3 DEF PersonInv, AddressInv, Active
<1>7. ScreenInv'
  BY <1>0, <1>2, <1>3 DEF ScreenInv
<1>8. PendingInv'
  BY <1>3 DEF PendingInv, NewState
<1>9. RequestForEveryWait'
  BY <1>0, <1>2 DEF RequestForEveryWait
<1>10. AnswersMatchPrompt'
  BY <1>2 DEF PersonInv, AnswersMatchPrompt
<1> QED
  BY <1>6, <1>7, <1>8, <1>9, <1>10 DEF PersonInv

(* A call that resumes takes the state the screen shows, and the request it
   waits for is still pending: the agent was at rest until then. *)
LEMMA PersonResumes ==
  ASSUME TypeOK, Inv, PersonInv, Resume(Human)
  PROVE  PersonInv'
<1>0. Human \in Callers /\ "none" \notin Agents
  BY RunAssumption
<1>1. /\ ~Active(Human) /\ waiting # "none" /\ waiting \in Agents
      /\ UNCHANGED <<store, requests, answered>>
  BY DEF Resume, Active, TypeOK, historyVars, requestVars
<1>2. AnswersMatchPrompt'
  BY <1>1 DEF PersonInv, AnswersMatchPrompt
<1>3. CASE store[waiting].life # "waiting"
  <2>1. UNCHANGED call /\ waiting' = "none"
    BY <1>3 DEF Resume
  <2>2. AddressInv' /\ PendingInv' /\ RequestForEveryWait'
    BY <1>0, <1>1, <2>1 DEF PersonInv, AddressInv, PendingInv, RequestForEveryWait, Active, AtRest,
       Parked
  <2>3. ScreenInv'
    BY <1>0, <1>1, <1>3, <2>1 DEF PersonInv, ScreenInv, Active
  <2> QED
    BY <1>2, <2>2, <2>3 DEF PersonInv
<1>4. CASE store[waiting].life = "waiting"
  <2>1. PICK l \in Lines :
          call' = [call EXCEPT ![Human] = [Idle EXCEPT
            !.pc = "route", !.agent = waiting, !.resumed = TRUE,
            !.line = l, !.state = store[waiting]]]
    BY <1>4 DEF Resume
  <2>2. UNCHANGED <<waiting, shown>>
    BY <1>4 DEF Resume, humanVars
  <2>3. /\ \A c \in Callers \ {Human} : call'[c] = call[c]
        /\ call'[Human].pc = "route" /\ call'[Human].resumed
        /\ call'[Human].agent = waiting /\ call'[Human].state = store[waiting]
    BY <1>0, <2>1 DEF TypeOK, Idle
  <2>4. AddressInv'
    BY <2>2, <2>3 DEF PersonInv, AddressInv, Active
  <2>5. ScreenInv'
    BY <1>1, <1>4, <2>2, <2>3 DEF PersonInv, ScreenInv, Active, Prompt
  <2>6. PendingInv'
    <3> SUFFICES ASSUME Alone(waiting), store[waiting].waitingFor = "user_input"
                 PROVE  store[waiting].request \in requests
      BY <1>1, <2>3 DEF PendingInv
    <3>1. AtRest(waiting)
      BY <1>1, AloneIsApart DEF PersonInv, AtRest, Active
    <3>2. Parked(waiting)
      BY <1>1, <1>4 DEF Parked, Inv, StoreInv, Coherent
    <3> QED
      BY <1>1, <3>1, <3>2 DEF PersonInv, RequestForEveryWait
  <2>7. RequestForEveryWait'
    <3> SUFFICES ASSUME NEW a \in Agents, waiting = a, AtRest(a)' PROVE FALSE
      BY <2>2 DEF RequestForEveryWait
    <3> QED
      BY <1>0, <2>3 DEF AtRest
  <2> QED
    BY <1>2, <2>4, <2>5, <2>6, <2>7 DEF PersonInv
<1> QED
  BY <1>3, <1>4

(* What a call of the person's goes on to save as waiting for input has its
   request: it was there already, or has just been made. *)
LEMMA PersonPending ==
  ASSUME TypeOK, Inv, PersonInv, CallStep(Human), ~Save(Human)
  PROVE  PendingInv'
<1>0. Human \in Callers
  BY RunAssumption
<1>1. Moves(Human) /\ call'[Human].pc # "route"
  BY <1>0, CallMoves, CallFrame
<1> DEFINE Waits == /\ call'[Human].pc = "save" /\ call'[Human].state.life = "waiting"
                    /\ call'[Human].state.waitingFor = "user_input"
<1> SUFFICES ASSUME Waits, Alone(call[Human].agent)
             PROVE  call'[Human].state.request \in requests'
  BY <1>1 DEF PendingInv, Moves, SameErrand
<1>2. call \in [Callers -> Call] /\ call[Human].state \in AgentState
  BY <1>0 DEF TypeOK, Call
<1> DEFINE before == call[Human].state
           after == call'[Human].state
<1>a. \A x : Keep(Human, x) => after = x
  BY <1>0, <1>2 DEF Keep, Call
<1>3. CASE Converse(Human) \/ Refuse(Human)
  <2>1. call[Human].pc = "route" /\ Active(Human) /\ UNCHANGED requests
    BY <1>3 DEF Converse, Refuse, Answering, Routed, Active, requestVars
  <2>2. after.request = before.request /\ after.waitingFor = before.waitingFor
    <3>1. Converse(Human) =>
            \/ after = [before EXCEPT !.life = "completed", !.replied = TRUE]
            \/ after = [before EXCEPT !.life = "waiting", !.calls = TRUE, !.replied = TRUE]
      BY <1>a DEF Converse
    <3>2. Refuse(Human) => after = [before EXCEPT !.life = "waiting"]
      BY <1>a DEF Refuse
    <3> QED
      BY <1>2, <1>3, <3>1, <3>2 DEF AgentState
  <2> QED
    BY <2>1, <2>2 DEF PersonInv, PendingInv
<1>4. CASE Ask(Human)
  <2> DEFINE r == <<call[Human].instance.workflow, call[Human].step>>
  <2>1. call'[Human].state.request = r /\ r \in requests'
    BY <1>0, <1>2, <1>4 DEF Ask, Keep, Call, AgentState
  <2> QED
    BY <2>1
<1>5. CASE Dispatch(Human)
  <2>1. after = [before EXCEPT !.life = "waiting", !.frozen = call[Human].instance,
                               !.waitingFor = "tool_result"]
    BY <1>a, <1>5 DEF Dispatch
  <2> QED
    BY <1>2, <2>1 DEF AgentState
<1>6. CASE Confirm(Human) \/ Council(Human)
  <2>1. Confirm(Human) =>
          after = [before EXCEPT !.life = "activated", !.calls = FALSE, !.replied = TRUE]
    BY <1>a DEF Confirm
  <2>2. Council(Human) =>
          \E life \in {"completed", "failed"}, reply \in BOOLEAN :
            after = [before EXCEPT !.life = life, !.replied = @ \/ reply]
    BY <1>a DEF Council
  <2> QED
    BY <1>2, <1>6, <2>1, <2>2 DEF AgentState
<1>7. CASE Finish(Human) \/ Broken(Human) \/ LoopLimit(Human)
  <2>1. PICK life \in {"completed", "failed"} : after = Finished(before, life)
    BY <1>7, <1>a DEF Finish, Broken, LoopLimit
  <2> QED
    BY <1>2, <2>1 DEF Finished, AgentState
<1>8. CASE StartWorkflow(Human) /\ Target(Human) \notin Workflows
  <2>1. after = [before EXCEPT !.life = "failed"]
    BY <1>a, <1>8 DEF StartWorkflow
  <2> QED
    BY <1>2, <2>1 DEF AgentState
<1>9. CASE \/ StartWorkflow(Human) /\ Target(Human) \in Workflows
           \/ Answer(Human) \/ TimedOut(Human) \/ ToolResult(Human) \/ Succeed(Human)
           \/ FailStep(Human) \/ StartSub(Human)
  <2>1. \E i : RunLoop(Human, i)
    BY <1>9 DEF StartWorkflow, Answer, TimedOut, ToolResult, Succeed, FailStep, StartSub,
       Recorded
  <2>2. ASSUME NEW i, RunLoop(Human, i) PROVE call'[Human].pc = "loop"
    BY <1>0, <1>2, <2>2 DEF RunLoop, Call
  <2> QED
    BY <2>1, <2>2
<1>10. CASE Branch(Human)
  <2>1. PICK i : call' = [call EXCEPT ![Human].instance = i, ![Human].iteration = @ + 1]
    BY <1>10 DEF Branch, Moved
  <2>2. call'[Human].pc = call[Human].pc
    BY <1>0, <1>2, <2>1 DEF Call
  <2> QED
    BY <1>10, <2>2 DEF Branch, InLoop
<1>11. CASE Begin(Human)
  <2>1. PICK i : call' = [call EXCEPT ![Human].pc = "doing", ![Human].instance = i,
                                      ![Human].step = call[Human].instance.at,
                                      ![Human].iteration = @ + 1]
    BY <1>11 DEF Begin, Begun
  <2>2. call'[Human].pc = "doing"
    BY <1>0, <1>2, <2>1 DEF Call
  <2> QED
    BY <2>2
<1> QED
  BY <1>3, <1>4, <1>5, <1>6, <1>7, <1>8, <1>9, <1>10, <1>11 DEF CallStep

(* An answer is taken by a call that resumed, for the prompt it began with. *)
LEMMA PersonAnswers ==
  ASSUME TypeOK, Inv, PersonInv, Answer(Human)
  PROVE  AnswersMatchPrompt'
<1>0. Human \in Callers
  BY RunAssumption
<1> DEFINE r == call[Human].state.request
<1>1. /\ Answering(Human) /\ call[Human].pc = "route"
      /\ answered' = answered \cup {<<call[Human].agent, shown, r>>}
  BY DEF Answer, Answering, Routed
<1>2. call[Human].resumed
  BY <1>0, <1>1, OnlyPersonAnswers
<1>3. Alone(call[Human].agent) => shown = r
  BY <1>1, <1>2 DEF PersonInv, ScreenInv, Prompt, Answering
<1> QED
  BY <1>1, <1>3 DEF PersonInv, AnswersMatchPrompt

LEMMA PersonMoves ==
  ASSUME TypeOK, Inv, PersonInv, CallStep(Human), ~Save(Human)
  PROVE  PersonInv'
<1>0. Human \in Callers /\ "none" \notin Agents
  BY RunAssumption
<1>1. Moves(Human) /\ call'[Human].pc # "route" /\ UNCHANGED <<waiting, shown>>
      /\ (answered' = answered \/ Answer(Human))
  BY <1>0, CallMoves, CallFrame
<1>2. /\ \A c \in Callers \ {Human} : call'[c] = call[c]
      /\ call'[Human].agent = call[Human].agent /\ call'[Human].resumed = call[Human].resumed
      /\ Active(Human) /\ Active(Human)' /\ UNCHANGED store
  BY <1>1 DEF Moves, Others, SameErrand
<1>3. AddressInv'
  BY <1>1, <1>2 DEF PersonInv, AddressInv, Active
<1>4. ScreenInv'
  BY <1>1, <1>2 DEF PersonInv, ScreenInv
<1>5. RequestForEveryWait'
  <2> SUFFICES ASSUME NEW a \in Agents, waiting = a, AtRest(a)' PROVE FALSE
    BY <1>1 DEF RequestForEveryWait
  <2>1. call[Human].agent = a
    BY <1>0, <1>2 DEF PersonInv, AddressInv
  <2> QED
    BY <1>0, <1>2, <2>1 DEF AtRest, Active
<1>6. AnswersMatchPrompt'
  BY <1>1, PersonAnswers DEF PersonInv, AnswersMatchPrompt
<1> QED
  BY <1>3, <1>4, <1>5, <1>6, PersonPending DEF PersonInv

(* The save shows what it saves, and the command line waits for no other agent. *)
LEMMA PersonSaves ==
  ASSUME TypeOK, Inv, PersonInv, Save(Human)
  PROVE  PersonInv'
<1>0. Human \in Callers /\ "none" \notin Agents
  BY RunAssumption
<1> DEFINE a == call[Human].agent
           s == call[Human].state
<1>1. /\ Active(Human) /\ a \in Agents /\ call[Human].pc = "save"
      /\ store' = [store EXCEPT ![a] = s]
      /\ waiting' = IF s.life = "waiting" THEN a ELSE "none"
      /\ shown' = Prompt(s) /\ UNCHANGED <<requests, answered>>
  BY <1>0 DEF Save, Active, Inv, CallInv, PlaceOK, requestVars, historyVars
<1>2. /\ \A c \in Callers \ {Human} : call'[c] = call[c]
      /\ call'[Human].pc \in {"idle", "crashed"}
  BY <1>0 DEF Save, TypeOK, Idle
<1>3. store'[a] = s /\ \A b \in Agents : b # a => store'[b] = store[b]
  BY <1>1 DEF TypeOK
<1> HIDE DEF s, a
<1>5. AddressInv' /\ PendingInv'
  BY <1>2 DEF PersonInv, AddressInv, PendingInv, Active
<1>6. ScreenInv'
  BY <1>0, <1>1, <1>2, <1>3 DEF ScreenInv, Active, Prompt
<1>7. RequestForEveryWait'
  <2> SUFFICES ASSUME NEW b \in Agents, waiting' = b, Alone(b), Parked(b)',
                      store'[b].waitingFor = "user_input"
               PROVE  store'[b].request \in requests'
    BY DEF RequestForEveryWait
  <2>1. b = a /\ s.life = "waiting" /\ s.waitingFor = "user_input"
    BY <1>0, <1>1, <1>3 DEF Parked
  <2> QED
    BY <1>1, <1>3, <2>1 DEF PersonInv, PendingInv, a, s
<1>8. AnswersMatchPrompt'
  BY <1>1 DEF PersonInv, AnswersMatchPrompt
<1> QED
  BY <1>5, <1>6, <1>7, <1>8 DEF PersonInv

(* A call that raises leaves the command line waiting for no agent. *)
LEMMA PersonRaises ==
  ASSUME TypeOK, PersonInv, Raises(Human)
  PROVE  PersonInv'
<1>0. Human \in Callers /\ "none" \notin Agents
  BY RunAssumption
<1>1. /\ \A c \in Callers \ {Human} : call'[c] = call[c]
      /\ call'[Human].pc = "idle" /\ waiting' = "none" /\ answered' = answered
  BY <1>0 DEF Raises, TypeOK, Idle, historyVars
<1>2. AddressInv'
  BY <1>1 DEF PersonInv, AddressInv, Active
<1>3. ScreenInv' /\ PendingInv' /\ RequestForEveryWait'
  BY <1>0, <1>1 DEF ScreenInv, PendingInv, RequestForEveryWait, Active
<1>4. AnswersMatchPrompt'
  BY <1>1 DEF PersonInv, AnswersMatchPrompt
<1> QED
  BY <1>2, <1>3, <1>4 DEF PersonInv

------------------------------------------------------------------------------
(* The theorems. *)

LEMMA PersonInit == Init => PersonInv
<1> SUFFICES ASSUME Init PROVE PersonInv
  OBVIOUS
<1>1. /\ \A c \in Callers : ~Active(c) /\ call[c].pc = "idle"
      /\ \A a \in Agents : store[a].life # "waiting"
  BY NewStateCoherent DEF Init, Active, Idle
<1> QED
  BY <1>1, RunAssumption DEF Init, PersonInv, AddressInv, ScreenInv, PendingInv,
     RequestForEveryWait, Parked, AnswersMatchPrompt

LEMMA PersonNext ==
  ASSUME TypeOK, Inv, PersonInv, [Next]_vars
  PROVE  PersonInv'
<1>1. ASSUME NEW c \in Callers, c # Human,
             Ingest(c) \/ Resume(c) \/ CallStep(c) \/ Raises(c)
      PROVE  PersonInv'
  BY <1>1, OthersKeep
<1>2. ASSUME Ingest(Human) \/ Resume(Human) \/ CallStep(Human) \/ Raises(Human)
      PROVE  PersonInv'
  BY <1>2, PersonIngests, PersonResumes, PersonMoves, PersonSaves, PersonRaises
<1>3. ASSUME NEW r \in Requests, Expire(r)
      PROVE  PersonInv'
  BY <1>3, OutsideKeeps DEF Expire, humanVars, historyVars
<1>4. ASSUME NEW e \in DOMAIN saved, CancelInstance(e) \/ RetryInstance(e)
      PROVE  PersonInv'
  BY <1>4, OutsideKeeps DEF CancelInstance, RetryInstance, Operate, humanVars, historyVars,
     requestVars
<1>5. CASE SaveOperation
  BY <1>5, OutsideKeeps DEF SaveOperation, humanVars, historyVars, requestVars
<1>6. CASE UNCHANGED vars
  BY <1>6, OutsideKeeps DEF vars, humanVars, historyVars, requestVars
<1> QED
  BY <1>1, <1>2, <1>3, <1>4, <1>5, <1>6 DEF Next

(* The command line, the screen and the pending requests always fit together. *)
THEOREM PersonInvariance == Spec => []PersonInv
<1>1. Init => PersonInv
  BY PersonInit
<1>2. IndInv /\ PersonInv /\ [Next]_vars => PersonInv'
  BY PersonNext DEF IndInv, Inv
<1> QED
  BY <1>1, <1>2, Invariance, PTL DEF Spec

(* When the command line will resume an agent that is the person's alone, and that
   waits for input, it can be answered. *)
THEOREM EveryWaitHasRequest == Spec => []RequestForEveryWait
<1>1. PersonInv => RequestForEveryWait
  BY DEF PersonInv
<1> QED
  BY <1>1, PersonInvariance, PTL

(* Such an agent takes an answer only to the prompt the person was looking at. *)
THEOREM AnswersAreToThePrompt == Spec => []AnswersMatchPrompt
<1>1. PersonInv => AnswersMatchPrompt
  BY DEF PersonInv
<1> QED
  BY <1>1, PersonInvariance, PTL
=============================================================================
