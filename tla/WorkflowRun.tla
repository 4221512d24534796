----------------------------- MODULE WorkflowRun -----------------------------
(***************************************************************************)
(* Agents that run workflows and wait for people: the supervisor's agent   *)
(* step, the workflow engine and its loop, the interaction requests, and   *)
(* the gateway's ingest and resume.  Callers are the threads that make     *)
(* those calls: one is a person at the command line, who may resume an     *)
(* agent that waits; the others (chat endpoints, the decomposition pool)   *)
(* only ingest.  An operator may cancel or retry an instance.              *)
(*                                                                         *)
(* All callers share one agent store (by agent id), one workflow store (by *)
(* execution id) and one table of requests (by workflow and step).  The    *)
(* agent's and the engine's states are immutable values: a call loads or   *)
(* makes one, works on its own copy, and saves it at the end.  So one      *)
(* action is one access to something shared, with the work before it.      *)
(*                                                                         *)
(* A few definitions are preceded by a faulty variant of themselves, a     *)
(* mistake one could make in that code; nothing uses them (README).        *)
(***************************************************************************)
EXTENDS Naturals, Sequences

CONSTANTS Agents, Callers,
          Human,         \* the caller at the command line
          Reach,         \* the agents each caller addresses
          Workflows, Steps,
          Registries,    \* what the workflow registry may hold
          OwnWorkflow,   \* the workflow "/workflow" means for each agent
          Named,         \* the workflows a "/workflow <id>" line may name
          MaxIterations, \* _WF_MAX_ITERATIONS
          Operations,    \* what the operator may do
          MaxIngests     \* bound: messages ingested in a behaviour

End == "__end__"
Absent == "absent"
Unregistered == "unregistered"
StepTypes == {"llm_call", "tool_execute", "council_deliberate", "sub_workflow",
              "user_input", "condition", "broken"}

(* ok and fail are on_success (END when absent) and on_failure; verdicts are
   the answers, one at least, the step's schema may give to a line of text;
   timed steps have a timeout.  A broken step names a pattern, a council or
   nothing at all that does not exist. *)
Definition == [start : Steps, type : [Steps -> StepTypes],
               ok : [Steps -> Steps \cup {End}],
               fail : [Steps -> Steps \cup {End, Absent}],
               sub : [Steps -> Workflows \cup {Unregistered}],
               verdicts : [Steps -> (SUBSET BOOLEAN) \ {{}}],
               timed : SUBSET Steps]

Lines == {"plain", "yes", "council", "workflow"} \cup Named

ASSUME RunAssumption ==
  /\ Human \in Callers
  /\ Reach \in [Callers -> SUBSET Agents]
  /\ Registries \subseteq [Workflows -> Definition]
  /\ OwnWorkflow \in [Agents -> Workflows \cup {Unregistered}]
  /\ Named \subseteq Workflows \cup {Unregistered}
  /\ MaxIterations \in Nat \ {0}
  /\ MaxIngests \in Nat
  /\ Operations \subseteq {"cancel", "retry"}
  /\ {End, Absent} \cap Steps = {} /\ Unregistered \notin Workflows
  /\ {"plain", "yes", "council", "workflow"} \cap (Workflows \cup {Unregistered}) = {}
  /\ "none" \notin Workflows \cup Agents \cup Steps

VARIABLES
  registry, \* the workflow definitions, by id
  store,    \* the agent store: the last saved state of each agent
  saved,    \* the workflow store: the last saved state of each execution
  requests, \* the pending interaction requests
  expired,  \* those whose time is over
  call,     \* what each caller is doing, and its private copies
  operating, \* the record the operator is about to write back, if any
  waiting,  \* the agent the command line will resume, if any
  shown,    \* the prompt the person was shown last
  ingests,  \* messages ingested so far
  ran,      \* history: the prompts to which a "yes" ran pending tool calls
  answered  \* history: by which agent, what was shown when a request was answered

humanVars == <<waiting, shown>>
historyVars == <<ran, answered>>
requestVars == <<requests, expired>>
vars == <<registry, store, saved, requestVars, call, operating, humanVars,
          ingests, historyVars>>

(* An execution, and its id in the workflow store; 0 is no execution. *)
Terminal == {"completed", "failed", "cancelled"}
Statuses == {"running", "waiting_for_input"} \cup Terminal
NoInstance == [id |-> 0, workflow |-> "none", at |-> End, status |-> "completed"]
Instance == [id : Nat \ {0}, workflow : Workflows, at : Steps \cup {End},
             status : Statuses]

(* A request's id is made of the workflow and the step.  A prompt is such a
   request, the confirmation of tool calls, or nothing. *)
Requests == Workflows \X Steps
Nothing == <<>>
Confirmation == <<"confirmation">>
Prompts == Requests \cup {Nothing, Confirmation}

(* The parts of an AgentState, and of its supervisor_metadata, that decide what
   happens next: pending_tool_calls, workflow_state, workflow_waiting_for, the
   request, and whether there is a final_response. *)
AgentState == [life : {"absent", "activated", "waiting", "completed", "failed"},
               calls : BOOLEAN, frozen : Instance \cup {NoInstance},
               waitingFor : {"none", "user_input", "tool_result"},
               request : Requests \cup {Nothing}, replied : BOOLEAN]
NewState(life) == [life |-> life, calls |-> FALSE, frozen |-> NoInstance,
                   waitingFor |-> "none", request |-> Nothing, replied |-> FALSE]

Call == [pc : {"idle", "route", "loop", "doing", "save", "crashed"},
         agent : Agents \cup {"none"}, resumed : BOOLEAN, line : Lines,
         state : AgentState, instance : Instance \cup {NoInstance},
         step : Steps \cup {"none"}, iteration : 0 .. MaxIterations]
Idle == [pc |-> "idle", agent |-> "none", resumed |-> FALSE, line |-> "plain",
         state |-> NewState("absent"), instance |-> NoInstance, step |-> "none",
         iteration |-> 0]

(* Stores, requests and calls hold well-formed values; an execution is saved
   under its own id.  Expired requests are among the pending ones. *)
TypeOK ==
  /\ registry \in Registries
  /\ store \in [Agents -> AgentState]
  /\ saved \in Seq(Instance \cup {NoInstance})
  /\ \A e \in DOMAIN saved : saved[e].id \in {0, e}
  /\ requests \subseteq Requests
  /\ expired \subseteq requests
  /\ call \in [Callers -> Call]
  /\ operating \in Instance \cup {NoInstance}
  /\ waiting \in Agents \cup {"none"}
  /\ shown \in Prompts
  /\ ingests \in 0 .. MaxIngests
  /\ ran \subseteq Prompts
  /\ answered \subseteq Agents \X Prompts \X Requests

Init ==
  /\ registry \in Registries
  /\ store = [a \in Agents |-> NewState("absent")]
  /\ saved = <<>>
  /\ requests = {} /\ expired = {}
  /\ call = [c \in Callers |-> Idle] /\ operating = NoInstance
  /\ waiting = "none" /\ shown = Nothing
  /\ ingests = 0
  /\ ran = {} /\ answered = {}

Active(c) == call[c].pc \notin {"idle", "crashed"}

------------------------------------------------------------------------------
(* A caller's own steps.  Keep goes on to persist a state and return it. *)

Keep(c, state) == call' = [call EXCEPT ![c].pc = "save", ![c].state = state]

RunLoop(c, i) == call' = [call EXCEPT ![c].pc = "loop", ![c].instance = i]

(* ingest: create_agent and activate_agent save a fresh state over whatever the
   agent had; then the step begins. *)
Ingest(c) ==
  /\ call[c].pc = "idle"
  /\ c = Human => waiting = "none"
  /\ ingests < MaxIngests
  /\ \E a \in Reach[c], l \in Lines :
       /\ store' = [store EXCEPT ![a] = NewState("activated")]
       /\ call' = [call EXCEPT ![c] = [Idle EXCEPT
            !.pc = "route", !.agent = a, !.line = l,
            !.state = NewState("activated")]]
  /\ ingests' = ingests + 1
  /\ UNCHANGED <<registry, operating, saved, requestVars, humanVars,
                 historyVars>>

(* resume: the state is loaded once; only a waiting agent runs a step. *)
Resume(c) ==
  /\ c = Human /\ call[c].pc = "idle" /\ waiting # "none"
  /\ IF store[waiting].life = "waiting"
     THEN /\ \E l \in Lines :
               call' = [call EXCEPT ![c] = [Idle EXCEPT
                 !.pc = "route", !.agent = waiting, !.resumed = TRUE,
                 !.line = l, !.state = store[waiting]]]
          /\ UNCHANGED humanVars
     ELSE waiting' = "none" /\ shown' = Nothing /\ UNCHANGED call
  /\ UNCHANGED <<registry, operating, store, saved, requestVars, ingests,
                 historyVars>>

(* What the command line shows of a state: the workflow's prompt comes before
   the confirmation of tool calls. *)
Prompt(state) ==
  IF state.life # "waiting" THEN Nothing
  ELSE IF state.waitingFor = "user_input" THEN state.request
  ELSE IF state.calls THEN Confirmation ELSE Nothing

(* _persist, and the return from ingest or resume.  Resuming an agent that ends
   without a response reads an attribute the state does not have; nothing
   catches the error, and the command line dies. *)
LosesReply(call_) ==
  call_.resumed /\ call_.state.life # "waiting" /\ ~call_.state.replied

SaveWithOldPrompt(c) ==
  /\ call[c].pc = "save"
  /\ store' = [store EXCEPT ![call[c].agent] = call[c].state]
  /\ call' = [call EXCEPT ![c] =
       IF LosesReply(call[c]) THEN [Idle EXCEPT !.pc = "crashed"] ELSE Idle]
  /\ IF c = Human
     THEN /\ waiting' = IF call[c].state.life = "waiting" THEN call[c].agent
                                                          ELSE "none"
          /\ shown' = IF call[c].resumed THEN shown ELSE Prompt(call[c].state)
     ELSE UNCHANGED humanVars
  /\ UNCHANGED <<registry, operating, saved, requestVars, ingests,
                 historyVars>>

Save(c) ==
  /\ call[c].pc = "save"
  /\ store' = [store EXCEPT ![call[c].agent] = call[c].state]
  /\ call' = [call EXCEPT ![c] =
       IF LosesReply(call[c]) THEN [Idle EXCEPT !.pc = "crashed"] ELSE Idle]
  /\ IF c = Human
     THEN /\ waiting' = IF call[c].state.life = "waiting" THEN call[c].agent
                                                          ELSE "none"
          /\ shown' = Prompt(call[c].state)
     ELSE UNCHANGED humanVars
  /\ UNCHANGED <<registry, operating, saved, requestVars, ingests,
                 historyVars>>

RaisesUnseen(c) ==
  /\ Active(c)
  /\ call' = [call EXCEPT ![c] = Idle]
  /\ UNCHANGED <<registry, operating, store, saved, requestVars, humanVars,
                 ingests, historyVars>>

(* Whatever a call does next may raise instead: the strategy that calls the LLM,
   the choice of an agent for an llm_call step, the save of a store.  ingest and
   resume catch it around the whole step and answer with an error, and the command
   line forgets the agent.  What the step saved so far stays, the workflow's rounds
   and a request's end included; the agent's own state is left as it was. *)
Raises(c) ==
  /\ Active(c)
  /\ call' = [call EXCEPT ![c] = Idle]
  /\ IF c = Human THEN waiting' = "none" /\ shown' = Nothing
                  ELSE UNCHANGED humanVars
  /\ UNCHANGED <<registry, operating, store, saved, requestVars, ingests,
                 historyVars>>

------------------------------------------------------------------------------
(* run_agent_step: a line goes where its prefix says, whatever the agent waits
   for. *)

Routed(c, lines) == call[c].pc = "route" /\ call[c].line \in lines
Conversation == {"plain", "yes"}
WorkflowLines == {"workflow"} \cup Named

(* The LLM replies.  Side effects it asks for wait for confirmation unless the
   line is itself a yes. *)
Converse(c) ==
  /\ Routed(c, Conversation) /\ ~call[c].state.calls
  /\ \/ Keep(c, [call[c].state EXCEPT !.life = "completed", !.replied = TRUE])
     \/ /\ call[c].line # "yes"
        /\ Keep(c, [call[c].state EXCEPT !.life = "waiting", !.calls = TRUE,
                                         !.replied = TRUE])
  /\ UNCHANGED <<registry, operating, store, saved, requestVars, humanVars,
                 ingests, historyVars>>

(* run_confirmed_skills: pending tool calls are run or dropped. *)
Confirm(c) ==
  /\ Routed(c, Conversation) /\ call[c].state.calls
  /\ ran' = IF call[c].line = "yes" THEN ran \cup {shown} ELSE ran
  /\ Keep(c, [call[c].state EXCEPT !.life = "activated", !.calls = FALSE,
                                   !.replied = TRUE])
  /\ UNCHANGED <<registry, operating, store, saved, requestVars, humanVars,
                 ingests, answered>>

(* A council that is not there completes the agent without a response; one that
   raises fails it. *)
Council(c) ==
  /\ Routed(c, {"council"})
  /\ \E life \in {"completed", "failed"}, reply \in BOOLEAN :
       /\ reply => life = "completed"
       /\ Keep(c, [call[c].state EXCEPT !.life = life,
                                        !.replied = @ \/ reply])
  /\ UNCHANGED <<registry, operating, store, saved, requestVars, humanVars,
                 ingests, historyVars>>

Target(c) == IF call[c].line = "workflow" THEN OwnWorkflow[call[c].agent]
                                          ELSE call[c].line

StartedUnderItsName(w) ==
  [id |-> IF \E e \in DOMAIN saved : saved[e].workflow = w
          THEN CHOOSE e \in DOMAIN saved : saved[e].workflow = w
          ELSE Len(saved) + 1,
   workflow |-> w, at |-> registry[w].start, status |-> "running"]

Started(w) == [id |-> Len(saved) + 1, workflow |-> w,
               at |-> registry[w].start, status |-> "running"]

(* start_workflow; the new execution is saved by its first step only. *)
StartWorkflow(c) ==
  /\ Routed(c, WorkflowLines) /\ call[c].state.frozen = NoInstance
  /\ IF Target(c) \in Workflows
     THEN RunLoop(c, Started(Target(c))) /\ saved' = Append(saved, NoInstance)
     ELSE /\ Keep(c, [call[c].state EXCEPT !.life = "failed"])
          /\ UNCHANGED saved
  /\ UNCHANGED <<registry, operating, store, requestVars, humanVars, ingests,
                 historyVars>>

------------------------------------------------------------------------------
(* Resuming a frozen instance. *)

Def(i) == registry[i.workflow]

(* fail_step and handle_timeout: along on_failure, whatever the status was. *)
FollowFailure(i, s) ==
  LET target == Def(i).fail[s] IN
  CASE target = Absent -> [i EXCEPT !.status = "failed"]
    [] target = End -> [i EXCEPT !.status = "completed", !.at = End]
    [] OTHER -> [i EXCEPT !.status = "running", !.at = target]

Answering(c) ==
  /\ Routed(c, WorkflowLines)
  /\ call[c].state.frozen # NoInstance
  /\ call[c].state.waitingFor = "user_input"

(* submit_response accepts: the request goes, and the engine runs on. *)
Answer(c) ==
  /\ Answering(c)
  /\ LET r == call[c].state.request IN
     /\ r \in requests \ expired
     /\ TRUE \in registry[r[1]].verdicts[r[2]]
     /\ requests' = requests \ {r}
     /\ answered' = answered \cup {<<call[c].agent, shown, r>>}
  /\ RunLoop(c, [call[c].state.frozen EXCEPT !.status = "running"])
  /\ UNCHANGED <<registry, operating, store, saved, expired, humanVars,
                 ingests, ran>>

(* submit_response refuses, for the schema or because nobody asked: the agent
   goes on waiting. *)
RefuseAndForget(c) ==
  /\ Answering(c)
  /\ LET r == call[c].state.request IN
     /\ \/ r \notin requests
        \/ r \notin expired /\ FALSE \in registry[r[1]].verdicts[r[2]]
     /\ requests' = requests \ {r}
  /\ Keep(c, [call[c].state EXCEPT !.life = "waiting"])
  /\ UNCHANGED <<registry, operating, store, saved, expired, humanVars,
                 ingests, historyVars>>

Refuse(c) ==
  /\ Answering(c)
  /\ LET r == call[c].state.request IN
     \/ r \notin requests
     \/ r \notin expired /\ FALSE \in registry[r[1]].verdicts[r[2]]
  /\ Keep(c, [call[c].state EXCEPT !.life = "waiting"])
  /\ UNCHANGED <<registry, operating, store, saved, requestVars, humanVars,
                 ingests, historyVars>>

(* submit_response finds the request expired, and the engine times out. *)
TimedOut(c) ==
  /\ Answering(c)
  /\ LET r == call[c].state.request IN
     /\ r \in expired
     /\ requests' = requests \ {r} /\ expired' = expired \ {r}
     /\ RunLoop(c, FollowFailure(call[c].state.frozen, r[2]))
  /\ UNCHANGED <<registry, operating, store, saved, humanVars, ingests,
                 historyVars>>

(* An instance that waits for a job goes on with whatever result there is. *)
ToolResult(c) ==
  /\ Routed(c, WorkflowLines)
  /\ call[c].state.waitingFor = "tool_result"
  /\ RunLoop(c, [call[c].state.frozen EXCEPT !.status = "running"])
  /\ UNCHANGED <<registry, operating, store, saved, requestVars, humanVars,
                 ingests, historyVars>>

(* A request with a timeout expires. *)
Expire(r) ==
  /\ r \in requests \ expired
  /\ r[2] \in registry[r[1]].timed
  /\ expired' = expired \cup {r}
  /\ UNCHANGED <<registry, operating, store, saved, requests, call, humanVars,
                 ingests, historyVars>>

------------------------------------------------------------------------------
(* run_workflow_loop.  Each round steps the engine and saves what it returns;
   the outcome is dealt with by the actions below. *)

SaveInstance(i) == saved' = [saved EXCEPT ![i.id] = i]

(* The workflow is over, one way or the other: its keys leave the metadata. *)
Finished(state, life) ==
  [state EXCEPT !.life = life, !.frozen = NoInstance, !.waitingFor = "none",
                !.replied = @ \/ life = "completed"]

InLoop(c) == call[c].pc = "loop" /\ call[c].iteration < MaxIterations

StepType(c) == Def(call[c].instance).type[call[c].instance.at]

AtStep(c) == /\ call[c].instance.status \notin Terminal
             /\ call[c].instance.at # End

LoopUnchanged == UNCHANGED <<registry, operating, store, humanVars, ingests,
                             historyVars>>

(* engine.step on a terminal instance, or on one that has no step left. *)
Finish(c) ==
  /\ InLoop(c) /\ ~AtStep(c)
  /\ LET i == call[c].instance
         done == IF i.status \in Terminal THEN i
                 ELSE [i EXCEPT !.status = "completed"]
     IN /\ SaveInstance(done)
        /\ Keep(c, Finished(call[c].state, IF done.status = "completed"
                                           THEN "completed" ELSE "failed"))
  /\ UNCHANGED requestVars /\ LoopUnchanged

(* A step that cannot be made, or a condition that raises: _fail. *)
Broken(c) ==
  /\ InLoop(c) /\ AtStep(c)
  /\ StepType(c) \in {"broken", "condition"}
  /\ SaveInstance([call[c].instance EXCEPT !.status = "failed"])
  /\ Keep(c, Finished(call[c].state, "failed"))
  /\ UNCHANGED requestVars /\ LoopUnchanged

(* A condition chooses an edge; without on_failure, false ends the workflow. *)
Moved(c, i) ==
  /\ SaveInstance(i)
  /\ call' = [call EXCEPT ![c].instance = i, ![c].iteration = @ + 1]

BranchToAbsent(c) ==
  /\ InLoop(c) /\ AtStep(c) /\ StepType(c) = "condition"
  /\ LET i == call[c].instance
     IN \E target \in {Def(i).ok[i.at], Def(i).fail[i.at]} :
          Moved(c, [i EXCEPT !.at = target])
  /\ UNCHANGED requestVars /\ LoopUnchanged

Branch(c) ==
  /\ InLoop(c) /\ AtStep(c) /\ StepType(c) = "condition"
  /\ LET i == call[c].instance
         otherwise == IF Def(i).fail[i.at] = Absent THEN End ELSE Def(i).fail[i.at]
     IN \E target \in {Def(i).ok[i.at], otherwise} :
          Moved(c, [i EXCEPT !.at = target])
  /\ UNCHANGED requestVars /\ LoopUnchanged

(* The other steps: the engine stands after the step already while the loop
   carries it out. *)
Begun(c, i) ==
  /\ InLoop(c) /\ AtStep(c)
  /\ StepType(c) \notin {"broken", "condition"}
  /\ SaveInstance(i)
  /\ call' = [call EXCEPT ![c].pc = "doing", ![c].instance = i,
                          ![c].step = call[c].instance.at,
                          ![c].iteration = @ + 1]
  /\ UNCHANGED requestVars /\ LoopUnchanged

BeginStaysAtInput(c) ==
  LET i == call[c].instance IN
  Begun(c, IF StepType(c) = "user_input"
           THEN [i EXCEPT !.status = "waiting_for_input"]
           ELSE [i EXCEPT !.at = Def(i).ok[i.at]])

Begin(c) ==
  LET i == call[c].instance IN
  Begun(c, [i EXCEPT !.at = Def(i).ok[i.at],
                     !.status = IF StepType(c) = "user_input"
                                THEN "waiting_for_input" ELSE @])

Doing(c, types) == /\ call[c].pc = "doing"
                   /\ Def(call[c].instance).type[call[c].step] \in types

Recorded(c, i) == SaveInstance(i) /\ RunLoop(c, i)

(* resume_with_result: an LLM answered, a tool ran inline, a council decided. *)
Succeed(c) ==
  /\ Doing(c, {"llm_call", "tool_execute", "council_deliberate"})
  /\ Recorded(c, [call[c].instance EXCEPT !.status = "running"])
  /\ UNCHANGED requestVars /\ LoopUnchanged

(* fail_step: the LLM or the council failed, no job was dispatched, the
   sub-workflow is not registered. *)
MayFail(c) ==
  \/ Doing(c, {"llm_call", "tool_execute", "council_deliberate"})
  \/ /\ Doing(c, {"sub_workflow"})
     /\ Def(call[c].instance).sub[call[c].step] = Unregistered

FailStepAnew(c) ==
  /\ MayFail(c)
  /\ LET i == FollowFailure(call[c].instance, call[c].step)
     IN /\ SaveInstance(i)
        /\ call' = [call EXCEPT ![c].pc = "loop", ![c].instance = i,
                                ![c].iteration = 0]
  /\ UNCHANGED requestVars /\ LoopUnchanged

FailStep(c) ==
  /\ MayFail(c)
  /\ Recorded(c, FollowFailure(call[c].instance, call[c].step))
  /\ UNCHANGED requestVars /\ LoopUnchanged

(* The tool's jobs were dispatched: the agent waits, its instance frozen. *)
Dispatch(c) ==
  /\ Doing(c, {"tool_execute"})
  /\ Keep(c, [call[c].state EXCEPT !.life = "waiting",
                                   !.frozen = call[c].instance,
                                   !.waitingFor = "tool_result"])
  /\ UNCHANGED <<saved, requestVars>> /\ LoopUnchanged

(* request_input replaces a pending request of the same id; the agent waits. *)
Ask(c) ==
  /\ Doing(c, {"user_input"})
  /\ LET r == <<call[c].instance.workflow, call[c].step>>
     IN /\ requests' = requests \cup {r} /\ expired' = expired \ {r}
        /\ Keep(c, [call[c].state EXCEPT !.life = "waiting",
                                         !.frozen = call[c].instance,
                                         !.waitingFor = "user_input",
                                         !.request = r])
  /\ UNCHANGED saved /\ LoopUnchanged

(* The sub-workflow takes the loop over; nothing returns to its parent. *)
StartSub(c) ==
  /\ Doing(c, {"sub_workflow"})
  /\ LET w == Def(call[c].instance).sub[call[c].step]
     IN /\ w # Unregistered
        /\ saved' = Append(saved, Started(w))
        /\ RunLoop(c, Started(w))
  /\ UNCHANGED requestVars /\ LoopUnchanged

(* The round limit: the agent fails, its instance is left as it is. *)
LoopLimit(c) ==
  /\ call[c].pc = "loop" /\ call[c].iteration = MaxIterations
  /\ Keep(c, Finished(call[c].state, "failed"))
  /\ UNCHANGED <<saved, requestVars>> /\ LoopUnchanged

------------------------------------------------------------------------------
(* WorkflowOps, on the workflow store alone: it reads a record, and saves it
   with another status. *)

Operate(e, status) ==
  /\ operating = NoInstance /\ saved[e] # NoInstance
  /\ operating' = [saved[e] EXCEPT !.status = status]
  /\ UNCHANGED <<registry, store, saved, requestVars, call, humanVars, ingests,
                 historyVars>>

CancelInstance(e) ==
  /\ "cancel" \in Operations
  /\ saved[e].status \notin Terminal
  /\ Operate(e, "cancelled")

RetryUnfailed(e) ==
  /\ "retry" \in Operations
  /\ Operate(e, "running")

RetryInstance(e) ==
  /\ "retry" \in Operations
  /\ saved[e].status = "failed"
  /\ Operate(e, "running")

SaveOperation ==
  /\ operating # NoInstance
  /\ SaveInstance(operating) /\ operating' = NoInstance
  /\ UNCHANGED <<registry, store, requestVars, call, humanVars, ingests,
                 historyVars>>

------------------------------------------------------------------------------
(* What a caller does once its message is in. *)
CallStep(c) ==
  \/ Converse(c) \/ Confirm(c) \/ Council(c) \/ StartWorkflow(c)
  \/ Answer(c) \/ Refuse(c) \/ TimedOut(c) \/ ToolResult(c)
  \/ Finish(c) \/ Broken(c) \/ Branch(c) \/ Begin(c)
  \/ Succeed(c) \/ FailStep(c) \/ Dispatch(c) \/ Ask(c) \/ StartSub(c)
  \/ LoopLimit(c) \/ Save(c)

Next ==
  \/ \E c \in Callers : Ingest(c) \/ Resume(c) \/ CallStep(c) \/ Raises(c)
  \/ \E r \in Requests : Expire(r)
  \/ \E e \in DOMAIN saved : CancelInstance(e) \/ RetryInstance(e)
  \/ SaveOperation

Spec == Init /\ [][Next]_vars

(* Every thread gets to run; nothing obliges people, clocks or operators, and
   nothing makes a call raise. *)
FairSpec == Spec /\ \A c \in Callers : WF_vars(CallStep(c))

------------------------------------------------------------------------------
(* Properties. *)

Parked(a) == store[a].life = "waiting" /\ store[a].frozen # NoInstance

(* What a state waits for: an instance to go on with, frozen right behind the
   step that asked or dispatched and with the status that goes with it, or
   tool calls to confirm. *)
Behind(i, s, type, status) ==
  /\ Def(i).type[s] = type
  /\ i.at = Def(i).ok[s]
  /\ i.status = status

Coherent(state) ==
  /\ state.life = "waiting" => state.calls \/ state.frozen # NoInstance
  /\ state.frozen = NoInstance <=> state.waitingFor = "none"
  /\ state.waitingFor = "user_input" =>
       /\ state.request # Nothing
       /\ state.request[1] = state.frozen.workflow
       /\ Behind(state.frozen, state.request[2], "user_input", "waiting_for_input")
  /\ state.waitingFor = "tool_result" =>
       \E s \in Steps : Behind(state.frozen, s, "tool_execute", "running")

(* An agent that waits can go on, and where it should: otherwise an answer is
   given to the wrong step, or to none. *)
WaitIsCoherent ==
  \A a \in Agents : store[a].life = "waiting" => Coherent(store[a])

(* The agent that the command line will resume is never parked at an old position
   of its execution: unless a call that resumed it is carrying it on, what it has
   frozen is what the workflow store has, but for an operator's cancellation.  A
   resumed agent so repeats no step.  It rests on the command line forgetting an
   agent whose step raised: such an agent is left behind its execution. *)
Resumed(c, a) == call[c].resumed /\ call[c].agent = a
Current(i) == saved[i.id] = i \/ saved[i.id].status = "cancelled"

ParkedIsCurrent ==
  \A a \in Agents :
    waiting = a /\ Parked(a) /\ (\A c \in Callers : ~Resumed(c, a)) => Current(store[a].frozen)

(* An execution is in one pair of hands: two agents never hold the same one,
   nor do two calls, whatever agents they share. *)
Carrying(c, e) == call[c].pc \in {"loop", "doing"} /\ call[c].instance.id = e
OneOwner ==
  /\ \A a, b \in Agents : a # b /\ Parked(a) /\ Parked(b) =>
       store[a].frozen.id # store[b].frozen.id
  /\ \A c, d \in Callers, e \in DOMAIN saved :
       Carrying(c, e) /\ Carrying(d, e) => c = d

(* The inductive invariant.  A call's instance agrees with where the call is. *)
Known(i) == i \in Instance /\ i.id \in DOMAIN saved

PlaceOK(c) ==
  /\ Active(c) => call[c].agent \in Agents
  /\ call[c].resumed => c = Human /\ Active(c)
  /\ call[c].pc = "loop" =>
       /\ Known(call[c].instance)
       /\ call[c].instance.status \in {"running", "completed", "failed"}
  /\ call[c].pc = "doing" =>
       LET i == call[c].instance
           type == Def(i).type[call[c].step]
       IN /\ Known(i)
          /\ call[c].step \in Steps
          /\ Behind(i, call[c].step, type, IF type = "user_input"
                       THEN "waiting_for_input" ELSE "running")

(* Its copy of the agent's state is coherent; only a call that resumed, or that
   is about to save, has a frozen instance. *)
CopyOK(c) ==
  /\ Coherent(call[c].state)
  /\ call[c].state.frozen # NoInstance =>
       Known(call[c].state.frozen) /\ (call[c].resumed \/ call[c].pc = "save")

(* What it goes on from, or is about to save, is current; a failed execution is
   not carried on. *)
FreshOK(c) ==
  /\ call[c].pc = "loop" /\ saved[call[c].instance.id].status = "failed"
       => call[c].instance.status = "failed"
  /\ call[c].pc = "doing" => Current(call[c].instance)
  /\ call[c].pc = "route" \/ (call[c].pc = "save" /\ call[c].state.life = "waiting")
       => (call[c].state.frozen # NoInstance => Current(call[c].state.frozen))

CallInv == \A c \in Callers : PlaceOK(c) /\ CopyOK(c) /\ FreshOK(c)

StoreInv == \A a \in Agents :
              /\ Coherent(store[a])
              /\ store[a].frozen # NoInstance => Known(store[a].frozen)

(* An execution is held by at most one call and one record of the store; what a
   call and the store both hold was resumed. *)
Holds(c, e) == Carrying(c, e) \/ (Active(c) /\ call[c].state.frozen.id = e)
OwnInv ==
  /\ \A a, b \in Agents :
       store[a].frozen # NoInstance /\ store[a].frozen.id = store[b].frozen.id
         => a = b
  /\ \A c, d \in Callers, e \in DOMAIN saved :
       Holds(c, e) /\ Holds(d, e) => c = d
  /\ \A c \in Callers, a \in Agents, e \in DOMAIN saved :
       Holds(c, e) /\ store[a].frozen.id = e => Resumed(c, a)

(* What the operator is about to save: a retry only over a failed record. *)
OperatorInv ==
  operating # NoInstance =>
    /\ Known(operating) /\ operating.status \in {"running", "cancelled"}
    /\ operating.status = "running" => saved[operating.id].status = "failed"

IndInv == TypeOK /\ CallInv /\ StoreInv /\ OwnInv /\ OperatorInv /\ ParkedIsCurrent

Alone(a) == \A c \in Callers \ {Human} : a \notin Reach[c]
AtRest(a) == \A c \in Callers :
               call[c].pc \in {"idle", "crashed"} \/ call[c].agent # a

(* When only the person talks to the agent that the command line will resume, and
   that agent waits for input, it can be answered: its request is pending.  Without
   it submit_response refuses every answer, and never times out either. *)
RequestForEveryWait ==
  \A a \in Agents :
    /\ waiting = a /\ Alone(a) /\ AtRest(a)
    /\ Parked(a) /\ store[a].waitingFor = "user_input"
    => store[a].request \in requests

(* With such an agent, the request that takes an answer is the one whose prompt
   the person was looking at. *)
AnswersMatchPrompt ==
  \A p \in answered : Alone(p[1]) => p[2] = p[3]

(* What makes these two hold, and what the proof rests on besides IndInv.  Only
   the person's calls resume, so only they answer requests; and the agent such
   a call addresses is the one the command line waits for. *)
AddressInv ==
  /\ \A c \in Callers \ {Human} : Active(c) => call[c].agent \in Reach[c]
  /\ Active(Human) => waiting = IF call[Human].resumed THEN call[Human].agent
                                                       ELSE "none"

(* While the person is not in a call, the screen shows what the agent waits
   for; a call that resumed began with it. *)
ScreenInv ==
  /\ ~Active(Human) /\ waiting # "none" /\ Alone(waiting) =>
       shown = Prompt(store[waiting])
  /\ call[Human].pc = "route" /\ call[Human].resumed /\ Alone(call[Human].agent) =>
       /\ call[Human].state.life = "waiting"
       /\ shown = Prompt(call[Human].state)

(* The request a call may be answering, or is about to wait for, is pending. *)
PendingInv ==
  /\ Active(Human) /\ Alone(call[Human].agent)
  /\ call[Human].state.waitingFor = "user_input"
  /\ \/ call[Human].pc = "route"
     \/ call[Human].pc = "save" /\ call[Human].state.life = "waiting"
  => call[Human].state.request \in requests

PersonInv == /\ AddressInv /\ ScreenInv /\ PendingInv
             /\ RequestForEveryWait /\ AnswersMatchPrompt

(* Every call ends, however the workflow's failure edges loop. *)
CallsReturn ==
  \A c \in Callers :
    call[c].pc = "route" ~> call[c].pc \in {"idle", "crashed"}

(* Why: whatever the other callers, clocks and operators do, each step of a call
   leaves it fewer to make, and nobody else's step changes it.  The loop's counter
   is the one thing that stops a failure edge that leads back. *)
StepsLeft(c) ==
  LET rounds == MaxIterations - call[c].iteration IN
  CASE call[c].pc = "route" -> 2 * rounds + 4
    [] call[c].pc = "doing" -> 2 * rounds + 3
    [] call[c].pc = "loop" -> 2 * rounds + 2
    [] call[c].pc = "save" -> 1
    [] OTHER -> 0

CallsRunDown ==
  [][\A c \in Callers : Active(c) /\ call'[c] # call[c] =>
       StepsLeft(c)' < StepsLeft(c)]_vars

(* "Called when the supervisor resumes from a WAITING state that was entered
   for HITL confirmation" (hitl_manager.py): a yes runs side effects only when
   it answers the prompt that asked for them. *)
SideEffectsConfirmed == ran \subseteq {Confirmation}
=============================================================================
