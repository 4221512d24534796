----------------------------- MODULE PipelineRun -----------------------------
(***************************************************************************)
(* A pipeline of workflows chained by events: PipelineDriver runs one      *)
(* execution after another, calling the workflow engine step by step; a    *)
(* publish_event step reaches, through the event bus and the trigger       *)
(* router, engine.start_workflow, which the driver has replaced while it   *)
(* runs an execution, so that what is started joins its queue.             *)
(*                                                                         *)
(* All of it is one thread.  An action is a turn of one of the driver's    *)
(* loops up to the next call of the engine.  Contexts, prompts and files   *)
(* are left out; a result is the step it belongs to.                       *)
(***************************************************************************)
EXTENDS Naturals, Sequences

CONSTANTS Workflows, Steps, Events,
          First,         \* the event a pipeline begins with: sprint.init
          StartEvents,   \* _START_EVENT_TYPES: what the trigger router listens to
          Registries,    \* the workflow registries a pipeline may have
          MaxIterations, \* _MAX_ITERATIONS
          End,           \* the target __end__, and the place behind the last step
          None

StepTypes == {"llm", "tool", "sub", "ask", "condition", "council", "broken"}
StepWith(types, things) ==
  [type : types,
   does : things \cup {None},         \* the event it publishes, its sub-workflow
   next : Steps \cup {End},           \* on_success
   otherwise : Steps \cup {End, None}] \* on_failure, if there is one
Step == StepWith(StepTypes \ {"sub"}, Events) \cup StepWith({"sub"}, Workflows)
Definition == [start : Steps, steps : [Steps -> Step]]

(* A registry has definitions, and for an event those with it in their trigger_on,
   in the order in which they were registered. *)
Registry == [triggered : [Events -> Seq(Workflows)], def : [Workflows -> Definition]]

ASSUME PipelineAssumption ==
  /\ First \in StartEvents /\ StartEvents \subseteq Events
  /\ Registries \subseteq Registry
  /\ MaxIterations \in Nat
  /\ End \notin Steps /\ None \notin Steps
  /\ None \notin Events /\ None \notin Workflows

VARIABLES
  registry,     \* never changes
  pc,           \* where the driver is
  pending,      \* _pending: executions to be run
  results,      \* _results
  current, at,  \* the local state of _run_single, and the step in hand
  iteration,    \* of _run_single
  store,        \* the driver's WorkflowInstanceStore, by execution
  started,      \* history: executions the engine has started
  unheard,      \* history: of them, those started before there was a driver
  subs,         \* history: those started by a sub_workflow step
  broken        \* history: executions with a failed step and no on_failure for it

vars == <<registry, pc, pending, results, current, at, iteration, store, started, unheard,
          subs, broken>>

Places == {"announce", "start", "queue", "step", "handle", "returned", "raised"}
Statuses == {"running", "waiting", "completed", "failed"}
Execution == [id : Nat \ {0}, workflow : Workflows, status : Statuses,
              step : Steps \cup {End}, done : SUBSET Steps]
Result == [id : Nat \ {0}, status : {"completed", "failed", "max_iterations"}]
Active == pc \in {"step", "handle"}

(* Queue, store and results hold well-formed values. *)
TypeOK ==
  /\ registry \in Registries
  /\ pc \in Places
  /\ pending \in Seq(Execution) /\ results \in Seq(Result)
  /\ Active => current \in Execution
  /\ pc = "handle" => at \in Steps
  /\ iteration \in 0 .. MaxIterations
  /\ started \in Nat /\ unheard \in 0 .. started
  /\ store \in [unheard + 1 .. started -> Execution]
  /\ subs \subseteq 1 .. started /\ broken \subseteq 1 .. started

Init ==
  /\ registry \in Registries
  /\ pc = "announce"
  /\ pending = <<>> /\ results = <<>>
  /\ current = None /\ at = None /\ iteration = 0
  /\ store = <<>>
  /\ started = 0 /\ unheard = 0 /\ subs = {} /\ broken = {}

-----------------------------------------------------------------------------
(* The engine. *)
Def(x) == registry.def[x.workflow]
Matches(e) == registry.triggered[e]
Routed(e) == IF e \in StartEvents THEN Matches(e) ELSE <<>>

Started(w, id) == [id |-> id, workflow |-> w, status |-> "running",
                   step |-> registry.def[w].start, done |-> {}]
StartedAll(ws) == [n \in DOMAIN ws |-> Started(ws[n], started + n)]

(* fail_step: on_failure, or the end of the execution. *)
FailStep(x, s) ==
  LET target == Def(x).steps[s].otherwise
      y == [x EXCEPT !.done = @ \cup {s}]
  IN IF target = None THEN [y EXCEPT !.status = "failed"]
     ELSE IF target = End THEN [y EXCEPT !.status = "completed", !.step = End]
     ELSE [y EXCEPT !.step = target]

CaptureLast(xs) ==
  /\ started' = started + Len(xs)
  /\ pending' = IF xs = <<>> THEN pending ELSE Append(pending, xs[Len(xs)])
(* Executions that are started while a run has replaced start_workflow: stored,
   and queued. *)
Capture(xs) ==
  /\ started' = started + Len(xs)
  /\ pending' = pending \o xs
Stored(xs) == [id \in unheard + 1 .. started + Len(xs) |->
                 IF id <= started THEN store[id] ELSE xs[id - started]]

-----------------------------------------------------------------------------
(* The event is published before the driver is made: the trigger router starts
   the workflows, and nobody has their states. *)
Announce ==
  /\ pc = "announce"
  /\ started' = Len(Routed(First)) /\ unheard' = started'
  /\ pc' = "start"
  /\ UNCHANGED <<registry, pending, results, current, at, iteration, store, subs, broken>>

(* run_pipeline starts them again, on its own. *)
StartCaptured ==
  /\ pc = "start"
  /\ LET xs == StartedAll(Matches(First)) IN
       /\ started' = started + Len(xs)
       /\ pending' = xs \o xs
       /\ store' = Stored(xs)
  /\ pc' = "queue"
  /\ UNCHANGED <<registry, results, current, at, iteration, unheard, subs, broken>>
StartPipeline ==
  /\ pc = "start"
  /\ LET xs == StartedAll(Matches(First)) IN Capture(xs) /\ store' = Stored(xs)
  /\ pc' = "queue"
  /\ UNCHANGED <<registry, results, current, at, iteration, unheard, subs, broken>>

Begin ==
  /\ pc = "queue" /\ pending # <<>>
  /\ current' = Head(pending) /\ pending' = Tail(pending)
  /\ iteration' = 0
  /\ pc' = "step"
  /\ UNCHANGED <<registry, results, at, store, started, unheard, subs, broken>>

Return ==
  /\ pc = "queue" /\ pending = <<>>
  /\ pc' = "returned"
  /\ UNCHANGED <<registry, pending, results, current, at, iteration, store, started, unheard,
                 subs, broken>>

-----------------------------------------------------------------------------
(* _run_single: an iteration steps the local state and saves what comes of it. *)
StepType == Def(current).steps[current.step].type
AtStep(types) == current.step # End /\ StepType \in types

Save(x) == store' = [store EXCEPT ![x.id] = x]

IterateUncounted ==
  /\ pc = "step" /\ iteration < MaxIterations
  /\ iteration' = iteration
  /\ UNCHANGED <<registry, pending, started, unheard, subs, broken>>
IterateOnceMore ==
  /\ pc = "step" /\ iteration <= MaxIterations
  /\ iteration' = iteration + 1
  /\ UNCHANGED <<registry, pending, started, unheard, subs, broken>>
Iterate ==
  /\ pc = "step" /\ iteration < MaxIterations
  /\ iteration' = iteration + 1
  /\ UNCHANGED <<registry, pending, started, unheard, subs, broken>>

Ends(status) ==
  /\ results' = Append(results, [id |-> current.id, status |-> status])
  /\ pc' = "queue"
  /\ UNCHANGED <<current, at>>

TooLong ==
  /\ pc = "step" /\ iteration = MaxIterations
  /\ Ends("max_iterations")
  /\ UNCHANGED <<registry, pending, iteration, store, started, unheard, subs, broken>>

CompleteUnsaved ==
  /\ Iterate /\ current.step = End
  /\ Ends("completed")
  /\ UNCHANGED store
Complete ==
  /\ Iterate /\ current.step = End
  /\ Save([current EXCEPT !.status = "completed"])
  /\ Ends("completed")

(* A pattern, council or workflow that is missing, an expression that fails. *)
Break ==
  /\ Iterate /\ AtStep({"broken", "condition"})
  /\ Save([current EXCEPT !.status = "failed"])
  /\ Ends("failed")

Branch ==
  /\ Iterate /\ AtStep({"condition"})
  /\ \E target \in {Def(current).steps[current.step].next,
                    Def(current).steps[current.step].otherwise} :
       LET x == [current EXCEPT !.step = IF target = None THEN End ELSE target]
       IN Save(x) /\ current' = x
  /\ UNCHANGED <<pc, results, at>>

Past(x) == [x EXCEPT !.step = Def(x).steps[x.step].next]

(* The engine is past the step before the driver carries it out. *)
Dispatch ==
  /\ Iterate /\ AtStep({"llm", "tool", "sub"})
  /\ Save(Past(current)) /\ current' = Past(current)
  /\ at' = current.step
  /\ pc' = "handle"
  /\ UNCHANGED results

(* No council in a pipeline: the result says failed, the store running. *)
Unsupported ==
  /\ Iterate /\ AtStep({"council"})
  /\ Save(Past(current))
  /\ Ends("failed")

(* A question: a StepOutcome has no prompt to read. *)
AskRaises ==
  /\ Iterate /\ AtStep({"ask"})
  /\ Save([Past(current) EXCEPT !.status = "waiting"])
  /\ pc' = "raised"
  /\ UNCHANGED <<results, current, at>>

-----------------------------------------------------------------------------
(* The handlers.  Each binds what the engine returns to a name of its own and
   saves it: the loop goes on from the state it had. *)
InHand == Def(current).steps[at]
Handle ==
  /\ pc = "handle"
  /\ pc' = "step"
  /\ UNCHANGED <<registry, results, current, at, iteration, unheard>>

Resumed(x, s) == [x EXCEPT !.done = @ \cup {s}]

StepSucceeds ==
  /\ Handle
  /\ InHand.type = "llm" \/ (InHand.type = "tool" /\ InHand.does = None)
  /\ Save(Resumed(current, at))
  /\ UNCHANGED <<pending, started, subs, broken>>

(* A sub-workflow that is not registered is none at all. *)
StepFails ==
  /\ Handle
  /\ \/ InHand.type \in {"llm", "tool"}
     \/ InHand.type = "sub" /\ InHand.does = None
  /\ Save(FailStep(current, at))
  /\ broken' = IF InHand.otherwise = None THEN broken \cup {current.id} ELSE broken
  /\ UNCHANGED <<pending, started, subs>>

(* publish_event: each workflow the event triggers is started and captured. *)
Publish ==
  /\ Handle
  /\ InHand.type = "tool" /\ InHand.does # None
  /\ LET xs == StartedAll(Routed(InHand.does)) IN
       /\ Capture(xs)
       /\ store' = [Stored(xs) EXCEPT ![current.id] = Resumed(current, at)]
  /\ UNCHANGED <<subs, broken>>

(* The captured sub-workflow is queued once more by the handler. *)
StartSub ==
  /\ Handle
  /\ InHand.type = "sub" /\ InHand.does # None
  /\ LET x == Started(InHand.does, started + 1) IN
       /\ started' = started + 1
       /\ pending' = pending \o <<x, x>>
       /\ store' = Stored(<<x>>)
  /\ subs' = subs \cup {started'}
  /\ UNCHANGED broken

(* The LLM's route or the file it writes raises, through run_pipeline. *)
StepRaises ==
  /\ pc = "handle" /\ InHand.type = "llm"
  /\ pc' = "raised"
  /\ UNCHANGED <<registry, pending, results, current, at, iteration, store, started, unheard,
                 subs, broken>>

Turn == TooLong \/ Complete \/ Break \/ Branch \/ Dispatch \/ Unsupported \/ AskRaises
          \/ StepSucceeds \/ StepFails \/ Publish \/ StartSub \/ StepRaises
Next == Announce \/ StartPipeline \/ Begin \/ Return \/ Turn

Spec == Init /\ [][Next]_vars
FairSpec == Spec /\ WF_vars(Next)
-----------------------------------------------------------------------------
(* The executions run so far, the one that is being run, and those to be run. *)
Ids(xs) == [n \in DOMAIN xs |-> xs[n].id]
Running == pc \in {"step", "handle", "raised"}
Line == Ids(results) \o (IF Running THEN <<current.id>> ELSE <<>>) \o Ids(pending)

(* Executions are run in the order in which they were started, each once: only a
   sub_workflow step has its execution run twice, in a row. *)
InOrder ==
  \A m, n \in DOMAIN Line : m < n =>
    \/ Line[m] < Line[n]
    \/ Line[m] = Line[n] /\ n = m + 1 /\ Line[m] \in subs

(* Every workflow that an event triggers inside the pipeline is run or waits to
   be: no execution started there is lost, and none from before comes in. *)
NoneForgotten == {Line[n] : n \in DOMAIN Line} = unheard + 1 .. started

(* What is reported agrees with what is stored, once an execution's last run is
   over, although handlers save states that the loop knows nothing of: reported
   completed is stored completed, reported failed is not. *)
LastRun(n) == \A m \in DOMAIN Line : m > n => Line[m] # Line[n]
StoredAsReported ==
  \A n \in DOMAIN results : LastRun(n) =>
    /\ results[n].status = "completed" => store[results[n].id].status = "completed"
    /\ results[n].status = "failed" => store[results[n].id].status # "completed"

(* Workflows that do not trigger each other in a circle come to an end, whatever
   loops their conditions make. *)
PipelineEnds == <>(pc \in {"returned", "raised"})

(* "follow on_failure if defined ... Otherwise the workflow is marked FAILED",
   agent/workflow/engine.py:344, 354: an execution reported completed has had no
   failed step without an on_failure edge. *)
FailedStepsCount ==
  \A n \in DOMAIN results : results[n].status = "completed" => results[n].id \notin broken
-----------------------------------------------------------------------------
(* Why the run of an execution ends: the turns it can still take. *)
TurnsLeft == CASE pc = "step"   -> 2 * (MaxIterations - iteration) + 1
               [] pc = "handle" -> 2 * (MaxIterations - iteration) + 2
               [] OTHER         -> 0

(* Every execution begins with 2 * MaxIterations + 1 turns, and each turn uses up one
   or more of them, whatever loops conditions and on_failure edges make and however
   much is started meanwhile: _run_single returns, or raises (devsquad/pipeline_driver.py:149-195). *)
RunsRunDown ==
  [][IF Active THEN TurnsLeft' < TurnsLeft
               ELSE Active' => TurnsLeft' = 2 * MaxIterations + 1]_vars
=============================================================================
