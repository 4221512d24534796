------------------------------ MODULE TodoPlan ------------------------------
(***************************************************************************)
(* A todo plan and the worker that carries it out: the todos and todo_deps *)
(* tables of TodoStore, one run of TodoWorker over them (one item a cycle, *)
(* again and again until nothing is left), and the LLM that executes an    *)
(* item and may edit the same tables through its stdlib.todo.* tools.      *)
(*                                                                         *)
(* An action is one access to the tables with the work before it: they are *)
(* all the run keeps, so a crash between two of them leaves what the next  *)
(* run finds.  Titles, descriptions, progress and outputs are left out.    *)
(***************************************************************************)
EXTENDS Naturals, FiniteSets

CONSTANTS Items,         \* every item that may ever be in the table
          Planned,       \* those added when the plan was made, in one batch
          Goals,         \* the planned items of type goal; the rest are tasks
          Plans,         \* the dependency relations a plan may have
          Retries,       \* retries_remaining of a new item
          MaxIterations, \* max_iterations_per_goal
          Tools,         \* the tools the executing LLM may call
          MaxEdits,      \* bound: tool calls in a behaviour
          MaxCrashes     \* bound: crashes in a behaviour

None == "none"

ASSUME PlanAssumption ==
  /\ Goals \subseteq Planned /\ Planned \subseteq Items
  /\ Plans \subseteq SUBSET (Items \X Items)
  /\ Retries \in Nat \ {0} /\ MaxIterations \in Nat \ {0}
  /\ Tools \subseteq {"create", "depend", "done", "failed", "blocked"}
  /\ MaxEdits \in Nat /\ MaxCrashes \in Nat
  /\ None \notin Items

VARIABLES
  status, retries, \* the todos table ("absent": no such row)
  age,             \* its created_at: 0 for the batch, then in order
  deps,            \* the todo_deps table: <<todo_id, depends_on>>
  pc, item,        \* where the run is, and the item it has in hand
  iteration,       \* of the inner loop of a goal
  edits, crashes,  \* counts, for the bounds
  edited,          \* history: the items a tool has touched
  attempts         \* history: how often each item was taken

tables == <<status, retries, age, deps>>
counts == <<edits, crashes, edited, attempts>>
vars == <<tables, pc, item, iteration, counts>>

Statuses == {"absent", "pending", "in_progress", "done", "failed", "blocked"}
Exists(i) == status[i] # "absent"

(* The item in hand is being executed, or, for a goal out of iterations, about
   to be marked failed once more. *)
Working == pc \in {"task", "goal"}

(* The tables and the run hold well-formed values; an item that waits to be
   tried again has a retry left, and one that failed has none. *)
TypeOK ==
  /\ status \in [Items -> Statuses]
  /\ retries \in [Items -> 0 .. Retries]
  /\ \A i \in Items : status[i] \in {"absent", "pending"} => retries[i] > 0
  /\ \A i \in Items : status[i] = "failed" => retries[i] = 0
  /\ age \in [Items -> 0 .. MaxEdits]
  /\ deps \subseteq Items \X Items
  /\ pc \in {"select", "task", "goal", "failing", "answer", "ended"}
  /\ item \in Items \cup {None}
  /\ iteration \in 0 .. MaxIterations
  /\ edits \in 0 .. MaxEdits
  /\ crashes \in 0 .. MaxCrashes
  /\ edited \subseteq Items
  /\ attempts \in [Items -> Nat]

Init ==
  /\ status = [i \in Items |-> IF i \in Planned THEN "pending" ELSE "absent"]
  /\ retries = [i \in Items |-> Retries]
  /\ age = [i \in Items |-> 0]
  /\ deps \in Plans
  /\ pc = "select" /\ item = None /\ iteration = 0
  /\ edits = 0 /\ crashes = 0 /\ edited = {}
  /\ attempts = [i \in Items |-> 0]

-----------------------------------------------------------------------------
(* What get_next_pending selects: an item in progress first, then a goal, then
   a task, each the oldest; rows of one batch have one created_at, and which of
   them comes first is the database's choice.  A dependency that is not in the
   table holds nothing up. *)
MetUnknownHolds(i) ==
  \A d \in Items : <<i, d>> \in deps => status[d] = "done"
MetUnlessFailed(i) ==
  \A d \in Items : <<i, d>> \in deps /\ Exists(d) => status[d] \in {"done", "failed"}
Met(i) ==
  \A d \in Items : <<i, d>> \in deps /\ Exists(d) => status[d] = "done"

Oldest(S) == {i \in S : \A j \in S : age[i] <= age[j]}
InProgress == {i \in Items : status[i] = "in_progress"}
Ready(S) == {i \in S : status[i] = "pending" /\ Met(i)}
NextPending ==
  IF InProgress # {} THEN Oldest(InProgress)
  ELSE IF Ready(Goals) # {} THEN Oldest(Ready(Goals))
  ELSE Oldest(Ready(Items \ Goals))

HasWorkRemaining == \E i \in Items : status[i] \in {"pending", "in_progress"}

MarkDone(i) ==
  /\ status' = [status EXCEPT ![i] = "done"]
  /\ UNCHANGED retries

(* Another attempt while retries remain. *)
MarkFailedKeepsRetries(i) ==
  /\ status' = [status EXCEPT ![i] = IF retries[i] > 1 THEN "pending" ELSE "failed"]
  /\ UNCHANGED retries
MarkFailedRequeuesAtZero(i) ==
  /\ status' = [status EXCEPT ![i] = IF retries[i] > 0 THEN "pending" ELSE "failed"]
  /\ retries' = [retries EXCEPT ![i] = IF retries[i] > 0 THEN retries[i] - 1 ELSE 0]
MarkFailed(i) ==
  /\ status' = [status EXCEPT ![i] = IF retries[i] > 1 THEN "pending" ELSE "failed"]
  /\ retries' = [retries EXCEPT ![i] = IF retries[i] > 1 THEN retries[i] - 1 ELSE 0]

-----------------------------------------------------------------------------
(* One cycle of TodoWorker: take an item and mark it in progress (a row that is
   in progress already stays as it is). *)
Take ==
  /\ pc = "select"
  /\ \E i \in NextPending :
       /\ status' = [status EXCEPT ![i] = "in_progress"]
       /\ item' = i
       /\ pc' = IF i \in Goals THEN "goal" ELSE "task"
       /\ attempts' = [attempts EXCEPT ![i] = @ + 1]
  /\ iteration' = 0
  /\ UNCHANGED <<retries, age, deps, edits, crashes, edited>>

NothingReady ==
  /\ pc = "select" /\ NextPending = {}
  /\ pc' = "answer" /\ item' = None
  /\ UNCHANGED <<tables, iteration, counts>>

(* The todo-execute-item workflow ends, one way or the other. *)
TaskDone ==
  /\ pc = "task"
  /\ MarkDone(item)
  /\ pc' = "answer"
  /\ UNCHANGED <<age, deps, item, iteration, counts>>

TaskFailed ==
  /\ pc = "task"
  /\ MarkFailed(item)
  /\ pc' = "answer"
  /\ UNCHANGED <<age, deps, item, iteration, counts>>

(* An iteration of the goal's inner loop: the adviser says COMPLETE or not, or
   a step breaks. *)
GoalIncompleteWraps ==
  /\ pc = "goal" /\ iteration < MaxIterations
  /\ iteration' = (iteration + 1) % MaxIterations
  /\ UNCHANGED <<tables, pc, item, counts>>
GoalIncomplete ==
  /\ pc = "goal" /\ iteration < MaxIterations
  /\ iteration' = iteration + 1
  /\ UNCHANGED <<tables, pc, item, counts>>

GoalDoneLoops ==
  /\ pc = "goal" /\ iteration < MaxIterations
  /\ MarkDone(item)
  /\ iteration' = iteration + 1
  /\ UNCHANGED <<age, deps, pc, item, counts>>
GoalDone ==
  /\ pc = "goal" /\ iteration < MaxIterations
  /\ MarkDone(item)
  /\ pc' = "answer"
  /\ UNCHANGED <<age, deps, item, iteration, counts>>

GoalBroken ==
  /\ pc = "goal" /\ iteration < MaxIterations
  /\ MarkFailed(item)
  /\ pc' = "answer"
  /\ UNCHANGED <<age, deps, item, iteration, counts>>

(* Out of iterations: the loop marks the goal failed and raises, and the handler
   of the cycle marks it failed again. *)
GoalExhausted ==
  /\ pc = "goal" /\ iteration = MaxIterations
  /\ MarkFailed(item)
  /\ pc' = "failing"
  /\ UNCHANGED <<age, deps, item, iteration, counts>>

FailedAgain ==
  /\ pc = "failing"
  /\ MarkFailed(item)
  /\ pc' = "answer"
  /\ UNCHANGED <<age, deps, item, iteration, counts>>

(* done is answered when no work remains; the execution stage calls again until
   then. *)
Answer ==
  /\ pc = "answer"
  /\ pc' = IF HasWorkRemaining THEN "select" ELSE "ended"
  /\ item' = None
  /\ UNCHANGED <<tables, iteration, counts>>

-----------------------------------------------------------------------------
(* A stdlib.todo.* tool, called by the LLM that executes an item, on any row. *)
Edit ==
  /\ Working /\ edits < MaxEdits
  /\ edits' = edits + 1
  /\ UNCHANGED <<pc, item, iteration, crashes, attempts>>

CreateTodo(i) ==
  /\ "create" \in Tools /\ ~Exists(i)
  /\ status' = [status EXCEPT ![i] = "pending"]
  /\ age' = [age EXCEPT ![i] = edits + 1]
  /\ UNCHANGED <<retries, deps, edited>>

AddDependency(i, d) ==
  /\ "depend" \in Tools
  /\ deps' = deps \cup {<<i, d>>}
  /\ edited' = edited \cup {i}
  /\ UNCHANGED <<status, retries, age>>

ToolMarksDone(i) ==
  /\ "done" \in Tools /\ Exists(i)
  /\ MarkDone(i)
  /\ edited' = edited \cup {i}
  /\ UNCHANGED <<age, deps>>

ToolMarksFailed(i) ==
  /\ "failed" \in Tools /\ Exists(i)
  /\ MarkFailed(i)
  /\ edited' = edited \cup {i}
  /\ UNCHANGED <<age, deps>>

ToolMarksBlocked(i) ==
  /\ "blocked" \in Tools /\ Exists(i)
  /\ status' = [status EXCEPT ![i] = "blocked"]
  /\ edited' = edited \cup {i}
  /\ UNCHANGED <<retries, age, deps>>

ToolCall ==
  /\ Edit
  /\ \E i \in Items :
       \/ CreateTodo(i)
       \/ \E d \in Items : AddDependency(i, d)
       \/ ToolMarksDone(i)
       \/ ToolMarksFailed(i)
       \/ ToolMarksBlocked(i)

(* The process ends, and another run begins on the same database. *)
Crash ==
  /\ pc # "ended" /\ crashes < MaxCrashes
  /\ crashes' = crashes + 1
  /\ pc' = "select" /\ item' = None /\ iteration' = 0
  /\ UNCHANGED <<tables, edits, edited, attempts>>

Cycle == Take \/ NothingReady \/ TaskDone \/ TaskFailed \/ GoalIncomplete
           \/ GoalDone \/ GoalBroken \/ GoalExhausted \/ FailedAgain \/ Answer
Next == Cycle \/ ToolCall \/ Crash

Spec == Init /\ [][Next]_vars
FairSpec == Spec /\ WF_vars(Cycle)
-----------------------------------------------------------------------------
Held(i) == item = i /\ pc \in {"task", "goal", "failing"}

(* One item at most is in progress, and while a run has an item in hand no other
   is; only a tool can take that item's mark away before the run does. *)
HandInv ==
  /\ pc \in {"task", "goal", "failing"} => item \in Items /\ Exists(item)
  /\ Working /\ item \notin edited => status[item] = "in_progress"
  /\ pc = "failing" => status[item] \in {"pending", "failed"}
  /\ Working => InProgress \subseteq {item}
  /\ pc \in {"failing", "answer", "ended"} => InProgress = {}
  /\ \A i, j \in InProgress : i = j

(* The attempt at i that neither a retry nor a crash has paid for yet. *)
Unpaid(i) ==
  \/ status[i] \in {"done", "failed", "blocked"}
  \/ status[i] = "in_progress" /\ Working
AttemptInv ==
  \A i \in Items :
    /\ attempts[i] <= Retries + crashes
    /\ status[i] \in {"absent", "pending", "in_progress"} => retries[i] > 0
    /\ attempts[i] + retries[i] <= Retries + crashes + (IF Unpaid(i) THEN 1 ELSE 0)

(* The original plan's dependencies of i that no tool has touched are done. *)
PlanMet(i) ==
  i \notin edited =>
    \A d \in Items : <<i, d>> \in deps /\ d \notin edited /\ age[d] = 0 /\ Exists(d)
                      => status[d] = "done"

(* get_next_pending resumes what is in progress without looking at its
   dependencies, and a dependency may be retried, blocked or failed at any time:
   still, an item in progress or in hand has the dependencies it was planned
   with, apart from what a tool did to them. *)
DependenciesDone ==
  \A i \in Items : status[i] = "in_progress" \/ Held(i) => PlanMet(i)

(* What every step preserves. *)
IndInv == TypeOK /\ HandInv /\ AttemptInv /\ DependenciesDone

(* The retries of mark_failed bound the attempts, whatever marks an item failed
   and however often: an item is taken at most Retries times, and once more for
   each crash, which uses up no retry. *)
AttemptsBounded == \A i \in Items : attempts[i] <= Retries + crashes

(* No pending item can be selected although work remains: the execution loop
   calls the worker again and again for nothing. *)
Stuck == NextPending = {} /\ HasWorkRemaining

Acyclic ==
  \A S \in SUBSET Items : S # {} => \E i \in S : \A d \in S : <<i, d>> \notin deps

(* An acyclic plan gets stuck only behind an item that failed for good or was
   blocked, never behind a dependency that is not in the table. *)
StuckOnlyByFailure ==
  Stuck /\ Acyclic => \E i \in Items : status[i] \in {"failed", "blocked"}

(* Unless a tool touches it, an item that is done stays done: no crash, retry or
   resumption carries it out again. *)
DoneIsFinal ==
  [][\A i \in Items : status[i] = "done" /\ i \notin edited'
       => status'[i] = "done" /\ attempts'[i] = attempts[i]]_vars

(* Retries, iterations and resumptions come to an end: the run ends, or has only
   items left that wait for something that will not be done. *)
RunEndsOrSticks == <>[](pc = "ended" \/ Stuck)
-----------------------------------------------------------------------------
(* Why a run ends or sticks: the steps it has left before it takes an item, ends,
   or finds itself stuck. *)
StepsLeft == CASE pc = "goal"                        -> MaxIterations - iteration + 5
               [] pc \in {"task", "failing"}         -> 4
               [] pc = "answer" /\ HasWorkRemaining  -> 3
               [] pc = "select"                      -> 2
               [] pc = "answer" /\ ~HasWorkRemaining -> 1
               [] pc = "ended"                       -> 0

(* Between items, with no tool at work: nothing can get such a run out of it. *)
StuckForGood == Stuck /\ pc \in {"select", "answer"}

(* Every step of a run takes an item, and AttemptsBounded bounds how often, or is one
   of the few it has left; the tools its LLM calls give it none.  A run that is stuck
   between two items remains so, also when it is begun again after a crash: no loop of
   the execution stage but this one is endless (todo_worker.py:110-303, stages.py:323-410). *)
RunRunsDown ==
  [][IF StuckForGood THEN StuckForGood'
     ELSE \/ StepsLeft' < StepsLeft
          \/ \E i \in Items : attempts'[i] = attempts[i] + 1
          \/ edits' = edits + 1 /\ StepsLeft' = StepsLeft
          \/ crashes' = crashes + 1]_vars
=============================================================================
