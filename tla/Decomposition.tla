---------------------------- MODULE Decomposition ----------------------------
(***************************************************************************)
(* One fan-out / fan-in batch of the decomposition runtime: the caller     *)
(* (Supervisor.decompose_task or DecompositionOrchestrator.parallelize)    *)
(* registers one job per subtask, a JoinHandle and a continuation job, and *)
(* polls the handle; a pool of worker threads pops jobs from the shared    *)
(* queue, runs them, and after each one updates the handle and unblocks or *)
(* cancels the siblings.                                                   *)
(*                                                                         *)
(* Every store, queue and handle method takes one lock, so one action is   *)
(* one such call (or several that save the same object in the same state); *)
(* everything between two calls interleaves.  The stores return copies: a  *)
(* job read by one action and saved by a later one may be stale by then.   *)
(*                                                                         *)
(* A few definitions are preceded by a faulty variant of themselves, a     *)
(* mistake one could make in that code; nothing uses them.  They show that *)
(* the properties notice (README, Mutants).                                *)
(***************************************************************************)
EXTENDS Naturals, Sequences, FiniteSets

CONSTANTS N,           \* number of subtasks in the plan
          Plans,       \* the plans a decomposer may produce; plan[c] is the
                       \* set of subtasks that subtask c names in depends_on
          Workers,     \* the threads of the pool
          Callers,     \* which of the two callers runs the batch
          PoolAtStart, \* is the pool already running when fan_out begins?
          MayFail,     \* the jobs whose executor may raise
          MayTimeOut   \* may the caller's poll deadline pass?

Children == 1 .. N
Cont == N + 1
Jobs == 1 .. N + 1

ASSUME PlanAssumption ==
  /\ N \in Nat \ {0}
  /\ Plans \subseteq [Children -> SUBSET Children]
  /\ Callers \subseteq {"decompose", "parallelize"}
  /\ PoolAtStart \subseteq BOOLEAN
  /\ MayFail \subseteq Jobs
  /\ MayTimeOut \in BOOLEAN

VARIABLES
  caller,     \* who runs the batch
  plan,       \* the dependencies between its subtasks
  poolUp,     \* the worker threads have been started
  opc,        \* where the caller's thread is
  next,       \* the job the caller is enqueueing
  copy,       \* the caller's private copy of the handle
  collected,  \* the children whose result the caller put in the merge
  store,      \* JobStore: store[j] is the job's saved state and result
  queue,      \* the shared queue of job ids
  handle,     \* JoinStore: the batch's JoinHandle
  pc,         \* where each worker thread is
  cur,        \* the job each worker holds
  todo,       \* the siblings it has still to look at
  sib,        \* the sibling it has read and is about to change
  need,       \* the dependencies of sib it has still to check
  ran         \* history: how the last execution of each job ended

callerVars == <<caller, plan, poolUp, opc, next, copy, collected>>
workerVars == <<pc, cur, todo, sib, need>>
vars == <<callerVars, workerVars, store, queue, handle, ran>>

(* A subtask's id is a fresh uuid, as is a job's: the two never coincide.  A
   child's depends_on holds subtask ids, the continuation's holds job ids. *)
SubtaskId(c) == Cont + c

DepsAreJobs(j) == IF j = Cont THEN Children ELSE plan[j]

Deps(j) == IF j = Cont THEN Children ELSE {SubtaskId(d) : d \in plan[j]}

JobStates == {"absent", "pending", "blocked", "running", "succeeded", "failed"}
Results == {"none", "output", "error"}
Record == [state : JobStates, result : Results]
Handle == [saved : BOOLEAN, state : {"waiting", "completed", "failed"},
           completed : SUBSET Children, failed : SUBSET Children]

Fanning == {"register", "block", "push", "handle", "pool"}
Answers == {"merged", "failed", "attribute_error", "value_error", "timed_out"}
CallerPCs == Fanning \cup Answers \cup
             {"poll", "cancel", "diagnose", "collect", "fan_in", "fan_in_save"}
Reporting == {"success", "list", "scan", "deps", "unblock", "push_sibling"}
Cancelling == {"failure", "cancel", "doom", "charge"}
Running == {"load", "hydrate", "start", "exec"}
WorkerPCs == {"idle"} \cup Running \cup Reporting \cup Cancelling

TypeOK ==
  /\ caller \in Callers
  /\ plan \in Plans
  /\ poolUp \in BOOLEAN
  /\ opc \in CallerPCs
  /\ next \in 1 .. N + 2
  /\ copy \in Handle
  /\ collected \subseteq Children
  /\ store \in [Jobs -> Record]
  /\ queue \in Seq(Jobs)
  /\ handle \in Handle
  /\ pc \in [Workers -> WorkerPCs]
  /\ cur \in [Workers -> Jobs]
  /\ todo \in [Workers -> SUBSET Jobs]
  /\ sib \in [Workers -> Jobs]
  /\ need \in [Workers -> SUBSET Nat]
  /\ ran \in [Jobs -> {"none", "ok", "error"}]

------------------------------------------------------------------------------
(* JobStore, JoinHandle and JoinStore. *)

Save(j, s, r) == store' = [store EXCEPT ![j] = [state |-> s, result |-> r]]

StoredState(id) == IF id \in Jobs THEN store[id].state ELSE "absent"

ReadyOneTooLate(done, bad) == Cardinality(done) + Cardinality(bad) > N

IsReady(done, bad) == Cardinality(done) + Cardinality(bad) >= N

AllAccountedFor(done, bad) == Cardinality(done) + Cardinality(bad) = N

AllSucceeded(done, bad) == Cardinality(done) = N /\ Cardinality(bad) = 0

MarkFailFast(done, bad) ==
  handle' = [handle EXCEPT
    !.completed = done,
    !.failed = bad,
    !.state = IF bad # {} THEN "failed"
              ELSE IF AllSucceeded(done, bad) THEN "completed" ELSE @]

(* mark_child_*, then _advance: the state is recomputed whenever all children
   are accounted for, whatever it was before. *)
Mark(done, bad) ==
  handle' = [handle EXCEPT
    !.completed = done,
    !.failed = bad,
    !.state = IF ~IsReady(done, bad) THEN @
              ELSE IF AllSucceeded(done, bad) THEN "completed" ELSE "failed"]

RecordCompleted(j) ==
  IF j \in Children THEN Mark(handle.completed \cup {j}, handle.failed)
                    ELSE UNCHANGED handle

RecordFailedAnyJob(j) == Mark(handle.completed, handle.failed \cup {j})

RecordFailedMoves(j) ==
  IF j \in Children THEN Mark(handle.completed \ {j}, handle.failed \cup {j})
                    ELSE UNCHANGED handle

RecordFailed(j) ==
  IF j \in Children THEN Mark(handle.completed, handle.failed \cup {j})
                    ELSE UNCHANGED handle

NewHandle == [saved |-> FALSE, state |-> "waiting", completed |-> {}, failed |-> {}]

Init ==
  /\ caller \in Callers
  /\ poolUp \in PoolAtStart
  /\ plan \in Plans
  /\ caller = "parallelize" => poolUp /\ \A c \in Children : plan[c] = {}
  /\ opc = "register"
  /\ next = 1
  /\ copy = NewHandle
  /\ collected = {}
  /\ store = [j \in Jobs |-> [state |-> "absent", result |-> "none"]]
  /\ queue = <<>>
  /\ handle = NewHandle
  /\ pc = [w \in Workers |-> "idle"]
  /\ cur = [w \in Workers |-> Cont]
  /\ todo = [w \in Workers |-> {}]
  /\ sib = [w \in Workers |-> Cont]
  /\ need = [w \in Workers |-> {}]
  /\ ran = [j \in Jobs |-> "none"]

------------------------------------------------------------------------------
(* The caller: fan_out. *)

(* register_job saves every job as PENDING, those with dependencies too. *)
Register ==
  /\ opc = "register"
  /\ Save(next, "pending", "none")
  /\ opc' = IF Deps(next) # {} THEN "block" ELSE "push"
  /\ UNCHANGED <<caller, plan, poolUp, next, copy, collected, queue, handle, workerVars, ran>>

Enqueued ==
  /\ next' = next + 1
  /\ opc' = IF next < N THEN "register"
            ELSE IF next = N THEN "handle"
            ELSE IF caller = "decompose" THEN "pool" ELSE "poll"
  /\ UNCHANGED <<caller, plan, poolUp, copy, collected, handle, workerVars, ran>>

Block ==
  /\ opc = "block"
  /\ Save(next, "blocked", "none")
  /\ Enqueued
  /\ UNCHANGED queue

Push ==
  /\ opc = "push"
  /\ queue' = Append(queue, next)
  /\ Enqueued
  /\ UNCHANGED store

(* The handle is saved after the children were enqueued, before the
   continuation is. *)
SaveHandle ==
  /\ opc = "handle"
  /\ handle' = [NewHandle EXCEPT !.saved = TRUE]
  /\ opc' = "register"
  /\ UNCHANGED <<caller, plan, poolUp, next, copy, collected, store, queue, workerVars, ran>>

(* decompose_task starts the pool after fan_out, unless it is running. *)
StartPool ==
  /\ opc = "pool"
  /\ poolUp' = TRUE
  /\ opc' = "poll"
  /\ UNCHANGED <<caller, plan, next, copy, collected, store, queue, handle, workerVars, ran>>

(* The caller: poll loop, timeout, fan_in. *)

PollUnfinished ==
  /\ opc = "poll"
  /\ handle.state # "completed"
  /\ copy' = handle
  /\ opc' = IF caller = "decompose" THEN "failed" ELSE "diagnose"
  /\ UNCHANGED <<caller, plan, poolUp, next, collected, store, queue, handle, workerVars, ran>>

PollFailed ==
  /\ opc = "poll"
  /\ handle.state = "failed"
  /\ copy' = handle
  /\ opc' = IF caller = "decompose" THEN "failed" ELSE "diagnose"
  /\ UNCHANGED <<caller, plan, poolUp, next, collected, store, queue, handle, workerVars, ran>>

(* parallelize reads each failed child and takes the error out of its result;
   a child without a result is None.get(...): an AttributeError. *)
Diagnose ==
  /\ opc = "diagnose"
  /\ \/ /\ copy.failed = {}
        /\ opc' = "failed"
        /\ UNCHANGED copy
     \/ \E c \in copy.failed :
          /\ opc' = IF store[c].result = "none" THEN "attribute_error" ELSE opc
          /\ copy' = [copy EXCEPT !.failed = @ \ {c}]
  /\ UNCHANGED <<caller, plan, poolUp, next, collected, store, queue, handle, workerVars, ran>>

PollSettled ==
  /\ opc = "poll"
  /\ handle.state # "waiting"
  /\ opc' = "collect"
  /\ UNCHANGED <<caller, plan, poolUp, next, copy, collected, store, queue, handle, workerVars, ran>>

PollCompleted ==
  /\ opc = "poll"
  /\ handle.state = "completed"
  /\ opc' = "collect"
  /\ UNCHANGED <<caller, plan, poolUp, next, copy, collected, store, queue, handle, workerVars, ran>>

Collect ==
  /\ opc = "collect"
  /\ collected' = {c \in Children : store[c].result # "none"}
  /\ opc' = "fan_in"
  /\ UNCHANGED <<caller, plan, poolUp, next, copy, store, queue, handle, workerVars, ran>>

FanInRead ==
  /\ opc = "fan_in"
  /\ copy' = handle
  /\ opc' = IF handle.state = "waiting" THEN "value_error" ELSE "fan_in_save"
  /\ UNCHANGED <<caller, plan, poolUp, next, collected, store, queue, handle, workerVars, ran>>

FanInSave ==
  /\ opc = "fan_in_save"
  /\ handle' = [copy EXCEPT !.state = "completed"]
  /\ opc' = "merged"
  /\ UNCHANGED <<caller, plan, poolUp, next, copy, collected, store, queue, workerVars, ran>>

(* The deadline passes; cancel() reads a copy of the handle ... *)
TimeOut ==
  /\ opc = "poll"
  /\ MayTimeOut
  /\ copy' = handle
  /\ opc' = IF handle.state = "waiting" THEN "cancel" ELSE "timed_out"
  /\ UNCHANGED <<caller, plan, poolUp, next, collected, store, queue, handle, workerVars, ran>>

(* ... and saves it back as FAILED: what was recorded meanwhile is lost. *)
CancelSave ==
  /\ opc = "cancel"
  /\ handle' = [copy EXCEPT !.state = "failed"]
  /\ opc' = "timed_out"
  /\ UNCHANGED <<caller, plan, poolUp, next, copy, collected, store, queue, workerVars, ran>>

------------------------------------------------------------------------------
(* A worker thread: Worker.process_next. *)

Goto(w, p) == pc' = [pc EXCEPT ![w] = p]

PopPeeks(w) ==
  /\ poolUp
  /\ pc[w] = "idle"
  /\ queue # <<>>
  /\ cur' = [cur EXCEPT ![w] = Head(queue)]
  /\ Goto(w, "load")
  /\ UNCHANGED <<callerVars, todo, sib, need, store, queue, handle, ran>>

Pop(w) ==
  /\ poolUp
  /\ pc[w] = "idle"
  /\ queue # <<>>
  /\ cur' = [cur EXCEPT ![w] = Head(queue)]
  /\ queue' = Tail(queue)
  /\ Goto(w, "load")
  /\ UNCHANGED <<callerVars, todo, sib, need, store, handle, ran>>

(* Only a stored FAILED (or POISON) job is skipped, without any callback. *)
Load(w) ==
  /\ pc[w] = "load"
  /\ Goto(w, IF store[cur[w]].state = "failed" THEN "idle" ELSE "hydrate")
  /\ UNCHANGED <<callerVars, cur, todo, sib, need, store, queue, handle, ran>>

(* The popped object is saved over whatever the store holds by now. *)
Hydrate(w) ==
  /\ pc[w] = "hydrate"
  /\ Save(cur[w], "pending", "none")
  /\ Goto(w, "start")
  /\ UNCHANGED <<callerVars, cur, todo, sib, need, queue, handle, ran>>

MarkRunning(w) ==
  /\ pc[w] = "start"
  /\ Save(cur[w], "running", "none")
  /\ Goto(w, "exec")
  /\ UNCHANGED <<callerVars, cur, todo, sib, need, queue, handle, ran>>

(* Each cycle of the execution loop saves the job again. *)
Checkpoint(w) ==
  /\ pc[w] = "exec"
  /\ Save(cur[w], "running", "none")
  /\ UNCHANGED <<callerVars, workerVars, queue, handle, ran>>

MarkSucceeded(w) ==
  /\ pc[w] = "exec"
  /\ Save(cur[w], "succeeded", "output")
  /\ ran' = [ran EXCEPT ![cur[w]] = "ok"]
  /\ Goto(w, "success")
  /\ UNCHANGED <<callerVars, cur, todo, sib, need, queue, handle>>

MarkFailed(w) ==
  /\ pc[w] = "exec"
  /\ cur[w] \in MayFail
  /\ Save(cur[w], "failed", "error")
  /\ ran' = [ran EXCEPT ![cur[w]] = "error"]
  /\ Goto(w, "failure")
  /\ UNCHANGED <<callerVars, cur, todo, sib, need, queue, handle>>

------------------------------------------------------------------------------
(* handle_child_success. *)

RecordSuccess(w) ==
  /\ pc[w] = "success"
  /\ IF handle.saved THEN RecordCompleted(cur[w]) /\ Goto(w, "list")
                     ELSE Goto(w, "idle") /\ UNCHANGED handle
  /\ UNCHANGED <<callerVars, cur, todo, sib, need, store, queue, ran>>

ListJobs(w) ==
  /\ pc[w] = "list"
  /\ todo' = [todo EXCEPT ![w] = {j \in Jobs : store[j].state # "absent"}]
  /\ Goto(w, "scan")
  /\ UNCHANGED <<callerVars, cur, sib, need, store, queue, handle, ran>>

(* The siblings are visited in the order they were registered in. *)
First(j, S) == j \in S /\ \A k \in S : j <= k

Visited(w, j) == todo' = [todo EXCEPT ![w] = @ \ {j}]

Scan(w) ==
  /\ pc[w] = "scan"
  /\ \E j \in todo[w] :
       /\ First(j, todo[w])
       /\ IF store[j].state = "blocked" /\ Deps(j) # {}
          THEN /\ sib' = [sib EXCEPT ![w] = j]
               /\ need' = [need EXCEPT ![w] = Deps(j)]
               /\ Goto(w, "deps")
               /\ UNCHANGED todo
          ELSE /\ Visited(w, j)
               /\ UNCHANGED <<sib, need, pc>>
  /\ UNCHANGED <<callerVars, cur, store, queue, handle, ran>>

OneDependencySuffices(w) ==
  /\ pc[w] = "deps"
  /\ \E d \in need[w] :
       IF StoredState(d) = "succeeded"
       THEN Goto(w, "unblock") /\ UNCHANGED todo
       ELSE Visited(w, sib[w]) /\ Goto(w, "scan")
  /\ UNCHANGED <<callerVars, cur, sib, need, store, queue, handle, ran>>

CheckDependency(w) ==
  /\ pc[w] = "deps"
  /\ \E d \in need[w] :
       IF StoredState(d) = "succeeded"
       THEN /\ need' = [need EXCEPT ![w] = @ \ {d}]
            /\ Goto(w, IF need[w] = {d} THEN "unblock" ELSE "deps")
            /\ UNCHANGED todo
       ELSE /\ Visited(w, sib[w])
            /\ Goto(w, "scan")
            /\ UNCHANGED need
  /\ UNCHANGED <<callerVars, cur, sib, store, queue, handle, ran>>

(* The copy read by Scan is saved as PENDING, then pushed. *)
Unblock(w) ==
  /\ pc[w] = "unblock"
  /\ Save(sib[w], "pending", "none")
  /\ Goto(w, "push_sibling")
  /\ UNCHANGED <<callerVars, cur, todo, sib, need, queue, handle, ran>>

UnblockWithoutPush(w) ==
  /\ pc[w] = "push_sibling"
  /\ Visited(w, sib[w])
  /\ Goto(w, "scan")
  /\ UNCHANGED <<callerVars, cur, sib, need, store, queue, handle, ran>>

PushSibling(w) ==
  /\ pc[w] = "push_sibling"
  /\ queue' = Append(queue, sib[w])
  /\ Visited(w, sib[w])
  /\ Goto(w, "scan")
  /\ UNCHANGED <<callerVars, cur, sib, need, store, handle, ran>>

------------------------------------------------------------------------------
(* handle_child_failure. *)

RecordFailure(w) ==
  /\ pc[w] = "failure"
  /\ IF handle.saved
     THEN /\ RecordFailed(cur[w])
          /\ todo' = [todo EXCEPT ![w] = Children \ {cur[w]}]
          /\ Goto(w, "cancel")
     ELSE Goto(w, "idle") /\ UNCHANGED <<handle, todo>>
  /\ UNCHANGED <<callerVars, cur, sib, need, store, queue, ran>>

Survey(w) ==
  /\ pc[w] = "cancel"
  /\ \E j \in todo[w] :
       /\ First(j, todo[w])
       /\ IF store[j].state \in {"blocked", "pending"}
          THEN sib' = [sib EXCEPT ![w] = j] /\ Goto(w, "doom") /\ UNCHANGED todo
          ELSE Visited(w, j) /\ UNCHANGED <<sib, pc>>
  /\ UNCHANGED <<callerVars, cur, need, store, queue, handle, ran>>

(* The copy read by Survey is saved as FAILED, then charged to the handle. *)
CancelSibling(w) ==
  /\ pc[w] = "doom"
  /\ Save(sib[w], "failed", "none")
  /\ Goto(w, "charge")
  /\ UNCHANGED <<callerVars, cur, todo, sib, need, queue, handle, ran>>

CancelUncharged(w) ==
  /\ pc[w] = "charge"
  /\ Visited(w, sib[w])
  /\ Goto(w, "cancel")
  /\ UNCHANGED <<callerVars, cur, sib, need, store, queue, handle, ran>>

Charge(w) ==
  /\ pc[w] = "charge"
  /\ RecordFailed(sib[w])
  /\ Visited(w, sib[w])
  /\ Goto(w, "cancel")
  /\ UNCHANGED <<callerVars, cur, sib, need, store, queue, ran>>

(* The callback returns and the thread takes its next job. *)
Return(w) ==
  /\ pc[w] \in {"scan", "cancel"}
  /\ todo[w] = {}
  /\ Goto(w, "idle")
  /\ UNCHANGED <<callerVars, cur, todo, sib, need, store, queue, handle, ran>>

------------------------------------------------------------------------------
FanOut == Register \/ Block \/ Push \/ SaveHandle \/ StartPool

FanIn == PollFailed \/ Diagnose \/ PollCompleted \/ Collect \/ FanInRead \/ FanInSave

Process(w) == \/ Pop(w) \/ Load(w) \/ Hydrate(w) \/ MarkRunning(w)
              \/ MarkSucceeded(w) \/ MarkFailed(w)

Complete(w) == \/ RecordSuccess(w) \/ ListJobs(w) \/ Scan(w) \/ CheckDependency(w)
               \/ Unblock(w) \/ PushSibling(w)
               \/ RecordFailure(w) \/ Survey(w) \/ CancelSibling(w) \/ Charge(w)
               \/ Return(w)

Next == \/ FanOut
        \/ FanIn
        \/ TimeOut
        \/ CancelSave
        \/ \E w \in Workers : Process(w) \/ Checkpoint(w) \/ Complete(w)

Spec == Init /\ [][Next]_vars

(* Threads are scheduled, an execution ends (the executor is bounded by its
   own timeout), and nothing makes a deadline pass. *)
Fairness ==
  /\ WF_vars(FanOut \/ FanIn \/ CancelSave)
  /\ \A w \in Workers : WF_vars(Process(w) \/ Complete(w))

FairSpec == Spec /\ Fairness

------------------------------------------------------------------------------
(* Safety, for any number of workers. *)

AllRanWell == \A c \in Children : ran[c] = "ok"
SomeChildFailed == \E c \in Children : ran[c] = "error"

(* The handle says COMPLETED only when every child of the batch has run and
   succeeded, and every child's output is in the job store: no race between
   completions, cancellations and the caller's own saves of the handle makes
   the batch look complete while an output is missing or overwritten. *)
CompletedMeansAllOutputs ==
  handle.state = "completed" =>
    \A c \in Children : store[c] = [state |-> "succeeded", result |-> "output"]

(* While the continuation job holds the merge, every child's output is there:
   unblocking it on the last completion and reading the results later is safe
   even though the scan that unblocked it used stale copies. *)
ContinuationSeesAllOutputs ==
  \A w \in Workers : (pc[w] = "exec" /\ cur[w] = Cont) =>
    \A c \in Children : store[c] = [state |-> "succeeded", result |-> "output"]

(* What the caller merges is the output of every child, never a subset. *)
MergeIsWhole == opc = "merged" => collected = Children

(* A child's execution ends once: after that no worker takes the child up again, and
   how it ended never changes, whoever is unblocking, cancelling or skipping it at
   the time.  (A worker would run a SUCCEEDED job that is popped again.) *)
NoChildRunsTwice ==
  [][\A c \in Children : ran[c] # "none" =>
       /\ ran'[c] = ran[c]
       /\ \A w \in Workers : cur'[w] = c => pc'[w] \notin Running]_vars

(* Unless the caller gave up, the handle's state moves once, out of WAITING,
   and nothing recorded on it is lost (_advance recomputes the state on every
   later record, fan_in saves a copy of the handle it read before). *)
HandleSettlesOnce ==
  [][opc \notin {"cancel", "timed_out"} =>
       /\ (handle.saved /\ handle.state # "waiting") => handle'.state = handle.state
       /\ handle.completed \subseteq handle'.completed
       /\ handle.failed \subseteq handle'.failed]_vars

(* The record of a child that has run is rewritten by a cancellation that a failure
   of the batch justifies, and by nothing else: no worker, scan or caller saves a
   copy over it that it read before.  (The cancellation may: it saves a copy that it
   read while the child had still to run.  Nor is the continuation so protected: two
   threads may both find it unblockable, and the second saves it as PENDING and
   pushes it again after it has run, although SUCCEEDED has no way out in JobState.) *)
OutcomesAreKept ==
  [][\A c \in Children : ran[c] # "none" /\ store'[c] # store[c] =>
       store'[c] = [state |-> "failed", result |-> "none"] /\ SomeChildFailed]_vars

------------------------------------------------------------------------------
(* Why the safety invariants hold: the inductive invariant. *)

Holds(w, j) == cur[w] = j /\ pc[w] # "idle"

(* The caller enqueues the jobs in order, and pushes only independent children. *)
EnqueueInv ==
  /\ opc \in {"register", "block", "push"} => next \in Jobs
  /\ opc = "push" => next \in Children /\ plan[next] = {}
  /\ opc = "handle" => next = Cont
  /\ \A c \in Children : c >= next => ran[c] = "none"

(* A child is in one place: not pushed yet, once in the queue, with one worker,
   or done; it has not run until a worker has taken it through execution. *)
QueuePlace ==
  \A i \in 1 .. Len(queue) : queue[i] \in Children =>
    /\ queue[i] < next
    /\ ran[queue[i]] = "none"
    /\ \A k \in 1 .. Len(queue) : queue[k] = queue[i] => k = i
    /\ \A w \in Workers : ~Holds(w, queue[i])

WorkerPlace ==
  \A w \in Workers : cur[w] \in Children /\ pc[w] # "idle" =>
    /\ cur[w] < next
    /\ \A v \in Workers : Holds(v, cur[w]) => v = w
    /\ pc[w] \in Running => ran[cur[w]] = "none"
    /\ pc[w] \in Reporting => ran[cur[w]] = "ok"
    /\ pc[w] \in Cancelling => ran[cur[w]] = "error"

PlaceInv == QueuePlace /\ WorkerPlace

(* Only the continuation is ever unblocked, and only after every child ran well. *)
ContinuationInv ==
  /\ \A i \in 1 .. Len(queue) : queue[i] = Cont => AllRanWell
  /\ \A w \in Workers : Holds(w, Cont) => AllRanWell

DepsInv ==
  \A w \in Workers :
    /\ pc[w] = "deps" =>
         /\ need[w] # {} /\ need[w] \subseteq Deps(sib[w])
         /\ sib[w] = Cont => \A c \in Children \ need[w] : ran[c] = "ok"
    /\ pc[w] \in {"unblock", "push_sibling"} => sib[w] = Cont /\ AllRanWell

UnblockInv == ContinuationInv /\ DepsInv

(* A finished child's record is overwritten only when some child has failed:
   a sibling is cancelled only then. *)
FinishedInv ==
  \A c \in Children :
    /\ store[c].state = "succeeded" => ran[c] = "ok"
    /\ ran[c] = "ok" => \/ store[c] = [state |-> "succeeded", result |-> "output"]
                        \/ SomeChildFailed

CancelInv ==
  \A w \in Workers :
    /\ pc[w] \in {"cancel", "doom", "charge"} => todo[w] \subseteq Children
    /\ pc[w] \in {"doom", "charge"} => sib[w] \in Children /\ SomeChildFailed

StoreInv == FinishedInv /\ CancelInv

(* The handle and the caller's copy record completions and failures that
   happened, and the caller goes on to merge only when every child ran well. *)
HandleInv ==
  /\ \A c \in handle.completed \cup copy.completed : ran[c] = "ok"
  /\ handle.failed # {} \/ copy.failed # {} => SomeChildFailed
  /\ handle.state = "completed" => AllRanWell
  /\ opc = "diagnose" => SomeChildFailed
  /\ opc \in {"collect", "fan_in", "fan_in_save", "merged"} => AllRanWell
  /\ opc \in {"fan_in", "fan_in_save", "merged"} => collected = Children

(* While nobody cancelled the batch, the handle's state is what its two lists say. *)
HandleStored == next > N /\ opc # "handle"

SettleInv ==
  /\ ~HandleStored => handle = NewHandle
  /\ opc \notin {"register", "block", "push", "handle"} => HandleStored
  /\ \A w \in Workers : pc[w] \in {"cancel", "doom", "charge"} => HandleStored
  /\ opc \notin {"cancel", "timed_out"} =>
       /\ handle.state = "completed" => handle.completed = Children /\ handle.failed = {}
       /\ handle.state = "failed" =>
            handle.failed # {} /\ IsReady(handle.completed, handle.failed)
  /\ opc \in {"collect", "fan_in", "fan_in_save"} => handle.state = "completed"
  /\ opc = "fan_in_save" => copy = handle

IndInv == TypeOK /\ EnqueueInv /\ PlaceInv /\ UnblockInv /\ StoreInv /\ HandleInv
          /\ SettleInv

------------------------------------------------------------------------------
(* Why a batch comes to an end, however many workers the pool has, when
   decompose_task starts the pool after fan_out: then whoever finishes a job finds
   the handle saved and every sibling registered. *)

PoolIsLate == PoolAtStart \subseteq {FALSE}

LateInv ==
  /\ poolUp => opc \notin Fanning
  /\ \A w \in Workers : pc[w] # "idle" => poolUp
  /\ opc \notin Fanning \/ opc = "pool" => next = N + 2
  /\ HandleStored => handle.saved
  /\ opc \in {"cancel", "fan_in_save"} => copy.saved
  /\ \A j \in Jobs : j < next => store[j].state # "absent"
  /\ opc \in {"block", "push"} => store[next].state # "absent"

(* Until the caller has its answer, what has run is on the handle or about to be,
   and a handle that accounts for every child has settled. *)
Undecided == opc \in Fanning \cup {"poll"}

ReportInv ==
  Undecided =>
    /\ \A c \in Children :
         /\ ran[c] = "ok" => \/ c \in handle.completed
                             \/ \E w \in Workers : cur[w] = c /\ pc[w] = "success"
         /\ ran[c] = "error" => \/ c \in handle.failed
                                \/ \E w \in Workers : cur[w] = c /\ pc[w] = "failure"
    /\ IsReady(handle.completed, handle.failed) => handle.state # "waiting"

Underway(j) == \/ \E i \in 1 .. Len(queue) : queue[i] = j
               \/ \E w \in Workers : Holds(w, j)

Charging(c) == \E w \in Workers : pc[w] = "charge" /\ sib[w] = c

(* A child that has not run was cancelled, and is charged for it, or is held. *)
CancelledInv ==
  \A c \in Children : ran[c] = "none" =>
    /\ store[c].state = "failed" =>
         SomeChildFailed /\ (Undecided => c \in handle.failed \/ Charging(c))
    /\ store[c].state = "running" => Underway(c)

(* Once a child has failed, whoever reports it will come to each that has not run. *)
Hunted(c) ==
  \E w \in Workers : \/ pc[w] = "failure"
                     \/ pc[w] \in {"cancel", "doom", "charge"} /\ c \in todo[w]

HuntInv ==
  Undecided /\ SomeChildFailed =>
    \A c \in Children : ran[c] = "none" =>
      c \in handle.failed \/ Charging(c) \/ Underway(c) \/ Hunted(c)

(* A child without dependencies was pushed, and is skipped only when cancelled. *)
PushedInv ==
  /\ \A c \in Children :
       c < next /\ plan[c] = {} => ran[c] # "none" \/ SomeChildFailed \/ Underway(c)
  /\ opc = "block" => Deps(next) # {}

(* The continuation stays blocked until every child has run well; from then on the
   last to report it, at least, will find them all SUCCEEDED and push it. *)
WillFindIt(w) == \/ pc[w] \in {"success", "list"}
                 \/ pc[w] \in {"scan", "deps", "unblock"} /\ Cont \in todo[w]

WakeInv ==
  /\ next = N + 2 /\ ~AllRanWell => store[Cont].state = "blocked"
  /\ store[Cont].state = "failed" => ran[Cont] # "none"
  /\ \A w \in Workers : Holds(w, Cont) => pc[w] \in Running \/ ran[Cont] # "none"
  /\ AllRanWell =>
       \/ ran[Cont] # "none" \/ Underway(Cont)
       \/ \E w \in Workers : pc[w] = "push_sibling"
       \/ store[Cont].state = "blocked" /\ \E w \in Workers : WillFindIt(w)

ProgressInv == /\ LateInv /\ ReportInv /\ CancelledInv /\ HuntInv /\ PushedInv
               /\ WakeInv

(* When the caller waits and nothing moves any more, there is nothing to wait for
   but a dependency that is never met: no child that could run is left behind, the
   handle has settled if a child has failed or all ran well, and the continuation
   has run in the latter case. *)
Quiet == queue = <<>> /\ \A w \in Workers : pc[w] = "idle"

NothingHangs ==
  Quiet /\ opc \notin Fanning =>
    /\ \A c \in Children : plan[c] = {} => ran[c] # "none" \/ SomeChildFailed
    /\ opc = "poll" /\ (AllRanWell \/ SomeChildFailed) => handle.state # "waiting"
    /\ AllRanWell => ran[Cont] # "none"

------------------------------------------------------------------------------
(* Liveness. *)

(* A batch whose children all succeed is reported complete. *)
SuccessIsReported ==
  (\A c \in Children : ran[c] = "ok") ~> handle.state = "completed"

(* A failed child decides the batch: what it cancels is charged to the handle,
   what still runs reports itself, and the poll loop gets its answer. *)
FailureIsReported == (\E c \in Children : ran[c] = "error") ~> opc = "failed"

(* The continuation runs once all the children have succeeded. *)
ContinuationRuns == (\A c \in Children : ran[c] = "ok") ~> ran[Cont] # "none"

------------------------------------------------------------------------------
(* The promise a batch makes, seen through the executions and the caller. *)

Outcome(c) == CASE ran[c] = "none" -> "open"
                [] ran[c] = "ok" -> "ok"
                [] ran[c] = "error" -> "failed"

Verdict == CASE opc = "merged" -> "completed"
             [] opc = "failed" -> "failed"
             [] opc = "attribute_error" -> "undiagnosed"
             [] opc = "value_error" -> "refused"
             [] opc = "timed_out" -> "timed_out"
             [] OTHER -> "none"

Promise == INSTANCE ForkJoin WITH
             outcome <- [c \in Children |-> Outcome(c)],
             verdict <- Verdict

(* With any number of threads, the runtime keeps what ForkJoin promises: each child's
   execution ends at most once, and the caller is told once, of success only when
   every child ended well and of failure only when one did not.  It is never told
   that fan_in refuses to merge (a ValueError). *)
KeepsPromise == Promise!Spec
=============================================================================
