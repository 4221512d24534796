------------------------- MODULE Decomposition_proofs -------------------------
(***************************************************************************)
(* Proofs about Decomposition, for every number of subtasks, every plan,   *)
(* every set of workers, and any mix of failures and timeouts.             *)
(***************************************************************************)
EXTENDS Decomposition, FiniteSetTheorems, TLAPS

(* Facts about the constants and the identifiers. *)
LEMMA Ids == /\ N \in Nat /\ N >= 1
             /\ Cont \in Jobs /\ Cont \notin Children
             /\ Children \subseteq Jobs
             /\ \A j \in Jobs : j \in Children \/ j = Cont
             /\ \A j \in Jobs : j \in Nat /\ j >= 1 /\ j <= N + 1
BY PlanAssumption DEF Cont, Jobs, Children

(* No child's dependency is the id of a job: a child's subtask ids are never
   found in the job store. *)
LEMMA SubtaskIdsAreNoJobs ==
  ASSUME TypeOK, NEW c \in Children
  PROVE  Deps(c) \cap Jobs = {} /\ Deps(c) \subseteq Nat
<1>1. plan[c] \subseteq Children
  BY PlanAssumption DEF TypeOK
<1>2. Deps(c) = {SubtaskId(d) : d \in plan[c]}
  BY Ids DEF Deps
<1> QED BY <1>1, <1>2, Ids DEF SubtaskId, Jobs, Children, Cont

(* The identifiers a job depends on are numbers. *)
LEMMA DepsAreNat == TypeOK => \A j \in Jobs : Deps(j) \subseteq Nat
BY Ids, SubtaskIdsAreNoJobs DEF Deps, Children

(* The variables have their types initially. *)
LEMMA TypeInit == Init => TypeOK
BY Ids, PlanAssumption DEF Init, TypeOK, CallerPCs, Fanning, Answers, WorkerPCs, Running,
   Reporting, Cancelling, Handle, NewHandle, Record, JobStates, Results

(* What a save and what a record on the handle do to the types. *)
LEMMA SaveType ==
  ASSUME TypeOK, NEW j \in Jobs, NEW s \in JobStates, NEW r \in Results, Save(j, s, r)
  PROVE  store' \in [Jobs -> Record]
BY DEF TypeOK, Save, Record

(* A save replaces one job's record. *)
LEMMA SaveEffect ==
  ASSUME TypeOK, NEW j \in Jobs, NEW s, NEW r, Save(j, s, r)
  PROVE  /\ store'[j] = [state |-> s, result |-> r]
         /\ \A k \in Jobs : k # j => store'[k] = store[k]
BY DEF TypeOK, Save

(* Marking children on the handle keeps it a handle. *)
LEMMA MarkType ==
  ASSUME TypeOK, NEW done \in SUBSET Children, NEW bad \in SUBSET Children, Mark(done, bad)
  PROVE  handle' \in Handle
BY DEF TypeOK, Mark, Handle

(* So does recording any job: one that is not a child is ignored. *)
LEMMA RecordType ==
  ASSUME TypeOK, NEW j \in Jobs, RecordCompleted(j) \/ RecordFailed(j)
  PROVE  handle' \in Handle
BY MarkType DEF RecordCompleted, RecordFailed, TypeOK, Handle

(* A worker that goes to one of its program points, and a worker that has seen a
   job on its list, keep the types of what they change. *)
LEMMA GotoType ==
  ASSUME TypeOK, NEW w \in Workers, NEW p \in WorkerPCs, Goto(w, p)
  PROVE  pc' \in [Workers -> WorkerPCs]
BY DEF TypeOK, Goto

LEMMA VisitedType ==
  ASSUME TypeOK, NEW w \in Workers, NEW j \in Jobs, Visited(w, j)
  PROVE  todo' \in [Workers -> SUBSET Jobs]
BY DEF TypeOK, Visited

(* Where a worker goes next, and what is left on its list, when it saves a job's
   outcome and when it walks through a list of jobs. *)
LEMMA OutcomePoint ==
  ASSUME TypeOK, NEW w \in Workers, MarkSucceeded(w) \/ MarkFailed(w)
  PROVE  pc' \in [Workers -> WorkerPCs]
<1>1. "success" \in WorkerPCs /\ "failure" \in WorkerPCs
  BY DEF WorkerPCs, Reporting, Cancelling
<1>2. Goto(w, "success") \/ Goto(w, "failure")
  BY DEF MarkSucceeded, MarkFailed
<1> QED BY <1>1, <1>2, GotoType

LEMMA WalkTypes ==
  ASSUME TypeOK, NEW w \in Workers,
         Scan(w) \/ CheckDependency(w) \/ RecordFailure(w) \/ Survey(w)
  PROVE  pc' \in [Workers -> WorkerPCs] /\ todo' \in [Workers -> SUBSET Jobs]
<1>1. \A p \in {"idle", "scan", "deps", "unblock", "cancel", "doom"} : p \in WorkerPCs
  BY DEF WorkerPCs, Reporting, Cancelling
<1>2. /\ pc \in [Workers -> WorkerPCs] /\ todo \in [Workers -> SUBSET Jobs]
      /\ sib[w] \in Jobs /\ todo[w] \subseteq Jobs
  BY DEF TypeOK
<1>3. CASE Scan(w)
  <2>1. PICK j \in todo[w] : \/ Goto(w, "deps") /\ UNCHANGED todo
                             \/ Visited(w, j) /\ UNCHANGED pc
    BY <1>3 DEF Scan
  <2>2. j \in Jobs
    BY <1>2
  <2>3. CASE Goto(w, "deps") /\ UNCHANGED todo
    BY <1>1, <1>2, <2>3, GotoType
  <2>4. CASE Visited(w, j) /\ UNCHANGED pc
    BY <1>2, <2>2, <2>4, VisitedType
  <2> QED BY <2>1, <2>3, <2>4
<1>4. CASE CheckDependency(w)
  <2>1. \/ (Goto(w, "unblock") \/ Goto(w, "deps")) /\ UNCHANGED todo
        \/ Visited(w, sib[w]) /\ Goto(w, "scan")
    BY <1>4 DEF CheckDependency
  <2> QED BY <1>1, <1>2, <2>1, GotoType, VisitedType
<1>5. CASE RecordFailure(w)
  <2>1. \/ todo' = [todo EXCEPT ![w] = Children \ {cur[w]}] /\ Goto(w, "cancel")
        \/ Goto(w, "idle") /\ UNCHANGED todo
    BY <1>5 DEF RecordFailure
  <2>2. Children \ {cur[w]} \in SUBSET Jobs
    BY Ids
  <2>3. todo' \in [Workers -> SUBSET Jobs]
    BY <1>2, <2>1, <2>2
  <2> QED BY <1>1, <2>1, <2>3, GotoType
<1>6. CASE Survey(w)
  <2>1. PICK j \in todo[w] : \/ Goto(w, "doom") /\ UNCHANGED todo
                             \/ Visited(w, j) /\ UNCHANGED pc
    BY <1>6 DEF Survey
  <2>2. j \in Jobs
    BY <1>2
  <2>3. CASE Goto(w, "doom") /\ UNCHANGED todo
    BY <1>1, <1>2, <2>3, GotoType
  <2>4. CASE Visited(w, j) /\ UNCHANGED pc
    BY <1>2, <2>2, <2>4, VisitedType
  <2> QED BY <2>1, <2>3, <2>4
<1> QED BY <1>3, <1>4, <1>5, <1>6

(* Type correctness of every step. *)
LEMMA TypeStep == TypeOK /\ EnqueueInv /\ [Next]_vars => TypeOK'
<1> SUFFICES ASSUME TypeOK, EnqueueInv, [Next]_vars PROVE TypeOK'
  OBVIOUS
<1> USE Ids DEF TypeOK, callerVars, workerVars, CallerPCs, Fanning, Answers, WorkerPCs,
        Running, Reporting, Cancelling, JobStates, Results
<1>1. CASE Register
  BY <1>1, SaveType DEF Register, EnqueueInv
<1>2. CASE Block
  BY <1>2, SaveType DEF Block, Enqueued, EnqueueInv
<1>3. CASE Push
  BY <1>3 DEF Push, Enqueued, EnqueueInv
<1>4. CASE SaveHandle
  BY <1>4 DEF SaveHandle, NewHandle, Handle
<1>5. CASE StartPool
  BY <1>5 DEF StartPool
<1>6. CASE FanIn
  <2>1. CASE Diagnose
    <3>1. /\ UNCHANGED <<caller, plan, poolUp, next, collected, store, queue, handle>>
          /\ UNCHANGED <<pc, cur, todo, sib, need, ran>>
      BY <2>1 DEF Diagnose
    <3>2. opc' \in CallerPCs
      BY <2>1 DEF Diagnose
    <3>3. copy' = copy \/ \E c \in copy.failed : copy' = [copy EXCEPT !.failed = @ \ {c}]
      BY <2>1 DEF Diagnose
    <3>4. ASSUME NEW c \in copy.failed, copy' = [copy EXCEPT !.failed = @ \ {c}]
          PROVE  copy' \in Handle
      <4>1. copy.failed \ {c} \in SUBSET Children
        BY DEF Handle
      <4> QED BY <3>4, <4>1 DEF Handle
    <3> QED BY <3>1, <3>2, <3>3, <3>4
  <2>2. CASE FanInSave
    BY <2>2 DEF FanInSave, Handle
  <2> QED BY <1>6, <2>1, <2>2 DEF FanIn, PollFailed, PollCompleted, Collect, FanInRead
<1>7. CASE TimeOut
  BY <1>7 DEF TimeOut
<1>8. CASE CancelSave
  BY <1>8 DEF CancelSave, Handle
<1>9. ASSUME NEW w \in Workers, Process(w) \/ Checkpoint(w)
      PROVE  TypeOK'
  <2>1. CASE Pop(w)
    BY <2>1 DEF Pop, Goto
  <2>2. CASE Load(w)
    BY <2>2 DEF Load, Goto
  <2>3. CASE Hydrate(w) \/ MarkRunning(w) \/ Checkpoint(w)
    BY <2>3, SaveType DEF Hydrate, MarkRunning, Checkpoint, Goto
  <2>4. CASE MarkSucceeded(w) \/ MarkFailed(w)
    <3>1. pc' \in [Workers -> WorkerPCs]
      BY <2>4, OutcomePoint
    <3>2. store' \in [Jobs -> Record]
      BY <2>4, SaveType DEF MarkSucceeded, MarkFailed
    <3>3. /\ UNCHANGED <<callerVars, cur, todo, sib, need, queue, handle>>
          /\ ran' = [ran EXCEPT ![cur[w]] = "ok"] \/ ran' = [ran EXCEPT ![cur[w]] = "error"]
      BY <2>4 DEF MarkSucceeded, MarkFailed
    <3> QED BY <3>1, <3>2, <3>3
  <2> QED BY <1>9, <2>1, <2>2, <2>3, <2>4 DEF Process
<1>10. ASSUME NEW w \in Workers, Complete(w)
       PROVE  TypeOK'
  <2>1. CASE RecordSuccess(w)
    BY <2>1, RecordType DEF RecordSuccess, Goto
  <2>2. CASE ListJobs(w)
    BY <2>2 DEF ListJobs, Goto
  <2>3. CASE Scan(w)
    <3>1. PICK j \in todo[w] :
            \/ /\ sib' = [sib EXCEPT ![w] = j]
               /\ need' = [need EXCEPT ![w] = Deps(j)]
               /\ Goto(w, "deps")
               /\ UNCHANGED todo
            \/ Visited(w, j) /\ UNCHANGED <<sib, need, pc>>
      BY <2>3 DEF Scan
    <3>2. j \in Jobs /\ Deps(j) \subseteq Nat
      BY DepsAreNat
    <3>3. UNCHANGED <<callerVars, cur, store, queue, handle, ran>>
      BY <2>3 DEF Scan
    <3>4. sib' \in [Workers -> Jobs]
      BY <3>1, <3>2
    <3>5. need' \in [Workers -> SUBSET Nat]
      BY <3>1, <3>2
    <3>6. pc' \in [Workers -> WorkerPCs] /\ todo' \in [Workers -> SUBSET Jobs]
      BY <2>3, WalkTypes
    <3> QED BY <3>3, <3>4, <3>5, <3>6
  <2>4. CASE CheckDependency(w)
    <3>1. PICK d \in need[w] :
            \/ /\ need' = [need EXCEPT ![w] = need[w] \ {d}]
               /\ Goto(w, "unblock") \/ Goto(w, "deps")
               /\ UNCHANGED todo
            \/ Visited(w, sib[w]) /\ Goto(w, "scan") /\ UNCHANGED need
      BY <2>4 DEF CheckDependency
    <3>2. UNCHANGED <<callerVars, cur, sib, store, queue, handle, ran>>
      BY <2>4 DEF CheckDependency
    <3>3. need' \in [Workers -> SUBSET Nat]
      <4>1. need[w] \ {d} \in SUBSET Nat
        OBVIOUS
      <4> QED BY <3>1, <4>1
    <3>4. pc' \in [Workers -> WorkerPCs] /\ todo' \in [Workers -> SUBSET Jobs]
      BY <2>4, WalkTypes
    <3> QED BY <3>2, <3>3, <3>4
  <2>5. CASE Unblock(w) \/ CancelSibling(w)
    <3>1. /\ store' \in [Jobs -> Record]
          /\ UNCHANGED <<callerVars, cur, todo, sib, need, queue, handle, ran>>
      BY <2>5, SaveType DEF Unblock, CancelSibling
    <3>2. pc' \in [Workers -> WorkerPCs]
      BY <2>5 DEF Unblock, CancelSibling, Goto
    <3> QED BY <3>1, <3>2
  <2>6. CASE PushSibling(w)
    BY <2>6 DEF PushSibling, Goto, Visited
  <2>7. CASE RecordFailure(w)
    <3>1. UNCHANGED <<callerVars, cur, sib, need, store, queue, ran>>
      BY <2>7 DEF RecordFailure
    <3>2. handle' \in Handle
      BY <2>7, RecordType DEF RecordFailure
    <3>3. pc' \in [Workers -> WorkerPCs] /\ todo' \in [Workers -> SUBSET Jobs]
      BY <2>7, WalkTypes
    <3> QED BY <3>1, <3>2, <3>3
  <2>8. CASE Survey(w)
    <3>1. PICK j \in todo[w] :
            \/ sib' = [sib EXCEPT ![w] = j] /\ Goto(w, "doom") /\ UNCHANGED todo
            \/ Visited(w, j) /\ UNCHANGED <<sib, pc>>
      BY <2>8 DEF Survey
    <3>2. UNCHANGED <<callerVars, cur, need, store, queue, handle, ran>>
      BY <2>8 DEF Survey
    <3>3. j \in Jobs
      OBVIOUS
    <3>4. sib' \in [Workers -> Jobs]
      BY <3>1, <3>3
    <3>5. pc' \in [Workers -> WorkerPCs] /\ todo' \in [Workers -> SUBSET Jobs]
      BY <2>8, WalkTypes
    <3> QED BY <3>2, <3>4, <3>5
  <2>9. CASE Charge(w)
    BY <2>9, RecordType DEF Charge, Goto, Visited
  <2>10. CASE Return(w)
    BY <2>10 DEF Return, Goto
  <2> QED BY <1>10, <2>1, <2>2, <2>3, <2>4, <2>5, <2>6, <2>7, <2>8, <2>9, <2>10 DEF Complete
<1>11. CASE UNCHANGED vars
  BY <1>11 DEF vars
<1> QED BY <1>1, <1>2, <1>3, <1>4, <1>5, <1>6, <1>7, <1>8, <1>9, <1>10, <1>11 DEF Next, FanOut

------------------------------------------------------------------------------
(* Frames: what each group of actions leaves alone. *)

CallerStep == FanOut \/ FanIn \/ TimeOut \/ CancelSave
WorkerStep(w) == Process(w) \/ Checkpoint(w) \/ Complete(w)

(* A step of the batch is the caller's, one worker's, or none. *)
LEMMA NextCases ==
  ASSUME [Next]_vars
  PROVE  CallerStep \/ (\E w \in Workers : WorkerStep(w)) \/ UNCHANGED vars
BY DEF Next, CallerStep, WorkerStep

(* The caller never touches the workers, nor what the executions did. *)
LEMMA CallerFrame == CallerStep => UNCHANGED <<caller, plan, workerVars, ran>>
BY DEF CallerStep, FanOut, FanIn, Register, Block, Push, SaveHandle, StartPool, Enqueued,
   PollFailed, Diagnose, PollCompleted, Collect, FanInRead, FanInSave, TimeOut, CancelSave

(* A worker never touches the caller's variables. *)
LEMMA WorkerFrame == \A w \in Workers : WorkerStep(w) => UNCHANGED callerVars
BY DEF WorkerStep, Process, Complete, Pop, Load, Hydrate, MarkRunning, Checkpoint,
   MarkSucceeded, MarkFailed, RecordSuccess, ListJobs, Scan, CheckDependency, Unblock,
   PushSibling, RecordFailure, Survey, CancelSibling, Charge, Return

(* The steps of a worker inside one phase of its job. *)
InPhase(w) == \/ Load(w) \/ Hydrate(w) \/ MarkRunning(w) \/ Checkpoint(w)
              \/ RecordSuccess(w) \/ ListJobs(w) \/ Scan(w) \/ CheckDependency(w)
              \/ Unblock(w) \/ RecordFailure(w) \/ Survey(w) \/ CancelSibling(w)
              \/ Charge(w) \/ Return(w)

SamePhase(p, q) == \/ q = "idle"
                   \/ p \in Running /\ q \in Running
                   \/ p \in Reporting /\ q \in Reporting
                   \/ p \in Cancelling /\ q \in Cancelling

(* A worker changes phase only by taking a job or by finishing one. *)
LEMMA WorkerCases ==
  ASSUME NEW w \in Workers, WorkerStep(w)
  PROVE  InPhase(w) \/ Pop(w) \/ MarkSucceeded(w) \/ MarkFailed(w) \/ PushSibling(w)
BY DEF WorkerStep, InPhase, Process, Complete

(* Inside a phase a worker keeps its job, pushes and pops nothing, and runs nothing
   to its end. *)
LEMMA PhaseStep ==
  ASSUME TypeOK, NEW w \in Workers, InPhase(w)
  PROVE  /\ UNCHANGED <<cur, queue, ran, callerVars>>
         /\ pc[w] # "idle"
         /\ \E q \in WorkerPCs : pc' = [pc EXCEPT ![w] = q] /\ SamePhase(pc[w], q)
<1> USE DEF Goto, SamePhase, WorkerPCs, Running, Reporting, Cancelling
<1>1. CASE Load(w) \/ Hydrate(w) \/ MarkRunning(w) \/ Return(w)
  BY <1>1 DEF Load, Hydrate, MarkRunning, Return, TypeOK
<1>2. CASE Checkpoint(w)
  <2>1. pc' = [pc EXCEPT ![w] = pc[w]] /\ pc[w] = "exec"
    BY <1>2 DEF Checkpoint, TypeOK, workerVars
  <2> QED BY <1>2, <2>1 DEF Checkpoint, workerVars
<1>3. CASE RecordSuccess(w) \/ ListJobs(w) \/ Unblock(w)
  BY <1>3 DEF RecordSuccess, ListJobs, Unblock, TypeOK
<1>4. CASE Scan(w) \/ Survey(w)
  <2>1. pc[w] \in {"scan", "cancel"} /\ (pc' = pc \/ (pc[w] = "scan" /\ Goto(w, "deps"))
                                             \/ (pc[w] = "cancel" /\ Goto(w, "doom")))
    BY <1>4 DEF Scan, Survey
  <2>2. pc' = pc => pc' = [pc EXCEPT ![w] = pc[w]]
    BY DEF TypeOK
  <2> QED BY <1>4, <2>1, <2>2 DEF Scan, Survey
<1>5. CASE CheckDependency(w)
  <2>1. pc[w] = "deps" /\ (Goto(w, "unblock") \/ Goto(w, "deps") \/ Goto(w, "scan"))
    BY <1>5 DEF CheckDependency
  <2> QED BY <1>5, <2>1 DEF CheckDependency
<1>6. CASE RecordFailure(w) \/ CancelSibling(w) \/ Charge(w)
  BY <1>6 DEF RecordFailure, CancelSibling, Charge, TypeOK
<1> QED BY <1>1, <1>2, <1>3, <1>4, <1>5, <1>6 DEF InPhase

------------------------------------------------------------------------------
(* How an execution ends is decided once for a child. *)

(* Only the execution of the job a worker holds changes its verdict, and a child
   that is being executed has none yet. *)
LEMMA RanChange ==
  ASSUME TypeOK, PlaceInv, NEW w \in Workers, MarkSucceeded(w) \/ MarkFailed(w)
  PROVE  /\ pc[w] = "exec"
         /\ ran' \in [Jobs -> {"none", "ok", "error"}]
         /\ \A j \in Jobs : j # cur[w] => ran'[j] = ran[j]
         /\ ran'[cur[w]] \in {"ok", "error"}
         /\ MarkSucceeded(w) => ran'[cur[w]] = "ok"
         /\ MarkFailed(w) => ran'[cur[w]] = "error"
         /\ cur[w] \in Children => ran[cur[w]] = "none" /\ cur[w] < next
<1>1. pc[w] = "exec" /\ cur[w] \in Jobs
  BY DEF MarkSucceeded, MarkFailed, TypeOK
<1>2. cur[w] \in Children => ran[cur[w]] = "none" /\ cur[w] < next
  BY <1>1 DEF PlaceInv, WorkerPlace, Running
<1>3. CASE MarkSucceeded(w)
  BY <1>1, <1>2, <1>3 DEF MarkSucceeded, MarkFailed, TypeOK, Goto
<1>4. CASE MarkFailed(w)
  BY <1>1, <1>2, <1>4 DEF MarkSucceeded, MarkFailed, TypeOK, Goto
<1> QED BY <1>3, <1>4

(* A child's verdict never changes again. *)
LEMMA RanStable ==
  ASSUME TypeOK, PlaceInv, [Next]_vars
  PROVE  \A c \in Children : ran[c] # "none" => ran'[c] = ran[c]
<1>1. CASE CallerStep
  BY <1>1, CallerFrame
<1>2. ASSUME NEW w \in Workers, WorkerStep(w)
      PROVE  \A c \in Children : ran[c] # "none" => ran'[c] = ran[c]
  <2>1. CASE MarkSucceeded(w) \/ MarkFailed(w)
    BY <2>1, RanChange, Ids
  <2>2. CASE InPhase(w) \/ Pop(w) \/ PushSibling(w)
    BY <2>2, PhaseStep DEF Pop, PushSibling
  <2> QED BY <1>2, <2>1, <2>2, WorkerCases
<1>3. CASE UNCHANGED vars
  BY <1>3 DEF vars
<1> QED BY <1>1, <1>2, <1>3, NextCases

(* Hence "every child ran well" and "some child failed" are stable. *)
LEMMA VerdictsStable ==
  ASSUME TypeOK, PlaceInv, [Next]_vars
  PROVE  /\ AllRanWell => AllRanWell'
         /\ SomeChildFailed => SomeChildFailed'
BY RanStable DEF AllRanWell, SomeChildFailed, Children

(* The caller goes through the jobs in order and pushes independent children only. *)
LEMMA EnqueueStep ==
  ASSUME TypeOK, EnqueueInv, PlaceInv, [Next]_vars
  PROVE  EnqueueInv'
<1> USE DEF EnqueueInv
<1>1. CASE CallerStep
  <2>1. UNCHANGED <<plan, ran>> /\ next \in Nat
    BY <1>1, CallerFrame, Ids DEF TypeOK
  <2>2. CASE Register
    <3>1. Deps(next) = {} => next \in Children /\ plan[next] = {}
      <4>1. Children # {}
        BY Ids DEF Children
      <4>2. next \in Children => Deps(next) = {SubtaskId(d) : d \in plan[next]}
        BY Ids DEF Deps
      <4> QED BY <2>2, <4>1, <4>2, Ids DEF Register, Deps
    <3> QED BY <2>1, <2>2, <3>1, Ids DEF Register, Children
  <2>3. CASE Block \/ Push
    <3>1. /\ next' = next + 1
          /\ opc' = IF next < N THEN "register"
                    ELSE IF next = N THEN "handle"
                    ELSE IF caller = "decompose" THEN "pool" ELSE "poll"
      BY <2>3 DEF Block, Push, Enqueued
    <3>2. opc' \in {"register", "block", "push"} => next' \in Jobs
      BY <2>1, <2>3, <3>1, Ids DEF Jobs
    <3>3. opc' = "handle" => next' = Cont
      BY <2>1, <2>3, <3>1, Ids DEF Cont
    <3>4. opc' # "push"
      BY <3>1
    <3>5. \A c \in Children : c >= next' => c >= next
      BY <2>1, <3>1, Ids DEF Children
    <3> QED BY <2>1, <3>2, <3>3, <3>4, <3>5 DEF Children
  <2>4. CASE SaveHandle
    BY <2>1, <2>4, Ids DEF SaveHandle, Children
  <2>5. CASE StartPool \/ FanIn \/ TimeOut \/ CancelSave
    <3>1. opc' \notin {"register", "block", "push", "handle"} /\ next' = next
      BY <2>5 DEF StartPool, FanIn, PollFailed, Diagnose, PollCompleted, Collect, FanInRead,
         FanInSave, TimeOut, CancelSave
    <3> QED BY <2>1, <3>1 DEF Children
  <2> QED BY <1>1, <2>2, <2>3, <2>4, <2>5 DEF CallerStep, FanOut
<1>2. ASSUME NEW w \in Workers, WorkerStep(w)
      PROVE  EnqueueInv'
  <2>1. UNCHANGED callerVars
    BY <1>2, WorkerFrame
  <2>2. \A c \in Children : c >= next => ran'[c] = "none"
    <3>1. CASE MarkSucceeded(w) \/ MarkFailed(w)
      <4>1. ASSUME NEW c \in Children, c >= next
            PROVE  c # cur[w] /\ c \in Jobs
        BY <3>1, <4>1, RanChange, Ids DEF Children, TypeOK
      <4> QED BY <3>1, <4>1, RanChange
    <3>2. CASE InPhase(w) \/ Pop(w) \/ PushSibling(w)
      BY <3>2, PhaseStep DEF Pop, PushSibling
    <3> QED BY <1>2, <3>1, <3>2, WorkerCases
  <2> QED BY <2>1, <2>2 DEF callerVars, Children
<1>3. CASE UNCHANGED vars
  BY <1>3 DEF vars, callerVars, Children
<1> QED BY <1>1, <1>2, <1>3, NextCases

------------------------------------------------------------------------------
(* A child is in one place. *)

(* The places of the children do not depend on the rest of the caller's state. *)
LEMMA PlaceFrame ==
  ASSUME TypeOK, PlaceInv, UNCHANGED <<queue, cur, pc, ran>>, next' \in Nat, next' >= next
  PROVE  PlaceInv'
<1> USE DEF PlaceInv, Holds
<1>0. next \in Nat /\ \A j \in Jobs : j \in Nat
  BY Ids DEF TypeOK
<1>1. \A i \in 1 .. Len(queue) : queue[i] \in Jobs
  BY DEF TypeOK
<1>2. QueuePlace'
  BY <1>0, <1>1 DEF QueuePlace, Children
<1>3. WorkerPlace'
  BY <1>0 DEF WorkerPlace, Children, TypeOK
<1> QED BY <1>2, <1>3

(* A child that the caller pushes was nowhere before. *)
LEMMA PlacePush ==
  ASSUME TypeOK, EnqueueInv, PlaceInv, Push
  PROVE  PlaceInv'
<1> USE DEF Holds
<1>1. /\ queue' = Append(queue, next) /\ next' = next + 1 /\ next \in Children
      /\ UNCHANGED <<cur, pc, ran>> /\ ran[next] = "none" /\ next \in Nat
  BY Ids DEF Push, Enqueued, EnqueueInv, workerVars
<1>2. \A w \in Workers : ~Holds(w, next)
  BY <1>1 DEF PlaceInv, WorkerPlace
<1>3. \A i \in 1 .. Len(queue) : queue[i] # next
  BY <1>1 DEF PlaceInv, QueuePlace
<1>4. /\ Len(queue') = Len(queue) + 1 /\ Len(queue) \in Nat
      /\ \A i \in 1 .. Len(queue) : queue'[i] = queue[i]
      /\ queue'[Len(queue) + 1] = next
  BY <1>1, Ids DEF TypeOK
<1>5. QueuePlace'
  <2> SUFFICES ASSUME NEW i \in 1 .. Len(queue'), queue'[i] \in Children
               PROVE  /\ queue'[i] < next'
                      /\ ran[queue'[i]] = "none"
                      /\ \A k \in 1 .. Len(queue') : queue'[k] = queue'[i] => k = i
                      /\ \A w \in Workers : ~Holds(w, queue'[i])
    BY <1>1 DEF QueuePlace, Children
  <2>1. CASE i = Len(queue) + 1
    BY <1>1, <1>2, <1>3, <1>4, <2>1
  <2>2. CASE i \in 1 .. Len(queue)
    <3>1. queue'[i] = queue[i] /\ queue[i] # next /\ queue[i] \in Nat
      BY <1>3, <1>4, <2>2 DEF Children
    <3>2. /\ queue[i] < next
          /\ ran[queue[i]] = "none"
          /\ \A k \in 1 .. Len(queue) : queue[k] = queue[i] => k = i
          /\ \A w \in Workers : ~Holds(w, queue[i])
      BY <2>2, <3>1 DEF PlaceInv, QueuePlace
    <3>3. \A k \in 1 .. Len(queue') : queue'[k] = queue[i] => k = i
      BY <1>4, <3>1, <3>2
    <3> QED BY <1>1, <3>1, <3>2, <3>3
  <2> QED BY <1>4, <2>1, <2>2
<1>6. WorkerPlace'
  BY <1>1, Ids DEF PlaceInv, WorkerPlace, Children, TypeOK
<1> QED BY <1>5, <1>6 DEF PlaceInv

(* A child that is popped moves from the queue to one worker. *)
LEMMA PlacePop ==
  ASSUME TypeOK, PlaceInv, NEW w \in Workers, Pop(w)
  PROVE  PlaceInv'
<1> USE DEF Holds
<1>1. /\ UNCHANGED <<next, ran>> /\ Len(queue) >= 1 /\ Len(queue) \in Nat /\ pc[w] = "idle"
      /\ cur' = [cur EXCEPT ![w] = queue[1]] /\ pc' = [pc EXCEPT ![w] = "load"]
      /\ queue' = Tail(queue) /\ queue[1] \in Jobs
  BY DEF Pop, Goto, callerVars, TypeOK
<1>2. /\ Len(queue') = Len(queue) - 1
      /\ \A i \in 1 .. Len(queue') : queue'[i] = queue[i + 1] /\ i + 1 \in 1 .. Len(queue)
  BY <1>1 DEF TypeOK
<1>3. /\ cur'[w] = queue[1] /\ pc'[w] = "load"
      /\ \A v \in Workers \ {w} : cur'[v] = cur[v] /\ pc'[v] = pc[v]
  BY <1>1 DEF TypeOK
<1>4. QueuePlace'
  <2> SUFFICES ASSUME NEW i \in 1 .. Len(queue'), queue'[i] \in Children
               PROVE  /\ queue'[i] < next
                      /\ ran[queue'[i]] = "none"
                      /\ \A k \in 1 .. Len(queue') : queue'[k] = queue'[i] => k = i
                      /\ \A v \in Workers : ~(cur'[v] = queue'[i] /\ pc'[v] # "idle")
    BY <1>1 DEF QueuePlace, Children
  <2>1. queue[1] # queue'[i]
    BY <1>1, <1>2 DEF PlaceInv, QueuePlace
  <2> QED BY <1>1, <1>2, <1>3, <2>1 DEF PlaceInv, QueuePlace
<1>5. WorkerPlace'
  <2> SUFFICES ASSUME NEW v \in Workers, cur'[v] \in Children, pc'[v] # "idle"
               PROVE  /\ cur'[v] < next
                      /\ \A u \in Workers : cur'[u] = cur'[v] /\ pc'[u] # "idle" => u = v
                      /\ pc'[v] \in Running => ran[cur'[v]] = "none"
                      /\ pc'[v] \in Reporting => ran[cur'[v]] = "ok"
                      /\ pc'[v] \in Cancelling => ran[cur'[v]] = "error"
    BY <1>1 DEF WorkerPlace, Children
  <2>1. CASE v = w
    BY <1>1, <1>3, <2>1 DEF PlaceInv, QueuePlace, Running, Reporting, Cancelling
  <2>2. CASE v # w
    <3>1. queue[1] # cur[v]
      BY <1>1, <1>3, <2>2 DEF PlaceInv, QueuePlace
    <3> QED BY <1>1, <1>3, <2>2, <3>1 DEF PlaceInv, WorkerPlace
  <2> QED BY <2>1, <2>2
<1> QED BY <1>4, <1>5 DEF PlaceInv

(* A worker that stays in its phase, or drops its job, leaves every child in place. *)
LEMMA PlacePhase ==
  ASSUME TypeOK, PlaceInv, NEW w \in Workers, InPhase(w)
  PROVE  PlaceInv'
<1> USE DEF Holds
<1>1. PICK q \in WorkerPCs : pc' = [pc EXCEPT ![w] = q] /\ SamePhase(pc[w], q)
  BY PhaseStep
<1>2. /\ UNCHANGED <<cur, queue, ran, next>> /\ pc[w] # "idle"
  BY PhaseStep DEF callerVars
<1>3. /\ pc'[w] = q
      /\ \A v \in Workers \ {w} : pc'[v] = pc[v]
  BY <1>1 DEF TypeOK
<1>4. QueuePlace'
  BY <1>2, <1>3 DEF PlaceInv, QueuePlace, Children
<1>5. WorkerPlace'
  BY <1>1, <1>2, <1>3 DEF PlaceInv, WorkerPlace, Children, SamePhase,
     Running, Reporting, Cancelling
<1> QED BY <1>4, <1>5 DEF PlaceInv

(* A child whose execution ends stays with its worker, in the phase of its verdict. *)
LEMMA PlaceMark ==
  ASSUME TypeOK, PlaceInv, NEW w \in Workers, MarkSucceeded(w) \/ MarkFailed(w)
  PROVE  PlaceInv'
<1> USE DEF Holds
<1>1. /\ UNCHANGED <<cur, queue, next>> /\ pc[w] = "exec" /\ cur[w] \in Jobs
      /\ \A v \in Workers \ {w} : pc'[v] = pc[v]
      /\ \/ pc'[w] = "success" /\ ran'[cur[w]] = "ok"
         \/ pc'[w] = "failure" /\ ran'[cur[w]] = "error"
  BY DEF MarkSucceeded, MarkFailed, TypeOK, Goto, callerVars
<1>2. \A j \in Jobs : j # cur[w] => ran'[j] = ran[j]
  BY RanChange
<1>3. \A i \in 1 .. Len(queue) : queue[i] \in Children => queue[i] # cur[w] /\ queue[i] \in Jobs
  BY <1>1, Ids DEF PlaceInv, QueuePlace
<1>4. QueuePlace'
  BY <1>1, <1>2, <1>3 DEF PlaceInv, QueuePlace, Children
<1>5. WorkerPlace'
  <2> SUFFICES ASSUME NEW v \in Workers, cur[v] \in Children, pc'[v] # "idle"
               PROVE  /\ cur[v] < next
                      /\ \A u \in Workers : cur[u] = cur[v] /\ pc'[u] # "idle" => u = v
                      /\ pc'[v] \in Running => ran'[cur[v]] = "none"
                      /\ pc'[v] \in Reporting => ran'[cur[v]] = "ok"
                      /\ pc'[v] \in Cancelling => ran'[cur[v]] = "error"
    BY <1>1 DEF WorkerPlace, Children
  <2>1. pc[v] # "idle"
    BY <1>1
  <2>2. \A u \in Workers : cur[u] = cur[v] /\ pc'[u] # "idle" => u = v
    BY <1>1, <2>1 DEF PlaceInv, WorkerPlace
  <2>3. CASE v = w
    BY <1>1, <2>1, <2>2, <2>3 DEF PlaceInv, WorkerPlace, Running, Reporting, Cancelling
  <2>4. CASE v # w
    <3>1. cur[v] # cur[w] /\ cur[v] \in Jobs
      BY <1>1, <2>1, <2>4, Ids DEF PlaceInv, WorkerPlace
    <3> QED BY <1>1, <1>2, <2>1, <2>2, <2>4, <3>1 DEF PlaceInv, WorkerPlace
  <2> QED BY <2>3, <2>4
<1> QED BY <1>4, <1>5 DEF PlaceInv

(* What a scan pushes is the continuation, never a child. *)
LEMMA PlacePushSibling ==
  ASSUME TypeOK, PlaceInv, UnblockInv, NEW w \in Workers, PushSibling(w)
  PROVE  PlaceInv'
<1> USE DEF Holds
<1>1. /\ queue' = Append(queue, Cont) /\ UNCHANGED <<cur, ran, next>>
      /\ pc[w] = "push_sibling" /\ pc'[w] = "scan"
      /\ \A v \in Workers \ {w} : pc'[v] = pc[v]
  BY DEF PushSibling, Goto, callerVars, UnblockInv, DepsInv, TypeOK
<1>2. /\ Len(queue') = Len(queue) + 1 /\ Len(queue) \in Nat
      /\ \A i \in 1 .. Len(queue) : queue'[i] = queue[i]
      /\ queue'[Len(queue) + 1] = Cont
  BY <1>1, Ids DEF TypeOK
<1>3. \A i \in 1 .. Len(queue') : queue'[i] \in Children => i \in 1 .. Len(queue)
  BY <1>2, Ids
<1>4. \A v \in Workers : pc[v] = "idle" <=> pc'[v] = "idle"
  BY <1>1
<1>5. QueuePlace'
  <2> SUFFICES ASSUME NEW i \in 1 .. Len(queue'), queue'[i] \in Children
               PROVE  /\ queue'[i] < next
                      /\ ran[queue'[i]] = "none"
                      /\ \A k \in 1 .. Len(queue') : queue'[k] = queue'[i] => k = i
                      /\ \A v \in Workers : ~(cur[v] = queue'[i] /\ pc[v] # "idle")
    BY <1>1, <1>4 DEF QueuePlace, Children
  <2> QED BY <1>2, <1>3 DEF PlaceInv, QueuePlace
<1>6. WorkerPlace'
  BY <1>1, <1>4 DEF PlaceInv, WorkerPlace, Children, Running, Reporting, Cancelling
<1> QED BY <1>5, <1>6 DEF PlaceInv

(* Every step keeps every child in one place. *)
LEMMA PlaceStep ==
  ASSUME TypeOK, EnqueueInv, PlaceInv, UnblockInv, [Next]_vars
  PROVE  PlaceInv'
<1>1. CASE CallerStep
  <2>1. CASE Push
    BY <2>1, PlacePush
  <2>2. CASE ~Push
    <3>1. UNCHANGED <<queue, cur, pc, ran>> /\ (next' = next \/ next' = next + 1)
      BY <1>1, <2>2, CallerFrame DEF CallerStep, FanOut, FanIn, Register, Block, Push,
         SaveHandle, StartPool, Enqueued, PollFailed, Diagnose, PollCompleted, Collect,
         FanInRead, FanInSave, TimeOut, CancelSave, workerVars
    <3>2. next' \in Nat /\ next' >= next
      BY <3>1 DEF TypeOK
    <3> QED BY <3>1, <3>2, PlaceFrame
  <2> QED BY <2>1, <2>2
<1>2. ASSUME NEW w \in Workers, WorkerStep(w)
      PROVE  PlaceInv'
  BY <1>2, WorkerCases, PlacePop, PlacePhase, PlaceMark, PlacePushSibling
<1>3. CASE UNCHANGED vars
  <2>1. UNCHANGED <<queue, cur, pc, ran>> /\ next' = next /\ next \in Nat
    BY <1>3, Ids DEF vars, callerVars, workerVars, TypeOK
  <2> QED BY <2>1, PlaceFrame
<1> QED BY <1>1, <1>2, <1>3, NextCases

------------------------------------------------------------------------------
(* Only the continuation is unblocked, and only after every child ran well. *)

(* The continuation reaches the queue and a worker only after every child ran well. *)
LEMMA ContinuationStep ==
  ASSUME TypeOK, EnqueueInv, PlaceInv, UnblockInv, [Next]_vars
  PROVE  ContinuationInv'
<1> USE DEF Holds, UnblockInv
<1>0. AllRanWell => AllRanWell'
  BY VerdictsStable
<1>1. CASE CallerStep
  <2>1. UNCHANGED <<cur, pc>>
    BY <1>1, CallerFrame DEF workerVars
  <2>2. CASE Push
    <3>1. /\ queue' = Append(queue, next) /\ next \in Children /\ next \in Jobs
      BY <2>2, Ids DEF Push, EnqueueInv
    <3>2. \A i \in 1 .. Len(queue') : queue'[i] = Cont => i \in 1 .. Len(queue) /\ queue[i] = Cont
      BY <3>1, Ids DEF TypeOK
    <3> QED BY <1>0, <2>1, <3>2 DEF ContinuationInv
  <2>3. CASE ~Push
    <3>1. UNCHANGED queue
      BY <1>1, <2>3 DEF CallerStep, FanOut, FanIn, Register, Block, SaveHandle, StartPool,
         PollFailed, Diagnose, PollCompleted, Collect, FanInRead, FanInSave, TimeOut, CancelSave
    <3> QED BY <1>0, <2>1, <3>1 DEF ContinuationInv
  <2> QED BY <2>2, <2>3
<1>2. ASSUME NEW w \in Workers, WorkerStep(w)
      PROVE  ContinuationInv'
  <2>1. CASE Pop(w)
    <3>1. /\ Len(queue) >= 1 /\ Len(queue) \in Nat /\ cur'[w] = queue[1]
          /\ \A v \in Workers \ {w} : cur'[v] = cur[v] /\ pc'[v] = pc[v]
      BY <2>1 DEF Pop, Goto, TypeOK
    <3>2. \A i \in 1 .. Len(queue') : queue'[i] = queue[i + 1] /\ i + 1 \in 1 .. Len(queue)
      BY <2>1, <3>1 DEF Pop, TypeOK
    <3>3. \A i \in 1 .. Len(queue') : queue'[i] = Cont => AllRanWell'
      BY <1>0, <3>2 DEF ContinuationInv
    <3>4. \A v \in Workers : cur'[v] = Cont /\ pc'[v] # "idle" => AllRanWell'
      BY <1>0, <3>1 DEF ContinuationInv
    <3> QED BY <3>3, <3>4 DEF ContinuationInv
  <2>2. CASE InPhase(w)
    <3>1. /\ UNCHANGED <<cur, queue>> /\ pc[w] # "idle"
          /\ \A v \in Workers \ {w} : pc'[v] = pc[v]
      BY <2>2, PhaseStep DEF TypeOK
    <3> QED BY <1>0, <3>1 DEF ContinuationInv
  <2>3. CASE MarkSucceeded(w) \/ MarkFailed(w)
    <3>1. /\ UNCHANGED <<cur, queue>> /\ pc[w] # "idle"
          /\ \A v \in Workers \ {w} : pc'[v] = pc[v]
      BY <2>3 DEF MarkSucceeded, MarkFailed, Goto, TypeOK
    <3> QED BY <1>0, <3>1 DEF ContinuationInv
  <2>4. CASE PushSibling(w)
    <3>1. /\ UNCHANGED cur /\ pc[w] # "idle" /\ AllRanWell
          /\ \A v \in Workers \ {w} : pc'[v] = pc[v]
      BY <2>4 DEF PushSibling, Goto, TypeOK, DepsInv
    <3> QED BY <1>0, <3>1 DEF ContinuationInv
  <2> QED BY <1>2, <2>1, <2>2, <2>3, <2>4, WorkerCases
<1>3. CASE UNCHANGED vars
  BY <1>0, <1>3 DEF vars, workerVars, ContinuationInv
<1> QED BY <1>1, <1>2, <1>3, NextCases

(* A dependency that is found SUCCEEDED is a child of the continuation that ran
   well: a child's own dependencies are never found. *)
LEMMA FoundDependency ==
  ASSUME TypeOK, UnblockInv, StoreInv, NEW w \in Workers, pc[w] = "deps",
         NEW d \in need[w], StoredState(d) = "succeeded"
  PROVE  sib[w] = Cont /\ d \in Children /\ ran[d] = "ok"
<1>1. d \in Jobs /\ store[d].state = "succeeded" /\ d \in Deps(sib[w]) /\ sib[w] \in Jobs
  BY DEF StoredState, UnblockInv, DepsInv, TypeOK
<1>2. sib[w] = Cont
  BY <1>1, SubtaskIdsAreNoJobs, Ids
<1>3. d \in Children
  BY <1>1, <1>2 DEF Deps
<1> QED BY <1>1, <1>2, <1>3 DEF StoreInv, FinishedInv

(* A scan that has found some dependencies SUCCEEDED has seen children that ran
   well, and a scan that unblocks has seen them all. *)
LEMMA DepsStep ==
  ASSUME TypeOK, EnqueueInv, PlaceInv, UnblockInv, StoreInv, [Next]_vars
  PROVE  DepsInv'
<1> USE DEF UnblockInv
<1>0. /\ AllRanWell => AllRanWell'
      /\ \A c \in Children : ran[c] = "ok" => ran'[c] = "ok"
  BY VerdictsStable, RanStable
<1>1. ASSUME NEW v \in Workers, plan' = plan,
             pc'[v] = pc[v], need'[v] = need[v], sib'[v] = sib[v]
      PROVE  /\ pc'[v] = "deps" =>
                 /\ need'[v] # {} /\ need'[v] \subseteq Deps(sib[v])
                 /\ sib'[v] = Cont => \A c \in Children \ need'[v] : ran'[c] = "ok"
             /\ pc'[v] \in {"unblock", "push_sibling"} => sib'[v] = Cont /\ AllRanWell'
  BY <1>0, <1>1 DEF DepsInv
<1>2. CASE CallerStep \/ UNCHANGED vars
  <2>1. UNCHANGED <<plan, pc, need, sib>>
    BY <1>2, CallerFrame DEF workerVars, vars, callerVars
  <2> QED BY <1>1, <2>1 DEF DepsInv, Deps, Children, Cont, SubtaskId
<1>3. ASSUME NEW w \in Workers, WorkerStep(w)
      PROVE  DepsInv'
  <2>1. plan' = plan
    BY <1>3, WorkerFrame DEF callerVars
  <2>2. /\ \A v \in Workers \ {w} : pc'[v] = pc[v] /\ need'[v] = need[v] /\ sib'[v] = sib[v]
        /\ pc'[w] = "deps" =>
             /\ need'[w] # {} /\ need'[w] \subseteq Deps(sib'[w])
             /\ sib'[w] = Cont => \A c \in Children \ need'[w] : ran'[c] = "ok"
        /\ pc'[w] \in {"unblock", "push_sibling"} => sib'[w] = Cont /\ AllRanWell'
    <3>1. CASE Scan(w)
      <4>1. PICK j \in todo[w] :
              \/ /\ Deps(j) # {}
                 /\ sib' = [sib EXCEPT ![w] = j]
                 /\ need' = [need EXCEPT ![w] = Deps(j)]
                 /\ pc' = [pc EXCEPT ![w] = "deps"]
              \/ UNCHANGED <<sib, need, pc>>
        BY <3>1 DEF Scan, Goto
      <4>2. j \in Jobs /\ pc[w] = "scan"
        BY <3>1 DEF Scan, TypeOK
      <4>3. j = Cont => Deps(j) = Children
        BY DEF Deps
      <4> QED BY <4>1, <4>2, <4>3 DEF TypeOK
    <3>2. CASE CheckDependency(w)
      <4>1. PICK d \in need[w] :
              \/ /\ StoredState(d) = "succeeded"
                 /\ need' = [need EXCEPT ![w] = need[w] \ {d}]
                 /\ pc' = [pc EXCEPT ![w] = IF need[w] = {d} THEN "unblock" ELSE "deps"]
              \/ pc' = [pc EXCEPT ![w] = "scan"] /\ UNCHANGED need
        BY <3>2 DEF CheckDependency, Goto
      <4>2. pc[w] = "deps" /\ UNCHANGED <<sib, ran>>
        BY <3>2 DEF CheckDependency
      <4>3. CASE StoredState(d) = "succeeded" /\ need' = [need EXCEPT ![w] = need[w] \ {d}]
                 /\ pc' = [pc EXCEPT ![w] = IF need[w] = {d} THEN "unblock" ELSE "deps"]
        <5>1. sib[w] = Cont /\ d \in Children /\ ran[d] = "ok"
          BY <4>2, <4>3, FoundDependency
        <5>2. /\ need[w] \subseteq Deps(sib[w])
              /\ \A c \in Children \ need[w] : ran[c] = "ok"
          BY <4>2, <5>1 DEF DepsInv
        <5>3. \A c \in Children \ (need[w] \ {d}) : ran[c] = "ok"
          BY <5>1, <5>2
        <5>4. need[w] = {d} => AllRanWell
          BY <5>3 DEF AllRanWell
        <5>5. /\ need'[w] = need[w] \ {d} /\ pc'[w] = IF need[w] = {d} THEN "unblock" ELSE "deps"
              /\ \A v \in Workers \ {w} : pc'[v] = pc[v] /\ need'[v] = need[v] /\ sib'[v] = sib[v]
          BY <4>2, <4>3 DEF TypeOK
        <5> QED BY <1>0, <4>2, <5>1, <5>2, <5>3, <5>4, <5>5
      <4>4. CASE pc' = [pc EXCEPT ![w] = "scan"] /\ UNCHANGED need
        BY <4>2, <4>4 DEF TypeOK
      <4> QED BY <4>1, <4>3, <4>4
    <3>3. CASE Unblock(w)
      BY <1>0, <3>3 DEF Unblock, Goto, TypeOK, DepsInv
    <3>4. CASE Survey(w)
      <4>1. PICK j \in todo[w] :
              \/ sib' = [sib EXCEPT ![w] = j] /\ pc' = [pc EXCEPT ![w] = "doom"]
              \/ UNCHANGED <<sib, pc>>
        BY <3>4 DEF Survey, Goto
      <4>2. pc[w] = "cancel" /\ UNCHANGED need
        BY <3>4 DEF Survey
      <4> QED BY <4>1, <4>2 DEF TypeOK
    <3>5. CASE \/ Pop(w) \/ Load(w) \/ Hydrate(w) \/ MarkRunning(w) \/ Checkpoint(w)
               \/ MarkSucceeded(w) \/ MarkFailed(w) \/ RecordSuccess(w) \/ ListJobs(w)
               \/ PushSibling(w) \/ RecordFailure(w) \/ CancelSibling(w) \/ Charge(w) \/ Return(w)
      <4>1. /\ UNCHANGED <<sib, need>>
            /\ \E q \in WorkerPCs \ {"deps", "unblock", "push_sibling"} :
                 pc' = [pc EXCEPT ![w] = q]
        <5>1. CASE Checkpoint(w)
          BY <5>1 DEF Checkpoint, workerVars, TypeOK, WorkerPCs, Running
        <5> QED BY <3>5, <5>1 DEF Pop, Load, Hydrate, MarkRunning, MarkSucceeded, MarkFailed,
               RecordSuccess, ListJobs, PushSibling, RecordFailure, CancelSibling, Charge,
               Return, Goto, WorkerPCs, Running, Reporting, Cancelling
      <4> QED BY <4>1 DEF TypeOK
    <3> QED BY <1>3, <3>1, <3>2, <3>3, <3>4, <3>5 DEF WorkerStep, Process, Complete
  <2>3. \A j : Deps(j)' = Deps(j)
    BY <2>1 DEF Deps
  <2> QED BY <1>1, <2>1, <2>2, <2>3 DEF DepsInv
<1> QED BY <1>2, <1>3, NextCases

------------------------------------------------------------------------------
(* What the job store says of a finished child. *)

(* A child's output is overwritten only if some child has failed. *)
LEMMA FinishedStep ==
  ASSUME TypeOK, EnqueueInv, PlaceInv, UnblockInv, StoreInv, [Next]_vars
  PROVE  FinishedInv'
<1> USE DEF StoreInv
<1>0. /\ SomeChildFailed => SomeChildFailed'
      /\ \A c \in Children : ran[c] # "none" => ran'[c] = ran[c]
      /\ \A c \in Children : c \in Jobs
  BY VerdictsStable, RanStable, Ids
<1>1. CASE UNCHANGED <<store, ran>>
  BY <1>1 DEF FinishedInv, SomeChildFailed, Children
(* A save of a job that is not a child, or of a child that has not run. *)
<1>2. ASSUME NEW j \in Jobs, NEW s \in JobStates, NEW r \in Results, Save(j, s, r),
             s # "succeeded", UNCHANGED ran, j \in Children => ran[j] = "none" \/ SomeChildFailed
      PROVE  FinishedInv'
  <2>1. /\ store'[j] = [state |-> s, result |-> r]
        /\ \A c \in Jobs : c # j => store'[c] = store[c]
    BY <1>2 DEF Save, TypeOK
  <2> QED BY <1>0, <1>2, <2>1 DEF FinishedInv, SomeChildFailed, Children
<1>3. CASE CallerStep
  <2>1. UNCHANGED ran
    BY <1>3, CallerFrame
  <2>2. CASE Register \/ Block
    <3>1. next \in Jobs /\ (Save(next, "pending", "none") \/ Save(next, "blocked", "none"))
      BY <2>2 DEF Register, Block, EnqueueInv
    <3>2. next \in Children => ran[next] = "none"
      BY Ids DEF EnqueueInv
    <3> QED BY <1>2, <2>1, <3>1, <3>2 DEF JobStates, Results
  <2>3. CASE ~(Register \/ Block)
    <3>1. UNCHANGED store
      BY <1>3, <2>3 DEF CallerStep, FanOut, FanIn, Push, SaveHandle, StartPool, PollFailed,
         Diagnose, PollCompleted, Collect, FanInRead, FanInSave, TimeOut, CancelSave
    <3> QED BY <1>1, <2>1, <3>1
  <2> QED BY <2>2, <2>3
<1>4. ASSUME NEW w \in Workers, WorkerStep(w)
      PROVE  FinishedInv'
  <2>0. cur[w] \in Jobs /\ sib[w] \in Jobs
    BY DEF TypeOK
  <2>1. CASE Hydrate(w) \/ MarkRunning(w) \/ Checkpoint(w)
    <3>1. /\ Save(cur[w], "pending", "none") \/ Save(cur[w], "running", "none")
          /\ UNCHANGED ran /\ pc[w] \in Running
      BY <2>1 DEF Hydrate, MarkRunning, Checkpoint, Running
    <3>2. cur[w] \in Children => ran[cur[w]] = "none"
      BY <3>1 DEF PlaceInv, WorkerPlace, Running
    <3> QED BY <1>2, <2>0, <3>1, <3>2 DEF JobStates, Results
  <2>2. CASE MarkSucceeded(w)
    <3>1. /\ store'[cur[w]] = [state |-> "succeeded", result |-> "output"]
          /\ \A j \in Jobs : j # cur[w] => store'[j] = store[j]
      BY <2>0, <2>2 DEF MarkSucceeded, Save, TypeOK
    <3>2. /\ ran'[cur[w]] = "ok"
          /\ \A j \in Jobs : j # cur[w] => ran'[j] = ran[j]
      BY <2>2, RanChange
    <3> QED BY <1>0, <3>1, <3>2 DEF FinishedInv, Children
  <2>3. CASE MarkFailed(w)
    <3>1. /\ store'[cur[w]] = [state |-> "failed", result |-> "error"]
          /\ \A j \in Jobs : j # cur[w] => store'[j] = store[j]
      BY <2>0, <2>3 DEF MarkFailed, Save, TypeOK
    <3>2. /\ ran'[cur[w]] = "error"
          /\ \A j \in Jobs : j # cur[w] => ran'[j] = ran[j]
      BY <2>3, RanChange
    <3> QED BY <1>0, <3>1, <3>2 DEF FinishedInv, Children
  <2>4. CASE Unblock(w)
    <3>1. Save(Cont, "pending", "none") /\ UNCHANGED ran
      BY <2>4 DEF Unblock, UnblockInv, DepsInv
    <3> QED BY <1>2, <3>1, Ids DEF JobStates, Results
  <2>5. CASE CancelSibling(w)
    <3>1. Save(sib[w], "failed", "none") /\ UNCHANGED ran /\ SomeChildFailed
      BY <2>5 DEF CancelSibling, CancelInv
    <3> QED BY <1>2, <2>0, <3>1 DEF JobStates, Results
  <2>6. CASE \/ Pop(w) \/ Load(w) \/ RecordSuccess(w) \/ ListJobs(w) \/ Scan(w)
             \/ CheckDependency(w) \/ PushSibling(w) \/ RecordFailure(w) \/ Survey(w)
             \/ Charge(w) \/ Return(w)
    BY <1>1, <2>6 DEF Pop, Load, RecordSuccess, ListJobs, Scan, CheckDependency, PushSibling,
       RecordFailure, Survey, Charge, Return
  <2> QED BY <1>4, <2>1, <2>2, <2>3, <2>4, <2>5, <2>6 DEF WorkerStep, Process, Complete
<1>5. CASE UNCHANGED vars
  BY <1>1, <1>5 DEF vars
<1> QED BY <1>3, <1>4, <1>5, NextCases

(* Siblings are cancelled only after some child has failed: a worker whose job ran
   well never cancels. *)
LEMMA CancelStep ==
  ASSUME TypeOK, PlaceInv, UnblockInv, StoreInv, [Next]_vars
  PROVE  CancelInv'
<1> USE DEF StoreInv
<1>0. SomeChildFailed => SomeChildFailed'
  BY VerdictsStable
<1>1. CASE CallerStep \/ UNCHANGED vars
  <2>1. UNCHANGED <<pc, todo, sib>>
    BY <1>1, CallerFrame DEF workerVars, vars
  <2> QED BY <1>0, <2>1 DEF CancelInv, Children
<1>2. ASSUME NEW w \in Workers, WorkerStep(w)
      PROVE  CancelInv'
  <2>1. /\ \A v \in Workers \ {w} : pc'[v] = pc[v] /\ todo'[v] = todo[v] /\ sib'[v] = sib[v]
        /\ pc'[w] \in {"cancel", "doom", "charge"} => todo'[w] \subseteq Children
        /\ pc'[w] \in {"doom", "charge"} => sib'[w] \in Children /\ SomeChildFailed'
    <3>1. CASE RecordFailure(w)
      <4>1. CASE handle.saved
        BY <3>1, <4>1 DEF RecordFailure, Goto, TypeOK
      <4>2. CASE ~handle.saved
        BY <3>1, <4>2 DEF RecordFailure, Goto, TypeOK
      <4> QED BY <4>1, <4>2
    <3>2. CASE Survey(w)
      <4>1. PICK j \in todo[w] :
              \/ /\ store[j].state \in {"blocked", "pending"}
                 /\ sib' = [sib EXCEPT ![w] = j]
                 /\ pc' = [pc EXCEPT ![w] = "doom"] /\ UNCHANGED todo
              \/ todo' = [todo EXCEPT ![w] = todo[w] \ {j}] /\ UNCHANGED <<sib, pc>>
        BY <3>2 DEF Survey, Goto, Visited
      <4>2. pc[w] = "cancel" /\ todo[w] \subseteq Children /\ j \in Children /\ UNCHANGED ran
        BY <3>2, <4>1 DEF Survey, CancelInv
      <4>3. store[j].state \in {"blocked", "pending"} => SomeChildFailed
        <5>1. CASE cur[w] \in Children
          BY <4>2, <5>1 DEF PlaceInv, WorkerPlace, Cancelling, SomeChildFailed
        <5>2. CASE cur[w] = Cont
          BY <4>2, <5>2 DEF UnblockInv, ContinuationInv, Holds, AllRanWell, FinishedInv
        <5> QED BY <5>1, <5>2, Ids DEF TypeOK
      <4> QED BY <1>0, <4>1, <4>2, <4>3 DEF TypeOK
    <3>3. CASE CancelSibling(w)
      BY <1>0, <3>3 DEF CancelSibling, Goto, CancelInv, TypeOK
    <3>4. CASE Charge(w)
      BY <3>4 DEF Charge, Goto, Visited, CancelInv, TypeOK
    <3>5. CASE Scan(w)
      <4>1. PICK j \in todo[w] :
              \/ /\ sib' = [sib EXCEPT ![w] = j] /\ UNCHANGED todo
                 /\ pc' = [pc EXCEPT ![w] = "deps"]
              \/ todo' = [todo EXCEPT ![w] = todo[w] \ {j}] /\ UNCHANGED <<sib, pc>>
        BY <3>5 DEF Scan, Goto, Visited
      <4>2. pc[w] = "scan"
        BY <3>5 DEF Scan
      <4> QED BY <4>1, <4>2 DEF TypeOK
    <3>6. CASE CheckDependency(w)
      <4>1. /\ \/ UNCHANGED todo
               \/ todo' = [todo EXCEPT ![w] = todo[w] \ {sib[w]}]
            /\ \E q \in {"deps", "unblock", "scan"} : pc' = [pc EXCEPT ![w] = q]
            /\ UNCHANGED sib
        BY <3>6 DEF CheckDependency, Goto, Visited
      <4> QED BY <4>1 DEF TypeOK
    <3>7. CASE Checkpoint(w)
      BY <3>7 DEF Checkpoint, workerVars
    <3>8. CASE \/ Pop(w) \/ Load(w) \/ Hydrate(w) \/ MarkRunning(w) \/ MarkSucceeded(w)
               \/ MarkFailed(w) \/ RecordSuccess(w) \/ ListJobs(w) \/ Unblock(w)
               \/ PushSibling(w)
      BY <3>8 DEF Pop, Load, Hydrate, MarkRunning, MarkSucceeded, MarkFailed, RecordSuccess,
         ListJobs, Unblock, PushSibling, Goto, Visited, TypeOK
    <3>9. CASE Return(w)
      BY <3>9 DEF Return, Goto, TypeOK
    <3> QED BY <1>2, <3>1, <3>2, <3>3, <3>4, <3>5, <3>6, <3>7, <3>8, <3>9
        DEF WorkerStep, Process, Complete
  <2>2. Children' = Children
    BY DEF Children
  <2> QED BY <1>0, <2>1, <2>2 DEF CancelInv
<1> QED BY <1>1, <1>2, NextCases

------------------------------------------------------------------------------
(* The handle's counters. *)

(* The counters are right: N successes and no failure is every child, and no child
   failed and N accounted for is every child. *)
LEMMA Counting ==
  ASSUME NEW done \in SUBSET Children, NEW bad \in SUBSET Children
  PROVE  /\ Cardinality(done) \in Nat /\ Cardinality(bad) \in Nat
         /\ AllSucceeded(done, bad) <=> done = Children /\ bad = {}
         /\ IsReady(done, {}) => done = Children
         /\ IsReady(Children, bad)
<1>1. IsFiniteSet(Children) /\ Cardinality(Children) = N
  BY Ids, FS_Interval DEF Children
<1>2. /\ IsFiniteSet(done) /\ Cardinality(done) <= N
      /\ Cardinality(done) = N => done = Children
  BY <1>1, FS_Subset
<1>3. IsFiniteSet(bad)
  BY <1>1, FS_Subset
<1>4. Cardinality(done) \in Nat /\ Cardinality(bad) \in Nat
  BY <1>2, <1>3, FS_CardinalityType
<1>5. Cardinality(bad) = 0 <=> bad = {}
  BY <1>3, FS_EmptySet
<1>6. AllSucceeded(done, bad) <=> done = Children /\ bad = {}
  BY <1>1, <1>2, <1>5 DEF AllSucceeded
<1>7. Cardinality({}) = 0
  BY FS_EmptySet
<1>8. IsReady(done, {}) => done = Children
  BY <1>2, <1>4, <1>7, Ids DEF IsReady
<1>9. IsReady(Children, bad)
  BY <1>1, <1>4, Ids DEF IsReady
<1> QED BY <1>4, <1>6, <1>8, <1>9

(* Once all children are accounted for, recording more keeps it so. *)
LEMMA ReadyGrows ==
  ASSUME NEW done \in SUBSET Children, NEW bad \in SUBSET Children, NEW c \in Children,
         IsReady(done, bad)
  PROVE  IsReady(done \cup {c}, bad) /\ IsReady(done, bad \cup {c})
<1>0. IsFiniteSet(Children)
  BY Ids, FS_Interval DEF Children
<1>1. IsFiniteSet(done \cup {c}) /\ IsFiniteSet(bad \cup {c})
  <2>1. done \cup {c} \in SUBSET Children /\ bad \cup {c} \in SUBSET Children
    OBVIOUS
  <2> QED BY <1>0, <2>1, FS_Subset
<1>2. Cardinality(done) <= Cardinality(done \cup {c}) /\ Cardinality(bad) <= Cardinality(bad \cup {c})
  BY <1>1, FS_Subset
<1>3. /\ Cardinality(done \cup {c}) \in Nat /\ Cardinality(bad \cup {c}) \in Nat
      /\ Cardinality(done) \in Nat /\ Cardinality(bad) \in Nat
  BY <1>1, Counting, FS_CardinalityType
<1> QED BY <1>2, <1>3, Ids DEF IsReady

(* What recording does to each field of the handle. *)
LEMMA MarkEffect ==
  ASSUME TypeOK, NEW done \in SUBSET Children, NEW bad \in SUBSET Children, Mark(done, bad)
  PROVE  /\ handle'.completed = done /\ handle'.failed = bad
         /\ handle'.saved = handle.saved
         /\ handle'.state = IF ~IsReady(done, bad) THEN handle.state
                            ELSE IF AllSucceeded(done, bad) THEN "completed" ELSE "failed"
BY DEF TypeOK, Mark, Handle

(* What a worker does to the handle. *)
LEMMA WorkerHandle ==
  ASSUME TypeOK, PlaceInv, UnblockInv, StoreInv, SettleInv, NEW w \in Workers, WorkerStep(w)
  PROVE  \/ UNCHANGED handle
         \/ \E c \in Children : /\ HandleStored
                                /\ \/ /\ ran[c] = "ok"
                                      /\ Mark(handle.completed \cup {c}, handle.failed)
                                   \/ /\ SomeChildFailed
                                      /\ Mark(handle.completed, handle.failed \cup {c})
<1>0. handle.saved => HandleStored
  BY DEF SettleInv, NewHandle
<1>1. CASE RecordSuccess(w)
  <2>1. cur[w] \in Children => ran[cur[w]] = "ok"
    BY <1>1 DEF RecordSuccess, PlaceInv, WorkerPlace, Reporting
  <2> QED BY <1>0, <1>1, <2>1 DEF RecordSuccess, RecordCompleted
<1>2. CASE RecordFailure(w)
  <2>1. cur[w] \in Children => SomeChildFailed
    BY <1>2 DEF RecordFailure, PlaceInv, WorkerPlace, Cancelling, SomeChildFailed
  <2> QED BY <1>0, <1>2, <2>1 DEF RecordFailure, RecordFailed
<1>3. CASE Charge(w)
  <2>1. sib[w] \in Children /\ SomeChildFailed /\ HandleStored
    BY <1>3 DEF Charge, StoreInv, CancelInv, SettleInv
  <2> QED BY <1>3, <2>1 DEF Charge, RecordFailed
<1>4. CASE ~(RecordSuccess(w) \/ RecordFailure(w) \/ Charge(w))
  BY <1>4 DEF WorkerStep, Process, Complete, Pop, Load, Hydrate, MarkRunning, Checkpoint,
     MarkSucceeded, MarkFailed, ListJobs, Scan, CheckDependency, Unblock, PushSibling,
     Survey, CancelSibling, Return
<1> QED BY <1>1, <1>2, <1>3, <1>4

(* No batch both has a failed child and had all its children run well. *)
LEMMA NotBoth == ~(AllRanWell /\ SomeChildFailed)
BY DEF AllRanWell, SomeChildFailed

(* The handle records what happened, and the caller merges only a good batch. *)
LEMMA HandleStep ==
  ASSUME TypeOK, EnqueueInv, PlaceInv, UnblockInv, StoreInv, HandleInv, SettleInv, [Next]_vars
  PROVE  HandleInv'
<1>0. /\ AllRanWell => AllRanWell'
      /\ SomeChildFailed => SomeChildFailed'
      /\ \A c \in Children : ran[c] = "ok" => ran'[c] = "ok"
      /\ handle.completed \subseteq Children /\ copy.completed \subseteq Children
      /\ handle.failed \subseteq Children
  BY VerdictsStable, RanStable DEF TypeOK, Handle
<1>1. CASE CallerStep
  <2>1. UNCHANGED ran
    BY <1>1, CallerFrame
  <2>2. CASE Register \/ Block \/ Push \/ StartPool
    <3>1. /\ UNCHANGED <<handle, copy, collected>>
          /\ opc' \notin {"diagnose", "collect", "fan_in", "fan_in_save", "merged"}
      BY <2>2 DEF Register, Block, Push, StartPool, Enqueued
    <3> QED BY <1>0, <3>1 DEF HandleInv, Children
  <2>3. CASE SaveHandle
    BY <1>0, <2>3 DEF SaveHandle, NewHandle, HandleInv, Children
  <2>4. CASE PollFailed \/ TimeOut
    <3>1. /\ UNCHANGED <<handle, collected>> /\ copy' = handle
          /\ opc' \notin {"collect", "fan_in", "fan_in_save", "merged"}
          /\ opc' = "diagnose" => opc = "poll" /\ handle.state = "failed"
      BY <2>4 DEF PollFailed, TimeOut
    <3>2. opc' = "diagnose" => SomeChildFailed
      BY <3>1 DEF SettleInv, HandleInv
    <3> QED BY <1>0, <3>1, <3>2 DEF HandleInv, Children
  <2>5. CASE Diagnose
    <3>1. /\ UNCHANGED <<handle, collected>> /\ copy'.completed = copy.completed
          /\ copy'.failed \subseteq copy.failed
          /\ opc = "diagnose"
          /\ opc' \notin {"collect", "fan_in", "fan_in_save", "merged"}
      BY <2>5 DEF Diagnose, TypeOK, Handle
    <3> QED BY <1>0, <3>1 DEF HandleInv, Children
  <2>6. CASE PollCompleted
    BY <1>0, <2>6 DEF PollCompleted, HandleInv, Children
  <2>7. CASE Collect
    <3>1. AllRanWell /\ ~SomeChildFailed
      BY <2>7, NotBoth DEF Collect, HandleInv
    <3>2. \A c \in Children : store[c].result # "none"
      BY <3>1 DEF AllRanWell, StoreInv, FinishedInv
    <3>3. collected' = Children /\ UNCHANGED <<handle, copy>> /\ opc' = "fan_in"
      BY <2>7, <3>2 DEF Collect
    <3> QED BY <1>0, <3>1, <3>3 DEF HandleInv, Children
  <2>8. CASE FanInRead
    BY <1>0, <2>8 DEF FanInRead, HandleInv, Children
  <2>9. CASE FanInSave
    <3>1. copy = handle /\ handle.state = "completed" /\ handle' = handle /\ AllRanWell
          /\ collected = Children
      BY <2>9 DEF FanInSave, SettleInv, HandleInv, TypeOK, Handle
    <3>2. UNCHANGED <<copy, collected>> /\ opc' = "merged"
      BY <2>9 DEF FanInSave
    <3> QED BY <1>0, <3>1, <3>2 DEF HandleInv, Children
  <2>10. CASE CancelSave
    <3>1. /\ handle'.completed = copy.completed /\ handle'.failed = copy.failed
          /\ handle'.state = "failed" /\ UNCHANGED <<copy, collected>> /\ opc' = "timed_out"
      BY <2>10 DEF CancelSave, TypeOK, Handle
    <3>2. copy.failed # {} => SomeChildFailed
      BY <2>10 DEF CancelSave, HandleInv
    <3> QED BY <1>0, <3>1, <3>2 DEF HandleInv, Children
  <2> QED BY <1>1, <2>2, <2>3, <2>4, <2>5, <2>6, <2>7, <2>8, <2>9, <2>10
      DEF CallerStep, FanOut, FanIn
<1>2. ASSUME NEW w \in Workers, WorkerStep(w)
      PROVE  HandleInv'
  <2>1. UNCHANGED callerVars
    BY <1>2, WorkerFrame
  <2>2. CASE UNCHANGED handle
    BY <1>0, <2>1, <2>2 DEF HandleInv, callerVars, Children
  <2>3. ASSUME NEW c \in Children, ran[c] = "ok",
               Mark(handle.completed \cup {c}, handle.failed)
        PROVE  HandleInv'
    <3>1. /\ handle'.completed = handle.completed \cup {c} /\ handle'.failed = handle.failed
          /\ handle'.state = "completed" =>
               handle.state = "completed" \/ AllSucceeded(handle.completed \cup {c}, handle.failed)
      BY <1>0, <2>3, MarkEffect
    <3>2. AllSucceeded(handle.completed \cup {c}, handle.failed) => AllRanWell
      BY <1>0, <2>3, Counting DEF HandleInv, AllRanWell
    <3> QED BY <1>0, <2>1, <2>3, <3>1, <3>2 DEF HandleInv, callerVars, Children
  <2>4. ASSUME NEW c \in Children, SomeChildFailed,
               Mark(handle.completed, handle.failed \cup {c})
        PROVE  HandleInv'
    <3>1. /\ handle'.completed = handle.completed
          /\ handle'.state = "completed" =>
               handle.state = "completed" \/ AllSucceeded(handle.completed, handle.failed \cup {c})
      BY <1>0, <2>4, MarkEffect
    <3>2. ~AllSucceeded(handle.completed, handle.failed \cup {c})
      BY <1>0, Counting
    <3> QED BY <1>0, <2>1, <2>4, <3>1, <3>2 DEF HandleInv, callerVars, Children
  <2> QED BY <1>2, <2>2, <2>3, <2>4, WorkerHandle
<1>3. CASE UNCHANGED vars
  BY <1>0, <1>3 DEF vars, callerVars, HandleInv, Children
<1> QED BY <1>1, <1>2, <1>3, NextCases

------------------------------------------------------------------------------
(* The handle's state is what its lists say. *)

(* Once saved, the handle stays saved, and until then it is as it was made. *)
LEMMA StoredStep ==
  ASSUME TypeOK, EnqueueInv, SettleInv, [Next]_vars
  PROVE  /\ HandleStored => HandleStored'
         /\ ~HandleStored' => UNCHANGED handle
         /\ opc' \notin {"register", "block", "push", "handle"} => HandleStored'
<1>0. next \in Nat /\ N \in Nat /\ N' = N
  BY Ids DEF TypeOK
<1>1. CASE Register \/ StartPool
  BY <1>0, <1>1, Ids DEF Register, StartPool, HandleStored, SettleInv, EnqueueInv
<1>2. CASE Block \/ Push
  <2>1. /\ opc # "handle" /\ opc' = (IF next < N THEN "register"
                                  ELSE IF next = N THEN "handle"
                                  ELSE IF caller = "decompose" THEN "pool" ELSE "poll")
        /\ next' = next + 1 /\ UNCHANGED handle
    BY <1>2 DEF Block, Push, Enqueued
  <2> QED BY <1>0, <2>1 DEF HandleStored
<1>3. CASE SaveHandle
  BY <1>0, <1>3 DEF SaveHandle, EnqueueInv, HandleStored, Cont
<1>4. CASE FanIn \/ TimeOut \/ CancelSave
  <2>1. opc \notin {"register", "block", "push", "handle"} /\ opc' # "handle" /\ UNCHANGED next
    BY <1>4 DEF FanIn, PollFailed, Diagnose, PollCompleted, Collect, FanInRead, FanInSave,
       TimeOut, CancelSave
  <2> QED BY <1>0, <2>1 DEF HandleStored, SettleInv
<1>5. ASSUME NEW w \in Workers, WorkerStep(w)
      PROVE  /\ UNCHANGED <<next, opc>>
             /\ ~HandleStored' => UNCHANGED handle
  <2>1. UNCHANGED <<next, opc>>
    BY <1>5, WorkerFrame DEF callerVars
  <2>2. CASE handle.saved \/ pc[w] = "charge"
    <3>1. HandleStored
      BY <2>2 DEF SettleInv, NewHandle
    <3> QED BY <1>0, <2>1, <3>1 DEF HandleStored
  <2>3. CASE ~(handle.saved \/ pc[w] = "charge")
    <3>1. UNCHANGED handle
      BY <1>5, <2>3 DEF WorkerStep, Process, Complete, Pop, Load, Hydrate, MarkRunning,
         Checkpoint, MarkSucceeded, MarkFailed, RecordSuccess, ListJobs, Scan,
         CheckDependency, Unblock, PushSibling, RecordFailure, Survey, CancelSibling,
         Charge, Return
    <3> QED BY <2>1, <3>1
  <2> QED BY <2>2, <2>3
<1>6. CASE UNCHANGED vars
  BY <1>0, <1>6 DEF vars, callerVars, HandleStored, SettleInv
<1>7. CASE \E w \in Workers : WorkerStep(w)
  BY <1>0, <1>5, <1>7 DEF HandleStored, SettleInv
<1> QED BY <1>1, <1>2, <1>3, <1>4, <1>6, <1>7, NextCases DEF CallerStep, FanOut

(* Recording one more child keeps the state in step with the lists. *)
LEMMA MarkSettles ==
  ASSUME TypeOK, NEW c \in Children,
         NEW done \in SUBSET Children, NEW bad \in SUBSET Children, Mark(done, bad),
         \/ done = handle.completed \cup {c} /\ bad = handle.failed
         \/ done = handle.completed /\ bad = handle.failed \cup {c},
         handle.state = "completed" => handle.completed = Children /\ handle.failed = {},
         handle.state = "failed" =>
           handle.failed # {} /\ IsReady(handle.completed, handle.failed)
  PROVE  /\ handle'.state = "completed" => handle'.completed = Children /\ handle'.failed = {}
         /\ handle'.state = "failed" =>
              handle'.failed # {} /\ IsReady(handle'.completed, handle'.failed)
<1>0. handle.completed \in SUBSET Children /\ handle.failed \in SUBSET Children
  BY DEF TypeOK, Handle
<1>1. /\ handle'.completed = done /\ handle'.failed = bad
      /\ handle'.state = IF ~IsReady(done, bad) THEN handle.state
                         ELSE IF AllSucceeded(done, bad) THEN "completed" ELSE "failed"
  BY MarkEffect
<1>2. IsReady(handle.completed, handle.failed) => IsReady(done, bad)
  <2>1. IsReady(handle.completed, handle.failed) =>
          /\ IsReady(handle.completed \cup {c}, handle.failed)
          /\ IsReady(handle.completed, handle.failed \cup {c})
    BY <1>0, ReadyGrows
  <2>2. CASE done = handle.completed \cup {c} /\ bad = handle.failed
    BY <2>1, <2>2
  <2>3. CASE done = handle.completed /\ bad = handle.failed \cup {c}
    BY <2>1, <2>3
  <2> QED BY <2>2, <2>3
<1>3. CASE ~IsReady(done, bad)
  <2>1. handle.state # "completed"
    BY <1>0, <1>2, <1>3, Counting
  <2> QED BY <1>1, <1>2, <1>3, <2>1
<1>4. CASE IsReady(done, bad) /\ AllSucceeded(done, bad)
  BY <1>1, <1>4, Counting
<1>5. CASE IsReady(done, bad) /\ ~AllSucceeded(done, bad)
  <2>1. bad # {}
    BY <1>5, Counting
  <2> QED BY <1>1, <1>5, <2>1
<1> QED BY <1>3, <1>4, <1>5

(* The invariant on the handle's state is preserved. *)
LEMMA SettleStep ==
  ASSUME TypeOK, EnqueueInv, PlaceInv, UnblockInv, StoreInv, HandleInv, SettleInv, [Next]_vars
  PROVE  SettleInv'
<1> DEFINE InStep(h) ==
      /\ h.state = "completed" => h.completed = Children /\ h.failed = {}
      /\ h.state = "failed" => h.failed # {} /\ IsReady(h.completed, h.failed)
<1>0. /\ HandleStored => HandleStored'
      /\ ~HandleStored' => UNCHANGED handle /\ ~HandleStored
      /\ opc' \notin {"register", "block", "push", "handle"} => HandleStored'
  BY StoredStep
<1>1. ~HandleStored' => handle' = NewHandle' /\ NewHandle' = NewHandle
  BY <1>0 DEF SettleInv, NewHandle
<1>2. (InStep(handle))' = InStep(handle')
  BY DEF Children, IsReady
<1>3. SUFFICES /\ \A w \in Workers : pc'[w] \in {"cancel", "doom", "charge"} => HandleStored'
               /\ opc' \notin {"cancel", "timed_out"} => InStep(handle')
               /\ opc' \in {"collect", "fan_in", "fan_in_save"} => handle'.state = "completed"
               /\ opc' = "fan_in_save" => copy' = handle'
  BY <1>0, <1>1, <1>2 DEF SettleInv
<1>4. CASE CallerStep
  <2>1. \A w \in Workers : pc'[w] \in {"cancel", "doom", "charge"} => HandleStored'
    BY <1>0, <1>4, CallerFrame DEF workerVars, SettleInv
  <2>2. CASE Register \/ Block \/ Push \/ StartPool
    <3>1. /\ UNCHANGED handle
          /\ opc \notin {"cancel", "timed_out"}
          /\ opc' \notin {"collect", "fan_in", "fan_in_save"}
      BY <2>2 DEF Register, Block, Push, StartPool, Enqueued
    <3> QED BY <2>1, <3>1 DEF SettleInv
  <2>3. CASE SaveHandle
    BY <2>1, <2>3 DEF SaveHandle, NewHandle
  <2>4. CASE PollFailed \/ TimeOut \/ Diagnose
    <3>1. /\ UNCHANGED handle
          /\ opc \notin {"cancel", "timed_out"}
          /\ opc' \notin {"collect", "fan_in", "fan_in_save"}
      BY <2>4 DEF PollFailed, TimeOut, Diagnose
    <3> QED BY <2>1, <3>1 DEF SettleInv
  <2>5. CASE PollCompleted \/ Collect
    <3>1. /\ UNCHANGED handle /\ handle.state = "completed"
          /\ opc \notin {"cancel", "timed_out"} /\ opc' # "fan_in_save"
      BY <2>5 DEF PollCompleted, Collect, SettleInv
    <3> QED BY <2>1, <3>1 DEF SettleInv
  <2>6. CASE FanInRead
    <3>1. /\ UNCHANGED handle /\ handle.state = "completed" /\ copy' = handle
          /\ opc \notin {"cancel", "timed_out"}
      BY <2>6 DEF FanInRead, SettleInv
    <3> QED BY <2>1, <3>1 DEF SettleInv
  <2>7. CASE FanInSave
    <3>1. /\ copy = handle /\ handle.state = "completed" /\ opc = "fan_in_save"
          /\ handle' = [copy EXCEPT !.state = "completed"] /\ opc' = "merged"
      BY <2>7 DEF FanInSave, SettleInv
    <3>2. handle' = handle
      BY <3>1 DEF TypeOK, Handle
    <3> QED BY <2>1, <3>1, <3>2 DEF SettleInv
  <2>8. CASE CancelSave
    BY <2>1, <2>8 DEF CancelSave
  <2> QED BY <1>4, <2>2, <2>3, <2>4, <2>5, <2>6, <2>7, <2>8 DEF CallerStep, FanOut, FanIn
<1>5. ASSUME NEW w \in Workers, WorkerStep(w)
      PROVE  /\ \A v \in Workers : pc'[v] \in {"cancel", "doom", "charge"} => HandleStored'
             /\ opc' \notin {"cancel", "timed_out"} => InStep(handle')
             /\ opc' \in {"collect", "fan_in", "fan_in_save"} => handle'.state = "completed"
             /\ opc' = "fan_in_save" => copy' = handle'
  <2>0. UNCHANGED callerVars
    BY <1>5, WorkerFrame
  <2>1. \A v \in Workers : pc'[v] \in {"cancel", "doom", "charge"} => HandleStored'
    <3>1. CASE RecordFailure(w)
      <4>1. /\ \A v \in Workers \ {w} : pc'[v] = pc[v]
            /\ pc'[w] = "idle" \/ handle.saved
        BY <3>1 DEF RecordFailure, Goto, TypeOK
      <4>2. handle.saved => HandleStored
        BY DEF SettleInv, NewHandle
      <4> QED BY <1>0, <4>1, <4>2 DEF SettleInv
    <3>2. CASE Survey(w) \/ CancelSibling(w) \/ Charge(w)
      <4>1. /\ \A v \in Workers \ {w} : pc'[v] = pc[v]
            /\ pc[w] \in {"cancel", "doom", "charge"}
        BY <3>2 DEF Survey, CancelSibling, Charge, Goto, TypeOK
      <4> QED BY <1>0, <4>1 DEF SettleInv
    <3>3. CASE ~(RecordFailure(w) \/ Survey(w) \/ CancelSibling(w) \/ Charge(w))
      <4>1. UNCHANGED pc \/ \E p \in WorkerPCs \ {"cancel", "doom", "charge"} : Goto(w, p)
        BY <1>5, <3>3 DEF WorkerStep, Process, Complete, Pop, Load, Hydrate, MarkRunning,
           Checkpoint, MarkSucceeded, MarkFailed, RecordSuccess, ListJobs, Scan,
           CheckDependency, Unblock, PushSibling, Return, workerVars, WorkerPCs, Running,
           Reporting, Cancelling
      <4>2. \A v \in Workers : pc'[v] \in {"cancel", "doom", "charge"} => pc'[v] = pc[v]
        BY <4>1 DEF Goto, TypeOK
      <4> QED BY <1>0, <4>2 DEF SettleInv
    <3> QED BY <3>1, <3>2, <3>3
  <2>2. CASE UNCHANGED handle
    BY <2>0, <2>1, <2>2 DEF SettleInv, callerVars
  <2>3. ASSUME NEW c \in Children, Mark(handle.completed \cup {c}, handle.failed)
        PROVE  /\ opc' \notin {"cancel", "timed_out"} => InStep(handle')
               /\ opc' \in {"collect", "fan_in", "fan_in_save"} => UNCHANGED handle
    <3>0. handle.completed \subseteq Children /\ handle.failed \subseteq Children
      BY DEF TypeOK, Handle
    <3>1. opc \notin {"cancel", "timed_out"} => InStep(handle)
      BY DEF SettleInv
    <3>2. InStep(handle) => InStep(handle')
      BY <2>3, <3>0, MarkSettles
    <3>3. CASE opc \in {"collect", "fan_in", "fan_in_save"}
      <4>1. handle.state = "completed" /\ handle.completed = Children /\ handle.failed = {}
        BY <3>1, <3>3 DEF SettleInv
      <4>2. handle' = [handle EXCEPT !.completed = handle.completed,
                                     !.failed = handle.failed, !.state = handle.state]
        <5>1. handle.completed \cup {c} = handle.completed
          BY <2>3, <4>1
        <5>2. AllSucceeded(handle.completed, handle.failed)
          BY <4>1, Counting
        <5> QED BY <2>3, <4>1, <5>1, <5>2 DEF Mark
      <4> QED BY <3>1, <3>2, <3>3, <4>2, <2>0 DEF TypeOK, Handle, callerVars
    <3> QED BY <2>0, <3>1, <3>2, <3>3 DEF callerVars
  <2>4. ASSUME NEW c \in Children, SomeChildFailed,
               Mark(handle.completed, handle.failed \cup {c})
        PROVE  /\ opc' \notin {"cancel", "timed_out"} => InStep(handle')
               /\ opc' \notin {"collect", "fan_in", "fan_in_save"}
    <3>0. handle.completed \subseteq Children /\ handle.failed \subseteq Children
      BY DEF TypeOK, Handle
    <3>1. opc \notin {"cancel", "timed_out"} => InStep(handle)
      BY DEF SettleInv
    <3>2. InStep(handle) => InStep(handle')
      BY <2>4, <3>0, MarkSettles
    <3>3. opc \notin {"collect", "fan_in", "fan_in_save"}
      BY <2>4, NotBoth DEF HandleInv
    <3> QED BY <2>0, <3>1, <3>2, <3>3 DEF callerVars
  <2>5. CASE \E c \in Children : Mark(handle.completed \cup {c}, handle.failed)
    BY <2>0, <2>1, <2>3, <2>5 DEF SettleInv, callerVars
  <2>6. CASE SomeChildFailed /\ \E c \in Children : Mark(handle.completed, handle.failed \cup {c})
    BY <2>1, <2>4, <2>6
  <2> QED BY <1>5, <2>2, <2>5, <2>6, WorkerHandle
<1>6. CASE UNCHANGED vars
  BY <1>0, <1>6 DEF vars, callerVars, workerVars, SettleInv
<1> QED BY <1>4, <1>5, <1>6, NextCases

------------------------------------------------------------------------------
(* The inductive invariant. *)

(* It holds of the initial states. *)
LEMMA IndInit == Init => IndInv
<1> SUFFICES ASSUME Init PROVE IndInv
  OBVIOUS
<1>1. TypeOK
  BY TypeInit
<1>2. EnqueueInv
  BY Ids DEF Init, EnqueueInv, Jobs, Children
<1>3. PlaceInv /\ UnblockInv
  BY DEF Init, PlaceInv, QueuePlace, WorkerPlace, UnblockInv, ContinuationInv, DepsInv, Holds
<1>4. StoreInv
  BY Ids DEF Init, StoreInv, FinishedInv, CancelInv
<1>5. HandleInv
  BY DEF Init, HandleInv, NewHandle
<1>6. SettleInv
  BY Ids DEF Init, SettleInv, NewHandle, HandleStored
<1> QED BY <1>1, <1>2, <1>3, <1>4, <1>5, <1>6 DEF IndInv

(* It is preserved by every step. *)
LEMMA IndStep == IndInv /\ [Next]_vars => IndInv'
<1> SUFFICES ASSUME IndInv, [Next]_vars PROVE IndInv'
  OBVIOUS
<1> USE DEF IndInv
<1>1. TypeOK'
  BY TypeStep
<1>2. EnqueueInv'
  BY EnqueueStep
<1>3. PlaceInv'
  BY PlaceStep
<1>4. UnblockInv'
  BY ContinuationStep, DepsStep DEF UnblockInv
<1>5. StoreInv'
  BY FinishedStep, CancelStep DEF StoreInv
<1>6. HandleInv'
  BY HandleStep
<1>7. SettleInv'
  BY SettleStep
<1> QED BY <1>1, <1>2, <1>3, <1>4, <1>5, <1>6, <1>7

(* The inductive invariant holds throughout every execution of the batch. *)
THEOREM Inductive == Spec => []IndInv
BY IndInit, IndStep, PTL DEF Spec

(* Every variable keeps its type: the caller never enqueues more than the
   plan's jobs, and no id that is not a child's is ever recorded on the handle. *)
THEOREM TypeCorrect == Spec => []TypeOK
<1>1. IndInv => TypeOK
  BY DEF IndInv
<1> QED BY <1>1, Inductive, PTL

(* The handle says COMPLETED only while every child's output is in the store. *)
THEOREM CompletedIsComplete == Spec => []CompletedMeansAllOutputs
<1>1. IndInv => CompletedMeansAllOutputs
  BY NotBoth DEF IndInv, HandleInv, AllRanWell, StoreInv, FinishedInv, CompletedMeansAllOutputs
<1> QED BY <1>1, Inductive, PTL

(* The continuation executes only while every child's output is in the store. *)
THEOREM ContinuationIsLast == Spec => []ContinuationSeesAllOutputs
<1>1. ASSUME IndInv PROVE ContinuationSeesAllOutputs
  <2>1. ASSUME NEW w \in Workers, pc[w] = "exec", cur[w] = Cont
        PROVE  AllRanWell
    BY <1>1, <2>1 DEF IndInv, UnblockInv, ContinuationInv, Holds
  <2>2. AllRanWell => \A c \in Children : store[c] = [state |-> "succeeded", result |-> "output"]
    BY <1>1, NotBoth DEF IndInv, AllRanWell, StoreInv, FinishedInv
  <2> QED BY <2>1, <2>2 DEF ContinuationSeesAllOutputs
<1> QED BY <1>1, Inductive, PTL

(* A merged result is the output of every child. *)
THEOREM MergedIsWhole == Spec => []MergeIsWhole
<1>1. IndInv => MergeIsWhole
  BY DEF IndInv, HandleInv, MergeIsWhole
<1> QED BY <1>1, Inductive, PTL

(* A child is executed to its end once: then its verdict stands, and no worker takes
   it up again. *)
THEOREM ChildrenRunOnce == Spec => NoChildRunsTwice
<1>1. ASSUME IndInv, [Next]_vars, NEW c \in Children, ran[c] # "none"
      PROVE  /\ ran'[c] = ran[c]
             /\ \A w \in Workers : cur'[w] = c => pc'[w] \notin Running
  <2>1. ran'[c] = ran[c]
    BY <1>1, RanStable DEF IndInv
  <2>2. WorkerPlace'
    BY <1>1, IndStep DEF IndInv, PlaceInv
  <2>3. ASSUME NEW w \in Workers, cur'[w] = c, pc'[w] \in Running
        PROVE  FALSE
    <3>1. c \in Children' /\ pc'[w] # "idle"
      BY <2>3 DEF Children, Running
    <3> QED BY <1>1, <2>1, <2>2, <2>3, <3>1 DEF WorkerPlace
  <2> QED BY <2>1, <2>3
<1>2. IndInv /\ [Next]_vars =>
        [\A c \in Children : ran[c] # "none" =>
           /\ ran'[c] = ran[c]
           /\ \A w \in Workers : cur'[w] = c => pc'[w] \notin Running]_vars
  BY <1>1
<1> QED BY <1>2, Inductive, PTL DEF Spec, NoChildRunsTwice

(* The record of a child that has run is written once more only by a cancellation,
   after some child has failed. *)
LEMMA RecordKept ==
  ASSUME IndInv, [Next]_vars, NEW c \in Children, ran[c] # "none", store'[c] # store[c]
  PROVE  store'[c] = [state |-> "failed", result |-> "none"] /\ SomeChildFailed
<1>0. TypeOK /\ EnqueueInv /\ WorkerPlace /\ c \in Jobs /\ c # Cont
  BY Ids DEF IndInv, PlaceInv
<1>1. CASE CallerStep
  <2>1. CASE Register \/ Block
    <3>1. next \in Jobs /\ (Save(next, "pending", "none") \/ Save(next, "blocked", "none"))
      BY <1>0, <2>1 DEF Register, Block, EnqueueInv
    <3>2. c = next
      BY <1>0, <3>1 DEF Save, TypeOK
    <3> QED BY <1>0, <3>2, Ids DEF EnqueueInv
  <2>2. CASE ~(Register \/ Block)
    BY <1>1, <2>2 DEF CallerStep, FanOut, FanIn, Push, SaveHandle, StartPool, PollFailed,
       Diagnose, PollCompleted, Collect, FanInRead, FanInSave, TimeOut, CancelSave
  <2> QED BY <2>1, <2>2
<1>2. ASSUME NEW w \in Workers, WorkerStep(w)
      PROVE  store'[c] = [state |-> "failed", result |-> "none"] /\ SomeChildFailed
  <2>0. cur[w] \in Jobs /\ sib[w] \in Jobs
    BY <1>0 DEF TypeOK
  <2>1. CASE \/ Hydrate(w) \/ MarkRunning(w) \/ Checkpoint(w)
             \/ MarkSucceeded(w) \/ MarkFailed(w)
    <3>1. pc[w] \in Running /\ \E s, r : Save(cur[w], s, r)
      BY <2>1 DEF Hydrate, MarkRunning, Checkpoint, MarkSucceeded, MarkFailed, Running
    <3>2. cur[w] # c
      BY <1>0, <3>1 DEF WorkerPlace, Running
    <3> QED BY <1>0, <2>0, <3>1, <3>2, SaveEffect
  <2>2. CASE Unblock(w)
    <3>1. Save(Cont, "pending", "none")
      BY <2>2 DEF Unblock, IndInv, UnblockInv, DepsInv
    <3> QED BY <1>0, <3>1 DEF Save, TypeOK
  <2>3. CASE CancelSibling(w)
    <3>1. Save(sib[w], "failed", "none") /\ SomeChildFailed
      BY <2>3 DEF CancelSibling, IndInv, StoreInv, CancelInv
    <3>2. sib[w] = c
      BY <1>0, <3>1 DEF Save, TypeOK
    <3> QED BY <1>0, <3>1, <3>2 DEF Save, TypeOK
  <2>4. CASE \/ Pop(w) \/ Load(w) \/ RecordSuccess(w) \/ ListJobs(w) \/ Scan(w)
             \/ CheckDependency(w) \/ PushSibling(w) \/ RecordFailure(w) \/ Survey(w)
             \/ Charge(w) \/ Return(w)
    BY <2>4 DEF Pop, Load, RecordSuccess, ListJobs, Scan, CheckDependency, PushSibling,
       RecordFailure, Survey, Charge, Return
  <2> QED BY <1>2, <2>1, <2>2, <2>3, <2>4 DEF WorkerStep, Process, Complete
<1>3. ~UNCHANGED vars
  BY DEF vars
<1> QED BY <1>1, <1>2, <1>3, NextCases

(* How a child ended stays in the job store, but for a justified cancellation. *)
THEOREM OutcomesStand == Spec => OutcomesAreKept
<1>1. IndInv /\ [Next]_vars =>
        [\A c \in Children : ran[c] # "none" /\ store'[c] # store[c] =>
           store'[c] = [state |-> "failed", result |-> "none"] /\ SomeChildFailed]_vars
  BY RecordKept
<1> QED BY <1>1, Inductive, PTL DEF Spec, OutcomesAreKept

(* A step from a state that satisfies the invariant loses nothing that was
   recorded on the handle and never changes a settled state, unless the caller
   has cancelled the batch. *)
LEMMA SettlingStep ==
  ASSUME IndInv, [Next]_vars, opc \notin {"cancel", "timed_out"}
  PROVE  /\ (handle.saved /\ handle.state # "waiting") => handle'.state = handle.state
         /\ handle.completed \subseteq handle'.completed
         /\ handle.failed \subseteq handle'.failed
<1> USE DEF IndInv
<1>0. /\ handle.completed \subseteq Children /\ handle.failed \subseteq Children
      /\ handle.state \in {"waiting", "completed", "failed"}
      /\ handle.state = "completed" => handle.completed = Children /\ handle.failed = {}
      /\ handle.state = "failed" =>
           handle.failed # {} /\ IsReady(handle.completed, handle.failed)
  BY DEF TypeOK, Handle, SettleInv
<1>1. CASE SaveHandle
  <2>1. handle = NewHandle
    BY <1>1 DEF SaveHandle, SettleInv, HandleStored
  <2> QED BY <2>1 DEF NewHandle
<1>2. CASE FanInSave
  <2>1. copy = handle /\ handle.state = "completed"
        /\ handle' = [copy EXCEPT !.state = "completed"]
    BY <1>2 DEF FanInSave, SettleInv
  <2>2. handle' = handle
    BY <2>1 DEF TypeOK, Handle
  <2> QED BY <2>2
<1>3. CASE CallerStep /\ ~(SaveHandle \/ FanInSave)
  BY <1>3 DEF CallerStep, FanOut, FanIn, Register, Block, Push, StartPool, Enqueued, PollFailed,
     Diagnose, PollCompleted, Collect, FanInRead, TimeOut, CancelSave
<1>4. ASSUME NEW c \in Children, Mark(handle.completed \cup {c}, handle.failed)
      PROVE  /\ handle.state # "waiting" => handle'.state = handle.state
             /\ handle.completed \subseteq handle'.completed
             /\ handle.failed \subseteq handle'.failed
  <2>1. /\ handle'.completed = handle.completed \cup {c} /\ handle'.failed = handle.failed
        /\ handle'.state = IF ~IsReady(handle.completed \cup {c}, handle.failed) THEN handle.state
                           ELSE IF AllSucceeded(handle.completed \cup {c}, handle.failed)
                                THEN "completed" ELSE "failed"
    BY <1>0, <1>4, MarkEffect
  <2>2. handle.state = "completed" => AllSucceeded(handle.completed \cup {c}, handle.failed)
    BY <1>0, <1>4, Counting
  <2>3. handle.state = "failed" => ~AllSucceeded(handle.completed \cup {c}, handle.failed)
    BY <1>0, <1>4, Counting
  <2> QED BY <1>0, <2>1, <2>2, <2>3
<1>5. ASSUME NEW c \in Children, SomeChildFailed, Mark(handle.completed, handle.failed \cup {c})
      PROVE  /\ handle.state # "waiting" => handle'.state = handle.state
             /\ handle.completed \subseteq handle'.completed
             /\ handle.failed \subseteq handle'.failed
  <2>1. /\ handle'.completed = handle.completed /\ handle'.failed = handle.failed \cup {c}
        /\ handle'.state = IF ~IsReady(handle.completed, handle.failed \cup {c}) THEN handle.state
                           ELSE IF AllSucceeded(handle.completed, handle.failed \cup {c})
                                THEN "completed" ELSE "failed"
    BY <1>0, <1>5, MarkEffect
  <2>2. handle.state # "completed"
    BY <1>5, NotBoth DEF HandleInv
  <2>3. ~AllSucceeded(handle.completed, handle.failed \cup {c})
    BY <1>0, <1>5, Counting
  <2> QED BY <1>0, <2>1, <2>2, <2>3
<1>6. ASSUME NEW w \in Workers, WorkerStep(w)
      PROVE  \/ UNCHANGED handle
             \/ \E c \in Children : Mark(handle.completed \cup {c}, handle.failed)
             \/ \E c \in Children : SomeChildFailed /\ Mark(handle.completed, handle.failed \cup {c})
  BY <1>6, WorkerHandle
<1>7. CASE UNCHANGED vars
  BY <1>7 DEF vars
<1> QED BY <1>1, <1>2, <1>3, <1>4, <1>5, <1>6, <1>7, NextCases

(* Until the caller gives up, the handle settles once and loses no record. *)
THEOREM HandleSettles == Spec => HandleSettlesOnce
<1>1. IndInv /\ [Next]_vars =>
        [opc \notin {"cancel", "timed_out"} =>
           /\ (handle.saved /\ handle.state # "waiting") => handle'.state = handle.state
           /\ handle.completed \subseteq handle'.completed
           /\ handle.failed \subseteq handle'.failed]_vars
  BY SettlingStep
<1> QED BY <1>1, Inductive, PTL DEF Spec, HandleSettlesOnce

------------------------------------------------------------------------------
(* The runtime implements the fork/join promise. *)

Outcomes == [c \in Children |-> Outcome(c)]

(* What a step of the caller does to its verdict. *)
LEMMA VerdictStep ==
  ASSUME IndInv, CallerStep
  PROVE  \/ Verdict' = Verdict
         \/ /\ Verdict = "none"
            /\ \/ Verdict' = "timed_out"
               \/ Verdict' = "completed" /\ AllRanWell
               \/ Verdict' \in {"failed", "undiagnosed"} /\ SomeChildFailed
<1> USE DEF Verdict
<1>1. CASE PollFailed
  <2>1. opc = "poll" /\ handle.state = "failed" /\ opc' \in {"failed", "diagnose"}
    BY <1>1 DEF PollFailed
  <2>2. SomeChildFailed
    BY <2>1 DEF IndInv, HandleInv, SettleInv
  <2> QED BY <2>1, <2>2
<1>2. CASE Diagnose
  <2>1. opc = "diagnose" /\ opc' \in {"failed", "diagnose", "attribute_error"}
    BY <1>2 DEF Diagnose
  <2>2. SomeChildFailed
    BY <2>1 DEF IndInv, HandleInv
  <2> QED BY <2>1, <2>2
<1>3. CASE FanInRead
  <2>1. opc = "fan_in" /\ handle.state = "completed"
    BY <1>3 DEF FanInRead, IndInv, SettleInv
  <2> QED BY <1>3, <2>1 DEF FanInRead
<1>4. CASE FanInSave
  <2>1. opc = "fan_in_save" /\ opc' = "merged" /\ AllRanWell
    BY <1>4 DEF FanInSave, IndInv, HandleInv
  <2> QED BY <2>1
<1>5. CASE TimeOut \/ CancelSave
  <2>1. opc \in {"poll", "cancel"} /\ opc' \in {"cancel", "timed_out"}
    BY <1>5 DEF TimeOut, CancelSave
  <2> QED BY <2>1
<1>6. CASE ~(PollFailed \/ Diagnose \/ FanInRead \/ FanInSave \/ TimeOut \/ CancelSave)
  <2>1. {opc, opc'} \cap {"merged", "failed", "attribute_error", "value_error", "timed_out"} = {}
    BY <1>6 DEF CallerStep, FanOut, FanIn, Register, Block, Push, SaveHandle, StartPool,
       Enqueued, PollCompleted, Collect
  <2> QED BY <2>1
<1> QED BY <1>1, <1>2, <1>3, <1>4, <1>5, <1>6

(* What a step of a worker does to the outcomes: at most one child, which was open,
   ends. *)
LEMMA OutcomeStep ==
  ASSUME IndInv, NEW w \in Workers, WorkerStep(w)
  PROVE  \/ Outcomes' = Outcomes
         \/ \E c \in Children :
              /\ Outcomes[c] = "open"
              /\ \E o \in {"ok", "failed"} : Outcomes' = [Outcomes EXCEPT ![c] = o]
<1>0. TypeOK /\ PlaceInv /\ Children' = Children
  BY DEF IndInv, Children
<1>1. CASE MarkSucceeded(w) \/ MarkFailed(w)
  <2>1. /\ \A j \in Jobs : j # cur[w] => ran'[j] = ran[j]
        /\ ran'[cur[w]] \in {"ok", "error"}
        /\ cur[w] \in Children => ran[cur[w]] = "none"
    BY <1>0, <1>1, RanChange
  <2>2. \A c \in Children : c # cur[w] => Outcome(c)' = Outcome(c)
    BY <2>1, Ids DEF Outcome
  <2>3. ASSUME NEW c \in Children, c = cur[w]
        PROVE  /\ Outcomes[c] = "open"
               /\ \E o \in {"ok", "failed"} : Outcomes' = [Outcomes EXCEPT ![c] = o]
    <3>1. ran[c] = "none" /\ ran'[c] \in {"ok", "error"}
      BY <2>1, <2>3
    <3>2. Outcome(c) = "open" /\ Outcome(c)' \in {"ok", "failed"}
      BY <3>1 DEF Outcome
    <3>3. Outcomes' = [Outcomes EXCEPT ![c] = Outcome(c)']
      BY <1>0, <2>2, <2>3 DEF Outcomes
    <3> QED BY <3>2, <3>3 DEF Outcomes
  <2>4. CASE cur[w] \notin Children
    BY <1>0, <2>2, <2>4 DEF Outcomes
  <2> QED BY <2>3, <2>4
<1>2. CASE InPhase(w) \/ Pop(w) \/ PushSibling(w)
  <2>1. UNCHANGED ran
    BY <1>0, <1>2, PhaseStep DEF Pop, PushSibling
  <2> QED BY <1>0, <2>1 DEF Outcomes, Outcome
<1> QED BY <1>1, <1>2, WorkerCases

(* The initial state maps to the promise's initial state. *)
LEMMA PromiseInit == Init => Promise!Init
BY Ids DEF Init, Promise!Init, Outcome, Verdict

(* Every step of the runtime is a step of the promise, or changes nothing of it. *)
LEMMA PromiseStep ==
  ASSUME IndInv, [Next]_vars
  PROVE  [Promise!Next]_(Promise!vars)
<1> USE DEF Outcomes
<1>1. CASE CallerStep
  <2>1. Outcomes' = Outcomes
    <3>1. UNCHANGED ran /\ Children' = Children
      BY <1>1, CallerFrame DEF Children
    <3> QED BY <3>1 DEF Outcome
  <2>2. /\ AllRanWell => \A c \in Children : Outcomes[c] = "ok"
        /\ SomeChildFailed => \E c \in Children : Outcomes[c] = "failed"
    BY DEF AllRanWell, SomeChildFailed, Outcome
  <2> QED BY <1>1, <2>1, <2>2, VerdictStep DEF Promise!Next, Promise!Complete, Promise!Fail,
      Promise!Expire, Promise!vars
<1>2. ASSUME NEW w \in Workers, WorkerStep(w)
      PROVE  [Promise!Next]_(Promise!vars)
  <2>1. Verdict' = Verdict
    BY <1>2, WorkerFrame DEF Verdict, callerVars
  <2> QED BY <1>2, <2>1, OutcomeStep DEF Promise!Next, Promise!Finish, Promise!vars
<1>3. CASE UNCHANGED vars
  BY <1>3 DEF vars, callerVars, Verdict, Outcome, Children, Promise!vars
<1> QED BY <1>1, <1>2, <1>3, NextCases

(* With any number of threads the runtime keeps the promise of ForkJoin: a child's
   execution ends once, and the caller's one verdict says what happened. *)
THEOREM BatchKeepsPromise == Spec => KeepsPromise
<1>1. IndInv /\ [Next]_vars => [Promise!Next]_(Promise!vars)
  BY PromiseStep
<1> QED BY <1>1, PromiseInit, Inductive, PTL DEF Spec, KeepsPromise, Promise!Spec

------------------------------------------------------------------------------
(* Nothing hangs: when the pool starts after fan_out, a batch in which nothing
   moves has its answer.  ProgressInv is inductive on top of IndInv. *)

(* The other threads stand still. *)
LEMMA OtherWorkers ==
  ASSUME TypeOK, NEW w \in Workers, WorkerStep(w), NEW v \in Workers, v # w
  PROVE  /\ pc'[v] = pc[v] /\ cur'[v] = cur[v] /\ sib'[v] = sib[v] /\ todo'[v] = todo[v]
BY DEF WorkerStep, Process, Complete, Pop, Load, Hydrate, MarkRunning, Checkpoint,
   MarkSucceeded, MarkFailed, RecordSuccess, ListJobs, Scan, CheckDependency, Unblock,
   PushSibling, RecordFailure, Survey, CancelSibling, Charge, Return, Goto, Visited,
   TypeOK, workerVars

(* What has been executed stays so, the continuation too. *)
LEMMA RanStays ==
  ASSUME IndInv, [Next]_vars, NEW j \in Jobs, ran[j] # "none"
  PROVE  ran'[j] # "none"
<1>1. ASSUME NEW w \in Workers, WorkerStep(w)
      PROVE  ran'[j] # "none"
  <2>1. CASE MarkSucceeded(w) \/ MarkFailed(w)
    BY <2>1, RanChange DEF IndInv
  <2>2. CASE InPhase(w) \/ Pop(w) \/ PushSibling(w)
    BY <2>2, PhaseStep DEF Pop, PushSibling, IndInv
  <2> QED BY <1>1, <2>1, <2>2, WorkerCases
<1> QED BY <1>1, NextCases, CallerFrame DEF vars

(* The caller appends to the queue at most, and a thread that is no longer in a
   phase it was in has gone idle at the end of one of five actions. *)
LEMMA CallerQueue == CallerStep => queue' = queue \/ Push
BY DEF CallerStep, FanOut, FanIn, Register, Block, SaveHandle, StartPool,
   PollFailed, Diagnose, PollCompleted, Collect, FanInRead, FanInSave, TimeOut, CancelSave

LEMMA GoesIdle ==
  ASSUME TypeOK, NEW w \in Workers, InPhase(w), pc'[w] = "idle"
  PROVE  \/ Load(w) /\ store[cur[w]].state = "failed"
         \/ pc[w] \in {"success", "scan", "failure", "cancel"}
BY DEF InPhase, Load, Hydrate, MarkRunning, Checkpoint, RecordSuccess, ListJobs, Scan,
   CheckDependency, Unblock, RecordFailure, Survey, CancelSibling, Charge, Return, Goto,
   TypeOK, workerVars

(* A job that is queued or held remains so until it has been executed, unless it is
   skipped because it was cancelled. *)
LEMMA UnderwayStep ==
  ASSUME IndInv, [Next]_vars, NEW j \in Jobs, Underway(j),
         \A w \in Workers : Holds(w, j) => pc[w] \in Running \/ ran[j] # "none"
  PROVE  Underway(j)' \/ ran'[j] # "none" \/ store[j].state = "failed"
<1>0. TypeOK
  BY DEF IndInv
<1>1. CASE \E i \in 1 .. Len(queue) : queue[i] = j
  <2>1. PICK i \in 1 .. Len(queue) : queue[i] = j
    BY <1>1
  <2>2. queue \in Seq(Jobs) /\ Len(queue) \in Nat
    BY <1>0 DEF TypeOK
  <2>3. ASSUME NEW k \in Jobs, queue' = Append(queue, k)
        PROVE  Underway(j)'
    <3>1. i \in 1 .. Len(queue') /\ queue'[i] = j
      BY <2>1, <2>2, <2>3
    <3> QED BY <3>1 DEF Underway
  <2>4. ASSUME UNCHANGED queue
        PROVE  Underway(j)'
    BY <2>1, <2>4 DEF Underway
  <2>5. CASE CallerStep
    <3>1. Push => next \in Jobs /\ queue' = Append(queue, next)
      BY Ids DEF Push, IndInv, EnqueueInv
    <3> QED BY <2>3, <2>4, <2>5, <3>1, CallerQueue
  <2>6. ASSUME NEW w \in Workers, WorkerStep(w)
        PROVE  Underway(j)'
    <3>1. CASE InPhase(w) \/ MarkSucceeded(w) \/ MarkFailed(w)
      BY <1>0, <2>4, <3>1, PhaseStep DEF MarkSucceeded, MarkFailed
    <3>2. CASE PushSibling(w)
      BY <1>0, <2>3, <3>2 DEF PushSibling, TypeOK
    <3>3. CASE Pop(w)
      <4>1. /\ queue' = Tail(queue) /\ cur'[w] = Head(queue) /\ pc'[w] = "load"
            /\ queue # <<>>
        BY <1>0, <3>3 DEF Pop, Goto, TypeOK
      <4>2. CASE i = 1
        <5>1. cur'[w] = j /\ pc'[w] # "idle"
          BY <2>1, <4>1, <4>2
        <5> QED BY <5>1 DEF Underway, Holds
      <4>3. CASE i # 1
        <5>1. i - 1 \in 1 .. Len(queue') /\ queue'[i - 1] = j
          BY <2>1, <2>2, <4>1, <4>3
        <5> QED BY <5>1 DEF Underway
      <4> QED BY <4>2, <4>3
    <3> QED BY <2>6, <3>1, <3>2, <3>3, WorkerCases
  <2> QED BY <2>4, <2>5, <2>6, NextCases DEF vars
<1>2. ASSUME NEW v \in Workers, Holds(v, j)
      PROVE  Underway(j)' \/ ran'[j] # "none" \/ store[j].state = "failed"
  <2>1. ASSUME pc'[v] # "idle", cur'[v] = j
        PROVE  Underway(j)'
    BY <2>1 DEF Underway, Holds
  <2>2. CASE CallerStep \/ UNCHANGED vars
    BY <1>2, <2>1, <2>2, CallerFrame DEF Holds, vars, workerVars
  <2>3. ASSUME NEW w \in Workers, WorkerStep(w), w # v
        PROVE  Underway(j)'
    BY <1>0, <1>2, <2>1, <2>3, OtherWorkers DEF Holds
  <2>4. CASE WorkerStep(v)
    <3>1. CASE InPhase(v)
      <4>1. cur'[v] = j
        BY <1>0, <1>2, <3>1, PhaseStep DEF Holds
      <4>2. CASE pc'[v] = "idle"
        <5>1. store[j].state = "failed" \/ pc[v] \notin Running
          BY <1>0, <1>2, <3>1, <4>2, GoesIdle DEF Holds, Running
        <5> QED BY <1>2, <5>1, RanStays
      <4> QED BY <2>1, <4>1, <4>2
    <3>2. CASE Pop(v)
      BY <1>2, <3>2 DEF Pop, Holds
    <3>3. CASE MarkSucceeded(v) \/ MarkFailed(v)
      BY <1>2, <3>3, RanChange DEF Holds, IndInv
    <3>4. CASE PushSibling(v)
      BY <1>0, <1>2, <2>1, <3>4 DEF PushSibling, Holds, Goto, TypeOK
    <3> QED BY <2>4, <3>1, <3>2, <3>3, <3>4, WorkerCases
  <2> QED BY <2>2, <2>3, <2>4, NextCases
<1> QED BY <1>1, <1>2 DEF Underway

(* A job that is in the store is never taken out of it. *)
LEMMA StaysRegistered ==
  ASSUME TypeOK, EnqueueInv, [Next]_vars, NEW j \in Jobs, store[j].state # "absent"
  PROVE  store'[j].state # "absent"
<1>1. ASSUME NEW k \in Jobs, NEW s \in JobStates \ {"absent"}, NEW r \in Results, Save(k, s, r)
      PROVE  store'[j].state # "absent"
  <2>1. store'[k] = [state |-> s, result |-> r]
        /\ \A i \in Jobs : i # k => store'[i] = store[i]
    BY <1>1, SaveEffect
  <2>2. store'[k].state = s /\ s # "absent"
    BY <2>1
  <2> QED BY <2>1, <2>2
<1>2. CASE UNCHANGED store
  BY <1>2
<1>3. CASE Register \/ Block
  BY <1>1, <1>3 DEF Register, Block, EnqueueInv, JobStates, Results
<1>4. CASE CallerStep /\ ~(Register \/ Block)
  BY <1>2, <1>4 DEF CallerStep, FanOut, FanIn, Push, SaveHandle, StartPool, PollFailed,
     Diagnose, PollCompleted, Collect, FanInRead, FanInSave, TimeOut, CancelSave
<1>5. ASSUME NEW w \in Workers, WorkerStep(w)
      PROVE  store'[j].state # "absent"
  <2>0. cur[w] \in Jobs /\ sib[w] \in Jobs
    BY DEF TypeOK
  <2>1. CASE Hydrate(w) \/ MarkRunning(w) \/ Checkpoint(w)
    BY <1>1, <2>0, <2>1 DEF Hydrate, MarkRunning, Checkpoint, JobStates, Results
  <2>2. CASE MarkSucceeded(w) \/ MarkFailed(w)
    BY <1>1, <2>0, <2>2 DEF MarkSucceeded, MarkFailed, JobStates, Results
  <2>3. CASE Unblock(w) \/ CancelSibling(w)
    BY <1>1, <2>0, <2>3 DEF Unblock, CancelSibling, JobStates, Results
  <2>4. CASE \/ Pop(w) \/ Load(w) \/ RecordSuccess(w) \/ ListJobs(w) \/ Scan(w)
             \/ CheckDependency(w) \/ PushSibling(w) \/ RecordFailure(w) \/ Survey(w)
             \/ Charge(w) \/ Return(w)
    BY <1>2, <2>4 DEF Pop, Load, RecordSuccess, ListJobs, Scan, CheckDependency, PushSibling,
       RecordFailure, Survey, Charge, Return
  <2> QED BY <1>5, <2>1, <2>2, <2>3, <2>4 DEF WorkerStep, Process, Complete
<1> QED BY <1>2, <1>3, <1>4, <1>5, NextCases DEF vars

(* Nobody works on the batch until it is registered, and the handle stays saved. *)
LEMMA LateStep ==
  ASSUME IndInv, LateInv, [Next]_vars
  PROVE  LateInv'
<1> USE DEF LateInv
<1>0. /\ TypeOK /\ EnqueueInv /\ SettleInv /\ next \in Nat
      /\ \A j \in Jobs : j \in Nat
      /\ \A j \in Jobs : store[j].state # "absent" => store'[j].state # "absent"
      /\ opc \notin Fanning => HandleStored
      /\ opc \in {"block", "push"} => next \in Jobs
  BY StaysRegistered, Ids DEF IndInv, TypeOK, SettleInv, EnqueueInv, Fanning
<1>1. CASE Register
  <2>1. /\ opc = "register" /\ opc' \in {"block", "push"} /\ UNCHANGED <<poolUp, next, handle, pc>>
        /\ store'[next] = [state |-> "pending", result |-> "none"]
    BY <1>0, <1>1, SaveEffect DEF Register, EnqueueInv, workerVars
  <2> QED BY <1>0, <2>1 DEF HandleStored, Fanning, Jobs
<1>2. CASE Block \/ Push
  <2>1. /\ opc \in {"block", "push"} /\ next' = next + 1 /\ UNCHANGED <<poolUp, handle, pc>>
        /\ opc' = IF next < N THEN "register"
                  ELSE IF next = N THEN "handle"
                  ELSE IF caller = "decompose" THEN "pool" ELSE "poll"
        /\ next \in Jobs
    BY <1>0, <1>2 DEF Block, Push, Enqueued, workerVars, EnqueueInv
  <2>2. opc' \notin Fanning \/ opc' = "pool" => next' = N + 2
    BY <1>0, <2>1, Ids DEF Fanning, Jobs
  <2>3. HandleStored' => handle'.saved
    <3>1. HandleStored' => next > N
      BY <1>0, <2>1, Ids DEF HandleStored
    <3> QED BY <2>1, <3>1 DEF HandleStored
  <2>4. ASSUME NEW j \in Jobs, j < next'
        PROVE  store'[j].state # "absent"
    <3>1. j \in Nat /\ (j < next \/ j = next)
      BY <1>0, <2>1, <2>4
    <3>2. store[j].state # "absent"
      BY <2>1, <3>1
    <3> QED BY <1>0, <3>2
  <2>5. opc' \notin {"block", "push", "cancel", "fan_in_save"} /\ ~poolUp'
    BY <2>1 DEF Fanning
  <2> QED BY <2>1, <2>2, <2>3, <2>4, <2>5 DEF Jobs
<1>3. CASE SaveHandle
  <2>1. /\ handle'.saved /\ opc = "handle" /\ opc' = "register" /\ UNCHANGED <<poolUp, next, store, pc>>
    BY <1>3 DEF SaveHandle, NewHandle, workerVars
  <2> QED BY <1>0, <2>1 DEF Fanning, Jobs
<1>4. CASE StartPool
  <2>1. opc = "pool" /\ opc' = "poll" /\ UNCHANGED <<next, store, handle>>
    BY <1>4 DEF StartPool
  <2> QED BY <1>0, <1>4, <2>1 DEF StartPool, Fanning, Jobs, HandleStored
<1>5. CASE FanIn \/ TimeOut \/ CancelSave
  <2>1. /\ opc \notin Fanning /\ opc' \notin Fanning /\ UNCHANGED <<poolUp, next, store, pc>>
    BY <1>5 DEF FanIn, PollFailed, Diagnose, PollCompleted, Collect, FanInRead, FanInSave,
       TimeOut, CancelSave, workerVars, Fanning
  <2>2. handle.saved
    BY <1>0, <2>1
  <2>3. handle'.saved
    BY <1>0, <1>5, <2>2 DEF FanIn, PollFailed, Diagnose, PollCompleted, Collect, FanInRead,
       FanInSave, TimeOut, CancelSave, TypeOK, Handle
  <2>4. opc' \in {"cancel", "fan_in_save"} => copy'.saved
    BY <1>5, <2>2 DEF FanIn, PollFailed, Diagnose, PollCompleted, Collect, FanInRead,
       FanInSave, TimeOut, CancelSave
  <2> QED BY <1>0, <2>1, <2>3, <2>4 DEF Fanning, Jobs
<1>6. ASSUME NEW w \in Workers, WorkerStep(w)
      PROVE  LateInv'
  <2>1. UNCHANGED callerVars
    BY <1>6, WorkerFrame
  <2>2. handle'.saved = handle.saved
    <3>1. handle.completed \subseteq Children /\ handle.failed \subseteq Children
      BY <1>0 DEF TypeOK, Handle
    <3>2. ASSUME NEW c \in Children, Mark(handle.completed \cup {c}, handle.failed)
                                     \/ Mark(handle.completed, handle.failed \cup {c})
          PROVE  handle'.saved = handle.saved
      BY <1>0, <3>1, <3>2, MarkEffect
    <3> QED BY <1>6, <3>2, WorkerHandle DEF IndInv
  <2>3. pc[w] # "idle" \/ poolUp
    BY <1>6 DEF WorkerStep, Process, Complete, Pop, Load, Hydrate, MarkRunning, Checkpoint,
       MarkSucceeded, MarkFailed, RecordSuccess, ListJobs, Scan, CheckDependency, Unblock,
       PushSibling, RecordFailure, Survey, CancelSibling, Charge, Return
  <2>4. \A v \in Workers : pc'[v] # "idle" => poolUp'
    BY <1>0, <1>6, <2>1, <2>3, OtherWorkers DEF callerVars
  <2> QED BY <1>0, <2>1, <2>2, <2>4 DEF callerVars, HandleStored, Jobs
<1>7. CASE UNCHANGED vars
  BY <1>7 DEF vars, callerVars, workerVars, HandleStored, Jobs
<1> QED BY <1>1, <1>2, <1>3, <1>4, <1>5, <1>6, <1>7, NextCases DEF CallerStep, FanOut

(* Whoever works on the batch works on a whole one: all jobs registered, handle saved. *)
LEMMA WholeBatch ==
  ASSUME IndInv, LateInv, NEW w \in Workers, pc[w] # "idle"
  PROVE  /\ opc \notin Fanning /\ next = N + 2 /\ handle.saved
         /\ \A j \in Jobs : j < next /\ store[j].state # "absent"
<1>1. opc \notin Fanning /\ next = N + 2
  BY DEF LateInv
<1>2. HandleStored
  BY <1>1 DEF IndInv, SettleInv, Fanning
<1> QED BY <1>1, <1>2, Ids DEF LateInv

(* A caller that has its answer never waits for it again. *)
LEMMA UndecidedBefore ==
  ASSUME IndInv, [Next]_vars, Undecided'
  PROVE  Undecided
<1>1. CASE CallerStep
  BY <1>1 DEF CallerStep, FanOut, FanIn, Register, Block, Push, SaveHandle, StartPool,
     PollFailed, Diagnose, PollCompleted, Collect, FanInRead, FanInSave, TimeOut, CancelSave,
     Undecided, Fanning
<1>2. CASE UNCHANGED callerVars
  BY <1>2 DEF callerVars, Undecided, Fanning
<1> QED BY <1>1, <1>2, NextCases, WorkerFrame DEF vars

(* Which steps change a job's record, and to what. *)
LEMMA StoreChange ==
  ASSUME TypeOK, EnqueueInv, [Next]_vars, NEW j \in Jobs, store'[j] # store[j]
  PROVE  \/ j = next /\ Register /\ store'[j].state = "pending"
         \/ j = next /\ Block /\ store'[j].state = "blocked"
         \/ \E w \in Workers :
              \/ cur[w] = j /\ Hydrate(w) /\ store'[j].state = "pending"
              \/ cur[w] = j /\ (MarkRunning(w) \/ Checkpoint(w)) /\ store'[j].state = "running"
              \/ cur[w] = j /\ MarkSucceeded(w) /\ store'[j].state = "succeeded"
              \/ cur[w] = j /\ MarkFailed(w) /\ store'[j].state = "failed"
              \/ sib[w] = j /\ Unblock(w) /\ store'[j].state = "pending"
              \/ sib[w] = j /\ CancelSibling(w) /\ store'[j].state = "failed"
<1>1. ASSUME NEW k \in Jobs, NEW s, NEW r, Save(k, s, r)
      PROVE  j = k /\ store'[j].state = s
  <2>1. store'[k] = [state |-> s, result |-> r]
        /\ \A i \in Jobs : i # k => store'[i] = store[i]
    BY <1>1, SaveEffect
  <2> QED BY <2>1
<1>2. CASE CallerStep
  <2>1. CASE Register \/ Block
    BY <1>1, <2>1 DEF Register, Block, EnqueueInv
  <2>2. CASE ~(Register \/ Block)
    BY <1>2, <2>2 DEF CallerStep, FanOut, FanIn, Push, SaveHandle, StartPool, PollFailed,
       Diagnose, PollCompleted, Collect, FanInRead, FanInSave, TimeOut, CancelSave
  <2> QED BY <2>1, <2>2
<1>3. ASSUME NEW w \in Workers, WorkerStep(w)
      PROVE  \/ cur[w] = j /\ Hydrate(w) /\ store'[j].state = "pending"
             \/ cur[w] = j /\ (MarkRunning(w) \/ Checkpoint(w)) /\ store'[j].state = "running"
             \/ cur[w] = j /\ MarkSucceeded(w) /\ store'[j].state = "succeeded"
             \/ cur[w] = j /\ MarkFailed(w) /\ store'[j].state = "failed"
             \/ sib[w] = j /\ Unblock(w) /\ store'[j].state = "pending"
             \/ sib[w] = j /\ CancelSibling(w) /\ store'[j].state = "failed"
  <2>0. cur[w] \in Jobs /\ sib[w] \in Jobs
    BY DEF TypeOK
  <2>1. CASE Hydrate(w) \/ MarkRunning(w) \/ Checkpoint(w)
    BY <1>1, <2>0, <2>1 DEF Hydrate, MarkRunning, Checkpoint
  <2>2. CASE MarkSucceeded(w) \/ MarkFailed(w)
    BY <1>1, <2>0, <2>2 DEF MarkSucceeded, MarkFailed
  <2>3. CASE Unblock(w) \/ CancelSibling(w)
    BY <1>1, <2>0, <2>3 DEF Unblock, CancelSibling
  <2>4. CASE \/ Pop(w) \/ Load(w) \/ RecordSuccess(w) \/ ListJobs(w) \/ Scan(w)
             \/ CheckDependency(w) \/ PushSibling(w) \/ RecordFailure(w) \/ Survey(w)
             \/ Charge(w) \/ Return(w)
    BY <2>4 DEF Pop, Load, RecordSuccess, ListJobs, Scan, CheckDependency, PushSibling,
       RecordFailure, Survey, Charge, Return
  <2> QED BY <1>3, <2>1, <2>2, <2>3, <2>4 DEF WorkerStep, Process, Complete
<1>4. CASE \E w \in Workers : WorkerStep(w)
  BY <1>3, <1>4
<1> QED BY <1>2, <1>4, NextCases DEF vars

(* A child that was charged to the handle, or is about to be, stays so. *)
LEMMA BlameStays ==
  ASSUME IndInv, [Next]_vars, Undecided, NEW c \in Children, c \in handle.failed \/ Charging(c)
  PROVE  c \in handle'.failed \/ Charging(c)'
<1>0. TypeOK /\ handle.completed \subseteq Children /\ handle.failed \subseteq Children
  BY DEF IndInv, TypeOK, Handle
<1>1. CASE c \in handle.failed
  BY <1>1, SettlingStep DEF Undecided, Fanning
<1>2. ASSUME NEW v \in Workers, pc[v] = "charge", sib[v] = c
      PROVE  c \in handle'.failed \/ Charging(c)'
  <2>1. CASE UNCHANGED <<pc, sib>>
    BY <1>2, <2>1 DEF Charging
  <2>2. ASSUME NEW w \in Workers, WorkerStep(w), w # v
        PROVE  Charging(c)'
    <3>1. pc'[v] = "charge" /\ sib'[v] = c
      BY <1>0, <1>2, <2>2, OtherWorkers
    <3> QED BY <3>1 DEF Charging
  <2>3. CASE WorkerStep(v)
    <3>1. Charge(v)
      BY <1>2, <2>3 DEF WorkerStep, Process, Complete, Pop, Load, Hydrate, MarkRunning,
         Checkpoint, MarkSucceeded, MarkFailed, RecordSuccess, ListJobs, Scan,
         CheckDependency, Unblock, PushSibling, RecordFailure, Survey, CancelSibling, Return
    <3>2. Mark(handle.completed, handle.failed \cup {c})
      BY <1>2, <3>1 DEF Charge, RecordFailed
    <3> QED BY <1>0, <3>2, MarkEffect
  <2> QED BY <2>1, <2>2, <2>3, NextCases, CallerFrame DEF vars, workerVars
<1> QED BY <1>1, <1>2 DEF Charging

(* A child that has not run stays under way, unless it is skipped after its
   cancellation. *)
LEMMA ChildUnderway ==
  ASSUME IndInv, CancelledInv, [Next]_vars, NEW c \in Children, Underway(c), ran'[c] = "none"
  PROVE  Underway(c)' \/ (SomeChildFailed /\ (Undecided => c \in handle.failed \/ Charging(c)))
<1>1. ran[c] = "none"
  BY RanStays, Ids
<1>2. \A w \in Workers : Holds(w, c) => pc[w] \in Running \/ ran[c] # "none"
  <2>1. \A w \in Workers : pc[w] \in WorkerPCs
    BY DEF IndInv, TypeOK
  <2> QED BY <2>1 DEF IndInv, PlaceInv, WorkerPlace, Holds, WorkerPCs
<1>3. Underway(c)' \/ store[c].state = "failed"
  BY <1>2, UnderwayStep, Ids
<1> QED BY <1>1, <1>3 DEF CancelledInv

(* What has run is on the handle, or its worker is about to record it; a handle that
   accounts for every child has settled. *)
LEMMA ReportStep ==
  ASSUME IndInv, LateInv, ReportInv, [Next]_vars
  PROVE  ReportInv'
<1>0. /\ TypeOK /\ handle.completed \subseteq Children /\ handle.failed \subseteq Children
      /\ Children' = Children /\ \A c \in Children : c \in Jobs
  BY Ids DEF IndInv, TypeOK, Handle, Children
<1> SUFFICES ASSUME Undecided'
             PROVE  /\ \A c \in Children :
                         /\ ran'[c] = "ok" =>
                              \/ c \in handle'.completed
                              \/ \E w \in Workers : cur'[w] = c /\ pc'[w] = "success"
                         /\ ran'[c] = "error" =>
                              \/ c \in handle'.failed
                              \/ \E w \in Workers : cur'[w] = c /\ pc'[w] = "failure"
                    /\ IsReady(handle'.completed, handle'.failed) => handle'.state # "waiting"
  BY <1>0 DEF ReportInv, IsReady
<1>1. Undecided /\ opc \notin {"cancel", "timed_out"}
  BY UndecidedBefore DEF Undecided, Fanning
<1>2. handle.completed \subseteq handle'.completed /\ handle.failed \subseteq handle'.failed
  BY <1>1, SettlingStep
<1>3. CASE CallerStep \/ UNCHANGED vars
  <2>1. UNCHANGED <<pc, cur, ran>>
    BY <1>3, CallerFrame DEF vars, workerVars
  <2>2. CASE UNCHANGED handle
    BY <1>1, <2>1, <2>2 DEF ReportInv
  <2>3. CASE SaveHandle
    <3>1. handle'.completed = {} /\ handle'.failed = {}
      BY <2>3 DEF SaveHandle, NewHandle
    <3>2. ~IsReady({}, {})
      <4>1. IsReady({}, {}) => {} = Children
        BY Counting
      <4>2. 1 \in Children
        BY Ids DEF Children
      <4> QED BY <4>1, <4>2
    <3> QED BY <1>1, <1>2, <2>1, <3>1, <3>2 DEF ReportInv
  <2>4. UNCHANGED handle \/ SaveHandle
    BY <1>1, <1>3 DEF CallerStep, FanOut, FanIn, Register, Block, Push, StartPool, Enqueued,
       PollFailed, Diagnose, PollCompleted, Collect, FanInRead, FanInSave, TimeOut,
       CancelSave, vars, Undecided, Fanning
  <2> QED BY <2>2, <2>3, <2>4
<1>4. ASSUME NEW w \in Workers, WorkerStep(w)
      PROVE  /\ \A c \in Children :
                  /\ ran'[c] = "ok" =>
                       \/ c \in handle'.completed
                       \/ \E v \in Workers : cur'[v] = c /\ pc'[v] = "success"
                  /\ ran'[c] = "error" =>
                       \/ c \in handle'.failed
                       \/ \E v \in Workers : cur'[v] = c /\ pc'[v] = "failure"
             /\ IsReady(handle'.completed, handle'.failed) => handle'.state # "waiting"
  <2>1. IsReady(handle'.completed, handle'.failed) => handle'.state # "waiting"
    <3>1. ASSUME NEW c \in Children,
                 Mark(handle.completed \cup {c}, handle.failed)
                   \/ Mark(handle.completed, handle.failed \cup {c})
          PROVE  IsReady(handle'.completed, handle'.failed) => handle'.state # "waiting"
      BY <1>0, <3>1, MarkEffect
    <3> QED BY <1>1, <1>4, <3>1, WorkerHandle DEF IndInv, ReportInv
  (* The worker that has just recorded its own child. *)
  <2>2. ASSUME NEW c \in Children, cur[w] = c, pc[w] = "success"
        PROVE  c \in handle'.completed
    <3>1. RecordSuccess(w) /\ handle.saved
      BY <1>4, <2>2, WholeBatch DEF WorkerStep, Process, Complete, Pop, Load, Hydrate,
         MarkRunning, Checkpoint, MarkSucceeded, MarkFailed, ListJobs, Scan,
         CheckDependency, Unblock, PushSibling, RecordFailure, Survey, CancelSibling,
         Charge, Return
    <3>2. Mark(handle.completed \cup {c}, handle.failed)
      BY <2>2, <3>1 DEF RecordSuccess, RecordCompleted
    <3> QED BY <1>0, <3>2, MarkEffect
  <2>3. ASSUME NEW c \in Children, cur[w] = c, pc[w] = "failure"
        PROVE  c \in handle'.failed
    <3>1. RecordFailure(w) /\ handle.saved
      BY <1>4, <2>3, WholeBatch DEF WorkerStep, Process, Complete, Pop, Load, Hydrate,
         MarkRunning, Checkpoint, MarkSucceeded, MarkFailed, RecordSuccess, ListJobs, Scan,
         CheckDependency, Unblock, PushSibling, Survey, CancelSibling, Charge, Return
    <3>2. Mark(handle.completed, handle.failed \cup {c})
      BY <2>3, <3>1 DEF RecordFailure, RecordFailed
    <3> QED BY <1>0, <3>2, MarkEffect
  (* A verdict that is new is the worker's own. *)
  <2>4. ASSUME NEW c \in Children, ran'[c] # ran[c]
        PROVE  /\ cur'[w] = c
               /\ ran'[c] = "ok" => pc'[w] = "success"
               /\ ran'[c] = "error" => pc'[w] = "failure"
    <3>1. MarkSucceeded(w) \/ MarkFailed(w)
      BY <1>0, <1>4, <2>4, WorkerCases, PhaseStep DEF Pop, PushSibling
    <3>2. /\ cur[w] = c /\ UNCHANGED cur
          /\ MarkSucceeded(w) => ran'[c] = "ok" /\ pc'[w] = "success"
          /\ MarkFailed(w) => ran'[c] = "error" /\ pc'[w] = "failure"
      BY <1>0, <2>4, <3>1, RanChange DEF IndInv, MarkSucceeded, MarkFailed, Goto, TypeOK
    <3> QED BY <3>1, <3>2
  <2>5. \A v \in Workers \ {w} : cur'[v] = cur[v] /\ pc'[v] = pc[v]
    BY <1>0, <1>4, OtherWorkers
  <2>6. ASSUME NEW c \in Children
        PROVE  /\ ran'[c] = "ok" =>
                    \/ c \in handle'.completed
                    \/ \E v \in Workers : cur'[v] = c /\ pc'[v] = "success"
               /\ ran'[c] = "error" =>
                    \/ c \in handle'.failed
                    \/ \E v \in Workers : cur'[v] = c /\ pc'[v] = "failure"
    <3>1. CASE ran'[c] # ran[c]
      BY <2>4, <3>1
    <3>2. CASE ran'[c] = ran[c]
      <4>1. ASSUME ran[c] = "ok"
            PROVE  \/ c \in handle'.completed
                   \/ \E v \in Workers : cur'[v] = c /\ pc'[v] = "success"
        <5>1. CASE c \in handle.completed
          BY <1>2, <5>1
        <5>2. ASSUME NEW v \in Workers, cur[v] = c, pc[v] = "success"
              PROVE  \/ c \in handle'.completed
                     \/ cur'[v] = c /\ pc'[v] = "success"
          BY <2>2, <2>5, <5>2
        <5> QED BY <1>1, <4>1, <5>1, <5>2 DEF ReportInv
      <4>2. ASSUME ran[c] = "error"
            PROVE  \/ c \in handle'.failed
                   \/ \E v \in Workers : cur'[v] = c /\ pc'[v] = "failure"
        <5>1. CASE c \in handle.failed
          BY <1>2, <5>1
        <5>2. ASSUME NEW v \in Workers, cur[v] = c, pc[v] = "failure"
              PROVE  \/ c \in handle'.failed
                     \/ cur'[v] = c /\ pc'[v] = "failure"
          BY <2>3, <2>5, <5>2
        <5> QED BY <1>1, <4>2, <5>1, <5>2 DEF ReportInv
      <4> QED BY <3>2, <4>1, <4>2
    <3> QED BY <3>1, <3>2
  <2> QED BY <2>1, <2>6
<1> QED BY <1>3, <1>4, NextCases

(* A child that is cancelled is charged for it, and one that runs is held. *)
LEMMA CancelledStep ==
  ASSUME IndInv, LateInv, CancelledInv, [Next]_vars
  PROVE  CancelledInv'
<1>0. /\ TypeOK /\ EnqueueInv /\ Children' = Children /\ \A c \in Children : c \in Jobs
      /\ SomeChildFailed => SomeChildFailed'
  BY Ids, VerdictsStable DEF IndInv, Children
<1> SUFFICES ASSUME NEW c \in Children, ran'[c] = "none"
             PROVE  /\ store'[c].state = "failed" =>
                         /\ SomeChildFailed'
                         /\ Undecided' => c \in handle'.failed \/ Charging(c)'
                    /\ store'[c].state = "running" => Underway(c)'
  BY <1>0 DEF CancelledInv
<1>1. ran[c] = "none"
  BY <1>0, RanStays
<1>2. SomeChildFailed /\ (Undecided => c \in handle.failed \/ Charging(c)) =>
        SomeChildFailed' /\ (Undecided' => c \in handle'.failed \/ Charging(c)')
  BY <1>0, BlameStays, UndecidedBefore
<1>3. CASE store'[c] = store[c]
  <2>1. CASE store[c].state = "failed"
    BY <1>1, <1>2, <1>3, <2>1 DEF CancelledInv
  <2>2. CASE store[c].state = "running"
    <3>1. Underway(c) /\ store[c].state # "failed"
      BY <1>1, <2>2 DEF CancelledInv
    <3>2. \A w \in Workers : Holds(w, c) => pc[w] \in Running \/ ran[c] # "none"
      BY <1>0 DEF IndInv, PlaceInv, WorkerPlace, Holds, TypeOK, WorkerPCs
    <3>3. Underway(c)'
      BY <1>0, <3>1, <3>2, UnderwayStep
    <3> QED BY <1>3, <2>2, <3>3
  <2> QED BY <1>3, <2>1, <2>2
<1>4. CASE store'[c] # store[c]
  <2>1. CASE store'[c].state \notin {"failed", "running"}
    BY <2>1
  <2>2. ASSUME NEW w \in Workers, cur[w] = c, MarkRunning(w) \/ Checkpoint(w)
        PROVE  Underway(c)'
    <3>1. cur'[w] = c /\ pc'[w] # "idle"
      BY <1>0, <2>2 DEF MarkRunning, Checkpoint, Goto, TypeOK, workerVars
    <3> QED BY <3>1 DEF Underway, Holds
  <2>3. ASSUME NEW w \in Workers, cur[w] = c, MarkFailed(w)
        PROVE  FALSE
    BY <1>0, <2>3, RanChange DEF IndInv
  <2>4. ASSUME NEW w \in Workers, sib[w] = c, CancelSibling(w)
        PROVE  SomeChildFailed' /\ Charging(c)'
    <3>1. SomeChildFailed /\ pc'[w] = "charge" /\ sib'[w] = c
      BY <1>0, <2>4 DEF CancelSibling, Goto, TypeOK, IndInv, StoreInv, CancelInv
    <3> QED BY <1>0, <3>1 DEF Charging
  <2> QED BY <1>0, <1>4, <2>1, <2>2, <2>3, <2>4, StoreChange
<1> QED BY <1>3, <1>4

(* Whoever reports a failure comes to every child that has not run, and leaves it
   cancelled, or under way. *)
LEMMA HuntStep ==
  ASSUME IndInv, LateInv, CancelledInv, HuntInv, [Next]_vars
  PROVE  HuntInv'
<1>0. /\ TypeOK /\ Children' = Children /\ \A c \in Children : c \in Jobs
  BY Ids DEF IndInv, Children
<1> SUFFICES ASSUME Undecided', SomeChildFailed', NEW c \in Children, ran'[c] = "none"
             PROVE  c \in handle'.failed \/ Charging(c)' \/ Underway(c)' \/ Hunted(c)'
  BY <1>0 DEF HuntInv
<1>1. Undecided /\ ran[c] = "none"
  BY <1>0, RanStays, UndecidedBefore
<1>2. ASSUME Underway(c) \/ c \in handle.failed \/ Charging(c)
      PROVE  c \in handle'.failed \/ Charging(c)' \/ Underway(c)'
  BY <1>1, <1>2, ChildUnderway, BlameStays
<1>3. CASE ~SomeChildFailed
  <2>1. UNCHANGED ran => UNCHANGED SomeChildFailed
    BY DEF SomeChildFailed, Children
  <2>2. PICK w \in Workers : MarkSucceeded(w) \/ MarkFailed(w)
    BY <1>0, <1>3, <2>1, NextCases, CallerFrame, WorkerCases, PhaseStep
       DEF Pop, PushSibling, vars
  <2>3. CASE MarkSucceeded(w)
    <3>1. \A d \in Children : ran'[d] = "error" => ran[d] = "error"
      BY <1>0, <2>3, RanChange DEF IndInv
    <3> QED BY <1>0, <1>3, <3>1 DEF SomeChildFailed
  <2>4. CASE MarkFailed(w)
    <3>1. pc'[w] = "failure"
      BY <1>0, <2>4 DEF MarkFailed, Goto, TypeOK
    <3> QED BY <3>1 DEF Hunted
  <2> QED BY <2>2, <2>3, <2>4
<1>4. ASSUME NEW v \in Workers,
             pc[v] = "failure" \/ (pc[v] \in {"cancel", "doom", "charge"} /\ c \in todo[v])
      PROVE  c \in handle'.failed \/ Charging(c)' \/ Underway(c)' \/ Hunted(c)'
  <2>1. ASSUME \/ pc'[v] = "failure"
               \/ pc'[v] \in {"cancel", "doom", "charge"} /\ c \in todo'[v]
        PROVE  Hunted(c)'
    BY <2>1 DEF Hunted
  <2>2. CASE CallerStep \/ UNCHANGED vars
    <3>1. UNCHANGED <<pc, todo>>
      BY <2>2, CallerFrame DEF vars, workerVars
    <3> QED BY <1>4, <2>1, <3>1
  <2>3. ASSUME NEW w \in Workers, WorkerStep(w), w # v
        PROVE  Hunted(c)'
    BY <1>0, <1>4, <2>1, <2>3, OtherWorkers
  <2>4. ASSUME WorkerStep(v)
        PROVE  c \in handle'.failed \/ Charging(c)' \/ Underway(c)' \/ Hunted(c)'
    <3>0. RecordFailure(v) \/ Survey(v) \/ CancelSibling(v) \/ Charge(v) \/ Return(v)
      BY <1>4, <2>4 DEF WorkerStep, Process, Complete, Pop, Load, Hydrate, MarkRunning,
         Checkpoint, MarkSucceeded, MarkFailed, RecordSuccess, ListJobs, Scan,
         CheckDependency, Unblock, PushSibling
    <3>1. CASE RecordFailure(v)
      <4>1. pc[v] = "failure" /\ handle.saved
        BY <3>1, WholeBatch DEF RecordFailure
      <4>2. cur[v] # c
        BY <1>1, <4>1 DEF IndInv, PlaceInv, WorkerPlace, Cancelling
      <4>3. pc'[v] = "cancel" /\ todo'[v] = Children \ {cur[v]}
        BY <1>0, <3>1, <4>1 DEF RecordFailure, Goto, TypeOK
      <4> QED BY <2>1, <4>2, <4>3
    <3>2. CASE Survey(v)
      <4>1. PICK j \in todo[v] :
              \/ store[j].state \in {"blocked", "pending"} /\ Goto(v, "doom") /\ UNCHANGED todo
              \/ store[j].state \notin {"blocked", "pending"} /\ Visited(v, j) /\ UNCHANGED pc
        BY <3>2 DEF Survey
      <4>2. pc[v] = "cancel" /\ c \in todo[v]
        BY <1>4, <3>2 DEF Survey
      <4>3. CASE store[j].state \in {"blocked", "pending"} /\ Goto(v, "doom") /\ UNCHANGED todo
        <5>1. pc'[v] = "doom" /\ todo'[v] = todo[v]
          BY <1>0, <4>3 DEF Goto, TypeOK
        <5> QED BY <2>1, <4>2, <5>1
      <4>4. CASE store[j].state \notin {"blocked", "pending"} /\ Visited(v, j) /\ UNCHANGED pc
        <5>1. CASE j # c
          <6>1. pc'[v] = "cancel" /\ c \in todo'[v]
            BY <1>0, <4>2, <4>4, <5>1 DEF Visited, TypeOK
          <6> QED BY <2>1, <6>1
        <5>2. CASE j = c
          <6>1. store[c].state \in JobStates /\ store[c].state # "absent"
            BY <1>0, <4>2, WholeBatch DEF TypeOK, Record
          <6>2. store[c].state # "succeeded"
            BY <1>1 DEF IndInv, StoreInv, FinishedInv
          <6>3. store[c].state \in {"running", "failed"}
            BY <4>4, <5>2, <6>1, <6>2 DEF JobStates
          <6>4. Underway(c) \/ c \in handle.failed \/ Charging(c)
            BY <1>1, <6>3 DEF CancelledInv
          <6> QED BY <1>2, <6>4
        <5> QED BY <5>1, <5>2
      <4> QED BY <4>1, <4>3, <4>4
    <3>3. CASE CancelSibling(v)
      <4>1. pc'[v] = "charge" /\ todo'[v] = todo[v] /\ pc[v] = "doom"
        BY <1>0, <3>3 DEF CancelSibling, Goto, TypeOK
      <4> QED BY <1>4, <2>1, <4>1
    <3>4. CASE Charge(v)
      <4>1. pc'[v] = "cancel" /\ todo'[v] = todo[v] \ {sib[v]} /\ pc[v] = "charge"
        BY <1>0, <3>4 DEF Charge, Goto, Visited, TypeOK
      <4>2. CASE sib[v] = c
        <5>1. Charging(c)
          BY <4>1, <4>2 DEF Charging
        <5> QED BY <1>2, <5>1
      <4>3. CASE sib[v] # c
        BY <1>4, <2>1, <4>1, <4>3
      <4> QED BY <4>2, <4>3
    <3>5. CASE Return(v)
      BY <1>4, <3>5 DEF Return
    <3> QED BY <3>0, <3>1, <3>2, <3>3, <3>4, <3>5
  <2> QED BY <2>2, <2>3, <2>4, NextCases
<1>5. CASE SomeChildFailed
  BY <1>1, <1>2, <1>4, <1>5 DEF HuntInv, Hunted
<1> QED BY <1>3, <1>5

(* A child that depends on nothing was pushed when it was registered. *)
LEMMA PushedStep ==
  ASSUME IndInv, LateInv, CancelledInv, PushedInv, [Next]_vars
  PROVE  PushedInv'
<1>0. /\ TypeOK /\ EnqueueInv /\ Children' = Children /\ \A c \in Children : c \in Jobs
      /\ next \in Nat /\ \A c \in Children : c \in Nat
      /\ SomeChildFailed => SomeChildFailed'
  BY Ids, VerdictsStable DEF IndInv, TypeOK, Children
<1>1. plan' = plan /\ \A j : Deps(j)' = Deps(j)
  BY NextCases, CallerFrame, WorkerFrame DEF vars, callerVars, Deps, Children, Cont, SubtaskId
<1>2. CASE next' = next
  <2>1. ASSUME NEW c \in Children, c < next, plan[c] = {}
        PROVE  ran'[c] # "none" \/ SomeChildFailed' \/ Underway(c)'
    <3>1. CASE ran[c] # "none"
      BY <1>0, <3>1, RanStays
    <3>2. CASE Underway(c)
      BY <1>0, <3>2, ChildUnderway
    <3> QED BY <1>0, <2>1, <3>1, <3>2 DEF PushedInv
  <2>2. opc' = "block" => Deps(next) # {}
    <3>1. opc' = "block" => Register \/ opc = "block"
      BY <1>2, NextCases, WorkerFrame DEF CallerStep, FanOut, FanIn, Register, Block, Push,
         SaveHandle, StartPool, Enqueued, PollFailed, Diagnose, PollCompleted, Collect,
         FanInRead, FanInSave, TimeOut, CancelSave, vars, callerVars
    <3> QED BY <3>1 DEF Register, PushedInv
  <2> QED BY <1>0, <1>1, <1>2, <2>1, <2>2 DEF PushedInv
<1>3. CASE next' # next
  <2>1. Block \/ Push
    BY <1>3, NextCases, WorkerFrame DEF CallerStep, FanOut, FanIn, Register, Block, Push,
       SaveHandle, StartPool, Enqueued, PollFailed, Diagnose, PollCompleted, Collect,
       FanInRead, FanInSave, TimeOut, CancelSave, vars, callerVars
  <2>2. next' = next + 1 /\ opc' # "block" /\ UNCHANGED ran
    BY <2>1 DEF Block, Push, Enqueued
  <2>3. ASSUME NEW c \in Children, c < next', plan[c] = {}
        PROVE  ran'[c] # "none" \/ SomeChildFailed' \/ Underway(c)'
    <3>1. CASE c < next
      <4>1. CASE Underway(c)
        BY <1>0, <4>1, ChildUnderway
      <4> QED BY <1>0, <2>2, <2>3, <3>1, <4>1 DEF PushedInv
    <3>2. CASE c = next
      <4>1. Deps(c) = {}
        BY <2>3, Ids DEF Deps
      <4>2. Push
        BY <2>1, <3>2, <4>1 DEF Block, PushedInv
      <4>3. /\ queue' = Append(queue, c) /\ queue \in Seq(Jobs) /\ c \in Jobs
        BY <1>0, <3>2, <4>2 DEF Push, TypeOK
      <4>4. Len(queue') \in 1 .. Len(queue') /\ queue'[Len(queue')] = c
        BY <4>3
      <4> QED BY <4>4 DEF Underway
    <3> QED BY <1>0, <2>2, <2>3, <3>1, <3>2
  <2> QED BY <1>0, <1>1, <2>2, <2>3 DEF PushedInv
<1> QED BY <1>2, <1>3

(* Until every child has run well, nobody but its registration touches the
   continuation's record. *)
LEMMA ContUntouched ==
  ASSUME IndInv, [Next]_vars, ~AllRanWell, next = N + 2
  PROVE  store'[Cont] = store[Cont]
<1>0. TypeOK /\ EnqueueInv /\ Cont \in Jobs /\ next # Cont
  BY Ids DEF IndInv, Cont
<1>1. \A w \in Workers : cur[w] = Cont => pc[w] = "idle"
  BY DEF IndInv, UnblockInv, ContinuationInv, Holds
<1>2. \A w \in Workers : ~(sib[w] = Cont /\ CancelSibling(w)) /\ ~Unblock(w)
  BY Ids DEF IndInv, StoreInv, CancelInv, CancelSibling, UnblockInv, DepsInv, Unblock
<1>3. \A w \in Workers : cur[w] = Cont => ~(\/ Hydrate(w) \/ MarkRunning(w) \/ Checkpoint(w)
                                           \/ MarkSucceeded(w) \/ MarkFailed(w))
  BY <1>1 DEF Hydrate, MarkRunning, Checkpoint, MarkSucceeded, MarkFailed
<1> QED BY <1>0, <1>2, <1>3, StoreChange

(* A completion handler that is going to look at the continuation still is, unless it
   has unblocked it. *)
LEMMA WillStillFindIt ==
  ASSUME IndInv, LateInv, [Next]_vars, AllRanWell, store[Cont].state = "blocked",
         NEW v \in Workers, WillFindIt(v)
  PROVE  WillFindIt(v)' \/ pc'[v] = "push_sibling"
<1>0. TypeOK /\ Cont \in Jobs /\ Cont' = Cont
  BY Ids DEF IndInv, Cont
<1>1. pc[v] \in {"success", "list", "scan", "deps", "unblock"}
  BY DEF WillFindIt
<1>2. CASE CallerStep \/ UNCHANGED vars
  <2>1. UNCHANGED <<pc, todo>>
    BY <1>2, CallerFrame DEF vars, workerVars
  <2> QED BY <1>0, <2>1 DEF WillFindIt
<1>3. ASSUME NEW w \in Workers, WorkerStep(w), w # v
      PROVE  WillFindIt(v)'
  BY <1>0, <1>3, OtherWorkers DEF WillFindIt
<1>4. ASSUME WorkerStep(v)
      PROVE  WillFindIt(v)' \/ pc'[v] = "push_sibling"
  <2>0. \/ RecordSuccess(v) \/ ListJobs(v) \/ Scan(v) \/ CheckDependency(v) \/ Unblock(v)
        \/ Return(v)
    BY <1>1, <1>4 DEF WorkerStep, Process, Complete, Pop, Load, Hydrate, MarkRunning,
       Checkpoint, MarkSucceeded, MarkFailed, PushSibling, RecordFailure, Survey,
       CancelSibling, Charge
  <2>1. CASE RecordSuccess(v)
    <3>1. handle.saved
      BY <2>1, WholeBatch DEF RecordSuccess
    <3>2. pc'[v] = "list"
      BY <1>0, <2>1, <3>1 DEF RecordSuccess, Goto, TypeOK
    <3> QED BY <3>2 DEF WillFindIt
  <2>2. CASE ListJobs(v)
    <3>1. pc'[v] = "scan" /\ Cont \in todo'[v]
      BY <1>0, <2>2 DEF ListJobs, Goto, TypeOK
    <3> QED BY <1>0, <3>1 DEF WillFindIt
  <2>3. CASE Scan(v)
    <3>1. PICK j \in todo[v] :
            \/ pc' = [pc EXCEPT ![v] = "deps"] /\ UNCHANGED todo
            \/ /\ ~(store[j].state = "blocked" /\ Deps(j) # {})
               /\ todo' = [todo EXCEPT ![v] = todo[v] \ {j}] /\ UNCHANGED pc
      BY <2>3 DEF Scan, Goto, Visited
    <3>2. Cont \in todo[v] /\ pc[v] = "scan"
      BY <2>3 DEF Scan, WillFindIt
    <3>3. Deps(Cont) # {}
      <4>1. 1 \in Children
        BY Ids DEF Children
      <4> QED BY <4>1 DEF Deps
    <3>4. CASE pc' = [pc EXCEPT ![v] = "deps"] /\ UNCHANGED todo
      <4>1. pc'[v] = "deps" /\ Cont \in todo'[v]
        BY <1>0, <3>2, <3>4 DEF TypeOK
      <4> QED BY <1>0, <4>1 DEF WillFindIt
    <3>5. CASE /\ ~(store[j].state = "blocked" /\ Deps(j) # {})
               /\ todo' = [todo EXCEPT ![v] = todo[v] \ {j}] /\ UNCHANGED pc
      <4>1. j # Cont
        BY <3>3, <3>5
      <4>2. pc'[v] = "scan" /\ Cont \in todo'[v]
        BY <1>0, <3>2, <3>5, <4>1 DEF TypeOK
      <4> QED BY <1>0, <4>2 DEF WillFindIt
    <3> QED BY <3>1, <3>4, <3>5
  <2>4. CASE CheckDependency(v)
    <3>1. PICK d \in need[v] :
            \/ (Goto(v, "unblock") \/ Goto(v, "deps")) /\ UNCHANGED todo
            \/ StoredState(d) # "succeeded" /\ Visited(v, sib[v]) /\ Goto(v, "scan")
      BY <2>4 DEF CheckDependency
    <3>2. Cont \in todo[v] /\ pc[v] = "deps"
      BY <2>4 DEF CheckDependency, WillFindIt
    <3>3. CASE (Goto(v, "unblock") \/ Goto(v, "deps")) /\ UNCHANGED todo
      <4>1. pc'[v] \in {"deps", "unblock"} /\ Cont \in todo'[v]
        BY <1>0, <3>2, <3>3 DEF Goto, TypeOK
      <4> QED BY <1>0, <4>1 DEF WillFindIt
    <3>4. CASE StoredState(d) # "succeeded" /\ Visited(v, sib[v]) /\ Goto(v, "scan")
      <4>1. sib[v] # Cont
        <5>1. ASSUME sib[v] = Cont
              PROVE  FALSE
          <6>1. d \in Children /\ d \in Jobs
            BY <3>2, <5>1, Ids DEF IndInv, UnblockInv, DepsInv, Deps
          <6>2. store[d] = [state |-> "succeeded", result |-> "output"]
            BY <6>1, NotBoth DEF AllRanWell, IndInv, StoreInv, FinishedInv
          <6> QED BY <3>4, <6>1, <6>2 DEF StoredState
        <5> QED BY <5>1
      <4>2. pc'[v] = "scan" /\ Cont \in todo'[v]
        BY <1>0, <3>2, <3>4, <4>1 DEF Visited, Goto, TypeOK
      <4> QED BY <1>0, <4>2 DEF WillFindIt
    <3> QED BY <3>1, <3>3, <3>4
  <2>5. CASE Unblock(v)
    BY <1>0, <2>5 DEF Unblock, Goto, TypeOK
  <2>6. CASE Return(v)
    BY <2>6 DEF Return, WillFindIt
  <2> QED BY <2>0, <2>1, <2>2, <2>3, <2>4, <2>5, <2>6
<1> QED BY <1>2, <1>3, <1>4, NextCases

(* A worker that holds the continuation is executing it, or has. *)
LEMMA ContinuationHeld ==
  ASSUME IndInv, WakeInv, [Next]_vars, NEW v \in Workers, cur'[v] = Cont, pc'[v] # "idle"
  PROVE  pc'[v] \in Running \/ ran'[Cont] # "none"
<1>0. TypeOK /\ Cont \in Jobs
  BY Ids DEF IndInv
<1>1. CASE UNCHANGED <<cur, pc>> /\ Holds(v, Cont)
  BY <1>0, <1>1, RanStays DEF WakeInv
<1>2. ASSUME WorkerStep(v)
      PROVE  pc'[v] \in Running \/ ran'[Cont] # "none"
  <2>1. CASE InPhase(v)
    <3>1. Holds(v, Cont)
      BY <1>0, <2>1, PhaseStep DEF Holds
    <3>2. PICK q \in WorkerPCs : pc' = [pc EXCEPT ![v] = q] /\ SamePhase(pc[v], q)
      BY <1>0, <2>1, PhaseStep
    <3>3. pc[v] \in Running => pc'[v] \in Running
      BY <1>0, <3>2 DEF SamePhase, TypeOK, Running, Reporting, Cancelling
    <3> QED BY <1>0, <3>1, <3>3, RanStays DEF WakeInv
  <2>2. CASE Pop(v)
    BY <1>0, <2>2 DEF Pop, Goto, TypeOK, Running
  <2>3. CASE MarkSucceeded(v) \/ MarkFailed(v)
    <3>1. cur[v] = Cont
      BY <2>3 DEF MarkSucceeded, MarkFailed
    <3> QED BY <2>3, <3>1, RanChange DEF IndInv
  <2>4. CASE PushSibling(v)
    <3>1. Holds(v, Cont) /\ pc[v] \notin Running
      BY <2>4 DEF PushSibling, Holds, Running
    <3> QED BY <1>0, <3>1, RanStays DEF WakeInv
  <2> QED BY <1>2, <2>1, <2>2, <2>3, <2>4, WorkerCases
<1>3. ASSUME NEW w \in Workers, WorkerStep(w), w # v
      PROVE  pc'[v] \in Running \/ ran'[Cont] # "none"
  <2>1. pc'[v] = pc[v] /\ Holds(v, Cont)
    BY <1>0, <1>3, OtherWorkers DEF Holds
  <2> QED BY <1>0, <2>1, RanStays DEF WakeInv
<1>4. CASE CallerStep \/ UNCHANGED vars
  <2>1. UNCHANGED <<cur, pc>>
    BY <1>4, CallerFrame DEF vars, workerVars
  <2> QED BY <1>1, <2>1 DEF Holds
<1> QED BY <1>2, <1>3, <1>4, NextCases

(* The continuation is blocked until every child has run well, and somebody has it,
   pushes it or comes to it from then on. *)
LEMMA WakeStep ==
  ASSUME IndInv, LateInv, WakeInv, [Next]_vars
  PROVE  WakeInv'
<1>0. /\ TypeOK /\ EnqueueInv /\ Cont \in Jobs /\ Cont' = Cont /\ N' = N /\ next \in Nat
      /\ AllRanWell => AllRanWell'
  BY Ids, VerdictsStable DEF IndInv, TypeOK, Cont
<1>1. next' = N + 2 /\ ~AllRanWell' => store'[Cont].state = "blocked"
  <2> SUFFICES ASSUME next' = N + 2, ~AllRanWell' PROVE store'[Cont].state = "blocked"
    OBVIOUS
  <2>1. CASE next = N + 2
    BY <1>0, <2>1, ContUntouched DEF WakeInv
  <2>2. CASE next # N + 2
    <3>1. Block \/ Push
      BY <2>2, NextCases, WorkerFrame DEF CallerStep, FanOut, FanIn, Register, Block, Push,
         SaveHandle, StartPool, Enqueued, PollFailed, Diagnose, PollCompleted, Collect,
         FanInRead, FanInSave, TimeOut, CancelSave, vars, callerVars
    <3>2. next' = next + 1
      BY <3>1 DEF Block, Push, Enqueued
    <3>3. next = Cont /\ Block
      BY <1>0, <3>1, <3>2, Ids DEF Cont, Push, EnqueueInv
    <3>4. store'[Cont] = [state |-> "blocked", result |-> "none"]
      BY <1>0, <3>3, SaveEffect DEF Block
    <3> QED BY <3>4
  <2> QED BY <2>1, <2>2
<1>2. store'[Cont].state = "failed" => ran'[Cont] # "none"
  <2>1. CASE store'[Cont] = store[Cont]
    BY <1>0, <2>1, RanStays DEF WakeInv
  <2>2. ASSUME NEW w \in Workers, cur[w] = Cont, MarkFailed(w)
        PROVE  ran'[Cont] # "none"
    BY <2>2, RanChange DEF IndInv
  <2>3. ASSUME NEW w \in Workers, sib[w] = Cont, CancelSibling(w)
        PROVE  FALSE
    BY <2>3, Ids DEF CancelSibling, IndInv, StoreInv, CancelInv
  <2> QED BY <1>0, <2>1, <2>2, <2>3, StoreChange
<1>3. ASSUME NEW v \in Workers, cur'[v] = Cont, pc'[v] # "idle"
      PROVE  pc'[v] \in Running \/ ran'[Cont] # "none"
  BY <1>3, ContinuationHeld
<1>4. CASE AllRanWell
  <2> SUFFICES \/ ran'[Cont] # "none" \/ Underway(Cont)'
               \/ \E w \in Workers : pc'[w] = "push_sibling"
               \/ store'[Cont].state = "blocked" /\ \E w \in Workers : WillFindIt(w)'
    BY <1>0, <1>1, <1>2, <1>3, <1>4 DEF WakeInv, Holds
  <2>1. CASE ran[Cont] # "none"
    BY <1>0, <2>1, RanStays
  <2>2. CASE Underway(Cont)
    <3>1. Underway(Cont)' \/ ran'[Cont] # "none" \/ store[Cont].state = "failed"
      BY <1>0, <2>2, UnderwayStep DEF WakeInv
    <3>2. store[Cont].state = "failed" => ran'[Cont] # "none"
      BY <1>0, RanStays DEF WakeInv
    <3> QED BY <3>1, <3>2
  <2>3. ASSUME NEW v \in Workers, pc[v] = "push_sibling"
        PROVE  Underway(Cont)' \/ pc'[v] = "push_sibling"
    <3>1. CASE PushSibling(v)
      <4>1. queue' = Append(queue, Cont) /\ queue \in Seq(Jobs)
        BY <1>0, <3>1 DEF PushSibling, IndInv, UnblockInv, DepsInv, TypeOK
      <4>2. Len(queue') \in 1 .. Len(queue') /\ queue'[Len(queue')] = Cont
        BY <1>0, <4>1
      <4> QED BY <1>0, <4>2 DEF Underway
    <3>2. CASE WorkerStep(v)
      <4>1. PushSibling(v)
        BY <2>3, <3>2 DEF WorkerStep, Process, Complete, Pop, Load, Hydrate, MarkRunning,
           Checkpoint, MarkSucceeded, MarkFailed, RecordSuccess, ListJobs, Scan,
           CheckDependency, Unblock, RecordFailure, Survey, CancelSibling, Charge, Return
      <4> QED BY <3>1, <4>1
    <3>3. ASSUME NEW w \in Workers, WorkerStep(w), w # v
          PROVE  pc'[v] = "push_sibling"
      BY <1>0, <2>3, <3>3, OtherWorkers
    <3>4. CASE UNCHANGED pc
      BY <2>3, <3>4
    <3> QED BY <3>2, <3>3, <3>4, NextCases, CallerFrame DEF vars, workerVars
  <2>4. ASSUME NEW v \in Workers, WillFindIt(v), store[Cont].state = "blocked"
        PROVE  \/ ran'[Cont] # "none" \/ Underway(Cont)'
               \/ \E w \in Workers : pc'[w] = "push_sibling"
               \/ store'[Cont].state = "blocked" /\ WillFindIt(v)'
    <3>1. CASE store'[Cont] = store[Cont]
      BY <1>4, <2>4, <3>1, WillStillFindIt
    <3>2. next # Cont
      BY <2>4, WholeBatch, Ids DEF WillFindIt, Cont
    <3>3. ASSUME NEW w \in Workers, cur[w] = Cont,
                 Hydrate(w) \/ MarkRunning(w) \/ Checkpoint(w)
          PROVE  Underway(Cont)'
      <4>1. cur'[w] = Cont /\ pc'[w] # "idle"
        BY <1>0, <3>3 DEF Hydrate, MarkRunning, Checkpoint, Goto, TypeOK, workerVars
      <4> QED BY <1>0, <4>1 DEF Underway, Holds
    <3>4. ASSUME NEW w \in Workers, cur[w] = Cont, MarkSucceeded(w) \/ MarkFailed(w)
          PROVE  ran'[Cont] # "none"
      BY <3>4, RanChange DEF IndInv
    <3>5. ASSUME NEW w \in Workers, Unblock(w)
          PROVE  pc'[w] = "push_sibling"
      BY <1>0, <3>5 DEF Unblock, Goto, TypeOK
    <3>6. ASSUME NEW w \in Workers, sib[w] = Cont, CancelSibling(w)
          PROVE  FALSE
      BY <3>6, Ids DEF CancelSibling, IndInv, StoreInv, CancelInv
    <3> QED BY <1>0, <3>1, <3>2, <3>3, <3>4, <3>5, <3>6, StoreChange
  <2> QED BY <1>4, <2>1, <2>2, <2>3, <2>4 DEF WakeInv
<1>5. CASE ~AllRanWell /\ AllRanWell'
  <2>1. PICK w \in Workers : MarkSucceeded(w) \/ MarkFailed(w)
    <3>1. UNCHANGED ran => UNCHANGED AllRanWell
      BY DEF AllRanWell, Children
    <3> QED BY <1>0, <1>5, <3>1, NextCases, CallerFrame, WorkerCases, PhaseStep
            DEF Pop, PushSibling, vars
  <2>2. pc[w] = "exec" /\ next = N + 2
    BY <2>1, WholeBatch DEF MarkSucceeded, MarkFailed
  <2>3. cur[w] # Cont
    BY <1>5, <2>2 DEF IndInv, UnblockInv, ContinuationInv, Holds
  <2>4. MarkSucceeded(w)
    <3>1. cur[w] \in Children
      BY <1>0, <2>3, Ids DEF TypeOK
    <3>2. ran'[cur[w]] = "ok"
      BY <1>5, <3>1 DEF AllRanWell, Children
    <3> QED BY <2>1, <3>2, RanChange DEF IndInv
  <2>5. pc'[w] = "success"
    BY <1>0, <2>4 DEF MarkSucceeded, Goto, TypeOK
  <2>6. store'[Cont].state = "blocked"
    BY <1>5, <2>2, ContUntouched DEF WakeInv
  <2>7. WillFindIt(w)'
    BY <2>5 DEF WillFindIt
  <2> QED BY <1>0, <1>1, <1>2, <1>3, <2>6, <2>7 DEF WakeInv, Holds
<1>6. CASE ~AllRanWell /\ ~AllRanWell'
  BY <1>0, <1>1, <1>2, <1>3, <1>6 DEF WakeInv, Holds
<1> QED BY <1>4, <1>5, <1>6

(* When decompose_task starts the pool after fan_out, ProgressInv holds at first ... *)
LEMMA ProgressInit == PoolIsLate /\ Init => ProgressInv
<1> SUFFICES ASSUME PoolIsLate, Init PROVE ProgressInv
  OBVIOUS
<1>0. /\ ~poolUp /\ opc = "register" /\ next = 1 /\ queue = <<>> /\ handle = NewHandle
      /\ \A w \in Workers : pc[w] = "idle"
      /\ \A j \in Jobs : ran[j] = "none" /\ store[j].state = "absent"
      /\ \A c \in Children : ran[c] = "none" /\ store[c].state = "absent"
      /\ 1 \in Children
  <2>1. ~poolUp
    BY DEF Init, PoolIsLate
  <2>2. \A j \in Jobs : ran[j] = "none" /\ store[j].state = "absent"
    BY DEF Init
  <2>3. Children \subseteq Jobs /\ 1 \in Children
    BY Ids DEF Children
  <2> QED BY <2>1, <2>2, <2>3 DEF Init
<1>1. LateInv
  BY <1>0, Ids DEF LateInv, Fanning, HandleStored, Jobs
<1>2. ReportInv
  <2>1. ~IsReady({}, {})
    <3>1. IsReady({}, {}) => {} = Children
      BY Counting
    <3> QED BY <1>0, <3>1
  <2> QED BY <1>0, <2>1 DEF ReportInv, NewHandle
<1>3. CancelledInv /\ HuntInv
  BY <1>0 DEF CancelledInv, HuntInv, SomeChildFailed
<1>4. PushedInv
  BY <1>0 DEF PushedInv, Children
<1>5. WakeInv
  <2>1. ~AllRanWell
    BY <1>0 DEF AllRanWell
  <2>2. 1 # N + 2
    BY Ids
  <2> QED BY <1>0, <2>1, <2>2, Ids DEF WakeInv, Holds
<1> QED BY <1>1, <1>2, <1>3, <1>4, <1>5 DEF ProgressInv

(* ... and after every step. *)
LEMMA ProgressStep == IndInv /\ ProgressInv /\ [Next]_vars => ProgressInv'
BY LateStep, ReportStep, CancelledStep, HuntStep, PushedStep, WakeStep DEF ProgressInv

(* Every child that is on one of the two lists accounts for itself. *)
LEMMA AllOnTheLists ==
  ASSUME NEW done \in SUBSET Children, NEW bad \in SUBSET Children, done \cup bad = Children
  PROVE  IsReady(done, bad)
<1>1. IsFiniteSet(Children) /\ Cardinality(Children) = N
  BY Ids, FS_Interval DEF Children
<1>2. IsFiniteSet(done) /\ IsFiniteSet(bad) /\ done \cap bad \in SUBSET done
  BY <1>1, FS_Subset
<1>3. IsFiniteSet(done \cap bad)
  BY <1>2, FS_Subset
<1>4. N = Cardinality(done) + Cardinality(bad) - Cardinality(done \cap bad)
  BY <1>1, <1>2, FS_Union
<1>5. /\ Cardinality(done) \in Nat /\ Cardinality(bad) \in Nat
      /\ Cardinality(done \cap bad) \in Nat
  BY <1>2, <1>3, FS_CardinalityType
<1> QED BY <1>4, <1>5, Ids DEF IsReady

(* What is on its way to its end holds at every moment, however many threads work. *)
THEOREM EverythingIsUnderway == ASSUME PoolIsLate PROVE Spec => []ProgressInv
<1>1. Init => ProgressInv
  BY ProgressInit
<1> QED BY <1>1, ProgressStep, Inductive, PTL DEF Spec

(* When nothing moves any more, no child that could run is left behind, the handle
   the caller polls has settled, and the continuation has run if all went well:
   neither a lost completion nor a sibling cancelled too late makes a batch wait. *)
THEOREM NothingIsLeftWaiting == ASSUME PoolIsLate PROVE Spec => []NothingHangs
<1>1. ASSUME IndInv, ProgressInv
      PROVE  NothingHangs
  <2> SUFFICES ASSUME Quiet, opc \notin Fanning
               PROVE  /\ \A c \in Children : plan[c] = {} => ran[c] # "none" \/ SomeChildFailed
                      /\ opc = "poll" /\ (AllRanWell \/ SomeChildFailed) =>
                           handle.state # "waiting"
                      /\ AllRanWell => ran[Cont] # "none"
    BY DEF NothingHangs
  <2>1. /\ \A w \in Workers : pc[w] = "idle"
        /\ \A j : ~Underway(j)
    BY DEF Quiet, Underway, Holds
  <2>2. next = N + 2
    BY <1>1 DEF ProgressInv, LateInv
  <2>3. \A c \in Children : c < next
    BY <2>2, Ids DEF Children
  <2>4. \A c \in Children : plan[c] = {} => ran[c] # "none" \/ SomeChildFailed
    BY <1>1, <2>1, <2>3 DEF ProgressInv, PushedInv
  <2>5. ASSUME opc = "poll", AllRanWell \/ SomeChildFailed
        PROVE  handle.state # "waiting"
    <3>0. handle.completed \subseteq Children /\ handle.failed \subseteq Children
      BY <1>1 DEF IndInv, TypeOK, Handle
    <3>1. \A c \in Children : /\ ran[c] = "ok" => c \in handle.completed
                              /\ ran[c] = "error" => c \in handle.failed
      BY <1>1, <2>1, <2>5 DEF ProgressInv, ReportInv, Undecided
    <3>2. \A c \in Children : ran[c] = "none" => c \in handle.failed
      BY <1>1, <2>1, <2>5 DEF ProgressInv, HuntInv, Undecided, Charging, Hunted, AllRanWell
    <3>3. \A c \in Children : ran[c] \in {"none", "ok", "error"}
      BY <1>1, Ids DEF IndInv, TypeOK
    <3>4. handle.completed \cup handle.failed = Children
      BY <3>0, <3>1, <3>2, <3>3
    <3>5. IsReady(handle.completed, handle.failed)
      BY <3>0, <3>4, AllOnTheLists
    <3> QED BY <1>1, <2>5, <3>5 DEF ProgressInv, ReportInv, Undecided
  <2>6. AllRanWell => ran[Cont] # "none"
    BY <1>1, <2>1 DEF ProgressInv, WakeInv, WillFindIt
  <2> QED BY <2>4, <2>5, <2>6
<1> QED BY <1>1, Inductive, EverythingIsUnderway, PTL
=============================================================================
