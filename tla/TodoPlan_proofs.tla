--------------------------- MODULE TodoPlan_proofs ---------------------------
(***************************************************************************)
(* Proofs about TodoPlan, for any items, plans, retries and iterations,    *)
(* any tools and any number of edits and crashes.                          *)
(***************************************************************************)
EXTENDS TodoPlan, WellFoundedInduction, TLAPS

(* What mark_failed leaves: the item pending with a retry fewer, or failed with
   none; nothing else changes. *)
LEMMA MarkFailedFacts ==
  ASSUME TypeOK, NEW i \in Items, MarkFailed(i)
  PROVE  /\ status' \in [Items -> Statuses]
         /\ retries' \in [Items -> 0 .. Retries]
         /\ \A j \in Items : j # i => status'[j] = status[j] /\ retries'[j] = retries[j]
         /\ \/ status'[i] = "pending" /\ retries'[i] > 0 /\ retries'[i] = retries[i] - 1
            \/ status'[i] = "failed" /\ retries'[i] = 0 /\ retries[i] \in {0, 1}
BY PlanAssumption DEF TypeOK, MarkFailed, Statuses

LEMMA MarkDoneFacts ==
  ASSUME TypeOK, NEW i \in Items, MarkDone(i)
  PROVE  /\ status' \in [Items -> Statuses]
         /\ retries' = retries
         /\ status'[i] = "done"
         /\ \A j \in Items : j # i => status'[j] = status[j]
BY DEF TypeOK, MarkDone, Statuses

(* The item in hand is an item, in progress unless a tool touched it. *)
LEMMA InHand ==
  ASSUME IndInv, pc \in {"task", "goal", "failing"}
  PROVE  /\ item \in Items /\ Exists(item)
         /\ Held(item)
         /\ item \notin edited => status[item] # "done"
BY DEF IndInv, HandInv, Held, Working

(* What is selected is pending with its dependencies done, when nothing is in
   progress, or in progress. *)
LEMMA Selected ==
  ASSUME TypeOK, NEW i \in NextPending
  PROVE  /\ i \in Items
         /\ \/ status[i] = "pending" /\ InProgress = {} /\ Met(i)
            \/ status[i] = "in_progress"
BY PlanAssumption DEF NextPending, Oldest, Ready, InProgress

(* The initial states satisfy the invariant: nothing has been taken. *)
THEOREM Initial == Init => IndInv
<1> SUFFICES ASSUME Init PROVE IndInv
  OBVIOUS
<1>1. TypeOK
  BY PlanAssumption DEF Init, TypeOK, Statuses
<1>2. HandInv
  BY DEF Init, HandInv, Working, InProgress
<1>3. AttemptInv
  <2>1. Retries \in Nat /\ crashes = 0 /\ Retries > 0
    BY PlanAssumption DEF Init
  <2> QED
    BY <2>1 DEF Init, AttemptInv, Unpaid, Working
<1>4. DependenciesDone
  BY DEF Init, DependenciesDone, Held
<1> QED
  BY <1>1, <1>2, <1>3, <1>4 DEF IndInv

------------------------------------------------------------------------------
(* An item is marked by the worker, or by a tool, or not at all. *)

(* The dependencies of an untouched item stay done when the step adds none,
   touches no more than it says, and takes done from no item but one touched. *)
LEMMA PlanMetStable ==
  ASSUME TypeOK, NEW i \in Items, PlanMet(i),
         edited \subseteq edited',
         \A d \in Items : d \notin edited' /\ age'[d] = 0 /\ Exists(d)'
                            => /\ age[d] = 0 /\ Exists(d)
                               /\ status[d] = "done" => status'[d] = "done",
         i \notin edited' => \A d \in Items : <<i, d>> \in deps' => <<i, d>> \in deps
  PROVE  PlanMet(i)'
BY DEF PlanMet

(* The worker marks the item in hand, done or failed, and lets go of it, or goes
   on to mark it failed again. *)
LEMMA WorkerMarks ==
  ASSUME IndInv, pc \in {"task", "goal", "failing"},
         \/ MarkDone(item) /\ pc' = "answer"
         \/ MarkFailed(item) /\ pc' \in {"answer", "failing"},
         UNCHANGED <<age, deps, item, iteration, counts>>
  PROVE  IndInv'
<1> USE DEF IndInv
<1>1. /\ item \in Items /\ Exists(item)
      /\ item \notin edited => status[item] # "done"
  BY InHand
<1>2. /\ status' \in [Items -> Statuses] /\ retries' \in [Items -> 0 .. Retries]
      /\ \A j \in Items : j # item => status'[j] = status[j] /\ retries'[j] = retries[j]
      /\ \/ status'[item] = "done" /\ pc' = "answer" /\ retries'[item] = retries[item]
         \/ /\ pc' \in {"answer", "failing"} /\ status'[item] = "pending"
            /\ retries'[item] > 0 /\ retries'[item] = retries[item] - 1
         \/ /\ pc' \in {"answer", "failing"} /\ status'[item] = "failed"
            /\ retries'[item] = 0 /\ retries[item] \in {0, 1}
  BY <1>1, MarkDoneFacts, MarkFailedFacts DEF TypeOK
<1>3. TypeOK'
  BY <1>1, <1>2 DEF TypeOK, counts, Exists
<1>4. HandInv'
  BY <1>1, <1>2 DEF HandInv, TypeOK, InProgress, Working, Exists, counts
<1>5. AttemptInv'
  <2> SUFFICES ASSUME NEW j \in Items
               PROVE  /\ attempts'[j] <= Retries + crashes'
                      /\ status'[j] \in {"absent", "pending", "in_progress"} => retries'[j] > 0
                      /\ attempts'[j] + retries'[j]
                           <= Retries + crashes' + (IF Unpaid(j)' THEN 1 ELSE 0)
    BY DEF AttemptInv
  <2>1. /\ attempts[j] \in Nat /\ retries[j] \in Nat /\ crashes \in Nat /\ Retries \in Nat
        /\ attempts' = attempts /\ crashes' = crashes
    BY PlanAssumption DEF TypeOK, counts
  <2>2. CASE j # item
    <3>1. status'[j] = status[j] /\ retries'[j] = retries[j]
      BY <1>2, <2>2
    <3>2. Unpaid(j)' <=> Unpaid(j)
      BY <3>1, <2>2, <1>2 DEF Unpaid, HandInv, InProgress, Working
    <3> QED
      BY <3>1, <3>2, <2>1 DEF AttemptInv
  <2>3. CASE j = item
    <3>1. CASE status'[item] = "done"
      BY <3>1, <1>1, <1>2, <2>1, <2>3 DEF AttemptInv, Unpaid
    <3>2. CASE status'[item] = "pending"
      BY <3>2, <1>1, <1>2, <2>1, <2>3 DEF AttemptInv, Unpaid
    <3>3. CASE status'[item] = "failed"
      BY <3>3, <1>1, <1>2, <2>1, <2>3 DEF AttemptInv, Unpaid
    <3> QED
      BY <3>1, <3>2, <3>3, <1>2
  <2> QED
    BY <2>2, <2>3
<1>6. DependenciesDone'
  <2> SUFFICES ASSUME NEW j \in Items, (status[j] = "in_progress" \/ Held(j))'
               PROVE  PlanMet(j)'
    BY DEF DependenciesDone
  <2>1. PlanMet(j)
    BY <1>1, <1>2, InHand DEF DependenciesDone, Held
  <2>2. \A d \in Items : d \notin edited' /\ age'[d] = 0 /\ Exists(d)'
                         => /\ age[d] = 0 /\ Exists(d)
                            /\ status[d] = "done" => status'[d] = "done"
    BY <1>1, <1>2 DEF Exists, counts
  <2> QED
    BY <2>1, <2>2, PlanMetStable DEF counts
<1> QED
  BY <1>3, <1>4, <1>5, <1>6

(* A tool marks any row that is there and notes it as touched, while the worker
   has an item in hand. *)
LEMMA ToolMarks ==
  ASSUME IndInv, Edit, NEW i \in Items, Exists(i),
         status' \in [Items -> Statuses], retries' \in [Items -> 0 .. Retries],
         \A j \in Items : j # i => status'[j] = status[j] /\ retries'[j] = retries[j],
         \/ status'[i] \in {"done", "blocked"} /\ retries'[i] = retries[i]
         \/ status'[i] = "pending" /\ retries'[i] > 0 /\ retries'[i] = retries[i] - 1
         \/ status'[i] = "failed" /\ retries'[i] = 0 /\ retries[i] \in {0, 1},
         edited' = edited \cup {i}, UNCHANGED <<age, deps>>
  PROVE  IndInv'
<1> USE DEF IndInv
<1>1. /\ Working /\ item \in Items
      /\ UNCHANGED <<pc, item, iteration, crashes, attempts>> /\ edits' \in 0 .. MaxEdits
  BY InHand, PlanAssumption DEF Edit, Working, TypeOK
<1>2. TypeOK'
  BY <1>1 DEF TypeOK, Statuses, Exists
<1>3. HandInv'
  BY <1>1 DEF HandInv, TypeOK, InProgress, Working, Exists
<1>4. AttemptInv'
  <2> SUFFICES ASSUME NEW j \in Items
               PROVE  /\ attempts'[j] <= Retries + crashes'
                      /\ status'[j] \in {"absent", "pending", "in_progress"} => retries'[j] > 0
                      /\ attempts'[j] + retries'[j]
                           <= Retries + crashes' + (IF Unpaid(j)' THEN 1 ELSE 0)
    BY DEF AttemptInv
  <2>1. /\ attempts[j] \in Nat /\ retries[j] \in Nat /\ crashes \in Nat /\ Retries \in Nat
        /\ attempts' = attempts /\ crashes' = crashes
    BY <1>1, PlanAssumption DEF TypeOK
  <2>2. CASE j # i
    BY <2>1, <2>2, <1>1 DEF AttemptInv, Unpaid, Working
  <2>3. CASE j = i
    <3>1. CASE status'[i] \in {"done", "blocked"}
      BY <3>1, <2>1, <2>3 DEF AttemptInv, Unpaid
    <3>2. CASE status'[i] = "pending"
      BY <3>2, <2>1, <2>3 DEF AttemptInv, Unpaid
    <3>3. CASE status'[i] = "failed"
      BY <3>3, <2>1, <2>3 DEF AttemptInv, Unpaid
    <3> QED
      BY <3>1, <3>2, <3>3
  <2> QED
    BY <2>2, <2>3
<1>5. DependenciesDone'
  <2> SUFFICES ASSUME NEW j \in Items, (status[j] = "in_progress" \/ Held(j))'
               PROVE  PlanMet(j)'
    BY DEF DependenciesDone
  <2>1. PlanMet(j)
    BY <1>1 DEF DependenciesDone, Held
  <2> QED
    BY <2>1, PlanMetStable DEF Exists
<1> QED
  BY <1>2, <1>3, <1>4, <1>5

(* Oldest leaves something of every set of items. *)
LEMMA SomeOldest ==
  ASSUME TypeOK, NEW S, S \subseteq Items, S # {}
  PROVE  Oldest(S) # {}
<1> DEFINE R == {p \in Nat \X Nat : p[1] < p[2]}
           T == {age[i] : i \in S}
<1>1. T \subseteq Nat /\ T # {}
  BY PlanAssumption DEF TypeOK
<1>2. IsWellFoundedOn(R, Nat)
  <2>1. R = OpToRel(<, Nat)
    BY DEF OpToRel
  <2> QED
    BY <2>1, NatLessThanWellFounded
<1>3. PICK m \in T : \A n \in T : <<n, m>> \notin R
  <2> HIDE DEF R, T
  <2> QED
    BY <1>1, <1>2, WFMin
<1>4. \A n \in T : m <= n
  <2> SUFFICES ASSUME NEW n \in T, n < m PROVE FALSE
    BY <1>1
  <2>1. n \in Nat /\ m \in Nat
    BY <1>1, <1>3
  <2>2. <<n, m>> \in Nat \X Nat /\ <<n, m>>[1] < <<n, m>>[2]
    BY <2>1
  <2> QED
    BY <1>3, <2>2
<1> QED
  BY <1>4 DEF Oldest

LEMMA NothingInProgress ==
  ASSUME TypeOK, NextPending = {}
  PROVE  InProgress = {} /\ Ready(Goals) = {} /\ Ready(Items \ Goals) = {}
<1>1. /\ InProgress \subseteq Items /\ Ready(Goals) \subseteq Items
      /\ Ready(Items \ Goals) \subseteq Items
  BY PlanAssumption DEF InProgress, Ready
<1> QED
  BY <1>1, SomeOldest DEF NextPending

(* With nothing in progress, the run may go on without an item. *)
LEMMA Unheld ==
  ASSUME IndInv, InProgress = {}, UNCHANGED <<tables, iteration, counts>>,
         pc \in {"select", "answer"}, pc' \in {"select", "answer", "ended"}, item' = None
  PROVE  IndInv'
BY DEF IndInv, TypeOK, HandInv, AttemptInv, DependenciesDone, tables, counts, InProgress,
       Working, Unpaid, Held, PlanMet, Exists

(* When nothing pending is ready in an acyclic plan, something failed or is
   blocked: the pending items have one with no pending dependency. *)
LEMMA StuckHasCause == TypeOK => StuckOnlyByFailure
<1> SUFFICES ASSUME TypeOK, Stuck, Acyclic
             PROVE  \E i \in Items : status[i] \in {"failed", "blocked"}
  BY DEF StuckOnlyByFailure
<1> DEFINE P == {i \in Items : status[i] = "pending"}
<1>1. InProgress = {} /\ Ready(Goals) = {} /\ Ready(Items \ Goals) = {} /\ P # {}
  BY NothingInProgress DEF Stuck, HasWorkRemaining, InProgress
<1>2. PICK i \in P : \A d \in P : <<i, d>> \notin deps
  BY <1>1 DEF Acyclic
<1>3. ~Met(i)
  BY <1>1 DEF Ready
<1>4. PICK d \in Items : <<i, d>> \in deps /\ Exists(d) /\ status[d] # "done"
  BY <1>3 DEF Met
<1>5. status[d] \notin {"absent", "pending", "in_progress", "done"}
  BY <1>1, <1>2, <1>4 DEF Exists, InProgress
<1> QED
  BY <1>5 DEF TypeOK, Statuses

THEOREM Inductive == IndInv /\ [Next]_vars => IndInv'
<1> SUFFICES ASSUME IndInv, [Next]_vars PROVE IndInv'
  OBVIOUS
<1> USE DEF IndInv
<1>1. CASE Take
  <2>1. PICK i \in NextPending :
          /\ status' = [status EXCEPT ![i] = "in_progress"]
          /\ item' = i
          /\ pc' = IF i \in Goals THEN "goal" ELSE "task"
          /\ attempts' = [attempts EXCEPT ![i] = @ + 1]
    BY <1>1 DEF Take
  <2>2. /\ i \in Items
        /\ \/ status[i] = "pending" /\ InProgress = {} /\ Met(i)
           \/ status[i] = "in_progress"
    BY Selected
  <2>3. UNCHANGED <<retries, age, deps, edits, crashes, edited>> /\ iteration' = 0 /\ pc = "select"
    BY <1>1 DEF Take
  <2>4. TypeOK'
    BY <2>1, <2>2, <2>3, PlanAssumption DEF TypeOK, Statuses
  <2>5. HandInv'
    BY <2>1, <2>2, <2>3 DEF HandInv, TypeOK, InProgress, Working, Exists
  <2>6. AttemptInv'
    <3>1. retries[i] > 0 /\ ~Unpaid(i) /\ Unpaid(i)'
      BY <2>1, <2>2, <2>3 DEF AttemptInv, Unpaid, Working, TypeOK
    <3>2. /\ attempts[i] \in Nat /\ retries[i] \in Nat
          /\ crashes \in Nat /\ Retries \in Nat
          /\ attempts[i] + retries[i] <= Retries + crashes
      BY <3>1, <2>2, PlanAssumption DEF AttemptInv, TypeOK
    <3>3. /\ attempts'[i] = attempts[i] + 1 /\ retries'[i] = retries[i] /\ crashes' = crashes
      BY <2>1, <2>2, <2>3 DEF TypeOK
    <3>4. \A j \in Items : j # i => /\ status'[j] = status[j] /\ attempts'[j] = attempts[j]
                                    /\ retries'[j] = retries[j] /\ (Unpaid(j)' <=> Unpaid(j))
      <4> SUFFICES ASSUME NEW j \in Items, j # i
                   PROVE  /\ status'[j] = status[j] /\ attempts'[j] = attempts[j]
                          /\ retries'[j] = retries[j] /\ (Unpaid(j)' <=> Unpaid(j))
        OBVIOUS
      <4>1. status'[j] = status[j] /\ attempts'[j] = attempts[j] /\ retries'[j] = retries[j]
        BY <2>1, <2>3 DEF TypeOK
      <4>2. status[j] # "in_progress"
        BY <2>2 DEF HandInv, InProgress
      <4> QED
        BY <4>1, <4>2 DEF Unpaid
    <3> QED
      BY <3>1, <3>2, <3>3, <3>4 DEF AttemptInv
  <2>7. DependenciesDone'
    <3> SUFFICES ASSUME NEW j \in Items, (status[j] = "in_progress" \/ Held(j))'
                 PROVE  PlanMet(j)'
      BY DEF DependenciesDone
    <3>1. j = i
      BY <2>1, <2>2, <2>3 DEF Held, TypeOK, HandInv, InProgress
    <3>2. PlanMet(i)
      BY <2>2 DEF DependenciesDone, Met, PlanMet
    <3> QED
      BY <3>1, <3>2, <2>1, <2>2, <2>3, PlanMetStable DEF TypeOK, Exists
  <2> QED
    BY <2>4, <2>5, <2>6, <2>7
<1>2. CASE NothingReady
  <2>1. /\ UNCHANGED <<tables, iteration, counts>> /\ pc = "select" /\ pc' = "answer"
        /\ item' = None /\ NextPending = {}
    BY <1>2 DEF NothingReady
  <2>2. InProgress = {}
    BY <2>1, NothingInProgress
  <2> QED
    BY <2>1, <2>2, Unheld
<1>3. CASE TaskDone \/ GoalDone
  BY <1>3, WorkerMarks DEF TaskDone, GoalDone
<1>4. CASE TaskFailed \/ GoalBroken \/ GoalExhausted \/ FailedAgain
  BY <1>4, WorkerMarks DEF TaskFailed, GoalBroken, GoalExhausted, FailedAgain
<1>5. CASE GoalIncomplete
  <2>1. UNCHANGED <<tables, pc, item, counts>> /\ iteration' \in 0 .. MaxIterations
    BY <1>5, PlanAssumption DEF GoalIncomplete, TypeOK
  <2> QED
    BY <2>1 DEF TypeOK, HandInv, AttemptInv, DependenciesDone, tables, counts, InProgress,
             Working, Unpaid, Held, PlanMet, Exists
<1>6. CASE Answer
  <2>1. /\ UNCHANGED <<tables, iteration, counts>> /\ pc = "answer"
        /\ pc' \in {"select", "ended"} /\ item' = None
    BY <1>6 DEF Answer
  <2>2. InProgress = {}
    BY <2>1 DEF HandInv
  <2> QED
    BY <2>1, <2>2, Unheld
<1>7. CASE ToolCall
  <2>1. PICK i \in Items : \/ CreateTodo(i)
                           \/ \E d \in Items : AddDependency(i, d)
                           \/ ToolMarksDone(i)
                           \/ ToolMarksFailed(i)
                           \/ ToolMarksBlocked(i)
    BY <1>7 DEF ToolCall
  <2>2. /\ Edit /\ Working /\ item \in Items /\ edits' \in 1 .. MaxEdits /\ edits' = edits + 1
        /\ UNCHANGED <<pc, item, iteration, crashes, attempts>>
    BY <1>7, InHand, PlanAssumption DEF ToolCall, Edit, Working, TypeOK
  <2>3. CASE CreateTodo(i)
    <3>1. /\ ~Exists(i) /\ UNCHANGED <<retries, deps, edited>>
          /\ status' = [status EXCEPT ![i] = "pending"]
          /\ age' = [age EXCEPT ![i] = edits + 1]
      BY <2>3 DEF CreateTodo
    <3>2. TypeOK'
      BY <3>1, <2>2 DEF TypeOK, Statuses, Exists
    <3>3. HandInv'
      BY <3>1, <2>2 DEF HandInv, TypeOK, InProgress, Working, Exists
    <3>4. AttemptInv'
      BY <3>1, <2>2 DEF AttemptInv, TypeOK, Unpaid, Working, Exists
    <3>5. DependenciesDone'
      <4> SUFFICES ASSUME NEW j \in Items, (status[j] = "in_progress" \/ Held(j))'
                   PROVE  PlanMet(j)'
        BY DEF DependenciesDone
      <4>1. PlanMet(j)
        BY <3>1, <2>2 DEF DependenciesDone, Held, TypeOK
      <4>2. age'[i] # 0 /\ \A d \in Items : d # i => age'[d] = age[d] /\ status'[d] = status[d]
        BY <3>1, <2>2 DEF TypeOK
      <4> QED
        BY <4>1, <4>2, <3>1, PlanMetStable DEF Exists
    <3> QED
      BY <3>2, <3>3, <3>4, <3>5
  <2>4. CASE \E d \in Items : AddDependency(i, d)
    <3>1. PICK d \in Items : /\ deps' = deps \cup {<<i, d>>} /\ edited' = edited \cup {i}
                             /\ UNCHANGED <<status, retries, age>>
      BY <2>4 DEF AddDependency
    <3>2. TypeOK'
      BY <3>1, <2>2 DEF TypeOK
    <3>3. HandInv' /\ AttemptInv'
      BY <3>1, <2>2 DEF HandInv, AttemptInv, InProgress, Working, Exists, Unpaid
    <3>4. DependenciesDone'
      <4> SUFFICES ASSUME NEW j \in Items, (status[j] = "in_progress" \/ Held(j))'
                   PROVE  PlanMet(j)'
        BY DEF DependenciesDone
      <4>1. PlanMet(j)
        BY <3>1, <2>2 DEF DependenciesDone, Held
      <4> QED
        BY <4>1, <3>1, PlanMetStable DEF Exists
    <3> QED
      BY <3>2, <3>3, <3>4
  <2>5. CASE ToolMarksDone(i)
    <3>1. /\ Exists(i) /\ MarkDone(i) /\ edited' = edited \cup {i} /\ UNCHANGED <<age, deps>>
      BY <2>5 DEF ToolMarksDone
    <3> QED
      BY <3>1, <2>2, MarkDoneFacts, ToolMarks DEF TypeOK
  <2>6. CASE ToolMarksFailed(i)
    <3>1. /\ Exists(i) /\ MarkFailed(i) /\ edited' = edited \cup {i} /\ UNCHANGED <<age, deps>>
      BY <2>6 DEF ToolMarksFailed
    <3> QED
      BY <3>1, <2>2, MarkFailedFacts, ToolMarks
  <2>7. CASE ToolMarksBlocked(i)
    <3>1. /\ Exists(i) /\ status' = [status EXCEPT ![i] = "blocked"]
          /\ edited' = edited \cup {i} /\ UNCHANGED <<retries, age, deps>>
      BY <2>7 DEF ToolMarksBlocked
    <3>2. /\ status' \in [Items -> Statuses] /\ status'[i] = "blocked"
          /\ \A j \in Items : j # i => status'[j] = status[j]
      BY <3>1 DEF TypeOK, Statuses
    <3> QED
      BY <3>1, <3>2, <2>2, ToolMarks DEF TypeOK
  <2> QED
    BY <2>1, <2>3, <2>4, <2>5, <2>6, <2>7
<1>8. CASE Crash
  <2>1. /\ UNCHANGED <<tables, edits, edited, attempts>> /\ pc' = "select" /\ item' = None
        /\ iteration' = 0 /\ crashes' = crashes + 1 /\ crashes' \in 0 .. MaxCrashes
    BY <1>8, PlanAssumption DEF Crash, TypeOK
  <2>2. TypeOK'
    BY <2>1, PlanAssumption DEF TypeOK, tables
  <2>3. HandInv'
    BY <2>1 DEF HandInv, InProgress, Working, tables
  <2>4. AttemptInv'
    <3> SUFFICES ASSUME NEW j \in Items
                 PROVE  /\ attempts'[j] <= Retries + crashes'
                        /\ status'[j] \in {"absent", "pending", "in_progress"} => retries'[j] > 0
                        /\ attempts'[j] + retries'[j]
                             <= Retries + crashes' + (IF Unpaid(j)' THEN 1 ELSE 0)
      BY DEF AttemptInv
    <3>1. /\ attempts[j] \in Nat /\ retries[j] \in Nat /\ crashes \in Nat /\ Retries \in Nat
      BY PlanAssumption DEF TypeOK
    <3>2. UNCHANGED <<status, retries, attempts>>
      BY <2>1 DEF tables
    <3> QED
      BY <2>1, <3>1, <3>2 DEF AttemptInv, Unpaid
  <2>5. DependenciesDone'
    BY <2>1 DEF DependenciesDone, Held, PlanMet, tables, Exists
  <2> QED
    BY <2>2, <2>3, <2>4, <2>5
<1>9. CASE UNCHANGED vars
  BY <1>9 DEF vars, tables, counts, TypeOK, HandInv, AttemptInv, DependenciesDone, InProgress,
           Working, Unpaid, Held, PlanMet, Exists
<1> QED
  BY <1>1, <1>2, <1>3, <1>4, <1>5, <1>6, <1>7, <1>8, <1>9 DEF Next, Cycle

------------------------------------------------------------------------------
(* Every reachable state has well-formed tables, whatever the tools do. *)
THEOREM Invariance == Spec => []IndInv
<1>1. Init => IndInv
  BY Initial
<1>2. IndInv /\ [Next]_vars => IndInv'
  BY Inductive
<1> QED
  BY <1>1, <1>2, PTL DEF Spec

(* The tables and the run hold well-formed values in every reachable state. *)
THEOREM TypeCorrect == Spec => []TypeOK
BY Invariance, PTL DEF IndInv

(* No item is in progress or in hand before the dependencies it was planned with
   are done, through any crash, retry and resumption. *)
THEOREM Ordered == Spec => []DependenciesDone
BY Invariance, PTL DEF IndInv

(* No item is taken more often than its retries and the crashes allow. *)
THEOREM Bounded == Spec => []AttemptsBounded
<1>1. IndInv => AttemptsBounded
  BY DEF IndInv, AttemptInv, AttemptsBounded
<1> QED
  BY <1>1, Invariance, PTL

(* What is done is not carried out again unless a tool touches it. *)
THEOREM Final == Spec => DoneIsFinal
<1> DEFINE Stays == \A i \in Items : status[i] = "done" /\ i \notin edited'
                      => status'[i] = "done" /\ attempts'[i] = attempts[i]
<1>1. IndInv /\ [Next]_vars => Stays
  <2> SUFFICES ASSUME IndInv, [Next]_vars, NEW i \in Items, status[i] = "done", i \notin edited'
               PROVE  status'[i] = "done" /\ attempts'[i] = attempts[i]
    OBVIOUS
  <2> USE DEF IndInv
  <2>1. CASE Take
    BY <2>1, Selected DEF Take, TypeOK
  <2>2. CASE TaskDone \/ GoalDone
    <3>1. item \in Items /\ MarkDone(item) /\ UNCHANGED counts
      BY <2>2, InHand DEF TaskDone, GoalDone
    <3> QED
      BY <3>1, MarkDoneFacts DEF counts
  <2>3. CASE TaskFailed \/ GoalBroken \/ GoalExhausted \/ FailedAgain
    <3>1. /\ item \in Items /\ MarkFailed(item) /\ UNCHANGED counts
          /\ item \notin edited => status[item] # "done"
      BY <2>3, InHand DEF TaskFailed, GoalBroken, GoalExhausted, FailedAgain
    <3> QED
      BY <3>1, MarkFailedFacts DEF counts
  <2>4. CASE NothingReady \/ GoalIncomplete \/ Answer \/ Crash \/ UNCHANGED vars
    BY <2>4 DEF NothingReady, GoalIncomplete, Answer, Crash, tables, counts, vars
  <2>5. CASE ToolCall
    <3>1. PICK j \in Items : \/ CreateTodo(j)
                             \/ \E d \in Items : AddDependency(j, d)
                             \/ ToolMarksDone(j)
                             \/ ToolMarksFailed(j)
                             \/ ToolMarksBlocked(j)
      BY <2>5 DEF ToolCall
    <3>2. attempts' = attempts
      BY <2>5 DEF ToolCall, Edit
    <3>3. CASE CreateTodo(j)
      BY <3>2, <3>3 DEF CreateTodo, Exists, TypeOK
    <3>4. CASE \E d \in Items : AddDependency(j, d)
      BY <3>2, <3>4 DEF AddDependency
    <3>5. CASE ToolMarksDone(j)
      BY <3>2, <3>5, MarkDoneFacts DEF ToolMarksDone
    <3>6. CASE ToolMarksFailed(j)
      BY <3>2, <3>6, MarkFailedFacts DEF ToolMarksFailed
    <3>7. CASE ToolMarksBlocked(j)
      BY <3>2, <3>7 DEF ToolMarksBlocked, TypeOK
    <3> QED
      BY <3>1, <3>3, <3>4, <3>5, <3>6, <3>7
  <2> QED
    BY <2>1, <2>2, <2>3, <2>4, <2>5 DEF Next, Cycle
<1>2. Stays => [Stays]_vars
  OBVIOUS
<1> QED
  BY <1>1, Invariance, PTL DEF Spec, DoneIsFinal

(* A plan without cycles gets stuck only behind an item that failed for good or
   was blocked. *)
THEOREM StuckBehindFailure == Spec => []StuckOnlyByFailure
BY StuckHasCause, TypeCorrect, PTL

------------------------------------------------------------------------------
(* The steps of a run. *)
LEMMA StepsLeftFacts ==
  ASSUME TypeOK
  PROVE  /\ iteration \in Nat /\ MaxIterations \in Nat /\ iteration <= MaxIterations
         /\ pc = "goal" => StepsLeft = MaxIterations - iteration + 5
         /\ pc \in {"task", "failing"} => StepsLeft = 4
         /\ pc = "select" => StepsLeft = 2
         /\ pc = "answer" => StepsLeft = IF HasWorkRemaining THEN 3 ELSE 1
         /\ pc = "ended" => StepsLeft = 0
<1>1. /\ iteration \in Nat /\ MaxIterations \in Nat /\ iteration <= MaxIterations
  BY PlanAssumption DEF TypeOK
<1> QED
  BY <1>1 DEF StepsLeft

(* An item in hand costs at least four steps, and what follows its last one fewer. *)
LEMMA WorkerSteps ==
  ASSUME TypeOK, TypeOK', pc \in {"task", "goal", "failing"},
         pc' = "answer" \/ (pc = "goal" /\ pc' = "failing")
  PROVE  StepsLeft' < StepsLeft
<1>1. StepsLeft' \in {1, 3, 4} /\ (pc' = "answer" => StepsLeft' \in {1, 3})
  BY DEF StepsLeft
<1> QED
  BY <1>1, StepsLeftFacts

(* Without a change to the tables a stuck run is as stuck. *)
LEMMA StuckStays ==
  ASSUME StuckForGood, [Next]_vars
  PROVE  StuckForGood'
<1>1. ~Take /\ ~ToolCall
  BY DEF StuckForGood, Stuck, Take, ToolCall, Edit, Working
<1>2. UNCHANGED tables /\ pc' \in {"select", "answer"}
  BY <1>1 DEF Next, Cycle, StuckForGood, Stuck, NothingReady, TaskDone, TaskFailed,
     GoalIncomplete, GoalDone, GoalBroken, GoalExhausted, FailedAgain, Answer, Crash, vars
<1>3. NextPending' = NextPending /\ (HasWorkRemaining' <=> HasWorkRemaining)
  BY <1>2 DEF tables, NextPending, Oldest, InProgress, Ready, Met, Exists, HasWorkRemaining
<1> QED
  BY <1>2, <1>3 DEF StuckForGood, Stuck

(* A run takes an item, uses up a step, or waits for a tool or the next run. *)
LEMMA StepsOfARun ==
  ASSUME IndInv, IndInv', [Next]_vars, vars' # vars, ~StuckForGood
  PROVE  \/ StepsLeft' < StepsLeft
         \/ \E i \in Items : attempts'[i] = attempts[i] + 1
         \/ edits' = edits + 1 /\ StepsLeft' = StepsLeft
         \/ crashes' = crashes + 1
<1>1. TypeOK /\ TypeOK'
  BY DEF IndInv
<1>2. CASE Take
  <2>1. PICK i \in NextPending : attempts' = [attempts EXCEPT ![i] = @ + 1]
    BY <1>2 DEF Take
  <2>2. i \in Items /\ attempts'[i] = attempts[i] + 1
    BY <2>1, <1>1, Selected DEF TypeOK
  <2> QED
    BY <2>2
<1>3. CASE NothingReady
  <2>1. pc = "select" /\ pc' = "answer" /\ UNCHANGED tables /\ ~HasWorkRemaining
    BY <1>3 DEF NothingReady, StuckForGood, Stuck
  <2>2. ~HasWorkRemaining'
    BY <2>1 DEF tables, HasWorkRemaining
  <2>3. StepsLeft' = 1
    BY <2>1, <2>2 DEF StepsLeft
  <2> QED
    BY <2>1, <2>3, <1>1, StepsLeftFacts
<1>4. CASE TaskDone \/ TaskFailed \/ GoalDone \/ GoalBroken \/ GoalExhausted \/ FailedAgain
  BY <1>4, <1>1, WorkerSteps DEF TaskDone, TaskFailed, GoalDone, GoalBroken, GoalExhausted,
     FailedAgain
<1>5. CASE GoalIncomplete
  <2>1. pc = "goal" /\ pc' = "goal" /\ iteration' = iteration + 1
    BY <1>5 DEF GoalIncomplete
  <2>2. StepsLeft' = MaxIterations - iteration' + 5
    BY <2>1 DEF StepsLeft
  <2> QED
    BY <2>1, <2>2, <1>1, StepsLeftFacts
<1>6. CASE Answer
  <2>1. /\ pc = "answer" /\ pc' = IF HasWorkRemaining THEN "select" ELSE "ended"
    BY <1>6 DEF Answer
  <2>2. StepsLeft' = IF HasWorkRemaining THEN 2 ELSE 0
    BY <2>1 DEF StepsLeft
  <2> QED
    BY <2>1, <2>2, <1>1, StepsLeftFacts
<1>7. CASE ToolCall
  <2>1. edits' = edits + 1 /\ UNCHANGED <<pc, iteration>> /\ pc \in {"task", "goal"}
    BY <1>7 DEF ToolCall, Edit, Working
  <2>2. StepsLeft' = StepsLeft
    BY <2>1 DEF StepsLeft
  <2> QED
    BY <2>1, <2>2
<1>8. CASE Crash
  BY <1>8 DEF Crash
<1> QED
  BY <1>2, <1>3, <1>4, <1>5, <1>6, <1>7, <1>8 DEF Next, Cycle

(* A run goes on only by taking items, which AttemptsBounded bounds, or is stuck. *)
THEOREM RunsAreBounded == Spec => RunRunsDown
<1>1. IndInv /\ IndInv' /\ [Next]_vars =>
        [IF StuckForGood THEN StuckForGood'
         ELSE \/ StepsLeft' < StepsLeft
              \/ \E i \in Items : attempts'[i] = attempts[i] + 1
              \/ edits' = edits + 1 /\ StepsLeft' = StepsLeft
              \/ crashes' = crashes + 1]_vars
  BY StepsOfARun, StuckStays
<1> QED
  BY <1>1, Invariance, PTL DEF Spec, RunRunsDown
=============================================================================
