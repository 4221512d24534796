----------------------------- MODULE JobDelivery -----------------------------
(***************************************************************************)
(* How jobs are delivered and executed: the queue with its leases, the job *)
(* store, and workers that run process_next - load and hydrate, crash      *)
(* recovery, degraded mode, and the execution loop with its retries, panic *)
(* guard and poison threshold - while workers and the requeuer may crash.  *)
(*                                                                         *)
(* Two deployments: the in-memory queue and store, which hold the very     *)
(* object the worker changes, and the Redis queue with the SQLite store,   *)
(* where a delivery is the job as it was pushed.                           *)
(***************************************************************************)
EXTENDS Naturals, Sequences, FiniteSets

CONSTANTS Jobs, Workers,
          Backends,       \* the deployments: "memory", "persistent"
          PoisonAt,       \* max_failures of the poison detector
          AttemptLimits,  \* max_attempts of the error types; 1: not retried
          FailureLimit, PanicLimit, CrashLimit, \* thresholds of degraded mode
          MaxCycles,      \* bound: cycles until an executor is done
          MaxCrashes      \* bound: crashes in a behaviour

None == "none"

ASSUME DeliveryAssumption ==
  /\ Backends \subseteq {"memory", "persistent"}
  /\ PoisonAt \in Nat \ {0}
  /\ AttemptLimits \subseteq Nat \ {0}
  /\ FailureLimit \in Nat \ {0} /\ PanicLimit \in Nat \ {0} /\ CrashLimit \in Nat \ {0}
  /\ MaxCycles \in Nat \ {0} /\ MaxCrashes \in Nat
  /\ IsFiniteSet(Jobs) /\ None \notin Jobs

VARIABLES
  backend,          \* the deployment; never changes
  store,            \* the job store
  queue, leased,    \* the queue, and its in-flight / processing jobs
  moving,           \* taken off the processing list, not pushed yet (Redis)
  orphans,          \* jobs whose worker crashed: in flight, worked on by nobody
  pc, job, copy,    \* each worker: place, the job it processes, its object
  attempt, cycles,  \* locals of the execution loop
  degraded,         \* DegradedModeStage._degraded of each worker
  crashes,          \* count, for the bound
  failed, dropped   \* history: calls that raised since one returned; jobs
                    \* the requeuer crashed with

queues == <<queue, leased, moving, orphans>>
locals == <<pc, job, copy, attempt, cycles, degraded>>
vars == <<backend, store, queues, locals, crashes, failed, dropped>>

Dead == {"failed", "poison"}
Terminal == Dead \cup {"succeeded"}
Record == [state : {"pending", "running"} \cup Terminal,
           failures : Nat, consecutive : Nat, panics : Nat, crashes : Nat]
NewJob == [state |-> "pending", failures |-> 0, consecutive |-> 0, panics |-> 0, crashes |-> 0]
Places == {"idle", "popped", "hydrated", "gate", "cycle", "failed", "done", "returning"}

(* The queue, the stores and the workers hold well-formed values. *)
TypeOK ==
  /\ backend \in Backends
  /\ store \in [Jobs -> Record]
  /\ queue \in Seq(Jobs)
  /\ leased \subseteq Jobs /\ moving \subseteq Jobs /\ dropped \subseteq Jobs
  /\ orphans \subseteq Jobs
  /\ pc \in [Workers -> Places]
  /\ job \in [Workers -> Jobs \cup {None}]
  /\ \A w \in Workers : pc[w] # "idle" => job[w] \in Jobs
  /\ copy \in [Workers -> Record]
  /\ attempt \in [Workers -> Nat \ {0}]
  /\ cycles \in [Workers -> 0 .. MaxCycles]
  /\ degraded \in [Workers -> BOOLEAN]
  /\ crashes \in 0 .. MaxCrashes
  /\ failed \in [Jobs -> Nat]

Elements(q) == {q[n] : n \in DOMAIN q}
Distinct(q) == \A m, n \in DOMAIN q : q[m] = q[n] => m = n

(* Every job was registered, with a checkpoint, and pushed. *)
Init ==
  /\ backend \in Backends
  /\ store = [j \in Jobs |-> NewJob]
  /\ queue \in {q \in [1 .. Cardinality(Jobs) -> Jobs] : Distinct(q) /\ Elements(q) = Jobs}
  /\ leased = {} /\ moving = {} /\ orphans = {} /\ dropped = {}
  /\ pc = [w \in Workers |-> "idle"]
  /\ job = [w \in Workers |-> None]
  /\ copy = [w \in Workers |-> NewJob]
  /\ attempt = [w \in Workers |-> 1]
  /\ cycles = [w \in Workers |-> 0]
  /\ degraded = [w \in Workers |-> FALSE]
  /\ crashes = 0
  /\ failed = [j \in Jobs |-> 0]

-----------------------------------------------------------------------------
(* The worker goes to p; with a save, its object becomes the stored one. *)
Go(w, p) == pc' = [pc EXCEPT ![w] = p]
Save(w, r) ==
  /\ copy' = [copy EXCEPT ![w] = r]
  /\ store' = [store EXCEPT ![job[w]] = r]

(* The oldest job is leased to the worker.  In memory the object is the stored
   one; Redis hands out what was pushed. *)
Pop(w) ==
  /\ pc[w] = "idle" /\ queue # <<>>
  /\ LET j == Head(queue) IN
       /\ job' = [job EXCEPT ![w] = j]
       /\ copy' = [copy EXCEPT ![w] = IF backend = "memory" THEN store[j] ELSE NewJob]
       /\ leased' = leased \cup {j}
  /\ queue' = Tail(queue)
  /\ Go(w, "popped")
  /\ UNCHANGED <<backend, store, moving, orphans, attempt, cycles, degraded, crashes, failed,
                 dropped>>

(* The stored job has failed for good or was cancelled. *)
SkipDead(w) ==
  /\ pc[w] = "popped" /\ store[job[w]].state \in Dead
  /\ Go(w, "returning")
  /\ UNCHANGED <<backend, store, queues, job, copy, attempt, cycles, degraded, crashes, failed,
                 dropped>>

(* Only the failure count is taken from the stored job; then the object is saved. *)
HydrateWhole(w) ==
  /\ pc[w] = "popped" /\ store[job[w]].state \notin Dead
  /\ Save(w, store[job[w]])
  /\ Go(w, "hydrated")
  /\ UNCHANGED <<backend, queues, job, attempt, cycles, degraded, crashes, failed, dropped>>
HydrateFresh(w) ==
  /\ pc[w] = "popped" /\ store[job[w]].state \notin Dead
  /\ Save(w, copy[w])
  /\ Go(w, "hydrated")
  /\ UNCHANGED <<backend, queues, job, attempt, cycles, degraded, crashes, failed, dropped>>
HydrateDead(w) ==
  /\ pc[w] = "popped"
  /\ Save(w, [copy[w] EXCEPT !.failures = store[job[w]].failures])
  /\ Go(w, "hydrated")
  /\ UNCHANGED <<backend, queues, job, attempt, cycles, degraded, crashes, failed, dropped>>
Hydrate(w) ==
  /\ pc[w] = "popped" /\ store[job[w]].state \notin Dead
  /\ Save(w, [copy[w] EXCEPT !.failures = store[job[w]].failures])
  /\ Go(w, "hydrated")
  /\ UNCHANGED <<backend, queues, job, attempt, cycles, degraded, crashes, failed, dropped>>

-----------------------------------------------------------------------------
(* CrashRecoveryStage: a job left running is recovered, another one is started;
   and if it cannot be, neither can it fail, and process_next raises. *)
Recover(w) ==
  /\ pc[w] = "hydrated" /\ copy[w].state = "running"
  /\ Save(w, [copy[w] EXCEPT !.crashes = @ + 1])
  /\ Go(w, "gate")
  /\ UNCHANGED <<backend, queues, job, attempt, cycles, degraded, crashes, failed, dropped>>

Start(w) ==
  /\ pc[w] = "hydrated" /\ copy[w].state = "pending"
  /\ Save(w, [copy[w] EXCEPT !.state = "running"])
  /\ Go(w, "gate")
  /\ UNCHANGED <<backend, queues, job, attempt, cycles, degraded, crashes, failed, dropped>>

Raise(w) ==
  /\ pc[w] = "hydrated" /\ copy[w].state \in Terminal
  /\ Go(w, "idle")
  /\ job' = [job EXCEPT ![w] = None]
  /\ UNCHANGED <<backend, store, queues, copy, attempt, cycles, degraded, crashes, failed, dropped>>

(* DegradedModeStage.  No stability signals reach it: once degraded, a worker
   stays so and answers every job with the fallback. *)
Unstable(r) ==
  r.consecutive >= FailureLimit \/ r.panics >= PanicLimit \/ r.crashes >= CrashLimit

FallBack(w) ==
  /\ pc[w] = "gate" /\ (degraded[w] \/ Unstable(copy[w]))
  /\ degraded' = [degraded EXCEPT ![w] = TRUE]
  /\ Save(w, [copy[w] EXCEPT !.state = "succeeded"])
  /\ Go(w, "returning")
  /\ UNCHANGED <<backend, queues, job, attempt, cycles, crashes, failed, dropped>>

EnterAtZero(w) ==
  /\ pc[w] = "gate" /\ ~degraded[w] /\ ~Unstable(copy[w])
  /\ attempt' = [attempt EXCEPT ![w] = 0]
  /\ cycles' = [cycles EXCEPT ![w] = 0]
  /\ Go(w, "cycle")
  /\ UNCHANGED <<backend, store, queues, job, copy, degraded, crashes, failed, dropped>>
Enter(w) ==
  /\ pc[w] = "gate" /\ ~degraded[w] /\ ~Unstable(copy[w])
  /\ attempt' = [attempt EXCEPT ![w] = 1]
  /\ cycles' = [cycles EXCEPT ![w] = 0]
  /\ Go(w, "cycle")
  /\ UNCHANGED <<backend, store, queues, job, copy, degraded, crashes, failed, dropped>>

-----------------------------------------------------------------------------
(* ExecutionStage.  A cycle ends well, and the job is done or not. *)
Counted(r) == [r EXCEPT !.failures = @ + 1, !.consecutive = @ + 1]
Cleared(r) == [r EXCEPT !.failures = 0, !.consecutive = 0]

Succeeds(w) ==
  /\ pc[w] = "cycle"
  /\ Save(w, Cleared(copy[w]))
  /\ failed' = [failed EXCEPT ![job[w]] = 0]
  /\ attempt' = [attempt EXCEPT ![w] = 1]

GoodCycle(w) ==
  /\ Succeeds(w)
  /\ cycles[w] + 1 < MaxCycles
  /\ cycles' = [cycles EXCEPT ![w] = @ + 1]
  /\ UNCHANGED <<backend, queues, pc, job, degraded, crashes, dropped>>

LastCycle(w) ==
  /\ Succeeds(w)
  /\ Go(w, "done")
  /\ UNCHANGED <<backend, queues, job, cycles, degraded, crashes, dropped>>

MarkSucceeded(w) ==
  /\ pc[w] = "done"
  /\ Save(w, [copy[w] EXCEPT !.state = "succeeded"])
  /\ Go(w, "returning")
  /\ UNCHANGED <<backend, queues, job, attempt, cycles, degraded, crashes, failed, dropped>>

(* The executor returns something that is no dict: reading it raises outside the
   retries, and the handler of process_next marks the job failed. *)
Malformed(w) ==
  /\ pc[w] = "cycle"
  /\ Save(w, [Cleared(copy[w]) EXCEPT !.state = "failed"])
  /\ failed' = [failed EXCEPT ![job[w]] = 0]
  /\ Go(w, "returning")
  /\ UNCHANGED <<backend, queues, job, attempt, cycles, degraded, crashes, dropped>>

(* The executor raises; nothing has been saved of it. *)
Fails(w) ==
  /\ pc[w] = "cycle"
  /\ failed' = [failed EXCEPT ![job[w]] = @ + 1]
  /\ Go(w, "failed")
  /\ UNCHANGED <<backend, store, queues, job, copy, attempt, cycles, degraded, crashes, dropped>>

(* Poison is looked at before the retry policy, with the count before this
   failure. *)
MarkPoison(w) ==
  /\ pc[w] = "failed" /\ copy[w].failures >= PoisonAt
  /\ Save(w, [Counted(copy[w]) EXCEPT !.state = "poison"])
  /\ Go(w, "returning")
  /\ UNCHANGED <<backend, queues, job, attempt, cycles, degraded, crashes, failed, dropped>>

Retry(w) ==
  /\ pc[w] = "failed" /\ copy[w].failures < PoisonAt
  /\ \E limit \in AttemptLimits : attempt[w] < limit
  /\ Save(w, Counted(copy[w]))
  /\ attempt' = [attempt EXCEPT ![w] = @ + 1]
  /\ Go(w, "cycle")
  /\ UNCHANGED <<backend, queues, job, cycles, degraded, crashes, failed, dropped>>

PanicUnmarked(w) ==
  /\ pc[w] = "failed" /\ copy[w].failures < PoisonAt
  /\ \E limit \in AttemptLimits : attempt[w] >= limit
  /\ Save(w, [copy[w] EXCEPT !.panics = @ + 1, !.consecutive = @ + 1])
  /\ Go(w, "returning")
  /\ UNCHANGED <<backend, queues, job, attempt, cycles, degraded, crashes, failed, dropped>>
Panic(w) ==
  /\ pc[w] = "failed" /\ copy[w].failures < PoisonAt
  /\ \E limit \in AttemptLimits : attempt[w] >= limit
  /\ Save(w, [copy[w] EXCEPT !.panics = @ + 1, !.consecutive = @ + 1, !.state = "failed"])
  /\ Go(w, "returning")
  /\ UNCHANGED <<backend, queues, job, attempt, cycles, degraded, crashes, failed, dropped>>

(* process_next returns; nothing acknowledges the lease. *)
Return(w) ==
  /\ pc[w] = "returning"
  /\ Go(w, "idle")
  /\ job' = [job EXCEPT ![w] = None]
  /\ UNCHANGED <<backend, store, queues, copy, attempt, cycles, degraded, crashes, failed, dropped>>

-----------------------------------------------------------------------------
(* The worker dies with what it has not saved; its successor is a new object,
   not degraded.  The job it had is in flight at the crash. *)
Crash(w) ==
  /\ pc[w] # "idle" /\ crashes < MaxCrashes
  /\ crashes' = crashes + 1
  /\ orphans' = orphans \cup {job[w]}
  /\ Go(w, "idle")
  /\ job' = [job EXCEPT ![w] = None]
  /\ degraded' = [degraded EXCEPT ![w] = FALSE]
  /\ UNCHANGED <<backend, store, queue, leased, moving, copy, attempt, cycles, failed, dropped>>

(* requeue: in memory one step, to the front; with Redis two commands, and to
   the back.  The requeuer may crash between them. *)
RequeueFront(j) ==
  /\ backend = "memory" /\ j \in orphans
  /\ orphans' = orphans \ {j} /\ leased' = leased \ {j}
  /\ queue' = <<j>> \o queue
  /\ UNCHANGED <<backend, store, moving, locals, crashes, failed, dropped>>

RemoveLeaseNot(j) ==
  /\ backend = "persistent" /\ j \in orphans
  /\ orphans' = orphans \ {j}
  /\ moving' = moving \cup {j}
  /\ UNCHANGED <<backend, store, queue, leased, locals, crashes, failed, dropped>>
RemoveLease(j) ==
  /\ backend = "persistent" /\ j \in orphans
  /\ orphans' = orphans \ {j} /\ leased' = leased \ {j}
  /\ moving' = moving \cup {j}
  /\ UNCHANGED <<backend, store, queue, locals, crashes, failed, dropped>>

PushBack(j) ==
  /\ j \in moving
  /\ moving' = moving \ {j}
  /\ queue' = Append(queue, j)
  /\ UNCHANGED <<backend, store, leased, orphans, locals, crashes, failed, dropped>>

RequeuerCrash ==
  /\ moving # {} /\ crashes < MaxCrashes
  /\ crashes' = crashes + 1
  /\ dropped' = dropped \cup moving
  /\ moving' = {}
  /\ UNCHANGED <<backend, store, queue, leased, orphans, locals, failed>>

Work(w) == Pop(w) \/ SkipDead(w) \/ Hydrate(w) \/ Recover(w) \/ Start(w) \/ Raise(w)
             \/ FallBack(w) \/ Enter(w) \/ GoodCycle(w) \/ LastCycle(w) \/ MarkSucceeded(w)
             \/ Malformed(w) \/ Fails(w) \/ MarkPoison(w) \/ Retry(w) \/ Panic(w) \/ Return(w)
Requeue == \E j \in Jobs : RequeueFront(j) \/ RemoveLease(j) \/ PushBack(j)
Next == (\E w \in Workers : Work(w) \/ Crash(w)) \/ Requeue \/ RequeuerCrash

Spec == Init /\ [][Next]_vars

(* The worker threads are scheduled.  Nothing in the code calls requeue, so nothing
   makes a requeue happen. *)
FairSpec == Spec /\ \A w \in Workers : WF_vars(Work(w))
-----------------------------------------------------------------------------
Place == <<Elements(queue), leased, moving, dropped>>

(* A job is in one place: once in the queue, or leased, or on its way from the
   one to the other; only a requeuer's crash takes it out of all of them.  And a
   lease belongs to one worker at most. *)
OnePlace ==
  /\ Distinct(queue)
  /\ \A j \in Jobs : \E n \in 1 .. 4 : \A m \in 1 .. 4 : j \in Place[m] <=> m = n
  /\ \A v, w \in Workers : job[v] = job[w] /\ job[v] # None => v = w

(* Retries of one delivery, redeliveries and the poison threshold share their
   counters, and what a crash loses is not counted: still, a job is tried in vain
   at most PoisonAt + 1 times in a row, and once more for each crash. *)
FailureBudget == \A j \in Jobs : failed[j] <= PoisonAt + 1 + crashes

(* Degraded mode has thresholds for failures and panics, but a job never comes
   back with such counts: only a crash in the in-memory deployment, found by the
   crash recovery of the next delivery, degrades a worker. *)
DegradedOnlyAfterCrash ==
  \A w \in Workers : degraded[w] => backend = "memory" /\ crashes > 0

(* What failed or was poisoned is never executed or changed again, whatever is
   requeued: process_next, JobState and LIFECYCLE.md:46 agree, against "FAILED |
   PENDING | Retry (requeue)" in LIFECYCLE.md:42.  (SUCCEEDED is not so protected:
   Redis delivers a requeued job as new, and it is executed again.) *)
DeadStaysDead ==
  [][\A j \in Jobs : store[j].state \in Dead => store'[j] = store[j] /\ failed'[j] = failed[j]]_vars

(* Every job is decided for good, through retries, panics and redeliveries, unless a
   crash took it: what was in flight then is on nobody's list but the queue's, where it
   stays until somebody calls requeue.  (EVENT_SUBSTRATE.md:141 has its lease expire
   and the job requeued: neither queue does that.) *)
TakenByCrash == orphans \cup moving \cup dropped
JobsSettle ==
  \A j \in Jobs : <>[](store[j].state \in Terminal \/ j \in TakenByCrash)

-----------------------------------------------------------------------------
(* A worker holds a leased job that is no orphan, and none when it is idle. *)
HoldInv ==
  /\ orphans \subseteq leased
  /\ \A w \in Workers : IF pc[w] = "idle" THEN job[w] = None ELSE job[w] \in leased \ orphans

(* A worker's object is what was delivered, then what is stored: nobody else
   saves the job it holds. *)
CopyInv ==
  \A w \in Workers :
    /\ pc[w] = "popped" => copy[w] = IF backend = "memory" THEN store[job[w]] ELSE NewJob
    /\ pc[w] \in {"hydrated", "gate", "cycle", "failed", "done"} => copy[w] = store[job[w]]
    /\ pc[w] = "hydrated" => copy[w].state \notin Dead
    /\ pc[w] \in {"gate", "cycle", "failed", "done"} => copy[w].state = "running"

(* A failure in vain is in the count, or not saved yet, or lost with a crash, or
   the one that ended the job. *)
Unsaved == {j \in Jobs : \/ store[j].state = "failed"
                         \/ \E w \in Workers : job[w] = j /\ pc[w] = "failed"}
BudgetInv ==
  \A j \in Jobs :
    /\ failed[j] <= store[j].failures + crashes + (IF j \in Unsaved THEN 1 ELSE 0)
    /\ store[j].failures <= PoisonAt + (IF store[j].state = "poison" THEN 1 ELSE 0)

(* Without a crash in the in-memory deployment, jobs are delivered as new and
   reach the gate with no count but that of their failures. *)
Calm == backend = "persistent" \/ crashes = 0
Steady(r) == r.consecutive = 0 /\ r.panics = 0 /\ r.crashes = 0
CalmInv ==
  /\ crashes = 0 => orphans = {} /\ moving = {} /\ \A j \in Elements(queue) : store[j] = NewJob
  /\ Calm => \A w \in Workers :
       /\ pc[w] \in {"popped", "hydrated"} => copy[w].state = "pending"
       /\ pc[w] \in {"popped", "hydrated", "gate"} => Steady(copy[w])

(* What every step preserves. *)
IndInv == TypeOK /\ HoldInv /\ OnePlace /\ CopyInv /\ BudgetInv /\ CalmInv /\ DegradedOnlyAfterCrash

-----------------------------------------------------------------------------
(* Why every job is settled in the end, as far as safety goes: no job is forgotten,
   and no delivery goes on for ever. *)

(* No lease is acknowledged, so leases stay; but one that nobody works on, and that
   the requeuer does not know of, is of a job that is settled. *)
LeaseInv ==
  /\ \A j \in leased : \/ j \in orphans \/ store[j].state \in Terminal
                       \/ \E w \in Workers : job[w] = j
  /\ \A w \in Workers : pc[w] = "returning" => store[job[w]].state \in Terminal

AtRest == queue = <<>> /\ moving = {} /\ orphans = {} /\ \A w \in Workers : pc[w] = "idle"

(* When nothing is queued, requeued or worked on, every job has its final state,
   unless the requeuer lost it. *)
NoJobIsForgotten ==
  AtRest => \A j \in Jobs : store[j].state \in Terminal \/ j \in dropped

(* The steps a worker can still take with the job it holds: between two good cycles
   the job can fail until it is poison, and a good cycle starts the count anew. *)
Lap == 2 * PoisonAt + 4
Looping(w) == (MaxCycles - cycles[w]) * Lap + 2 * (PoisonAt + 1 - copy[w].failures) + 2
AtGate == MaxCycles * Lap + 2 * (PoisonAt + 1) + 3
StepsLeft(w) ==
  CASE pc[w] = "popped"    -> AtGate + 2
    [] pc[w] = "hydrated"  -> AtGate + 1
    [] pc[w] = "gate"      -> AtGate
    [] pc[w] = "cycle"     -> Looping(w)
    [] pc[w] = "failed"    -> Looping(w) - 1
    [] pc[w] = "done"      -> 2
    [] pc[w] = "returning" -> 1
    [] OTHER               -> 0

(* Retries, the poison threshold and the cycles of an executor that ends share one
   delivery: it is over after at most AtGate + 2 steps of its worker, whatever fails
   when, and nobody else prolongs it. *)
DeliveriesRunDown ==
  [][\A w \in Workers : pc[w] # "idle" =>
       /\ StepsLeft(w) \in 1 .. AtGate + 2
       /\ StepsLeft(w)' <= StepsLeft(w)
       /\ Work(w) => StepsLeft(w)' < StepsLeft(w)]_vars
=============================================================================
