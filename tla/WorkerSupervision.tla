-------------------------- MODULE WorkerSupervision --------------------------
(***************************************************************************)
(* The worker supervisor: heartbeats that travel, are delayed, reordered   *)
(* or lost; the newest one kept per worker; and the supervision cycle that *)
(* judges every worker, restarts the unhealthy ones, fills the pool, and   *)
(* escalates.                                                              *)
(*                                                                         *)
(* The cycle runs in two settings.  In the worker pool it first records a  *)
(* healthy heartbeat of its own making for each of its threads, and after  *)
(* the evaluation removes the restarted workers once more.  Fed by the     *)
(* control plane alone ("plane"), as its comments have it, the loop has    *)
(* only what workers send; nothing in the source sets that up.             *)
(*                                                                         *)
(* Timestamps are kept as ages, in units of the check interval.            *)
(***************************************************************************)
EXTENDS Naturals, FiniteSets

CONSTANTS Workers,            \* the threads of the pool: the active ids
          Strangers,          \* other ids that send heartbeats
          Feeds,              \* settings: "pool", "plane"
          Statuses,           \* what a heartbeat may say
          Concurrencies,      \* values of pool_concurrency
          Timeout, Window,    \* heartbeat_timeout, restart_window
          MaxRestarts, MaxWorkerRestarts,
          MaxTransit          \* bound: heartbeats under way

ASSUME SupervisionAssumption ==
  /\ IsFiniteSet(Workers) /\ IsFiniteSet(Strangers) /\ Workers \cap Strangers = {}
  /\ Feeds \subseteq {"pool", "plane"}
  /\ Statuses \subseteq {"healthy", "degraded", "unresponsive"}
  /\ Concurrencies \subseteq Nat
  /\ Timeout \in Nat /\ Window \in Nat
  /\ MaxRestarts \in Nat /\ MaxWorkerRestarts \in Nat /\ MaxTransit \in Nat

Known == Workers \cup Strangers

(* Past the limit they are compared with, ages are the same. *)
Ages(limit) == 0 .. limit + 1
Older(a, limit) == IF a > limit THEN a ELSE a + 1

Beat == [status : Statuses \cup {"healthy"}, age : Ages(Timeout)]
Silent == [status |-> "none"]

VARIABLES
  feed, concurrency,  \* the setting; never changes
  alive,              \* threads of the pool that still run
  transit,            \* heartbeats sent, not collected
  beats,              \* SupervisorLoop._heartbeats; Silent: no entry
  stamps,             \* _restart_timestamps, at most one per cycle
  counts,             \* _worker_restart_counts
  decision,           \* what the last evaluation decided
  turn,               \* what the supervisor does next
  heard, restarts     \* history: the newest heartbeat that arrived since the
                      \* worker was last removed (with no pool to vouch); ages
                      \* of the cycles with restarts, those within the window

setting == <<feed, concurrency>>
loop == <<beats, stamps, counts, decision>>
vars == <<setting, alive, transit, loop, turn, heard, restarts>>

Decision == [restarts : SUBSET Known, fill : Nat,
             escalations : SUBSET {"burst", "worker", "global"}]
Nothing == [restarts |-> {}, fill |-> 0, escalations |-> {}]

(* The tables of the loop and the heartbeats under way are well-formed, and a
   recorded restart is not older than the window once a cycle has pruned. *)
TypeOK ==
  /\ feed \in Feeds /\ concurrency \in Concurrencies
  /\ alive \subseteq Workers
  /\ transit \subseteq [worker : Known, status : Statuses, age : Ages(Timeout)]
  /\ Cardinality(transit) =< MaxTransit
  /\ beats \in [Known -> Beat \cup {Silent}]
  /\ stamps \subseteq Ages(Window)
  /\ counts \in [Known -> 0 .. MaxWorkerRestarts]
  /\ decision \in Decision
  /\ turn \in {"wait", "evaluate", "apply"}
  /\ heard \in [Known -> Beat \cup {Silent}]
  /\ restarts \subseteq 0 .. Window

Init ==
  /\ feed \in Feeds /\ concurrency \in Concurrencies
  /\ alive = Workers
  /\ transit = {}
  /\ beats = [w \in Known |-> Silent]
  /\ stamps = {}
  /\ counts = [w \in Known |-> 0]
  /\ decision = Nothing
  /\ turn = "evaluate"
  /\ heard = [w \in Known |-> Silent]
  /\ restarts = {}
-----------------------------------------------------------------------------
(* Workers and the network between them and the control plane. *)

(* A running worker, or somebody else, sends a heartbeat, stamped now. *)
Send(w, s) ==
  /\ w \in alive \cup Strangers
  /\ Cardinality(transit) < MaxTransit
  /\ transit' = transit \cup {[worker |-> w, status |-> s, age |-> 0]}
  /\ UNCHANGED <<setting, alive, loop, turn, heard, restarts>>

KeptLatest(b, old) == b

(* collect_heartbeat keeps a heartbeat that is newer than the one it has. *)
Newer(b, old) == old = Silent \/ b.age < old.age
Kept(b, old) == IF Newer(b, old) THEN b ELSE old

(* accept_worker_heartbeat: a heartbeat reaches the loop, in any order. *)
Accept(m) ==
  LET b == [status |-> m.status, age |-> m.age] IN
  /\ m \in transit
  /\ transit' = transit \ {m}
  /\ beats' = [beats EXCEPT ![m.worker] = Kept(b, @)]
  /\ heard' = [heard EXCEPT ![m.worker] =
                 IF feed = "plane" /\ (@ = Silent \/ b.age < @.age) THEN b ELSE @]
  /\ UNCHANGED <<setting, alive, stamps, counts, decision, turn, restarts>>

(* It never does. *)
Lose(m) ==
  /\ m \in transit
  /\ transit' = transit \ {m}
  /\ UNCHANGED <<setting, alive, loop, turn, heard, restarts>>

(* The handler raises in WorkerThread.run: the thread is gone for good. *)
Die(w) ==
  /\ w \in alive
  /\ alive' = alive \ {w}
  /\ UNCHANGED <<setting, transit, loop, turn, heard, restarts>>
-----------------------------------------------------------------------------
(* The supervision cycle. *)

(* evaluate_health: a heartbeat that is not too old counts as healthy unless it
   says degraded, also one that says unresponsive. *)
Health(b) ==
  CASE b = Silent -> "unresponsive"
    [] b # Silent /\ b.age > Timeout -> "unresponsive"
    [] b # Silent /\ b.age =< Timeout /\ b.status = "degraded" -> "degraded"
    [] OTHER -> "healthy"

(* The pool vouches for each of its threads before it asks. *)
Fed == IF feed = "pool"
       THEN [w \in Known |-> IF w \in Workers
                             THEN Kept([status |-> "healthy", age |-> 0], beats[w])
                             ELSE beats[w]]
       ELSE beats

(* _evaluate_all_health: everyone heard from, and the active ones. *)
Judged == {w \in Known : Fed[w] # Silent} \cup Workers
Unhealthy == {w \in Judged : Health(Fed[w]) # "healthy"}

(* Empty slots, and one more for each worker about to be replaced. *)
Fill == LET lost == concurrency + Cardinality(Unhealthy) IN
        IF lost > Cardinality(Workers) THEN lost - Cardinality(Workers) ELSE 0

RecordedStrict == {a \in stamps \cup {0} : a < Window}

(* _record_restarts: one entry for a cycle, whatever it restarts. *)
Recorded == {a \in stamps \cup {0} : a =< Window}

CountedKept == [w \in Known |-> IF w \in Unhealthy THEN counts[w] + 1 ELSE counts[w]]

(* _schedule_restart counts the restart of a worker, then removes the worker
   with its count. *)
Counted == [w \in Known |-> IF w \in Unhealthy THEN 0 ELSE counts[w]]

Escalations ==
  {e \in {"burst", "worker", "global"} :
    \/ e = "burst" /\ Cardinality(Recorded) > MaxRestarts
    \/ e = "worker" /\ \E w \in Known : Counted[w] > MaxWorkerRestarts}

Stopped == Workers # {} /\ \A w \in Judged : Health(Fed[w]) # "healthy"

Evaluate ==
  LET acts == Unhealthy # {} \/ Fill > 0 IN
  /\ turn = "evaluate"
  /\ beats' = [w \in Known |-> IF w \in Unhealthy THEN Silent ELSE Fed[w]]
  /\ counts' = Counted
  /\ stamps' = IF acts THEN Recorded ELSE stamps
  /\ decision' = [restarts |-> Unhealthy, fill |-> Fill,
                  escalations |-> (IF acts THEN Escalations ELSE {})
                                    \cup (IF Stopped THEN {"global"} ELSE {})]
  /\ turn' = IF feed = "pool" THEN "apply" ELSE "wait"
  /\ heard' = [w \in Known |-> IF w \in Unhealthy THEN Silent ELSE heard[w]]
  /\ restarts' = IF acts THEN restarts \cup {0} ELSE restarts
  /\ UNCHANGED <<setting, alive, transit>>

(* _apply_decision: the pool removes the restarted workers from the loop, with
   whatever has arrived from them since the evaluation. *)
Apply ==
  /\ turn = "apply"
  /\ beats' = [w \in Known |-> IF w \in decision.restarts THEN Silent ELSE beats[w]]
  /\ counts' = [w \in Known |-> IF w \in decision.restarts THEN 0 ELSE counts[w]]
  /\ heard' = [w \in Known |-> IF w \in decision.restarts THEN Silent ELSE heard[w]]
  /\ turn' = "wait"
  /\ UNCHANGED <<setting, alive, transit, stamps, decision, restarts>>

(* The check interval goes by: everything is older. *)
Tick ==
  LET aged(b) == IF b = Silent THEN b ELSE [b EXCEPT !.age = Older(@, Timeout)] IN
  /\ turn = "wait"
  /\ turn' = "evaluate"
  /\ transit' = {[m EXCEPT !.age = Older(@, Timeout)] : m \in transit}
  /\ beats' = [w \in Known |-> aged(beats[w])]
  /\ heard' = [w \in Known |-> aged(heard[w])]
  /\ stamps' = {Older(a, Window) : a \in stamps}
  /\ restarts' = {a + 1 : a \in restarts \ {Window}}
  /\ UNCHANGED <<setting, alive, counts, decision>>
-----------------------------------------------------------------------------
Next ==
  \/ \E w \in Known, s \in Statuses : Send(w, s)
  \/ \E m \in transit : Accept(m) \/ Lose(m)
  \/ \E w \in Workers : Die(w)
  \/ Evaluate
  \/ Apply
  \/ Tick

Spec == Init /\ [][Next]_vars

(* Time goes by and the supervisor's thread runs.  Nothing is assumed of the
   workers or of the network. *)
FairSpec == Spec /\ WF_vars(Evaluate) /\ WF_vars(Apply) /\ WF_vars(Tick)
-----------------------------------------------------------------------------
(* Properties. *)

Evaluated == turn = "evaluate" /\ turn' # "evaluate"
Fit(w) == heard[w] # Silent /\ heard[w].age =< Timeout /\ heard[w].status # "degraded"

(* Fed by the workers alone, whatever is delayed, lost or overtaken on the way,
   an evaluation restarts exactly the workers whose newest heartbeat since they
   were last removed is too old or says degraded, and the active ones with none
   at all; so an id outside the pool is restarted once for each time it is heard
   (supervisor_loop.py:278, 330-341, 535). *)
RestartsMatchBeats ==
  [][Evaluated /\ feed = "plane" =>
      decision'.restarts = {w \in Known : /\ ~Fit(w)
                                          /\ w \in Workers \/ heard[w] # Silent}]_vars

(* An evaluation that restarts anything reports a burst exactly when more cycles
   than allowed restarted something within the window, this one included: cycles
   that pass without a restart neither hide nor add one
   (supervisor_loop.py:389, 548-562, 584). *)
BurstCounted ==
  [][Evaluated =>
      (("burst" \in decision'.escalations) <=>
        (/\ 0 \in restarts'
         /\ Cardinality(restarts') > MaxRestarts))]_vars

(* What WORKER_POOL.md:104 and LIFECYCLE.md:87-90 say of a worker that crashes: the
   supervisor detects the missing heartbeat and decides to restart it.  The pool, the
   only caller of evaluate, vouches for every thread on its list first
   (pool.py:196), and a dead thread stays on it. *)
DeathIsDetected == \A w \in Workers : w \notin alive ~> w \in decision.restarts
-----------------------------------------------------------------------------
(* What the loop would notice of a death, if it were fed by the workers alone. *)

(* No heartbeat of a worker, kept or under way, is younger than k intervals. *)
SilentFor(w, k) ==
  /\ beats[w] # Silent => beats[w].age >= k
  /\ \A m \in transit : m.worker = w => m.age >= k

(* Each of the last k cycles restarted something. *)
Streak(k) == IF turn = "evaluate" THEN 1 .. k \subseteq restarts
                                  ELSE 0 .. k - 1 \subseteq restarts

Ticked == turn # "evaluate" /\ turn' = "evaluate"
Spell(w, k) == SilentFor(w, k) => IF Ticked THEN SilentFor(w, k + 1)' ELSE SilentFor(w, k)'

(* Fed by the workers alone, and whatever its own late heartbeats, the network and
   the other workers do, a dead pool thread is silent for one interval more at every
   tick.  Silent for longer than the timeout it stays so, every cycle restarts
   something, and the one after MaxRestarts such cycles in a row reports a burst, if
   the window holds them (supervisor_loop.py:331-392, 548-562, 584). *)
DeathIsNoticed ==
  [][feed = "plane" => \A w \in Workers \ alive :
      /\ \A k \in 0 .. Timeout : Spell(w, k)
      /\ SilentFor(w, Timeout + 1) =>
           /\ SilentFor(w, Timeout + 1)'
           /\ \A k \in 0 .. Window : Streak(k) =>
                IF Evaluated
                THEN /\ Streak(k + 1)'
                     /\ k >= MaxRestarts => "burst" \in decision'.escalations
                ELSE Streak(k)']_vars
=============================================================================
