----------------------- MODULE WorkerSupervision_proofs -----------------------
(***************************************************************************)
(* Proofs about WorkerSupervision, for any workers, limits and number of   *)
(* heartbeats under way.                                                   *)
(***************************************************************************)
EXTENDS WorkerSupervision, FiniteSetTheorems, TLAPS

(* With nobody to vouch for a worker, what the loop knows is what has arrived. *)
HeardInv == feed = "plane" => heard = beats

(* The recorded restarts within the window are those that happened, and the one
   of this moment comes with the evaluation. *)
StampInv ==
  /\ restarts = {a \in stamps : a =< Window}
  /\ turn = "evaluate" => 0 \notin restarts

(* What every step preserves. *)
IndInv == TypeOK /\ IsFiniteSet(transit) /\ HeardInv /\ StampInv

-----------------------------------------------------------------------------
(* A heartbeat says something: it is not Silent. *)
LEMMA BeatSpeaks == Silent \notin Beat
<1> SUFFICES ASSUME Silent \in Beat PROVE FALSE
  OBVIOUS
<1>1. Silent.status = "none"
  BY DEF Silent
<1>2. Silent.status \in Statuses \cup {"healthy"}
  BY DEF Beat
<1> QED
  BY <1>1, <1>2, SupervisionAssumption

LEMMA OlderType ==
  ASSUME NEW limit \in Nat, NEW a \in Ages(limit)
  PROVE  /\ Older(a, limit) \in Ages(limit)
         /\ Older(a, limit) # 0
         /\ Older(a, limit) =< limit <=> a < limit
         /\ a < limit => Older(a, limit) = a + 1
BY DEF Older, Ages

(* Where the tables of heartbeats are well-formed, so is what the pool makes of
   them, and what is kept of two heartbeats. *)
LEMMA KeptType ==
  ASSUME NEW b \in Beat, NEW old \in Beat \cup {Silent}
  PROVE  Kept(b, old) \in Beat
BY DEF Kept, Newer

LEMMA FedType ==
  ASSUME TypeOK
  PROVE  Fed \in [Known -> Beat \cup {Silent}]
<1>1. [status |-> "healthy", age |-> 0] \in Beat
  BY SupervisionAssumption DEF Beat, Ages
<1>2. beats \in [Known -> Beat \cup {Silent}]
  BY DEF TypeOK
<1>3. \A w \in Known : Kept([status |-> "healthy", age |-> 0], beats[w]) \in Beat
  BY <1>1, <1>2, KeptType
<1>4. \A w \in Known : (IF w \in Workers THEN Kept([status |-> "healthy", age |-> 0], beats[w])
                                             ELSE beats[w]) \in Beat \cup {Silent}
  BY <1>2, <1>3
<1>5. CASE feed = "pool"
  BY <1>4, <1>5 DEF Fed
<1>6. CASE feed # "pool"
  BY <1>2, <1>6 DEF Fed
<1> QED
  BY <1>5, <1>6

(* Only known ids are judged, and there are finitely many. *)
LEMMA JudgedFinite ==
  /\ Judged \subseteq Known /\ Unhealthy \subseteq Known
  /\ IsFiniteSet(Unhealthy) /\ Cardinality(Unhealthy) \in Nat
  /\ Cardinality(Workers) \in Nat
<1>1. Judged \subseteq Known /\ Unhealthy \subseteq Known
  BY DEF Judged, Unhealthy, Known
<1>2. IsFiniteSet(Known)
  BY SupervisionAssumption, FS_Union DEF Known
<1>3. IsFiniteSet(Unhealthy)
  BY <1>1, <1>2, FS_Subset
<1> QED
  BY <1>1, <1>3, SupervisionAssumption, FS_CardinalityType

LEMMA FillType == ASSUME TypeOK PROVE Fill \in Nat
<1>1. concurrency \in Nat
  BY SupervisionAssumption DEF TypeOK
<1> QED
  BY <1>1, JudgedFinite DEF Fill

(* What an aged table is made of. *)
LEMMA AgedType ==
  ASSUME NEW b \in Beat
  PROVE  [b EXCEPT !.age = Older(@, Timeout)] \in Beat
<1>1. b.age \in Ages(Timeout) /\ b = [status |-> b.status, age |-> b.age]
  BY DEF Beat
<1>2. Older(b.age, Timeout) \in Ages(Timeout)
  BY <1>1, OlderType, SupervisionAssumption
<1> QED
  BY <1>1, <1>2 DEF Beat

-----------------------------------------------------------------------------
(* The initial states satisfy the invariant: nobody has been heard. *)
THEOREM Initial == Init => IndInv
<1> SUFFICES ASSUME Init PROVE IndInv
  OBVIOUS
<1>1. IsFiniteSet(transit) /\ Cardinality(transit) = 0
  BY FS_EmptySet DEF Init
<1>2. TypeOK
  BY <1>1, SupervisionAssumption DEF Init, TypeOK, Decision, Nothing, Ages
<1>3. HeardInv /\ StampInv
  BY DEF Init, HeardInv, StampInv
<1> QED
  BY <1>1, <1>2, <1>3 DEF IndInv

LEMMA SendStep ==
  ASSUME IndInv, NEW w \in Known, NEW s \in Statuses, Send(w, s)
  PROVE  IndInv'
<1> DEFINE m == [worker |-> w, status |-> s, age |-> 0]
<1>1. IsFiniteSet(transit) /\ Cardinality(transit) \in Nat /\ Cardinality(transit) < MaxTransit
  BY FS_CardinalityType DEF IndInv, Send
<1>2. IsFiniteSet(transit') /\ Cardinality(transit') =< MaxTransit
  <2>1. transit' = transit \cup {m}
    BY DEF Send
  <2> HIDE DEF m
  <2>2. /\ IsFiniteSet(transit \cup {m})
        /\ Cardinality(transit \cup {m})
             = IF m \in transit THEN Cardinality(transit) ELSE Cardinality(transit) + 1
    BY <1>1, FS_AddElement
  <2> QED
    BY <1>1, <2>1, <2>2, SupervisionAssumption
<1>3. m \in [worker : Known, status : Statuses, age : Ages(Timeout)]
  BY SupervisionAssumption DEF Ages
<1>4. TypeOK'
  BY <1>2, <1>3 DEF IndInv, TypeOK, Send, setting, loop
<1>5. HeardInv' /\ StampInv'
  BY DEF IndInv, HeardInv, StampInv, Send, setting, loop
<1> QED
  BY <1>2, <1>4, <1>5 DEF IndInv

(* Taking a heartbeat out of those under way. *)
LEMMA TransitLess ==
  ASSUME IndInv, NEW m \in transit, transit' = transit \ {m}
  PROVE  /\ IsFiniteSet(transit') /\ Cardinality(transit') =< MaxTransit
         /\ transit' \subseteq [worker : Known, status : Statuses, age : Ages(Timeout)]
<1>1. IsFiniteSet(transit) /\ Cardinality(transit) \in Nat /\ Cardinality(transit) =< MaxTransit
  BY FS_CardinalityType DEF IndInv, TypeOK
<1>2. IsFiniteSet(transit \ {m}) /\ Cardinality(transit \ {m}) = Cardinality(transit) - 1
  BY <1>1, FS_RemoveElement
<1> QED
  BY <1>1, <1>2, SupervisionAssumption DEF IndInv, TypeOK

LEMMA AcceptStep ==
  ASSUME IndInv, NEW m \in transit, Accept(m)
  PROVE  IndInv'
<1> DEFINE b == [status |-> m.status, age |-> m.age]
<1>1. /\ m.worker \in Known /\ b \in Beat
  BY DEF IndInv, TypeOK, Beat
<1>2. /\ transit' = transit \ {m}
      /\ beats' = [beats EXCEPT ![m.worker] = Kept(b, @)]
      /\ heard' = [heard EXCEPT ![m.worker] =
                     IF feed = "plane" /\ (@ = Silent \/ b.age < @.age) THEN b ELSE @]
      /\ UNCHANGED <<feed, concurrency, alive, stamps, counts, decision, turn, restarts>>
  BY DEF Accept, setting
<1> HIDE DEF b
<1>3. TypeOK'
  <2>1. beats \in [Known -> Beat \cup {Silent}] /\ heard \in [Known -> Beat \cup {Silent}]
    BY DEF IndInv, TypeOK
  <2>2. beats' \in [Known -> Beat \cup {Silent}]
    BY <1>1, <1>2, <2>1, KeptType
  <2>3. heard' \in [Known -> Beat \cup {Silent}]
    BY <1>1, <1>2, <2>1
  <2> QED
    BY <1>2, <2>2, <2>3, TransitLess DEF IndInv, TypeOK
<1>4. HeardInv'
  <2>1. SUFFICES ASSUME feed = "plane" PROVE heard' = beats'
    BY <1>2 DEF HeardInv
  <2>2. heard = beats
    BY <2>1 DEF IndInv, HeardInv
  <2> QED
    BY <1>2, <2>1, <2>2 DEF Kept, Newer
<1>5. StampInv'
  BY <1>2 DEF IndInv, StampInv
<1> QED
  BY <1>2, <1>3, <1>4, <1>5, TransitLess DEF IndInv

LEMMA LoseStep ==
  ASSUME IndInv, NEW m \in transit, Lose(m)
  PROVE  IndInv'
<1>1. TypeOK' /\ IsFiniteSet(transit')
  BY TransitLess DEF IndInv, TypeOK, Lose, setting, loop
<1>2. HeardInv' /\ StampInv'
  BY DEF IndInv, HeardInv, StampInv, Lose, setting, loop
<1> QED
  BY <1>1, <1>2 DEF IndInv

LEMMA DieStep ==
  ASSUME IndInv, NEW w \in Workers, Die(w)
  PROVE  IndInv'
<1>1. TypeOK'
  BY DEF IndInv, TypeOK, Die, setting, loop
<1>2. HeardInv' /\ StampInv' /\ IsFiniteSet(transit')
  BY DEF IndInv, HeardInv, StampInv, Die, setting, loop
<1> QED
  BY <1>1, <1>2 DEF IndInv

(* The restarts an evaluation records are those within the window. *)
LEMMA RecordedFacts ==
  ASSUME IndInv
  PROVE  /\ Recorded = restarts \cup {0}
         /\ Recorded \subseteq 0 .. Window
BY SupervisionAssumption DEF IndInv, TypeOK, StampInv, Recorded, Ages

LEMMA EvaluateStep ==
  ASSUME IndInv, Evaluate
  PROVE  IndInv'
<1> DEFINE acts == Unhealthy # {} \/ Fill > 0
<1>1. /\ beats' = [w \in Known |-> IF w \in Unhealthy THEN Silent ELSE Fed[w]]
      /\ counts' = Counted
      /\ stamps' = IF acts THEN Recorded ELSE stamps
      /\ decision' = [restarts |-> Unhealthy, fill |-> Fill,
                      escalations |-> (IF acts THEN Escalations ELSE {})
                                        \cup (IF Stopped THEN {"global"} ELSE {})]
      /\ turn' = IF feed = "pool" THEN "apply" ELSE "wait"
      /\ heard' = [w \in Known |-> IF w \in Unhealthy THEN Silent ELSE heard[w]]
      /\ restarts' = IF acts THEN restarts \cup {0} ELSE restarts
      /\ UNCHANGED <<feed, concurrency, alive, transit>>
  BY DEF Evaluate, setting
<1>2. TypeOK'
  <2>1. beats' \in [Known -> Beat \cup {Silent}]
    BY <1>1, FedType DEF IndInv
  <2>2. heard' \in [Known -> Beat \cup {Silent}]
    BY <1>1 DEF IndInv, TypeOK
  <2>3. counts' \in [Known -> 0 .. MaxWorkerRestarts]
    BY <1>1, SupervisionAssumption DEF IndInv, TypeOK, Counted
  <2>4. stamps' \subseteq Ages(Window) /\ restarts' \subseteq 0 .. Window
    <3> HIDE DEF acts
    <3>1. stamps \subseteq Ages(Window) /\ restarts \subseteq 0 .. Window
      BY DEF IndInv, TypeOK
    <3>2. Recorded \subseteq Ages(Window) /\ 0 \in 0 .. Window
      BY RecordedFacts, SupervisionAssumption DEF Ages
    <3> QED
      BY <1>1, <3>1, <3>2
  <2>5. decision' \in Decision
    <3>1. Unhealthy \in SUBSET Known /\ Fill \in Nat
      BY JudgedFinite, FillType DEF IndInv
    <3>2. (IF acts THEN Escalations ELSE {}) \cup (IF Stopped THEN {"global"} ELSE {})
            \in SUBSET {"burst", "worker", "global"}
      BY DEF Escalations
    <3> HIDE DEF acts
    <3> QED
      BY <1>1, <3>1, <3>2 DEF Decision
  <2> QED
    BY <1>1, <2>1, <2>2, <2>3, <2>4, <2>5 DEF IndInv, TypeOK
<1>3. HeardInv'
  <2>1. SUFFICES ASSUME feed = "plane" PROVE heard' = beats'
    BY <1>1 DEF HeardInv
  <2>2. heard = beats /\ Fed = beats
    BY <2>1 DEF IndInv, HeardInv, Fed
  <2> QED
    BY <1>1, <2>2
<1>4. StampInv'
  <2>1. turn' # "evaluate"
    BY <1>1
  <2>2. restarts' = {a \in stamps' : a =< Window}
    <3>1. CASE acts
      BY <1>1, <3>1, RecordedFacts
    <3>2. CASE ~acts
      BY <1>1, <3>2 DEF IndInv, StampInv
    <3> QED
      BY <3>1, <3>2
  <2> QED
    BY <2>1, <2>2 DEF StampInv
<1>5. IsFiniteSet(transit')
  BY <1>1 DEF IndInv
<1> QED
  BY <1>2, <1>3, <1>4, <1>5 DEF IndInv

LEMMA ApplyStep ==
  ASSUME IndInv, Apply
  PROVE  IndInv'
<1>1. TypeOK'
  BY SupervisionAssumption DEF IndInv, TypeOK, Apply, setting
<1>2. HeardInv'
  BY DEF IndInv, HeardInv, Apply, setting
<1>3. StampInv' /\ IsFiniteSet(transit')
  BY DEF IndInv, StampInv, Apply, setting
<1> QED
  BY <1>1, <1>2, <1>3 DEF IndInv

(* Time makes every heartbeat under way older, and no more of them. *)
LEMMA TransitAges ==
  ASSUME IndInv, transit' = {[m EXCEPT !.age = Older(@, Timeout)] : m \in transit}
  PROVE  /\ IsFiniteSet(transit') /\ Cardinality(transit') =< MaxTransit
         /\ transit' \subseteq [worker : Known, status : Statuses, age : Ages(Timeout)]
<1> DEFINE g == [m \in transit |-> [m EXCEPT !.age = Older(@, Timeout)]]
<1>1. g \in Surjection(transit, transit')
  BY DEF Surjection
<1>2. IsFiniteSet(transit)
  BY DEF IndInv
<1>3. IsFiniteSet(transit') /\ Cardinality(transit') =< Cardinality(transit)
  <2> HIDE DEF g
  <2> QED
    BY <1>1, <1>2, FS_Surjection
<1>4. /\ Cardinality(transit) \in Nat /\ Cardinality(transit') \in Nat
      /\ Cardinality(transit) =< MaxTransit
  BY <1>2, <1>3, FS_CardinalityType DEF IndInv, TypeOK
<1>5. ASSUME NEW m \in transit
      PROVE  [m EXCEPT !.age = Older(@, Timeout)]
               \in [worker : Known, status : Statuses, age : Ages(Timeout)]
  <2>1. m \in [worker : Known, status : Statuses, age : Ages(Timeout)]
    BY DEF IndInv, TypeOK
  <2>2. Older(m.age, Timeout) \in Ages(Timeout)
    BY <2>1, OlderType, SupervisionAssumption
  <2> QED
    BY <2>1, <2>2
<1> QED
  BY <1>3, <1>4, <1>5, SupervisionAssumption

LEMMA TickStep ==
  ASSUME IndInv, Tick
  PROVE  IndInv'
<1> DEFINE aged(b) == IF b = Silent THEN b ELSE [b EXCEPT !.age = Older(@, Timeout)]
<1>1. /\ turn' = "evaluate"
      /\ transit' = {[m EXCEPT !.age = Older(@, Timeout)] : m \in transit}
      /\ beats' = [w \in Known |-> aged(beats[w])]
      /\ heard' = [w \in Known |-> aged(heard[w])]
      /\ stamps' = {Older(a, Window) : a \in stamps}
      /\ restarts' = {a + 1 : a \in restarts \ {Window}}
      /\ UNCHANGED <<feed, concurrency, alive, counts, decision>>
  BY DEF Tick, setting
<1>2. \A b \in Beat \cup {Silent} : aged(b) \in Beat \cup {Silent}
  BY AgedType
<1> HIDE DEF aged
<1>3. /\ stamps' \subseteq Ages(Window) /\ restarts' \subseteq 0 .. Window
      /\ 0 \notin restarts'
  <2>1. \A a \in stamps : a \in Ages(Window)
    BY DEF IndInv, TypeOK
  <2>2. stamps' \subseteq Ages(Window)
    BY <1>1, <2>1, OlderType, SupervisionAssumption
  <2>3. restarts \subseteq 0 .. Window
    BY DEF IndInv, TypeOK
  <2> QED
    BY <1>1, <2>2, <2>3, SupervisionAssumption
<1>4. restarts' = {a \in stamps' : a =< Window}
  <2>1. restarts = {a \in stamps : a =< Window} /\ stamps \subseteq Ages(Window)
    BY DEF IndInv, StampInv, TypeOK
  <2>2. ASSUME NEW a \in restarts'
        PROVE  a \in stamps' /\ a =< Window
    <3>1. PICK c \in restarts \ {Window} : a = c + 1
      BY <1>1
    <3>2. c \in stamps /\ c \in Ages(Window) /\ c < Window
      BY <2>1, <3>1, SupervisionAssumption DEF Ages
    <3>3. Older(c, Window) = a /\ Older(c, Window) =< Window
      BY <3>1, <3>2, OlderType, SupervisionAssumption
    <3> QED
      BY <1>1, <3>2, <3>3
  <2>3. ASSUME NEW a \in stamps', a =< Window
        PROVE  a \in restarts'
    <3>1. PICK c \in stamps : a = Older(c, Window)
      BY <1>1
    <3>2. c \in Ages(Window)
      BY <2>1
    <3>3. c < Window /\ a = c + 1
      BY <2>3, <3>1, <3>2, OlderType, SupervisionAssumption
    <3>4. c \in restarts \ {Window}
      BY <2>1, <3>2, <3>3, SupervisionAssumption DEF Ages
    <3> QED
      BY <1>1, <3>3, <3>4
  <2> QED
    BY <2>2, <2>3
<1>5. TypeOK'
  <2>1. beats' \in [Known -> Beat \cup {Silent}] /\ heard' \in [Known -> Beat \cup {Silent}]
    BY <1>1, <1>2 DEF IndInv, TypeOK
  <2> QED
    BY <1>1, <1>3, <2>1, TransitAges DEF IndInv, TypeOK
<1>6. HeardInv'
  BY <1>1 DEF IndInv, HeardInv
<1> QED
  BY <1>1, <1>3, <1>4, <1>5, <1>6, TransitAges DEF IndInv, StampInv

(* Every step preserves the invariant. *)
THEOREM Inductive == IndInv /\ [Next]_vars => IndInv'
<1> SUFFICES ASSUME IndInv, [Next]_vars PROVE IndInv'
  OBVIOUS
<1>1. ASSUME NEW w \in Known, NEW s \in Statuses, Send(w, s) PROVE IndInv'
  BY <1>1, SendStep
<1>2. ASSUME NEW m \in transit, Accept(m) \/ Lose(m) PROVE IndInv'
  BY <1>2, AcceptStep, LoseStep
<1>3. ASSUME NEW w \in Workers, Die(w) PROVE IndInv'
  BY <1>3, DieStep
<1>4. CASE Evaluate
  BY <1>4, EvaluateStep
<1>5. CASE Apply
  BY <1>5, ApplyStep
<1>6. CASE Tick
  BY <1>6, TickStep
<1>7. CASE UNCHANGED vars
  BY <1>7 DEF IndInv, TypeOK, HeardInv, StampInv, vars, setting, loop
<1> QED
  BY <1>1, <1>2, <1>3, <1>4, <1>5, <1>6, <1>7 DEF Next

(* The invariant holds in every reachable state. *)
THEOREM Invariance == Spec => []IndInv
<1>1. Init => IndInv
  BY Initial
<1>2. IndInv /\ [Next]_vars => IndInv'
  BY Inductive
<1> QED
  BY <1>1, <1>2, PTL DEF Spec

(* The loop's tables and the heartbeats under way are always well-formed. *)
THEOREM TypeCorrect == Spec => []TypeOK
<1>1. IndInv => TypeOK
  BY DEF IndInv
<1> QED
  BY <1>1, Invariance, PTL

-----------------------------------------------------------------------------
(* Only an evaluation ends the turn to evaluate. *)
LEMMA OnlyEvaluate ==
  ASSUME [Next]_vars, Evaluated
  PROVE  Evaluate
<1>1. turn' # turn
  BY DEF Evaluated
<1> QED
  BY <1>1 DEF Next, Evaluated, Send, Accept, Lose, Die, Apply, Tick, vars

(* Whatever heartbeats are delayed, lost or overtaken, an evaluation fed by the
   workers restarts those whose newest heartbeat is not fit, and the active ones
   never heard, and nobody else. *)
THEOREM RestartsFollowBeats == Spec => RestartsMatchBeats
<1>1. ASSUME IndInv, [Next]_vars, Evaluated, feed = "plane"
      PROVE  decision'.restarts = {w \in Known : /\ ~Fit(w)
                                                 /\ w \in Workers \/ heard[w] # Silent}
  <2>1. Evaluate
    BY <1>1, OnlyEvaluate
  <2>2. decision'.restarts = Unhealthy
    BY <2>1 DEF Evaluate
  <2>3. Fed = heard
    BY <1>1 DEF IndInv, HeardInv, Fed
  <2>4. ASSUME NEW w \in Known
        PROVE  (Health(heard[w]) # "healthy") <=> ~Fit(w)
    <3>1. heard[w] \in Beat \cup {Silent}
      BY <1>1 DEF IndInv, TypeOK
    <3>2. heard[w] # Silent => heard[w].age \in Nat /\ Timeout \in Nat
      BY <3>1, SupervisionAssumption DEF Beat, Ages
    <3> QED
      BY <3>2 DEF Health, Fit
  <2>5. Workers \subseteq Known
    BY DEF Known
  <2> QED
    BY <2>2, <2>3, <2>4, <2>5 DEF Unhealthy, Judged
<1>2. IndInv /\ [Next]_vars =>
        [Evaluated /\ feed = "plane" =>
          decision'.restarts = {w \in Known : /\ ~Fit(w)
                                              /\ w \in Workers \/ heard[w] # Silent}]_vars
  BY <1>1
<1> QED
  BY <1>2, Invariance, PTL DEF Spec, RestartsMatchBeats

(* A burst is reported exactly when too many cycles restarted something within
   the window. *)
THEOREM BurstsAreCounted == Spec => BurstCounted
<1>1. ASSUME IndInv, [Next]_vars, Evaluated
      PROVE  ("burst" \in decision'.escalations) <=>
               (0 \in restarts' /\ Cardinality(restarts') > MaxRestarts)
  <2> DEFINE acts == Unhealthy # {} \/ Fill > 0
  <2>1. Evaluate
    BY <1>1, OnlyEvaluate
  <2>2. /\ decision'.escalations = (IF acts THEN Escalations ELSE {})
                                     \cup (IF Stopped THEN {"global"} ELSE {})
        /\ restarts' = IF acts THEN restarts \cup {0} ELSE restarts
    BY <2>1 DEF Evaluate
  <2>3. 0 \notin restarts
    BY <1>1, <2>1 DEF IndInv, StampInv, Evaluate
  <2>4. CASE acts
    <3>1. restarts' = Recorded /\ 0 \in restarts'
      BY <1>1, <2>2, <2>4, RecordedFacts
    <3>2. "burst" \in Escalations <=> Cardinality(Recorded) > MaxRestarts
      BY DEF Escalations
    <3> QED
      BY <2>2, <2>4, <3>1, <3>2
  <2>5. CASE ~acts
    BY <2>2, <2>3, <2>5
  <2> QED
    BY <2>4, <2>5
<1>2. IndInv /\ [Next]_vars =>
        [Evaluated => (("burst" \in decision'.escalations) <=>
           (0 \in restarts' /\ Cardinality(restarts') > MaxRestarts))]_vars
  BY <1>1
<1> QED
  BY <1>2, Invariance, PTL DEF Spec, BurstCounted

-----------------------------------------------------------------------------
(* Deaths. *)
LEMMA OlderFacts ==
  ASSUME NEW a \in Nat, NEW k \in Nat, a >= k, k =< Timeout
  PROVE  Older(a, Timeout) >= k + 1
BY SupervisionAssumption DEF Older

LEMMA OlderStays ==
  ASSUME NEW a \in Nat, a >= Timeout + 1
  PROVE  Older(a, Timeout) >= Timeout + 1
BY SupervisionAssumption DEF Older

LEMMA SilenceTyped ==
  ASSUME TypeOK
  PROVE  /\ \A w \in Known : beats[w] # Silent => beats[w] \in Beat /\ beats[w].age \in Nat
         /\ \A m \in transit : m.age \in Nat
<1>1. \A b \in Beat : b.age \in Nat
  BY SupervisionAssumption DEF Beat, Ages
<1>2. \A m \in [worker : Known, status : Statuses, age : Ages(Timeout)] : m.age \in Nat
  BY SupervisionAssumption DEF Ages
<1> QED
  BY <1>1, <1>2 DEF TypeOK

(* What a tick does to the heartbeats. *)
LEMMA TickBeats ==
  ASSUME Tick, TypeOK
  PROVE  /\ \A w \in Known : beats'[w] = IF beats[w] = Silent THEN Silent
                                       ELSE [beats[w] EXCEPT !.age = Older(@, Timeout)]
         /\ \A m \in transit' : \E n \in transit :
              m.worker = n.worker /\ m.age = Older(n.age, Timeout)
<1>1. /\ beats' = [w \in Known |-> IF beats[w] = Silent THEN beats[w]
                                   ELSE [beats[w] EXCEPT !.age = Older(@, Timeout)]]
      /\ transit' = {[m EXCEPT !.age = Older(@, Timeout)] : m \in transit}
  BY DEF Tick
<1>2. ASSUME NEW n \in transit
      PROVE  /\ [n EXCEPT !.age = Older(@, Timeout)].worker = n.worker
             /\ [n EXCEPT !.age = Older(@, Timeout)].age = Older(n.age, Timeout)
  <2>1. n \in [worker : Known, status : Statuses, age : Ages(Timeout)]
    BY DEF TypeOK
  <2> QED
    BY <2>1
<1> QED
  BY <1>1, <1>2

(* A dead worker is silent for an interval more at every tick. *)
LEMMA TickSilence ==
  ASSUME Tick, TypeOK, NEW w \in Known, NEW k \in Nat, SilentFor(w, k)
  PROVE  /\ k =< Timeout => SilentFor(w, k + 1)'
         /\ k = Timeout + 1 => SilentFor(w, k)'
<1>1. ASSUME beats'[w] # Silent
      PROVE  beats[w].age \in Nat /\ beats[w].age >= k
             /\ beats'[w].age = Older(beats[w].age, Timeout)
  <2>1. beats[w] # Silent /\ beats'[w] = [beats[w] EXCEPT !.age = Older(@, Timeout)]
    BY <1>1, TickBeats
  <2>2. beats[w] \in Beat /\ beats[w].age \in Nat
    BY <2>1, SilenceTyped
  <2>3. beats'[w].age = Older(beats[w].age, Timeout)
    BY <2>1, <2>2 DEF Beat
  <2> QED
    BY <2>1, <2>2, <2>3 DEF SilentFor
<1>2. ASSUME NEW m \in transit', m.worker = w
      PROVE  \E a \in Nat : a >= k /\ m.age = Older(a, Timeout)
  <2>1. PICK n \in transit : m.worker = n.worker /\ m.age = Older(n.age, Timeout)
    BY TickBeats
  <2> QED
    BY <2>1, <1>2, SilenceTyped DEF SilentFor
<1>3. ASSUME k =< Timeout
      PROVE  SilentFor(w, k + 1)'
  BY <1>1, <1>2, <1>3, OlderFacts DEF SilentFor
<1>4. ASSUME k = Timeout + 1
      PROVE  SilentFor(w, k)'
  BY <1>1, <1>2, <1>4, OlderStays DEF SilentFor
<1> QED
  BY <1>3, <1>4

(* Nothing else makes it heard: what arrives of it is as old. *)
LEMMA OtherSilence ==
  ASSUME [Next]_vars, ~Tick, IndInv, feed = "plane",
         NEW w \in Workers \ alive, NEW k \in Nat, SilentFor(w, k)
  PROVE  SilentFor(w, k)'
<1>1. w \in Known /\ w \notin Strangers
  BY SupervisionAssumption DEF Known
<1>2. TypeOK /\ HeardInv
  BY DEF IndInv
<1>3. CASE beats'[w] \in {beats[w], Silent} /\ transit' \subseteq transit
  BY <1>3 DEF SilentFor
<1>4. ASSUME NEW v \in Known, NEW s \in Statuses, Send(v, s)
      PROVE  SilentFor(w, k)'
  <2>1. v # w
    BY <1>1, <1>4 DEF Send
  <2>2. beats' = beats /\ transit' = transit \cup {[worker |-> v, status |-> s, age |-> 0]}
    BY <1>4 DEF Send, loop
  <2> QED
    BY <2>1, <2>2 DEF SilentFor
<1>5. ASSUME NEW m \in transit, Accept(m)
      PROVE  SilentFor(w, k)'
  <2> DEFINE b == [status |-> m.status, age |-> m.age]
  <2>1. beats' = [beats EXCEPT ![m.worker] = Kept(b, @)] /\ transit' = transit \ {m}
    BY <1>5 DEF Accept
  <2>2. beats'[w] = IF m.worker = w THEN Kept(b, beats[w]) ELSE beats[w]
    BY <2>1, <1>1, <1>2 DEF TypeOK
  <2>3. Kept(b, beats[w]) \in {b, beats[w]} /\ b.age = m.age
    BY DEF Kept
  <2>4. beats'[w] # Silent => beats'[w].age >= k
    <3>1. CASE beats'[w] = beats[w]
      BY <3>1 DEF SilentFor
    <3>2. CASE m.worker = w /\ beats'[w] = b
      BY <3>2, <2>3 DEF SilentFor
    <3> HIDE DEF b
    <3> QED
      BY <3>1, <3>2, <2>2, <2>3
  <2> QED
    BY <2>1, <2>4 DEF SilentFor
<1>6. ASSUME NEW m \in transit, Lose(m)
      PROVE  SilentFor(w, k)'
  BY <1>6, <1>3 DEF Lose, loop
<1>7. ASSUME NEW v \in Workers, Die(v)
      PROVE  SilentFor(w, k)'
  BY <1>7, <1>3 DEF Die, loop
<1>8. CASE Evaluate
  BY <1>8, <1>3, <1>1 DEF Evaluate, Fed
<1>9. CASE Apply
  BY <1>9, <1>3, <1>1 DEF Apply
<1>10. CASE UNCHANGED vars
  BY <1>10, <1>3 DEF vars, loop
<1> QED
  BY <1>4, <1>5, <1>6, <1>7, <1>8, <1>9, <1>10 DEF Next

(* Only a tick begins a new turn to evaluate. *)
LEMMA OnlyTick ==
  ASSUME [Next]_vars
  PROVE  Ticked <=> Tick
BY DEF Next, Ticked, Tick, Send, Accept, Lose, Die, Apply, Evaluate, vars

LEMMA Streaks ==
  ASSUME [Next]_vars, ~Evaluated, NEW k \in 0 .. Window, Streak(k)
  PROVE  Streak(k)'
<1>0. k \in Nat /\ k =< Window /\ Window \in Nat
  BY SupervisionAssumption
<1>1. CASE Tick
  <2>1. turn = "wait" /\ turn' = "evaluate"
        /\ restarts' = {a + 1 : a \in restarts \ {Window}}
    BY <1>1 DEF Tick
  <2>2. 0 .. k - 1 \subseteq restarts
    BY <2>1 DEF Streak
  <2>3. ASSUME NEW a \in 1 .. k
        PROVE  a \in restarts'
    <3>1. a - 1 \in 0 .. k - 1 /\ a - 1 # Window /\ a = (a - 1) + 1
      BY <1>0, <2>3
    <3> QED
      BY <3>1, <2>1, <2>2
  <2> QED
    BY <2>1, <2>3 DEF Streak
<1>2. CASE ~Tick
  <2>1. restarts' = restarts /\ (turn' = "evaluate" <=> turn = "evaluate")
    BY <1>2 DEF Next, Evaluated, Send, Accept, Lose, Die, Apply, Evaluate, vars
  <2> QED
    BY <2>1 DEF Streak
<1> QED
  BY <1>1, <1>2

(* With a worker silent for longer than the timeout, an evaluation restarts it. *)
LEMMA SilentIsRestarted ==
  ASSUME Evaluate, IndInv, feed = "plane", NEW w \in Workers, SilentFor(w, Timeout + 1)
  PROVE  restarts' = restarts \cup {0}
<1>1. w \in Judged /\ Fed[w] = beats[w] /\ w \in Known
  BY DEF Judged, Fed, Known
<1>2. Health(beats[w]) = "unresponsive"
  <2>1. CASE beats[w] = Silent
    BY <2>1 DEF Health
  <2>2. CASE beats[w] # Silent
    <3>1. beats[w].age \in Nat /\ beats[w].age >= Timeout + 1 /\ Timeout \in Nat
      BY <2>2, <1>1, SilenceTyped, SupervisionAssumption DEF SilentFor, IndInv
    <3>2. beats[w].age > Timeout /\ ~(beats[w].age =< Timeout)
      BY <3>1
    <3> QED
      BY <2>2, <3>2 DEF Health
  <2> QED
    BY <2>1, <2>2
<1>3. w \in Unhealthy
  BY <1>1, <1>2 DEF Unhealthy
<1> QED
  BY <1>3 DEF Evaluate

(* A row of cycles, this one included, is as many restarts within the window. *)
LEMMA RowOfRestarts ==
  ASSUME NEW S \in SUBSET (0 .. Window), NEW k \in Nat, 0 .. k \subseteq S
  PROVE  Cardinality(S) \in Nat /\ Cardinality(S) >= k + 1
<1>1. IsFiniteSet(0 .. Window)
  BY FS_Interval, SupervisionAssumption
<1>2. IsFiniteSet(S)
  BY <1>1, FS_Subset
<1>3. Cardinality(S) \in Nat
  BY <1>2, FS_CardinalityType
<1>4. Cardinality(0 .. k) = k + 1
  BY FS_Interval
<1>5. Cardinality(0 .. k) <= Cardinality(S)
  BY <1>2, FS_Subset
<1> QED
  BY <1>3, <1>4, <1>5

(* The death of a pool thread that the plane alone watches is noticed at every cycle
   once its heartbeats are too old, and reported when enough cycles have. *)
THEOREM DeathsAreNoticed == Spec => DeathIsNoticed
<1> DEFINE Noticed ==
      feed = "plane" => \A w \in Workers \ alive :
        /\ \A k \in 0 .. Timeout : Spell(w, k)
        /\ SilentFor(w, Timeout + 1) =>
             /\ SilentFor(w, Timeout + 1)'
             /\ \A k \in 0 .. Window : Streak(k) =>
                  IF Evaluated
                  THEN /\ Streak(k + 1)'
                       /\ k >= MaxRestarts => "burst" \in decision'.escalations
                  ELSE Streak(k)'
<1>1. ASSUME IndInv, IndInv', [Next]_vars,
             [Evaluated => (("burst" \in decision'.escalations) <=>
                (0 \in restarts' /\ Cardinality(restarts') > MaxRestarts))]_vars
      PROVE  Noticed
  <2> SUFFICES ASSUME feed = "plane", NEW w \in Workers \ alive
               PROVE  /\ \A k \in 0 .. Timeout : Spell(w, k)
                      /\ SilentFor(w, Timeout + 1) =>
                           /\ SilentFor(w, Timeout + 1)'
                           /\ \A k \in 0 .. Window : Streak(k) =>
                                IF Evaluated
                                THEN /\ Streak(k + 1)'
                                     /\ k >= MaxRestarts => "burst" \in decision'.escalations
                                ELSE Streak(k)'
    OBVIOUS
  <2>1. w \in Known /\ TypeOK /\ Timeout \in Nat /\ Window \in Nat /\ MaxRestarts \in Nat
    BY <1>1, SupervisionAssumption DEF Known, IndInv
  <2>2. ASSUME NEW k \in 0 .. Timeout, SilentFor(w, k)
        PROVE  IF Ticked THEN SilentFor(w, k + 1)' ELSE SilentFor(w, k)'
    <3>1. k \in Nat /\ k =< Timeout
      BY <2>1
    <3>2. CASE Tick
      BY <3>1, <3>2, <2>1, <2>2, <1>1, OnlyTick, TickSilence
    <3>3. CASE ~Tick
      BY <3>1, <3>3, <2>2, <1>1, OnlyTick, OtherSilence
    <3> QED
      BY <3>2, <3>3
  <2>3. ASSUME SilentFor(w, Timeout + 1)
        PROVE  SilentFor(w, Timeout + 1)'
    <3>1. Timeout + 1 \in Nat
      BY <2>1
    <3>2. CASE Tick
      BY <3>1, <3>2, <2>1, <2>3, TickSilence
    <3>3. CASE ~Tick
      BY <3>1, <3>3, <2>3, <1>1, OtherSilence
    <3> QED
      BY <3>2, <3>3
  <2>4. ASSUME SilentFor(w, Timeout + 1), NEW k \in 0 .. Window, Streak(k), Evaluated
        PROVE  /\ Streak(k + 1)'
               /\ k >= MaxRestarts => "burst" \in decision'.escalations
    <3>1. Evaluate /\ turn = "evaluate" /\ turn' # "evaluate"
      BY <2>4, <1>1, OnlyEvaluate DEF Evaluated
    <3>2. restarts' = restarts \cup {0}
      BY <3>1, <2>4, <1>1, SilentIsRestarted
    <3>3. k \in Nat /\ 1 .. k \subseteq restarts
      BY <3>1, <2>4, <2>1 DEF Streak
    <3>4. 0 .. k \subseteq restarts'
      BY <3>2, <3>3
    <3>5. Streak(k + 1)'
      <4>1. (k + 1) - 1 = k
        BY <3>3
      <4> QED
        BY <4>1, <3>1, <3>4 DEF Streak
    <3>6. restarts' \subseteq 0 .. Window
      BY <1>1 DEF IndInv, TypeOK
    <3>7. Cardinality(restarts') >= k + 1 /\ Cardinality(restarts') \in Nat
      BY <3>3, <3>4, <3>6, RowOfRestarts
    <3>8. vars' # vars
      BY <3>1 DEF vars
    <3> QED
      BY <3>2, <3>3, <3>5, <3>7, <3>8, <2>1, <2>4, <1>1
  <2>5. ASSUME NEW k \in 0 .. Window, Streak(k), ~Evaluated
        PROVE  Streak(k)'
    BY <2>5, <1>1, Streaks
  <2> QED
    BY <2>2, <2>3, <2>4, <2>5 DEF Spell
<1>2. IndInv /\ IndInv' /\ [Next]_vars
        /\ [Evaluated => (("burst" \in decision'.escalations) <=>
             (0 \in restarts' /\ Cardinality(restarts') > MaxRestarts))]_vars
        => [Noticed]_vars
  BY <1>1
<1> QED
  BY <1>2, Invariance, BurstsAreCounted, PTL DEF Spec, BurstCounted, DeathIsNoticed
=============================================================================
