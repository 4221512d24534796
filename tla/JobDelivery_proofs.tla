------------------------- MODULE JobDelivery_proofs -------------------------
(***************************************************************************)
(* Proofs about JobDelivery, for any jobs, workers, thresholds and numbers *)
(* of crashes, in both deployments.                                        *)
(***************************************************************************)
EXTENDS JobDelivery, FiniteSetTheorems, SequenceTheorems, TLAPS

(* What the queue's operations do to its elements. *)
LEMMA TailElements ==
  ASSUME NEW S, NEW q \in Seq(S), q # <<>>, Distinct(q)
  PROVE  /\ Tail(q) \in Seq(S) /\ Head(q) \in S /\ Distinct(Tail(q))
         /\ Elements(Tail(q)) = Elements(q) \ {Head(q)} /\ Head(q) \in Elements(q)
<1>1. /\ Tail(q) \in Seq(S) /\ Head(q) \in S /\ Len(Tail(q)) = Len(q) - 1
      /\ \A n \in 1 .. Len(Tail(q)) : Tail(q)[n] = q[n + 1]
  BY HeadTailProperties
<1>2. DOMAIN q = 1 .. Len(q) /\ DOMAIN Tail(q) = 1 .. Len(q) - 1 /\ Len(q) \in Nat \ {0}
      /\ Head(q) = q[1]
  BY <1>1, LenProperties, EmptySeq
<1>3. Distinct(Tail(q))
  BY <1>1, <1>2 DEF Distinct
<1>4. \A x \in Elements(Tail(q)) : x \in Elements(q) \ {Head(q)}
  BY <1>1, <1>2 DEF Elements, Distinct
<1>5. ASSUME NEW x \in Elements(q) \ {Head(q)} PROVE x \in Elements(Tail(q))
  <2>1. PICK n \in 1 .. Len(q) : x = q[n] /\ n # 1
    BY <1>2 DEF Elements
  <2>2. n - 1 \in 1 .. Len(q) - 1 /\ x = Tail(q)[n - 1]
    BY <1>1, <1>2, <2>1
  <2> QED
    BY <1>2, <2>2 DEF Elements
<1>6. Elements(Tail(q)) = Elements(q) \ {Head(q)}
  BY <1>4, <1>5
<1>7. Head(q) \in Elements(q)
  BY <1>2 DEF Elements
<1> QED
  BY <1>1, <1>3, <1>6, <1>7

LEMMA PushFrontElements ==
  ASSUME NEW S, NEW q \in Seq(S), NEW x \in S, Distinct(q), x \notin Elements(q)
  PROVE  /\ <<x>> \o q \in Seq(S) /\ Distinct(<<x>> \o q)
         /\ Elements(<<x>> \o q) = Elements(q) \cup {x}
<1> DEFINE p == <<x>> \o q
<1>1. <<x>> \in Seq(S) /\ Len(<<x>>) = 1 /\ <<x>>[1] = x
  OBVIOUS
<1>2. /\ p \in Seq(S) /\ Len(p) = 1 + Len(q)
      /\ \A n \in 1 .. 1 + Len(q) : p[n] = IF n <= 1 THEN x ELSE q[n - 1]
  BY <1>1, ConcatProperties
<1>3. DOMAIN q = 1 .. Len(q) /\ DOMAIN p = 1 .. 1 + Len(q) /\ Len(q) \in Nat
  BY <1>2, LenProperties
<1> HIDE DEF p
<1>4. ASSUME NEW m \in 1 .. 1 + Len(q), NEW n \in 1 .. 1 + Len(q), p[m] = p[n]
      PROVE  m = n
  <2>1. \A k \in 1 .. 1 + Len(q) : k # 1 => k - 1 \in 1 .. Len(q) /\ p[k] = q[k - 1] /\ p[k] # x
    BY <1>2, <1>3 DEF Elements
  <2>2. CASE m = 1 \/ n = 1
    BY <1>2, <1>3, <1>4, <2>1, <2>2
  <2>3. CASE m # 1 /\ n # 1
    <3>1. q[m - 1] = q[n - 1] /\ m - 1 \in DOMAIN q /\ n - 1 \in DOMAIN q
      BY <1>3, <1>4, <2>1, <2>3
    <3>2. m - 1 = n - 1
      BY <3>1 DEF Distinct
    <3> QED
      BY <3>2
  <2> QED
    BY <2>2, <2>3
<1>5. \A y \in Elements(p) : y \in Elements(q) \cup {x}
  BY <1>2, <1>3 DEF Elements
<1>6. ASSUME NEW y \in Elements(q) PROVE y \in Elements(p)
  <2>1. PICK n \in 1 .. Len(q) : y = q[n]
    BY <1>3 DEF Elements
  <2>2. n + 1 \in 1 .. 1 + Len(q) /\ p[n + 1] = y
    BY <1>2, <1>3, <2>1
  <2> QED
    BY <1>3, <2>2 DEF Elements
<1>7. x \in Elements(p)
  BY <1>2, <1>3 DEF Elements
<1> QED
  BY <1>2, <1>3, <1>4, <1>5, <1>6, <1>7 DEF p, Distinct

LEMMA PushBackElements ==
  ASSUME NEW S, NEW q \in Seq(S), NEW x \in S, Distinct(q), x \notin Elements(q)
  PROVE  /\ Append(q, x) \in Seq(S) /\ Distinct(Append(q, x))
         /\ Elements(Append(q, x)) = Elements(q) \cup {x}
<1> DEFINE p == Append(q, x)
<1>1. /\ p \in Seq(S) /\ Len(p) = Len(q) + 1
      /\ \A n \in 1 .. Len(q) : p[n] = q[n]
      /\ p[Len(q) + 1] = x
  OBVIOUS
<1>2. DOMAIN q = 1 .. Len(q) /\ DOMAIN p = 1 .. Len(q) + 1 /\ Len(q) \in Nat
  BY <1>1, LenProperties
<1> HIDE DEF p
<1>3. Distinct(p)
  BY <1>1, <1>2 DEF Distinct, Elements
<1>4. \A y \in Elements(p) : y \in Elements(q) \cup {x}
  BY <1>1, <1>2 DEF Elements
<1>5. \A y \in Elements(q) \cup {x} : y \in Elements(p)
  BY <1>1, <1>2 DEF Elements
<1> QED
  BY <1>1, <1>3, <1>4, <1>5 DEF p

(* What OnePlace says, place by place. *)
LEMMA Apart ==
  OnePlace <=>
    /\ Distinct(queue)
    /\ \A j \in Jobs :
         \/ j \in Elements(queue) /\ j \notin leased /\ j \notin moving /\ j \notin dropped
         \/ j \notin Elements(queue) /\ j \in leased /\ j \notin moving /\ j \notin dropped
         \/ j \notin Elements(queue) /\ j \notin leased /\ j \in moving /\ j \notin dropped
         \/ j \notin Elements(queue) /\ j \notin leased /\ j \notin moving /\ j \in dropped
    /\ \A v, w \in Workers : job[v] = job[w] /\ job[v] # None => v = w
<1>1. /\ Place[1] = Elements(queue) /\ Place[2] = leased /\ Place[3] = moving /\ Place[4] = dropped
      /\ 1 .. 4 = {1, 2, 3, 4}
  BY DEF Place
<1> QED
  BY <1>1 DEF OnePlace

------------------------------------------------------------------------------
(* The records the code saves are records. *)
LEMMA Records ==
  /\ NewJob \in Record
  /\ \A r \in Record : /\ Counted(r) \in Record /\ Cleared(r) \in Record
                      /\ [r EXCEPT !.crashes = @ + 1] \in Record
                      /\ \A st \in {"running"} \cup Terminal : [r EXCEPT !.state = st] \in Record
                      /\ \A n \in Nat : [r EXCEPT !.failures = n] \in Record
                      /\ [r EXCEPT !.panics = @ + 1, !.consecutive = @ + 1, !.state = "failed"]
                            \in Record
                      /\ r.failures \in Nat
<1> USE DEF Record, Terminal, Dead
<1>1. NewJob \in Record
  BY DEF NewJob
<1>2. ASSUME NEW r \in Record
      PROVE  /\ Counted(r) \in Record /\ Cleared(r) \in Record
             /\ [r EXCEPT !.crashes = @ + 1] \in Record /\ r.failures \in Nat
  <2>1. r.failures + 1 \in Nat /\ r.consecutive + 1 \in Nat /\ r.crashes + 1 \in Nat /\ r.failures \in Nat
    OBVIOUS
  <2>2. Counted(r) \in Record
    BY <2>1 DEF Counted
  <2>3. Cleared(r) \in Record
    BY DEF Cleared
  <2>4. [r EXCEPT !.crashes = @ + 1] \in Record
    BY <2>1
  <2> QED
    BY <2>1, <2>2, <2>3, <2>4
<1>3. ASSUME NEW r \in Record
      PROVE  /\ \A st \in {"running"} \cup Terminal : [r EXCEPT !.state = st] \in Record
             /\ \A n \in Nat : [r EXCEPT !.failures = n] \in Record
  OBVIOUS
<1>4. ASSUME NEW r \in Record
      PROVE  [r EXCEPT !.panics = @ + 1, !.consecutive = @ + 1, !.state = "failed"] \in Record
  <2>1. r.panics + 1 \in Nat /\ r.consecutive + 1 \in Nat
    OBVIOUS
  <2> QED
    BY <2>1
<1> HIDE DEF Record, Terminal, Dead
<1> QED
  BY <1>1, <1>2, <1>3, <1>4

(* A worker's step: where it goes, and what a save does. *)
LEMMA GoTypes ==
  ASSUME TypeOK, NEW w \in Workers, NEW p \in Places, Go(w, p)
  PROVE  /\ pc' \in [Workers -> Places] /\ pc'[w] = p
         /\ \A v \in Workers : v # w => pc'[v] = pc[v]
BY DEF TypeOK, Go

LEMMA SaveTypes ==
  ASSUME TypeOK, NEW w \in Workers, pc[w] # "idle", NEW r \in Record, Save(w, r)
  PROVE  /\ copy' \in [Workers -> Record] /\ copy'[w] = r
         /\ store' \in [Jobs -> Record] /\ store'[job[w]] = r /\ job[w] \in Jobs
         /\ \A v \in Workers : v # w => copy'[v] = copy[v]
         /\ \A j \in Jobs : j # job[w] => store'[j] = store[j]
BY DEF TypeOK, Save

(* The type invariant, one step per action. *)
LEMMA TypeStep ==
  ASSUME TypeOK, [Next]_vars
  PROVE  TypeOK'
<1> USE DeliveryAssumption DEF queues, locals
<1>1. ASSUME NEW w \in Workers, Pop(w) PROVE TypeOK'
  <2>1. Head(queue) \in Jobs /\ Tail(queue) \in Seq(Jobs)
    BY <1>1, HeadTailProperties DEF Pop, TypeOK
  <2>2. pc' \in [Workers -> Places] /\ copy' \in [Workers -> Record]
    BY <1>1, <2>1, GoTypes, Records DEF Pop, Places, TypeOK
  <2>3. job' \in [Workers -> Jobs \cup {None}] /\ \A v \in Workers : pc'[v] # "idle" => job'[v] \in Jobs
    BY <1>1, <2>1, GoTypes DEF Pop, TypeOK, Places
  <2> QED
    BY <1>1, <2>1, <2>2, <2>3 DEF Pop, TypeOK
<1>2. ASSUME NEW w \in Workers, SkipDead(w) PROVE TypeOK'
  <2>1. pc' \in [Workers -> Places]
    BY <1>2, GoTypes DEF SkipDead, Places
  <2> QED
    BY <1>2, <2>1 DEF SkipDead, TypeOK, Go
<1>3. ASSUME NEW w \in Workers, Hydrate(w) PROVE TypeOK'
  <2>1. pc[w] # "idle" /\ job[w] \in Jobs /\ copy[w] \in Record /\ store[job[w]] \in Record
    BY <1>3 DEF Hydrate, TypeOK
  <2>2. [copy[w] EXCEPT !.failures = store[job[w]].failures] \in Record
    BY <2>1, Records DEF Terminal, Dead
  <2>3. copy' \in [Workers -> Record] /\ store' \in [Jobs -> Record]
    BY <1>3, <2>1, <2>2, SaveTypes DEF Hydrate
  <2>4. pc' \in [Workers -> Places]
    BY <1>3, GoTypes DEF Hydrate, Places
  <2> QED
    BY <1>3, <2>1, <2>3, <2>4 DEF Hydrate, TypeOK, Go
<1>4. ASSUME NEW w \in Workers, Recover(w) PROVE TypeOK'
  <2>1. pc[w] # "idle" /\ job[w] \in Jobs /\ copy[w] \in Record /\ store[job[w]] \in Record
    BY <1>4 DEF Recover, TypeOK
  <2>2. [copy[w] EXCEPT !.crashes = @ + 1] \in Record
    BY <2>1, Records DEF Terminal, Dead
  <2>3. copy' \in [Workers -> Record] /\ store' \in [Jobs -> Record]
    BY <1>4, <2>1, <2>2, SaveTypes DEF Recover
  <2>4. pc' \in [Workers -> Places]
    BY <1>4, GoTypes DEF Recover, Places
  <2> QED
    BY <1>4, <2>1, <2>3, <2>4 DEF Recover, TypeOK, Go
<1>5. ASSUME NEW w \in Workers, Start(w) PROVE TypeOK'
  <2>1. pc[w] # "idle" /\ job[w] \in Jobs /\ copy[w] \in Record /\ store[job[w]] \in Record
    BY <1>5 DEF Start, TypeOK
  <2>2. [copy[w] EXCEPT !.state = "running"] \in Record
    BY <2>1, Records DEF Terminal, Dead
  <2>3. copy' \in [Workers -> Record] /\ store' \in [Jobs -> Record]
    BY <1>5, <2>1, <2>2, SaveTypes DEF Start
  <2>4. pc' \in [Workers -> Places]
    BY <1>5, GoTypes DEF Start, Places
  <2> QED
    BY <1>5, <2>1, <2>3, <2>4 DEF Start, TypeOK, Go
<1>6. ASSUME NEW w \in Workers, Raise(w) PROVE TypeOK'
  <2>1. pc' \in [Workers -> Places]
    BY <1>6, GoTypes DEF Raise, Places
  <2> QED
    BY <1>6, <2>1 DEF Raise, TypeOK, Go
<1>7. ASSUME NEW w \in Workers, FallBack(w) PROVE TypeOK'
  <2>1. pc[w] # "idle" /\ job[w] \in Jobs /\ copy[w] \in Record /\ store[job[w]] \in Record
    BY <1>7 DEF FallBack, TypeOK
  <2>2. [copy[w] EXCEPT !.state = "succeeded"] \in Record
    BY <2>1, Records DEF Terminal, Dead
  <2>3. copy' \in [Workers -> Record] /\ store' \in [Jobs -> Record]
    BY <1>7, <2>1, <2>2, SaveTypes DEF FallBack
  <2>4. pc' \in [Workers -> Places]
    BY <1>7, GoTypes DEF FallBack, Places
  <2> QED
    BY <1>7, <2>1, <2>3, <2>4 DEF FallBack, TypeOK, Go
<1>8. ASSUME NEW w \in Workers, Enter(w) PROVE TypeOK'
  <2>1. pc' \in [Workers -> Places]
    BY <1>8, GoTypes DEF Enter, Places
  <2> QED
    BY <1>8, <2>1 DEF Enter, TypeOK, Go
<1>9. ASSUME NEW w \in Workers, GoodCycle(w) PROVE TypeOK'
  <2>1. pc[w] # "idle" /\ job[w] \in Jobs /\ copy[w] \in Record /\ store[job[w]] \in Record
    BY <1>9 DEF GoodCycle, Succeeds, TypeOK
  <2>2. Cleared(copy[w]) \in Record
    BY <2>1, Records DEF Terminal, Dead
  <2>3. copy' \in [Workers -> Record] /\ store' \in [Jobs -> Record]
    BY <1>9, <2>1, <2>2, SaveTypes DEF GoodCycle, Succeeds
  <2>5. attempt' \in [Workers -> Nat \ {0}] /\ failed' \in [Jobs -> Nat]
    BY <1>9, <2>1 DEF GoodCycle, Succeeds, TypeOK
  <2>6. cycles' \in [Workers -> 0 .. MaxCycles]
    BY <1>9, <2>1 DEF GoodCycle, Succeeds, TypeOK
  <2> QED
    BY <1>9, <2>1, <2>3, <2>5, <2>6 DEF GoodCycle, Succeeds, TypeOK
<1>10. ASSUME NEW w \in Workers, LastCycle(w) PROVE TypeOK'
  <2>1. pc[w] # "idle" /\ job[w] \in Jobs /\ copy[w] \in Record /\ store[job[w]] \in Record
    BY <1>10 DEF LastCycle, Succeeds, TypeOK
  <2>2. Cleared(copy[w]) \in Record
    BY <2>1, Records DEF Terminal, Dead
  <2>3. copy' \in [Workers -> Record] /\ store' \in [Jobs -> Record]
    BY <1>10, <2>1, <2>2, SaveTypes DEF LastCycle, Succeeds
  <2>4. pc' \in [Workers -> Places]
    BY <1>10, GoTypes DEF LastCycle, Places
  <2>5. attempt' \in [Workers -> Nat \ {0}] /\ failed' \in [Jobs -> Nat]
    BY <1>10, <2>1 DEF LastCycle, Succeeds, TypeOK
  <2>6. cycles' \in [Workers -> 0 .. MaxCycles]
    BY <1>10, <2>1 DEF LastCycle, Succeeds, TypeOK
  <2> QED
    BY <1>10, <2>1, <2>3, <2>4, <2>5, <2>6 DEF LastCycle, Succeeds, TypeOK, Go
<1>11. ASSUME NEW w \in Workers, MarkSucceeded(w) PROVE TypeOK'
  <2>1. pc[w] # "idle" /\ job[w] \in Jobs /\ copy[w] \in Record /\ store[job[w]] \in Record
    BY <1>11 DEF MarkSucceeded, TypeOK
  <2>2. [copy[w] EXCEPT !.state = "succeeded"] \in Record
    BY <2>1, Records DEF Terminal, Dead
  <2>3. copy' \in [Workers -> Record] /\ store' \in [Jobs -> Record]
    BY <1>11, <2>1, <2>2, SaveTypes DEF MarkSucceeded
  <2>4. pc' \in [Workers -> Places]
    BY <1>11, GoTypes DEF MarkSucceeded, Places
  <2> QED
    BY <1>11, <2>1, <2>3, <2>4 DEF MarkSucceeded, TypeOK, Go
<1>12. ASSUME NEW w \in Workers, Fails(w) PROVE TypeOK'
  <2>1. pc' \in [Workers -> Places]
    BY <1>12, GoTypes DEF Fails, Places
  <2> QED
    BY <1>12, <2>1 DEF Fails, TypeOK, Go
<1>13. ASSUME NEW w \in Workers, MarkPoison(w) PROVE TypeOK'
  <2>1. pc[w] # "idle" /\ job[w] \in Jobs /\ copy[w] \in Record /\ store[job[w]] \in Record
    BY <1>13 DEF MarkPoison, TypeOK
  <2>2. [Counted(copy[w]) EXCEPT !.state = "poison"] \in Record
    BY <2>1, Records DEF Terminal, Dead
  <2>3. copy' \in [Workers -> Record] /\ store' \in [Jobs -> Record]
    BY <1>13, <2>1, <2>2, SaveTypes DEF MarkPoison
  <2>4. pc' \in [Workers -> Places]
    BY <1>13, GoTypes DEF MarkPoison, Places
  <2> QED
    BY <1>13, <2>1, <2>3, <2>4 DEF MarkPoison, TypeOK, Go
<1>14. ASSUME NEW w \in Workers, Retry(w) PROVE TypeOK'
  <2>1. pc[w] # "idle" /\ job[w] \in Jobs /\ copy[w] \in Record /\ store[job[w]] \in Record
    BY <1>14 DEF Retry, TypeOK
  <2>2. Counted(copy[w]) \in Record
    BY <2>1, Records DEF Terminal, Dead
  <2>3. copy' \in [Workers -> Record] /\ store' \in [Jobs -> Record]
    BY <1>14, <2>1, <2>2, SaveTypes DEF Retry
  <2>4. pc' \in [Workers -> Places]
    BY <1>14, GoTypes DEF Retry, Places
  <2> QED
    BY <1>14, <2>1, <2>3, <2>4 DEF Retry, TypeOK, Go
<1>15. ASSUME NEW w \in Workers, Panic(w) PROVE TypeOK'
  <2>1. pc[w] # "idle" /\ job[w] \in Jobs /\ copy[w] \in Record /\ store[job[w]] \in Record
    BY <1>15 DEF Panic, TypeOK
  <2>2. [copy[w] EXCEPT !.panics = @ + 1, !.consecutive = @ + 1, !.state = "failed"] \in Record
    BY <2>1, Records DEF Terminal, Dead
  <2>3. copy' \in [Workers -> Record] /\ store' \in [Jobs -> Record]
    BY <1>15, <2>1, <2>2, SaveTypes DEF Panic
  <2>4. pc' \in [Workers -> Places]
    BY <1>15, GoTypes DEF Panic, Places
  <2> QED
    BY <1>15, <2>1, <2>3, <2>4 DEF Panic, TypeOK, Go
<1>16. ASSUME NEW w \in Workers, Return(w) PROVE TypeOK'
  <2>1. pc' \in [Workers -> Places]
    BY <1>16, GoTypes DEF Return, Places
  <2> QED
    BY <1>16, <2>1 DEF Return, TypeOK, Go
<1>17. ASSUME NEW w \in Workers, Crash(w) PROVE TypeOK'
  <2>1. pc' \in [Workers -> Places]
    BY <1>17, GoTypes DEF Crash, Places
  <2> QED
    BY <1>17, <2>1 DEF Crash, TypeOK, Go
<1>18. ASSUME NEW j \in Jobs, RequeueFront(j) PROVE TypeOK'
  <2>1. queue' \in Seq(Jobs)
    <3>1. <<j>> \in Seq(Jobs)
      OBVIOUS
    <3> QED
      BY <1>18, <3>1, ConcatProperties DEF RequeueFront, TypeOK
  <2> QED
    BY <1>18, <2>1 DEF RequeueFront, TypeOK
<1>19. ASSUME NEW j \in Jobs, RemoveLease(j) PROVE TypeOK'
  BY <1>19 DEF RemoveLease, TypeOK
<1>20. ASSUME NEW j \in Jobs, PushBack(j) PROVE TypeOK'
  BY <1>20 DEF PushBack, TypeOK
<1>21. CASE RequeuerCrash
  BY <1>21 DEF RequeuerCrash, TypeOK
<1>22. CASE UNCHANGED vars
  BY <1>22 DEF vars, TypeOK
<1>23. ASSUME NEW w \in Workers, Malformed(w) PROVE TypeOK'
  <2>1. pc[w] # "idle" /\ job[w] \in Jobs /\ copy[w] \in Record /\ store[job[w]] \in Record
    BY <1>23 DEF Malformed, TypeOK
  <2>2. [Cleared(copy[w]) EXCEPT !.state = "failed"] \in Record
    BY <2>1, Records DEF Terminal, Dead
  <2>3. copy' \in [Workers -> Record] /\ store' \in [Jobs -> Record]
    BY <1>23, <2>1, <2>2, SaveTypes DEF Malformed
  <2>4. pc' \in [Workers -> Places]
    BY <1>23, GoTypes DEF Malformed, Places
  <2> QED
    BY <1>23, <2>1, <2>3, <2>4 DEF Malformed, TypeOK, Go
<1> QED
  BY <1>1, <1>2, <1>3, <1>4, <1>5, <1>6, <1>7, <1>8, <1>9, <1>10, <1>11, <1>12, <1>13, <1>14,
       <1>15, <1>16, <1>17, <1>18, <1>19, <1>20, <1>21, <1>22, <1>23 DEF Next, Work, Requeue

------------------------------------------------------------------------------
(* A worker at work keeps the job it has. *)
Inside(w) == SkipDead(w) \/ Hydrate(w) \/ Recover(w) \/ Start(w) \/ FallBack(w) \/ Enter(w)
               \/ GoodCycle(w) \/ LastCycle(w) \/ MarkSucceeded(w) \/ Malformed(w) \/ Fails(w)
               \/ MarkPoison(w) \/ Retry(w) \/ Panic(w)
Lets(w) == Raise(w) \/ Return(w)

LEMMA Kinds ==
  ASSUME Next
  PROVE  \/ \E w \in Workers : Pop(w) \/ Inside(w) \/ Lets(w) \/ Crash(w)
         \/ \E j \in Jobs : RequeueFront(j) \/ RemoveLease(j) \/ PushBack(j)
         \/ RequeuerCrash
BY DEF Next, Work, Requeue, Inside, Lets

LEMMA InsideFacts ==
  ASSUME TypeOK, NEW w \in Workers, Inside(w)
  PROVE  /\ UNCHANGED <<backend, queue, leased, moving, orphans, job, crashes, dropped>>
         /\ pc[w] # "idle" /\ pc'[w] # "idle"
         /\ \A v \in Workers : v # w => pc'[v] = pc[v]
<1> USE DEF queues, Go, TypeOK
<1>1. CASE GoodCycle(w)
  BY <1>1 DEF GoodCycle, Succeeds
<1>2. CASE LastCycle(w)
  BY <1>2 DEF LastCycle, Succeeds
<1> QED
  BY <1>1, <1>2 DEF Inside, SkipDead, Hydrate, Recover, Start, FallBack, Enter, MarkSucceeded,
       Malformed, Fails, MarkPoison, Retry, Panic

(* The head of the queue is leased by nobody. *)
LEMMA PopFacts ==
  ASSUME TypeOK, OnePlace, HoldInv, NEW w \in Workers, Pop(w)
  PROVE  /\ Head(queue) \in Jobs /\ Head(queue) \in Elements(queue)
         /\ Head(queue) \notin leased /\ Head(queue) \notin moving /\ Head(queue) \notin dropped
         /\ \A v \in Workers : job[v] # Head(queue)
         /\ Distinct(Tail(queue)) /\ Elements(Tail(queue)) = Elements(queue) \ {Head(queue)}
         /\ pc[w] = "idle" /\ pc'[w] = "popped" /\ \A v \in Workers : v # w => pc'[v] = pc[v]
         /\ job'[w] = Head(queue) /\ \A v \in Workers : v # w => job'[v] = job[v]
<1>1. /\ Head(queue) \in Jobs /\ Head(queue) \in Elements(queue)
      /\ Distinct(Tail(queue)) /\ Elements(Tail(queue)) = Elements(queue) \ {Head(queue)}
  BY TailElements, Apart DEF TypeOK, Pop
<1>2. Head(queue) \notin leased /\ Head(queue) \notin moving /\ Head(queue) \notin dropped
  BY <1>1, Apart
<1>3. \A v \in Workers : job[v] # Head(queue)
  BY <1>1, <1>2, DeliveryAssumption DEF HoldInv
<1> QED
  BY <1>1, <1>2, <1>3 DEF Pop, Go, TypeOK

(* Who holds what is leased. *)
LEMMA HoldStep ==
  ASSUME TypeOK, HoldInv, OnePlace, [Next]_vars
  PROVE  HoldInv'
<1>1. ASSUME NEW w \in Workers, Pop(w) PROVE HoldInv'
  <2>1. leased' = leased \cup {Head(queue)} /\ orphans' = orphans
    BY <1>1 DEF Pop
  <2>2. \A v \in Workers : v # w => pc'[v] = pc[v] /\ job'[v] = job[v]
    BY <1>1, PopFacts
  <2>3. /\ pc'[w] = "popped" /\ job'[w] = Head(queue)
        /\ Head(queue) \notin leased
    BY <1>1, PopFacts
  <2> QED
    BY <2>1, <2>2, <2>3 DEF HoldInv
<1>2. ASSUME NEW w \in Workers, Inside(w) PROVE HoldInv'
  BY <1>2, InsideFacts DEF HoldInv
<1>3. ASSUME NEW w \in Workers, Lets(w) PROVE HoldInv'
  <2>1. /\ pc' = [pc EXCEPT ![w] = "idle"] /\ job' = [job EXCEPT ![w] = None]
        /\ leased' = leased /\ orphans' = orphans
    BY <1>3 DEF Lets, Raise, Return, queues, Go
  <2> QED
    BY <2>1 DEF HoldInv, TypeOK
<1>4. ASSUME NEW w \in Workers, Crash(w) PROVE HoldInv'
  <2>1. \A v \in Workers : v # w => job[v] # job[w]
    BY <1>4, DeliveryAssumption DEF Crash, OnePlace, HoldInv, TypeOK
  <2> QED
    BY <1>4, <2>1 DEF Crash, HoldInv, Go, TypeOK
<1>5. ASSUME NEW j \in Jobs, RequeueFront(j) \/ RemoveLease(j) \/ PushBack(j) PROVE HoldInv'
  BY <1>5 DEF RequeueFront, RemoveLease, PushBack, HoldInv, locals
<1>6. CASE RequeuerCrash
  BY <1>6 DEF RequeuerCrash, HoldInv, locals
<1>7. CASE UNCHANGED vars
  BY <1>7 DEF vars, queues, locals, HoldInv
<1> QED
  BY <1>1, <1>2, <1>3, <1>4, <1>5, <1>6, <1>7, Kinds

(* A job is in one place, with one worker at most. *)
LEMMA OnePlaceStep ==
  ASSUME TypeOK, HoldInv, OnePlace, [Next]_vars
  PROVE  OnePlace'
<1> DEFINE Alone(q, l, m, d) ==
             /\ Distinct(q)
             /\ \A j \in Jobs :
                  \/ j \in Elements(q) /\ j \notin l /\ j \notin m /\ j \notin d
                  \/ j \notin Elements(q) /\ j \in l /\ j \notin m /\ j \notin d
                  \/ j \notin Elements(q) /\ j \notin l /\ j \in m /\ j \notin d
                  \/ j \notin Elements(q) /\ j \notin l /\ j \notin m /\ j \in d
           Owned(h) == \A v, w \in Workers : h[v] = h[w] /\ h[v] # None => v = w
<1>a. Alone(queue, leased, moving, dropped) /\ Owned(job)
  BY Apart
<1>b. Alone(queue', leased', moving', dropped') /\ Owned(job') => OnePlace'
  <2>1. /\ Place'[1] = Elements(queue') /\ Place'[2] = leased' /\ Place'[3] = moving'
        /\ Place'[4] = dropped' /\ 1 .. 4 = {1, 2, 3, 4}
    BY DEF Place, Elements
  <2> QED
    BY <2>1 DEF OnePlace, Distinct
<1>1. ASSUME NEW w \in Workers, Pop(w) PROVE OnePlace'
  <2>1. Alone(queue', leased', moving', dropped')
    BY <1>1, <1>a, PopFacts DEF Pop
  <2>2. Owned(job')
    BY <1>1, <1>a, PopFacts
  <2> QED
    BY <1>b, <2>1, <2>2
<1>2. ASSUME NEW w \in Workers, Inside(w) PROVE OnePlace'
  BY <1>2, <1>a, <1>b, InsideFacts
<1>3. ASSUME NEW w \in Workers, Lets(w) PROVE OnePlace'
  <2>1. Owned(job')
    BY <1>3, <1>a DEF Lets, Raise, Return, TypeOK
  <2> QED
    BY <1>3, <1>a, <1>b, <2>1 DEF Lets, Raise, Return, queues
<1>4. ASSUME NEW w \in Workers, Crash(w) PROVE OnePlace'
  <2>1. Owned(job')
    BY <1>4, <1>a DEF Crash, TypeOK
  <2> QED
    BY <1>4, <1>a, <1>b, <2>1 DEF Crash
<1>5. ASSUME NEW j \in Jobs, RequeueFront(j) PROVE OnePlace'
  <2>1. j \in leased /\ j \notin Elements(queue)
    BY <1>5, <1>a DEF RequeueFront, HoldInv
  <2>2. Distinct(queue') /\ Elements(queue') = Elements(queue) \cup {j}
    BY <1>5, <1>a, <2>1, PushFrontElements DEF RequeueFront, TypeOK
  <2> QED
    BY <1>5, <1>a, <1>b, <2>1, <2>2 DEF RequeueFront, locals
<1>6. ASSUME NEW j \in Jobs, RemoveLease(j) PROVE OnePlace'
  <2>1. j \in leased
    BY <1>6 DEF RemoveLease, HoldInv
  <2> QED
    BY <1>6, <1>a, <1>b, <2>1 DEF RemoveLease, locals
<1>7. ASSUME NEW j \in Jobs, PushBack(j) PROVE OnePlace'
  <2>1. j \notin Elements(queue)
    BY <1>7, <1>a DEF PushBack
  <2>2. Distinct(queue') /\ Elements(queue') = Elements(queue) \cup {j}
    BY <1>7, <1>a, <2>1, PushBackElements DEF PushBack, TypeOK
  <2> QED
    BY <1>7, <1>a, <1>b, <2>1, <2>2 DEF PushBack, locals
<1>8. CASE RequeuerCrash
  BY <1>8, <1>a, <1>b DEF RequeuerCrash, locals
<1>9. CASE UNCHANGED vars
  BY <1>9, <1>a, <1>b DEF vars, queues, locals
<1> QED
  BY <1>1, <1>2, <1>3, <1>4, <1>5, <1>6, <1>7, <1>8, <1>9, Kinds

------------------------------------------------------------------------------
(* The worker's object and the stored job. *)
(* A save changes the one job the worker holds. *)
LEMMA SaveFacts ==
  ASSUME TypeOK, HoldInv, OnePlace, NEW w \in Workers, pc[w] # "idle", NEW r \in Record, Save(w, r)
  PROVE  /\ job[w] \in Jobs /\ copy'[w] = r /\ store'[job[w]] = r
         /\ \A v \in Workers : v # w => copy'[v] = copy[v]
         /\ \A j \in Jobs : j # job[w] => store'[j] = store[j]
         /\ \A v \in Workers : v # w /\ pc[v] # "idle" => job[v] \in Jobs /\ store'[job[v]] = store[job[v]]
<1>1. \A v \in Workers : pc[v] # "idle" => job[v] \in Jobs
  BY DEF TypeOK
<1>2. \A v \in Workers : v # w /\ pc[v] # "idle" => job[v] # job[w]
  BY <1>1, DeliveryAssumption DEF OnePlace
<1> QED
  BY <1>1, <1>2, SaveTypes

(* Every step stays on the backend the system was deployed with. *)
LEMMA SameBackend == [Next]_vars => backend' = backend
<1>1. ASSUME NEW w \in Workers, Work(w) PROVE backend' = backend
  <2>1. CASE Pop(w) \/ SkipDead(w) \/ Hydrate(w) \/ Recover(w) \/ Start(w) \/ Raise(w)
             \/ FallBack(w) \/ Enter(w)
    BY <2>1 DEF Pop, SkipDead, Hydrate, Recover, Start, Raise, FallBack, Enter
  <2>2. CASE GoodCycle(w) \/ LastCycle(w) \/ MarkSucceeded(w) \/ Malformed(w) \/ Fails(w)
             \/ MarkPoison(w) \/ Retry(w) \/ Panic(w) \/ Return(w)
    BY <2>2 DEF GoodCycle, LastCycle, MarkSucceeded, Malformed, Fails, MarkPoison, Retry, Panic, Return
  <2> QED
    BY <1>1, <2>1, <2>2 DEF Work
<1>2. ASSUME NEW w \in Workers, Crash(w) PROVE backend' = backend
  BY <1>2 DEF Crash
<1>3. ASSUME NEW j \in Jobs, RequeueFront(j) \/ RemoveLease(j) \/ PushBack(j)
      PROVE  backend' = backend
  BY <1>3 DEF RequeueFront, RemoveLease, PushBack
<1>4. CASE RequeuerCrash \/ UNCHANGED vars
  BY <1>4 DEF RequeuerCrash, vars
<1> QED
  BY <1>1, <1>2, <1>3, <1>4 DEF Next, Requeue

LEMMA CopyStep ==
  ASSUME TypeOK, HoldInv, OnePlace, CopyInv, [Next]_vars
  PROVE  CopyInv'
<1> DEFINE Copied(b, p, c, s) ==
             /\ p = "popped" => c = IF b = "memory" THEN s ELSE NewJob
             /\ p \in {"hydrated", "gate", "cycle", "failed", "done"} => c = s
             /\ p = "hydrated" => c.state \notin Dead
             /\ p \in {"gate", "cycle", "failed", "done"} => c.state = "running"
<1>a. \A v \in Workers : Copied(backend, pc[v], copy[v], store[job[v]])
  BY DEF CopyInv
<1>b. (\A v \in Workers : Copied(backend', pc'[v], copy'[v], store'[job'[v]])) => CopyInv'
  BY DEF CopyInv
<1>c. backend' = backend
  BY SameBackend
<1> HIDE DEF Copied
<1>1. ASSUME NEW w \in Workers, Pop(w) PROVE CopyInv'
  <2>1. copy'[w] = IF backend = "memory" THEN store[Head(queue)] ELSE NewJob
    BY <1>1 DEF Pop, TypeOK
  <2>2. store' = store /\ \A v \in Workers : v # w => copy'[v] = copy[v]
    BY <1>1 DEF Pop, TypeOK
  <2> QED
    BY <1>1, <1>a, <1>b, <1>c, <2>1, <2>2, PopFacts DEF Copied
<1>2. ASSUME NEW w \in Workers, SkipDead(w) PROVE CopyInv'
  <2>1. /\ store' = store /\ copy' = copy /\ pc'[w] = "returning"
        /\ \A v \in Workers : v # w => pc'[v] = pc[v] /\ job'[v] = job[v]
    BY <1>2 DEF SkipDead, Go, TypeOK
  <2> QED
    BY <1>2, <1>a, <1>b, <1>c, <2>1 DEF Copied
<1>3. ASSUME NEW w \in Workers, Hydrate(w) PROVE CopyInv'
  <2>1. pc[w] # "idle" /\ job[w] \in Jobs /\ copy[w] \in Record /\ store[job[w]] \in Record
    BY <1>3 DEF Hydrate, TypeOK
  <2> DEFINE r == [copy[w] EXCEPT !.failures = store[job[w]].failures]
  <2>2. r \in Record /\ Save(w, r)
    BY <1>3, <2>1, Records DEF Hydrate, Terminal, Dead
  <2> HIDE DEF r
  <2>3. \A v \in Workers : v # w => pc'[v] = pc[v] /\ job'[v] = job[v]
    BY <1>3 DEF Hydrate, Go, TypeOK
  <2>4. \A v \in Workers : v # w => Copied(backend', pc'[v], copy'[v], store'[job'[v]])
    BY <1>a, <1>c, <2>1, <2>2, <2>3, SaveFacts DEF Copied
  <2>5. copy'[w] = r /\ store'[job'[w]] = r
    BY <1>3, <2>1, <2>2, SaveFacts DEF Hydrate
  <2>6. pc'[w] = "hydrated"
    BY <1>3 DEF Hydrate, Go, TypeOK
  <2>7. r.state \notin Dead
    BY <1>3, <1>a, <2>1 DEF Hydrate, Copied, r, NewJob, Dead, TypeOK, Record
  <2> QED
    BY <1>b, <1>c, <2>4, <2>5, <2>6, <2>7 DEF Copied
<1>4. ASSUME NEW w \in Workers, Recover(w) PROVE CopyInv'
  <2>1. pc[w] # "idle" /\ job[w] \in Jobs /\ copy[w] \in Record /\ store[job[w]] \in Record
    BY <1>4 DEF Recover, TypeOK
  <2> DEFINE r == [copy[w] EXCEPT !.crashes = @ + 1]
  <2>2. r \in Record /\ Save(w, r)
    BY <1>4, <2>1, Records DEF Recover, Terminal, Dead
  <2> HIDE DEF r
  <2>3. \A v \in Workers : v # w => pc'[v] = pc[v] /\ job'[v] = job[v]
    BY <1>4 DEF Recover, Go, TypeOK
  <2>4. \A v \in Workers : v # w => Copied(backend', pc'[v], copy'[v], store'[job'[v]])
    BY <1>a, <1>c, <2>1, <2>2, <2>3, SaveFacts DEF Copied
  <2>5. copy'[w] = r /\ store'[job'[w]] = r
    BY <1>4, <2>1, <2>2, SaveFacts DEF Recover
  <2>6. pc'[w] = "gate"
    BY <1>4 DEF Recover, Go, TypeOK
  <2>7. r.state = "running"
    BY <1>4, <1>a, <2>1 DEF Recover, Copied, r, Counted, Cleared, Record
  <2> QED
    BY <1>b, <1>c, <2>4, <2>5, <2>6, <2>7 DEF Copied
<1>5. ASSUME NEW w \in Workers, Start(w) PROVE CopyInv'
  <2>1. pc[w] # "idle" /\ job[w] \in Jobs /\ copy[w] \in Record /\ store[job[w]] \in Record
    BY <1>5 DEF Start, TypeOK
  <2> DEFINE r == [copy[w] EXCEPT !.state = "running"]
  <2>2. r \in Record /\ Save(w, r)
    BY <1>5, <2>1, Records DEF Start, Terminal, Dead
  <2> HIDE DEF r
  <2>3. \A v \in Workers : v # w => pc'[v] = pc[v] /\ job'[v] = job[v]
    BY <1>5 DEF Start, Go, TypeOK
  <2>4. \A v \in Workers : v # w => Copied(backend', pc'[v], copy'[v], store'[job'[v]])
    BY <1>a, <1>c, <2>1, <2>2, <2>3, SaveFacts DEF Copied
  <2>5. copy'[w] = r /\ store'[job'[w]] = r
    BY <1>5, <2>1, <2>2, SaveFacts DEF Start
  <2>6. pc'[w] = "gate"
    BY <1>5 DEF Start, Go, TypeOK
  <2>7. r.state = "running"
    BY <1>5, <1>a, <2>1 DEF Start, Copied, r, Counted, Cleared, Record
  <2> QED
    BY <1>b, <1>c, <2>4, <2>5, <2>6, <2>7 DEF Copied
<1>6. ASSUME NEW w \in Workers, Raise(w) PROVE CopyInv'
  <2>1. /\ store' = store /\ copy' = copy /\ pc'[w] = "idle"
        /\ \A v \in Workers : v # w => pc'[v] = pc[v] /\ job'[v] = job[v]
    BY <1>6 DEF Raise, Go, TypeOK
  <2> QED
    BY <1>6, <1>a, <1>b, <1>c, <2>1 DEF Copied
<1>7. ASSUME NEW w \in Workers, FallBack(w) PROVE CopyInv'
  <2>1. pc[w] # "idle" /\ job[w] \in Jobs /\ copy[w] \in Record /\ store[job[w]] \in Record
    BY <1>7 DEF FallBack, TypeOK
  <2> DEFINE r == [copy[w] EXCEPT !.state = "succeeded"]
  <2>2. r \in Record /\ Save(w, r)
    BY <1>7, <2>1, Records DEF FallBack, Terminal, Dead
  <2> HIDE DEF r
  <2>3. \A v \in Workers : v # w => pc'[v] = pc[v] /\ job'[v] = job[v]
    BY <1>7 DEF FallBack, Go, TypeOK
  <2>4. \A v \in Workers : v # w => Copied(backend', pc'[v], copy'[v], store'[job'[v]])
    BY <1>a, <1>c, <2>1, <2>2, <2>3, SaveFacts DEF Copied
  <2>5. copy'[w] = r /\ store'[job'[w]] = r
    BY <1>7, <2>1, <2>2, SaveFacts DEF FallBack
  <2>6. pc'[w] = "returning"
    BY <1>7 DEF FallBack, Go, TypeOK
  <2> QED
    BY <1>b, <1>c, <2>4, <2>5, <2>6 DEF Copied
<1>8. ASSUME NEW w \in Workers, Enter(w) PROVE CopyInv'
  <2>1. /\ store' = store /\ copy' = copy /\ pc'[w] = "cycle"
        /\ \A v \in Workers : v # w => pc'[v] = pc[v] /\ job'[v] = job[v]
        /\ job'[w] = job[w] /\ pc[w] \in {"gate", "cycle"}
    BY <1>8 DEF Enter, Go, TypeOK
  <2> QED
    BY <1>8, <1>a, <1>b, <1>c, <2>1 DEF Copied
<1>9. ASSUME NEW w \in Workers, GoodCycle(w) PROVE CopyInv'
  <2>1. pc[w] # "idle" /\ job[w] \in Jobs /\ copy[w] \in Record /\ store[job[w]] \in Record
    BY <1>9 DEF GoodCycle, Succeeds, TypeOK
  <2> DEFINE r == Cleared(copy[w])
  <2>2. r \in Record /\ Save(w, r)
    BY <1>9, <2>1, Records DEF GoodCycle, Succeeds, Terminal, Dead
  <2> HIDE DEF r
  <2>3. \A v \in Workers : v # w => pc'[v] = pc[v] /\ job'[v] = job[v]
    BY <1>9 DEF GoodCycle, Succeeds, Go, TypeOK
  <2>4. \A v \in Workers : v # w => Copied(backend', pc'[v], copy'[v], store'[job'[v]])
    BY <1>a, <1>c, <2>1, <2>2, <2>3, SaveFacts DEF Copied
  <2>5. copy'[w] = r /\ store'[job'[w]] = r
    BY <1>9, <2>1, <2>2, SaveFacts DEF GoodCycle, Succeeds
  <2>6. pc'[w] = "cycle"
    BY <1>9 DEF GoodCycle, Succeeds, Go, TypeOK
  <2>7. r.state = "running"
    BY <1>9, <1>a, <2>1 DEF GoodCycle, Succeeds, Copied, r, Counted, Cleared, Record
  <2> QED
    BY <1>b, <1>c, <2>4, <2>5, <2>6, <2>7 DEF Copied
<1>10. ASSUME NEW w \in Workers, LastCycle(w) PROVE CopyInv'
  <2>1. pc[w] # "idle" /\ job[w] \in Jobs /\ copy[w] \in Record /\ store[job[w]] \in Record
    BY <1>10 DEF LastCycle, Succeeds, TypeOK
  <2> DEFINE r == Cleared(copy[w])
  <2>2. r \in Record /\ Save(w, r)
    BY <1>10, <2>1, Records DEF LastCycle, Succeeds, Terminal, Dead
  <2> HIDE DEF r
  <2>3. \A v \in Workers : v # w => pc'[v] = pc[v] /\ job'[v] = job[v]
    BY <1>10 DEF LastCycle, Succeeds, Go, TypeOK
  <2>4. \A v \in Workers : v # w => Copied(backend', pc'[v], copy'[v], store'[job'[v]])
    BY <1>a, <1>c, <2>1, <2>2, <2>3, SaveFacts DEF Copied
  <2>5. copy'[w] = r /\ store'[job'[w]] = r
    BY <1>10, <2>1, <2>2, SaveFacts DEF LastCycle, Succeeds
  <2>6. pc'[w] = "done"
    BY <1>10 DEF LastCycle, Succeeds, Go, TypeOK
  <2>7. r.state = "running"
    BY <1>10, <1>a, <2>1 DEF LastCycle, Succeeds, Copied, r, Counted, Cleared, Record
  <2> QED
    BY <1>b, <1>c, <2>4, <2>5, <2>6, <2>7 DEF Copied
<1>11. ASSUME NEW w \in Workers, MarkSucceeded(w) PROVE CopyInv'
  <2>1. pc[w] # "idle" /\ job[w] \in Jobs /\ copy[w] \in Record /\ store[job[w]] \in Record
    BY <1>11 DEF MarkSucceeded, TypeOK
  <2> DEFINE r == [copy[w] EXCEPT !.state = "succeeded"]
  <2>2. r \in Record /\ Save(w, r)
    BY <1>11, <2>1, Records DEF MarkSucceeded, Terminal, Dead
  <2> HIDE DEF r
  <2>3. \A v \in Workers : v # w => pc'[v] = pc[v] /\ job'[v] = job[v]
    BY <1>11 DEF MarkSucceeded, Go, TypeOK
  <2>4. \A v \in Workers : v # w => Copied(backend', pc'[v], copy'[v], store'[job'[v]])
    BY <1>a, <1>c, <2>1, <2>2, <2>3, SaveFacts DEF Copied
  <2>5. copy'[w] = r /\ store'[job'[w]] = r
    BY <1>11, <2>1, <2>2, SaveFacts DEF MarkSucceeded
  <2>6. pc'[w] = "returning"
    BY <1>11 DEF MarkSucceeded, Go, TypeOK
  <2> QED
    BY <1>b, <1>c, <2>4, <2>5, <2>6 DEF Copied
<1>12. ASSUME NEW w \in Workers, Fails(w) PROVE CopyInv'
  <2>1. /\ store' = store /\ copy' = copy /\ pc'[w] = "failed"
        /\ \A v \in Workers : v # w => pc'[v] = pc[v] /\ job'[v] = job[v]
        /\ job'[w] = job[w] /\ pc[w] \in {"gate", "cycle"}
    BY <1>12 DEF Fails, Go, TypeOK
  <2> QED
    BY <1>12, <1>a, <1>b, <1>c, <2>1 DEF Copied
<1>13. ASSUME NEW w \in Workers, MarkPoison(w) PROVE CopyInv'
  <2>1. pc[w] # "idle" /\ job[w] \in Jobs /\ copy[w] \in Record /\ store[job[w]] \in Record
    BY <1>13 DEF MarkPoison, TypeOK
  <2> DEFINE r == [Counted(copy[w]) EXCEPT !.state = "poison"]
  <2>2. r \in Record /\ Save(w, r)
    BY <1>13, <2>1, Records DEF MarkPoison, Terminal, Dead
  <2> HIDE DEF r
  <2>3. \A v \in Workers : v # w => pc'[v] = pc[v] /\ job'[v] = job[v]
    BY <1>13 DEF MarkPoison, Go, TypeOK
  <2>4. \A v \in Workers : v # w => Copied(backend', pc'[v], copy'[v], store'[job'[v]])
    BY <1>a, <1>c, <2>1, <2>2, <2>3, SaveFacts DEF Copied
  <2>5. copy'[w] = r /\ store'[job'[w]] = r
    BY <1>13, <2>1, <2>2, SaveFacts DEF MarkPoison
  <2>6. pc'[w] = "returning"
    BY <1>13 DEF MarkPoison, Go, TypeOK
  <2> QED
    BY <1>b, <1>c, <2>4, <2>5, <2>6 DEF Copied
<1>14. ASSUME NEW w \in Workers, Retry(w) PROVE CopyInv'
  <2>1. pc[w] # "idle" /\ job[w] \in Jobs /\ copy[w] \in Record /\ store[job[w]] \in Record
    BY <1>14 DEF Retry, TypeOK
  <2> DEFINE r == Counted(copy[w])
  <2>2. r \in Record /\ Save(w, r)
    BY <1>14, <2>1, Records DEF Retry, Terminal, Dead
  <2> HIDE DEF r
  <2>3. \A v \in Workers : v # w => pc'[v] = pc[v] /\ job'[v] = job[v]
    BY <1>14 DEF Retry, Go, TypeOK
  <2>4. \A v \in Workers : v # w => Copied(backend', pc'[v], copy'[v], store'[job'[v]])
    BY <1>a, <1>c, <2>1, <2>2, <2>3, SaveFacts DEF Copied
  <2>5. copy'[w] = r /\ store'[job'[w]] = r
    BY <1>14, <2>1, <2>2, SaveFacts DEF Retry
  <2>6. pc'[w] = "cycle"
    BY <1>14 DEF Retry, Go, TypeOK
  <2>7. r.state = "running"
    BY <1>14, <1>a, <2>1 DEF Retry, Copied, r, Counted, Cleared, Record
  <2> QED
    BY <1>b, <1>c, <2>4, <2>5, <2>6, <2>7 DEF Copied
<1>15. ASSUME NEW w \in Workers, Panic(w) PROVE CopyInv'
  <2>1. pc[w] # "idle" /\ job[w] \in Jobs /\ copy[w] \in Record /\ store[job[w]] \in Record
    BY <1>15 DEF Panic, TypeOK
  <2> DEFINE r == [copy[w] EXCEPT !.panics = @ + 1, !.consecutive = @ + 1, !.state = "failed"]
  <2>2. r \in Record /\ Save(w, r)
    BY <1>15, <2>1, Records DEF Panic, Terminal, Dead
  <2> HIDE DEF r
  <2>3. \A v \in Workers : v # w => pc'[v] = pc[v] /\ job'[v] = job[v]
    BY <1>15 DEF Panic, Go, TypeOK
  <2>4. \A v \in Workers : v # w => Copied(backend', pc'[v], copy'[v], store'[job'[v]])
    BY <1>a, <1>c, <2>1, <2>2, <2>3, SaveFacts DEF Copied
  <2>5. copy'[w] = r /\ store'[job'[w]] = r
    BY <1>15, <2>1, <2>2, SaveFacts DEF Panic
  <2>6. pc'[w] = "returning"
    BY <1>15 DEF Panic, Go, TypeOK
  <2> QED
    BY <1>b, <1>c, <2>4, <2>5, <2>6 DEF Copied
<1>16. ASSUME NEW w \in Workers, Return(w) PROVE CopyInv'
  <2>1. /\ store' = store /\ copy' = copy /\ pc'[w] = "idle"
        /\ \A v \in Workers : v # w => pc'[v] = pc[v] /\ job'[v] = job[v]
    BY <1>16 DEF Return, Go, TypeOK
  <2> QED
    BY <1>16, <1>a, <1>b, <1>c, <2>1 DEF Copied
<1>17. ASSUME NEW w \in Workers, Crash(w) PROVE CopyInv'
  <2>1. /\ store' = store /\ copy' = copy /\ pc'[w] = "idle"
        /\ \A v \in Workers : v # w => pc'[v] = pc[v] /\ job'[v] = job[v]
    BY <1>17 DEF Crash, Go, TypeOK
  <2> QED
    BY <1>17, <1>a, <1>b, <1>c, <2>1 DEF Copied
<1>18. ASSUME NEW j \in Jobs, RequeueFront(j) \/ RemoveLease(j) \/ PushBack(j) PROVE CopyInv'
  BY <1>18, <1>a, <1>b DEF RequeueFront, RemoveLease, PushBack, locals
<1>19. CASE RequeuerCrash
  BY <1>19, <1>a, <1>b DEF RequeuerCrash, locals
<1>20. CASE UNCHANGED vars
  BY <1>20, <1>a, <1>b DEF vars, queues, locals
<1>21. ASSUME NEW w \in Workers, Malformed(w) PROVE CopyInv'
  <2>1. pc[w] # "idle" /\ job[w] \in Jobs /\ copy[w] \in Record /\ store[job[w]] \in Record
    BY <1>21 DEF Malformed, TypeOK
  <2> DEFINE r == [Cleared(copy[w]) EXCEPT !.state = "failed"]
  <2>2. r \in Record /\ Save(w, r)
    BY <1>21, <2>1, Records DEF Malformed, Terminal, Dead
  <2> HIDE DEF r
  <2>3. \A v \in Workers : v # w => pc'[v] = pc[v] /\ job'[v] = job[v]
    BY <1>21 DEF Malformed, Go, TypeOK
  <2>4. \A v \in Workers : v # w => Copied(backend', pc'[v], copy'[v], store'[job'[v]])
    BY <1>a, <1>c, <2>1, <2>2, <2>3, SaveFacts DEF Copied
  <2>5. copy'[w] = r /\ store'[job'[w]] = r
    BY <1>21, <2>1, <2>2, SaveFacts DEF Malformed
  <2>6. pc'[w] = "returning"
    BY <1>21 DEF Malformed, Go, TypeOK
  <2> QED
    BY <1>b, <1>c, <2>4, <2>5, <2>6 DEF Copied
<1> QED
  BY <1>1, <1>2, <1>3, <1>4, <1>5, <1>6, <1>7, <1>8, <1>9, <1>10, <1>11, <1>12, <1>13, <1>14,
       <1>15, <1>16, <1>17, <1>18, <1>19, <1>20, <1>21 DEF Next, Work, Requeue

------------------------------------------------------------------------------
(* The failures of a job.  Another worker's job does not become unsaved. *)
LEMMA UnsavedFacts ==
  ASSUME TypeOK, HoldInv, OnePlace, NEW w \in Workers, pc[w] # "idle",
         \A v \in Workers : v # w => pc'[v] = pc[v] /\ job'[v] = job[v],
         job'[w] \in {job[w], None}
  PROVE  /\ \A j \in Jobs : j # job[w] /\ store'[j] = store[j] => (j \in Unsaved' <=> j \in Unsaved)
         /\ job[w] \in Unsaved' <=>
              store'[job[w]].state = "failed" \/ (job'[w] = job[w] /\ pc'[w] = "failed")
         /\ job[w] \in Unsaved <=> store[job[w]].state = "failed" \/ pc[w] = "failed"
<1>1. \A v \in Workers : v # w => job[v] # job[w]
  BY DeliveryAssumption DEF TypeOK, OnePlace
<1>2. job[w] # None /\ job[w] \in Jobs
  BY DeliveryAssumption DEF TypeOK
<1>3. ASSUME NEW j \in Jobs, j # job[w], store'[j] = store[j]
      PROVE  j \in Unsaved' <=> j \in Unsaved
  BY <1>1, <1>2, <1>3, DeliveryAssumption DEF Unsaved
<1> QED
  BY <1>1, <1>2, <1>3 DEF Unsaved

LEMMA BudgetStep ==
  ASSUME TypeOK, HoldInv, OnePlace, CopyInv, BudgetInv, [Next]_vars
  PROVE  BudgetInv'
<1> DEFINE Within(f, s, c, u) ==
             /\ f <= s.failures + c + (IF u THEN 1 ELSE 0)
             /\ s.failures <= PoisonAt + (IF s.state = "poison" THEN 1 ELSE 0)
<1>a. \A j \in Jobs : Within(failed[j], store[j], crashes, j \in Unsaved)
  BY DEF BudgetInv
<1>b. (\A j \in Jobs : Within(failed'[j], store'[j], crashes', j \in Unsaved')) => BudgetInv'
  BY DEF BudgetInv
<1>c. /\ crashes \in Nat /\ PoisonAt \in Nat \ {0}
      /\ \A j \in Jobs : failed[j] \in Nat /\ store[j].failures \in Nat
  BY DeliveryAssumption DEF TypeOK, Record
<1> HIDE DEF Within
<1>1. ASSUME NEW w \in Workers, Pop(w) PROVE BudgetInv'
  <2>1. \A j \in Jobs : j \in Unsaved' <=> j \in Unsaved
    BY <1>1, PopFacts DEF Pop, Unsaved
  <2> QED
    BY <1>1, <1>a, <1>b, <2>1 DEF Pop
<1>2. ASSUME NEW w \in Workers, SkipDead(w) PROVE BudgetInv'
  <2>1. /\ failed' = failed /\ store' = store /\ crashes' = crashes
        /\ job'[w] \in {job[w], None}
        /\ pc[w] \notin {"idle", "failed"} /\ pc'[w] = "returning" /\ job[w] \in Jobs
        /\ \A v \in Workers : v # w => pc'[v] = pc[v] /\ job'[v] = job[v]
    BY <1>2 DEF SkipDead, Go, TypeOK
  <2>2. \A j \in Jobs : j \in Unsaved' <=> j \in Unsaved
    BY <2>1, UnsavedFacts
  <2> QED
    BY <1>a, <1>b, <2>1, <2>2
<1>3. ASSUME NEW w \in Workers, Hydrate(w) PROVE BudgetInv'
  <2>1. pc[w] # "idle" /\ job[w] \in Jobs /\ copy[w] \in Record /\ store[job[w]] \in Record
    BY <1>3 DEF Hydrate, TypeOK
  <2> DEFINE r == [copy[w] EXCEPT !.failures = store[job[w]].failures]
  <2>2. r \in Record /\ Save(w, r)
    BY <1>3, <2>1, Records DEF Hydrate, Terminal, Dead
  <2>3. /\ r.failures = store[job[w]].failures /\ store[job[w]].state \notin Dead
        /\ r.state \notin Dead
    BY <1>3, <2>1, <1>c DEF Hydrate, CopyInv, Record, NewJob, Counted, Cleared, Dead
  <2> HIDE DEF r
  <2>4. /\ \A v \in Workers : v # w => pc'[v] = pc[v] /\ job'[v] = job[v]
        /\ job'[w] = job[w] /\ pc'[w] = "hydrated" /\ crashes' = crashes /\ failed' = failed
    BY <1>3 DEF Hydrate, Go, TypeOK
  <2>5. \A j \in Jobs : j # job[w] => Within(failed'[j], store'[j], crashes', j \in Unsaved')
    <3>1. \A j \in Jobs : j # job[w] => store'[j] = store[j] /\ failed'[j] = failed[j]
      BY <2>1, <2>2, <2>4, SaveFacts DEF TypeOK
    <3>2. \A j \in Jobs : j # job[w] => (j \in Unsaved' <=> j \in Unsaved)
      BY <2>1, <2>4, <3>1, UnsavedFacts
    <3> QED
      BY <1>a, <2>4, <3>1, <3>2 DEF Within
  <2>6. Within(failed'[job[w]], store'[job[w]], crashes', job[w] \in Unsaved')
    <3>1. store'[job[w]] = r
      BY <2>1, <2>2, SaveFacts
    <3>2. /\ job[w] \in Unsaved' <=> r.state = "failed"
          /\ job[w] \in Unsaved <=> store[job[w]].state = "failed" \/ pc[w] = "failed"
      BY <2>1, <2>4, <3>1, UnsavedFacts
    <3>3. Within(failed[job[w]], store[job[w]], crashes, job[w] \in Unsaved)
      BY <1>a, <2>1
    <3>4. pc[w] = "failed" <=> FALSE
      BY <1>3 DEF Hydrate
    <3>5. failed'[job[w]] = failed[job[w]] /\ failed[job[w]] \in Nat /\ r.failures \in Nat
      BY <1>c, <2>1, <2>2, <2>4, Records DEF TypeOK
    <3> QED
      BY <1>c, <2>1, <2>3, <2>4, <3>1, <3>2, <3>3, <3>4, <3>5 DEF Within, Dead
  <2> QED
    BY <1>b, <2>5, <2>6
<1>4. ASSUME NEW w \in Workers, Recover(w) PROVE BudgetInv'
  <2>1. pc[w] # "idle" /\ job[w] \in Jobs /\ copy[w] \in Record /\ store[job[w]] \in Record
    BY <1>4 DEF Recover, TypeOK
  <2> DEFINE r == [copy[w] EXCEPT !.crashes = @ + 1]
  <2>2. r \in Record /\ Save(w, r)
    BY <1>4, <2>1, Records DEF Recover, Terminal, Dead
  <2>3. /\ r.failures = store[job[w]].failures /\ store[job[w]].state \notin Dead
        /\ r.state \notin Dead
    BY <1>4, <2>1, <1>c DEF Recover, CopyInv, Record, NewJob, Counted, Cleared, Dead
  <2> HIDE DEF r
  <2>4. /\ \A v \in Workers : v # w => pc'[v] = pc[v] /\ job'[v] = job[v]
        /\ job'[w] = job[w] /\ pc'[w] = "gate" /\ crashes' = crashes /\ failed' = failed
    BY <1>4 DEF Recover, Go, TypeOK
  <2>5. \A j \in Jobs : j # job[w] => Within(failed'[j], store'[j], crashes', j \in Unsaved')
    <3>1. \A j \in Jobs : j # job[w] => store'[j] = store[j] /\ failed'[j] = failed[j]
      BY <2>1, <2>2, <2>4, SaveFacts DEF TypeOK
    <3>2. \A j \in Jobs : j # job[w] => (j \in Unsaved' <=> j \in Unsaved)
      BY <2>1, <2>4, <3>1, UnsavedFacts
    <3> QED
      BY <1>a, <2>4, <3>1, <3>2 DEF Within
  <2>6. Within(failed'[job[w]], store'[job[w]], crashes', job[w] \in Unsaved')
    <3>1. store'[job[w]] = r
      BY <2>1, <2>2, SaveFacts
    <3>2. /\ job[w] \in Unsaved' <=> r.state = "failed"
          /\ job[w] \in Unsaved <=> store[job[w]].state = "failed" \/ pc[w] = "failed"
      BY <2>1, <2>4, <3>1, UnsavedFacts
    <3>3. Within(failed[job[w]], store[job[w]], crashes, job[w] \in Unsaved)
      BY <1>a, <2>1
    <3>4. pc[w] = "failed" <=> FALSE
      BY <1>4 DEF Recover
    <3>5. failed'[job[w]] = failed[job[w]] /\ failed[job[w]] \in Nat /\ r.failures \in Nat
      BY <1>c, <2>1, <2>2, <2>4, Records DEF TypeOK
    <3> QED
      BY <1>c, <2>1, <2>3, <2>4, <3>1, <3>2, <3>3, <3>4, <3>5 DEF Within, Dead
  <2> QED
    BY <1>b, <2>5, <2>6
<1>5. ASSUME NEW w \in Workers, Start(w) PROVE BudgetInv'
  <2>1. pc[w] # "idle" /\ job[w] \in Jobs /\ copy[w] \in Record /\ store[job[w]] \in Record
    BY <1>5 DEF Start, TypeOK
  <2> DEFINE r == [copy[w] EXCEPT !.state = "running"]
  <2>2. r \in Record /\ Save(w, r)
    BY <1>5, <2>1, Records DEF Start, Terminal, Dead
  <2>3. /\ r.failures = store[job[w]].failures /\ store[job[w]].state \notin Dead
        /\ r.state \notin Dead
    BY <1>5, <2>1, <1>c DEF Start, CopyInv, Record, NewJob, Counted, Cleared, Dead
  <2> HIDE DEF r
  <2>4. /\ \A v \in Workers : v # w => pc'[v] = pc[v] /\ job'[v] = job[v]
        /\ job'[w] = job[w] /\ pc'[w] = "gate" /\ crashes' = crashes /\ failed' = failed
    BY <1>5 DEF Start, Go, TypeOK
  <2>5. \A j \in Jobs : j # job[w] => Within(failed'[j], store'[j], crashes', j \in Unsaved')
    <3>1. \A j \in Jobs : j # job[w] => store'[j] = store[j] /\ failed'[j] = failed[j]
      BY <2>1, <2>2, <2>4, SaveFacts DEF TypeOK
    <3>2. \A j \in Jobs : j # job[w] => (j \in Unsaved' <=> j \in Unsaved)
      BY <2>1, <2>4, <3>1, UnsavedFacts
    <3> QED
      BY <1>a, <2>4, <3>1, <3>2 DEF Within
  <2>6. Within(failed'[job[w]], store'[job[w]], crashes', job[w] \in Unsaved')
    <3>1. store'[job[w]] = r
      BY <2>1, <2>2, SaveFacts
    <3>2. /\ job[w] \in Unsaved' <=> r.state = "failed"
          /\ job[w] \in Unsaved <=> store[job[w]].state = "failed" \/ pc[w] = "failed"
      BY <2>1, <2>4, <3>1, UnsavedFacts
    <3>3. Within(failed[job[w]], store[job[w]], crashes, job[w] \in Unsaved)
      BY <1>a, <2>1
    <3>4. pc[w] = "failed" <=> FALSE
      BY <1>5 DEF Start
    <3>5. failed'[job[w]] = failed[job[w]] /\ failed[job[w]] \in Nat /\ r.failures \in Nat
      BY <1>c, <2>1, <2>2, <2>4, Records DEF TypeOK
    <3> QED
      BY <1>c, <2>1, <2>3, <2>4, <3>1, <3>2, <3>3, <3>4, <3>5 DEF Within, Dead
  <2> QED
    BY <1>b, <2>5, <2>6
<1>6. ASSUME NEW w \in Workers, Raise(w) PROVE BudgetInv'
  <2>1. /\ failed' = failed /\ store' = store /\ crashes' = crashes
        /\ job'[w] \in {job[w], None}
        /\ pc[w] \notin {"idle", "failed"} /\ pc'[w] = "idle" /\ job[w] \in Jobs
        /\ \A v \in Workers : v # w => pc'[v] = pc[v] /\ job'[v] = job[v]
    BY <1>6 DEF Raise, Go, TypeOK
  <2>2. \A j \in Jobs : j \in Unsaved' <=> j \in Unsaved
    BY <2>1, UnsavedFacts
  <2> QED
    BY <1>a, <1>b, <2>1, <2>2
<1>7. ASSUME NEW w \in Workers, FallBack(w) PROVE BudgetInv'
  <2>1. pc[w] # "idle" /\ job[w] \in Jobs /\ copy[w] \in Record /\ store[job[w]] \in Record
    BY <1>7 DEF FallBack, TypeOK
  <2> DEFINE r == [copy[w] EXCEPT !.state = "succeeded"]
  <2>2. r \in Record /\ Save(w, r)
    BY <1>7, <2>1, Records DEF FallBack, Terminal, Dead
  <2>3. /\ r.failures = store[job[w]].failures /\ store[job[w]].state \notin Dead
        /\ r.state \notin Dead
    BY <1>7, <2>1, <1>c DEF FallBack, CopyInv, Record, NewJob, Counted, Cleared, Dead
  <2> HIDE DEF r
  <2>4. /\ \A v \in Workers : v # w => pc'[v] = pc[v] /\ job'[v] = job[v]
        /\ job'[w] = job[w] /\ pc'[w] = "returning" /\ crashes' = crashes /\ failed' = failed
    BY <1>7 DEF FallBack, Go, TypeOK
  <2>5. \A j \in Jobs : j # job[w] => Within(failed'[j], store'[j], crashes', j \in Unsaved')
    <3>1. \A j \in Jobs : j # job[w] => store'[j] = store[j] /\ failed'[j] = failed[j]
      BY <2>1, <2>2, <2>4, SaveFacts DEF TypeOK
    <3>2. \A j \in Jobs : j # job[w] => (j \in Unsaved' <=> j \in Unsaved)
      BY <2>1, <2>4, <3>1, UnsavedFacts
    <3> QED
      BY <1>a, <2>4, <3>1, <3>2 DEF Within
  <2>6. Within(failed'[job[w]], store'[job[w]], crashes', job[w] \in Unsaved')
    <3>1. store'[job[w]] = r
      BY <2>1, <2>2, SaveFacts
    <3>2. /\ job[w] \in Unsaved' <=> r.state = "failed"
          /\ job[w] \in Unsaved <=> store[job[w]].state = "failed" \/ pc[w] = "failed"
      BY <2>1, <2>4, <3>1, UnsavedFacts
    <3>3. Within(failed[job[w]], store[job[w]], crashes, job[w] \in Unsaved)
      BY <1>a, <2>1
    <3>4. pc[w] = "failed" <=> FALSE
      BY <1>7 DEF FallBack
    <3>5. failed'[job[w]] = failed[job[w]] /\ failed[job[w]] \in Nat /\ r.failures \in Nat
      BY <1>c, <2>1, <2>2, <2>4, Records DEF TypeOK
    <3> QED
      BY <1>c, <2>1, <2>3, <2>4, <3>1, <3>2, <3>3, <3>4, <3>5 DEF Within, Dead
  <2> QED
    BY <1>b, <2>5, <2>6
<1>8. ASSUME NEW w \in Workers, Enter(w) PROVE BudgetInv'
  <2>1. /\ failed' = failed /\ store' = store /\ crashes' = crashes
        /\ job'[w] \in {job[w], None}
        /\ pc[w] \notin {"idle", "failed"} /\ pc'[w] = "cycle" /\ job[w] \in Jobs
        /\ \A v \in Workers : v # w => pc'[v] = pc[v] /\ job'[v] = job[v]
    BY <1>8 DEF Enter, Go, TypeOK
  <2>2. \A j \in Jobs : j \in Unsaved' <=> j \in Unsaved
    BY <2>1, UnsavedFacts
  <2> QED
    BY <1>a, <1>b, <2>1, <2>2
<1>9. ASSUME NEW w \in Workers, GoodCycle(w) PROVE BudgetInv'
  <2>1. pc[w] # "idle" /\ job[w] \in Jobs /\ copy[w] \in Record /\ store[job[w]] \in Record
    BY <1>9 DEF GoodCycle, Succeeds, TypeOK
  <2> DEFINE r == Cleared(copy[w])
  <2>2. r \in Record /\ Save(w, r)
    BY <1>9, <2>1, Records DEF GoodCycle, Succeeds, Terminal, Dead
  <2>3. r.failures = 0 /\ r.state = "running"
    BY <1>9, <2>1, <1>c DEF GoodCycle, Succeeds, CopyInv, Record, NewJob, Counted, Cleared,
       Dead
  <2> HIDE DEF r
  <2>4. /\ \A v \in Workers : v # w => pc'[v] = pc[v] /\ job'[v] = job[v]
        /\ job'[w] = job[w] /\ pc'[w] = "cycle" /\ crashes' = crashes /\ failed' = [failed EXCEPT ![job[w]] = 0]
    BY <1>9 DEF GoodCycle, Succeeds, Go, TypeOK
  <2>5. \A j \in Jobs : j # job[w] => Within(failed'[j], store'[j], crashes', j \in Unsaved')
    <3>1. \A j \in Jobs : j # job[w] => store'[j] = store[j] /\ failed'[j] = failed[j]
      BY <2>1, <2>2, <2>4, SaveFacts DEF TypeOK
    <3>2. \A j \in Jobs : j # job[w] => (j \in Unsaved' <=> j \in Unsaved)
      BY <2>1, <2>4, <3>1, UnsavedFacts
    <3> QED
      BY <1>a, <2>4, <3>1, <3>2 DEF Within
  <2>6. Within(failed'[job[w]], store'[job[w]], crashes', job[w] \in Unsaved')
    <3>1. store'[job[w]] = r
      BY <2>1, <2>2, SaveFacts
    <3>2. /\ job[w] \in Unsaved' <=> r.state = "failed"
          /\ job[w] \in Unsaved <=> store[job[w]].state = "failed" \/ pc[w] = "failed"
      BY <2>1, <2>4, <3>1, UnsavedFacts
    <3>3. Within(failed[job[w]], store[job[w]], crashes, job[w] \in Unsaved)
      BY <1>a, <2>1
    <3>4. pc[w] = "failed" <=> FALSE
      BY <1>9 DEF GoodCycle, Succeeds
    <3>5. failed'[job[w]] = 0 /\ failed[job[w]] \in Nat /\ r.failures \in Nat
      BY <1>c, <2>1, <2>2, <2>4, Records DEF TypeOK
    <3> QED
      BY <1>c, <2>1, <2>3, <2>4, <3>1, <3>2, <3>3, <3>4, <3>5 DEF Within, Dead
  <2> QED
    BY <1>b, <2>5, <2>6
<1>10. ASSUME NEW w \in Workers, LastCycle(w) PROVE BudgetInv'
  <2>1. pc[w] # "idle" /\ job[w] \in Jobs /\ copy[w] \in Record /\ store[job[w]] \in Record
    BY <1>10 DEF LastCycle, Succeeds, TypeOK
  <2> DEFINE r == Cleared(copy[w])
  <2>2. r \in Record /\ Save(w, r)
    BY <1>10, <2>1, Records DEF LastCycle, Succeeds, Terminal, Dead
  <2>3. r.failures = 0 /\ r.state = "running"
    BY <1>10, <2>1, <1>c DEF LastCycle, Succeeds, CopyInv, Record, NewJob, Counted, Cleared,
       Dead
  <2> HIDE DEF r
  <2>4. /\ \A v \in Workers : v # w => pc'[v] = pc[v] /\ job'[v] = job[v]
        /\ job'[w] = job[w] /\ pc'[w] = "done" /\ crashes' = crashes /\ failed' = [failed EXCEPT ![job[w]] = 0]
    BY <1>10 DEF LastCycle, Succeeds, Go, TypeOK
  <2>5. \A j \in Jobs : j # job[w] => Within(failed'[j], store'[j], crashes', j \in Unsaved')
    <3>1. \A j \in Jobs : j # job[w] => store'[j] = store[j] /\ failed'[j] = failed[j]
      BY <2>1, <2>2, <2>4, SaveFacts DEF TypeOK
    <3>2. \A j \in Jobs : j # job[w] => (j \in Unsaved' <=> j \in Unsaved)
      BY <2>1, <2>4, <3>1, UnsavedFacts
    <3> QED
      BY <1>a, <2>4, <3>1, <3>2 DEF Within
  <2>6. Within(failed'[job[w]], store'[job[w]], crashes', job[w] \in Unsaved')
    <3>1. store'[job[w]] = r
      BY <2>1, <2>2, SaveFacts
    <3>2. /\ job[w] \in Unsaved' <=> r.state = "failed"
          /\ job[w] \in Unsaved <=> store[job[w]].state = "failed" \/ pc[w] = "failed"
      BY <2>1, <2>4, <3>1, UnsavedFacts
    <3>3. Within(failed[job[w]], store[job[w]], crashes, job[w] \in Unsaved)
      BY <1>a, <2>1
    <3>4. pc[w] = "failed" <=> FALSE
      BY <1>10 DEF LastCycle, Succeeds
    <3>5. failed'[job[w]] = 0 /\ failed[job[w]] \in Nat /\ r.failures \in Nat
      BY <1>c, <2>1, <2>2, <2>4, Records DEF TypeOK
    <3> QED
      BY <1>c, <2>1, <2>3, <2>4, <3>1, <3>2, <3>3, <3>4, <3>5 DEF Within, Dead
  <2> QED
    BY <1>b, <2>5, <2>6
<1>11. ASSUME NEW w \in Workers, MarkSucceeded(w) PROVE BudgetInv'
  <2>1. pc[w] # "idle" /\ job[w] \in Jobs /\ copy[w] \in Record /\ store[job[w]] \in Record
    BY <1>11 DEF MarkSucceeded, TypeOK
  <2> DEFINE r == [copy[w] EXCEPT !.state = "succeeded"]
  <2>2. r \in Record /\ Save(w, r)
    BY <1>11, <2>1, Records DEF MarkSucceeded, Terminal, Dead
  <2>3. /\ r.failures = store[job[w]].failures /\ store[job[w]].state \notin Dead
        /\ r.state \notin Dead
    BY <1>11, <2>1, <1>c DEF MarkSucceeded, CopyInv, Record, NewJob, Counted, Cleared, Dead
  <2> HIDE DEF r
  <2>4. /\ \A v \in Workers : v # w => pc'[v] = pc[v] /\ job'[v] = job[v]
        /\ job'[w] = job[w] /\ pc'[w] = "returning" /\ crashes' = crashes /\ failed' = failed
    BY <1>11 DEF MarkSucceeded, Go, TypeOK
  <2>5. \A j \in Jobs : j # job[w] => Within(failed'[j], store'[j], crashes', j \in Unsaved')
    <3>1. \A j \in Jobs : j # job[w] => store'[j] = store[j] /\ failed'[j] = failed[j]
      BY <2>1, <2>2, <2>4, SaveFacts DEF TypeOK
    <3>2. \A j \in Jobs : j # job[w] => (j \in Unsaved' <=> j \in Unsaved)
      BY <2>1, <2>4, <3>1, UnsavedFacts
    <3> QED
      BY <1>a, <2>4, <3>1, <3>2 DEF Within
  <2>6. Within(failed'[job[w]], store'[job[w]], crashes', job[w] \in Unsaved')
    <3>1. store'[job[w]] = r
      BY <2>1, <2>2, SaveFacts
    <3>2. /\ job[w] \in Unsaved' <=> r.state = "failed"
          /\ job[w] \in Unsaved <=> store[job[w]].state = "failed" \/ pc[w] = "failed"
      BY <2>1, <2>4, <3>1, UnsavedFacts
    <3>3. Within(failed[job[w]], store[job[w]], crashes, job[w] \in Unsaved)
      BY <1>a, <2>1
    <3>4. pc[w] = "failed" <=> FALSE
      BY <1>11 DEF MarkSucceeded
    <3>5. failed'[job[w]] = failed[job[w]] /\ failed[job[w]] \in Nat /\ r.failures \in Nat
      BY <1>c, <2>1, <2>2, <2>4, Records DEF TypeOK
    <3> QED
      BY <1>c, <2>1, <2>3, <2>4, <3>1, <3>2, <3>3, <3>4, <3>5 DEF Within, Dead
  <2> QED
    BY <1>b, <2>5, <2>6
<1>12. ASSUME NEW w \in Workers, Fails(w) PROVE BudgetInv'
  <2>1. /\ pc[w] = "cycle" /\ job[w] \in Jobs /\ store' = store /\ crashes' = crashes
        /\ failed' = [failed EXCEPT ![job[w]] = @ + 1]
        /\ \A v \in Workers : v # w => pc'[v] = pc[v] /\ job'[v] = job[v]
        /\ job'[w] = job[w] /\ pc'[w] = "failed" /\ store[job[w]].state = "running"
    BY <1>12 DEF Fails, Go, TypeOK, CopyInv
  <2>a. /\ job[w] \in Unsaved' /\ job[w] \notin Unsaved
        /\ \A j \in Jobs : j # job[w] => (j \in Unsaved' <=> j \in Unsaved)
    BY <2>1, UnsavedFacts
  <2>b. /\ failed'[job[w]] = failed[job[w]] + 1
        /\ \A j \in Jobs : j # job[w] => failed'[j] = failed[j]
    BY <2>1 DEF TypeOK
  <2>2. \A j \in Jobs : j # job[w] => Within(failed'[j], store'[j], crashes', j \in Unsaved')
    BY <1>a, <2>1, <2>a, <2>b
  <2>3. job[w] \in Unsaved' /\ job[w] \notin Unsaved /\ failed'[job[w]] = failed[job[w]] + 1
    BY <2>a, <2>b
  <2> QED
    BY <1>a, <1>b, <1>c, <2>1, <2>2, <2>3 DEF Within
<1>13. ASSUME NEW w \in Workers, MarkPoison(w) PROVE BudgetInv'
  <2>1. pc[w] # "idle" /\ job[w] \in Jobs /\ copy[w] \in Record /\ store[job[w]] \in Record
    BY <1>13 DEF MarkPoison, TypeOK
  <2> DEFINE r == [Counted(copy[w]) EXCEPT !.state = "poison"]
  <2>2. r \in Record /\ Save(w, r)
    BY <1>13, <2>1, Records DEF MarkPoison, Terminal, Dead
  <2>3. /\ r.failures = store[job[w]].failures + 1 /\ r.state = "poison"
        /\ store[job[w]].state = "running" /\ pc[w] = "failed"
    BY <1>13, <2>1, <1>c DEF MarkPoison, CopyInv, Record, NewJob, Counted, Cleared, Dead
  <2> HIDE DEF r
  <2>4. /\ \A v \in Workers : v # w => pc'[v] = pc[v] /\ job'[v] = job[v]
        /\ job'[w] = job[w] /\ pc'[w] = "returning" /\ crashes' = crashes /\ failed' = failed
    BY <1>13 DEF MarkPoison, Go, TypeOK
  <2>5. \A j \in Jobs : j # job[w] => Within(failed'[j], store'[j], crashes', j \in Unsaved')
    <3>1. \A j \in Jobs : j # job[w] => store'[j] = store[j] /\ failed'[j] = failed[j]
      BY <2>1, <2>2, <2>4, SaveFacts DEF TypeOK
    <3>2. \A j \in Jobs : j # job[w] => (j \in Unsaved' <=> j \in Unsaved)
      BY <2>1, <2>4, <3>1, UnsavedFacts
    <3> QED
      BY <1>a, <2>4, <3>1, <3>2 DEF Within
  <2>6. Within(failed'[job[w]], store'[job[w]], crashes', job[w] \in Unsaved')
    <3>1. store'[job[w]] = r
      BY <2>1, <2>2, SaveFacts
    <3>2. /\ job[w] \in Unsaved' <=> r.state = "failed"
          /\ job[w] \in Unsaved <=> store[job[w]].state = "failed" \/ pc[w] = "failed"
      BY <2>1, <2>4, <3>1, UnsavedFacts
    <3>3. Within(failed[job[w]], store[job[w]], crashes, job[w] \in Unsaved)
      BY <1>a, <2>1
    <3>4. pc[w] = "failed" <=> TRUE
      BY <1>13 DEF MarkPoison
    <3>5. failed'[job[w]] = failed[job[w]] /\ failed[job[w]] \in Nat /\ r.failures \in Nat
      BY <1>c, <2>1, <2>2, <2>4, Records DEF TypeOK
    <3> QED
      BY <1>c, <2>1, <2>3, <2>4, <3>1, <3>2, <3>3, <3>4, <3>5 DEF Within, Dead
  <2> QED
    BY <1>b, <2>5, <2>6
<1>14. ASSUME NEW w \in Workers, Retry(w) PROVE BudgetInv'
  <2>1. pc[w] # "idle" /\ job[w] \in Jobs /\ copy[w] \in Record /\ store[job[w]] \in Record
    BY <1>14 DEF Retry, TypeOK
  <2> DEFINE r == Counted(copy[w])
  <2>2. r \in Record /\ Save(w, r)
    BY <1>14, <2>1, Records DEF Retry, Terminal, Dead
  <2>3. /\ r.failures = store[job[w]].failures + 1 /\ r.failures <= PoisonAt
        /\ pc[w] = "failed"
    BY <1>14, <2>1, <1>c DEF Retry, CopyInv, Record, NewJob, Counted, Cleared, Dead
  <2> HIDE DEF r
  <2>4. /\ \A v \in Workers : v # w => pc'[v] = pc[v] /\ job'[v] = job[v]
        /\ job'[w] = job[w] /\ pc'[w] = "cycle" /\ crashes' = crashes /\ failed' = failed
    BY <1>14 DEF Retry, Go, TypeOK
  <2>5. \A j \in Jobs : j # job[w] => Within(failed'[j], store'[j], crashes', j \in Unsaved')
    <3>1. \A j \in Jobs : j # job[w] => store'[j] = store[j] /\ failed'[j] = failed[j]
      BY <2>1, <2>2, <2>4, SaveFacts DEF TypeOK
    <3>2. \A j \in Jobs : j # job[w] => (j \in Unsaved' <=> j \in Unsaved)
      BY <2>1, <2>4, <3>1, UnsavedFacts
    <3> QED
      BY <1>a, <2>4, <3>1, <3>2 DEF Within
  <2>6. Within(failed'[job[w]], store'[job[w]], crashes', job[w] \in Unsaved')
    <3>1. store'[job[w]] = r
      BY <2>1, <2>2, SaveFacts
    <3>2. /\ job[w] \in Unsaved' <=> r.state = "failed"
          /\ job[w] \in Unsaved <=> store[job[w]].state = "failed" \/ pc[w] = "failed"
      BY <2>1, <2>4, <3>1, UnsavedFacts
    <3>3. Within(failed[job[w]], store[job[w]], crashes, job[w] \in Unsaved)
      BY <1>a, <2>1
    <3>4. pc[w] = "failed" <=> TRUE
      BY <1>14 DEF Retry
    <3>5. failed'[job[w]] = failed[job[w]] /\ failed[job[w]] \in Nat /\ r.failures \in Nat
      BY <1>c, <2>1, <2>2, <2>4, Records DEF TypeOK
    <3> QED
      BY <1>c, <2>1, <2>3, <2>4, <3>1, <3>2, <3>3, <3>4, <3>5 DEF Within, Dead
  <2> QED
    BY <1>b, <2>5, <2>6
<1>15. ASSUME NEW w \in Workers, Panic(w) PROVE BudgetInv'
  <2>1. pc[w] # "idle" /\ job[w] \in Jobs /\ copy[w] \in Record /\ store[job[w]] \in Record
    BY <1>15 DEF Panic, TypeOK
  <2> DEFINE r == [copy[w] EXCEPT !.panics = @ + 1, !.consecutive = @ + 1, !.state = "failed"]
  <2>2. r \in Record /\ Save(w, r)
    BY <1>15, <2>1, Records DEF Panic, Terminal, Dead
  <2>3. /\ r.failures = store[job[w]].failures /\ r.state = "failed"
        /\ r.failures <= PoisonAt
    BY <1>15, <2>1, <1>c DEF Panic, CopyInv, Record, NewJob, Counted, Cleared, Dead
  <2> HIDE DEF r
  <2>4. /\ \A v \in Workers : v # w => pc'[v] = pc[v] /\ job'[v] = job[v]
        /\ job'[w] = job[w] /\ pc'[w] = "returning" /\ crashes' = crashes /\ failed' = failed
    BY <1>15 DEF Panic, Go, TypeOK
  <2>5. \A j \in Jobs : j # job[w] => Within(failed'[j], store'[j], crashes', j \in Unsaved')
    <3>1. \A j \in Jobs : j # job[w] => store'[j] = store[j] /\ failed'[j] = failed[j]
      BY <2>1, <2>2, <2>4, SaveFacts DEF TypeOK
    <3>2. \A j \in Jobs : j # job[w] => (j \in Unsaved' <=> j \in Unsaved)
      BY <2>1, <2>4, <3>1, UnsavedFacts
    <3> QED
      BY <1>a, <2>4, <3>1, <3>2 DEF Within
  <2>6. Within(failed'[job[w]], store'[job[w]], crashes', job[w] \in Unsaved')
    <3>1. store'[job[w]] = r
      BY <2>1, <2>2, SaveFacts
    <3>2. /\ job[w] \in Unsaved' <=> r.state = "failed"
          /\ job[w] \in Unsaved <=> store[job[w]].state = "failed" \/ pc[w] = "failed"
      BY <2>1, <2>4, <3>1, UnsavedFacts
    <3>3. Within(failed[job[w]], store[job[w]], crashes, job[w] \in Unsaved)
      BY <1>a, <2>1
    <3>4. pc[w] = "failed" <=> TRUE
      BY <1>15 DEF Panic
    <3>5. failed'[job[w]] = failed[job[w]] /\ failed[job[w]] \in Nat /\ r.failures \in Nat
      BY <1>c, <2>1, <2>2, <2>4, Records DEF TypeOK
    <3> QED
      BY <1>c, <2>1, <2>3, <2>4, <3>1, <3>2, <3>3, <3>4, <3>5 DEF Within, Dead
  <2> QED
    BY <1>b, <2>5, <2>6
<1>16. ASSUME NEW w \in Workers, Return(w) PROVE BudgetInv'
  <2>1. /\ failed' = failed /\ store' = store /\ crashes' = crashes
        /\ job'[w] \in {job[w], None}
        /\ pc[w] \notin {"idle", "failed"} /\ pc'[w] = "idle" /\ job[w] \in Jobs
        /\ \A v \in Workers : v # w => pc'[v] = pc[v] /\ job'[v] = job[v]
    BY <1>16 DEF Return, Go, TypeOK
  <2>2. \A j \in Jobs : j \in Unsaved' <=> j \in Unsaved
    BY <2>1, UnsavedFacts
  <2> QED
    BY <1>a, <1>b, <2>1, <2>2
<1>17. ASSUME NEW w \in Workers, Crash(w) PROVE BudgetInv'
  <2>1. failed' = failed /\ store' = store /\ crashes' = crashes + 1
    BY <1>17 DEF Crash
  <2>2. /\ pc[w] # "idle" /\ job[w] \in Jobs /\ job'[w] = None
        /\ \A v \in Workers : v # w => pc'[v] = pc[v] /\ job'[v] = job[v]
    BY <1>17 DEF Crash, Go, TypeOK
  <2>3. \A j \in Jobs : j # job[w] => (j \in Unsaved' <=> j \in Unsaved)
    BY <2>1, <2>2, UnsavedFacts
  <2> QED
    BY <1>a, <1>b, <1>c, <2>1, <2>3 DEF Within
<1>18. ASSUME NEW j \in Jobs, RequeueFront(j) \/ RemoveLease(j) \/ PushBack(j) PROVE BudgetInv'
  BY <1>18, <1>a, <1>b DEF RequeueFront, RemoveLease, PushBack, locals, Unsaved
<1>19. CASE RequeuerCrash
  <2>1. \A j \in Jobs : j \in Unsaved' <=> j \in Unsaved
    BY <1>19 DEF RequeuerCrash, locals, Unsaved
  <2>2. failed' = failed /\ store' = store /\ crashes' = crashes + 1
    BY <1>19 DEF RequeuerCrash
  <2> QED
    BY <1>a, <1>b, <1>c, <2>1, <2>2 DEF Within
<1>20. CASE UNCHANGED vars
  BY <1>20, <1>a, <1>b DEF vars, queues, locals, Unsaved
<1>21. ASSUME NEW w \in Workers, Malformed(w) PROVE BudgetInv'
  <2>1. pc[w] # "idle" /\ job[w] \in Jobs /\ copy[w] \in Record /\ store[job[w]] \in Record
    BY <1>21 DEF Malformed, TypeOK
  <2> DEFINE r == [Cleared(copy[w]) EXCEPT !.state = "failed"]
  <2>2. r \in Record /\ Save(w, r)
    BY <1>21, <2>1, Records DEF Malformed, Terminal, Dead
  <2>3. r.failures = 0 /\ r.state = "failed"
    BY <2>1 DEF Record, Cleared
  <2> HIDE DEF r
  <2>4. /\ \A v \in Workers : v # w => pc'[v] = pc[v] /\ job'[v] = job[v]
        /\ job'[w] = job[w] /\ pc'[w] = "returning" /\ crashes' = crashes
        /\ failed' = [failed EXCEPT ![job[w]] = 0]
    BY <1>21 DEF Malformed, Go, TypeOK
  <2>5. \A j \in Jobs : j # job[w] => Within(failed'[j], store'[j], crashes', j \in Unsaved')
    <3>1. \A j \in Jobs : j # job[w] => store'[j] = store[j] /\ failed'[j] = failed[j]
      BY <2>1, <2>2, <2>4, SaveFacts DEF TypeOK
    <3>2. \A j \in Jobs : j # job[w] => (j \in Unsaved' <=> j \in Unsaved)
      BY <2>1, <2>4, <3>1, UnsavedFacts
    <3> QED
      BY <1>a, <2>4, <3>1, <3>2 DEF Within
  <2>6. Within(failed'[job[w]], store'[job[w]], crashes', job[w] \in Unsaved')
    <3>1. store'[job[w]] = r
      BY <2>1, <2>2, SaveFacts
    <3>2. failed'[job[w]] = 0
      BY <2>1, <2>4 DEF TypeOK
    <3> QED
      BY <1>c, <2>3, <2>4, <3>1, <3>2 DEF Within
  <2> QED
    BY <1>b, <2>5, <2>6
<1> QED
  BY <1>1, <1>2, <1>3, <1>4, <1>5, <1>6, <1>7, <1>8, <1>9, <1>10, <1>11, <1>12, <1>13, <1>14,
       <1>15, <1>16, <1>17, <1>18, <1>19, <1>20, <1>21 DEF Next, Work, Requeue

------------------------------------------------------------------------------
(* What is delivered while nothing has crashed. *)
LEMMA CalmStep ==
  ASSUME TypeOK, HoldInv, OnePlace, CopyInv, CalmInv, [Next]_vars
  PROVE  CalmInv'
<1> DEFINE Fresh(p, c) == /\ p \in {"popped", "hydrated"} => c.state = "pending"
                          /\ p \in {"popped", "hydrated", "gate"} => Steady(c)
           Waiting == orphans = {} /\ moving = {} /\ \A j \in Elements(queue) : store[j] = NewJob
<1>a. (crashes = 0 => Waiting) /\ (Calm => \A w \in Workers : Fresh(pc[w], copy[w]))
  BY DEF CalmInv
<1>b. ASSUME crashes' = 0 => Waiting', Calm' => \A w \in Workers : Fresh(pc'[w], copy'[w])
      PROVE  CalmInv'
  BY <1>b DEF CalmInv, Steady
<1>c. /\ Elements(queue) \subseteq Jobs /\ crashes \in Nat
      /\ \A v \in Workers : pc[v] # "idle" => job[v] \notin Elements(queue) /\ job[v] \in Jobs
  <2>1. Elements(queue) \subseteq Jobs
    BY LenProperties, ElementOfSeq DEF Elements, TypeOK
  <2> QED
    BY <2>1, Apart DEF HoldInv, TypeOK
<1>d. backend' = backend
  BY SameBackend
<1>e. ASSUME NEW w \in Workers, pc[w] # "idle", NEW r \in Record, Save(w, r),
             UNCHANGED <<crashes, orphans, moving, queue>>
      PROVE  crashes' = 0 => Waiting'
  <2>1. \A j \in Jobs : j # job[w] => store'[j] = store[j]
    BY <1>e, SaveFacts
  <2>2. job[w] \notin Elements(queue)
    BY <1>c, <1>e
  <2>3. Elements(queue') = Elements(queue)
    BY <1>e
  <2> QED
    BY <1>a, <1>c, <1>e, <2>1, <2>2, <2>3
<1> HIDE DEF Fresh, Waiting
<1>1. ASSUME NEW w \in Workers, Pop(w) PROVE CalmInv'
  <2>1. crashes' = crashes /\ UNCHANGED <<orphans, moving, store>>
    BY <1>1 DEF Pop
  <2>2. crashes' = 0 => Waiting'
    <3>1. Elements(queue') \subseteq Elements(queue)
      BY <1>1, PopFacts DEF Pop
    <3> QED
      BY <1>a, <2>1, <3>1 DEF Waiting
  <2>3. \A v \in Workers : v # w => pc'[v] = pc[v] /\ copy'[v] = copy[v]
    BY <1>1, PopFacts DEF Pop, TypeOK
  <2>4. Calm => copy'[w] = NewJob /\ pc'[w] = "popped"
    BY <1>1, <1>a, PopFacts DEF Pop, Waiting, Calm, TypeOK
  <2>5. Fresh("popped", NewJob)
    BY DEF Fresh, NewJob, Steady
  <2> QED
    BY <1>a, <1>b, <1>d, <2>1, <2>2, <2>3, <2>4, <2>5 DEF Calm
<1>2. ASSUME NEW w \in Workers, SkipDead(w) PROVE CalmInv'
  <2>1. /\ UNCHANGED <<crashes, orphans, moving, queue, store, copy>>
        /\ pc'[w] = "returning" /\ \A v \in Workers : v # w => pc'[v] = pc[v]
    BY <1>2 DEF SkipDead, Go, TypeOK, queues
  <2>2. crashes' = 0 => Waiting'
    BY <1>a, <2>1 DEF Waiting, Elements
  <2>3. Calm' => \A v \in Workers : Fresh(pc'[v], copy'[v])
    BY <1>a, <1>d, <2>1 DEF Fresh, Calm
  <2> QED
    BY <1>b, <2>2, <2>3
<1>3. ASSUME NEW w \in Workers, Hydrate(w) PROVE CalmInv'
  <2>1. pc[w] # "idle" /\ job[w] \in Jobs /\ copy[w] \in Record /\ store[job[w]] \in Record
    BY <1>3 DEF Hydrate, TypeOK
  <2> DEFINE r == [copy[w] EXCEPT !.failures = store[job[w]].failures]
  <2>2. r \in Record /\ Save(w, r)
    BY <1>3, <2>1, Records DEF Hydrate, Terminal, Dead
  <2>3. Calm => Fresh("hydrated", r)
    <3>1. Calm => Fresh("popped", copy[w])
      BY <1>3, <1>a DEF Hydrate
    <3> QED
      BY <1>3, <2>1, <3>1 DEF Hydrate, Fresh, Steady, Record
  <2> HIDE DEF r
  <2>4. /\ \A v \in Workers : v # w => pc'[v] = pc[v] /\ copy'[v] = copy[v]
        /\ pc'[w] = "hydrated" /\ copy'[w] = r /\ UNCHANGED <<crashes, orphans, moving, queue>>
    <3>1. copy'[w] = r /\ \A v \in Workers : v # w => copy'[v] = copy[v]
      BY <2>1, <2>2, SaveFacts
    <3>2. pc'[w] = "hydrated" /\ \A v \in Workers : v # w => pc'[v] = pc[v]
      BY <1>3 DEF Hydrate, Go, TypeOK
    <3> QED
      BY <1>3, <3>1, <3>2 DEF Hydrate, queues
  <2>5. crashes' = 0 => Waiting'
    BY <1>e, <2>1, <2>2, <2>4
  <2>6. Calm' => \A v \in Workers : Fresh(pc'[v], copy'[v])
    BY <1>a, <1>d, <2>3, <2>4 DEF Calm
  <2> QED
    BY <1>b, <2>5, <2>6
<1>4. ASSUME NEW w \in Workers, Recover(w) PROVE CalmInv'
  <2>1. pc[w] # "idle" /\ job[w] \in Jobs /\ copy[w] \in Record /\ store[job[w]] \in Record
    BY <1>4 DEF Recover, TypeOK
  <2> DEFINE r == [copy[w] EXCEPT !.crashes = @ + 1]
  <2>2. r \in Record /\ Save(w, r)
    BY <1>4, <2>1, Records DEF Recover, Terminal, Dead
  <2>3. Calm => Fresh("gate", r)
    <3>1. Calm => Fresh("hydrated", copy[w])
      BY <1>4, <1>a DEF Recover
    <3> QED
      BY <1>4, <2>1, <3>1 DEF Recover, Fresh, Steady, Record
  <2> HIDE DEF r
  <2>4. /\ \A v \in Workers : v # w => pc'[v] = pc[v] /\ copy'[v] = copy[v]
        /\ pc'[w] = "gate" /\ copy'[w] = r /\ UNCHANGED <<crashes, orphans, moving, queue>>
    <3>1. copy'[w] = r /\ \A v \in Workers : v # w => copy'[v] = copy[v]
      BY <2>1, <2>2, SaveFacts
    <3>2. pc'[w] = "gate" /\ \A v \in Workers : v # w => pc'[v] = pc[v]
      BY <1>4 DEF Recover, Go, TypeOK
    <3> QED
      BY <1>4, <3>1, <3>2 DEF Recover, queues
  <2>5. crashes' = 0 => Waiting'
    BY <1>e, <2>1, <2>2, <2>4
  <2>6. Calm' => \A v \in Workers : Fresh(pc'[v], copy'[v])
    BY <1>a, <1>d, <2>3, <2>4 DEF Calm
  <2> QED
    BY <1>b, <2>5, <2>6
<1>5. ASSUME NEW w \in Workers, Start(w) PROVE CalmInv'
  <2>1. pc[w] # "idle" /\ job[w] \in Jobs /\ copy[w] \in Record /\ store[job[w]] \in Record
    BY <1>5 DEF Start, TypeOK
  <2> DEFINE r == [copy[w] EXCEPT !.state = "running"]
  <2>2. r \in Record /\ Save(w, r)
    BY <1>5, <2>1, Records DEF Start, Terminal, Dead
  <2>3. Calm => Fresh("gate", r)
    <3>1. Calm => Fresh("hydrated", copy[w])
      BY <1>5, <1>a DEF Start
    <3> QED
      BY <1>5, <2>1, <3>1 DEF Start, Fresh, Steady, Record
  <2> HIDE DEF r
  <2>4. /\ \A v \in Workers : v # w => pc'[v] = pc[v] /\ copy'[v] = copy[v]
        /\ pc'[w] = "gate" /\ copy'[w] = r /\ UNCHANGED <<crashes, orphans, moving, queue>>
    <3>1. copy'[w] = r /\ \A v \in Workers : v # w => copy'[v] = copy[v]
      BY <2>1, <2>2, SaveFacts
    <3>2. pc'[w] = "gate" /\ \A v \in Workers : v # w => pc'[v] = pc[v]
      BY <1>5 DEF Start, Go, TypeOK
    <3> QED
      BY <1>5, <3>1, <3>2 DEF Start, queues
  <2>5. crashes' = 0 => Waiting'
    BY <1>e, <2>1, <2>2, <2>4
  <2>6. Calm' => \A v \in Workers : Fresh(pc'[v], copy'[v])
    BY <1>a, <1>d, <2>3, <2>4 DEF Calm
  <2> QED
    BY <1>b, <2>5, <2>6
<1>6. ASSUME NEW w \in Workers, Raise(w) PROVE CalmInv'
  <2>1. /\ UNCHANGED <<crashes, orphans, moving, queue, store, copy>>
        /\ pc'[w] = "idle" /\ \A v \in Workers : v # w => pc'[v] = pc[v]
    BY <1>6 DEF Raise, Go, TypeOK, queues
  <2>2. crashes' = 0 => Waiting'
    BY <1>a, <2>1 DEF Waiting, Elements
  <2>3. Calm' => \A v \in Workers : Fresh(pc'[v], copy'[v])
    BY <1>a, <1>d, <2>1 DEF Fresh, Calm
  <2> QED
    BY <1>b, <2>2, <2>3
<1>7. ASSUME NEW w \in Workers, FallBack(w) PROVE CalmInv'
  <2>1. pc[w] # "idle" /\ job[w] \in Jobs /\ copy[w] \in Record /\ store[job[w]] \in Record
    BY <1>7 DEF FallBack, TypeOK
  <2> DEFINE r == [copy[w] EXCEPT !.state = "succeeded"]
  <2>2. r \in Record /\ Save(w, r)
    BY <1>7, <2>1, Records DEF FallBack, Terminal, Dead
  <2> HIDE DEF r
  <2>4. /\ \A v \in Workers : v # w => pc'[v] = pc[v] /\ copy'[v] = copy[v]
        /\ pc'[w] = "returning" /\ copy'[w] = r /\ UNCHANGED <<crashes, orphans, moving, queue>>
    <3>1. copy'[w] = r /\ \A v \in Workers : v # w => copy'[v] = copy[v]
      BY <2>1, <2>2, SaveFacts
    <3>2. pc'[w] = "returning" /\ \A v \in Workers : v # w => pc'[v] = pc[v]
      BY <1>7 DEF FallBack, Go, TypeOK
    <3> QED
      BY <1>7, <3>1, <3>2 DEF FallBack, queues
  <2>5. crashes' = 0 => Waiting'
    BY <1>e, <2>1, <2>2, <2>4
  <2>6. Calm' => \A v \in Workers : Fresh(pc'[v], copy'[v])
    BY <1>a, <1>d, <2>4 DEF Calm, Fresh
  <2> QED
    BY <1>b, <2>5, <2>6
<1>8. ASSUME NEW w \in Workers, Enter(w) PROVE CalmInv'
  <2>1. /\ UNCHANGED <<crashes, orphans, moving, queue, store, copy>>
        /\ pc'[w] = "cycle" /\ \A v \in Workers : v # w => pc'[v] = pc[v]
    BY <1>8 DEF Enter, Go, TypeOK, queues
  <2>2. crashes' = 0 => Waiting'
    BY <1>a, <2>1 DEF Waiting, Elements
  <2>3. Calm' => \A v \in Workers : Fresh(pc'[v], copy'[v])
    BY <1>a, <1>d, <2>1 DEF Fresh, Calm
  <2> QED
    BY <1>b, <2>2, <2>3
<1>9. ASSUME NEW w \in Workers, GoodCycle(w) PROVE CalmInv'
  <2>1. pc[w] # "idle" /\ job[w] \in Jobs /\ copy[w] \in Record /\ store[job[w]] \in Record
    BY <1>9 DEF GoodCycle, Succeeds, TypeOK
  <2> DEFINE r == Cleared(copy[w])
  <2>2. r \in Record /\ Save(w, r)
    BY <1>9, <2>1, Records DEF GoodCycle, Succeeds, Terminal, Dead
  <2> HIDE DEF r
  <2>4. /\ \A v \in Workers : v # w => pc'[v] = pc[v] /\ copy'[v] = copy[v]
        /\ pc'[w] = "cycle" /\ copy'[w] = r /\ UNCHANGED <<crashes, orphans, moving, queue>>
    <3>1. copy'[w] = r /\ \A v \in Workers : v # w => copy'[v] = copy[v]
      BY <2>1, <2>2, SaveFacts
    <3>2. pc'[w] = "cycle" /\ \A v \in Workers : v # w => pc'[v] = pc[v]
      BY <1>9 DEF GoodCycle, Succeeds, Go, TypeOK
    <3> QED
      BY <1>9, <3>1, <3>2 DEF GoodCycle, Succeeds, queues
  <2>5. crashes' = 0 => Waiting'
    BY <1>e, <2>1, <2>2, <2>4
  <2>6. Calm' => \A v \in Workers : Fresh(pc'[v], copy'[v])
    BY <1>a, <1>d, <2>4 DEF Calm, Fresh
  <2> QED
    BY <1>b, <2>5, <2>6
<1>10. ASSUME NEW w \in Workers, LastCycle(w) PROVE CalmInv'
  <2>1. pc[w] # "idle" /\ job[w] \in Jobs /\ copy[w] \in Record /\ store[job[w]] \in Record
    BY <1>10 DEF LastCycle, Succeeds, TypeOK
  <2> DEFINE r == Cleared(copy[w])
  <2>2. r \in Record /\ Save(w, r)
    BY <1>10, <2>1, Records DEF LastCycle, Succeeds, Terminal, Dead
  <2> HIDE DEF r
  <2>4. /\ \A v \in Workers : v # w => pc'[v] = pc[v] /\ copy'[v] = copy[v]
        /\ pc'[w] = "done" /\ copy'[w] = r /\ UNCHANGED <<crashes, orphans, moving, queue>>
    <3>1. copy'[w] = r /\ \A v \in Workers : v # w => copy'[v] = copy[v]
      BY <2>1, <2>2, SaveFacts
    <3>2. pc'[w] = "done" /\ \A v \in Workers : v # w => pc'[v] = pc[v]
      BY <1>10 DEF LastCycle, Succeeds, Go, TypeOK
    <3> QED
      BY <1>10, <3>1, <3>2 DEF LastCycle, Succeeds, queues
  <2>5. crashes' = 0 => Waiting'
    BY <1>e, <2>1, <2>2, <2>4
  <2>6. Calm' => \A v \in Workers : Fresh(pc'[v], copy'[v])
    BY <1>a, <1>d, <2>4 DEF Calm, Fresh
  <2> QED
    BY <1>b, <2>5, <2>6
<1>11. ASSUME NEW w \in Workers, MarkSucceeded(w) PROVE CalmInv'
  <2>1. pc[w] # "idle" /\ job[w] \in Jobs /\ copy[w] \in Record /\ store[job[w]] \in Record
    BY <1>11 DEF MarkSucceeded, TypeOK
  <2> DEFINE r == [copy[w] EXCEPT !.state = "succeeded"]
  <2>2. r \in Record /\ Save(w, r)
    BY <1>11, <2>1, Records DEF MarkSucceeded, Terminal, Dead
  <2> HIDE DEF r
  <2>4. /\ \A v \in Workers : v # w => pc'[v] = pc[v] /\ copy'[v] = copy[v]
        /\ pc'[w] = "returning" /\ copy'[w] = r /\ UNCHANGED <<crashes, orphans, moving, queue>>
    <3>1. copy'[w] = r /\ \A v \in Workers : v # w => copy'[v] = copy[v]
      BY <2>1, <2>2, SaveFacts
    <3>2. pc'[w] = "returning" /\ \A v \in Workers : v # w => pc'[v] = pc[v]
      BY <1>11 DEF MarkSucceeded, Go, TypeOK
    <3> QED
      BY <1>11, <3>1, <3>2 DEF MarkSucceeded, queues
  <2>5. crashes' = 0 => Waiting'
    BY <1>e, <2>1, <2>2, <2>4
  <2>6. Calm' => \A v \in Workers : Fresh(pc'[v], copy'[v])
    BY <1>a, <1>d, <2>4 DEF Calm, Fresh
  <2> QED
    BY <1>b, <2>5, <2>6
<1>12. ASSUME NEW w \in Workers, Fails(w) PROVE CalmInv'
  <2>1. /\ UNCHANGED <<crashes, orphans, moving, queue, store, copy>>
        /\ pc'[w] = "failed" /\ \A v \in Workers : v # w => pc'[v] = pc[v]
    BY <1>12 DEF Fails, Go, TypeOK, queues
  <2>2. crashes' = 0 => Waiting'
    BY <1>a, <2>1 DEF Waiting, Elements
  <2>3. Calm' => \A v \in Workers : Fresh(pc'[v], copy'[v])
    BY <1>a, <1>d, <2>1 DEF Fresh, Calm
  <2> QED
    BY <1>b, <2>2, <2>3
<1>13. ASSUME NEW w \in Workers, MarkPoison(w) PROVE CalmInv'
  <2>1. pc[w] # "idle" /\ job[w] \in Jobs /\ copy[w] \in Record /\ store[job[w]] \in Record
    BY <1>13 DEF MarkPoison, TypeOK
  <2> DEFINE r == [Counted(copy[w]) EXCEPT !.state = "poison"]
  <2>2. r \in Record /\ Save(w, r)
    BY <1>13, <2>1, Records DEF MarkPoison, Terminal, Dead
  <2> HIDE DEF r
  <2>4. /\ \A v \in Workers : v # w => pc'[v] = pc[v] /\ copy'[v] = copy[v]
        /\ pc'[w] = "returning" /\ copy'[w] = r /\ UNCHANGED <<crashes, orphans, moving, queue>>
    <3>1. copy'[w] = r /\ \A v \in Workers : v # w => copy'[v] = copy[v]
      BY <2>1, <2>2, SaveFacts
    <3>2. pc'[w] = "returning" /\ \A v \in Workers : v # w => pc'[v] = pc[v]
      BY <1>13 DEF MarkPoison, Go, TypeOK
    <3> QED
      BY <1>13, <3>1, <3>2 DEF MarkPoison, queues
  <2>5. crashes' = 0 => Waiting'
    BY <1>e, <2>1, <2>2, <2>4
  <2>6. Calm' => \A v \in Workers : Fresh(pc'[v], copy'[v])
    BY <1>a, <1>d, <2>4 DEF Calm, Fresh
  <2> QED
    BY <1>b, <2>5, <2>6
<1>14. ASSUME NEW w \in Workers, Retry(w) PROVE CalmInv'
  <2>1. pc[w] # "idle" /\ job[w] \in Jobs /\ copy[w] \in Record /\ store[job[w]] \in Record
    BY <1>14 DEF Retry, TypeOK
  <2> DEFINE r == Counted(copy[w])
  <2>2. r \in Record /\ Save(w, r)
    BY <1>14, <2>1, Records DEF Retry, Terminal, Dead
  <2> HIDE DEF r
  <2>4. /\ \A v \in Workers : v # w => pc'[v] = pc[v] /\ copy'[v] = copy[v]
        /\ pc'[w] = "cycle" /\ copy'[w] = r /\ UNCHANGED <<crashes, orphans, moving, queue>>
    <3>1. copy'[w] = r /\ \A v \in Workers : v # w => copy'[v] = copy[v]
      BY <2>1, <2>2, SaveFacts
    <3>2. pc'[w] = "cycle" /\ \A v \in Workers : v # w => pc'[v] = pc[v]
      BY <1>14 DEF Retry, Go, TypeOK
    <3> QED
      BY <1>14, <3>1, <3>2 DEF Retry, queues
  <2>5. crashes' = 0 => Waiting'
    BY <1>e, <2>1, <2>2, <2>4
  <2>6. Calm' => \A v \in Workers : Fresh(pc'[v], copy'[v])
    BY <1>a, <1>d, <2>4 DEF Calm, Fresh
  <2> QED
    BY <1>b, <2>5, <2>6
<1>15. ASSUME NEW w \in Workers, Panic(w) PROVE CalmInv'
  <2>1. pc[w] # "idle" /\ job[w] \in Jobs /\ copy[w] \in Record /\ store[job[w]] \in Record
    BY <1>15 DEF Panic, TypeOK
  <2> DEFINE r == [copy[w] EXCEPT !.panics = @ + 1, !.consecutive = @ + 1, !.state = "failed"]
  <2>2. r \in Record /\ Save(w, r)
    BY <1>15, <2>1, Records DEF Panic, Terminal, Dead
  <2> HIDE DEF r
  <2>4. /\ \A v \in Workers : v # w => pc'[v] = pc[v] /\ copy'[v] = copy[v]
        /\ pc'[w] = "returning" /\ copy'[w] = r /\ UNCHANGED <<crashes, orphans, moving, queue>>
    <3>1. copy'[w] = r /\ \A v \in Workers : v # w => copy'[v] = copy[v]
      BY <2>1, <2>2, SaveFacts
    <3>2. pc'[w] = "returning" /\ \A v \in Workers : v # w => pc'[v] = pc[v]
      BY <1>15 DEF Panic, Go, TypeOK
    <3> QED
      BY <1>15, <3>1, <3>2 DEF Panic, queues
  <2>5. crashes' = 0 => Waiting'
    BY <1>e, <2>1, <2>2, <2>4
  <2>6. Calm' => \A v \in Workers : Fresh(pc'[v], copy'[v])
    BY <1>a, <1>d, <2>4 DEF Calm, Fresh
  <2> QED
    BY <1>b, <2>5, <2>6
<1>16. ASSUME NEW w \in Workers, Return(w) PROVE CalmInv'
  <2>1. /\ UNCHANGED <<crashes, orphans, moving, queue, store, copy>>
        /\ pc'[w] = "idle" /\ \A v \in Workers : v # w => pc'[v] = pc[v]
    BY <1>16 DEF Return, Go, TypeOK, queues
  <2>2. crashes' = 0 => Waiting'
    BY <1>a, <2>1 DEF Waiting, Elements
  <2>3. Calm' => \A v \in Workers : Fresh(pc'[v], copy'[v])
    BY <1>a, <1>d, <2>1 DEF Fresh, Calm
  <2> QED
    BY <1>b, <2>2, <2>3
<1>17. ASSUME NEW w \in Workers, Crash(w) PROVE CalmInv'
  <2>1. crashes' # 0
    BY <1>17, <1>c DEF Crash
  <2>2. pc'[w] = "idle" /\ \A v \in Workers : v # w => pc'[v] = pc[v]
    BY <1>17 DEF Crash, Go, TypeOK
  <2>3. copy' = copy /\ (Calm' => Calm)
    BY <1>17, <1>d, <2>1 DEF Crash, Calm
  <2> QED
    BY <1>a, <1>b, <2>1, <2>2, <2>3 DEF Fresh
<1>18. ASSUME NEW j \in Jobs, RequeueFront(j) \/ RemoveLease(j) \/ PushBack(j) PROVE CalmInv'
  <2>1. crashes' # 0
    BY <1>18, <1>a, <1>c DEF RequeueFront, RemoveLease, PushBack, Waiting
  <2>2. /\ pc' = pc /\ copy' = copy
    BY <1>18 DEF RequeueFront, RemoveLease, PushBack, locals
  <2>3. Calm' => Calm
    BY <1>d, <2>1 DEF Calm
  <2> QED
    BY <1>a, <1>b, <2>1, <2>2, <2>3
<1>19. CASE RequeuerCrash
  <2>1. crashes' # 0
    BY <1>19, <1>a, <1>c DEF RequeuerCrash, Waiting
  <2>2. /\ pc' = pc /\ copy' = copy
    BY <1>19 DEF RequeuerCrash, locals
  <2>3. Calm' => Calm
    BY <1>d, <2>1 DEF Calm
  <2> QED
    BY <1>a, <1>b, <2>1, <2>2, <2>3
<1>20. CASE UNCHANGED vars
  BY <1>20, <1>a, <1>b, <1>d DEF vars, queues, locals, Waiting, Calm
<1>21. ASSUME NEW w \in Workers, Malformed(w) PROVE CalmInv'
  <2>1. pc[w] # "idle" /\ job[w] \in Jobs /\ copy[w] \in Record /\ store[job[w]] \in Record
    BY <1>21 DEF Malformed, TypeOK
  <2> DEFINE r == [Cleared(copy[w]) EXCEPT !.state = "failed"]
  <2>2. r \in Record /\ Save(w, r)
    BY <1>21, <2>1, Records DEF Malformed, Terminal, Dead
  <2> HIDE DEF r
  <2>4. /\ \A v \in Workers : v # w => pc'[v] = pc[v] /\ copy'[v] = copy[v]
        /\ pc'[w] = "returning" /\ copy'[w] = r /\ UNCHANGED <<crashes, orphans, moving, queue>>
    <3>1. copy'[w] = r /\ \A v \in Workers : v # w => copy'[v] = copy[v]
      BY <2>1, <2>2, SaveFacts
    <3>2. pc'[w] = "returning" /\ \A v \in Workers : v # w => pc'[v] = pc[v]
      BY <1>21 DEF Malformed, Go, TypeOK
    <3> QED
      BY <1>21, <3>1, <3>2 DEF Malformed, queues
  <2>5. crashes' = 0 => Waiting'
    BY <1>e, <2>1, <2>2, <2>4
  <2>6. Calm' => \A v \in Workers : Fresh(pc'[v], copy'[v])
    BY <1>a, <1>d, <2>4 DEF Calm, Fresh
  <2> QED
    BY <1>b, <2>5, <2>6
<1> QED
  BY <1>1, <1>2, <1>3, <1>4, <1>5, <1>6, <1>7, <1>8, <1>9, <1>10, <1>11, <1>12, <1>13, <1>14,
       <1>15, <1>16, <1>17, <1>18, <1>19, <1>20, <1>21 DEF Next, Work, Requeue

(* Only an unsteady job degrades a worker, and only after a crash in memory does
   one reach the gate. *)
LEMMA DegradedStep ==
  ASSUME TypeOK, CopyInv, CalmInv, DegradedOnlyAfterCrash, [Next]_vars
  PROVE  DegradedOnlyAfterCrash'
<1>1. /\ backend' = backend /\ crashes \in Nat /\ crashes' \in {crashes, crashes + 1}
  <2>1. ASSUME NEW w \in Workers, Pop(w) \/ Lets(w) \/ Crash(w)
        PROVE  backend' = backend /\ crashes' \in {crashes, crashes + 1}
    BY <2>1 DEF Pop, Lets, Raise, Return, Crash
  <2>2. ASSUME NEW j \in Jobs, RequeueFront(j) \/ RemoveLease(j) \/ PushBack(j)
        PROVE  backend' = backend /\ crashes' = crashes
    BY <2>2 DEF RequeueFront, RemoveLease, PushBack
  <2>3. CASE RequeuerCrash \/ UNCHANGED vars
    BY <2>3 DEF RequeuerCrash, vars, TypeOK
  <2> QED
    BY <2>1, <2>2, <2>3, Kinds, InsideFacts DEF TypeOK
<1>2. ASSUME NEW w \in Workers, FallBack(w) PROVE DegradedOnlyAfterCrash'
  <2>1. degraded' = [degraded EXCEPT ![w] = TRUE] /\ pc[w] = "gate"
    BY <1>2 DEF FallBack
  <2>2. ~Calm
    <3>1. CASE degraded[w]
      BY <3>1 DEF DegradedOnlyAfterCrash, Calm
    <3>2. CASE ~degraded[w]
      BY <1>2, <3>2, DeliveryAssumption DEF FallBack, Unstable, CalmInv, Steady, Calm
    <3> QED
      BY <3>1, <3>2
  <2>3. backend = "memory" /\ crashes > 0
    BY <1>1, <2>2, DeliveryAssumption DEF Calm, TypeOK
  <2>4. backend' = "memory" /\ crashes' > 0
    BY <1>1, <2>3
  <2> QED
    BY <2>4 DEF DegradedOnlyAfterCrash
<1>3. ASSUME \A w \in Workers : ~FallBack(w) PROVE DegradedOnlyAfterCrash'
  <2>1. \A w \in Workers : degraded'[w] => degraded[w]
    <3>1. ASSUME NEW w \in Workers, Pop(w) \/ Lets(w) \/ Crash(w)
        PROVE  \A v \in Workers : degraded'[v] => degraded[v]
      BY <3>1 DEF Pop, Lets, Raise, Return, Crash, TypeOK
    <3>2. ASSUME NEW w \in Workers, Inside(w)
        PROVE  \A v \in Workers : degraded'[v] => degraded[v]
      BY <1>3, <3>2 DEF Inside, SkipDead, Hydrate, Recover, Start, Enter, Succeeds, GoodCycle,
           LastCycle, MarkSucceeded, Malformed, Fails, MarkPoison, Retry, Panic
    <3>3. ASSUME NEW j \in Jobs, RequeueFront(j) \/ RemoveLease(j) \/ PushBack(j)
        PROVE  \A v \in Workers : degraded'[v] => degraded[v]
      BY <3>3 DEF RequeueFront, RemoveLease, PushBack, locals
    <3>4. CASE RequeuerCrash \/ UNCHANGED vars
      BY <3>4 DEF RequeuerCrash, vars, locals
    <3> QED
      BY <3>1, <3>2, <3>3, <3>4, Kinds
  <2> QED
    BY <1>1, <2>1 DEF DegradedOnlyAfterCrash, TypeOK
<1> QED
  BY <1>2, <1>3

------------------------------------------------------------------------------
(* The initial states satisfy the invariant: every job waits in the queue. *)
THEOREM Initial == Init => IndInv
<1> SUFFICES ASSUME Init PROVE IndInv
  OBVIOUS
<1>1. queue \in Seq(Jobs) /\ Distinct(queue) /\ Elements(queue) = Jobs
  <2>1. Cardinality(Jobs) \in Nat
    BY DeliveryAssumption, FS_CardinalityType
  <2>2. queue \in [1 .. Cardinality(Jobs) -> Jobs] /\ Distinct(queue) /\ Elements(queue) = Jobs
    BY DEF Init
  <2> QED
    BY <2>1, <2>2
<1>2. TypeOK
  <2>1. store \in [Jobs -> Record] /\ copy \in [Workers -> Record]
    BY Records DEF Init
  <2>2. pc \in [Workers -> Places] /\ \A w \in Workers : pc[w] = "idle"
    BY DEF Init, Places
  <2> QED
    BY <1>1, <2>1, <2>2, DeliveryAssumption DEF Init, TypeOK
<1>3. HoldInv /\ CopyInv
  BY DEF Init, HoldInv, CopyInv
<1>4. OnePlace
  BY <1>1, Apart DEF Init
<1>5. BudgetInv
  <2>1. \A j \in Jobs : failed[j] = 0 /\ store[j].failures = 0 /\ store[j].state = "pending"
    BY DEF Init, NewJob
  <2>2. crashes = 0 /\ PoisonAt \in Nat
    BY DeliveryAssumption DEF Init
  <2> QED
    BY <2>1, <2>2 DEF BudgetInv
<1>6. CalmInv /\ DegradedOnlyAfterCrash
  BY <1>1 DEF Init, CalmInv, DegradedOnlyAfterCrash
<1> QED
  BY <1>2, <1>3, <1>4, <1>5, <1>6 DEF IndInv

(* Every step preserves the invariant. *)
THEOREM Inductive == IndInv /\ [Next]_vars => IndInv'
BY TypeStep, HoldStep, OnePlaceStep, CopyStep, BudgetStep, CalmStep, DegradedStep DEF IndInv

(* The invariant holds in every behaviour. *)
THEOREM Invariance == Spec => []IndInv
BY Initial, Inductive, PTL DEF Spec

(* The queue, the stores and the workers hold well-formed values. *)
THEOREM TypeCorrect == Spec => []TypeOK
<1>1. IndInv => TypeOK
  BY DEF IndInv
<1> QED
  BY <1>1, Invariance, PTL

(* No crash, requeue or redelivery puts a job in two places, hands it to two
   workers, or loses it but in a requeuer's crash. *)
THEOREM NoDoubleDelivery == Spec => []OnePlace
<1>1. IndInv => OnePlace
  BY DEF IndInv
<1> QED
  BY <1>1, Invariance, PTL

(* The failing calls in a row that redeliveries and crashes can add up to. *)
THEOREM Budget == Spec => []FailureBudget
<1>1. ASSUME IndInv PROVE FailureBudget
  <2> SUFFICES ASSUME NEW j \in Jobs PROVE failed[j] <= PoisonAt + 1 + crashes
    BY DEF FailureBudget
  <2>1. /\ failed[j] \in Nat /\ store[j].failures \in Nat /\ crashes \in Nat /\ PoisonAt \in Nat
    BY <1>1, DeliveryAssumption DEF IndInv, TypeOK, Record
  <2>2. store[j].state = "poison" => j \notin Unsaved
    BY <1>1, DeliveryAssumption DEF IndInv, Unsaved, CopyInv
  <2> QED
    BY <1>1, <2>1, <2>2 DEF IndInv, BudgetInv
<1> QED
  BY <1>1, Invariance, PTL

(* Failure and panic counts alone never degrade a worker. *)
THEOREM Degradation == Spec => []DegradedOnlyAfterCrash
<1>1. IndInv => DegradedOnlyAfterCrash
  BY DEF IndInv
<1> QED
  BY <1>1, Invariance, PTL

(* A redelivered dead job is left as it is, by whatever worker. *)
THEOREM DeadAreLeft == Spec => DeadStaysDead
<1> DEFINE Left == \A j \in Jobs : store[j].state \in Dead => store'[j] = store[j] /\ failed'[j] = failed[j]
<1>1. ASSUME IndInv, [Next]_vars PROVE Left
  <2> SUFFICES ASSUME NEW j \in Jobs, store[j].state \in Dead
               PROVE  store'[j] = store[j] /\ failed'[j] = failed[j]
    OBVIOUS
  <2>0. \A w \in Workers : pc[w] \in {"hydrated", "gate", "cycle", "failed", "done"} => job[w] # j
    BY <1>1 DEF IndInv, CopyInv, Dead
  <2>1. ASSUME NEW w \in Workers, Inside(w) PROVE store'[j] = store[j] /\ failed'[j] = failed[j]
    <3>1. job[w] \in Jobs
      BY <1>1, <2>1, InsideFacts DEF IndInv, TypeOK
    <3>2. CASE SkipDead(w) \/ Enter(w)
      BY <3>2 DEF SkipDead, Enter
    <3>3. ~SkipDead(w) /\ ~Enter(w) => job[w] # j
      BY <2>0, <2>1 DEF Inside, Hydrate, Recover, Start, FallBack, Succeeds, GoodCycle,
       LastCycle,
           MarkSucceeded, Malformed, Fails, MarkPoison, Retry, Panic
    <3>4. CASE ~SkipDead(w) /\ ~Enter(w)
      <4>1. store' = store \/ \E r : store' = [store EXCEPT ![job[w]] = r]
        BY <2>1, <3>4 DEF Inside, Save, Hydrate, Recover, Start, FallBack, Succeeds, GoodCycle,
             LastCycle, MarkSucceeded, Malformed, Fails, MarkPoison, Retry, Panic
      <4>2. failed' = failed \/ \E n : failed' = [failed EXCEPT ![job[w]] = n]
        BY <2>1, <3>4 DEF Inside, Hydrate, Recover, Start, FallBack, Succeeds, GoodCycle,
             LastCycle, MarkSucceeded, Malformed, Fails, MarkPoison, Retry, Panic
      <4> QED
        BY <1>1, <3>1, <3>3, <3>4, <4>1, <4>2 DEF IndInv, TypeOK
    <3> QED
      BY <3>2, <3>4
  <2>2. ASSUME NEW w \in Workers, Pop(w) \/ Lets(w) \/ Crash(w)
        PROVE  store'[j] = store[j] /\ failed'[j] = failed[j]
    BY <2>2 DEF Pop, Lets, Raise, Return, Crash
  <2>3. ASSUME NEW i \in Jobs, RequeueFront(i) \/ RemoveLease(i) \/ PushBack(i)
        PROVE  store'[j] = store[j] /\ failed'[j] = failed[j]
    BY <2>3 DEF RequeueFront, RemoveLease, PushBack
  <2>4. CASE RequeuerCrash \/ UNCHANGED vars
    BY <2>4 DEF RequeuerCrash, vars
  <2> QED
    BY <1>1, <2>1, <2>2, <2>3, <2>4, Kinds
<1>2. IndInv /\ [Next]_vars => [Left]_vars
  BY <1>1
<1> QED
  BY <1>2, Invariance, PTL DEF Spec, DeadStaysDead

------------------------------------------------------------------------------
(* What a worker's step inside a job does to the job's stored state: only hydration
   can take a settled one back, and a worker that is about to return has settled it. *)
LEMMA InsideState ==
  ASSUME IndInv, NEW w \in Workers, Inside(w)
  PROVE  /\ job[w] \in Jobs
         /\ \A j \in Jobs : j # job[w] => store'[j] = store[j]
         /\ pc'[w] = "returning" => store'[job[w]].state \in Terminal
<1>1. TypeOK /\ job[w] \in Jobs
  BY InsideFacts DEF IndInv, TypeOK
<1>2. \A j \in Jobs : j # job[w] => store'[j] = store[j]
  <2>1. store' = store \/ \E r : store' = [store EXCEPT ![job[w]] = r]
    BY DEF Inside, Save, SkipDead, Hydrate, Recover, Start, FallBack, Enter, Succeeds,
       GoodCycle, LastCycle, MarkSucceeded, Malformed, Fails, MarkPoison, Retry, Panic
  <2> QED BY <1>1, <2>1 DEF TypeOK
<1>3. pc'[w] = "returning" =>
        \/ SkipDead(w) \/ FallBack(w) \/ MarkSucceeded(w) \/ MarkPoison(w) \/ Panic(w)
        \/ Malformed(w)
  BY <1>1 DEF Inside, Hydrate, Recover, Start, Enter, Succeeds, GoodCycle, LastCycle, Fails,
     Retry, Go, TypeOK
<1>4. CASE SkipDead(w)
  BY <1>1, <1>2, <1>4 DEF SkipDead, Terminal
<1>5. ASSUME NEW r \in Record, r.state \in Terminal, Save(w, r)
      PROVE  store'[job[w]].state \in Terminal
  BY <1>1, <1>5 DEF Save, TypeOK
<1>6. copy[w] \in Record /\ Counted(copy[w]) \in Record
  BY <1>1, Records DEF TypeOK
<1>7. CASE FallBack(w) \/ MarkSucceeded(w)
  <2>1. Save(w, [copy[w] EXCEPT !.state = "succeeded"])
    BY <1>7 DEF FallBack, MarkSucceeded
  <2>2. /\ [copy[w] EXCEPT !.state = "succeeded"] \in Record
        /\ [copy[w] EXCEPT !.state = "succeeded"].state \in Terminal
    BY <1>6 DEF Record, Terminal
  <2> QED BY <1>1, <1>2, <1>5, <2>1, <2>2
<1>8. CASE MarkPoison(w)
  <2>1. Save(w, [Counted(copy[w]) EXCEPT !.state = "poison"])
    BY <1>8 DEF MarkPoison
  <2>2. /\ [Counted(copy[w]) EXCEPT !.state = "poison"] \in Record
        /\ [Counted(copy[w]) EXCEPT !.state = "poison"].state \in Terminal
    BY <1>6 DEF Record, Terminal, Dead
  <2> QED BY <1>1, <1>2, <1>5, <2>1, <2>2
<1>9. CASE Panic(w)
  <2> DEFINE r == [copy[w] EXCEPT !.panics = @ + 1, !.consecutive = @ + 1, !.state = "failed"]
  <2>1. Save(w, r)
    BY <1>9 DEF Panic
  <2>2. r \in Record
    BY <1>6, Records
  <2>3. r.state \in Terminal
    BY <1>6 DEF Record, Terminal, Dead
  <2> HIDE DEF r
  <2> QED BY <1>1, <1>2, <1>5, <2>1, <2>2, <2>3
<1>10. CASE Malformed(w)
  <2> DEFINE r == [Cleared(copy[w]) EXCEPT !.state = "failed"]
  <2>1. Save(w, r)
    BY <1>10 DEF Malformed
  <2>2. Cleared(copy[w]) \in Record
    BY <1>6, Records
  <2>3. r \in Record /\ r.state \in Terminal
    BY <2>2 DEF Record, Terminal, Dead
  <2> HIDE DEF r
  <2> QED BY <1>1, <1>2, <1>5, <2>1, <2>3
<1> QED BY <1>1, <1>2, <1>3, <1>4, <1>7, <1>8, <1>9, <1>10

(* A lease nobody works on is the requeuer's, or of a settled job. *)
LEMMA LeaseStep ==
  ASSUME IndInv, LeaseInv, [Next]_vars
  PROVE  LeaseInv'
<1>0. TypeOK /\ HoldInv /\ OnePlace
  BY DEF IndInv
<1>1. ASSUME NEW w \in Workers, Pop(w)
      PROVE  LeaseInv'
  <2>1. leased' = leased \cup {Head(queue)} /\ UNCHANGED <<store, orphans>>
    BY <1>1 DEF Pop
  <2>2. /\ job'[w] = Head(queue) /\ pc'[w] = "popped" /\ job[w] = None
        /\ \A v \in Workers : v # w => job'[v] = job[v] /\ pc'[v] = pc[v]
    BY <1>0, <1>1, PopFacts DEF HoldInv
  <2>3. None \notin leased
    BY <1>0, DeliveryAssumption DEF TypeOK
  <2>4. ASSUME NEW j \in leased'
        PROVE  \/ j \in orphans' \/ store'[j].state \in Terminal \/ \E v \in Workers : job'[v] = j
    <3>1. CASE j = Head(queue)
      BY <2>2, <3>1
    <3>2. CASE j \in leased
      BY <2>1, <2>2, <2>3, <3>2 DEF LeaseInv
    <3> QED BY <2>1, <3>1, <3>2
  <2>5. ASSUME NEW v \in Workers, pc'[v] = "returning"
        PROVE  store'[job'[v]].state \in Terminal
    BY <2>1, <2>2, <2>5 DEF LeaseInv
  <2> QED BY <2>4, <2>5 DEF LeaseInv
<1>2. ASSUME NEW w \in Workers, Inside(w)
      PROVE  LeaseInv'
  <2>1. UNCHANGED <<leased, orphans, job>> /\ \A v \in Workers : v # w => pc'[v] = pc[v]
    BY <1>0, <1>2, InsideFacts
  <2>2. ASSUME NEW v \in Workers, pc'[v] = "returning", v # w
        PROVE  store'[job[v]].state \in Terminal
    <3>1. pc[v] = "returning" /\ job[v] \in Jobs /\ job[v] # job[w]
      BY <1>0, <1>2, <2>1, <2>2, InsideState, DeliveryAssumption DEF TypeOK, OnePlace
    <3> QED BY <1>2, <3>1, InsideState DEF LeaseInv
  <2>3. ASSUME NEW j \in leased
        PROVE  \/ j \in orphans \/ store'[j].state \in Terminal \/ \E v \in Workers : job[v] = j
    <3>1. j \in Jobs
      BY <1>0 DEF TypeOK
    <3> QED BY <1>2, <3>1, InsideState DEF LeaseInv
  <2> QED BY <1>2, <2>1, <2>2, <2>3, InsideState DEF LeaseInv
<1>3. ASSUME NEW w \in Workers, Lets(w)
      PROVE  LeaseInv'
  <2>1. /\ UNCHANGED <<leased, orphans, store>> /\ job[w] \in Jobs
        /\ \A v \in Workers : v # w => job'[v] = job[v] /\ pc'[v] = pc[v]
        /\ pc'[w] = "idle"
    BY <1>0, <1>3 DEF Lets, Raise, Return, queues, Go, TypeOK
  <2>2. store[job[w]].state \in Terminal
    BY <1>0, <1>3 DEF Lets, Raise, Return, LeaseInv, IndInv, CopyInv
  <2> QED BY <2>1, <2>2 DEF LeaseInv
<1>4. ASSUME NEW w \in Workers, Crash(w)
      PROVE  LeaseInv'
  <2>1. /\ UNCHANGED <<leased, store>> /\ orphans' = orphans \cup {job[w]}
        /\ \A v \in Workers : v # w => job'[v] = job[v] /\ pc'[v] = pc[v]
        /\ pc'[w] = "idle"
    BY <1>0, <1>4 DEF Crash, Go, TypeOK
  <2> QED BY <2>1 DEF LeaseInv
<1>5. ASSUME NEW i \in Jobs, RequeueFront(i) \/ RemoveLease(i) \/ PushBack(i)
      PROVE  LeaseInv'
  <2>1. /\ UNCHANGED <<store, job, pc>>
        /\ \/ orphans' = orphans \ {i} /\ leased' = leased \ {i}
           \/ UNCHANGED <<orphans, leased>>
    BY <1>5 DEF RequeueFront, RemoveLease, PushBack, locals
  <2> QED BY <2>1 DEF LeaseInv
<1>6. CASE RequeuerCrash \/ UNCHANGED vars
  BY <1>6 DEF RequeuerCrash, vars, queues, locals, LeaseInv
<1> QED BY <1>1, <1>2, <1>3, <1>4, <1>5, <1>6, Kinds

(* A lease that is never acknowledged hides no unfinished job. *)
THEOREM LeasesAreAccounted == Spec => []LeaseInv
<1>1. Init => LeaseInv
  BY DEF Init, LeaseInv
<1> QED BY <1>1, LeaseStep, Invariance, PTL DEF Spec

(* Whatever crashed, when nothing is queued, requeued or worked on every job is
   settled but those the requeuer lost. *)
THEOREM NoneForgotten == Spec => []NoJobIsForgotten
<1>1. ASSUME IndInv, LeaseInv, AtRest, NEW j \in Jobs
      PROVE  store[j].state \in Terminal \/ j \in dropped
  <2>1. j \notin Elements(queue) /\ j \notin moving /\ j \notin orphans
    BY <1>1 DEF AtRest, Elements
  <2>2. \A w \in Workers : job[w] # j
    BY <1>1, DeliveryAssumption DEF AtRest, IndInv, HoldInv
  <2>3. j \in leased \/ j \in dropped
    BY <1>1, <2>1, Apart DEF IndInv
  <2> QED BY <1>1, <2>1, <2>2, <2>3 DEF LeaseInv
<1>2. IndInv /\ LeaseInv => NoJobIsForgotten
  BY <1>1 DEF NoJobIsForgotten
<1> QED BY <1>2, Invariance, LeasesAreAccounted, PTL

(* A job that is being executed has not failed often enough to be poison. *)
LEMMA FewFailures ==
  ASSUME IndInv, NEW w \in Workers, pc[w] \in {"cycle", "failed"}
  PROVE  /\ copy[w].failures \in 0 .. PoisonAt /\ cycles[w] \in 0 .. MaxCycles
         /\ PoisonAt \in Nat /\ MaxCycles \in Nat /\ MaxCycles >= 1
<1>1. copy[w] \in Record /\ job[w] \in Jobs /\ cycles[w] \in 0 .. MaxCycles
  BY DEF IndInv, TypeOK
<1>2. copy[w].failures \in Nat /\ copy[w] = store[job[w]] /\ copy[w].state = "running"
  BY <1>1 DEF Record, IndInv, CopyInv
<1>3. copy[w].failures <= PoisonAt + (IF copy[w].state = "poison" THEN 1 ELSE 0)
  BY <1>1, <1>2 DEF IndInv, BudgetInv
<1>4. PoisonAt \in Nat /\ MaxCycles \in Nat /\ MaxCycles >= 1
  BY DeliveryAssumption
<1> QED BY <1>1, <1>2, <1>3, <1>4

(* The bounds are numbers: a lap is longer than the failures between two good cycles,
   and what is left of the loop is at most what was left at the gate. *)
LEMMA Laps ==
  ASSUME NEW c \in 0 .. MaxCycles, NEW f \in 0 .. PoisonAt
  PROVE  /\ Lap \in Nat /\ Lap >= 2 * f + 4
         /\ (MaxCycles - c) * Lap \in Nat
         /\ (MaxCycles - c) * Lap <= MaxCycles * Lap
         /\ c < MaxCycles => (MaxCycles - (c + 1)) * Lap = (MaxCycles - c) * Lap - Lap
         /\ MaxCycles * Lap \in Nat /\ AtGate \in Nat
         /\ PoisonAt \in Nat /\ MaxCycles \in Nat
<1>1. PoisonAt \in Nat /\ MaxCycles \in Nat
  BY DeliveryAssumption
<1>2. Lap \in Nat /\ Lap >= 2 * f + 4
  BY <1>1 DEF Lap
<1>3. MaxCycles - c \in Nat /\ c \in Nat
  BY <1>1
<1>4. \A m, n \in Nat : m * n \in Nat
  OBVIOUS
<1>5. \A m, n, k \in Nat : (m + k) * n = m * n + k * n
  OBVIOUS
<1>6. (MaxCycles - c) * Lap \in Nat /\ c * Lap \in Nat /\ MaxCycles * Lap \in Nat
  BY <1>1, <1>2, <1>3, <1>4
<1>7. MaxCycles * Lap = (MaxCycles - c) * Lap + c * Lap
  <2>1. ((MaxCycles - c) + c) * Lap = (MaxCycles - c) * Lap + c * Lap
    BY <1>2, <1>3, <1>5
  <2>2. (MaxCycles - c) + c = MaxCycles
    BY <1>1, <1>3
  <2> QED BY <2>1, <2>2
<1>8. ASSUME c < MaxCycles
      PROVE  (MaxCycles - (c + 1)) * Lap = (MaxCycles - c) * Lap - Lap
  <2>1. MaxCycles - (c + 1) \in Nat /\ (MaxCycles - (c + 1)) + 1 = MaxCycles - c
    BY <1>1, <1>3, <1>8
  <2>2. ((MaxCycles - (c + 1)) + 1) * Lap = (MaxCycles - (c + 1)) * Lap + 1 * Lap
    BY <1>2, <1>5, <2>1
  <2>3. 1 * Lap = Lap /\ (MaxCycles - (c + 1)) * Lap \in Nat
    BY <1>2, <1>4, <2>1
  <2> QED BY <1>2, <1>6, <2>1, <2>2, <2>3
<1>9. AtGate \in Nat
  BY <1>1, <1>6 DEF AtGate
<1> QED BY <1>1, <1>2, <1>6, <1>7, <1>8, <1>9

(* The number of steps left is a number, between the return and the delivery. *)
LEMMA StepsLeftRange ==
  ASSUME IndInv, NEW w \in Workers, pc[w] # "idle"
  PROVE  /\ StepsLeft(w) \in 1 .. AtGate + 2
         /\ pc[w] \in {"cycle", "failed"} => Looping(w) \in 4 .. AtGate - 1
<1>1. pc[w] \in Places /\ PoisonAt \in Nat /\ MaxCycles \in Nat /\ MaxCycles >= 1
  BY DeliveryAssumption DEF IndInv, TypeOK
<1>2. AtGate \in Nat /\ AtGate >= 5
  <2>1. MaxCycles * Lap \in Nat
    BY <1>1, Laps
  <2> QED BY <1>1, <2>1 DEF AtGate
<1>3. ASSUME pc[w] \in {"cycle", "failed"}
      PROVE  Looping(w) \in 4 .. AtGate - 1
  <2>1. /\ copy[w].failures \in 0 .. PoisonAt /\ cycles[w] \in 0 .. MaxCycles
    BY <1>3, FewFailures
  <2>2. /\ (MaxCycles - cycles[w]) * Lap \in Nat /\ MaxCycles * Lap \in Nat
        /\ (MaxCycles - cycles[w]) * Lap <= MaxCycles * Lap
    BY <2>1, Laps
  <2> QED BY <1>1, <2>1, <2>2 DEF Looping, AtGate
<1> QED BY <1>1, <1>2, <1>3 DEF StepsLeft, Places

(* Each step of a worker leaves its delivery fewer steps to take. *)
LEMMA OwnStepsDown ==
  ASSUME IndInv, NEW w \in Workers, pc[w] # "idle", Work(w)
  PROVE  StepsLeft(w)' < StepsLeft(w) /\ StepsLeft(w)' \in Int
<1>0. /\ TypeOK /\ StepsLeft(w) \in 1 .. AtGate + 2 /\ AtGate \in Nat /\ AtGate' = AtGate
      /\ PoisonAt \in Nat /\ MaxCycles \in Nat /\ MaxCycles >= 1
      /\ copy[w] \in Record /\ job[w] \in Jobs
  <2>1. PoisonAt \in Nat /\ MaxCycles \in Nat /\ MaxCycles >= 1
    BY DeliveryAssumption
  <2>2. AtGate \in Nat
    BY <2>1, Laps
  <2>3. AtGate' = AtGate
    BY DEF AtGate, Lap
  <2>4. TypeOK /\ copy[w] \in Record /\ job[w] \in Jobs
    BY DEF IndInv, TypeOK
  <2> QED BY <2>1, <2>2, <2>3, <2>4, StepsLeftRange
<1>1. CASE SkipDead(w)
  <2>1. pc[w] = "popped" /\ pc'[w] = "returning"
    BY <1>0, <1>1 DEF SkipDead, Go, TypeOK
  <2>2. StepsLeft(w) = AtGate + 2 /\ StepsLeft(w)' = 1
    BY <1>0, <2>1 DEF StepsLeft
  <2> QED BY <1>0, <2>2
<1>2. CASE Hydrate(w)
  <2>1. pc[w] = "popped" /\ pc'[w] = "hydrated"
    BY <1>0, <1>2 DEF Hydrate, Go, TypeOK
  <2>2. StepsLeft(w) = AtGate + 2 /\ StepsLeft(w)' = AtGate + 1
    BY <1>0, <2>1 DEF StepsLeft
  <2> QED BY <1>0, <2>2
<1>3. CASE Recover(w) \/ Start(w)
  <2>1. pc[w] = "hydrated" /\ pc'[w] = "gate"
    BY <1>0, <1>3 DEF Recover, Start, Go, TypeOK
  <2>2. StepsLeft(w) = AtGate + 1 /\ StepsLeft(w)' = AtGate
    BY <1>0, <2>1 DEF StepsLeft
  <2> QED BY <1>0, <2>2
<1>4. CASE Raise(w) \/ Return(w)
  <2>1. pc'[w] = "idle"
    BY <1>0, <1>4 DEF Raise, Return, Go, TypeOK
  <2>2. StepsLeft(w)' = 0
    BY <2>1 DEF StepsLeft
  <2> QED BY <1>0, <2>2
<1>5. CASE FallBack(w)
  <2>1. pc[w] = "gate" /\ pc'[w] = "returning"
    BY <1>0, <1>5 DEF FallBack, Go, TypeOK
  <2>2. StepsLeft(w) = AtGate /\ StepsLeft(w)' = 1 /\ AtGate > 1
    <3>1. MaxCycles * Lap \in Nat
      BY <1>0, Laps
    <3> QED BY <1>0, <2>1, <3>1 DEF StepsLeft, AtGate
  <2> QED BY <1>0, <2>2
<1>6. CASE Enter(w)
  <2>1. pc[w] = "gate" /\ pc'[w] = "cycle" /\ cycles'[w] = 0 /\ copy'[w] = copy[w]
    BY <1>0, <1>6 DEF Enter, Go, TypeOK
  <2>2. copy[w].failures \in Nat /\ MaxCycles * Lap \in Nat
    BY <1>0, Laps DEF Record
  <2>3. Looping(w)' = MaxCycles * Lap + 2 * (PoisonAt + 1 - copy[w].failures) + 2
    BY <1>0, <2>1 DEF Looping, Lap
  <2>4. Looping(w)' < AtGate /\ Looping(w)' \in Int
    BY <1>0, <2>2, <2>3 DEF AtGate
  <2>5. StepsLeft(w) = AtGate /\ StepsLeft(w)' = Looping(w)'
    BY <1>0, <2>1 DEF StepsLeft
  <2> QED BY <2>4, <2>5
<1>7. CASE GoodCycle(w)
  <2>1. /\ pc[w] = "cycle" /\ pc'[w] = "cycle" /\ cycles'[w] = cycles[w] + 1
        /\ cycles[w] + 1 < MaxCycles /\ copy'[w] = Cleared(copy[w])
    BY <1>0, <1>7 DEF GoodCycle, Succeeds, Save, TypeOK
  <2>2. copy[w].failures \in 0 .. PoisonAt /\ cycles[w] \in 0 .. MaxCycles
    BY <2>1, FewFailures
  <2>3. copy'[w].failures = 0
    BY <1>0, <2>1 DEF Cleared, Record
  <2>4. /\ Lap \in Nat /\ Lap >= 2 * copy[w].failures + 4
        /\ (MaxCycles - cycles[w]) * Lap \in Nat
        /\ (MaxCycles - (cycles[w] + 1)) * Lap = (MaxCycles - cycles[w]) * Lap - Lap
    BY <2>1, <2>2, Laps
  <2>5. Looping(w)' = (MaxCycles - (cycles[w] + 1)) * Lap + 2 * (PoisonAt + 1 - 0) + 2
    BY <2>1, <2>3 DEF Looping, Lap
  <2>6. Looping(w)' < Looping(w) /\ Looping(w)' \in Int
    BY <1>0, <2>2, <2>4, <2>5 DEF Looping
  <2>7. StepsLeft(w) = Looping(w) /\ StepsLeft(w)' = Looping(w)'
    BY <2>1 DEF StepsLeft
  <2> QED BY <2>6, <2>7
<1>8. CASE LastCycle(w)
  <2>1. pc[w] = "cycle" /\ pc'[w] = "done"
    BY <1>0, <1>8 DEF LastCycle, Succeeds, Go, TypeOK
  <2>2. StepsLeft(w) = Looping(w) /\ StepsLeft(w)' = 2 /\ Looping(w) >= 4
    BY <2>1, StepsLeftRange DEF StepsLeft
  <2>3. Looping(w) \in 4 .. AtGate - 1
    BY <2>1, StepsLeftRange
  <2> QED BY <1>0, <2>2, <2>3
<1>9. CASE MarkSucceeded(w)
  <2>1. pc[w] = "done" /\ pc'[w] = "returning"
    BY <1>0, <1>9 DEF MarkSucceeded, Go, TypeOK
  <2> QED BY <2>1 DEF StepsLeft
<1>10. CASE Fails(w)
  <2>1. /\ pc[w] = "cycle" /\ pc'[w] = "failed"
        /\ cycles' = cycles /\ copy' = copy
    BY <1>0, <1>10 DEF Fails, Go, TypeOK
  <2>2. Looping(w)' = Looping(w) /\ Looping(w) \in 4 .. AtGate - 1
    BY <2>1, StepsLeftRange DEF Looping, Lap
  <2>3. StepsLeft(w) = Looping(w) /\ StepsLeft(w)' = Looping(w)' - 1
    BY <2>1 DEF StepsLeft
  <2> QED BY <1>0, <2>2, <2>3
<1>11. CASE MarkPoison(w) \/ Panic(w)
  <2>1. pc[w] = "failed" /\ pc'[w] = "returning"
    BY <1>0, <1>11 DEF MarkPoison, Panic, Go, TypeOK
  <2>2. Looping(w) \in 4 .. AtGate - 1
    BY <2>1, StepsLeftRange
  <2>3. StepsLeft(w) = Looping(w) - 1 /\ StepsLeft(w)' = 1
    BY <2>1 DEF StepsLeft
  <2> QED BY <1>0, <2>2, <2>3
<1>12. CASE Retry(w)
  <2>1. /\ pc[w] = "failed" /\ pc'[w] = "cycle"
        /\ cycles'[w] = cycles[w] /\ copy'[w] = Counted(copy[w])
    BY <1>0, <1>12 DEF Retry, Save, Go, TypeOK
  <2>2. copy'[w].failures = copy[w].failures + 1 /\ copy[w].failures \in Nat
    BY <1>0, <2>1 DEF Counted, Record
  <2>3. /\ cycles[w] \in 0 .. MaxCycles /\ copy[w].failures \in 0 .. PoisonAt
    BY <2>1, FewFailures
  <2>4. (MaxCycles - cycles[w]) * Lap \in Nat
    BY <2>3, Laps
  <2>5. Looping(w)' = (MaxCycles - cycles[w]) * Lap + 2 * (PoisonAt + 1 - (copy[w].failures + 1)) + 2
    BY <2>1, <2>2 DEF Looping, Lap
  <2>6. Looping(w)' = Looping(w) - 2 /\ Looping(w) \in Int
    BY <1>0, <2>2, <2>4, <2>5 DEF Looping
  <2>7. StepsLeft(w) = Looping(w) - 1 /\ StepsLeft(w)' = Looping(w)'
    BY <2>1 DEF StepsLeft
  <2> QED BY <2>6, <2>7
<1>13. CASE Malformed(w)
  <2>1. pc[w] = "cycle" /\ pc'[w] = "returning"
    BY <1>0, <1>13 DEF Malformed, Go, TypeOK
  <2>2. Looping(w) \in 4 .. AtGate - 1
    BY <2>1, StepsLeftRange
  <2>3. StepsLeft(w) = Looping(w) /\ StepsLeft(w)' = 1
    BY <2>1 DEF StepsLeft
  <2> QED BY <1>0, <2>2, <2>3
<1> QED BY <1>1, <1>2, <1>3, <1>4, <1>5, <1>6, <1>7, <1>8, <1>9, <1>10, <1>11, <1>12, <1>13
        DEF Work, Pop

(* Nobody else gives it more. *)
LEMMA OthersLeaveIt ==
  ASSUME IndInv, [Next]_vars, NEW w \in Workers, ~Work(w)
  PROVE  pc'[w] = "idle" \/ (pc'[w] = pc[w] /\ copy'[w] = copy[w] /\ cycles'[w] = cycles[w])
<1>0. TypeOK
  BY DEF IndInv
<1>1. ASSUME NEW v \in Workers, Work(v)
      PROVE  pc'[w] = pc[w] /\ copy'[w] = copy[w] /\ cycles'[w] = cycles[w]
  <2>1. v # w
    BY <1>1
  <2>2. /\ pc' = pc \/ \E p : pc' = [pc EXCEPT ![v] = p]
        /\ copy' = copy \/ \E r : copy' = [copy EXCEPT ![v] = r]
        /\ cycles' = cycles \/ \E n : cycles' = [cycles EXCEPT ![v] = n]
    BY <1>1 DEF Work, Pop, SkipDead, Hydrate, Recover, Start, Raise, FallBack, Enter, Succeeds,
       GoodCycle, LastCycle, MarkSucceeded, Malformed, Fails, MarkPoison, Retry, Panic, Return, Go, Save
  <2> QED BY <1>0, <2>1, <2>2 DEF TypeOK
<1>2. ASSUME NEW v \in Workers, Crash(v)
      PROVE  pc'[w] = "idle" \/ (pc'[w] = pc[w] /\ copy'[w] = copy[w] /\ cycles'[w] = cycles[w])
  BY <1>0, <1>2 DEF Crash, Go, TypeOK
<1>3. CASE Requeue \/ RequeuerCrash \/ UNCHANGED vars
  BY <1>3 DEF Requeue, RequeueFront, RemoveLease, PushBack, RequeuerCrash, vars, locals
<1> QED BY <1>1, <1>2, <1>3 DEF Next

(* However an executor fails, and whoever crashes meanwhile, a delivery is over after
   at most AtGate + 2 steps of its worker: retries, the poison threshold and good
   cycles that reset the count never add up to an endless loop. *)
THEOREM DeliveriesEnd == Spec => DeliveriesRunDown
<1> DEFINE Down == \A w \in Workers : pc[w] # "idle" =>
                     /\ StepsLeft(w) \in 1 .. AtGate + 2
                     /\ StepsLeft(w)' <= StepsLeft(w)
                     /\ Work(w) => StepsLeft(w)' < StepsLeft(w)
<1>1. ASSUME IndInv, [Next]_vars
      PROVE  Down
  <2> SUFFICES ASSUME NEW w \in Workers, pc[w] # "idle"
               PROVE  /\ StepsLeft(w) \in 1 .. AtGate + 2
                      /\ StepsLeft(w)' <= StepsLeft(w)
                      /\ Work(w) => StepsLeft(w)' < StepsLeft(w)
    OBVIOUS
  <2>1. StepsLeft(w) \in 1 .. AtGate + 2 /\ AtGate \in Nat
    BY <1>1, StepsLeftRange, Laps, DeliveryAssumption
  <2>2. CASE Work(w)
    <3>1. StepsLeft(w)' < StepsLeft(w) /\ StepsLeft(w)' \in Int
      BY <1>1, <2>2, OwnStepsDown
    <3> QED BY <2>1, <2>2, <3>1
  <2>3. CASE ~Work(w)
    <3>1. pc'[w] = "idle" \/ (pc'[w] = pc[w] /\ copy'[w] = copy[w] /\ cycles'[w] = cycles[w])
      BY <1>1, <2>3, OthersLeaveIt
    <3>2. CASE pc'[w] = "idle"
      <4>1. StepsLeft(w)' = 0
        BY <3>2 DEF StepsLeft
      <4> QED BY <2>1, <2>3, <4>1
    <3>3. CASE pc'[w] = pc[w] /\ copy'[w] = copy[w] /\ cycles'[w] = cycles[w]
      <4>1. StepsLeft(w)' = StepsLeft(w)
        BY <3>3 DEF StepsLeft, Looping, AtGate, Lap
      <4> QED BY <2>1, <2>3, <4>1
    <3> QED BY <3>1, <3>2, <3>3
  <2> QED BY <2>1, <2>2, <2>3
<1>2. IndInv /\ [Next]_vars => [Down]_vars
  BY <1>1
<1> QED BY <1>2, Invariance, PTL DEF Spec, DeliveriesRunDown
=============================================================================
