-------------------------- MODULE PipelineRun_proofs --------------------------
(***************************************************************************)
(* Proofs about PipelineRun, for any workflows, registries and iterations. *)
(* The argument is about Line, the executions run, being run and queued:   *)
(* the driver's own turns leave it as it is, and the engine only adds to   *)
(* its end, executions younger than all those in it.                       *)
(***************************************************************************)
EXTENDS PipelineRun, SequenceTheorems, TLAPS

(* Line, as a function of what it is made of. *)
LineOf(rs, c, ps) == Ids(rs) \o c \o Ids(ps)
InHandIds == IF Running THEN <<current.id>> ELSE <<>>

(* InOrder and NoneForgotten of any sequence of numbers. *)
Ordered(L, S) ==
  \A m, n \in DOMAIN L : m < n => L[m] < L[n] \/ (L[m] = L[n] /\ n = m + 1 /\ L[m] \in S)
Holds(L, from, upto) == {L[n] : n \in DOMAIN L} = from + 1 .. upto

(* What is known of the driver at each place. *)
PlaceInv ==
  /\ pc = "announce" => started = 0
  /\ pc \in {"announce", "start"} => pending = <<>> /\ results = <<>> /\ unheard = started
  /\ Running => current \in Execution
  /\ Active => current.status = "running"
  /\ \A n \in DOMAIN pending : pending[n].status = "running"

(* The inductive invariant. *)
IndInv == TypeOK /\ PlaceInv /\ InOrder /\ NoneForgotten

-----------------------------------------------------------------------------
(* Sequences. *)

LEMMA Numbers ==
  /\ \A x \in Result : x.id \in Nat
  /\ \A x \in Execution : x.id \in Nat
BY DEF Result, Execution

LEMMA IdsFacts ==
  ASSUME NEW S, NEW s \in Seq(S), \A x \in S : x.id \in Nat
  PROVE  /\ Ids(s) \in Seq(Nat)
         /\ Len(Ids(s)) = Len(s)
         /\ \A n \in 1 .. Len(s) : Ids(s)[n] = s[n].id
<1>1. DOMAIN s = 1 .. Len(s) /\ Len(s) \in Nat /\ \A n \in 1 .. Len(s) : s[n].id \in Nat
  BY LenProperties, ElementOfSeq
<1>2. Ids(s) = [n \in 1 .. Len(s) |-> s[n].id]
  BY <1>1 DEF Ids
<1> QED
  BY <1>1, <1>2

LEMMA QueueHead ==
  ASSUME NEW S, NEW ps \in Seq(S), ps # <<>>
  PROVE  /\ Head(ps) = ps[1] /\ Head(ps) \in S /\ Tail(ps) \in Seq(S)
         /\ Len(ps) > 0 /\ Len(Tail(ps)) = Len(ps) - 1
         /\ \A i \in 1 .. Len(ps) - 1 : Tail(ps)[i] = ps[i + 1]
OBVIOUS

LEMMA LastAdded ==
  ASSUME NEW S, NEW s \in Seq(S), NEW r \in S
  PROVE  /\ Append(s, r) \in Seq(S) /\ Len(Append(s, r)) = Len(s) + 1
         /\ \A i \in 1 .. Len(s) : Append(s, r)[i] = s[i]
         /\ Append(s, r)[Len(s) + 1] = r
OBVIOUS

LEMMA Concatenated ==
  ASSUME NEW S, NEW s \in Seq(S), NEW t \in Seq(S)
  PROVE  s \o t \in Seq(S) /\ Len(s \o t) = Len(s) + Len(t)
OBVIOUS

LEMMA Associative ==
  ASSUME NEW a \in Seq(Nat), NEW b \in Seq(Nat), NEW c \in Seq(Nat)
  PROVE  (a \o b) \o c = a \o (b \o c)
OBVIOUS

LEMMA Halves ==
  ASSUME NEW S, NEW s \in Seq(S), NEW t \in Seq(S)
  PROVE  /\ s \o t \in Seq(S) /\ Len(s \o t) = Len(s) + Len(t)
         /\ \A n \in 1 .. Len(s) : (s \o t)[n] = s[n]
         /\ \A n \in 1 .. Len(t) : (s \o t)[Len(s) + n] = t[n]
OBVIOUS

LEMMA SameSequence ==
  ASSUME NEW s \in Seq(Nat), NEW t \in Seq(Nat), Len(s) = Len(t),
         \A n \in 1 .. Len(s) : s[n] = t[n]
  PROVE  s = t
OBVIOUS

LEMMA InHalves ==
  ASSUME NEW s \in Seq(Nat), NEW a \in Seq(Nat), NEW b \in Seq(Nat),
         Len(s) = Len(a) + Len(b),
         \A n \in 1 .. Len(a) : s[n] = a[n],
         \A n \in 1 .. Len(b) : s[Len(a) + n] = b[n]
  PROVE  s = a \o b
<1>1. /\ a \o b \in Seq(Nat) /\ Len(a \o b) = Len(a) + Len(b)
      /\ \A n \in 1 .. Len(a) : (a \o b)[n] = a[n]
      /\ \A n \in 1 .. Len(b) : (a \o b)[Len(a) + n] = b[n]
  OBVIOUS
<1>2. Len(a) \in Nat /\ Len(b) \in Nat
  OBVIOUS
<1>3. ASSUME NEW n \in 1 .. Len(s) PROVE s[n] = (a \o b)[n]
  <2>1. CASE n <= Len(a)
    BY <2>1, <1>1, <1>2
  <2>2. CASE n > Len(a)
    <3>1. n - Len(a) \in 1 .. Len(b) /\ Len(a) + (n - Len(a)) = n
      BY <2>2, <1>2
    <3> QED
      BY <3>1, <1>1
  <2> QED
    BY <2>1, <2>2, <1>2
<1> QED
  BY <1>1, <1>3, SameSequence

LEMMA IdsOfHead ==
  ASSUME NEW ps \in Seq(Execution), ps # <<>>
  PROVE  Ids(ps) = <<Head(ps).id>> \o Ids(Tail(ps))
<1>1. /\ Head(ps) = ps[1] /\ Head(ps) \in Execution /\ Tail(ps) \in Seq(Execution)
      /\ Len(ps) > 0 /\ Len(Tail(ps)) = Len(ps) - 1
      /\ \A i \in 1 .. Len(ps) - 1 : Tail(ps)[i] = ps[i + 1]
  BY QueueHead
<1>2. Head(ps).id \in Nat /\ Len(ps) \in Nat
  BY <1>1, Numbers, LenProperties
<1>3. Ids(ps) \in Seq(Nat) /\ Len(Ids(ps)) = Len(ps) /\ \A n \in 1 .. Len(ps) : Ids(ps)[n] = ps[n].id
  BY IdsFacts, Numbers
<1>4. /\ Ids(Tail(ps)) \in Seq(Nat) /\ Len(Ids(Tail(ps))) = Len(ps) - 1
      /\ \A n \in 1 .. Len(ps) - 1 : Ids(Tail(ps))[n] = Tail(ps)[n].id
  BY <1>1, IdsFacts, Numbers
<1> DEFINE h == Head(ps).id  t == Ids(Tail(ps))
<1>5. h = ps[1].id
  BY <1>1
<1>6. \A n \in 1 .. Len(ps) - 1 : t[n] = ps[n + 1].id
  BY <1>1, <1>4
<1> HIDE DEF h, t
<1>7. /\ <<h>> \o t \in Seq(Nat) /\ Len(<<h>> \o t) = Len(ps)
      /\ (<<h>> \o t)[1] = h
      /\ \A n \in 1 .. Len(ps) - 1 : (<<h>> \o t)[n + 1] = t[n]
  BY <1>2, <1>4 DEF h, t
<1>8. ASSUME NEW n \in 1 .. Len(ps) PROVE Ids(ps)[n] = (<<h>> \o t)[n]
  <2>1. CASE n = 1
    BY <2>1, <1>1, <1>2, <1>3, <1>5, <1>7
  <2>2. CASE n # 1
    <3>1. n - 1 \in 1 .. Len(ps) - 1 /\ (n - 1) + 1 = n
      BY <2>2, <1>2
    <3> QED
      BY <3>1, <1>3, <1>6, <1>7
  <2> QED
    BY <2>1, <2>2
<1>9. Ids(ps) = <<h>> \o t
  BY <1>3, <1>7, <1>8, SameSequence
<1> QED
  BY <1>9 DEF h, t

LEMMA IdsOfAppend ==
  ASSUME NEW rs \in Seq(Result), NEW r \in Result
  PROVE  Ids(Append(rs, r)) = Ids(rs) \o <<r.id>>
<1>1. /\ Append(rs, r) \in Seq(Result) /\ Len(Append(rs, r)) = Len(rs) + 1
      /\ \A i \in 1 .. Len(rs) : Append(rs, r)[i] = rs[i]
      /\ Append(rs, r)[Len(rs) + 1] = r
  BY LastAdded
<1>2. r.id \in Nat /\ Len(rs) \in Nat
  BY Numbers, LenProperties
<1>3. Ids(rs) \in Seq(Nat) /\ Len(Ids(rs)) = Len(rs) /\ \A n \in 1 .. Len(rs) : Ids(rs)[n] = rs[n].id
  BY IdsFacts, Numbers
<1>4. /\ Ids(Append(rs, r)) \in Seq(Nat) /\ Len(Ids(Append(rs, r))) = Len(rs) + 1
      /\ \A n \in 1 .. Len(rs) + 1 : Ids(Append(rs, r))[n] = Append(rs, r)[n].id
  BY <1>1, IdsFacts, Numbers
<1> DEFINE i == r.id  t == Ids(rs)
<1>5. Ids(Append(rs, r))[Len(rs) + 1] = i
  BY <1>1, <1>2, <1>4
<1>6. \A n \in 1 .. Len(rs) : Ids(Append(rs, r))[n] = t[n]
  BY <1>1, <1>2, <1>3, <1>4
<1> HIDE DEF i, t
<1>7. /\ t \o <<i>> \in Seq(Nat) /\ Len(t \o <<i>>) = Len(rs) + 1
      /\ (t \o <<i>>)[Len(rs) + 1] = i
      /\ \A n \in 1 .. Len(rs) : (t \o <<i>>)[n] = t[n]
  BY <1>2, <1>3 DEF i, t
<1>8. ASSUME NEW n \in 1 .. Len(rs) + 1 PROVE Ids(Append(rs, r))[n] = (t \o <<i>>)[n]
  BY <1>2, <1>5, <1>6, <1>7
<1>9. Ids(Append(rs, r)) = t \o <<i>>
  BY <1>4, <1>7, <1>8, SameSequence
<1> QED
  BY <1>9 DEF i, t

LEMMA IdsOfConcat ==
  ASSUME NEW ps \in Seq(Execution), NEW xs \in Seq(Execution)
  PROVE  Ids(ps \o xs) = Ids(ps) \o Ids(xs)
<1>1. /\ Ids(ps) \in Seq(Nat) /\ Len(Ids(ps)) = Len(ps)
      /\ Ids(xs) \in Seq(Nat) /\ Len(Ids(xs)) = Len(xs)
      /\ \A n \in 1 .. Len(ps) : Ids(ps)[n] = ps[n].id
      /\ \A n \in 1 .. Len(xs) : Ids(xs)[n] = xs[n].id
  BY IdsFacts, Numbers
<1>2. Len(ps) \in Nat /\ Len(xs) \in Nat
  BY LenProperties
<1>3. /\ ps \o xs \in Seq(Execution) /\ Len(ps \o xs) = Len(ps) + Len(xs)
      /\ \A n \in 1 .. Len(ps) : (ps \o xs)[n] = ps[n]
      /\ \A n \in 1 .. Len(xs) : (ps \o xs)[Len(ps) + n] = xs[n]
  BY Halves
<1>4. /\ Ids(ps \o xs) \in Seq(Nat) /\ Len(Ids(ps \o xs)) = Len(ps) + Len(xs)
      /\ \A n \in 1 .. Len(ps) + Len(xs) : Ids(ps \o xs)[n] = (ps \o xs)[n].id
  BY <1>3, IdsFacts, Numbers
<1>5. ASSUME NEW n \in 1 .. Len(ps) PROVE Ids(ps \o xs)[n] = Ids(ps)[n]
  <2>1. n \in 1 .. Len(ps) + Len(xs)
    BY <1>2
  <2> QED
    BY <2>1, <1>1, <1>3, <1>4
<1>6. ASSUME NEW n \in 1 .. Len(xs) PROVE Ids(ps \o xs)[Len(ps) + n] = Ids(xs)[n]
  <2>1. Len(ps) + n \in 1 .. Len(ps) + Len(xs)
    BY <1>2
  <2> QED
    BY <2>1, <1>1, <1>3, <1>4
<1>7. Len(Ids(ps \o xs)) = Len(Ids(ps)) + Len(Ids(xs))
  BY <1>1, <1>4
<1> DEFINE s == Ids(ps \o xs)  a == Ids(ps)  b == Ids(xs)
<1>8. s \in Seq(Nat) /\ a \in Seq(Nat) /\ b \in Seq(Nat) /\ Len(s) = Len(a) + Len(b)
  BY <1>1, <1>4, <1>7
<1>9. \A n \in 1 .. Len(a) : s[n] = a[n]
  BY <1>1, <1>5
<1>10. \A n \in 1 .. Len(b) : s[Len(a) + n] = b[n]
  BY <1>1, <1>6
<1> HIDE DEF s, a, b
<1>11. s = a \o b
  BY <1>8, <1>9, <1>10, InHalves
<1> QED
  BY <1>11 DEF s, a, b

(* Taking the head of the queue, and giving its result, keep the line. *)
LEMMA BeginLine ==
  ASSUME NEW rs \in Seq(Result), NEW ps \in Seq(Execution), ps # <<>>
  PROVE  LineOf(rs, <<Head(ps).id>>, Tail(ps)) = LineOf(rs, <<>>, ps)
<1>1. Head(ps) \in Execution /\ Tail(ps) \in Seq(Execution)
  BY QueueHead
<1>2. Head(ps).id \in Nat
  BY <1>1, Numbers
<1>3. Ids(rs) \in Seq(Nat) /\ Ids(Tail(ps)) \in Seq(Nat) /\ <<Head(ps).id>> \in Seq(Nat)
  <2>1. Ids(rs) \in Seq(Nat)
    BY IdsFacts, Numbers
  <2>2. Ids(Tail(ps)) \in Seq(Nat)
    BY <1>1, IdsFacts, Numbers
  <2> QED
    BY <1>2, <2>1, <2>2
<1> DEFINE r == Ids(rs)  h == <<Head(ps).id>>  t == Ids(Tail(ps))
<1>4. Ids(ps) = h \o t
  BY IdsOfHead
<1>5. r \in Seq(Nat) /\ h \in Seq(Nat) /\ t \in Seq(Nat)
  BY <1>3
<1> HIDE DEF r, h, t
<1>6. (r \o h) \o t = r \o (h \o t)
  BY <1>5, Associative, Zenon
<1>7. r \o <<>> = r
  BY <1>5
<1> QED
  BY <1>4, <1>6, <1>7 DEF LineOf, r, h, t

LEMMA EndLine ==
  ASSUME NEW rs \in Seq(Result), NEW ps \in Seq(Execution), NEW r \in Result
  PROVE  LineOf(Append(rs, r), <<>>, ps) = LineOf(rs, <<r.id>>, ps)
<1>1. Append(rs, r) \in Seq(Result)
  BY LastAdded
<1>2. Ids(Append(rs, r)) \in Seq(Nat)
  BY <1>1, IdsFacts, Numbers
<1> DEFINE a == Ids(Append(rs, r))
<1>3. a = Ids(rs) \o <<r.id>>
  BY IdsOfAppend
<1>4. a \in Seq(Nat)
  BY <1>2
<1> HIDE DEF a
<1>5. a \o <<>> = a
  BY <1>4
<1> QED
  BY <1>3, <1>5 DEF LineOf, a

(* What is queued comes at the end of the line. *)
LEMMA QueueLine ==
  ASSUME NEW rs \in Seq(Result), NEW c \in Seq(Nat), NEW ps \in Seq(Execution),
         NEW xs \in Seq(Execution)
  PROVE  LineOf(rs, c, ps \o xs) = LineOf(rs, c, ps) \o Ids(xs)
<1>1. Ids(rs) \in Seq(Nat) /\ Ids(ps) \in Seq(Nat) /\ Ids(xs) \in Seq(Nat)
  BY IdsFacts, Numbers
<1>2. Ids(rs) \o c \in Seq(Nat)
  BY <1>1, Concatenated
<1> DEFINE r == Ids(rs) \o c  p == Ids(ps)  x == Ids(xs)
<1>3. Ids(ps \o xs) = p \o x
  BY IdsOfConcat
<1>4. r \in Seq(Nat) /\ p \in Seq(Nat) /\ x \in Seq(Nat)
  BY <1>1, <1>2
<1> HIDE DEF r, p, x
<1>5. (r \o p) \o x = r \o (p \o x)
  BY <1>4, Associative, Zenon
<1> QED
  BY <1>3, <1>5 DEF LineOf, r, p, x

(* Younger executions behind the line keep it in order. *)
LEMMA GrowOrdered ==
  ASSUME NEW L \in Seq(Nat), NEW X \in Seq(Nat), NEW s \in Nat, NEW S, NEW T, S \subseteq T,
         Ordered(L, S), Ordered(X, T),
         \A n \in DOMAIN L : L[n] <= s,
         \A n \in DOMAIN X : X[n] > s
  PROVE  Ordered(L \o X, T)
<1>1. /\ DOMAIN L = 1 .. Len(L) /\ DOMAIN X = 1 .. Len(X)
      /\ Len(L) \in Nat /\ Len(X) \in Nat
  OBVIOUS
<1>2. /\ L \o X \in Seq(Nat) /\ DOMAIN (L \o X) = 1 .. Len(L) + Len(X)
      /\ \A n \in 1 .. Len(L) : (L \o X)[n] = L[n]
      /\ \A n \in 1 .. Len(X) : (L \o X)[Len(L) + n] = X[n]
  OBVIOUS
<1> DEFINE Z == L \o X
<1>3. ASSUME NEW n \in 1 .. Len(L) + Len(X), n > Len(L)
      PROVE  n - Len(L) \in 1 .. Len(X) /\ Z[n] = X[n - Len(L)]
  <2>1. n - Len(L) \in 1 .. Len(X) /\ Len(L) + (n - Len(L)) = n
    BY <1>1, <1>3
  <2> QED
    BY <2>1, <1>2
<1>4. \A n \in 1 .. Len(L) : Z[n] = L[n]
  BY <1>2
<1>5. \A n \in 1 .. Len(L) : L[n] \in Nat
  BY <1>1
<1>6. \A n \in 1 .. Len(X) : X[n] \in Nat
  BY <1>1
<1> HIDE DEF Z
<1>7. ASSUME NEW m \in 1 .. Len(L) + Len(X), NEW n \in 1 .. Len(L) + Len(X), m < n
      PROVE  Z[m] < Z[n] \/ (Z[m] = Z[n] /\ n = m + 1 /\ Z[m] \in T)
  <2>1. CASE n <= Len(L)
    <3>1. m \in 1 .. Len(L) /\ n \in 1 .. Len(L)
      BY <2>1, <1>1, <1>7
    <3>2. L[m] < L[n] \/ (L[m] = L[n] /\ n = m + 1 /\ L[m] \in S)
      BY <3>1, <1>1, <1>7 DEF Ordered
    <3> QED
      BY <3>1, <3>2, <1>4
  <2>2. CASE n > Len(L) /\ m <= Len(L)
    <3>1. m \in 1 .. Len(L) /\ n - Len(L) \in 1 .. Len(X) /\ Z[n] = X[n - Len(L)]
      BY <2>2, <1>1, <1>3
    <3>2. L[m] <= s /\ X[n - Len(L)] > s
      BY <3>1, <1>1
    <3>3. L[m] \in Nat /\ X[n - Len(L)] \in Nat
      BY <3>1, <1>5, <1>6
    <3>4. Z[m] = L[m]
      BY <3>1, <1>4
    <3>5. Z[m] \in Nat /\ Z[n] \in Nat /\ Z[m] <= s /\ s < Z[n]
      BY <3>1, <3>2, <3>3, <3>4
    <3> QED
      BY <3>5
  <2>3. CASE n > Len(L) /\ m > Len(L)
    <3> DEFINE i == m - Len(L)  j == n - Len(L)
    <3>1. i \in 1 .. Len(X) /\ j \in 1 .. Len(X) /\ Z[m] = X[i] /\ Z[n] = X[j]
      BY <2>3, <1>3
    <3>2. i < j /\ (j = i + 1 => n = m + 1)
      BY <1>1, <1>7
    <3>3. X[i] < X[j] \/ (X[i] = X[j] /\ j = i + 1 /\ X[i] \in T)
      BY <3>1, <3>2, <1>1 DEF Ordered
    <3> QED
      BY <3>1, <3>2, <3>3
  <2> QED
    BY <2>1, <2>2, <2>3, <1>1
<1>8. Ordered(Z, T)
  BY <1>2, <1>7 DEF Ordered, Z
<1> QED
  BY <1>8 DEF Z

(* Behind the executions up to s, those from s + 1 to t. *)
LEMMA GrowHolds ==
  ASSUME NEW L \in Seq(Nat), NEW X \in Seq(Nat),
         NEW u \in Nat, NEW s \in Nat, NEW t \in Nat, u <= s, s <= t,
         Holds(L, u, s), Holds(X, s, t)
  PROVE  Holds(L \o X, u, t)
<1>1. /\ DOMAIN L = 1 .. Len(L) /\ DOMAIN X = 1 .. Len(X)
      /\ Len(L) \in Nat /\ Len(X) \in Nat
  OBVIOUS
<1>2. /\ DOMAIN (L \o X) = 1 .. Len(L) + Len(X)
      /\ \A n \in 1 .. Len(L) : (L \o X)[n] = L[n]
      /\ \A n \in 1 .. Len(X) : (L \o X)[Len(L) + n] = X[n]
  OBVIOUS
<1> DEFINE Z == L \o X
<1>3. ASSUME NEW n \in DOMAIN Z PROVE Z[n] \in u + 1 .. t
  <2>1. CASE n <= Len(L)
    <3>1. n \in DOMAIN L /\ Z[n] = L[n]
      BY <2>1, <1>1, <1>2
    <3>2. L[n] \in u + 1 .. s
      BY <3>1 DEF Holds
    <3> QED
      BY <3>1, <3>2
  <2>2. CASE n > Len(L)
    <3>1. n - Len(L) \in 1 .. Len(X) /\ Len(L) + (n - Len(L)) = n
      BY <2>2, <1>1, <1>2
    <3>2. Z[n] = X[n - Len(L)] /\ n - Len(L) \in DOMAIN X
      BY <3>1, <1>1, <1>2
    <3>3. X[n - Len(L)] \in s + 1 .. t
      BY <3>2 DEF Holds
    <3> QED
      BY <3>2, <3>3
  <2> QED
    BY <2>1, <2>2, <1>1, <1>2
<1>4. ASSUME NEW k \in u + 1 .. t PROVE \E n \in DOMAIN Z : Z[n] = k
  <2>1. CASE k <= s
    <3>1. k \in u + 1 .. s
      BY <2>1
    <3>2. PICK n \in DOMAIN L : L[n] = k
      BY <3>1 DEF Holds
    <3>3. n \in DOMAIN Z /\ Z[n] = k
      BY <3>2, <1>1, <1>2
    <3> QED
      BY <3>3
  <2>2. CASE k > s
    <3>1. k \in s + 1 .. t
      BY <2>2
    <3>2. PICK n \in DOMAIN X : X[n] = k
      BY <3>1 DEF Holds
    <3>3. Len(L) + n \in DOMAIN Z /\ Z[Len(L) + n] = k
      BY <3>2, <1>1, <1>2
    <3> QED
      BY <3>3
  <2> QED
    BY <2>1, <2>2
<1> HIDE DEF Z
<1>5. {Z[n] : n \in DOMAIN Z} = u + 1 .. t
  BY <1>3, <1>4
<1> QED
  BY <1>5 DEF Holds, Z

-----------------------------------------------------------------------------
(* The line of a state, and what a step does to it. *)

LEMMA LineParts == Line = LineOf(results, InHandIds, pending)
BY DEF Line, LineOf, InHandIds

LEMMA InvariantsOfLine ==
  /\ InOrder <=> Ordered(Line, subs)
  /\ NoneForgotten <=> Holds(Line, unheard, started)
BY DEF InOrder, Ordered, NoneForgotten, Holds

LEMMA LineTyped ==
  ASSUME TypeOK, Running => current \in Execution
  PROVE  InHandIds \in Seq(Nat) /\ Line \in Seq(Nat)
<1>1. InHandIds \in Seq(Nat)
  <2>1. CASE Running
    <3>1. current.id \in Nat
      BY <2>1, Numbers
    <3> QED
      BY <2>1, <3>1 DEF InHandIds
  <2>2. CASE ~Running
    BY <2>2 DEF InHandIds
  <2> QED
    BY <2>1, <2>2
<1> DEFINE r == Ids(results)  c == InHandIds  p == Ids(pending)
<1>2. r \in Seq(Nat)
  BY IdsFacts, Numbers DEF TypeOK
<1>3. p \in Seq(Nat)
  BY IdsFacts, Numbers DEF TypeOK
<1>4. c \in Seq(Nat)
  BY <1>1
<1>5. Line = r \o c \o p
  BY LineParts DEF LineOf
<1> HIDE DEF r, c, p
<1>6. r \o c \o p \in Seq(Nat)
  BY <1>2, <1>3, <1>4
<1> QED
  BY <1>1, <1>5, <1>6

(* The execution in hand is one of the driver's. *)
LEMMA InHandKnown ==
  ASSUME IndInv, Running
  PROVE  current \in Execution /\ current.id \in unheard + 1 .. started
<1>1. current \in Execution /\ current.id \in Nat
  BY Numbers DEF IndInv, PlaceInv
<1> DEFINE r == Ids(results)  i == current.id  p == Ids(pending)
<1>2. r \in Seq(Nat) /\ p \in Seq(Nat)
  <2>1. r \in Seq(Nat)
    BY IdsFacts, Numbers DEF IndInv, TypeOK
  <2>2. p \in Seq(Nat)
    BY IdsFacts, Numbers DEF IndInv, TypeOK
  <2> QED
    BY <2>1, <2>2
<1>3. Line = r \o <<i>> \o p
  BY LineParts DEF LineOf, InHandIds
<1>4. i \in Nat
  BY <1>1
<1> HIDE DEF r, i, p
<1>5. LET L == r \o <<i>> \o p IN Len(r) + 1 \in DOMAIN L /\ L[Len(r) + 1] = i
  BY <1>2, <1>4
<1>6. Len(r) + 1 \in DOMAIN Line /\ Line[Len(r) + 1] = i
  BY <1>3, <1>5
<1>7. i \in unheard + 1 .. started
  BY <1>6 DEF IndInv, NoneForgotten
<1> QED
  BY <1>1, <1>7 DEF i

(* The line of the next state begins with this one's. *)
Extends == \A n \in DOMAIN Line : n \in DOMAIN Line' /\ Line'[n] = Line[n]

LEMMA Extended ==
  ASSUME TypeOK, Running => current \in Execution, NEW X \in Seq(Nat), Line' = Line \o X
  PROVE  Extends
<1> DEFINE L == Line
<1>1. L \in Seq(Nat)
  BY LineTyped
<1> HIDE DEF L
<1>2. \A n \in DOMAIN L : n \in DOMAIN (L \o X) /\ (L \o X)[n] = L[n]
  BY <1>1
<1> QED
  BY <1>2 DEF L, Extends

LEMMA Kept ==
  ASSUME IndInv, Line' = Line, UNCHANGED <<started, unheard, subs>>
  PROVE  InOrder' /\ NoneForgotten' /\ Extends
BY DEF IndInv, InOrder, NoneForgotten, Extends

LEMMA Grown ==
  ASSUME IndInv, NEW X \in Seq(Nat), Line' = Line \o X,
         unheard' = unheard, subs \subseteq subs',
         started' \in Nat, started <= started',
         Ordered(X, subs'), Holds(X, started, started')
  PROVE  InOrder' /\ NoneForgotten' /\ Extends
<1>1. Line \in Seq(Nat)
  BY LineTyped DEF IndInv, PlaceInv
<1>2. Ordered(Line, subs) /\ Holds(Line, unheard, started)
  BY InvariantsOfLine DEF IndInv
<1>3. started \in Nat /\ unheard \in Nat /\ unheard <= started
  BY DEF IndInv, TypeOK
<1>4. \A n \in DOMAIN Line : Line[n] <= started
  BY <1>2, <1>3 DEF Holds
<1>5. \A n \in DOMAIN X : X[n] > started
  <2>1. \A n \in DOMAIN X : X[n] \in started + 1 .. started'
    BY DEF Holds
  <2> QED
    BY <2>1, <1>3
<1> DEFINE L == Line
<1>6. L \in Seq(Nat) /\ Ordered(L, subs) /\ Holds(L, unheard, started) /\ \A n \in DOMAIN L : L[n] <= started
  BY <1>1, <1>2, <1>4
<1> HIDE DEF L
<1>7. Ordered(L \o X, subs')
  BY <1>3, <1>5, <1>6, GrowOrdered
<1>8. Holds(L \o X, unheard, started')
  BY <1>3, <1>6, GrowHolds
<1>9. Ordered(Line', subs') /\ Holds(Line', unheard', started')
  BY <1>7, <1>8 DEF L
<1>10. Extends
  BY Extended DEF IndInv, PlaceInv
<1> QED
  BY <1>9, <1>10 DEF InOrder, Ordered, NoneForgotten, Holds

(* Turns that neither take from the queue nor give a result keep the line. *)
LEMMA SameLine ==
  ASSUME UNCHANGED <<results, pending>>, Running, Running', current'.id = current.id
  PROVE  Line' = Line
BY DEF Line, Ids

LEMMA StartedTyped ==
  ASSUME TypeOK, NEW w \in Workflows, NEW id \in Nat \ {0}
  PROVE  /\ Started(w, id) \in Execution
         /\ Started(w, id).id = id /\ Started(w, id).status = "running"
<1>1. registry.def[w].start \in Steps
  BY PipelineAssumption DEF TypeOK, Registry, Definition
<1> QED
  BY <1>1 DEF Started, Execution, Statuses

LEMMA StartedAllTyped ==
  ASSUME TypeOK, NEW ws \in Seq(Workflows)
  PROVE  LET xs == StartedAll(ws) IN
         /\ xs \in Seq(Execution) /\ Len(xs) = Len(ws)
         /\ \A n \in DOMAIN xs : xs[n].status = "running"
         /\ Ordered(Ids(xs), subs) /\ Holds(Ids(xs), started, started + Len(xs))
<1> DEFINE xs == StartedAll(ws)
<1>1. Len(ws) \in Nat /\ DOMAIN ws = 1 .. Len(ws) /\ \A n \in 1 .. Len(ws) : ws[n] \in Workflows
  OBVIOUS
<1>2. started \in Nat
  BY DEF TypeOK
<1>3. ASSUME NEW n \in 1 .. Len(ws)
      PROVE  /\ Started(ws[n], started + n) \in Execution
             /\ Started(ws[n], started + n).id = started + n
             /\ Started(ws[n], started + n).status = "running"
  <2>1. started + n \in Nat \ {0} /\ ws[n] \in Workflows
    BY <1>1, <1>2
  <2> QED
    BY <2>1, StartedTyped
<1>4. xs = [n \in 1 .. Len(ws) |-> Started(ws[n], started + n)]
  BY <1>1 DEF StartedAll
<1>5. xs \in Seq(Execution) /\ Len(xs) = Len(ws)
  BY <1>1, <1>3, <1>4
<1>6. \A n \in 1 .. Len(ws) : xs[n].id = started + n /\ xs[n].status = "running"
  BY <1>3, <1>4
<1> HIDE DEF xs
<1>7. Ids(xs) \in Seq(Nat) /\ Len(Ids(xs)) = Len(xs) /\ \A n \in 1 .. Len(xs) : Ids(xs)[n] = xs[n].id
  BY <1>5, IdsFacts, Numbers
<1> DEFINE X == Ids(xs)
<1>8. DOMAIN X = 1 .. Len(ws) /\ \A n \in 1 .. Len(ws) : X[n] = started + n
  BY <1>5, <1>6, <1>7
<1> HIDE DEF X
<1>9. Ordered(X, subs)
  BY <1>1, <1>2, <1>8 DEF Ordered
<1>10. Holds(X, started, started + Len(ws))
  <2>1. ASSUME NEW k \in started + 1 .. started + Len(ws) PROVE \E n \in DOMAIN X : X[n] = k
    <3>1. k - started \in DOMAIN X /\ X[k - started] = k
      BY <1>1, <1>2, <1>8
    <3> QED
      BY <3>1
  <2>2. \A n \in DOMAIN X : X[n] \in started + 1 .. started + Len(ws)
    BY <1>1, <1>2, <1>8
  <2> QED
    BY <2>1, <2>2 DEF Holds
<1>11. DOMAIN xs = 1 .. Len(ws)
  BY <1>5
<1> QED
  BY <1>5, <1>6, <1>9, <1>10, <1>11 DEF xs, X

LEMMA RoutedTyped ==
  ASSUME TypeOK, NEW e
  PROVE  Routed(e) \in Seq(Workflows)
<1>1. CASE e \in StartEvents
  <2>1. e \in Events /\ registry \in Registry
    BY <1>1, PipelineAssumption DEF TypeOK
  <2> QED
    BY <1>1, <2>1 DEF Routed, Matches, Registry
<1>2. CASE e \notin StartEvents
  BY <1>2 DEF Routed
<1> QED
  BY <1>1, <1>2

-----------------------------------------------------------------------------
(* Definitions and executions. *)

LEMMA StepTyped ==
  ASSUME TypeOK, NEW x \in Execution, NEW s \in Steps
  PROVE  /\ Def(x).steps[s] \in Step
         /\ Def(x).steps[s].next \in Steps \cup {End}
         /\ Def(x).steps[s].otherwise \in Steps \cup {End, None}
         /\ Def(x).steps[s].type = "sub" /\ Def(x).steps[s].does # None
              => Def(x).steps[s].does \in Workflows
<1>1. Def(x) \in Definition
  BY PipelineAssumption DEF TypeOK, Registry, Def, Execution
<1>2. Def(x).steps[s] \in Step
  BY <1>1 DEF Definition
<1> QED
  BY <1>2 DEF Step, StepWith

LEMMA FailStepTyped ==
  ASSUME TypeOK, NEW x \in Execution, NEW s \in Steps
  PROVE  FailStep(x, s) \in Execution
BY StepTyped DEF FailStep, Execution, Statuses

LEMMA PastTyped ==
  ASSUME TypeOK, NEW x \in Execution, x.step # End
  PROVE  Past(x) \in Execution /\ Past(x).id = x.id /\ Past(x).status = x.status
<1>1. x.step \in Steps
  BY DEF Execution
<1> QED
  BY <1>1, StepTyped DEF Past, Execution

LEMMA SaveTyped ==
  ASSUME TypeOK, NEW x \in Execution, Save(x), UNCHANGED <<unheard, started>>
  PROVE  store' \in [unheard' + 1 .. started' -> Execution]
BY DEF TypeOK, Save

LEMMA StoredTyped ==
  ASSUME TypeOK, NEW xs \in Seq(Execution)
  PROVE  Stored(xs) \in [unheard + 1 .. started + Len(xs) -> Execution]
<1>1. started \in Nat /\ unheard \in 0 .. started /\ Len(xs) \in Nat
  BY DEF TypeOK
<1>2. ASSUME NEW id \in unheard + 1 .. started + Len(xs), id <= started
      PROVE  store[id] \in Execution
  <2>1. id \in unheard + 1 .. started
    BY <1>1, <1>2
  <2> QED
    BY <2>1 DEF TypeOK
<1>3. ASSUME NEW id \in unheard + 1 .. started + Len(xs), id > started
      PROVE  xs[id - started] \in Execution
  <2>1. id - started \in 1 .. Len(xs)
    BY <1>1, <1>3
  <2> QED
    BY <2>1
<1> QED
  BY <1>1, <1>2, <1>3 DEF Stored

-----------------------------------------------------------------------------
(* Each action preserves the invariant. *)

LEMMA NoExecutions == \A n \in Nat : n + 1 .. n = {}
OBVIOUS

LEMMA InvInit ==
  ASSUME Init
  PROVE  IndInv
<1>1. TypeOK
  BY PipelineAssumption DEF Init, TypeOK, Places, Active
<1>2. PlaceInv
  BY DEF Init, PlaceInv, Running, Active
<1>3. Line = <<>>
  <2>1. Ids(<<>>) = <<>>
    BY DEF Ids
  <2>2. Line = Ids(<<>>) \o <<>> \o Ids(<<>>)
    BY DEF Init, Line, Running
  <2> QED
    BY <2>1, <2>2
<1>4. started = 0 /\ unheard = 0
  BY DEF Init
<1>5. InOrder /\ NoneForgotten
  BY <1>3, <1>4 DEF InOrder, NoneForgotten
<1> QED
  BY <1>1, <1>2, <1>5 DEF IndInv

LEMMA InvAnnounce ==
  ASSUME IndInv, Announce
  PROVE  IndInv' /\ Extends
<1>1. Routed(First) \in Seq(Workflows)
  BY RoutedTyped DEF IndInv
<1>2. started' \in Nat /\ unheard' = started' /\ started = 0 /\ unheard = 0
  <2>1. started' \in Nat
    BY <1>1 DEF Announce
  <2> QED
    BY <2>1 DEF Announce, IndInv, PlaceInv, TypeOK
<1>3. TypeOK'
  <2>1. unheard + 1 .. started = unheard' + 1 .. started'
    BY <1>2, NoExecutions
  <2>2. store' \in [unheard' + 1 .. started' -> Execution]
    BY <2>1 DEF Announce, IndInv, TypeOK
  <2>3. subs' \subseteq 1 .. started' /\ broken' \subseteq 1 .. started'
    BY <1>2 DEF Announce, IndInv, TypeOK
  <2> QED
    BY <1>2, <2>2, <2>3 DEF Announce, IndInv, TypeOK, Places, Active
<1>4. PlaceInv'
  BY <1>2 DEF Announce, IndInv, PlaceInv, Running, Active
<1>5. Line' = Line
  BY DEF Announce, Line, Running, Ids
<1>6. InOrder'
  BY <1>5 DEF Announce, IndInv, InOrder
<1>7. NoneForgotten'
  <2>1. unheard + 1 .. started = unheard' + 1 .. started'
    BY <1>2, NoExecutions
  <2> QED
    BY <2>1, <1>5 DEF IndInv, NoneForgotten
<1>8. Extends
  BY <1>5 DEF Extends
<1> QED
  BY <1>3, <1>4, <1>6, <1>7, <1>8 DEF IndInv

LEMMA InvStartPipeline ==
  ASSUME IndInv, StartPipeline
  PROVE  IndInv' /\ Extends
<1> DEFINE xs == StartedAll(Matches(First))
<1>1. Matches(First) \in Seq(Workflows)
  <2>1. First \in Events /\ registry \in Registry
    BY PipelineAssumption DEF IndInv, TypeOK
  <2> QED
    BY <2>1 DEF Matches, Registry
<1>2. /\ xs \in Seq(Execution)
      /\ \A n \in DOMAIN xs : xs[n].status = "running"
      /\ Ordered(Ids(xs), subs) /\ Holds(Ids(xs), started, started + Len(xs))
  BY <1>1, StartedAllTyped DEF IndInv
<1>3. /\ started' = started + Len(xs) /\ pending' = pending \o xs /\ store' = Stored(xs)
      /\ pc = "start" /\ pc' = "queue"
      /\ UNCHANGED <<registry, results, current, at, iteration, unheard, subs, broken>>
  BY DEF StartPipeline, Capture
<1>4. Stored(xs) \in [unheard + 1 .. started + Len(xs) -> Execution]
  BY <1>2, StoredTyped DEF IndInv
<1>5. pending = <<>> /\ results = <<>>
  BY <1>3 DEF IndInv, PlaceInv
<1> HIDE DEF xs
<1>6. Len(xs) \in Nat /\ pending' = xs
  BY <1>2, <1>3, <1>5
<1>7. TypeOK'
  <2>1. started' \in Nat /\ started <= started' /\ started \in Nat
    BY <1>3, <1>6 DEF IndInv, TypeOK
  <2>2. subs' \subseteq 1 .. started' /\ broken' \subseteq 1 .. started' /\ unheard' \in 0 .. started'
    BY <2>1, <1>3 DEF IndInv, TypeOK
  <2>3. store' \in [unheard' + 1 .. started' -> Execution]
    BY <1>3, <1>4
  <2> QED
    BY <2>1, <2>2, <2>3, <1>2, <1>3, <1>6 DEF IndInv, TypeOK, Places, Active
<1>8. PlaceInv'
  BY <1>2, <1>3, <1>6 DEF PlaceInv, Running, Active
<1>9. Line' = Line \o Ids(xs)
  <2>1. Line = LineOf(results, <<>>, pending) /\ Line' = LineOf(results, <<>>, pending \o xs)
    BY <1>3 DEF Line, LineOf, Running
  <2>2. results \in Seq(Result) /\ pending \in Seq(Execution) /\ <<>> \in Seq(Nat)
    BY DEF IndInv, TypeOK
  <2> QED
    BY <2>1, <2>2, <1>2, QueueLine
<1>10. Ids(xs) \in Seq(Nat)
  BY <1>2, IdsFacts, Numbers
<1>11. InOrder' /\ NoneForgotten' /\ Extends
  <2>1. started' \in Nat /\ started <= started'
    BY <1>3, <1>6 DEF IndInv, TypeOK
  <2>2. Ordered(Ids(xs), subs') /\ Holds(Ids(xs), started, started') /\ unheard' = unheard
        /\ subs \subseteq subs'
    BY <1>2, <1>3
  <2> QED
    BY <2>1, <2>2, <1>9, <1>10, Grown
<1> QED
  BY <1>7, <1>8, <1>11 DEF IndInv

LEMMA InvBegin ==
  ASSUME IndInv, Begin
  PROVE  IndInv' /\ Extends
<1>1. /\ pending \in Seq(Execution) /\ pending # <<>> /\ results \in Seq(Result)
      /\ Head(pending) = pending[1] /\ Head(pending) \in Execution
      /\ Tail(pending) \in Seq(Execution) /\ Len(pending) > 0 /\ Len(pending) \in Nat
      /\ Len(Tail(pending)) = Len(pending) - 1
      /\ \A i \in 1 .. Len(pending) - 1 : Tail(pending)[i] = pending[i + 1]
  BY QueueHead DEF Begin, IndInv, TypeOK
<1>2. TypeOK'
  BY <1>1, PipelineAssumption DEF Begin, IndInv, TypeOK, Places, Active
<1>3. PlaceInv'
  <2>1. \A n \in 1 .. Len(pending) : pending[n].status = "running"
    BY <1>1 DEF IndInv, PlaceInv
  <2>2. current' \in Execution /\ current'.status = "running"
    BY <1>1, <2>1 DEF Begin
  <2>3. \A n \in DOMAIN pending' : pending'[n].status = "running"
    <3>1. ASSUME NEW n \in 1 .. Len(pending) - 1 PROVE Tail(pending)[n].status = "running"
      <4>1. n + 1 \in 1 .. Len(pending)
        BY <1>1
      <4> QED
        BY <4>1, <2>1, <1>1
    <3>2. DOMAIN pending' = 1 .. Len(pending) - 1
      BY <1>1 DEF Begin
    <3> QED
      BY <3>1, <3>2 DEF Begin
  <2> QED
    BY <2>2, <2>3 DEF Begin, PlaceInv
<1>4. Line' = Line
  <2>1. Line = LineOf(results, <<>>, pending)
    BY DEF Begin, Line, LineOf, Running
  <2>2. Line' = LineOf(results, <<Head(pending).id>>, Tail(pending))
    BY DEF Begin, Line, LineOf, Running
  <2> QED
    BY <2>1, <2>2, <1>1, BeginLine
<1>5. InOrder' /\ NoneForgotten' /\ Extends
  BY <1>4, Kept DEF Begin
<1> QED
  BY <1>2, <1>3, <1>5 DEF IndInv

LEMMA InvReturn ==
  ASSUME IndInv, Return
  PROVE  IndInv' /\ Extends
<1>1. TypeOK'
  BY DEF Return, IndInv, TypeOK, Places, Active
<1>2. PlaceInv'
  BY DEF Return, IndInv, PlaceInv, Running, Active
<1>3. Line' = Line
  BY DEF Return, Line, Running, Ids
<1>4. InOrder' /\ NoneForgotten' /\ Extends
  BY <1>3, Kept DEF Return
<1> QED
  BY <1>1, <1>2, <1>4 DEF IndInv

(* The end of a run: its result takes the place of the execution in hand. *)
LEMMA InvEnds ==
  ASSUME IndInv, pc = "step", NEW status \in {"completed", "failed", "max_iterations"},
         Ends(status), store' \in [unheard + 1 .. started -> Execution],
         iteration' \in 0 .. MaxIterations,
         UNCHANGED <<registry, pending, started, unheard, subs, broken>>
  PROVE  IndInv' /\ Extends
<1> DEFINE r == [id |-> current.id, status |-> status]
<1>1. current \in Execution /\ results \in Seq(Result) /\ pending \in Seq(Execution)
  BY DEF IndInv, TypeOK, Active
<1>2. r \in Result /\ r.id = current.id
  BY <1>1 DEF Result, Execution
<1>3. results' = Append(results, r) /\ pc' = "queue" /\ UNCHANGED <<current, at>>
  BY DEF Ends
<1> HIDE DEF r
<1>4. results' \in Seq(Result)
  BY <1>1, <1>2, <1>3
<1>5. TypeOK'
  BY <1>3, <1>4 DEF IndInv, TypeOK, Places, Active
<1>6. PlaceInv'
  BY <1>3 DEF IndInv, PlaceInv, Running, Active
<1>7. Line' = Line
  <2>1. Line = LineOf(results, <<r.id>>, pending)
    BY <1>2 DEF Line, LineOf, Running
  <2>2. Line' = LineOf(Append(results, r), <<>>, pending)
    BY <1>3 DEF Line, LineOf, Running
  <2> QED
    BY <2>1, <2>2, <1>1, <1>2, EndLine
<1>8. InOrder' /\ NoneForgotten' /\ Extends
  BY <1>7, Kept
<1> QED
  BY <1>5, <1>6, <1>8 DEF IndInv

(* A turn that keeps the execution in hand. *)
LEMMA InvTurn ==
  ASSUME IndInv, Active, pc' \in {"step", "handle", "raised"},
         current' \in Execution, current'.id = current.id, current'.status = "running",
         pc' = "handle" => at' \in Steps,
         store' \in [unheard + 1 .. started -> Execution],
         iteration' \in 0 .. MaxIterations, broken' \subseteq 1 .. started,
         UNCHANGED <<registry, pending, results, started, unheard, subs>>
  PROVE  IndInv' /\ Extends
<1>1. TypeOK'
  BY DEF IndInv, TypeOK, Places, Active
<1>2. PlaceInv'
  BY DEF IndInv, PlaceInv, Running, Active
<1>3. Line' = Line
  BY SameLine DEF Running, Active
<1>4. InOrder' /\ NoneForgotten' /\ Extends
  BY <1>3, Kept
<1> QED
  BY <1>1, <1>2, <1>4 DEF IndInv

LEMMA IterateFacts ==
  ASSUME IndInv, Iterate
  PROVE  /\ Active /\ pc = "step" /\ iteration' \in 0 .. MaxIterations
         /\ current \in Execution /\ current.status = "running"
         /\ UNCHANGED <<registry, pending, started, unheard, subs, broken>>
         /\ broken \subseteq 1 .. started
         /\ TypeOK
BY PipelineAssumption DEF Iterate, IndInv, TypeOK, PlaceInv, Active

LEMMA SavedInTurn ==
  ASSUME TypeOK, NEW x \in Execution, Save(x)
  PROVE  store' \in [unheard + 1 .. started -> Execution]
BY DEF TypeOK, Save

LEMMA InvTooLong ==
  ASSUME IndInv, TooLong
  PROVE  IndInv' /\ Extends
BY InvEnds DEF TooLong, IndInv, TypeOK

LEMMA InvComplete ==
  ASSUME IndInv, Complete
  PROVE  IndInv' /\ Extends
<1>1. Iterate /\ Ends("completed") /\ Save([current EXCEPT !.status = "completed"])
  BY DEF Complete
<1>2. [current EXCEPT !.status = "completed"] \in Execution
  BY <1>1, IterateFacts DEF Execution, Statuses
<1>3. store' \in [unheard + 1 .. started -> Execution]
  BY <1>1, <1>2, IterateFacts, SavedInTurn
<1> QED
  BY <1>1, <1>3, IterateFacts, InvEnds

LEMMA InvBreak ==
  ASSUME IndInv, Break
  PROVE  IndInv' /\ Extends
<1>1. Iterate /\ Ends("failed") /\ Save([current EXCEPT !.status = "failed"])
  BY DEF Break
<1>2. [current EXCEPT !.status = "failed"] \in Execution
  BY <1>1, IterateFacts DEF Execution, Statuses
<1>3. store' \in [unheard + 1 .. started -> Execution]
  BY <1>1, <1>2, IterateFacts, SavedInTurn
<1> QED
  BY <1>1, <1>3, IterateFacts, InvEnds

LEMMA InvBranch ==
  ASSUME IndInv, Branch
  PROVE  IndInv' /\ Extends
<1>1. Iterate /\ current.step # End /\ UNCHANGED <<pc, results, at>>
  BY DEF Branch, AtStep
<1>2. PICK target \in {Def(current).steps[current.step].next,
                       Def(current).steps[current.step].otherwise} :
        LET x == [current EXCEPT !.step = IF target = None THEN End ELSE target]
        IN Save(x) /\ current' = x
  BY DEF Branch
<1> DEFINE x == [current EXCEPT !.step = IF target = None THEN End ELSE target]
<1>3. current \in Execution /\ current.step \in Steps
  BY <1>1, IterateFacts DEF Execution
<1>4. target \in Steps \cup {End, None}
  BY <1>1, <1>2, <1>3, StepTyped, IterateFacts
<1>5. x \in Execution /\ x.id = current.id /\ x.status = current.status
  BY <1>3, <1>4 DEF Execution
<1>6. Save(x) /\ current' = x
  BY <1>2
<1> HIDE DEF x
<1>7. store' \in [unheard + 1 .. started -> Execution]
  BY <1>1, <1>5, <1>6, IterateFacts, SavedInTurn
<1>8. /\ Active /\ pc' = "step" /\ iteration' \in 0 .. MaxIterations
      /\ UNCHANGED <<registry, pending, results, started, unheard, subs, broken>>
      /\ broken \subseteq 1 .. started /\ current.status = "running"
  BY <1>1, IterateFacts
<1> QED
  BY <1>5, <1>6, <1>7, <1>8, InvTurn

LEMMA InvDispatch ==
  ASSUME IndInv, Dispatch
  PROVE  IndInv' /\ Extends
<1>1. /\ Iterate /\ current.step # End /\ Save(Past(current)) /\ current' = Past(current)
      /\ at' = current.step /\ pc' = "handle" /\ UNCHANGED results
  BY DEF Dispatch, AtStep
<1>2. current \in Execution /\ current.step \in Steps
  BY <1>1, IterateFacts DEF Execution
<1>3. current' \in Execution /\ current'.id = current.id /\ current'.status = "running"
  BY <1>1, <1>2, PastTyped, IterateFacts
<1>4. store' \in [unheard + 1 .. started -> Execution]
  BY <1>1, <1>3, IterateFacts, SavedInTurn
<1>5. /\ Active /\ iteration' \in 0 .. MaxIterations
      /\ UNCHANGED <<registry, pending, results, started, unheard, subs, broken>>
      /\ broken \subseteq 1 .. started
  BY <1>1, IterateFacts
<1> QED
  BY <1>1, <1>2, <1>3, <1>4, <1>5, InvTurn

LEMMA InvUnsupported ==
  ASSUME IndInv, Unsupported
  PROVE  IndInv' /\ Extends
<1>1. Iterate /\ current.step # End /\ Ends("failed") /\ Save(Past(current))
  BY DEF Unsupported, AtStep
<1>2. Past(current) \in Execution
  BY <1>1, PastTyped, IterateFacts
<1>3. store' \in [unheard + 1 .. started -> Execution]
  BY <1>1, <1>2, IterateFacts, SavedInTurn
<1> QED
  BY <1>1, <1>3, IterateFacts, InvEnds

LEMMA InvAskRaises ==
  ASSUME IndInv, AskRaises
  PROVE  IndInv' /\ Extends
<1>1. /\ Iterate /\ current.step # End /\ Save([Past(current) EXCEPT !.status = "waiting"])
      /\ pc' = "raised" /\ UNCHANGED <<results, current, at>>
  BY DEF AskRaises, AtStep
<1>2. Past(current) \in Execution
  BY <1>1, PastTyped, IterateFacts
<1>3. [Past(current) EXCEPT !.status = "waiting"] \in Execution
  BY <1>2 DEF Execution, Statuses
<1>4. store' \in [unheard + 1 .. started -> Execution]
  BY <1>1, <1>3, IterateFacts, SavedInTurn
<1>5. /\ Active /\ iteration' \in 0 .. MaxIterations
      /\ UNCHANGED <<registry, pending, results, started, unheard, subs, broken>>
      /\ broken \subseteq 1 .. started
      /\ current' \in Execution /\ current'.id = current.id /\ current'.status = "running"
  BY <1>1, IterateFacts
<1> QED
  BY <1>1, <1>4, <1>5, InvTurn

LEMMA HandleFacts ==
  ASSUME IndInv, Handle
  PROVE  /\ Active /\ pc' = "step" /\ TypeOK
         /\ current \in Execution /\ at \in Steps /\ current.status = "running"
         /\ current.id \in unheard + 1 .. started
         /\ iteration' \in 0 .. MaxIterations /\ broken \subseteq 1 .. started
         /\ UNCHANGED <<registry, results, current, at, iteration, unheard>>
BY InHandKnown DEF Handle, IndInv, TypeOK, PlaceInv, Active, Running

LEMMA InvStepSucceeds ==
  ASSUME IndInv, StepSucceeds
  PROVE  IndInv' /\ Extends
<1>1. Handle /\ Save(Resumed(current, at)) /\ UNCHANGED <<pending, started, subs, broken>>
  BY DEF StepSucceeds
<1>2. Resumed(current, at) \in Execution
  BY <1>1, HandleFacts DEF Resumed, Execution
<1>3. store' \in [unheard + 1 .. started -> Execution]
  BY <1>1, <1>2, HandleFacts, SavedInTurn
<1> QED
  BY <1>1, <1>3, HandleFacts, InvTurn

LEMMA InvStepFails ==
  ASSUME IndInv, StepFails
  PROVE  IndInv' /\ Extends
<1>1. /\ Handle /\ Save(FailStep(current, at)) /\ UNCHANGED <<pending, started, subs>>
      /\ broken' = IF InHand.otherwise = None THEN broken \cup {current.id} ELSE broken
  BY DEF StepFails
<1>2. FailStep(current, at) \in Execution
  BY <1>1, HandleFacts, FailStepTyped
<1>3. store' \in [unheard + 1 .. started -> Execution]
  BY <1>1, <1>2, HandleFacts, SavedInTurn
<1>4. broken' \subseteq 1 .. started
  <2>1. current.id \in 1 .. started
    BY <1>1, HandleFacts DEF TypeOK
  <2> QED
    BY <2>1, <1>1, HandleFacts
<1> QED
  BY <1>1, <1>3, <1>4, HandleFacts, InvTurn

(* What a handler starts is younger than all executions, and queued behind them. *)
LEMMA InvCaptured ==
  ASSUME IndInv, Handle, NEW xs \in Seq(Execution), NEW k \in Nat,
         \A n \in DOMAIN xs : xs[n].status = "running",
         started' = started + k, pending' = pending \o xs,
         store' \in [unheard + 1 .. started + k -> Execution],
         subs \subseteq subs', subs' \subseteq 1 .. started + k, broken' = broken,
         Ordered(Ids(xs), subs'), Holds(Ids(xs), started, started + k)
  PROVE  IndInv' /\ Extends
<1>1. /\ pending \in Seq(Execution) /\ results \in Seq(Result)
      /\ started \in Nat /\ unheard \in 0 .. started
  BY DEF IndInv, TypeOK
<1>2. /\ pending' \in Seq(Execution) /\ Len(pending') = Len(pending) + Len(xs)
      /\ \A n \in 1 .. Len(pending) : pending'[n] = pending[n]
      /\ \A n \in 1 .. Len(xs) : pending'[Len(pending) + n] = xs[n]
  BY <1>1
<1>3. TypeOK'
  <2>1. started' \in Nat /\ unheard' \in 0 .. started' /\ broken' \subseteq 1 .. started'
        /\ subs' \subseteq 1 .. started'
    BY <1>1, HandleFacts
  <2>2. store' \in [unheard' + 1 .. started' -> Execution]
    BY HandleFacts
  <2> QED
    BY <1>2, <2>1, <2>2, HandleFacts DEF IndInv, TypeOK, Places, Active
<1>4. PlaceInv'
  <2>1. ASSUME NEW n \in DOMAIN pending' PROVE pending'[n].status = "running"
    <3>1. CASE n <= Len(pending)
      <4>1. n \in 1 .. Len(pending) /\ n \in DOMAIN pending
        BY <3>1, <1>1, <1>2
      <4> QED
        BY <4>1, <1>2 DEF IndInv, PlaceInv
    <3>2. CASE n > Len(pending)
      <4>1. n - Len(pending) \in 1 .. Len(xs) /\ n - Len(pending) \in DOMAIN xs
            /\ Len(pending) + (n - Len(pending)) = n
        BY <3>2, <1>1, <1>2
      <4>2. pending'[n] = xs[n - Len(pending)]
        BY <4>1, <1>2
      <4> QED
        BY <4>1, <4>2
    <3> QED
      BY <3>1, <3>2, <1>1, <1>2
  <2> QED
    BY <2>1, HandleFacts DEF PlaceInv, Running, Active
<1>5. Line' = Line \o Ids(xs)
  <2>1. Running /\ Running' /\ current' = current /\ results' = results
    BY HandleFacts DEF Running, Active
  <2>2. Line = LineOf(results, <<current.id>>, pending)
        /\ Line' = LineOf(results, <<current.id>>, pending \o xs)
    BY <2>1 DEF Line, LineOf
  <2>3. <<current.id>> \in Seq(Nat)
    <3>1. current.id \in Nat
      BY HandleFacts, Numbers
    <3> QED
      BY <3>1
  <2> QED
    BY <2>2, <2>3, <1>1, QueueLine
<1>6. Ids(xs) \in Seq(Nat)
  BY IdsFacts, Numbers
<1>7. started' \in Nat /\ started <= started' /\ unheard' = unheard
  BY <1>1, HandleFacts
<1>8. InOrder' /\ NoneForgotten' /\ Extends
  BY <1>5, <1>6, <1>7, Grown
<1> QED
  BY <1>3, <1>4, <1>8 DEF IndInv

LEMMA InvPublish ==
  ASSUME IndInv, Publish
  PROVE  IndInv' /\ Extends
<1> DEFINE xs == StartedAll(Routed(InHand.does))
<1>1. /\ Handle /\ started' = started + Len(xs) /\ pending' = pending \o xs
      /\ store' = [Stored(xs) EXCEPT ![current.id] = Resumed(current, at)]
      /\ UNCHANGED <<subs, broken>>
  BY DEF Publish, Capture
<1>2. Routed(InHand.does) \in Seq(Workflows)
  BY RoutedTyped DEF IndInv
<1>3. /\ xs \in Seq(Execution)
      /\ \A n \in DOMAIN xs : xs[n].status = "running"
      /\ Ordered(Ids(xs), subs) /\ Holds(Ids(xs), started, started + Len(xs))
  BY <1>2, StartedAllTyped DEF IndInv
<1>4. Stored(xs) \in [unheard + 1 .. started + Len(xs) -> Execution]
  BY <1>3, StoredTyped DEF IndInv
<1> HIDE DEF xs
<1>5. Resumed(current, at) \in Execution
  BY <1>1, HandleFacts DEF Resumed, Execution
<1>6. store' \in [unheard + 1 .. started + Len(xs) -> Execution]
  BY <1>1, <1>4, <1>5
<1>7. Len(xs) \in Nat /\ started \in Nat
  BY <1>3 DEF IndInv, TypeOK
<1>8. subs \subseteq subs' /\ subs' \subseteq 1 .. started + Len(xs) /\ Ordered(Ids(xs), subs')
  BY <1>1, <1>3, <1>7 DEF IndInv, TypeOK
<1> QED
  BY <1>1, <1>3, <1>6, <1>7, <1>8, InvCaptured

LEMMA InvStartSub ==
  ASSUME IndInv, StartSub
  PROVE  IndInv' /\ Extends
<1> DEFINE x == Started(InHand.does, started + 1)
<1>1. /\ Handle /\ started' = started + 1 /\ pending' = pending \o <<x, x>>
      /\ store' = Stored(<<x>>) /\ subs' = subs \cup {started'} /\ UNCHANGED broken
      /\ InHand.type = "sub" /\ InHand.does # None
  BY DEF StartSub
<1>2. started \in Nat
  BY DEF IndInv, TypeOK
<1>3. InHand.does \in Workflows
  BY <1>1, HandleFacts, StepTyped DEF InHand
<1>4. x \in Execution /\ x.id = started + 1 /\ x.status = "running"
  BY <1>2, <1>3, StartedTyped DEF IndInv
<1> HIDE DEF x
<1>5. <<x, x>> \in Seq(Execution) /\ <<x>> \in Seq(Execution) /\ Len(<<x>>) = 1
  BY <1>4
<1>6. \A n \in DOMAIN <<x, x>> : <<x, x>>[n].status = "running"
  BY <1>4
<1>7. store' \in [unheard + 1 .. started + 1 -> Execution]
  <2>1. Stored(<<x>>) \in [unheard + 1 .. started + Len(<<x>>) -> Execution]
    BY <1>5, StoredTyped DEF IndInv
  <2> QED
    BY <2>1, <1>1, <1>5
<1>8. subs \subseteq subs' /\ subs' \subseteq 1 .. started + 1
  BY <1>1, <1>2 DEF IndInv, TypeOK
<1>9. Ids(<<x, x>>) = <<started + 1, started + 1>>
  BY <1>4 DEF Ids
<1>10. Ordered(<<started + 1, started + 1>>, subs')
  BY <1>1, <1>2 DEF Ordered
<1>11. Holds(<<started + 1, started + 1>>, started, started + 1)
  <2>1. started + 1 .. started + 1 = {started + 1}
    BY <1>2
  <2> QED
    BY <2>1 DEF Holds
<1> QED
  BY <1>1, <1>5, <1>6, <1>7, <1>8, <1>9, <1>10, <1>11, InvCaptured

LEMMA InvStepRaises ==
  ASSUME IndInv, StepRaises
  PROVE  IndInv' /\ Extends
<1>1. /\ Active /\ pc' = "raised"
      /\ UNCHANGED <<registry, pending, results, current, at, iteration, store, started, unheard,
                     subs, broken>>
  BY DEF StepRaises, Active
<1>2. current \in Execution /\ current.status = "running" /\ broken \subseteq 1 .. started
      /\ store \in [unheard + 1 .. started -> Execution] /\ iteration \in 0 .. MaxIterations
  BY <1>1 DEF IndInv, TypeOK, PlaceInv, Active
<1> QED
  BY <1>1, <1>2, InvTurn

-----------------------------------------------------------------------------
(* Every step preserves the invariant and keeps the line it finds. *)
LEMMA EveryStep ==
  ASSUME IndInv, [Next]_vars
  PROVE  IndInv' /\ Extends
<1>1. CASE Announce
  BY <1>1, InvAnnounce
<1>2. CASE StartPipeline
  BY <1>2, InvStartPipeline
<1>3. CASE Begin
  BY <1>3, InvBegin
<1>4. CASE Return
  BY <1>4, InvReturn
<1>5. CASE TooLong
  BY <1>5, InvTooLong
<1>6. CASE Complete
  BY <1>6, InvComplete
<1>7. CASE Break
  BY <1>7, InvBreak
<1>8. CASE Branch
  BY <1>8, InvBranch
<1>9. CASE Dispatch
  BY <1>9, InvDispatch
<1>10. CASE Unsupported
  BY <1>10, InvUnsupported
<1>11. CASE AskRaises
  BY <1>11, InvAskRaises
<1>12. CASE StepSucceeds
  BY <1>12, InvStepSucceeds
<1>13. CASE StepFails
  BY <1>13, InvStepFails
<1>14. CASE Publish
  BY <1>14, InvPublish
<1>15. CASE StartSub
  BY <1>15, InvStartSub
<1>16. CASE StepRaises
  BY <1>16, InvStepRaises
<1>17. CASE UNCHANGED vars
  <2>1. Line' = Line
    BY <1>17 DEF vars, Line, Running, Ids
  <2>2. InOrder' /\ NoneForgotten' /\ Extends
    BY <2>1, <1>17, Kept DEF vars
  <2>3. TypeOK' /\ PlaceInv'
    BY <1>17 DEF vars, IndInv, TypeOK, PlaceInv, Running, Active
  <2> QED
    BY <2>2, <2>3 DEF IndInv
<1> QED
  BY <1>1, <1>2, <1>3, <1>4, <1>5, <1>6, <1>7, <1>8, <1>9, <1>10, <1>11, <1>12, <1>13, <1>14,
     <1>15, <1>16, <1>17 DEF Next, Turn

(* The invariant is inductive. *)
THEOREM Inductive == IndInv /\ [Next]_vars => IndInv'
BY EveryStep

(* In every reachable state the driver holds well-formed executions, and its line
   is the executions started inside the pipeline, in the order of their start. *)
THEOREM Invariance == Spec => []IndInv
<1>1. Init => IndInv
  BY InvInit
<1> QED
  BY <1>1, Inductive, PTL DEF Spec

(* Queue, store and results are well formed. *)
THEOREM TypeCorrect == Spec => []TypeOK
<1>1. IndInv => TypeOK
  BY DEF IndInv
<1> QED
  BY <1>1, Invariance, PTL

(* Executions are run in the order in which events started them, each once but
   for those that a sub_workflow step queued twice. *)
THEOREM RunInOrder == Spec => []InOrder
<1>1. IndInv => InOrder
  BY DEF IndInv
<1> QED
  BY <1>1, Invariance, PTL

(* No workflow started inside the pipeline is lost, and none from outside joins. *)
THEOREM NothingForgotten == Spec => []NoneForgotten
<1>1. IndInv => NoneForgotten
  BY DEF IndInv
<1> QED
  BY <1>1, Invariance, PTL

-----------------------------------------------------------------------------
(* Results and the store.  A state is stored only for the execution in hand or
   for a new one, and a result is no longer changed after its last run. *)

(* The place of a result in the line, and of the execution in hand. *)
LEMMA Positions ==
  ASSUME IndInv
  PROVE  /\ \A n \in DOMAIN results : n \in DOMAIN Line /\ Line[n] = results[n].id
         /\ Running => /\ Len(results) + 1 \in DOMAIN Line
                       /\ Line[Len(results) + 1] = current.id
         /\ Len(results) \in Nat /\ DOMAIN results = 1 .. Len(results)
<1> DEFINE r == Ids(results)  c == InHandIds  p == Ids(pending)
<1>1. /\ r \in Seq(Nat) /\ Len(r) = Len(results)
      /\ \A n \in 1 .. Len(results) : r[n] = results[n].id
  BY IdsFacts, Numbers DEF IndInv, TypeOK
<1>2. p \in Seq(Nat)
  BY IdsFacts, Numbers DEF IndInv, TypeOK
<1>3. c \in Seq(Nat)
  BY LineTyped DEF IndInv, PlaceInv
<1>4. Line = r \o c \o p
  BY LineParts DEF LineOf
<1>5. Len(results) \in Nat /\ DOMAIN results = 1 .. Len(results)
  BY LenProperties DEF IndInv, TypeOK
<1>6. Running => c = <<current.id>>
  BY DEF InHandIds
<1>7. Running => current.id \in Nat
  BY InHandKnown, Numbers
<1> HIDE DEF r, c, p
<1>8. \A n \in 1 .. Len(r) : n \in DOMAIN (r \o c \o p) /\ (r \o c \o p)[n] = r[n]
  BY <1>1, <1>2, <1>3
<1>9. ASSUME Running
      PROVE  Len(r) + 1 \in DOMAIN (r \o c \o p) /\ (r \o c \o p)[Len(r) + 1] = current.id
  <2> DEFINE i == current.id
  <2>1. i \in Nat /\ c = <<i>>
    BY <1>6, <1>7, <1>9
  <2> HIDE DEF i
  <2> DEFINE q == r \o <<i>>
  <2>a. q \in Seq(Nat) /\ Len(q) = Len(r) + 1 /\ q[Len(r) + 1] = i
    <3>1. r \in Seq(Nat) /\ <<i>> \in Seq(Nat)
      BY <2>1, <1>1
    <3> QED
      BY <3>1
  <2> HIDE DEF q
  <2>b. Len(r) + 1 \in 1 .. Len(q) /\ Len(q) \in Nat /\ Len(p) \in Nat
    BY <2>a, <1>1, <1>2
  <2>c. Len(r) + 1 \in DOMAIN (q \o p) /\ (q \o p)[Len(r) + 1] = i
    BY <2>a, <2>b, <1>2
  <2>2. Len(r) + 1 \in DOMAIN (r \o <<i>> \o p) /\ (r \o <<i>> \o p)[Len(r) + 1] = i
    BY <2>c DEF q
  <2> QED
    BY <2>1, <2>2 DEF i
<1> QED
  BY <1>1, <1>4, <1>5, <1>8, <1>9

(* What the store may be after a step. *)
OthersKept == \A id \in unheard + 1 .. started :
                (Running => id # current.id) => store'[id] = store[id]

LEMMA SaveKeepsOthers ==
  ASSUME TypeOK, NEW x, Save(x), x.id = current.id, Running
  PROVE  OthersKept
BY DEF TypeOK, Save, OthersKept

LEMMA StoredKeepsOthers ==
  ASSUME TypeOK, NEW xs \in Seq(Execution)
  PROVE  \A id \in unheard + 1 .. started : Stored(xs)[id] = store[id]
<1>1. started \in Nat /\ unheard \in 0 .. started /\ Len(xs) \in Nat
  BY DEF TypeOK
<1>2. ASSUME NEW id \in unheard + 1 .. started PROVE Stored(xs)[id] = store[id]
  <2>1. id \in unheard + 1 .. started + Len(xs) /\ id <= started
    BY <1>1
  <2> QED
    BY <2>1 DEF Stored
<1> QED
  BY <1>2

(* A result whose execution is not run again still says what is stored. *)
LEMMA OldReports ==
  ASSUME IndInv, IndInv', StoredAsReported, Extends, OthersKept,
         NEW n \in DOMAIN results, n \in DOMAIN results', results'[n] = results[n],
         \A m \in DOMAIN Line' : m > n => Line'[m] # Line'[n]
  PROVE  /\ results'[n].status = "completed" => store'[results'[n].id].status = "completed"
         /\ results'[n].status = "failed" => store'[results'[n].id].status # "completed"
<1>1. n \in DOMAIN Line /\ Line[n] = results[n].id /\ Line'[n] = results[n].id
      /\ n <= Len(results) /\ Len(results) \in Nat /\ n \in Nat
  BY Positions DEF Extends
<1>2. results[n].id \in unheard + 1 .. started
  BY <1>1 DEF IndInv, NoneForgotten
<1>3. ASSUME Running PROVE results[n].id # current.id
  <2> DEFINE k == Len(results) + 1
  <2>1. k \in DOMAIN Line /\ Line[k] = current.id
    BY <1>3, Positions
  <2>2. k \in DOMAIN Line' /\ Line'[k] = current.id
    BY <2>1 DEF Extends
  <2>3. k > n
    BY <1>1
  <2> HIDE DEF k
  <2> QED
    BY <1>1, <2>2, <2>3
<1>4. store'[results[n].id] = store[results[n].id]
  BY <1>2, <1>3 DEF OthersKept
<1>5. LastRun(n)
  <2>1. ASSUME NEW m \in DOMAIN Line, m > n PROVE Line[m] # Line[n]
    BY <2>1, <1>1 DEF Extends
  <2> QED
    BY <2>1 DEF LastRun
<1> QED
  BY <1>4, <1>5 DEF StoredAsReported

LEMMA ReportsKept ==
  ASSUME IndInv, IndInv', StoredAsReported, Extends, OthersKept, results' = results
  PROVE  StoredAsReported'
BY OldReports DEF StoredAsReported, LastRun

LEMMA ReportsEnded ==
  ASSUME IndInv, IndInv', StoredAsReported, Extends, OthersKept, Running,
         NEW status, Ends(status),
         status = "completed" => store'[current.id].status = "completed",
         status = "failed" => store'[current.id].status # "completed"
  PROVE  StoredAsReported'
<1> DEFINE r == [id |-> current.id, status |-> status]
<1>1. results' = Append(results, r) /\ results' \in Seq(Result)
  BY DEF Ends, IndInv, TypeOK
<1>2. results \in Seq(Result)
  BY DEF IndInv, TypeOK
<1>3. r.id = current.id /\ r.status = status
  OBVIOUS
<1> HIDE DEF r
<1>4. /\ DOMAIN results = 1 .. Len(results) /\ DOMAIN results' = 1 .. Len(results) + 1
      /\ Len(results) \in Nat
      /\ \A n \in 1 .. Len(results) : results'[n] = results[n]
      /\ results'[Len(results) + 1] = r
  BY <1>1, <1>2
<1>5. ASSUME NEW n \in DOMAIN results', LastRun(n)'
      PROVE  /\ results'[n].status = "completed" => store'[results'[n].id].status = "completed"
             /\ results'[n].status = "failed" => store'[results'[n].id].status # "completed"
  <2>1. CASE n \in DOMAIN results
    <3>1. results'[n] = results[n]
      BY <2>1, <1>4
    <3>2. \A m \in DOMAIN Line' : m > n => Line'[m] # Line'[n]
      BY <1>5 DEF LastRun
    <3> QED
      BY <2>1, <3>1, <3>2, OldReports
  <2>2. CASE n \notin DOMAIN results
    <3>1. n = Len(results) + 1
      BY <2>2, <1>4
    <3>2. results'[n] = r
      BY <3>1, <1>4
    <3> QED
      BY <3>2, <1>3
  <2> QED
    BY <2>1, <2>2
<1> QED
  BY <1>5 DEF StoredAsReported

LEMMA Saved ==
  ASSUME IndInv, NEW x \in Execution, Save(x), x.id = current.id, Running
  PROVE  OthersKept /\ store'[current.id] = x
<1>1. current.id \in unheard + 1 .. started
  BY InHandKnown
<1> QED
  BY <1>1, SaveKeepsOthers DEF IndInv, TypeOK, Save

LEMMA ReportsOfEveryStep ==
  ASSUME IndInv, StoredAsReported, [Next]_vars
  PROVE  StoredAsReported'
<1>1. IndInv' /\ Extends
  BY EveryStep
<1>2. TypeOK
  BY DEF IndInv
<1>3. CASE Announce \/ StartPipeline
  <2>1. results' = <<>>
    BY <1>3 DEF Announce, StartPipeline, IndInv, PlaceInv
  <2> QED
    BY <2>1 DEF StoredAsReported
<1>4. CASE Begin \/ Return \/ StepRaises \/ UNCHANGED vars
  <2>1. store' = store /\ results' = results
    BY <1>4 DEF Begin, Return, StepRaises, vars
  <2> QED
    BY <2>1, <1>1, ReportsKept DEF OthersKept
<1>5. CASE TooLong
  <2>1. Running /\ store' = store /\ Ends("max_iterations")
    BY <1>5 DEF TooLong, Running
  <2> QED
    BY <2>1, <1>1, ReportsEnded DEF OthersKept
<1>6. CASE Complete
  <2> DEFINE x == [current EXCEPT !.status = "completed"]
  <2>1. Iterate /\ Running /\ Save(x) /\ Ends("completed")
    BY <1>6 DEF Complete, Iterate, Running
  <2>2. x \in Execution /\ x.id = current.id /\ x.status = "completed"
    BY <2>1, IterateFacts DEF Execution, Statuses
  <2> HIDE DEF x
  <2>3. OthersKept /\ store'[current.id] = x
    BY <2>1, <2>2, Saved
  <2> QED
    BY <2>1, <2>2, <2>3, <1>1, ReportsEnded
<1>7. CASE Break
  <2> DEFINE x == [current EXCEPT !.status = "failed"]
  <2>1. Iterate /\ Running /\ Save(x) /\ Ends("failed")
    BY <1>7 DEF Break, Iterate, Running
  <2>2. x \in Execution /\ x.id = current.id /\ x.status = "failed"
    BY <2>1, IterateFacts DEF Execution, Statuses
  <2> HIDE DEF x
  <2>3. OthersKept /\ store'[current.id] = x
    BY <2>1, <2>2, Saved
  <2> QED
    BY <2>1, <2>2, <2>3, <1>1, ReportsEnded
<1>8. CASE Unsupported
  <2> DEFINE x == Past(current)
  <2>1. Iterate /\ Running /\ Save(x) /\ Ends("failed") /\ current.step # End
    BY <1>8 DEF Unsupported, AtStep, Iterate, Running
  <2>2. x \in Execution /\ x.id = current.id /\ x.status = "running"
    BY <2>1, IterateFacts, PastTyped
  <2> HIDE DEF x
  <2>3. OthersKept /\ store'[current.id] = x
    BY <2>1, <2>2, Saved
  <2> QED
    BY <2>1, <2>2, <2>3, <1>1, ReportsEnded
<1>9. CASE Branch
  <2>1. Iterate /\ Running /\ results' = results /\ current \in Execution
    BY <1>9, IterateFacts DEF Branch, Iterate, Running
  <2>2. PICK t : Save([current EXCEPT !.step = t])
    BY <1>9 DEF Branch
  <2>3. OthersKept
    BY <2>1, <2>2, <1>2, SaveKeepsOthers DEF Execution
  <2> QED
    BY <2>1, <2>3, <1>1, ReportsKept
<1>10. CASE Dispatch \/ AskRaises
  <2>1. Iterate /\ Running /\ results' = results /\ current.step # End
    BY <1>10 DEF Dispatch, AskRaises, AtStep, Iterate, Running
  <2>2. Past(current) \in Execution /\ Past(current).id = current.id
    BY <2>1, IterateFacts, PastTyped
  <2>3. Save(Past(current)) \/ Save([Past(current) EXCEPT !.status = "waiting"])
    BY <1>10 DEF Dispatch, AskRaises
  <2>4. [Past(current) EXCEPT !.status = "waiting"].id = current.id
    BY <2>2 DEF Execution
  <2>5. OthersKept
    BY <2>1, <2>2, <2>3, <2>4, <1>2, SaveKeepsOthers
  <2> QED
    BY <2>1, <2>5, <1>1, ReportsKept
<1>11. CASE StepSucceeds \/ StepFails
  <2>1. Handle /\ Running /\ results' = results
    BY <1>11 DEF StepSucceeds, StepFails, Handle, Running
  <2>2. Save(Resumed(current, at)) \/ Save(FailStep(current, at))
    BY <1>11 DEF StepSucceeds, StepFails
  <2>3. Resumed(current, at).id = current.id /\ FailStep(current, at).id = current.id
    BY <2>1, HandleFacts DEF Resumed, FailStep, Execution
  <2>4. OthersKept
    BY <2>1, <2>2, <2>3, <1>2, SaveKeepsOthers
  <2> QED
    BY <2>1, <2>4, <1>1, ReportsKept
<1>12. CASE Publish
  <2> DEFINE xs == StartedAll(Routed(InHand.does))
  <2>1. Handle /\ Running /\ results' = results
    BY <1>12 DEF Publish, Handle, Running
  <2>2. store' = [Stored(xs) EXCEPT ![current.id] = Resumed(current, at)]
    BY <1>12 DEF Publish
  <2>3. xs \in Seq(Execution)
    BY <1>2, RoutedTyped, StartedAllTyped
  <2> HIDE DEF xs
  <2>4. DOMAIN Stored(xs) = unheard + 1 .. started + Len(xs)
    BY DEF Stored
  <2>5. \A id \in unheard + 1 .. started : Stored(xs)[id] = store[id]
    BY <2>3, <1>2, StoredKeepsOthers
  <2>6. unheard + 1 .. started \subseteq unheard + 1 .. started + Len(xs)
    BY <2>3, <1>2 DEF TypeOK
  <2>7. OthersKept
    BY <2>1, <2>2, <2>4, <2>5, <2>6 DEF OthersKept
  <2> QED
    BY <2>1, <2>7, <1>1, ReportsKept
<1>13. CASE StartSub
  <2> DEFINE x == Started(InHand.does, started + 1)
  <2>1. Handle /\ results' = results /\ store' = Stored(<<x>>)
        /\ InHand.type = "sub" /\ InHand.does # None
    BY <1>13 DEF StartSub, Handle
  <2>2. InHand.does \in Workflows
    BY <2>1, HandleFacts, StepTyped DEF InHand
  <2>3. x \in Execution
    BY <2>2, <1>2, StartedTyped DEF TypeOK
  <2> HIDE DEF x
  <2>4. <<x>> \in Seq(Execution)
    BY <2>3
  <2>5. OthersKept
    BY <2>1, <2>4, <1>2, StoredKeepsOthers DEF OthersKept
  <2> QED
    BY <2>1, <2>5, <1>1, ReportsKept
<1> QED
  BY <1>3, <1>4, <1>5, <1>6, <1>7, <1>8, <1>9, <1>10, <1>11, <1>12, <1>13 DEF Next, Turn

(* A result agrees with what the store holds, when its execution has had its last
   run: the handlers' saves reach only the execution in hand. *)
THEOREM ReportsHold == Spec => []StoredAsReported
<1>1. Init => StoredAsReported
  BY DEF Init, StoredAsReported
<1>2. IndInv /\ StoredAsReported /\ [Next]_vars => StoredAsReported'
  BY ReportsOfEveryStep
<1> QED
  BY <1>1, <1>2, Invariance, PTL DEF Spec

-----------------------------------------------------------------------------
(* The turns of a run. *)
LEMMA TurnsFacts ==
  ASSUME TypeOK
  PROVE  /\ MaxIterations \in Nat /\ iteration \in Nat /\ iteration <= MaxIterations
         /\ pc = "step" => TurnsLeft = 2 * (MaxIterations - iteration) + 1
         /\ pc = "handle" => TurnsLeft = 2 * (MaxIterations - iteration) + 2
         /\ ~Active => TurnsLeft = 0
         /\ Active => TurnsLeft > 0
BY PipelineAssumption DEF TypeOK, TurnsLeft, Active

(* Where a turn takes the driver, and what it does to the count of iterations. *)
LEMMA TurnMoves ==
  ASSUME IndInv, Turn
  PROVE  /\ Active
         /\ \/ ~Active'
            \/ pc = "step" /\ Active' /\ iteration' = iteration + 1
            \/ pc = "handle" /\ pc' = "step" /\ iteration' = iteration
<1>1. CASE TooLong
  BY <1>1 DEF TooLong, Ends, Active
<1>2. CASE Complete \/ Break \/ Unsupported \/ AskRaises
  BY <1>2 DEF Complete, Break, Unsupported, AskRaises, Iterate, Ends, Active
<1>3. CASE Branch
  BY <1>3 DEF Branch, Iterate, Active
<1>4. CASE Dispatch
  BY <1>4 DEF Dispatch, Iterate, Active
<1>5. CASE StepSucceeds \/ StepFails \/ Publish \/ StartSub
  BY <1>5 DEF StepSucceeds, StepFails, Publish, StartSub, Handle, Active
<1>6. CASE StepRaises
  BY <1>6 DEF StepRaises, Active
<1> QED
  BY <1>1, <1>2, <1>3, <1>4, <1>5, <1>6 DEF Turn

(* Every turn of a run uses up some of the turns it has left, and a run begins with
   2 * MaxIterations + 1 of them. *)
LEMMA TurnsOfEveryStep ==
  ASSUME IndInv, IndInv', [Next]_vars, vars' # vars
  PROVE  IF Active THEN TurnsLeft' < TurnsLeft
                   ELSE Active' => TurnsLeft' = 2 * MaxIterations + 1
<1>1. TypeOK /\ TypeOK'
  BY DEF IndInv
<1>2. TurnsLeft' = CASE pc' = "step"   -> 2 * (MaxIterations - iteration') + 1
                     [] pc' = "handle" -> 2 * (MaxIterations - iteration') + 2
                     [] OTHER         -> 0
  BY DEF TurnsLeft
<1>3. iteration' \in Nat /\ iteration' <= MaxIterations
  BY <1>1, PipelineAssumption DEF TypeOK
<1>4. CASE Turn
  <2>1. CASE ~Active'
    BY <2>1, <1>1, <1>2, <1>4, TurnsFacts, TurnMoves DEF Active
  <2>2. CASE pc = "step" /\ Active' /\ iteration' = iteration + 1
    BY <2>2, <1>1, <1>2, <1>3, TurnsFacts DEF Active
  <2>3. CASE pc = "handle" /\ pc' = "step" /\ iteration' = iteration
    BY <2>3, <1>1, <1>2, TurnsFacts DEF Active
  <2> QED
    BY <2>1, <2>2, <2>3, <1>4, TurnMoves
<1>5. CASE Begin
  <2>1. pc = "queue" /\ pc' = "step" /\ iteration' = 0
    BY <1>5 DEF Begin
  <2> QED
    BY <2>1, <1>2, PipelineAssumption DEF Active
<1>6. CASE Announce \/ StartPipeline \/ Return
  BY <1>6 DEF Announce, StartPipeline, Return, Active
<1> QED
  BY <1>4, <1>5, <1>6 DEF Next

(* The run of one execution ends after at most 2 * MaxIterations + 1 turns. *)
THEOREM RunsAreBounded == Spec => RunsRunDown
<1>1. IndInv /\ IndInv' /\ [Next]_vars =>
        [IF Active THEN TurnsLeft' < TurnsLeft
                   ELSE Active' => TurnsLeft' = 2 * MaxIterations + 1]_vars
  BY TurnsOfEveryStep
<1> QED
  BY <1>1, Invariance, PTL DEF Spec, RunsRunDown
=============================================================================
