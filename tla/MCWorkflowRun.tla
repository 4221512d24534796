---------------------------- MODULE MCWorkflowRun ----------------------------
(* Instances of WorkflowRun for TLC: three workflows of three steps, one agent
   that only the person talks to (a1, workflow w1) and one that the pool's
   threads use as well (a2, workflow w2). *)
EXTENDS WorkflowRun, TLC

CONSTANTS person, pool, a1, a2, w1, w2, w3, s1, s2, s3

MCAlone == (person :> {a1})
MCShared == (person :> {a1, a2}) @@ (pool :> {a2})
MCOwn == (a1 :> w1) @@ (a2 :> w2)
MCNobody == {Unregistered}

Three(x, y, z) == (s1 :> x) @@ (s2 :> y) @@ (s3 :> z)
Either == {TRUE, FALSE}
NoSub == Three(Unregistered, Unregistered, Unregistered)

(* A question, an LLM call that asks it again when it fails, and a tool that
   falls back on the LLM call. *)
AskAndRetry ==
  [start |-> s1, type |-> Three("user_input", "llm_call", "tool_execute"),
   ok |-> Three(s2, s3, End), fail |-> Three(s3, s1, s2), sub |-> NoSub,
   verdicts |-> Three(Either, Either, Either), timed |-> {s1}]

(* Two questions in a row, then another workflow. *)
AskTwice ==
  [start |-> s1, type |-> Three("user_input", "user_input", "sub_workflow"),
   ok |-> Three(s2, s3, End), fail |-> Three(Absent, End, Absent),
   sub |-> Three(Unregistered, Unregistered, w3),
   verdicts |-> Three({TRUE}, Either, Either), timed |-> {s1, s2}]

(* A condition with one edge, a question, a council. *)
Choose ==
  [start |-> s1, type |-> Three("condition", "user_input", "council_deliberate"),
   ok |-> Three(s2, s3, End), fail |-> Three(Absent, Absent, End), sub |-> NoSub,
   verdicts |-> Three({TRUE}, {TRUE}, {TRUE}), timed |-> {}]

(* A sub-workflow that is not registered, and a council that loops back. *)
Detour ==
  [start |-> s1, type |-> Three("sub_workflow", "council_deliberate", "broken"),
   ok |-> Three(s2, End, End), fail |-> Three(s2, s1, Absent), sub |-> NoSub,
   verdicts |-> Three({TRUE}, {TRUE}, {TRUE}), timed |-> {}]

(* A question whose schema no line of text satisfies. *)
Form ==
  [start |-> s1, type |-> Three("user_input", "broken", "broken"),
   ok |-> Three(s2, End, End), fail |-> Three(s2, Absent, Absent), sub |-> NoSub,
   verdicts |-> Three({FALSE}, {FALSE}, {FALSE}), timed |-> {s1}]

MCRegistries == {(w1 :> AskAndRetry) @@ (w2 :> Choose) @@ (w3 :> Form),
                 (w1 :> AskTwice) @@ (w2 :> Detour) @@ (w3 :> Form)}
MCRetry == {(w1 :> AskAndRetry) @@ (w2 :> Choose) @@ (w3 :> Form)}
=============================================================================
