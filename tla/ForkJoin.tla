------------------------------ MODULE ForkJoin ------------------------------
(***************************************************************************)
(* What a fan-out / fan-in batch promises its caller, with the queue, the  *)
(* stores, the worker threads and the poll loop left out.  A child's       *)
(* execution ends at most once; the caller gets one verdict, and that      *)
(* verdict says what happened to the children.  The promise is weaker than *)
(* one would wish: failure may be reported, and a deadline may pass, while *)
(* children are still open, and these may end later.                       *)
(***************************************************************************)
CONSTANT Children

VARIABLES outcome,  \* outcome[c]: how child c's execution ended, or "open"
          verdict   \* what the caller was told, or "none"

vars == <<outcome, verdict>>

TypeOK == /\ outcome \in [Children -> {"open", "ok", "failed"}]
          /\ verdict \in {"none", "completed", "failed", "undiagnosed", "timed_out"}

Init == /\ outcome = [c \in Children |-> "open"]
        /\ verdict = "none"

(* A child's execution ends, well or badly. *)
Finish(c) == /\ outcome[c] = "open"
             /\ \E o \in {"ok", "failed"} : outcome' = [outcome EXCEPT ![c] = o]
             /\ UNCHANGED verdict

(* The merged result is handed out only when every child did its work. *)
Complete == /\ verdict = "none"
            /\ \A c \in Children : outcome[c] = "ok"
            /\ verdict' = "completed"
            /\ UNCHANGED outcome

(* Failure is reported only when a child failed; the caller may get an error in
   place of the diagnosis. *)
Fail == /\ verdict = "none"
        /\ \E c \in Children : outcome[c] = "failed"
        /\ verdict' \in {"failed", "undiagnosed"}
        /\ UNCHANGED outcome

(* The caller may stop waiting at any time. *)
Expire == /\ verdict = "none"
          /\ verdict' = "timed_out"
          /\ UNCHANGED outcome

Next == \/ \E c \in Children : Finish(c)
        \/ Complete
        \/ Fail
        \/ Expire

Spec == Init /\ [][Next]_vars
=============================================================================
