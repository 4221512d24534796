------------------------------ MODULE MCTodoPlan -----------------------------
(* Instances of TodoPlan for TLC: a goal, two tasks, and an item that is created
   while the plan runs. *)
EXTENDS TodoPlan, TLC

CONSTANTS goal, early, late, extra

(* The late task needs the early one, and the early one the goal; all three are
   independent; the goal needs a task, which waits for an item not made yet;
   the tasks wait for each other. *)
MCPlans == {{<<late, early>>, <<early, goal>>},
            {},
            {<<goal, early>>, <<early, extra>>, <<late, goal>>},
            {<<early, late>>, <<late, early>>}}
=============================================================================
