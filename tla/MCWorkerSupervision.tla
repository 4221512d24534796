------------------------- MODULE MCWorkerSupervision -------------------------
(* Instances of WorkerSupervision for TLC. *)
EXTENDS WorkerSupervision, TLC

CONSTANTS w0, w1, w9
=============================================================================
