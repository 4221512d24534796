--------------------------- MODULE MCDecomposition ---------------------------
(* Instances of Decomposition for TLC. *)
EXTENDS Decomposition

Independent == [c \in Children |-> {}]
LastNeedsFirst == [c \in Children |-> IF c = N /\ N > 1 THEN {1} ELSE {}]
MCIndependent == {Independent}
MCEitherPlan == {Independent, LastNeedsFirst}

MCBoth == {"decompose", "parallelize"}
MCDecompose == {"decompose"}
MCParallelize == {"parallelize"}

MCWarm == {TRUE}
MCCold == {FALSE}
MCWarmOrCold == {TRUE, FALSE}

MCAnyJob == Jobs
MCNoJob == {}
=============================================================================
