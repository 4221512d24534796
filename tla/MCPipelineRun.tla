---------------------------- MODULE MCPipelineRun ----------------------------
(***************************************************************************)
(* Instances of PipelineRun for TLC: all the registries of three workflows *)
(* whose steps are among a few.  No workflow starts one before it, so that *)
(* pipelines end.                                                          *)
(***************************************************************************)
EXTENDS PipelineRun, TLC

CONSTANTS w1, w2, w3, s1, s2, s3, init, made, sent, lost

StepOf(type, does, next, otherwise) ==
  [type |-> type, does |-> does, next |-> next, otherwise |-> otherwise]
Only(type) == StepOf(type, None, End, End)
Emit(event, next) == StepOf("tool", event, next, None)
Sub(w, next) == StepOf("sub", w, next, None)

Workflow(a, b, c) == [start |-> s1, steps |-> s1 :> a @@ s2 :> b @@ s3 :> c]

MCFirsts == {Emit(made, s2), Sub(w2, s2), StepOf("condition", None, s2, s3)}
MCSeconds == {StepOf("llm", None, s3, End), StepOf("condition", None, s1, End)}
MCThirds == {Emit(made, End), StepOf("sub", None, End, s2), Emit(lost, End)}
MCMiddles == {Emit(sent, End), Sub(w3, s2)}
MCLasts == {Only("council"), Only("broken"), Only("ask"), StepOf("llm", None, End, s2)}

MCDefinitions ==
  {w1 :> Workflow(a, b, c) @@ w2 :> Workflow(d, Only("tool"), Only("broken"))
     @@ w3 :> Workflow(e, Only("llm"), Only("tool")) :
   a \in MCFirsts, b \in MCSeconds, c \in MCThirds, d \in MCMiddles, e \in MCLasts}
MCTriggered ==
  {init :> first @@ made :> <<w3>> @@ sent :> <<w3>> @@ lost :> <<w2>> :
   first \in {<<w1>>, <<w2, w1>>}}
MCRegistries == [triggered : MCTriggered, def : MCDefinitions]
=============================================================================
