---------------------------- MODULE OffloadTwice ----------------------------
(***************************************************************************)
(* The translation pass of the Metal offload planner run a second time on *)
(* the graph its first run produced (MetalTransform::translate_model, the *)
(* phase transform_up_to_phase stops after at stop_at_phase = 2).  The    *)
(* second run sees Metal operators (gpu), MetalSync nodes and device-     *)
(* resident facts, and treats them with the same translate_node.          *)
(***************************************************************************)
EXTENDS OffloadPlanner

VARIABLE pass  \* 1 during the first run, 2 during the second

twiceVars == <<vars, pass>>

InitTwice == Init /\ pass = 1

(* translate_model on the translated graph: the walk starts over with the *)
(* target graph as source and the outlets standing for the model outputs *)
(* as its outputs.                                                         *)
Retranslate ==
  /\ pass = 1 /\ status = "done"
  /\ pass' = 2
  /\ src' = tgt
  /\ outputs' = {mapping[o] : o \in outputs}
  /\ next' = 1
  /\ tgt' = <<>>
  /\ mapping' = [i \in DOMAIN tgt |-> 0]
  /\ status' = "running"

NextTwice == (Next /\ UNCHANGED pass) \/ Retranslate

SpecTwice == InitTwice /\ [][NextTwice]_twiceVars /\ WF_twiceVars(NextTwice)

(* The spec's offload idempotence: translating an already translated      *)
(* graph changes nothing -- eligible nodes are already Metal operators    *)
(* and no further sync node is inserted, so the graph keeps its size.     *)
Idempotent == pass = 2 /\ Done => Len(tgt) = Len(src)
=============================================================================
