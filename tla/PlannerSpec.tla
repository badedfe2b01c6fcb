---------------------------- MODULE PlannerSpec ----------------------------
(***************************************************************************)
(* What the offload planner's translation promises (spec section 4.6),   *)
(* free of residency: the walk either stops with an error or rebuilds the *)
(* source graph node by node.  image is the translated graph as the      *)
(* computation it performs -- the sync nodes that move values between    *)
(* host and device, and the casts that restore a node's output type, are *)
(* not part of it.  Its node j is the operator class, the inputs (as      *)
(* source node indices) and the output type of source node j.             *)
(***************************************************************************)
EXTENDS Naturals, Sequences

CONSTANT Errors  \* the errors that abort the transform

VARIABLES
  src,      \* the source graph
  outputs,  \* its model outputs
  image,    \* the translated graph, syncs and casts erased
  status    \* "running", "done", or an error

Computation(n) == [op |-> n.op, inputs |-> n.inputs, dt |-> n.dt]

(* The next source node is rebuilt with the same computation.             *)
Translate ==
  /\ status = "running" /\ Len(image) < Len(src)
  /\ image' = Append(image, Computation(src[Len(image) + 1]))
  /\ UNCHANGED <<src, outputs, status>>

(* The translation of the next source node fails the whole transform.    *)
Abort ==
  /\ status = "running" /\ Len(image) < Len(src)
  /\ status' \in Errors
  /\ UNCHANGED <<src, outputs, image>>

Finish ==
  /\ status = "running" /\ Len(image) = Len(src)
  /\ status' = "done"
  /\ UNCHANGED <<src, outputs, image>>

Next == Translate \/ Abort \/ Finish

vars == <<src, outputs, image, status>>

Spec == /\ image = <<>> /\ status = "running"
        /\ [][Next]_vars /\ WF_vars(Next)
=============================================================================
