----------------------------- MODULE MetalGemm -----------------------------
(***************************************************************************)
(* The MetalGemm operator (src/metal/src/ops/gemm.rs) composed with the    *)
(* dispatcher it calls.  The graph first asks the operator for its output *)
(* facts (resolve_output_facts, with GemmImpl::output_facts and the       *)
(* kernel's output_dt); only an operator whose facts resolve is evaluated. *)
(* metal_eval then computes C's type and shape, allocates C for the node  *)
(* and runs GemmImpl::dispatch_eval, the actions of GemmDispatch.          *)
(*                                                                         *)
(* Operands range over RawCalls: unlike the dispatcher alone, A's and B's *)
(* contraction dimensions (k, kb) and ranks may differ, and it is the     *)
(* operator's own checks that must keep such operands away from the      *)
(* kernels.  Batch axes stay broadcastable, as core matmul typing makes   *)
(* them.  The kernel is one that keeps GemmKernel's default output_dt.     *)
(***************************************************************************)
EXTENDS GemmDispatch

CONSTANT OpDtPairs  \* pairs of datum types of the A and B facts

(* DatumType::is_number; "BQ" is an Opaque fact carrying a BlockQuantFact *)
(* (in opaque_fact or in a constant BlockQuantValue), "Opq" any other     *)
(* opaque value.                                                           *)
Numbers == {"F32", "F16", "I64"}

VARIABLES
  aDt, bDt,  \* datum types of the A and B facts
  fact,      \* the output fact resolve_output_facts returned
  cTensor,   \* the tensor metal_eval (or eval) allocated for C
  entry      \* "op": the operator in a session; "direct": GemmImpl::eval

opVars == <<vars, aDt, bDt, fact, cTensor, entry>>

NoFact == [shape |-> <<>>, dt |-> "none"]

(* GemmKernel::output_dt (the trait's default): F16 x F16 or F32 x F32.   *)
OutputDt(a, b) ==
  IF a = "F16" THEN IF b = "F16" THEN "F16" ELSE "error"
  ELSE IF a = "F32" /\ b = "F32" THEN "F32" ELSE "error"

(* Mutant: the contraction axis of A taken with transpose_a as usize.     *)
ContractionAgreesMutant(c) ==
  LET a == AShape(c)  b == BShape(c)  r == Len(a) IN
  a[r - 1 + (IF c.ta THEN 1 ELSE 0)] = b[r - 1 + (IF c.tb THEN 1 ELSE 0)]

(* ensure!(a.shape[rank - 2 + !transpose_a] == b.shape[rank - 2 + tb]).   *)
ContractionAgrees(c) ==
  LET a == AShape(c)  b == BShape(c)  r == Len(a) IN
  a[r - 1 + (IF c.ta THEN 0 ELSE 1)] = b[r - 1 + (IF c.tb THEN 1 ELSE 0)]

(* GemmImpl::output_facts: a fact of the output shape with output_dt's   *)
(* type, F32 or else (after ensure!) F16; output_dt's error is returned.  *)
ImplOutputFacts(shape, a, b) ==
  IF OutputDt(a, b) \in {"F32", "F16"}
    THEN [out |-> "eval", fact |-> [shape |-> shape, dt |-> OutputDt(a, b)]]
    ELSE [out |-> "rejected", fact |-> NoFact]

(* resolve_output_facts: the number branch checks rank and contraction   *)
(* before output_facts; a block-quantised A or B extends that operand's   *)
(* shape and asks output_facts with the Opaque type, which the default    *)
(* output_dt refuses; any other operand is todo!().                       *)
ResolveOutputFacts(c, a, b) ==
  IF a \in Numbers /\ b \in Numbers THEN
    IF Len(c.aBatch) # Len(c.bBatch) \/ ~ContractionAgrees(c)
      THEN [out |-> "rejected", fact |-> NoFact]
      ELSE ImplOutputFacts(OutputShape(c), a, b)
  ELSE IF a = "BQ" \/ b = "BQ" THEN ImplOutputFacts(OutputShape(c), a, b)
  ELSE [out |-> "panic", fact |-> NoFact]

(* TypedOp::cost: output_shape's product times A's last axis, tagged F16  *)
(* when A is F16 and F32 otherwise.                                       *)
Cost(c, a) ==
  [dt |-> IF a = "F16" THEN "F16" ELSE "F32",
   fma |-> Prod(OutputShape(c)) * AShape(c)[Len(AShape(c))]]

OpCalls ==
  { c \in RawCalls : Len(c.aBatch) = Len(c.bBatch) => Broadcastable(c) }

(* MmmProblem::arbitrary_with: b, m, k and n from 1, rank-3 operands with *)
(* one batch axis b and the same k, either transpose, and (into_metal on a *)
(* fresh tensor) offset 0 in their buffers.                                *)
MmmProblems ==
  { c \in RawCalls :
      /\ Len(c.aBatch) = 1 /\ c.bBatch = c.aBatch /\ c.aBatch[1] # 0
      /\ c.m # 0 /\ c.k # 0 /\ c.n # 0 /\ c.kb = c.k
      /\ c.aOff = 0 /\ c.bOff = 0 /\ c.cOff = 0 }

(* The metal_gemm benchmark: GemmImpl::default() (no transposes) on      *)
(* [batch, m, k] and [batch, k, n] operands made by into_metal.            *)
BenchProblems == { c \in MmmProblems : ~c.ta /\ ~c.tb }

(* The operator, typed by the graph before it is evaluated.               *)
OperatorInit ==
  /\ call \in OpCalls
  /\ \E p \in OpDtPairs : aDt = p[1] /\ bDt = p[2]
  /\ pc = "facts" /\ entry = "op"

(* MmmProblem::run for the f32 and f16 proptests, and the benchmark: the  *)
(* caller builds lhs and rhs itself and calls GemmImpl::eval, with no     *)
(* output facts.                                                            *)
DirectInit ==
  /\ call \in MmmProblems \cup BenchProblems
  /\ \E f \in {"F32", "F16"} : aDt = f /\ bDt = f
  /\ pc = "direct" /\ entry = "direct"

OpInit ==
  /\ OperatorInit \/ DirectInit
  /\ status = "ok"
  /\ todo = <<>>
  /\ issued = <<>>
  /\ fact = NoFact
  /\ cTensor = NoFact

(* TypedOp::output_facts: the graph types the node, or refuses it.        *)
OutputFacts ==
  /\ pc = "facts"
  /\ LET r == ResolveOutputFacts(call, aDt, bDt) IN
       pc' = r.out /\ fact' = r.fact
  /\ UNCHANGED <<call, status, todo, issued, aDt, bDt, cTensor, entry>>

(* metal_eval: c_dt from output_dt, c_shape from output_shape on A and the *)
(* resolved shape of B, C made for the node, then dispatch_eval.          *)
MetalEval ==
  /\ pc = "eval"
  /\ cTensor' = [shape |-> OutputShape(call), dt |-> OutputDt(aDt, bDt)]
  /\ pc' = "start"
  /\ UNCHANGED <<call, status, todo, issued, aDt, bDt, fact, entry>>

(* GemmImpl::eval: c_dt from output_dt (which cannot fail for the callers' *)
(* F32 x F32 and F16 x F16), C allocated uninitialized with output_shape's *)
(* shape, then dispatch_eval; the wait_until_completed that follows a     *)
(* successful dispatch_eval is on the GPU, which is not modelled.          *)
DirectEval ==
  /\ pc = "direct"
  /\ cTensor' = [shape |-> OutputShape(call), dt |-> OutputDt(aDt, bDt)]
  /\ pc' = "start"
  /\ UNCHANGED <<call, status, todo, issued, aDt, bDt, fact, entry>>

(* One evaluation: typing, metal_eval or eval, then dispatch_eval.        *)
OpNext ==
  \/ OutputFacts \/ MetalEval \/ DirectEval
  \/ (Next /\ UNCHANGED <<aDt, bDt, fact, cTensor, entry>>)

(* The evaluation runs to completion on the calling thread.               *)
OpSpec == OpInit /\ [][OpNext]_opVars /\ WF_opVars(OpNext)

-----------------------------------------------------------------------------
(* Properties                                                               *)

OpTypeOK ==
  /\ call \in OpCalls
  /\ pc \in {"facts", "rejected", "panic", "eval", "direct", "start", "loop", "done"}
  /\ entry \in {"op", "direct"}
  /\ fact \in {NoFact} \cup [shape : Seq(Nat), dt : {"F32", "F16"}]
  /\ cTensor \in {NoFact} \cup [shape : Seq(Nat), dt : {"F32", "F16"}]
  /\ status \in {"ok", "IncompatibleBatchDims", "DispatchFailure"}
  /\ \A d \in Range(todo) \cup Range(issued) : d.batch >= 1 /\ d.m >= 1 /\ d.n >= 1

(* Element extents of the A, B and C tensors in their buffers.            *)
Extent(off, shape) == off .. (off + Prod(shape) - 1)

(* Every element the kernels of a finished evaluation read lies in A or B *)
(* and every element they write lies in the C tensor metal_eval allocated *)
(* from the operator's facts: the type check of resolve_output_facts is   *)
(* what keeps a contraction mismatch from reading past B.                 *)
OperandsInBounds ==
  Finished =>
    \A x \in DOMAIN issued : \A t \in Triples(issued[x]) :
      /\ t[1] \in Extent(call.cOff, cTensor.shape)
      /\ t[2] \in Extent(call.aOff, AShape(call))
      /\ t[3] \in Extent(call.bOff, BShape(call))

(* The cost the operator declares to the graph, once the graph has typed *)
(* it, is the number of multiply-accumulates the reference matmul         *)
(* performs.  (GemmImpl::eval's direct callers never ask for a cost.)     *)
CostCountsProducts ==
  entry = "op" /\ pc \notin {"facts", "rejected", "panic"} =>
    Cost(call, aDt).fma = Cardinality(RefTriples(call))
=============================================================================
