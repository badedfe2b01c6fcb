--------------------------- MODULE OffloadPlanner ---------------------------
(***************************************************************************)
(* The node-by-node translation pass of the Metal offload planner:        *)
(* MetalTransform::translate_node with can_translate_op_to_metal_op,      *)
(* sync_inputs_if_required, sync_model_outputs_if_required and           *)
(* convert_matmul_to_metal (src/metal/src/transform.rs), driven by the    *)
(* translator's walk over the source graph in order.                       *)
(*                                                                         *)
(* A graph is a sequence of single-output nodes in evaluation order; a    *)
(* node's inputs are indices of earlier nodes.  A node records its        *)
(* operator class, whether it is a Metal operator (gpu), the datum type   *)
(* of its output (the inner type of a Metal fact), whether its output     *)
(* fact is device-resident (metal) and whether it carries a constant      *)
(* (konst).  The operators are abstracted to classes with the same       *)
(* treatment by the planner:                                               *)
(*   Source   a model input (never translated)                            *)
(*   Const    a constant                                                   *)
(*   Unary    an element-wise op with a Metal mapping                      *)
(*   Binary   a binary op with a Metal mapping                             *)
(*   Softmax  an allow-listed op with its own kernel datum-type check     *)
(*            (Reduce, Softmax, and the fused rms-norm, silu, gelu, rope  *)
(*            and masked-softmax patterns)                                 *)
(*   MatMul   a BasicMatMul without transpose_c nor output quantization   *)
(*   Cast     a Cast to the node's type                                   *)
(*   Other    an op outside the allow-list                                 *)
(*   ToGpu / ToCpu  MetalSync nodes, MatMulCast the MetalCast that        *)
(*            convert_matmul_to_metal puts after a matmul.                 *)
(***************************************************************************)
EXTENDS Naturals, SequencesExt

CONSTANTS
  N,               \* number of nodes of the source graph
  Dts,             \* datum types
  MetalSupported,  \* MetalTensor::is_supported_dt
  CopyDts,         \* DatumType::is_copy
  KernelDts,       \* the datum types the Softmax-class kernels accept
  GemmDts,         \* the datum types GemmKernel::output_dt accepts
  CastDts,         \* MetalCast::is_supported_dt
  Opaque           \* the type of the opaque tensor a Metal constant holds

ASSUME MetalSupported \subseteq Dts /\ KernelDts \subseteq Dts /\ Opaque \in Dts

VARIABLES
  src,      \* the graph being translated
  outputs,  \* its model outputs (node indices)
  next,     \* the next source node the walk translates
  tgt,      \* the target graph built so far
  mapping,  \* source node -> target node that stands for its output
  status    \* "running", "done", or the error that aborted the transform

vars == <<src, outputs, next, tgt, mapping, status>>

LeafKinds == {"Source", "Const"}
UnaryKinds == {"Unary", "Softmax", "Other"}
Errors == {"NotCopy", "ConstNotConvertible", "GemmDt", "CastDt", "CastUnwrap"}

Node(op, gpu, ins, dt, metal, konst) ==
  [op |-> op, gpu |-> gpu, inputs |-> ins, dt |-> dt, metal |-> metal, konst |-> konst]

(* The output types core typing gives a BasicMatMul on operands of type  *)
(* dt: its own, or a wider accumulator type (as i8 x i8 -> i32).           *)
MatMulOutDts(dt) == {dt} \cup (Dts \ {Opaque})

(* The graphs the typed-model collaborator can hand over, built node by   *)
(* node: element-wise ops keep their input's type, binary ops and matmul  *)
(* take two inputs of one type.                                            *)
NewNodes(g) ==
  { Node(k, FALSE, <<>>, d, FALSE, k = "Const") : k \in LeafKinds, d \in Dts }
  \cup { Node(k, FALSE, <<x>>, g[x].dt, FALSE, FALSE) : k \in UnaryKinds, x \in DOMAIN g }
  \cup { Node("Cast", FALSE, <<x>>, d, FALSE, FALSE) : x \in DOMAIN g, d \in Dts \ {Opaque} }
  \cup UNION { { Node("Binary", FALSE, <<x, y>>, g[x].dt, FALSE, FALSE) :
                   y \in {z \in DOMAIN g : g[z].dt = g[x].dt} } : x \in DOMAIN g }
  \cup UNION { { Node("MatMul", FALSE, <<x, y>>, d, FALSE, FALSE) :
                   y \in {z \in DOMAIN g : g[z].dt = g[x].dt}, d \in MatMulOutDts(g[x].dt) } :
               x \in DOMAIN g }

Graphs[i \in 0 .. N] ==
  IF i = 0 THEN {<<>>} ELSE UNION { {Append(g, n) : n \in NewNodes(g)} : g \in Graphs[i - 1] }

InputFacts(g, i) == [j \in DOMAIN g[i].inputs |-> g[g[i].inputs[j]]]

(* check_in_dts_are_supported: every input type, or the inner type of a  *)
(* Metal input fact, is one the kernel accepts.                            *)
CheckInDtsAreSupported(g, i, supported) ==
  \A j \in DOMAIN g[i].inputs : InputFacts(g, i)[j].dt \in supported

(* can_translate_op_to_metal_op.  The dt-checked classes test only        *)
(* .is_ok() of check_in_dts_are_supported, which is always Ok: its bool   *)
(* is dropped, and a Cast is translated when MetalCast::new(to) succeeds. *)
(* A Metal constant holds an opaque tensor.                                *)
CanTranslate(g, i) ==
  LET n == g[i] IN
  /\ \A j \in DOMAIN n.inputs :
       InputFacts(g, i)[j].dt \in MetalSupported \/ InputFacts(g, i)[j].metal
  /\ \/ ~n.gpu /\ n.op \in {"Unary", "Binary", "MatMul", "Softmax"}
     \/ ~n.gpu /\ n.op = "Cast" /\ n.dt \in CastDts
     \/ n.op = "Const" /\ (IF n.gpu THEN Opaque ELSE n.dt) \notin MetalSupported

(* GemmKernel::output_dt.                                                  *)
GemmOutDt(a, b) == IF a \in GemmDts /\ a = b THEN a ELSE "none"

(* Mutant: a CPU node's device-resident inputs passed on without sync.    *)
RECURSIVE SyncInputsMutant(_, _, _, _)
SyncInputsMutant(t, ins, kind, acc) ==
  IF ins = <<>> THEN [err |-> "none", tgt |-> t, mapped |-> acc]
  ELSE
  LET x == Head(ins)  f == t[x]  new == Len(t) + 1 IN
  IF kind = "ToGpu" /\ ~f.metal /\ f.konst THEN
    SyncInputsMutant([t EXCEPT ![x].metal = TRUE], Tail(ins), kind, Append(acc, x))
  ELSE IF kind = "ToGpu" /\ ~f.metal /\ f.dt \notin CopyDts THEN
    [err |-> "NotCopy", tgt |-> t, mapped |-> acc]
  ELSE IF kind = "ToGpu" /\ ~f.metal THEN
    SyncInputsMutant(Append(t, Node("ToGpu", TRUE, <<x>>, f.dt, TRUE, FALSE)), Tail(ins), kind,
                     Append(acc, new))
  ELSE SyncInputsMutant(t, Tail(ins), kind, Append(acc, x))

(* sync_inputs_if_required: one input after the other, a ToCpu sync for  *)
(* every device-resident input of a CPU node; for a GPU node, a host       *)
(* constant is turned into a Metal constant by rewriting its outlet fact  *)
(* in place, any other host input gets a ToGpu sync, or fails the         *)
(* ensure! when its type is not Copy.                                      *)
RECURSIVE SyncInputs(_, _, _, _)
SyncInputs(t, ins, kind, acc) ==
  IF ins = <<>> THEN [err |-> "none", tgt |-> t, mapped |-> acc]
  ELSE
  LET x == Head(ins)  f == t[x]  new == Len(t) + 1 IN
  IF kind = "ToCpu" /\ f.metal THEN
    SyncInputs(Append(t, Node("ToCpu", TRUE, <<x>>, f.dt, FALSE, FALSE)), Tail(ins), kind,
               Append(acc, new))
  ELSE IF kind = "ToGpu" /\ ~f.metal /\ f.konst THEN
    SyncInputs([t EXCEPT ![x].metal = TRUE], Tail(ins), kind, Append(acc, x))
  ELSE IF kind = "ToGpu" /\ ~f.metal /\ f.dt \notin CopyDts THEN
    [err |-> "NotCopy", tgt |-> t, mapped |-> acc]
  ELSE IF kind = "ToGpu" /\ ~f.metal THEN
    SyncInputs(Append(t, Node("ToGpu", TRUE, <<x>>, f.dt, TRUE, FALSE)), Tail(ins), kind,
               Append(acc, new))
  ELSE SyncInputs(t, Tail(ins), kind, Append(acc, x))

MappedInputs(i) == [j \in DOMAIN src[i].inputs |-> mapping[src[i].inputs[j]]]

(* Mutant: the model-output test made with the target node's id.         *)
SyncOutputMutant(t, i, o) ==
  IF t[o].metal /\ o \in outputs
    THEN [tgt |-> Append(t, Node("ToCpu", TRUE, <<o>>, t[o].dt, FALSE, FALSE)), out |-> Len(t) + 1]
    ELSE [tgt |-> t, out |-> o]

(* sync_model_outputs_if_required: a device-resident output of a model    *)
(* output node is followed by a ToCpu sync, which then stands for it.     *)
SyncOutput(t, i, o) ==
  IF t[o].metal /\ i \in outputs
    THEN [tgt |-> Append(t, Node("ToCpu", TRUE, <<o>>, t[o].dt, FALSE, FALSE)), out |-> Len(t) + 1]
    ELSE [tgt |-> t, out |-> o]

Init ==
  /\ src \in Graphs[N]
  /\ outputs \in SUBSET (1 .. N)
  /\ next = 1
  /\ tgt = <<>>
  /\ mapping = [i \in 1 .. N |-> 0]
  /\ status = "running"

Fail(e) == status' = e /\ UNCHANGED <<src, outputs, next, tgt, mapping>>

(* The node's outlet in the target is recorded and the walk moves on.     *)
Wire(t, i, o) ==
  /\ tgt' = t
  /\ mapping' = [mapping EXCEPT ![i] = o]
  /\ next' = next + 1
  /\ UNCHANGED <<src, outputs, status>>

(* The translatable branch ends with sync_model_outputs_if_required.      *)
Emit(t, i, o) == LET s == SyncOutput(t, i, o) IN Wire(s.tgt, i, s.out)

(* translate_node, translatable branch, for every class but MatMul and    *)
(* Const: the inputs are synced to the GPU and the Metal op is wired.     *)
TranslateOp ==
  /\ status = "running" /\ next <= Len(src)
  /\ CanTranslate(src, next) /\ src[next].op \notin {"MatMul", "Const"}
  /\ LET r == SyncInputs(tgt, MappedInputs(next), "ToGpu", <<>>) IN
       IF r.err # "none" THEN Fail(r.err)
       ELSE Emit(Append(r.tgt, Node(src[next].op, TRUE, r.mapped, src[next].dt, TRUE, FALSE)),
                 next, Len(r.tgt) + 1)

(* convert_const: the constant is moved to the device, which may fail.    *)
TranslateConst ==
  /\ status = "running" /\ next <= Len(src)
  /\ CanTranslate(src, next) /\ src[next].op = "Const"
  /\ \/ Emit(Append(tgt, Node("Const", TRUE, <<>>, src[next].dt, TRUE, TRUE)), next, Len(tgt) + 1)
     \/ Fail("ConstNotConvertible")

(* Mutant: the MetalCast wired to its own outlet instead of the gemm's.  *)
TranslateMatMulMutant ==
  /\ status = "running" /\ next <= Len(src)
  /\ CanTranslate(src, next) /\ src[next].op = "MatMul"
  /\ LET r == SyncInputs(tgt, MappedInputs(next), "ToGpu", <<>>)
         ins == src[next].inputs
         out == GemmOutDt(src[ins[1]].dt, src[ins[2]].dt)
         t1 == Append(r.tgt, Node("MatMul", TRUE, r.mapped, out, TRUE, FALSE))
     IN
     IF r.err # "none" THEN Fail(r.err)
     ELSE IF out = "none" THEN Fail("GemmDt")
     ELSE IF out = src[next].dt THEN Emit(t1, next, Len(t1))
     ELSE IF out \notin CastDts THEN Fail("CastDt")
     ELSE IF src[next].dt \notin CastDts THEN Fail("CastUnwrap")
     ELSE Emit(Append(t1, Node("MatMulCast", TRUE, <<Len(t1) + 1>>, src[next].dt, TRUE, FALSE)),
               next, Len(t1) + 1)

(* convert_matmul_to_metal: MetalGemm, whose output_facts fail outside   *)
(* the kernel's types, then a MetalCast when its output type differs from *)
(* the one the graph expects, after ensure! that the cast's input type is *)
(* supported; MetalCast::new(expected).unwrap() panics (CastUnwrap) when  *)
(* the expected type is not.                                               *)
TranslateMatMul ==
  /\ status = "running" /\ next <= Len(src)
  /\ CanTranslate(src, next) /\ src[next].op = "MatMul"
  /\ LET r == SyncInputs(tgt, MappedInputs(next), "ToGpu", <<>>)
         ins == src[next].inputs
         out == GemmOutDt(src[ins[1]].dt, src[ins[2]].dt)
         t1 == Append(r.tgt, Node("MatMul", TRUE, r.mapped, out, TRUE, FALSE))
     IN
     IF r.err # "none" THEN Fail(r.err)
     ELSE IF out = "none" THEN Fail("GemmDt")
     ELSE IF out = src[next].dt THEN Emit(t1, next, Len(t1))
     ELSE IF out \notin CastDts THEN Fail("CastDt")
     ELSE IF src[next].dt \notin CastDts THEN Fail("CastUnwrap")
     ELSE Emit(Append(t1, Node("MatMulCast", TRUE, <<Len(t1)>>, src[next].dt, TRUE, FALSE)),
               next, Len(t1) + 1)

(* Mutant: the CPU node wired to its source inputs, not to their images. *)
KeepOnCpuMutant ==
  /\ status = "running" /\ next <= Len(src)
  /\ ~CanTranslate(src, next)
  /\ LET r == SyncInputs(tgt, MappedInputs(next), "ToCpu", <<>>)  n == src[next] IN
       Wire(Append(r.tgt, Node(n.op, n.gpu, n.inputs, n.dt, n.gpu /\ n.op # "ToCpu",
                               n.op = "Const")),
            next, Len(r.tgt) + 1)

(* translate_node, other branch: device inputs are synced back to the CPU *)
(* and the node is wired unchanged (its output residency is its own).     *)
KeepOnCpu ==
  /\ status = "running" /\ next <= Len(src)
  /\ ~CanTranslate(src, next)
  /\ LET r == SyncInputs(tgt, MappedInputs(next), "ToCpu", <<>>)  n == src[next] IN
       Wire(Append(r.tgt, Node(n.op, n.gpu, r.mapped, n.dt, n.gpu /\ n.op # "ToCpu",
                               n.op = "Const")),
            next, Len(r.tgt) + 1)

(* The walk has translated every node.                                     *)
Finish ==
  /\ status = "running" /\ next = Len(src) + 1
  /\ status' = "done"
  /\ UNCHANGED <<src, outputs, next, tgt, mapping>>

Next ==
  \/ TranslateOp \/ TranslateConst \/ TranslateMatMul \/ KeepOnCpu
  \/ Finish

Spec == Init /\ [][Next]_vars /\ WF_vars(Next)

-----------------------------------------------------------------------------
(* Properties, stated on the target graph once the walk has finished.     *)

Done == status = "done"
IsSync(n) == n.op \in {"ToGpu", "ToCpu"}
Inputs(c) == Range(tgt[c].inputs)

TypeOK ==
  /\ status \in {"running", "done"} \cup Errors
  /\ next \in 1 .. (Len(src) + 1)
  /\ outputs \subseteq DOMAIN src
  /\ \A c \in DOMAIN tgt : \A x \in Inputs(c) : x \in 1 .. (c - 1)
  /\ \A i \in 1 .. (next - 1) : mapping[i] \in DOMAIN tgt

(* Every edge of the translated graph crosses the host/device boundary    *)
(* only through a sync: a Metal op reads device-resident values, a ToGpu  *)
(* sync a host value, a ToCpu sync a device value, and a CPU op reads     *)
(* host values -- leaving out the constants, whose outlet fact the walk   *)
(* rewrites in place after earlier consumers were wired (the run          *)
(* planner_const_residency looks at those).                                *)
ResidencyConsistent ==
  Done =>
    \A c \in DOMAIN tgt : \A x \in Inputs(c) :
      /\ tgt[c].gpu /\ ~IsSync(tgt[c]) => tgt[x].metal
      /\ tgt[c].op = "ToGpu" => ~tgt[x].metal
      /\ tgt[c].op = "ToCpu" => tgt[x].metal
      /\ ~tgt[c].gpu /\ ~tgt[x].konst => ~tgt[x].metal

(* The outlets standing for the model's outputs are host-resident (again  *)
(* leaving out constants): a node that is a model output and is moved to  *)
(* the GPU is followed by a ToCpu sync, whichever nodes consume it.       *)
OutputsOnHost ==
  Done => \A o \in outputs : ~tgt[mapping[o]].konst => ~tgt[mapping[o]].metal

(* The spec's residency invariant without exception: no CPU op and no     *)
(* model output is handed a device-resident value without a sync node.    *)
HostResidencyRespected ==
  Done =>
    /\ \A c \in DOMAIN tgt : ~tgt[c].gpu => \A x \in Inputs(c) : ~tgt[x].metal
    /\ \A o \in outputs : ~tgt[mapping[o]].metal

(* Each allow-listed op is translated only when its kernel accepts its    *)
(* input types: no Softmax-class Metal op reads a type its kernel lacks,  *)
(* and no MetalCast casts from a type MetalCast does not support.          *)
KernelDtsRespected ==
  \A c \in DOMAIN tgt :
    /\ tgt[c].gpu /\ tgt[c].op = "Softmax" => CheckInDtsAreSupported(tgt, c, KernelDts)
    /\ tgt[c].gpu /\ tgt[c].op \in {"Cast", "MatMulCast"} => CheckInDtsAreSupported(tgt, c, CastDts)

(* A matmul the planner deems eligible is translated: the transform never *)
(* aborts because MetalGemm rejects the matmul's operand types.            *)
EligibleMatMulTranslates == status # "GemmDt"

-----------------------------------------------------------------------------
(* Refinement: the walk implements PlannerSpec.  A target node is read    *)
(* through the syncs and the MetalCast the walk puts in front of it.      *)

RECURSIVE Strip(_)
Strip(x) ==
  IF tgt[x].op \in {"ToGpu", "ToCpu", "MatMulCast"} /\ tgt[x].inputs[1] < x
    THEN Strip(tgt[x].inputs[1]) ELSE x

(* The target node that computes source node j, and the source node that *)
(* a target node computes (0 for none).                                    *)
Core(j) == Strip(mapping[j])
SourceOf(y) ==
  IF \E j \in 1 .. (next - 1) : Core(j) = y
    THEN CHOOSE j \in 1 .. (next - 1) : Core(j) = y ELSE 0

Image ==
  [j \in 1 .. (next - 1) |->
     [op |-> tgt[Core(j)].op,
      inputs |-> [k \in DOMAIN tgt[Core(j)].inputs |-> SourceOf(Strip(tgt[Core(j)].inputs[k]))],
      dt |-> tgt[mapping[j]].dt]]

Abs == INSTANCE PlannerSpec WITH image <- Image

(* The translation preserves the computation: once the syncs and casts   *)
(* are erased, each translated node performs its source node's operation  *)
(* on the images of its source inputs and yields its source type; and the *)
(* walk ends, with the graph or an error.                                  *)
ImplementsPlannerSpec == Abs!Spec

=============================================================================
