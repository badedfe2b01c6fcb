# TLA+ models of tract's kernel dispatch and Metal offload code

This directory holds TLA+ models of the parts of the sources under `src/`
that have control worth model checking. It also holds the TLC configurations
that check them, and `PROJECT.json`. That file lists every component, run,
mutant, finding and hazard, and maps each TLA+ definition to the source lines
it translates.

## The system and its parts

The sources are a slice of tract, a neural-network inference engine:

| Part | Source | What it does |
|---|---|---|
| Unicast SIMD engine | `src/linalg/src/frame/unicast/mod.rs` | `unicast_with_alignment` runs a SIMD kernel `f` over two slices `a` (in place) and `b`. It processes the unaligned head through thread-local scratch buffers of `nr` elements (`TMP`), then the complete tiles in place, then the remainder through the scratch again. |
| Generic kernel registration | `src/linalg/src/generic.rs` | Inserts fixed (op, type) → kernel constructors into the registry. |
| MMM kernel macros | `src/linalg/src/frame/mmm/macros.rs` | Generates lazily built kernel records with their packings. |
| Kernel selection | `src/core/src/ops/einsum/kernel_selection.rs` | `wire_packing` / `wire_linear` choose a matmul kernel and its packers. The plain path uses one kernel (`ModePicker::Single`). A pre-packed constant weight uses a kit with a vector and a matrix kernel (`ModePicker::VecVsMat`). |
| Batched GEMM dispatcher | `src/metal/src/kernels/matmul/mod.rs`, `src/metal/src/ops/gemm.rs` | `GemmImpl::dispatch_eval` computes C's shape and returns early on an empty C. `compute_dispatches_params` splits the batched product into 3-D dispatches, and each dispatch is handed to a Metal kernel. |
| GEMM tests and benchmark | `src/metal/src/kernels/matmul/mod.rs` (tests), `src/metal/benches/metal_gemm.rs` | The proptests build random rank-3 problems, call `GemmImpl::eval` directly and compare the result with `BasicMatMul`. The benchmark times the same call on untransposed operands. |
| MetalGemm operator | `src/metal/src/ops/gemm.rs` | The graph operator of a GPU matmul. `output_facts` types the node (rank and contraction checks, the kernel's `output_dt`), `metal_eval` allocates C and calls `dispatch_eval`, and `cost` declares the FMA count. |
| GPU offload planner | `src/metal/src/transform.rs` | `MetalTransform` walks the model node by node. It replaces allow-listed operators by Metal operators, inserts `MetalSync` ToGpu/ToCpu nodes where a value crosses the host/device boundary, and turns constants into Metal constants. |

How the parts interact:
- The planner wires `MetalGemm` nodes. The graph types them with `output_facts`, and their evaluation is the GEMM dispatcher.
- `GemmImpl::eval` is the dispatcher's other entry. It is called by the proptests and the benchmark without `output_facts`, and it waits for the GPU before it returns C.
- The dispatcher and the unicast engine both run kernels that the registry and kernel selection provide.

## Modules

| Module | Models | State | Actions |
|---|---|---|---|
| `Unicast` | one call of `unicast_with_alignment` (`create_incomplete_tile`, `compute_via_temp_buffer`) | `len`, the misalignments `aMis`/`bMis` of the two base pointers (in elements), `pc`, `res[i]` (the `b` indices combined into `a[i]`, in order), the kernel `calls`, `applied` (= `applied_prefix_len`), `processed` (= `num_element_processed`), the scratch lanes `tmpA`/`tmpB` (`TMP`) | `EmptyReturn`, `Enter`, `Prefix`/`NoPrefix`, `Bulk`/`NoBulk`, `TailTile`/`NoTail`: one per branch of the function, in the code's order |
| `GemmDispatch` | `GemmImpl::dispatch_eval` with `output_shape`, `compute_dispatches_params`, `squeeze_batch_axes` | the operands `call` (transposes, batch axes, m, k, n, base offsets), `pc`, `status`, the dispatches still `todo` and those `issued` | `EmptyOutput`, `Decompose` (the match arms in order, or `IncompatibleBatchDims`), `IssueDispatch`, `KernelFails` (the `?` on the kernel's result), `LoopEnd` |
| `MetalGemm` | `MetalGemm::output_facts`/`resolve_output_facts` with `GemmImpl::output_facts`, `metal_eval`, `cost`, and `GemmImpl::eval` as its callers in the sources use it, composed with `GemmDispatch` (EXTENDS) | the dispatcher's state, the operand types `aDt`/`bDt`, the resolved output `fact`, the allocated `cTensor`, and the `entry` (the operator, or a direct call of `GemmImpl::eval`) | `OutputFacts` (accepts, rejects, or hits `todo!()`), `MetalEval` (allocates C) or `DirectEval` (`eval` allocates C), then the dispatcher's actions |
| `OffloadPlanner` | `translate_node` with `can_translate_op_to_metal_op`, `sync_inputs_if_required`, `sync_model_outputs_if_required`, `convert_matmul_to_metal`, `convert_const` | the source graph `src` and its `outputs`, the walk position `next`, the target graph `tgt`, `mapping` (source node → target outlet), `status` | `TranslateOp`, `TranslateConst`, `TranslateMatMul`, `KeepOnCpu` (the two branches of `translate_node`), `Finish` |
| `KernelSelection` | `wire_packing` and `wire_linear` | the query `q` (operating type, A and B types, whether and how A is constant, whether N is known), `pc`, `outcome` (ok, the error returned, or the panic hit), the `OptMatMulPack` nodes `wired` (operand, packers, mode picker), the `(kernel, packing)` pairs `impls` returned | `ToLinear`/`ToSimple`; `SimpleNoKernel`, `SimpleNoPacking`, `SimpleWire`; `LinearNotOpaque`, `LinearNotInputValue`, `LinearNoActivation`, `LinearNoKit`, `LinearWire` |
| `UnicastSpec` | the executor's promise in spec §4.4 and the unicast correctness requirement, with no tiles, alignment or scratch | `len`, `res`, `state` (`busy`/`done`) | `Apply` (a contiguous run of untouched elements is paired with `b`), `Return` (only once the slice is complete) |
| `PlannerSpec` | the planner's promise in spec §4.6, free of residency: the walk rebuilds the source graph node by node, or stops with an error | `src`, `outputs`, `image` (the translated graph as a computation), `status` | `Translate`, `Abort`, `Finish` |
| `OffloadTwice` | `translate_model` applied to its own result | the planner's state and `pass` | the planner's actions, and `Retranslate` |

Each `MC*.tla` module extends a model and gives its constants values. The
`.cfg` files then bind those values with `<-`.

Details of the abstraction:

**Unicast.**
- Memory is abstracted to element indices. An address is its misalignment modulo `AlignItems` (the kernel's `alignment_items`).
- `AlignOffset` is `ptr.align_offset(alignment_bytes)` expressed in elements. The pointers are always `T`-aligned.
- The kernel's arithmetic is abstracted to recording which `b[j]` reaches `a[i]`.
- The scratch buffers `TMP` are kept per thread across calls and allocated without initialisation. Their lanes start `Stale`. `compute_via_temp_buffer` copies `n` elements in, runs `f` over all `NR` lanes, and copies `n` back (`ViaTemp`).
- A scratch call on more than `NR` elements stands for the panic of `tmp_a[..a.len()]`.
- `Unicast` refines `UnicastSpec` (`Abs == INSTANCE UnicastSpec WITH state <- AbsState`). `len` and `res` map to themselves, and the abstract `state` is `done` exactly when `pc` is. `Enter`, `NoPrefix`, `NoBulk` and `NoTail` only move `pc`, so they are stuttering steps of the abstract spec. `ImplementsSpec` checks `Abs!Spec`, including its weak fairness: every call returns.

**GemmDispatch.**
- The meaning of a dispatch is the set of (c, a, b) element triples the kernel multiplies and accumulates (`Triples`). This is compared with the reference broadcasting batched matmul (`RefTriples`), on row-major layouts with the transposes.
- The `ensure!` on C's shape is left out, because both callers build C from `output_shape`.
- `ES` (the element size) stands for `size_of`, which turns element offsets into byte offsets.
- The call record has B's contraction dimension `kb` apart from A's `k`. `Calls`, the dispatcher's own inputs, have `kb = k`, which `MetalGemm`'s output facts guarantee.

**MetalGemm.**
- Operands range over `RawCalls`: ranks and contraction dimensions may disagree. Batch axes are broadcastable, as core matmul typing makes them. Operand types are the numbers F32, F16 and I64, a block-quantised opaque value (`BQ`), and any other opaque value (`Opq`).
- The kernel keeps `GemmKernel`'s default `output_dt`, because the kernels that override it are not in the sources. With it, a block-quantised operand is refused by `output_facts`.
- Only an operator whose facts resolve is evaluated, which is how the graph uses `output_facts`.
- The GPU side of an evaluation is not modelled. That covers executing the enqueued dispatches, `retain_until_completion` and its release, and `wait_until_completed`. These belong to `MetalTensor` and `MetalContext`, which are not in the sources, so a model of them could only be taken from the spec. An earlier version did take it from the spec. With the release written to wait for completion, its buffer-liveness property only restated the three `retain_until_completion` calls, so that model was removed.
- The model has a second entry (`entry = "direct"`), for the callers of `GemmImpl::eval` in the sources. The proptest harness `MmmProblem::run` builds rank-3 operands with one batch axis `b` and a shared `k`, either transpose, all dims from 1 (`MmmProblems`, after `arbitrary_with`). The `metal_gemm` benchmark calls `GemmImpl::default().eval` on untransposed operands (`BenchProblems`). Both use F32 or F16 and fresh tensors at offset 0.
- `DirectEval` is `eval` up to its `dispatch_eval`. The `wait_until_completed` that follows is on the GPU. `RefTriples` is `MmmProblem::reference` (`BasicMatMul`), generalised to broadcasting.

**KernelSelection.**
- The registry (`tract_linalg::ops()`, outside the sources) is a set of constants: kernels with their packings in order, the `mmm` lookup per operating type, and the kits in order.
- A packing format is a `PackedFormat`, named with its type and tile (`FormatDt` gives the type), or a format of another kind (`Formats`, the block-quantized weights). The downcast to `PackedFormat` succeeds exactly on the first kind.
- `min_by_key` is the first kit of least key; `.find` is the first matching packing.
- `MCKernelSelection` has an f32 kernel whose first packing is block-quantized, so `.find` must skip it. It has vector and matrix kernels with different B tiles, a generic kit listed before a specialised one, a kit whose matrix packing's B side is not a `PackedFormat`, and no kernel for the I8 operating type.

**OffloadPlanner.**
- A graph is a sequence of single-output nodes in evaluation order.
- A node has an operator class, whether it is a Metal operator, the type of its output, whether its output fact is device-resident (`metal`), and whether it carries a constant.
- Operator classes stand for the operators the planner treats alike. `Softmax` stands for every allow-listed operator with its own kernel type check.
- `Init` enumerates every graph of `N` nodes that typing can produce: element-wise ops keep their input's type, and binary ops and matmuls take two inputs of one type. A matmul's output type may be wider than its operands' type, which is what makes the MetalCast branch reachable.
- Whether `into_metal` succeeds is outside the sources, so `TranslateConst` may succeed or fail.
- A source `Cast` is translated when `MetalCast::new(to)` succeeds, that is when its output type is in `CastDts`. Its input types are not checked, because the result of `check_in_dts_are_supported` is dropped there too. The MetalCast that `convert_matmul_to_metal` puts after a matmul is the class `MatMulCast`. `MetalCast::new(expected).unwrap()` on a type outside `CastDts` is the outcome `CastUnwrap`.
- The in-place rewrite of a constant's outlet fact is `[t EXCEPT ![x].metal = TRUE]` inside `SyncInputs`.
- `OffloadPlanner` refines `PlannerSpec` (`Abs == INSTANCE PlannerSpec WITH image <- Image`). `Image` reads the target graph through the sync nodes and the `MatMulCast` the walk puts in front of a node (`Strip`). Node `j` of the image is the target node standing for source node `j`: its operator class, its inputs mapped back to source nodes (`SourceOf`), and the type of the outlet `mapping[j]`. The steps that wire a node are `Translate` steps, the failures are `Abort` steps, and `Finish` is `Finish`.

## Runs

| Run | Config | Expect | What it shows |
|---|---|---|---|
| `unicast` | `MCUnicast.cfg` | pass | Covers every length 0..11 and every pair of misalignments, with `NR = AlignItems = 4` (the f32 kernels). The call never overflows the scratch and uses it at most twice (`ScratchBounded`). The bulk covers only complete tiles. At least one operand of the bulk is aligned, and both are when the misalignments agree (`BulkAlignedWhenCoaligned`). Every behaviour is a behaviour of the abstract executor `UnicastSpec` (`ImplementsSpec`). Each kernel run combines fresh `a[i]` with `b[i]` and no stale scratch lane reaches `a`, at any step. The call returns exactly when every `a[i]` has been combined once. 912 states. |
| `unicast_bulk_aligned` | `MCUnicastAligned.cfg` | violation | The spec says the in-place kernel never gets a misaligned pointer. TLC finds len 5, `a` aligned, `b` misaligned by 3. The head through scratch is `b`'s 1-element prefix, and the bulk then starts at index 1, where `b` is aligned and `a` is not. |
| `gemm_broadcast` | `MCGemmBroadcast.cfg` | violation | A batch [1,2] × B batch [2,1] is rejected with `IncompatibleBatchDims`, although such operands are valid and the planner sends them to the GPU. |
| `metal_gemm` | `MCMetalGemm.cfg` | pass | The operator composed with the dispatcher, and the direct `GemmImpl::eval` entry of the proptests and the benchmark. Covers batch ranks 0..2, batch dims 0..2, `m`/`k`/`kb`/`n` in 0..2, both transposes, two base offsets, and eight pairs of operand types (one per branch of `resolve_output_facts` and `output_dt`). Only operands the operator's facts accept are evaluated. No dispatch that reaches a kernel is empty, in batch, `m` or `n` (`OpTypeOK`, the empty-output return). The dispatches of a successful call partition C (`DispatchesPartitionC`) and compute exactly the reference's triples (`DispatchesMatchReference`). This covers batch folding, per-index offsets for transposed A and for B, and the single batched dispatch. Every element the kernels read lies in A or B, and every element they write lies in the C that `metal_eval` allocated (`OperandsInBounds`). 5,844,864 states, about a minute. |
| `metal_gemm_cost` | `MCMetalGemmCost.cfg` | violation | The declared cost is not the number of multiply-accumulates. TLC finds a transposed A with m = 1, k = 0: the cost is 1, though the product does none. |
| `kernel_selection` | `MCKernelSelection.cfg` | pass | Covers every query of the MC set over the MC registry. A successful selection wires, at each mode index, the packer of the kernel returned at that index (`PackersAgreeWithImpls`). It packs each operand in a format of its own type, up to quantization (`FormatsMatchOperands`). It picks a specialised kit over a generic fallback (`KitPreference`). 198 states. |
| `kernel_selection_int_activation` | `MCKernelSelectionIntAct.cfg` | violation | A Q4_0 pre-packed weight with an I8 activation and an I32 operating type hits `todo!()`. |
| `planner` | `MCOffloadPlanner.cfg` | pass | Covers every 3-node graph over the types {F32, I64, Opq, TDim}, with casts to any of them, and every set of model outputs. Once the walk has finished, every edge crosses the host/device boundary only through a sync (`ResidencyConsistent`), and the outlets of the model outputs are host-resident (`OutputsOnHost`). Both leave constants aside. With syncs and casts erased, the translated graph is the source graph, node by node: same operator classes, same dataflow, same output types. The walk also ends (`ImplementsPlannerSpec`). 177,732 states. |
| `planner_const_residency` | `MCPlannerHostResidencyRespected.cfg` | violation | Source; Const; Unary(Const), with the Const as a model output. The GPU consumer rewrites the constant's fact to a device-resident one, and the model output is then device-resident with no sync. |
| `planner_kernel_dts` | `MCPlannerKernelDtsRespected.cfg` | violation | A Softmax on I64, a type its kernel does not accept, or a Cast from a type MetalCast does not support, is translated anyway. |
| `planner_gemm_dt` | `MCPlannerEligibleMatMulTranslates.cfg` | violation | An I64 matmul is deemed translatable, then aborts the transform. |
| `planner_twice` | `MCOffloadTwice.cfg` | violation | On the second run a ToCpu sync is added in front of the existing ToCpu sync (and of every Metal operator), so the graph grows. |

Each property of a passing run has a mutant in `PROJECT.json`: a plausible
slip in the mapped code (a dropped early return, a stale start index, a
wrong stride, a transposed-A fold, an id from the wrong graph), and TLC finds
the property violated under the run's configuration.

### Bounds

- **Unicast.**
  - `MaxLen = 11` covers every length below one tile, at a tile, and up to two tiles plus a remainder, after prefixes of 0..3.
  - `NR = AlignItems` is the configuration of the shipped f32 (4/4) and f16 (8/8) kernels. A kernel with `alignment_items - 1 > nr` would overflow the scratch in the prefix; no such kernel is in the sources.
- **GemmDispatch and MetalGemm.**
  - Batch ranks up to 2 with dims 0..2 reach every match arm, the multi-axis squeeze, the empty-output return and the two-way broadcast.
  - Matrix dims 0..2 tell m, k and n apart in the offset arithmetic. `k` and `kb` in 0..2 give contraction mismatches in both directions.
  - The operand types are eight pairs, not all 25. They are F32×F32, F16×F16, F16×F32, F32×F16, I64×I64, BQ×F32, F32×BQ and F32×Opq. Each pair takes a different branch of `resolve_output_facts` and `output_dt`, and the other pairs repeat these branches.
- **OffloadPlanner.**
  - `N = 3` is enough for a node to have two consumers (one CPU, one GPU), for a constant to be read before and after it is moved, and for a matmul with a cast.
  - The type set has an F32 that every kernel accepts, an integer accepted by the sync but not by the kernels, an opaque type, and a non-Copy type (`TDim`).
  - `OffloadTwice` uses `N = 2`; its second pass works on graphs of up to 6 nodes.

### Fairness

Every model describes one sequential call (`unicast_with_alignment`,
`dispatch_eval`, `translate_model`). The specs carry weak fairness on `Next`
because the code runs each call to completion on one thread. The liveness
obligations checked are the weak fairness of the abstract specifications,
inside the refinement properties. `ImplementsSpec` says a call of the
executor returns. `ImplementsPlannerSpec` says the walk ends, with the
graph or an error. Every other loop is bounded
by construction. The calls end, so the final states deadlock and the configs say
`CHECK_DEADLOCK FALSE`.

## Findings

1. **The spec's "never misaligned" does not hold** (`unicast/mod.rs:157`). The prefix aligns only the less misaligned operand, and the other reaches the in-place kernel misaligned. The shipped kernels tolerate this only if they use unaligned loads.
2. **Two-way batch broadcast is refused** (`matmul/mod.rs:69`). This refusal happens after the planner has committed the matmul to the GPU.
3. **A constant's fact is rewritten under its earlier consumers** (`transform.rs:128`). The output of `translate_model` (the state `transform_up_to_phase(…, 2)` returns) has CPU nodes and model outputs reading device-resident constants. The later rewrite rules, which are not in the sources, must repair it.
4. **The per-kernel dtype checks are vacuous** (`transform.rs:220` and the lines around it). `.is_ok()` drops the `bool` that `check_in_dts_are_supported` returns.
5. **An integer matmul aborts the transform** (`transform.rs:203`, `matmul/mod.rs:163-169`).
6. **An integer activation on the linear path panics** (`kernel_selection.rs:110`). This happens although the I32 accumulator was chosen just before.
7. **The planner is not idempotent** (`transform.rs:346`), contrary to the spec's testable property.
8. **`MetalGemm::cost` counts `m` for `k` when A is transposed** (`ops/gemm.rs:152`). It takes `shape.last()` of A, so the FMA estimate handed to the graph is wrong whenever `m != k`.

Defects that are not about behaviour, and so are out of TLC's reach:
- `Default for MetalGemmImplKind` returns `Self::Ggml`, which is not a variant (`matmul/mod.rs:28-32`).
- `MetalGemm::resolve_output_facts` calls `output_facts(&out_shape, dt, dt)`, which does not match `GemmImpl::output_facts(&TypedFact, &TypedFact)` (`ops/gemm.rs:57,75,92`).

## Not modelled, and the plan

- **The spec's narrow-accumulator rule** (§4.1: F16 accumulation only with an F16 activation). `wire_linear` picks F16 whenever the operating type is F16 on an fp16 platform, whatever the activation is. Whether this is wrong depends on the kits the registry ships, which are outside the sources, so it is not stated as a property.
- **The GPU side: execution, retention, waiting.** `MetalContext` and `retain_until_completion` are not in the sources. The hazards they carry are listed in `PROJECT.json` without a property: buffers dropped by the session while dispatches are in flight, and `eval` returning before the GPU is done.
- **The post-translation rewrite rules** (`rewire_metal_sync`, `rewire_metal_sync_after_const`). They are not in the sources, so finding 3 and the output round trip are stated against `translate_model`'s own output.
- **`GemmImpl::eval` with arbitrary operands.** `eval` calls `dispatch_eval` without the operator's contraction check. The model lets it be called only with the operands its callers in the sources build (the proptest harness and the benchmark), and for those `OperandsInBounds` holds. Any other caller would need its own check.
- **The rest of the benchmarks.** This covers the criterion harness, the ggml and packing benchmarks (which call code outside the sources) and the 8×8 tile benchmark. None of them is behaviour of the library.
- **Generic registration, macros, the module list in `core/src/ops/array/mod.rs`.** These are tables, code generation and harnesses, with no state machine to check.
