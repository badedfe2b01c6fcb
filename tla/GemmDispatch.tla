---------------------------- MODULE GemmDispatch ----------------------------
(***************************************************************************)
(* The batched GEMM dispatcher of the Metal backend:                       *)
(* GemmImpl::dispatch_eval and GemmDispatchParams::compute_dispatches_params*)
(* in src/metal/src/kernels/matmul/mod.rs.                                 *)
(*                                                                         *)
(* A call receives A and B (same rank, batch dims broadcastable, as the    *)
(* typed graph guarantees), computes C's shape, short-circuits an empty C, *)
(* decomposes the batch into primitive 3-D dispatches and hands them one   *)
(* by one to the kernel, any of which may report failure.  A dispatch is   *)
(* given its meaning as the set of (c, a, b) element triples it multiplies *)
(* and accumulates, which is compared to the reference batched matmul.    *)
(***************************************************************************)
EXTENDS Naturals, SequencesExt

CONSTANTS
  BatchRanks,  \* numbers of leading batch axes of A and B (rank - 2)
  BatchDims,   \* values a batch axis may take
  MatDims,     \* values m, k and n may take
  ElemOffsets, \* base offsets of the A, B, C tensors in their buffers, in elements
  ES           \* dts[i].size_of(): bytes per element (A, B, C share a type)

VARIABLES
  call,     \* the operands: transposes, batch axes, m, k, n, base offsets
  pc,       \* "start", "loop", "done"
  status,   \* "ok", "IncompatibleBatchDims", "DispatchFailure"
  todo,     \* dispatches computed and not yet handed to the kernel
  issued    \* dispatches handed to the kernel, in order

vars == <<call, pc, status, todo, issued>>

Prod(s) == FoldSeq(LAMBDA x, y : x * y, 1, s)

(* Shapes of A and B as tensors: batch axes, then the two matrix axes.     *)
AShape(c) == c.aBatch \o (IF c.ta THEN <<c.k, c.m>> ELSE <<c.m, c.k>>)
BShape(c) == c.bBatch \o (IF c.tb THEN <<c.n, c.kb>> ELSE <<c.kb, c.n>>)

(* GemmImpl::output_shape: a batch axis of A equal to one takes B's.       *)
OutputShape(c) ==
  LET a == AShape(c)  b == BShape(c)  r == Len(a) IN
  [ix \in 1 .. (r - 2) |-> IF a[ix] = 1 THEN b[ix] ELSE a[ix]]
    \o << a[r - 1 + (IF c.ta THEN 1 ELSE 0)], b[r - 1 + (IF c.tb THEN 0 ELSE 1)] >>

(* squeeze_batch_axes: all leading axes folded into one batch axis.        *)
Squeeze(s) == << Prod(SubSeq(s, 1, Len(s) - 2)), s[Len(s) - 1], s[Len(s)] >>

Dispatch(c, batch, m, aOff, bOff, cOff) ==
  [batch |-> batch, m |-> m, n |-> c.n, k |-> c.k, ta |-> c.ta, tb |-> c.tb,
   aOff |-> aOff, bOff |-> bOff, cOff |-> cOff]

(* Mutant: A's batch folded into m whatever its layout.                   *)
FoldsIntoMMutant(c, ab, bb) == bb = 1 /\ ab # 1

(* First match arm: with a single B and a non-transposed A, A's batch     *)
(* rows are contiguous and fold into m.                                    *)
FoldsIntoM(c, ab, bb) == bb = 1 /\ ab # 1 /\ ~c.ta

(* Mutant: C's per-index step taken as m * k, A's step.                   *)
PerAIndexMutant(c, i, m, n, a0, b0, c0) ==
  Dispatch(c, 1, m, a0 + (i - 1) * m * c.k * ES, b0, c0 + (i - 1) * m * c.k * ES)

(* Second arm, the dispatch for the i-th batch index of A.                 *)
PerAIndex(c, i, m, n, a0, b0, c0) ==
  Dispatch(c, 1, m, a0 + (i - 1) * m * c.k * ES, b0, c0 + (i - 1) * m * n * ES)

(* Third arm, the dispatch for the i-th batch index of B.                  *)
PerBIndex(c, i, m, n, a0, b0, c0) ==
  Dispatch(c, 1, m, a0, b0 + (i - 1) * n * c.k * ES, c0 + (i - 1) * m * n * ES)

(* GemmDispatchParams::compute_dispatches_params; the match arms in order. *)
ComputeDispatches(c) ==
  LET sa == Squeeze(AShape(c))  sb == Squeeze(BShape(c))  sc == Squeeze(OutputShape(c))
      ab == sa[1]  bb == sb[1]
      m == sc[2]  n == sc[3]
      a0 == c.aOff * ES  b0 == c.bOff * ES  c0 == c.cOff * ES
  IN
  IF sc[1] # ab /\ sc[1] # bb THEN [ok |-> FALSE, list |-> <<>>]
  ELSE IF FoldsIntoM(c, ab, bb) THEN
    [ok |-> TRUE, list |-> << Dispatch(c, 1, m * ab, a0, b0, c0) >>]
  ELSE IF bb = 1 /\ ab # 1 THEN
    [ok |-> TRUE, list |-> [i \in 1 .. ab |-> PerAIndex(c, i, m, n, a0, b0, c0)]]
  ELSE IF ab = 1 /\ bb # 1 THEN
    [ok |-> TRUE, list |-> [i \in 1 .. bb |-> PerBIndex(c, i, m, n, a0, b0, c0)]]
  \* the last arm: one batched dispatch, after ensure!(a_batch == b_batch)
  ELSE IF ab = bb THEN [ok |-> TRUE, list |-> << Dispatch(c, ab, m, a0, b0, c0) >>]
  ELSE [ok |-> FALSE, list |-> <<>>]

(* Operand shapes the typed graph hands over: equal rank, each batch axis  *)
(* pair equal or one of them 1 (core matmul typing rejects the rest).      *)
Broadcastable(c) ==
  \A d \in 1 .. Len(c.aBatch) :
    c.aBatch[d] = c.bBatch[d] \/ c.aBatch[d] = 1 \/ c.bBatch[d] = 1

(* Every pair of operands: kb is B's contraction dimension, m and k are  *)
(* A's, n is B's.                                                          *)
RawCalls ==
  [ta : BOOLEAN, tb : BOOLEAN, m : MatDims, k : MatDims, kb : MatDims, n : MatDims,
   aBatch : UNION {[1 .. r -> BatchDims] : r \in BatchRanks},
   bBatch : UNION {[1 .. r -> BatchDims] : r \in BatchRanks},
   aOff : ElemOffsets, bOff : ElemOffsets, cOff : ElemOffsets]

(* The operands dispatch_eval is called with: typed by MetalGemm's        *)
(* output facts (same rank, same contraction dimension) and broadcastable. *)
Calls ==
  { c \in RawCalls : Len(c.aBatch) = Len(c.bBatch) /\ c.kb = c.k /\ Broadcastable(c) }

Init ==
  /\ call \in Calls
  /\ pc = "start"
  /\ status = "ok"
  /\ todo = <<>>
  /\ issued = <<>>

(* dispatch_eval up to the loop: operands retained until completion, an    *)
(* empty C returns at once, then the dispatches are computed or the call  *)
(* fails.  (c is built from output_shape by both callers, so the shape     *)
(* ensure! cannot fail and is left out.)                                   *)
EmptyOutput ==
  /\ pc = "start"
  /\ Prod(OutputShape(call)) = 0
  /\ pc' = "done"
  /\ UNCHANGED <<call, status, todo, issued>>

(* Mutant: the empty-output early return left out.                       *)
DecomposeMutant ==
  /\ pc = "start"
  /\ LET r == ComputeDispatches(call) IN
       IF r.ok THEN pc' = "loop" /\ todo' = r.list /\ UNCHANGED status
               ELSE pc' = "done" /\ status' = "IncompatibleBatchDims" /\ UNCHANGED todo
  /\ UNCHANGED <<call, issued>>

Decompose ==
  /\ pc = "start"
  /\ Prod(OutputShape(call)) # 0
  /\ LET r == ComputeDispatches(call) IN
       IF r.ok THEN pc' = "loop" /\ todo' = r.list /\ UNCHANGED status
               ELSE pc' = "done" /\ status' = "IncompatibleBatchDims" /\ UNCHANGED todo
  /\ UNCHANGED <<call, issued>>

(* for d in dispatches: self.matmul.dispatch_eval(...)? -- the kernel      *)
(* enqueues the dispatch, or reports an error that ends the call.          *)
IssueDispatch ==
  /\ pc = "loop" /\ todo # <<>>
  /\ issued' = Append(issued, Head(todo))
  /\ todo' = Tail(todo)
  /\ UNCHANGED <<call, pc, status>>

KernelFails ==
  /\ pc = "loop" /\ todo # <<>>
  /\ status' = "DispatchFailure"
  /\ pc' = "done"
  /\ UNCHANGED <<call, todo, issued>>

LoopEnd ==
  /\ pc = "loop" /\ todo = <<>>
  /\ pc' = "done"
  /\ UNCHANGED <<call, status, todo, issued>>

Next == EmptyOutput \/ Decompose \/ IssueDispatch \/ KernelFails \/ LoopEnd

Spec == Init /\ [][Next]_vars /\ WF_vars(Next)

-----------------------------------------------------------------------------
(* Meaning of a dispatch, and the reference batched matmul.  Indices are   *)
(* element positions in the A, B and C buffers.                            *)

(* The (c, a, b) triples a kernel computes for one dispatch: C[t,i,j] +=   *)
(* A[t,i,kk] * B[t,kk,j] on row-major [batch, m, k] / [batch, k, m] A and  *)
(* [batch, k, n] / [batch, n, k] B.                                         *)
Triples(d) ==
  { << d.cOff \div ES + t * d.m * d.n + i * d.n + j,
       d.aOff \div ES + t * d.m * d.k + (IF d.ta THEN kk * d.m + i ELSE i * d.k + kk),
       d.bOff \div ES + t * d.k * d.n + (IF d.tb THEN j * d.k + kk ELSE kk * d.n + j) >> :
     t \in 0 .. (d.batch - 1), i \in 0 .. (d.m - 1), j \in 0 .. (d.n - 1), kk \in 0 .. (d.k - 1) }

CRange(d) == { d.cOff \div ES + x : x \in 0 .. (d.batch * d.m * d.n - 1) }

(* Row-major position of a multi-index in a shape.                          *)
Flat(idx, dims) ==
  LET f[d \in 0 .. Len(dims)] == IF d = 0 THEN 0 ELSE f[d - 1] * dims[d] + idx[d]
  IN f[Len(dims)]

Indices(dims) ==
  { idx \in [1 .. Len(dims) -> 0 .. Max(Range(dims) \cup {0})] :
      \A d \in 1 .. Len(dims) : idx[d] < dims[d] }

(* The triples of the reference: every output batch index reads the A and *)
(* B batch indices it broadcasts from.                                      *)
RefTriples(c) ==
  LET cd == SubSeq(OutputShape(c), 1, Len(c.aBatch))
      Bcast(idx, dims) == [d \in DOMAIN dims |-> IF dims[d] = 1 THEN 0 ELSE idx[d]]
  IN
  { << c.cOff + Flat(cb, cd) * c.m * c.n + i * c.n + j,
       c.aOff + Flat(Bcast(cb, c.aBatch), c.aBatch) * c.m * c.k
              + (IF c.ta THEN kk * c.m + i ELSE i * c.k + kk),
       c.bOff + Flat(Bcast(cb, c.bBatch), c.bBatch) * c.k * c.n
              + (IF c.tb THEN j * c.k + kk ELSE kk * c.n + j) >> :
     cb \in Indices(cd), i \in 0 .. (c.m - 1), j \in 0 .. (c.n - 1), kk \in 0 .. (c.k - 1) }

Finished == pc = "done" /\ status = "ok" /\ Prod(OutputShape(call)) # 0

-----------------------------------------------------------------------------
(* Properties                                                               *)

(* The dispatches of a successful call write disjoint ranges of C whose    *)
(* union is exactly C: every output element is produced once.              *)
DispatchesPartitionC ==
  Finished =>
    /\ \A x, y \in DOMAIN issued : x # y => CRange(issued[x]) \cap CRange(issued[y]) = {}
    /\ UNION {CRange(issued[x]) : x \in DOMAIN issued}
         = { call.cOff + x : x \in 0 .. (Prod(OutputShape(call)) - 1) }

(* The dispatches of a successful call multiply exactly the element pairs *)
(* the reference broadcasting batched matmul multiplies, into the same     *)
(* output elements: batch folding, per-index offsets and transposes agree. *)
DispatchesMatchReference ==
  Finished => UNION {Triples(issued[x]) : x \in DOMAIN issued} = RefTriples(call)

(* Every operand pair the typed graph can hand over (batch axes pairwise  *)
(* broadcastable) is decomposed: the call never fails with incompatible    *)
(* batch dimensions.                                                        *)
AcceptsBroadcastable == status # "IncompatibleBatchDims"
=============================================================================
