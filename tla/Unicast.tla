------------------------------ MODULE Unicast ------------------------------
(***************************************************************************)
(* The alignment-aware tiled executor of element-wise binary operations,  *)
(* unicast_with_alignment in src/linalg/src/frame/unicast/mod.rs.          *)
(*                                                                         *)
(* One call runs the kernel f over a mutable slice a and a slice b of the *)
(* same length.  Memory is abstracted to element indices: a base address  *)
(* is its misalignment, in elements, with respect to the kernel's         *)
(* alignment, and the contents of a[i] are the sequence of b indices that *)
(* have been combined into it.  Each phase of the function (early return, *)
(* unaligned prefix, aligned bulk, tail) is one action; a pc records      *)
(* where the call is.  The scratch buffers (thread-local TMP) hold NR     *)
(* elements, so a scratch call on more than NR elements is the panic of   *)
(* tmp_a[..a.len()].                                                       *)
(***************************************************************************)
EXTENDS Integers, Sequences, FiniteSets

CONSTANTS
  NR,          \* K::nr(): the kernel's tile width, and the scratch size
  AlignItems,  \* K::alignment_items(): required alignment, in elements
  MaxLen       \* bound on the slice length of a call

ASSUME NR \in Nat \ {0} /\ AlignItems \in Nat \ {0} /\ MaxLen \in Nat

VARIABLES
  len,        \* a.len() (= b.len())
  aMis,       \* misalignment of a.as_ptr(), in elements
  bMis,       \* misalignment of b.as_ptr(), in elements
  pc,         \* "entry", "prefix", "bulk", "tail", "done", "panic"
  res,        \* res[i]: the b indices combined into a[i], in order
  calls,      \* history of kernel invocations
  applied,    \* applied_prefix_len
  processed,  \* num_element_processed
  tmpA,       \* TMP.0: the thread-local scratch for a, nr elements
  tmpB        \* TMP.1: the thread-local scratch for b, nr elements

vars == <<len, aMis, bMis, pc, res, calls, applied, processed, tmpA, tmpB>>

Idx == 0 .. (len - 1)
Lesser(x, y) == IF x <= y THEN x ELSE y
Greater(x, y) == IF x >= y THEN x ELSE y

(* Mutant: the offset taken as the misalignment itself.                  *)
AlignOffsetMutant(mis) == mis % AlignItems

(* ptr.align_offset(alignment_bytes) for a T-aligned pointer, in elements. *)
AlignOffset(mis) == (AlignItems - mis) % AlignItems

(* a_prefix_len / b_prefix_len: the offset capped at the slice length.     *)
APrefix == Lesser(AlignOffset(aMis), len)
BPrefix == Lesser(AlignOffset(bMis), len)

(* create_incomplete_tile: the length of the unaligned head processed      *)
(* through scratch.                                                         *)
EffectivePrefix(ap, bp) ==
  IF ap = 0 \/ bp = 0 THEN Greater(ap, bp) ELSE Lesser(ap, bp)

(* Element index s of a (of b) is at an aligned address.                   *)
AAligned(s) == (aMis + s) % AlignItems = 0
BAligned(s) == (bMis + s) % AlignItems = 0

(* Mutant: the kernel's range taken one element too far.                  *)
CombineMutant(r, aStart, bStart, n) ==
  [i \in DOMAIN r |->
     IF aStart <= i /\ i <= aStart + n THEN Append(r[i], bStart + (i - aStart))
                                      ELSE r[i]]

(* f applied to a[aStart .. aStart+n-1] and b[bStart .. bStart+n-1].       *)
Combine(r, aStart, bStart, n) ==
  [i \in DOMAIN r |->
     IF aStart <= i /\ i < aStart + n THEN Append(r[i], bStart + (i - aStart))
                                     ELSE r[i]]

(* A scratch element that no copy of this call has written: memory left  *)
(* by an earlier call on the thread, or never initialised.  Its value is   *)
(* not observed, only that it is stale.                                    *)
Stale == -1

Slots == 0 .. (NR - 1)

(* compute_via_temp_buffer: tmp_a[..n] and tmp_b[..n] receive the n       *)
(* elements, f runs over the whole nr-element scratch (the slots past n    *)
(* keep whatever they held), and a receives tmp_a[..n] back.  tmp_a[..n]   *)
(* panics when the sub-slice is longer than the scratch.                   *)
ViaTemp(aStart, bStart, n, next) ==
  IF n > NR
    THEN /\ pc' = "panic"
         /\ UNCHANGED <<res, calls, tmpA, tmpB>>
    ELSE LET inA  == [j \in Slots |-> IF j < n THEN res[aStart + j] ELSE tmpA[j]]
             inB  == [j \in Slots |-> IF j < n THEN bStart + j ELSE tmpB[j]]
             outA == [j \in Slots |-> Append(inA[j], inB[j])]
         IN /\ tmpA' = outA
            /\ tmpB' = inB
            /\ res' = [i \in DOMAIN res |->
                         IF aStart <= i /\ i < aStart + n THEN outA[i - aStart]
                                                          ELSE res[i]]
            /\ calls' = Append(calls, [path |-> "temp", a |-> aStart, b |-> bStart, n |-> n])
            /\ pc' = next

Init ==
  /\ len \in 0 .. MaxLen
  /\ aMis \in 0 .. (AlignItems - 1)
  /\ bMis \in 0 .. (AlignItems - 1)
  /\ pc = "entry"
  /\ res = [i \in 0 .. (len - 1) |-> <<>>]
  /\ calls = <<>>
  /\ applied = 0
  /\ processed = 0
  /\ tmpA = [j \in 0 .. (NR - 1) |-> <<Stale>>]
  /\ tmpB = [j \in 0 .. (NR - 1) |-> Stale]

(* if a.is_empty() { return Ok(()) }                                       *)
EmptyReturn ==
  /\ pc = "entry" /\ len = 0
  /\ pc' = "done"
  /\ UNCHANGED <<len, aMis, bMis, res, calls, applied, processed, tmpA, tmpB>>

(* TMP.with: the scratch buffers are ensured to hold nr elements.          *)
Enter ==
  /\ pc = "entry" /\ len > 0
  /\ pc' = "prefix"
  /\ UNCHANGED <<len, aMis, bMis, res, calls, applied, processed, tmpA, tmpB>>

(* if (a_prefix_len > 0) || (b_prefix_len > 0): the incomplete head tile.  *)
Prefix ==
  /\ pc = "prefix"
  /\ APrefix > 0 \/ BPrefix > 0
  /\ LET eff == EffectivePrefix(APrefix, BPrefix) IN
       /\ applied' = eff
       /\ processed' = processed + eff
       /\ ViaTemp(0, 0, eff, "bulk")
  /\ UNCHANGED <<len, aMis, bMis>>

NoPrefix ==
  /\ pc = "prefix"
  /\ APrefix = 0 /\ BPrefix = 0
  /\ pc' = "bulk"
  /\ UNCHANGED <<len, aMis, bMis, res, calls, applied, processed, tmpA, tmpB>>

(* Mutant: the tile count taken over the whole slice, ignoring the head.  *)
CompleteTilesMutant == len \div NR

(* num_complete_tiles = (a.len() - applied_prefix_len) / nr                *)
CompleteTiles == (len - applied) \div NR

(* The complete tiles are run in place, without a copy.                    *)
Bulk ==
  /\ pc = "bulk"
  /\ CompleteTiles > 0
  /\ LET n == CompleteTiles * NR IN
       /\ res' = Combine(res, applied, applied, n)
       /\ calls' = Append(calls, [path |-> "direct", a |-> applied, b |-> applied, n |-> n])
       /\ processed' = processed + n
  /\ pc' = "tail"
  /\ UNCHANGED <<len, aMis, bMis, applied, tmpA, tmpB>>

NoBulk ==
  /\ pc = "bulk"
  /\ CompleteTiles = 0
  /\ pc' = "tail"
  /\ UNCHANGED <<len, aMis, bMis, res, calls, applied, processed, tmpA, tmpB>>

(* Mutant: the remainder taken from the end of the head, not from the end *)
(* of the complete tiles.                                                  *)
TailTileMutant ==
  /\ pc = "tail"
  /\ applied < len
  /\ ViaTemp(applied, applied, len - applied, "done")
  /\ UNCHANGED <<len, aMis, bMis, applied, processed>>

(* if num_element_processed < a.len(): the remainder through scratch.      *)
TailTile ==
  /\ pc = "tail"
  /\ processed < len
  /\ ViaTemp(processed, processed, len - processed, "done")
  /\ UNCHANGED <<len, aMis, bMis, applied, processed>>

NoTail ==
  /\ pc = "tail"
  /\ processed >= len
  /\ pc' = "done"
  /\ UNCHANGED <<len, aMis, bMis, res, calls, applied, processed, tmpA, tmpB>>

Next ==
  \/ EmptyReturn \/ Enter
  \/ Prefix \/ NoPrefix
  \/ Bulk \/ NoBulk
  \/ TailTile \/ NoTail

Spec == Init /\ [][Next]_vars /\ WF_vars(Next)

-----------------------------------------------------------------------------
(* Properties                                                               *)

TypeOK ==
  /\ len \in 0 .. MaxLen
  /\ aMis \in 0 .. (AlignItems - 1) /\ bMis \in 0 .. (AlignItems - 1)
  /\ pc \in {"entry", "prefix", "bulk", "tail", "done", "panic"}
  /\ res \in [Idx -> Seq(Idx \cup {Stale})]
  /\ applied \in 0 .. len /\ processed \in 0 .. len

(* No scratch sub-slice is longer than the nr-element scratch buffers (the *)
(* copy into tmp_a would panic), and a call goes through scratch at most   *)
(* twice, as the spec of the executor promises.                            *)
ScratchBounded ==
  /\ pc # "panic"
  /\ Cardinality({j \in DOMAIN calls : calls[j].path = "temp"}) <= 2

(* The in-place kernel call covers only complete tiles, starts where the   *)
(* head stopped, and when a and b have the same misalignment it receives   *)
(* two aligned pointers; otherwise at least one of them is aligned.        *)
BulkAlignedWhenCoaligned ==
  \A j \in DOMAIN calls : calls[j].path = "direct" =>
     /\ calls[j].n % NR = 0
     /\ AAligned(calls[j].a) \/ BAligned(calls[j].b)
     /\ aMis = bMis => AAligned(calls[j].a) /\ BAligned(calls[j].b)

(* The spec of the executor: the hot, in-place kernel path never receives *)
(* a misaligned pointer, for a or for b.                                    *)
BulkAlwaysAligned ==
  \A j \in DOMAIN calls : calls[j].path = "direct" =>
     AAligned(calls[j].a) /\ BAligned(calls[j].b)

-----------------------------------------------------------------------------
(* Refinement: a call of the tiled executor implements the abstract       *)
(* executor of UnicastSpec, with the call returned exactly when pc is     *)
(* "done"; the phases that only move pc are stuttering steps of the spec. *)
AbsState == IF pc = "done" THEN "done" ELSE "busy"

Abs == INSTANCE UnicastSpec WITH state <- AbsState

(* Every behaviour of unicast_with_alignment (prefix, in-place bulk and   *)
(* tail, under every pair of base misalignments) is a behaviour of the    *)
(* abstract executor: each kernel run touches only fresh elements, pairs  *)
(* a[i] with b[i], the call returns only when the slice is complete, and  *)
(* it does return.                                                         *)
ImplementsSpec == Abs!Spec
=============================================================================
