--------------------------- MODULE KernelSelection ---------------------------
(***************************************************************************)
(* Matmul kernel and packing selection when an einsum annotated as a      *)
(* matmul is lowered: wire_packing and wire_linear in                      *)
(* src/core/src/ops/einsum/kernel_selection.rs.                            *)
(*                                                                         *)
(* The registry the code queries (tract_linalg::ops(): mmm() and           *)
(* mmm_kits()) is a set of constants: each kernel lists its packings as    *)
(* (A format, B format) pairs, a format being a PackedFormat (of a datum  *)
(* type and tile) or one of the Formats of another kind; a kit names its  *)
(* static packer, accumulator and activation types, whether it is a      *)
(* generic fallback, and its vector and matrix configurations, each a     *)
(* (kernel, packing index) pair.                                           *)
(* One call is modelled: the query is chosen in Init, each branch of the  *)
(* code is an action, and the outcome is recorded with the pack nodes     *)
(* wired into the patch and the implementations handed back.              *)
(***************************************************************************)
EXTENDS Naturals, SequencesExt

CONSTANTS
  Dts,          \* datum types of operands and of operating types
  Kernels,      \* the registered matmul kernels
  Packings,     \* Packings[k]: the (a, b) format pairs of kernel k, in order
  Mmm,          \* tract_linalg::ops().mmm(dt, ..): a kernel, or NoKernel
  NoKernel,     \* the None of that lookup
  FormatDt,     \* FormatDt[f]: the datum type of PackedFormat f
  Formats,      \* packing formats that are not a PackedFormat (block-quantized
                \* weights): the representations of a pre-packed constant
  Kits,         \* tract_linalg::ops().mmm_kits(), in order
  HasFp16,      \* tract_linalg::has_fp16()
  Queries       \* the matmuls the optimizer can hand over

VARIABLES
  q,        \* the query: operating type, A and B types, A's constness, N known
  pc,       \* "start", "simple", "linear", "done"
  outcome,  \* "none", "ok", the error returned, or the panic hit
  wired,    \* the OptMatMulPack nodes wired: operand, packers, mode picker
  impls     \* the (kernel, packing) pairs returned, one per mode

vars == <<q, pc, outcome, wired, impls>>

(* DatumType::unquantized: a quantized integer compares as its plain type. *)
Unquantized(d) == IF d = "QI8" THEN "I8" ELSE IF d = "QU8" THEN "U8" ELSE d

(* The kit accumulator for an operating type.                             *)
Accumulator(dt) ==
  IF dt \in {"I8", "U8", "QI8", "QU8", "I32"} THEN "I32"
  ELSE IF dt = "F16" /\ HasFp16 THEN "F16"
  ELSE "F32"

(* The formats a downcast_ref::<PackedFormat>() accepts.                   *)
Plain == DOMAIN FormatDt

Panics == {"PanicNoKernel", "PanicNotInputValue", "PanicActivation", "PanicPacker"}

Pack(operand, packers, mode) == [operand |-> operand, packers |-> packers, mode |-> mode]

Init ==
  /\ q \in Queries
  /\ pc = "start"
  /\ outcome = "none"
  /\ wired = <<>>
  /\ impls = <<>>

Finish(o) == outcome' = o /\ pc' = "done"

(* if a_fact.konst.is_some() && op.n.as_i64().is_none(): the linear path. *)
ToLinear ==
  /\ pc = "start" /\ q.aKonst # "none" /\ ~q.nKnown
  /\ pc' = "linear"
  /\ UNCHANGED <<q, outcome, wired, impls>>

ToSimple ==
  /\ pc = "start" /\ ~(q.aKonst # "none" /\ ~q.nKnown)
  /\ pc' = "simple"
  /\ UNCHANGED <<q, outcome, wired, impls>>

(* ops().mmm(..).unwrap(): a type without kernel panics.                  *)
SimpleNoKernel ==
  /\ pc = "simple" /\ Mmm[q.opDt] = NoKernel
  /\ Finish("PanicNoKernel")
  /\ UNCHANGED <<q, wired, impls>>

(* The packings of the kernel that are PackedFormats of A's and B's types. *)
MatchingPackings(k) ==
  { ix \in DOMAIN Packings[k] :
      /\ Packings[k][ix].a \in Plain /\ Packings[k][ix].b \in Plain
      /\ FormatDt[Packings[k][ix].a] = Unquantized(q.aDt)
      /\ FormatDt[Packings[k][ix].b] = Unquantized(q.bDt) }

(* .find(..).with_context(..)?: no packing for the operand types.          *)
SimpleNoPacking ==
  /\ pc = "simple" /\ Mmm[q.opDt] # NoKernel
  /\ MatchingPackings(Mmm[q.opDt]) = {}
  /\ Finish("NoPacking")
  /\ UNCHANGED <<q, wired, impls>>

(* Mutant: the packing's position recorded from zero, as enumerate gives *)
(* it, in a one-based table.                                                *)
SimpleWireMutant ==
  /\ pc = "simple" /\ Mmm[q.opDt] # NoKernel
  /\ MatchingPackings(Mmm[q.opDt]) # {}
  /\ LET k == Mmm[q.opDt]  ix == Min(MatchingPackings(k)) IN
       /\ wired' = << Pack("a", <<Packings[k][ix].a>>, "Single"),
                      Pack("b", <<Packings[k][ix].b>>, "Single") >>
       /\ impls' = << [mmm |-> k, packing |-> ix - 1] >>
  /\ Finish("ok")
  /\ UNCHANGED q

(* The first matching packing; pack_a and pack_b wired with one packer     *)
(* each and ModePicker::Single.                                            *)
SimpleWire ==
  /\ pc = "simple" /\ Mmm[q.opDt] # NoKernel
  /\ MatchingPackings(Mmm[q.opDt]) # {}
  /\ LET k == Mmm[q.opDt]  ix == Min(MatchingPackings(k)) IN
       /\ wired' = << Pack("a", <<Packings[k][ix].a>>, "Single"),
                      Pack("b", <<Packings[k][ix].b>>, "Single") >>
       /\ impls' = << [mmm |-> k, packing |-> ix] >>
  /\ Finish("ok")
  /\ UNCHANGED q

(* a.to_scalar::<Opaque>()? fails on a constant that is a plain tensor;    *)
(* .downcast_ref::<Box<dyn MMMInputValue>>().unwrap() panics on an opaque  *)
(* constant of another kind.                                               *)
LinearNotOpaque ==
  /\ pc = "linear" /\ q.aKonst = "plain"
  /\ Finish("NotOpaque")
  /\ UNCHANGED <<q, wired, impls>>

LinearNotInputValue ==
  /\ pc = "linear" /\ q.aKonst = "opaque"
  /\ Finish("PanicNotInputValue")
  /\ UNCHANGED <<q, wired, impls>>

(* match b's datum type { F16, F32, _ => todo!() }.                        *)
LinearNoActivation ==
  /\ pc = "linear" /\ q.aKonst \in Formats
  /\ q.bDt \notin {"F16", "F32"}
  /\ Finish("PanicActivation")
  /\ UNCHANGED <<q, wired, impls>>

(* Mutant: the activation type left out of the kit filter.               *)
MatchingKitsMutant ==
  { i \in DOMAIN Kits :
      /\ Kits[i].packer = q.aKonst
      /\ Kits[i].acc = Accumulator(q.opDt) }

(* The kits whose static packer is the constant's format and whose         *)
(* accumulator and activation types are the query's.                       *)
MatchingKits ==
  { i \in DOMAIN Kits :
      /\ Kits[i].packer = q.aKonst
      /\ Kits[i].acc = Accumulator(q.opDt)
      /\ Kits[i].act = q.bDt }

(* Mutant: the first matching kit, fallback or not.                       *)
ChosenKitMutant == Min(MatchingKits)

(* .min_by_key(|kit| kit.generic_fallback as usize): the first kit with    *)
(* the least key.                                                          *)
ChosenKit ==
  LET key(i) == IF Kits[i].fallback THEN 1 ELSE 0
      least == Min({key(i) : i \in MatchingKits})
  IN Min({i \in MatchingKits : key(i) = least})

(* .with_context(..)?: no kit.                                             *)
LinearNoKit ==
  /\ pc = "linear" /\ q.aKonst \in Formats /\ q.bDt \in {"F16", "F32"}
  /\ MatchingKits = {}
  /\ Finish("NoKit")
  /\ UNCHANGED <<q, wired, impls>>

(* Mutant: the packers listed in the opposite order to the impls.        *)
LinearWireMutant ==
  /\ pc = "linear" /\ q.aKonst \in Formats /\ q.bDt \in {"F16", "F32"}
  /\ MatchingKits # {}
  /\ LET kit == Kits[ChosenKit]
         configs == << kit.mv, kit.sq >>
         packers == [c \in 1 .. 2 |-> Packings[configs[3 - c].mmm][configs[3 - c].packing].b]
     IN
     IF \E c \in 1 .. 2 : packers[c] \notin Plain
       THEN Finish("PanicPacker") /\ UNCHANGED <<wired, impls>>
       ELSE /\ wired' = << Pack("b", packers, "VecVsMat") >>
            /\ impls' = configs
            /\ Finish("ok")
  /\ UNCHANGED q

(* configs = [item_for_mv, item_for_squarish]; each packer is its          *)
(* packing's B format, downcast to PackedFormat and unwrapped; pack_b is   *)
(* wired with both and ModePicker::VecVsMat.                                *)
LinearWire ==
  /\ pc = "linear" /\ q.aKonst \in Formats /\ q.bDt \in {"F16", "F32"}
  /\ MatchingKits # {}
  /\ LET kit == Kits[ChosenKit]
         configs == << kit.mv, kit.sq >>
         packers == [c \in 1 .. 2 |-> Packings[configs[c].mmm][configs[c].packing].b]
     IN
     IF \E c \in 1 .. 2 : packers[c] \notin Plain
       THEN Finish("PanicPacker") /\ UNCHANGED <<wired, impls>>
       ELSE /\ wired' = << Pack("b", packers, "VecVsMat") >>
            /\ impls' = configs
            /\ Finish("ok")
  /\ UNCHANGED q

Next ==
  \/ ToLinear \/ ToSimple
  \/ SimpleNoKernel \/ SimpleNoPacking \/ SimpleWire
  \/ LinearNotOpaque \/ LinearNotInputValue \/ LinearNoActivation \/ LinearNoKit \/ LinearWire

Spec == Init /\ [][Next]_vars /\ WF_vars(Next)

-----------------------------------------------------------------------------
(* Properties                                                               *)

Done == pc = "done"
Ok == Done /\ outcome = "ok"

TypeOK ==
  /\ q \in Queries
  /\ pc \in {"start", "simple", "linear", "done"}
  /\ outcome \in {"none", "ok", "NoPacking", "NotOpaque", "NoKit"} \cup Panics
  /\ \A i \in DOMAIN impls : impls[i].mmm \in Kernels /\ impls[i].packing \in DOMAIN Packings[impls[i].mmm]

(* The mode picker's index selects a packer and a kernel that agree: the   *)
(* i-th packer wired for B is the B format of the i-th returned           *)
(* (kernel, packing), and under Single the A packer is that packing's A.  *)
PackersAgreeWithImpls ==
  Ok =>
    /\ \A w \in Range(wired) : Len(w.packers) = Len(impls)
    /\ \A w \in Range(wired) : \A i \in DOMAIN impls :
         w.packers[i] = Packings[impls[i].mmm][impls[i].packing][w.operand]

(* A selection that succeeds packs each operand in a format of its own     *)
(* type, up to quantization (the Single path compares the unquantized     *)
(* types, the linear path the kit's activation type).                      *)
FormatsMatchOperands ==
  Ok =>
    /\ \A w \in Range(wired) : \A i \in DOMAIN w.packers :
         FormatDt[w.packers[i]] = Unquantized(IF w.operand = "a" THEN q.aDt ELSE q.bDt)

(* Among the kits that fit a pre-packed constant, a specialised one is    *)
(* chosen over a generic fallback whenever one exists.                     *)
KitPreference ==
  Ok /\ q.aKonst \in Formats /\ ~q.nKnown =>
    LET chosen == {i \in MatchingKits : <<Kits[i].mv, Kits[i].sq>> = impls} IN
    (\E i \in MatchingKits : ~Kits[i].fallback) => \E i \in chosen : ~Kits[i].fallback

(* The accumulation policy covers integer operands (they accumulate in   *)
(* I32, and wire_linear computes that accumulator): a pre-packed integer  *)
(* weight with an integer activation gets a kit or NoKitFound, never a    *)
(* panic of the process.                                                    *)
IntegerActivationHandled == outcome # "PanicActivation"
=============================================================================
