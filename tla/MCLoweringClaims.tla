-------------------------- MODULE MCLoweringClaims --------------------------
(***************************************************************************)
(* What the sources claim of the lowering of contractions, and one kernel   *)
(* after another that tries the claims.  refuted holds the claims that a    *)
(* kernel has shown to be false.                                            *)
(***************************************************************************)
EXTENDS MCGraphLowering

CONSTANT Trials         \* the kernels, in order

VARIABLES trial,        \* the kernel being lowered
          refuted

tries == <<trial, refuted>>

(* Equation "mk,kn->mn" where k of one operand is static and of the other   *)
(* only known at run time; the accumulator of hl.dot has another type.      *)
HalfKnownEinsum ==
  Einsum(<<<<Sym("m"), Sym("k")>>, <<Static(3), Static(2)>>>>, <<"bf16", "bf16">>, Matmul(2),
         <<Sym("m"), Static(2)>>, Unknown)

IntoNarrower == Around(FALSE, FALSE, "dot acc", "f32", "bf16", S(<<2, 2>>), "none")

MCTrials == <<IntoTranspose, IntoNarrower, ScalarPlusProduct, HalfKnownEinsum>>
FirstTrial == {MCTrials[1]}

(***************************************************************************)
(* contractions.py:15-16: a folded transpose is "absorbed when that was its *)
(* only use".                                                               *)
AbsorbedIsNotRead == phase # "missing"

(* contractions.py:4-6: accumulator shape and dtype "are checked at         *)
(* emission, which falls back when they do not hold".                       *)
AccumulatorsFallBack ==
  phase = "refused" /\ AddedTo(node) # None => ~Unfit(AddedTo(node), node)

(* contraction_ops.py:70: an add is "one contraction into acc when types    *)
(* allow", and else a contraction and an add.                               *)
AddsAccumulate == graph[node].op = "add" => phase # "raised"

(* trace_mode.py:3-7: an einsum "expressible as linalg.contract" is         *)
(* captured, and "other equations keep PyTorch's decomposition".            *)
CapturedIsContractible == graph[node].op = "einsum" => phase # "refused"

Refuted == {claim \in {"absorbed", "falls back", "accumulates", "contractible"} :
              ~CASE claim = "absorbed" -> AbsorbedIsNotRead
                 [] claim = "falls back" -> AccumulatorsFallBack
                 [] claim = "accumulates" -> AddsAccumulate
                 [] claim = "contractible" -> CapturedIsContractible}

Over == phase \in {"done", "missing", "refused", "raised"}

(* The next kernel is lowered, from its trace on.                           *)
NextTrial ==
  /\ Over /\ trial < Len(Trials)
  /\ trial' = trial + 1
  /\ LET k == Trials[trial + 1]
     IN  /\ kernel' = k /\ graph' = k.graph /\ phase' = "trace" /\ node' = 1
         /\ plan' = [roots |-> {}, absorbed |-> {}] /\ yields' = <<>>
         /\ body' = Append(Arguments(k), Op("literal", <<>>, "f32", <<>>, 0))
         /\ valueOf' = ArgumentOf(k)

TrialsInit == Init /\ trial = 1 /\ refuted = {}

TrialsNext ==
  /\ refuted' = refuted \cup Refuted
  /\ \/ Next /\ UNCHANGED trial
     \/ NextTrial
     \/ Over /\ trial = Len(Trials) /\ UNCHANGED <<vars, trial>>

TrialsSpec == TrialsInit /\ [][TrialsNext]_<<vars, tries>>

(* The claims of contractions.py:4-6 and :15-16, of contraction_ops.py:70   *)
(* and of trace_mode.py:3-7 about the lowering of contractions: of these    *)
(* four, one at least holds of every kernel.                                *)
SomeClaimHolds == Cardinality(refuted) < 4
=============================================================================
