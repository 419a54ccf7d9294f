-------------------------- MODULE MCScheduleClaims --------------------------
(***************************************************************************)
(* What the sources claim of the schedules, and one piece of code after     *)
(* another that tries the claims.  refuted holds the claims that one has    *)
(* shown to be false.                                                       *)
(***************************************************************************)
EXTENDS MCSchedules

CONSTANT Trials         \* the payloads, in order

VARIABLES trial,        \* the payload being scheduled
          refuted

tries == <<trial, refuted>>

(* A contraction of a tile padded by rows and one padded by columns; one    *)
(* whose first operand is collapsed from rows of 6 before the second one is *)
(* branched on; an op of a loop without a bound and a loop of 16; a product *)
(* of three loops without one; and the transpose of 16 by 11.               *)
PaddedColumns == [ColumnPad EXCEPT !.of.source.known = FALSE]

BothPadded == Reader("dot", <<RowPad(Source("A", <<5, 8>>, TRUE), FALSE), PaddedColumns>>)

CollapsedFirst ==
  Reader("dot", <<Collapse(SliceIn(Source("A", <<5, 6>>, TRUE), <<"z", "z">>, <<2, 4>>, <<2, 4>>), <<8>>),
                  PaddedColumns>>)

HalfBounded ==
  Op(<<Operand0(<<Dyn, 16>>, <<Dyn, 16>>, <<1, 2>>), Operand0(<<Dyn, 16>>, <<Dyn, 16>>, <<1, 2>>)>>,
     2, FALSE, 32)

Unbounded ==
  LET Runtime(map) == Operand0(<<Dyn, Dyn>>, <<Dyn, Dyn>>, map)
  IN  Op(<<Runtime(<<1, 3>>), Runtime(<<3, 2>>), Runtime(<<1, 2>>)>>, 3, FALSE, 32)

OddTranspose ==
  Op(<<Operand0(<<16, 11>>, <<16, 11>>, <<1, 2>>), Operand0(<<11, 16>>, <<11, 16>>, <<2, 1>>)>>,
     2, TRUE, 16)

MCTrials == <<BothPadded, CollapsedFirst, HalfBounded, Unbounded, OddTranspose>>
FirstTrial == {MCTrials[1]}

(***************************************************************************)
(* version_padded_operands.py:186-188: "every contraction" is branched "on  *)
(* each of its runtime-padded inputs padding nothing", and only edge tiles  *)
(* are padded.                                                              *)
EachReadInPlace ==
  VersionedDot =>
    \A i \in Branchable : InPlaceable(i) => \A env \in payload.envs : ReadInPlace(i, env)

(* pipeline.yaml:46-47: "operands read in place from rows not at cache-line *)
(* multiples" are "copied once per register tile into aligned rows".        *)
EachAligned ==
  Is("reader") /\ Ran("align_operand_rows") /\ Original.op = "dot" =>
    \A v \in DOMAIN code : \A i \in DOMAIN Original.of : AlignedRows(v, i)

(* utils.py:280-281: tile sizes make an op's "loop ranges bounded and its   *)
(* vectors at most MAX_VECTOR_ELEMENTS", so that it becomes a vector ...    *)
TiledBecomeVectors ==
  Is("linalg") /\ Ran("vectorize_linalg") => Len(code.vector) = code.loops

(* ... and one of no more elements.                                         *)
VectorsAtMost ==
  Is("linalg") /\ Ran("vectorize_linalg") => Product(code.vector) <= MaxVectorElements

(* utils.py:308-309: the tiles of a static transpose read and write "runs   *)
(* of at least _VECTOR_BYTES".                                              *)
RunsAtLeast ==
  Is("linalg") /\ Ran("tile_linalg") /\ IsTranspose(payload.code) => RunsOfVectors

Refuted == {claim \in {"each in place", "each aligned", "become vectors", "vectors at most", "runs at least"} :
              ~CASE claim = "each in place" -> EachReadInPlace
                 [] claim = "each aligned" -> EachAligned
                 [] claim = "become vectors" -> TiledBecomeVectors
                 [] claim = "vectors at most" -> VectorsAtMost
                 [] claim = "runs at least" -> RunsAtLeast}

(* The next payload is scheduled.                                           *)
NextTrial ==
  /\ pending = <<>> /\ trial < Len(Trials)
  /\ trial' = trial + 1
  /\ payload' = Trials[trial + 1]
  /\ code' = Trials[trial + 1].code
  /\ pending' = PassesFor(Trials[trial + 1].kind)

TrialsInit == Init /\ trial = 1 /\ refuted = {}

TrialsNext ==
  /\ refuted' = refuted \cup Refuted
  /\ \/ Next /\ UNCHANGED trial
     \/ NextTrial
     \/ pending = <<>> /\ trial = Len(Trials) /\ UNCHANGED <<vars, trial>>

TrialsSpec == TrialsInit /\ [][TrialsNext]_<<vars, tries>>

(* The claims of version_padded_operands.py:186-188, pipeline.yaml:46-47    *)
(* and utils.py:280-281 and :308-309 about where operands are read from and *)
(* what becomes vectors of which length: of these five, one at least holds  *)
(* of all code.                                                             *)
SomeClaimHolds == Cardinality(refuted) < 5
=============================================================================
