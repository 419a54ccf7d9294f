------------------------------ MODULE Schedules ------------------------------
(***************************************************************************)
(* The opt pipeline's schedules, run in the order of pipeline.yaml on what  *)
(* a kernel may hold: the reader of some operands, a transfer of vectors, a *)
(* masked contraction, an op on tensors, a transpose of vectors, a block of *)
(* AMX ops or a stack buffer.  Passes only see the code; what it does is    *)
(* asked for every run-time environment.                                    *)
(***************************************************************************)
EXTENDS OperandPasses, LinalgTiles, VectorTransfers, AmxLoads

CONSTANTS Payloads      \* what there is to schedule: [kind, code, envs, ...]

VARIABLES payload,      \* the code as it was, and the environments it runs in
          code,         \* the code as the passes left it
          pending       \* the passes still to run

vars == <<payload, code, pending>>

Pipeline ==
  <<"materialize_operand_pads{packed_only}", "version_padded_operands",
    "materialize_operand_pads", "align_operand_rows", "materialize_copies", "vectorize_pads",
    "tile_linalg", "vectorize_linalg", "unmask_contractions", "lower_transposes",
    "split_transfers", "amx_move_offsets", "schedule_amx_loads", "legalize_for_llvm",
    "hoist_allocas">>

Concerned(kind) ==
  CASE kind = "reader" ->
         {"materialize_operand_pads{packed_only}", "version_padded_operands",
          "materialize_operand_pads", "align_operand_rows", "materialize_copies",
          "vectorize_pads"}
    [] kind = "linalg" -> {"tile_linalg", "vectorize_linalg"}
    [] kind = "contraction" -> {"unmask_contractions"}
    [] kind = "transpose" -> {"lower_transposes"}
    [] kind = "transfer" -> {"split_transfers", "amx_move_offsets", "legalize_for_llvm"}
    [] kind = "amx" -> {"schedule_amx_loads"}
    [] kind = "buffer" -> {"hoist_allocas"}

PassesFor(kind) == SelectSeq(Pipeline, LAMBDA pass : pass \in Concerned(kind))

Init ==
  /\ payload \in Payloads
  /\ code = payload.code
  /\ pending = PassesFor(payload.kind)

Runs(pass) ==
  /\ pending # <<>>
  /\ Head(pending) = pass
  /\ pending' = Tail(pending)
  /\ UNCHANGED payload

MaterializePacked == /\ Runs("materialize_operand_pads{packed_only}")
                     /\ code' = MaterializePads(code, TRUE)

Materialize == /\ Runs("materialize_operand_pads")
               /\ code' = MaterializePads(code, FALSE)

VersionPadded == /\ Runs("version_padded_operands")
                 /\ code' = VersionOperands(code)

Align == /\ Runs("align_operand_rows")
         /\ code' = AlignRows(code)

Copies == /\ Runs("materialize_copies")
          /\ code' = MaterializeCopies(code)

Pads == /\ Runs("vectorize_pads")
        /\ code' = VectorizePads(code)

(***************************************************************************)
(* Ops on tensors, vectors and memory.                                      *)
(***************************************************************************)
TileUnbounded == Runs("tile_linalg") /\ code' = TileLinalg(code)

Vectorize == /\ Runs("vectorize_linalg")
             /\ code' = [code EXCEPT !.vector = VectorShape(code)]

UnmaskContractions == Runs("unmask_contractions") /\ code' = Unmask(code)

LowerTransposes ==
  /\ Runs("lower_transposes")
  /\ code' = Transposed(payload.code.value, payload.code.order, payload.code.bits)

SplitTransfers == Runs("split_transfers") /\ code' = Split(code.inside)

AmxMoveOffsets == Runs("amx_move_offsets") /\ code' = EachVersion(code, MoveOffsets)

LegalizeForLLVM == Runs("legalize_for_llvm") /\ code' = EachVersion(code, Legalize)

Amx == Runs("schedule_amx_loads") /\ code' = ScheduleAmxLoads(code)

Hoist == Runs("hoist_allocas") /\ code' = HoistAlloca(code)

Next ==
  \/ MaterializePacked \/ Materialize \/ VersionPadded \/ Align \/ Copies \/ Pads
  \/ TileUnbounded \/ Vectorize \/ UnmaskContractions \/ LowerTransposes
  \/ SplitTransfers \/ AmxMoveOffsets \/ LegalizeForLLVM \/ Amx \/ Hoist

Ended == pending = <<>> /\ UNCHANGED vars

Spec == Init /\ [][Next \/ Ended]_vars

-----------------------------------------------------------------------------
Ran(pass) == pass \in Concerned(payload.kind) /\ pass \notin Range(pending)

Is(kind) == payload.kind = kind

(* The version of a reader that runs in an environment. *)
Executed(env) ==
  LET runs == {v \in DOMAIN code : \A n \in DOMAIN code[v].when :
                                     Holds(code[v].when[n][1], env) = code[v].when[n][2]}
  IN  code[CHOOSE v \in runs : TRUE].reader

Original == payload.code[1].reader

(* Wherever a tile starts, every contraction, elementwise op and insertion  *)
(* reads the very elements, padding included, the kernel said it reads:     *)
(* guards folded away, casts of unpadded sources, rows filled and dims      *)
(* marked in bounds never let memory past a tensor through                  *)
(* (version_padded_operands, materialize_operand_pads, align_operand_rows,  *)
(* materialize_copies, vectorize_pads).                                     *)
OperandsKept ==
  Is("reader") =>
    \A env \in payload.envs : \A i \in DOMAIN Original.of :
      LET now == Value(Executed(env).of[i], env)
          was == Value(Original.of[i], env)
      IN  /\ now.data = was.data
          /\ IF Original.op = "insert" THEN NotOne(now.shape) = NotOne(was.shape)
             ELSE now.shape = was.shape

RECURSIVE Path(_)
Path(e) ==   \* the ops an operand is read through
  {e.op} \cup IF e.op \in {"slice", "generate", "filled"} THEN {}
              ELSE IF e.op = "guard" THEN Path(e.of[1]) \cup Path(e.of[2])
              ELSE Path(e.of)

InPlace(e) == Path(e) \subseteq {"slice", "cast"} \cup Reshapes

(* The pad operand i is read from, when it is not all padding. *)
PadOf(i) == LET value == Beneath(Original.of[i])
            IN  IF value.op = "guard" THEN value.of[2] ELSE value

InPlaceable(i) ==
  LET value == Beneath(Original.of[i])
  IN  value.op \in {"pad", "guard"} /\ ~value.shared /\ VersionablePad(PadOf(i))

ReadInPlace(i, env) ==
  LET value == Beneath(Original.of[i])
  IN  /\ value.op = "guard" => ~Holds(value.test, env)
      /\ PadsNothing(PadOf(i), Value(PadOf(i).of, env))
      => InPlace(Executed(env).of[i])

(* The operands a contraction could be branched on.                         *)
Branchable == {i \in DOMAIN Original.of : SinkableBranch(Beneath(Original.of[i]))
                                          \/ VersionablePad(Beneath(Original.of[i]))}

VersionedDot == Is("reader") /\ Ran("version_padded_operands") /\ Original.op = "dot"

(* A tile that pads nothing reads the operand a contraction is branched on  *)
(* first where it is: only edge tiles copy it.  The others it reads there   *)
(* no longer, once the first is branched on (version_padded_operands).      *)
TilesReadInPlace ==
  VersionedDot /\ Branchable # {} /\ InPlaceable(Min(Branchable)) =>
    \A env \in payload.envs : ReadInPlace(Min(Branchable), env)

RECURSIVE OwnPad(_)
OwnPad(e) ==   \* whether e reads a pad that nothing else reads
  CASE e.op = "pad" -> ~e.shared
    [] e.op = "guard" -> ~e.shared /\ (OwnPad(e.of[1]) \/ OwnPad(e.of[2]))
    [] e.op \in {"slice", "generate", "filled"} -> FALSE
    [] OTHER -> OwnPad(e.of)

(* After materialize_operand_pads no version of a contraction reads a pad   *)
(* that others do not read too: AMX loads tiles from memory.                *)
OperandsInMemory ==
  Is("reader") /\ Ran("materialize_operand_pads") /\ Original.op = "dot" =>
    \A v \in DOMAIN code : \A i \in DOMAIN Original.of : ~OwnPad(code[v].reader.of[i])

(* Where the elements of a slice are in its tensor. *)
Addresses(slice, env) ==
  LET size == [d \in DOMAIN slice.type |-> SliceSize(slice, d, env)]
      strides == Strides(slice.source.shape)
      At0(p) == FoldLeft(LAMBDA x, d : x + (env[slice.axes[d]] + p[d]) * strides[d], 0,
                         [d \in DOMAIN p |-> d])
  IN  {At0(p) : p \in {q \in [DOMAIN size -> 0 .. Max(Range(size) \cup {0})] :
                         \A d \in DOMAIN size : q[d] < size[d]}}

RECURSIVE SliceOf(_)
SliceOf(e) == IF e.op = "slice" THEN e ELSE SliceOf(e.of)

(* The rows that version v reads operand i from in place start whole cache  *)
(* lines apart.                                                             *)
AlignedRows(v, i) ==
  LET e == code[v].reader.of[i]
  IN  InPlace(e) /\ SliceOf(e).source.known =>
        \A env \in payload.envs :
          LET all == Addresses(SliceOf(e), env)
              starts == {a \in all : a - 1 \notin all}
          IN  Executed(env) = code[v].reader => \A a, b \in starts : (a - b) % Line = 0

(* After align_operand_rows the rows of an operand that is read in place    *)
(* start whole cache lines apart, unless it is collapsed before several     *)
(* versions of the contraction read it, or its tensor's rows are not known. *)
RowsAligned ==
  Is("reader") /\ Ran("align_operand_rows") /\ Original.op = "dot" =>
    \A v \in DOMAIN code : \A i \in DOMAIN Original.of :
      ~(i \in code[v].reader.outer /\ "collapse" \in Path(code[v].reader.of[i])) => AlignedRows(v, i)

(* A loop without an evident bound hides that the others are too large.     *)
HidesSize(op) ==
  LET bounds == LoopBounds(op)
      tiled  == [l \in DOMAIN bounds |-> IF bounds[l] = Dyn THEN TileSize ELSE bounds[l]]
  IN  ~IsStatic(bounds) /\ TooLarge(tiled) /\ \E l \in DOMAIN tiled : tiled[l] > TileSize

(* Every op with loops ends as one of vectors whose sizes are known, whole  *)
(* tiles where the op has runtime sizes, and no longer than MaxVector-      *)
(* Elements unless no side is longer than a tile or the op is a transpose,  *)
(* whose tiles are as small as its runs allow: partition_linalg, tile_sizes *)
(* and loop_bounds agree after one round of tiling, unless the op hides how *)
(* large it is.                                                             *)
OpsBecomeVectors ==
  /\ Is("linalg") /\ Ran("vectorize_linalg") /\ code.loops \in 1 .. MaxLoops
  /\ ~HidesSize(payload.code)
  => /\ Len(code.vector) = code.loops
     /\ \/ Product(code.vector) <= MaxVectorElements
        \/ IsTranspose(payload.code)
        \/ \A l \in DOMAIN code.vector : code.vector[l] <= TileSize
     /\ ~HasStaticShape(code) =>
          \A l \in DOMAIN code.vector :
            code.vector[l] <= TileSize \/ code.vector[l] % TileSize = 0

(* The elements of one side of a tile that lie next to each other in the    *)
(* whole tensor.                                                            *)
Run(o) ==
  LET map  == payload.code.operands[o].map
      full == payload.code.operands[o].type
      tile == code.operands[o].type
      last == Max({1} \cup {p \in DOMAIN map : tile[p] # full[p]})
  IN  Product(SubSeq(tile, last, Len(tile)))

VectorRun == VectorBits \div code.bits

RunsOfVectors ==
  \A o \in 1 .. 2 : Run(o) >= Min({VectorRun, Product(payload.code.operands[o].type)})

(* Extents that are whole vectors or a whole part of one.                   *)
EvenExtents ==
  \A n \in Range(payload.code.operands[1].type) : n % VectorRun = 0 \/ VectorRun % n = 0

(* A tile of a transpose has a known size whatever its extents are, and     *)
(* reads and writes whole vectors, or all there is, unless an extent does   *)
(* not fit: a tile takes a divisor of each extent (transpose_tiles).        *)
TransposeRuns ==
  Is("linalg") /\ Ran("tile_linalg") /\ IsTranspose(payload.code) =>
    HasStaticShape(code) /\ (EvenExtents => RunsOfVectors)

(* Of a contraction under a mask, the sums that are kept add up the same    *)
(* products once it has none: nothing of what masked lanes hold, not even   *)
(* times zero (unmask_contractions).                                        *)
MaskedSumsKept ==
  Is("contraction") =>
    \A loops \in payload.loops :
      Within(code, loops, code.result) => Adds(code, loops) = Adds(payload.code, loops)

(* A transpose moves every element to the same place however it is cut into *)
(* smaller and wider ones (widen_transposes).                               *)
TransposesKept ==
  Is("transpose") /\ pending = <<>> =>
    code.value = Permute(payload.code.value, payload.code.order)

(* VNNI packs and narrow transposes of an even number of rows are left with *)
(* 2-D transposes of elements of at least 32 bits.                          *)
WideTransposes ==
  Is("transpose") /\ pending = <<>> /\ payload.widens =>
    \A t \in code.left : Len(t.shape) = 2 /\ t.bits >= 32

(* Whatever version runs, and wherever the transfer starts, each lane reads *)
(* or writes the same element or none at all, and none moves one outside    *)
(* the memory; what LLVM gets are no vectors of i1 (split_transfers,        *)
(* move_offsets_to_subview, legalize_for_llvm).                             *)
TransfersKept ==
  Is("transfer") =>
    \A env \in payload.envs :
      LET t == Version(code, env)
      IN  /\ Moves(t, env) = Moves(payload.code.inside, env)
          /\ pending = <<>> /\ t.bool /\ t.minorIdentity => t.scalars

(* Reads of one operand that only differ in a constant start at the same    *)
(* subviews, which the AMX rewrite needs (move_offsets_to_subview).         *)
TilesShareSubviews ==
  Is("transfer") /\ Ran("amx_move_offsets") /\ ~Ran("legalize_for_llvm") =>
    \A d \in DOMAIN payload.code.inside.indices :
      LET t == payload.code.inside
          further == [t EXCEPT !.indices[d].plus = @ + 1, !.indices[d].applied = @ \/ t.indices[d].terms # <<>>]
      IN  code.checks = {} /\ t.indices[d].plus >= 0 =>
            MoveOffsets(further).subviews = code.inside.subviews

(* The dot-products and stores of a block get the values they got before    *)
(* the loads moved (schedule_amx_loads).                                    *)
BlocksKept == Is("amx") => Results(code) = Results(payload.code)

(* The tiles live between two ops of a block. *)
LiveAfter(block, i) ==
  {v \in UNION {Range(block[j].reads) : j \in i + 1 .. Len(block)} :
     IsTile(block, v) /\ (Defined(block, v) => PositionIn(block, v) <= i)}

(* Moving loads never makes a block need more tile registers than there are. *)
RegistersFit ==
  Is("amx") /\ code # payload.code =>
    \A i \in 0 .. Len(code) : Cardinality(LiveAfter(code, i)) <= TileRegisters

(* A static stack buffer ends in no loop of its scope; one that was in a    *)
(* loop stays within all that is around the outermost one, so that the      *)
(* stack of exclusive branches does not add up (hoist_allocas).             *)
BuffersOutOfLoops ==
  Is("buffer") /\ pending = <<>> =>
    LET was   == payload.code
        scope == Min({i \in DOMAIN was : was[i] \in Scopes})
        loops == {i \in 1 .. scope : was[i] \in LoopOps}
        kept  == Len(was) - scope    \* from the scope outwards
    IN  /\ IsSuffix(code, was) /\ Len(code) > kept
        /\ \A i \in 1 .. Len(code) - kept : code[i] \notin LoopOps
        /\ loops # {} => Len(code) = Len(was) - Max(loops)

(* Operands are where their readers need them: in place when nothing is     *)
(* padded, in memory for AMX, their rows aligned, tiles of one at the same  *)
(* subview.                                                                 *)
OperandsPlaced == TilesReadInPlace /\ OperandsInMemory /\ RowsAligned /\ TilesShareSubviews

(* What is vectorized has vectors that LLVM can keep in registers.          *)
VectorsFit == OpsBecomeVectors /\ TransposeRuns /\ WideTransposes

(* Every schedule of vectors leaves what they compute and move.             *)
VectorsKept == MaskedSumsKept /\ TransposesKept /\ TransfersKept /\ BlocksKept

(* Tile registers and the stack are not used beyond what there is of them.  *)
StorageFits == RegistersFit /\ BuffersOutOfLoops
=============================================================================
