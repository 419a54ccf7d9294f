----------------------------- MODULE LinalgTiles -----------------------------
(***************************************************************************)
(* How ops on whole tensors become ops on vectors: the tile sizes chosen    *)
(* for them, the groups they are vectorized in, and the decomposition of a  *)
(* transpose of vectors into ones LLVM lowers to shuffles.                  *)
(*                                                                          *)
(* An op has loops, and operands whose dimensions each range over a loop    *)
(* (0: over something else); a bound of Dyn is not evident.                 *)
(***************************************************************************)
EXTENDS OperandTiles

CONSTANTS TileSize,         \* _TILE
          VectorBits,       \* _VECTOR_BYTES, in bits
          TransposeBlock,   \* _TRANSPOSE_BLOCK
          MaxLoops          \* MAX_LOOPS

(* Constant upper bounds of the ranges of the loops. *)
LoopBounds(op) ==
  [l \in 1 .. op.loops |->
     LET known == UNION {{op.operands[o].bound[p] : p \in {q \in DOMAIN op.operands[o].map :
                                                            op.operands[o].map[q] = l}} :
                         o \in DOMAIN op.operands} \ {Dyn}
     IN  IF known = {} THEN Dyn ELSE Min(known)]

HasStaticShape(op) == \A o \in DOMAIN op.operands : IsStatic(op.operands[o].type)

IsTranspose(op) == op.moves /\ HasStaticShape(op) /\ op.operands[1].map # op.operands[2].map

LargestDivisorAtMost(extent, limit) ==
  Max({d \in 1 .. Min({extent, limit}) : extent % d = 0})

(* The inner dims of one side, as far as a vector's run of elements needs. *)
RunTiles(map, bounds, run) ==
  LET need[p \in 0 .. Len(map)] ==      \* what is left to reach past dim p
        IF p = Len(map) THEN run
        ELSE LET inner == need[p + 1]
             IN  IF inner <= 1 THEN 1
                 ELSE (inner + LargestDivisorAtMost(bounds[map[p + 1]], inner) - 1)
                        \div LargestDivisorAtMost(bounds[map[p + 1]], inner)
  IN  [l \in DOMAIN map |->
         LET p == CHOOSE q \in DOMAIN map : map[q] = l
         IN  IF need[p] <= 1 THEN 1 ELSE LargestDivisorAtMost(bounds[l], need[p])]

(* Mutant of TransposeTiles: only the result's rows are looked at. *)
ResultTiles(op) ==
  RunTiles(op.operands[2].map, LoopBounds(op), Max({1, VectorBits \div op.bits}))

TransposeTiles(op) ==
  LET run == Max({1, VectorBits \div op.bits})
      Side(o) == RunTiles(op.operands[o].map, LoopBounds(op), run)
  IN  [l \in 1 .. op.loops |-> Max({Side(1)[l], Side(2)[l]})]

(* The tile size of a pack's outer loop: outer_transpose_tile. *)
OuterTransposeTile(op) == TransposeTiles(op)[1]

TooLarge(bounds) == IsStatic(bounds) /\ Product(bounds) > MaxVectorElements

(* A runtime op's vectors have whole tiles. *)
WholeTiles(op, bound) == HasStaticShape(op) \/ bound % TileSize = 0

(* 0 for a loop that is left untiled. *)
LinalgTileSizes(op) ==
  LET bounds == LoopBounds(op)
      Tiled(l) == \/ bounds[l] = Dyn
                  \/ /\ bounds[l] > TileSize
                     /\ TooLarge(bounds) \/ ~WholeTiles(op, bounds[l])
  IN  IF IsTranspose(op)
      THEN [l \in DOMAIN bounds |->
              IF bounds[l] > TransposeTiles(op)[l] THEN TransposeTiles(op)[l] ELSE 0]
      ELSE [l \in DOMAIN bounds |-> IF Tiled(l) THEN TileSize ELSE 0]

NeedsTiling(op) == \E l \in 1 .. op.loops : LinalgTileSizes(op)[l] # 0

(* partition_linalg *)
GroupOf(op) ==
  CASE op.loops = 0       -> "none"
    [] NeedsTiling(op)    -> "tile"
    [] HasStaticShape(op) -> "static"
    [] op.loops \in 1 .. MaxLoops -> "masked"
    [] OTHER -> "none"

(* Tiling an op by these sizes: a tile that does not divide its range is    *)
(* shorter at the end, so its size is only known to be at most the tile's.  *)
TileOp(op, sizes) ==
  LET Size(operand, p) == IF operand.map[p] = 0 THEN 0 ELSE sizes[operand.map[p]]
      Tile1(operand) ==
        [operand EXCEPT
           !.type  = [p \in DOMAIN @ |-> LET s == Size(operand, p)
                                         IN  IF s = 0 THEN @[p]
                                             ELSE IF @[p] # Dyn /\ @[p] % s = 0 THEN s ELSE Dyn],
           !.bound = [p \in DOMAIN @ |-> IF Size(operand, p) = 0 THEN @[p] ELSE Size(operand, p)]]
  IN  [op EXCEPT !.operands = [o \in DOMAIN @ |-> Tile1(@[o])]]

TileLinalg(op) == IF GroupOf(op) = "tile" THEN TileOp(op, LinalgTileSizes(op)) ELSE op

(* The vector an op becomes: <<>> for one that is left to loops. *)
VectorShape(op) ==
  IF GroupOf(op) \in {"static", "masked"} /\ IsStatic(LoopBounds(op)) THEN LoopBounds(op) ELSE <<>>

(***************************************************************************)
(* widen_transposes: a vector is its elements in row-major order; one of    *)
(* wider elements holds sequences of narrower ones.                         *)
(***************************************************************************)
Chunks(s, n) == [c \in 1 .. Len(s) \div n |-> SubSeq(s, (c - 1) * n + 1, c * n)]

Wider(v, shape, n) == [shape |-> shape, data |-> Chunks(v.data, n)]
Narrower(v, shape) == [shape |-> shape, data |-> FlattenSeq(v.data)]

PowersOfTwo == {1, 2, 4, 8, 16, 32, 64}

(* Where a run of source dims, kept adjacent and in order, starts. *)
GroupStarts(order) == SetToSortSeq({i \in DOMAIN order : i = 1 \/ order[i] # order[i - 1] + 1},
                                   LAMBDA x, y : x < y)

(* Inner dims kept in place that fit one wider integer. *)
KeptDims(shape, order, bits) ==
  LET rank == Len(shape)
      Inner(kept) == Product(SubSeq(shape, rank - kept + 1, rank))
      fits(kept) == \A x \in 1 .. kept : /\ order[rank - x + 1] = rank - x + 1
                                         /\ Inner(x) * bits <= 64
  IN  Max({kept \in 0 .. Max({0, rank - 2}) : fits(kept)})

Rows2(shape) == Len(shape) = 2 /\ shape[1] > 2 /\ shape[1] % 2 = 0

(* Every two rows as one of pairs: a two-row shuffle each. *)
RowPairs(v) ==
  LET cols == v.shape[2]
  IN  [shape |-> <<v.shape[1] \div 2, cols>>,
       data |-> [o \in 1 .. (v.shape[1] \div 2) * cols |->
                   LET row == (o - 1) \div cols  col == (o - 1) % cols
                   IN  <<At(v, <<2 * row, col>>), At(v, <<2 * row + 1, col>>)>>]]

Part(v, row, rowSize, col, colSize) ==
  Build(<<rowSize, colSize>>, LAMBDA p : At(v, <<row + p[1], col + p[2]>>))

Blocked(v, B) == /\ Len(v.shape) = 2 /\ v.shape # <<B, B>>
                 /\ v.shape[1] % B = 0 /\ v.shape[2] % B = 0

(* The block read at row, col is inserted at col, row. *)
FromBlocks(v, B, Block(_, _)) ==
  Build(<<v.shape[2], v.shape[1]>>,
        LAMBDA p : At(Block(p[2] \div B, p[1] \div B), <<p[1] % B, p[2] % B>>))

(* The transposes that are left, each with the width of its elements. *)
Kept(v, order, bits) == [value |-> Permute(v, order), left |-> {[shape |-> v.shape, bits |-> bits]}]

(* A transpose of vectors, decomposed until no rewrite applies. *)
RECURSIVE Transposed(_, _, _)
Transposed(v, order, bits) ==
  LET rank   == Len(v.shape)
      shape  == v.shape
      result == [d \in DOMAIN order |-> shape[order[d]]]
      starts == GroupStarts(order)
      ends   == [g \in DOMAIN starts |-> IF g = Len(starts) THEN rank ELSE starts[g + 1] - 1]
      Size(g) == Product(SubSeq(result, starts[g], ends[g]))
      bySource == SortSeq([g \in DOMAIN starts |-> g],
                          LAMBDA g, h : order[starts[g]] < order[starts[h]])
      kept   == KeptDims(shape, order, bits)
      packed == Product(SubSeq(shape, rank - kept + 1, rank))
      Merged == Transposed(View(v, [i \in DOMAIN bySource |-> Size(bySource[i])]),
                           [g \in DOMAIN starts |-> CHOOSE i \in DOMAIN bySource : bySource[i] = g],
                           bits)
      Pieces  == [i \in 1 .. shape[1] |->
                   Transposed([shape |-> Tail(shape),
                               data |-> Chunks(v.data, Product(Tail(shape)))[i]],
                              [d \in 1 .. rank - 1 |-> order[d + 1] - 1], bits)]
      Wide   == Transposed(Wider(v, SubSeq(shape, 1, rank - kept), packed),
                           SubSeq(order, 1, rank - kept), packed * bits)
      Pairs  == Transposed(RowPairs(v), <<2, 1>>, 2 * bits)
      Block(row, col) == Part(v, row * TransposeBlock, TransposeBlock,
                              col * TransposeBlock, TransposeBlock)
  IN  CASE order = [d \in 1 .. rank |-> d] -> [value |-> v, left |-> {}]
        [] Len(starts) < rank -> [Merged EXCEPT !.value = View(@, result)]
        [] rank > 2 /\ order[1] = 1 /\ shape[1] > 1 ->
             [value |-> [shape |-> result,
                         data |-> FlattenSeq([i \in DOMAIN Pieces |-> Pieces[i].value.data])],
              left |-> UNION {Pieces[i].left : i \in DOMAIN Pieces}]
        [] packed > 1 /\ packed * bits \in PowersOfTwo -> [Wide EXCEPT !.value = Narrower(@, result)]
        [] Rows2(shape) /\ bits < 32 -> [Pairs EXCEPT !.value = Narrower(@, result)]
        [] bits >= 32 /\ Blocked(v, TransposeBlock) ->
             [value |-> FromBlocks(v, TransposeBlock,
                                   LAMBDA row, col : Permute(Block(row, col), <<2, 1>>)),
              left |-> {[shape |-> <<TransposeBlock, TransposeBlock>>, bits |-> bits]}]
        [] OTHER -> Kept(v, order, bits)
=============================================================================
