------------------------------ MODULE CpuMatmul ------------------------------
(***************************************************************************)
(* The kernels of helion_mlir_cpu_utils: operands packed and padded into    *)
(* blocks or panels, contracted tile by tile in K chunks, an affine         *)
(* epilogue, and the result cut out of the padded one.  An accumulator is   *)
(* the list of the products added to it, so a result shows which elements   *)
(* of A and B it was made of.                                               *)
(***************************************************************************)
EXTENDS Tensors, BlockChoice

One == <<1>>
NoTensor == [shape |-> <<>>, data |-> <<>>]

Reshape2(t, rows, cols) == View(t, <<rows, cols>>)

Pad2(x, rows, cols) == Tile(x, <<0, 0>>, <<rows, cols>>)

(***************************************************************************)
(* Packing.  PackBlocks cuts a matrix, given row-major or transposed, into  *)
(* square blocks [row block, column block, row, column]; PackB puts B's     *)
(* blocks in column-major order.                                            *)
(***************************************************************************)
PackBlocks(x, transposed) ==
  LET rows == IF transposed THEN x.shape[2] ELSE x.shape[1]
      cols == IF transposed THEN x.shape[1] ELSE x.shape[2]
      Block2(r, c) ==
        IF transposed THEN Permute(Tile(x, <<c, r>>, <<Block, Block>>), <<2, 1>>)
        ELSE Tile(x, <<r, c>>, <<Block, Block>>)
  IN  Build(<<CeilDiv(rows, Block), CeilDiv(cols, Block), Block, Block>>,
            LAMBDA p : At(Block2(p[1] * Block, p[2] * Block), <<p[3], p[4]>>))

PackA(a, transA) == PackBlocks(a, transA)
PackB(b, transB) == Permute(PackBlocks(b, transB), <<2, 1, 3, 4>>)

(* [N, K] into column panels of K pairs [N/P, K/2, P, 2], N and K padded.    *)
PackPanels(bT, panel) ==
  LET n == RoundUp(bT.shape[1], panel)
      k == RoundUp(bT.shape[2], Block)
      pairs == View(Pad2(bT, n, k), <<n, k \div 2, 2>>)
  IN  Build(<<n \div panel, k \div 2, panel, 2>>,
            LAMBDA p : At(pairs, <<p[1] * panel + p[3], p[2], p[4]>>))

(***************************************************************************)
(* The product of one tile and K chunk, both operands viewed as K pairs.    *)
(***************************************************************************)
ChunkDot(a, b, row, col, ks, plan, transA, transB) ==
  LET half == ks[2] \div 2
      a3 == IF transA
            THEN Permute(View(Tile(a, <<ks[1], row>>, <<ks[2], plan.rows>>),
                              <<half, 2, plan.rows>>), <<3, 1, 2>>)
            ELSE View(Tile(a, <<row, ks[1]>>, <<plan.rows, ks[2]>>), <<plan.rows, half, 2>>)
      b3 == IF transB
            THEN Permute(View(Tile(b, <<col, ks[1]>>, <<plan.cols, ks[2]>>),
                              <<plan.cols, half, 2>>), <<2, 1, 3>>)
            ELSE Permute(View(Tile(b, <<ks[1], col>>, <<ks[2], plan.cols>>),
                              <<half, 2, plan.cols>>), <<1, 3, 2>>)
  IN  Build(<<plan.rows, plan.cols>>, LAMBDA p :
        Dot(ks[2], LAMBDA o : At(a3, <<p[1], o \div 2, o % 2>>),
                   LAMBDA o : At(b3, <<o \div 2, p[2], o % 2>>)))

PanelDot(a3, b4, row, p, ks, plan) ==
  LET aTile == Tile(a3, <<row, ks[1], 0>>, <<plan.rows, ks[2], 2>>)
      bTile == Tile(b4, <<p, ks[1], 0, 0>>, <<1, ks[2], b4.shape[3], 2>>)
  IN  Build(<<plan.rows, b4.shape[3]>>, LAMBDA q :
        Dot(2 * ks[2], LAMBDA o : At(aTile, <<q[1], o \div 2, o % 2>>),
                       LAMBDA o : At(bTile, <<0, o \div 2, q[2], o % 2>>)))

(* The accumulator after the K loops, then bias, scale, shift and epilogue. *)
Element(dots, bias, scale, shift, epilogue) ==
  [dot |-> FlattenSeq(dots), bias |-> bias, scale |-> scale, shift |-> shift,
   epilogue |-> epilogue]

VectorAt(v, j, neutral) == IF v = NoTensor THEN neutral ELSE AtOr(v, <<j>>, Zero)

Affine(dots, vectors, j, epilogue) ==
  Element(dots, VectorAt(vectors.bias, j, Zero), VectorAt(vectors.scale, j, One),
          VectorAt(vectors.shift, j, Zero), epilogue)

FusedPack(a, b, vectors, bound, transA, transB) ==
  LET plan == bound.plan
      m == IF transA THEN a.shape[2] ELSE a.shape[1]
      n == IF transB THEN b.shape[1] ELSE b.shape[2]
      k == IF transA THEN a.shape[1] ELSE a.shape[2]
      chunks == Chunks(plan, k, 2 * Block)
  IN  Build(<<m, n>>, LAMBDA p :
        Affine([c \in DOMAIN chunks |->
                  At(ChunkDot(a, b, RoundDown(p[1], plan.rows), RoundDown(p[2], plan.cols),
                              chunks[c], plan, transA, transB),
                     <<p[1] % plan.rows, p[2] % plan.cols>>)],
               vectors, p[2], bound.epilogue))

PrepackedVnni(a3, b4, vectors, bound) ==
  LET plan == bound.plan
      chunks == Chunks(plan, a3.shape[2], Block)
  IN  Build(<<a3.shape[1], b4.shape[1], b4.shape[3]>>, LAMBDA p :
        Affine([c \in DOMAIN chunks |->
                  At(PanelDot(a3, b4, RoundDown(p[1], plan.rows), p[2], chunks[c], plan),
                     <<p[1] % plan.rows, p[3]>>)],
               vectors, p[2] * b4.shape[3] + p[3], bound.epilogue))

(* Blocks contracted whole; C is stored as [M/BM, BM, N/BN, BN].             *)
Blocked(a4, b4, vectors, epilogue) ==
  LET y == Build(<<a4.shape[1], b4.shape[1], Block, Block>>, LAMBDA p :
             Affine(<<Dot(a4.shape[2] * Block,
                          LAMBDA o : At(a4, <<p[1], o \div Block, p[3], o % Block>>),
                          LAMBDA o : At(b4, <<p[2], o \div Block, o % Block, p[4]>>))>>,
                    vectors, p[2] * Block + p[4], epilogue))
  IN  Permute(y, <<1, 3, 2, 4>>)

(***************************************************************************)
(* A vector ([1] or [n]) as [nPad]; nothing, or all fill, if there is none.  *)
(***************************************************************************)
AffineVector(v, n, nPad, fill) ==
  IF v = NoTensor THEN IF fill = NoTensor THEN NoTensor ELSE Build(<<nPad>>, LAMBDA p : fill)
  ELSE IF Len(v.data) = 1 THEN Build(<<nPad>>, LAMBDA p : v.data[1])
  ELSE Tile(v, <<0>>, <<nPad>>)

PaddedVectors(vectors, nPad) ==
  [v \in DOMAIN vectors |->
     IF vectors[v] = NoTensor THEN NoTensor ELSE Tile(vectors[v], <<0>>, <<nPad>>)]

FilledVectors(vectors, n, nPad) ==
  [v \in DOMAIN vectors |->
     AffineVector(vectors[v], n, nPad, IF v = "scale" THEN One ELSE Zero)]

(***************************************************************************)
(* Row-wise kernels.  Products and sums accumulate per lane of a column     *)
(* block and the lanes are summed once at the end; GroupNorm reduces whole  *)
(* groups.                                                                  *)
(***************************************************************************)
LaneSum(x, row, block, Term(_)) ==
  FlattenSeq([lane \in 1 .. block |->
    FlattenSeq([c \in 1 .. CeilDiv(x.shape[2], block) |->
      LET p == <<row, (c - 1) * block + lane - 1>>
      IN  IF Inside(x, p) THEN <<Term(p)>> ELSE <<>>])])

MatVec(a, b, block) ==
  LET x == View(b, <<b.shape[1]>>)
  IN  Build(<<a.shape[1], 1>>, LAMBDA p :
        LaneSum(a, p[1], block, LAMBDA q : <<At(a, q), At(x, <<q[2]>>)>>))

RowSum(x, block) ==
  Build(<<x.shape[1], 1>>, LAMBDA p : LaneSum(x, p[1], block, LAMBDA q : At(x, q)))

(* What each channel of [M, C] is normalised by: the members of its group.   *)
GroupNorm(x, groups, rows, groupsPerTile) ==
  LET m == x.shape[1]
      size == x.shape[2] \div groups
      x3 == View(x, <<m, groups, size>>)
      y == Build(x3.shape, LAMBDA p :
             LET tile == Tile(x3, <<RoundDown(p[1], rows), RoundDown(p[2], groupsPerTile), 0>>,
                              <<rows, groupsPerTile, size>>)
                 in == <<p[1] % rows, p[2] % groupsPerTile>>
             IN  [x |-> At(tile, in \o <<p[3]>>),
                  over |-> [c \in 1 .. size |-> At(tile, in \o <<c - 1>>)],
                  channel |-> p[2] * size + p[3]])
  IN  View(y, x.shape)
=============================================================================
