----------------------------- MODULE BlockChoice -----------------------------
(***************************************************************************)
(* The block sizes the CPU kernels choose from a problem's sizes and the    *)
(* number of threads.  The literals of the code are constants here, so that *)
(* small problems meet every case; all of them are multiples of Block.      *)
(***************************************************************************)
EXTENDS Integers, Sequences, FiniteSetsExt

CONSTANTS Block,          \* BLOCK_M, BLOCK_N and BLOCK_K
          Accumulator,    \* elements of an accumulator: 1 << 18
          MaxKChunk,      \* _MAX_K_CHUNK
          MaxKSingle,     \* _MAX_K_SINGLE
          Line,           \* _LINE_ELEMENTS
          MinSharedRows,  \* _MIN_SHARED_ROWS
          PanelPairs      \* K pairs times columns of 512 KiB of packed B

ASSUME BlockAssumption ==
  /\ Block \in Nat \ {0} /\ Block % 2 = 0 /\ Block > 2
  /\ {Accumulator, MaxKChunk, MaxKSingle, Line, MinSharedRows, PanelPairs} \subseteq Nat \ {0}
  /\ 4 * Block <= Accumulator   \* a row of the widest tile it starts from
  /\ 2 * (Accumulator \div Block) <= MaxKChunk * 4 * Block   \* a K step of any tile

CeilDiv(x, y) == (x + y - 1) \div y
RoundUp(value, block) == CeilDiv(value, block) * block
RoundDown(value, block) == (value \div block) * block
Least(x, y) == IF x < y THEN x ELSE y
Most(x, y) == IF x > y THEN x ELSE y

(***************************************************************************)
(* Rows of tiles whose busiest thread computes the fewest rows; ties go to  *)
(* the fewest tiles.                                                        *)
(***************************************************************************)
BalancedRows(m, cols, tileM, threads) ==
  LET fewest == CeilDiv(m, tileM)
      Rows(count) == RoundUp(CeilDiv(m, count), Block)
      counts == {fewest} \cup {c \in fewest + 1 .. 4 * fewest :
                                 Rows(c) >= Least(MinSharedRows, tileM)}
      Busiest(count) == CeilDiv(count * cols, threads) * Rows(count)
      best == CHOOSE c \in counts :
                \A d \in counts : \/ Busiest(c) < Busiest(d)
                                  \/ Busiest(c) = Busiest(d) /\ c <= d
  IN  Rows(best)

TilesM(n, tileN, threads) == Most(1, threads \div CeilDiv(n, tileN))

TileRows(m, n, tileN, threads) ==
  Min({RoundUp(CeilDiv(m, TilesM(n, tileN, threads)), Block),
       RoundDown(m, Block),
       Accumulator \div tileN})

(* Few rows: narrower columns, each B chunk packed by one tile. *)
Narrowed(m, n, threads) ==
  LET narrow[t \in Nat] ==
        IF /\ TilesM(n, t, threads) > 1
           /\ TileRows(m, n, t, threads) < MinSharedRows
           /\ t > Block
        THEN narrow[Most(RoundDown(t \div 2, Block), Block)]
        ELSE t
  IN  narrow[Least(4 * Block, RoundDown(n, Block))]

(* With a transposed A, columns widen until tiles are about square. *)
Widened(m, n, threads, tileN) ==
  LET widen[t \in Nat] ==
        IF t < TileRows(m, n, t, threads) /\ 2 * t <= n THEN widen[2 * t] ELSE t
  IN  widen[tileN]

(* Rows, columns and K chunk of a tile of the fused-pack kernel. *)
Heuristic(m, n, k, transA, threads) ==
  LET kEven  == RoundDown(k, 2 * Block)
      narrow == Narrowed(m, n, threads)
      oneRow == /\ ~transA
                /\ TilesM(n, narrow, threads) = 1
                /\ TileRows(m, n, narrow, threads) < MinSharedRows
      tileN  == IF transA THEN Widened(m, n, threads, narrow)
                ELSE IF oneRow THEN Least(narrow, 2 * Block)
                ELSE narrow
      chunkCols == IF transA THEN tileN ELSE narrow
      tileM  == BalancedRows(m, CeilDiv(n, tileN), TileRows(m, n, tileN, threads), threads)
      chunk  == (MaxKChunk * 4 * Block) \div Most(chunkCols, IF transA THEN tileM ELSE 0)
      single == /\ ~transA
                /\ k % Line = 0
                /\ kEven <= (MaxKSingle * 4 * Block) \div chunkCols
      chunks == CeilDiv(kEven, IF single THEN Most(chunk, kEven) ELSE chunk)
  IN  <<tileM, tileN, RoundUp(CeilDiv(kEven, chunks), 2 * Block)>>

(* How a kernel walks M, N and K: tile sizes, then where its K chunks end. *)
FusedPlan(m, n, k, transA, tiles, threads) ==
  LET kEven == RoundDown(k, 2 * Block)
      tile  == IF tiles = <<>> THEN Heuristic(m, n, k, transA, threads) ELSE tiles
      kChunked == RoundDown(kEven, tile[3])
  IN  [rows |-> tile[1], cols |-> tile[2], chunk |-> tile[3],
       rest |-> Most(kEven - kChunked, 2 * Block), chunked |-> kChunked, even |-> kEven]

(* Columns of a panel of packed weights: the widest that feeds every thread. *)
VnniPanel(m, n, threads) ==
  LET rowTiles == Most(1, m \div MinSharedRows)
      wide == {p \in {8 * Block, 4 * Block} : CeilDiv(n, p) * rowTiles >= threads}
  IN  IF wide = {} THEN 2 * Block ELSE Max(wide)

PrepackedRows(m, panels, panel, threads) ==
  Min({RoundUp(CeilDiv(m, Most(1, threads \div panels)), Block),
       Most(RoundDown(m, Block), Block),
       Most(RoundDown(Accumulator \div panel, Block), Block)})

(* As FusedPlan; K counts pairs. *)
PrepackedPlan(tileM, pairs, panel) ==
  LET even   == RoundDown(pairs, Block)
      budget == IF tileM < MinSharedRows THEN PanelPairs \div 2 ELSE PanelPairs
      chunks == Most(1, CeilDiv(even, Most(budget \div panel, Block)))
      chunk  == Most(RoundUp(CeilDiv(even, chunks), Block), Block)
  IN  [rows |-> tileM, cols |-> 1, chunk |-> chunk,
       rest |-> Most(even - RoundDown(even, chunk), Block),
       chunked |-> RoundDown(even, chunk), even |-> even]

(* A tile of the loop over the rest, which ends where the loop does.        *)
RestChunk(plan, first) == <<first, Least(plan.rest, plan.even - first)>>

(* Mutant of Chunks: the columns past the whole steps are forgotten. *)
WholeChunks(plan, k, tail) ==
     [c \in 1 .. plan.chunked \div plan.chunk |-> <<(c - 1) * plan.chunk, plan.chunk>>]
  \o [c \in 1 .. CeilDiv(plan.even - plan.chunked, plan.rest) |->
        RestChunk(plan, plan.chunked + (c - 1) * plan.rest)]

(* The K chunks of a plan, as <<first, size>>: whole ones, one of the rest, *)
(* and a padded one past them.                                              *)
Chunks(plan, k, tail) ==
     [c \in 1 .. plan.chunked \div plan.chunk |-> <<(c - 1) * plan.chunk, plan.chunk>>]
  \o [c \in 1 .. CeilDiv(plan.even - plan.chunked, plan.rest) |->
        RestChunk(plan, plan.chunked + (c - 1) * plan.rest)]
  \o (IF k > plan.even THEN << <<plan.even, tail>> >> ELSE <<>>)

(* Rows of a tile of the row-wise kernels: within a budget, a tile per thread. *)
RowTile(rows, width, otherTiles, budget, threads) ==
  Most(1, Least(budget \div width, CeilDiv(rows * otherTiles, threads)))

(* Groups of a GroupNorm tile: as many as fit, and they divide the groups. *)
GroupsPerTile(groups, groupSize, budget) ==
  LET most == Most(1, Least(groups, budget \div groupSize))
  IN  Max({g \in 1 .. most : groups % g = 0})
=============================================================================
