----------------------------- MODULE KernelBody -----------------------------
(***************************************************************************)
(* The shape of one root graph (a top-level device loop nest): its grid of *)
(* loops, the tensors it uses, and the loads and stores of its body.       *)
(*                                                                         *)
(* The body is a list of loads and stores, then a nested loop over exactly *)
(* the first grid tile (hl.tile(t.begin, t.end)) with its own.             *)
(***************************************************************************)
EXTENDS Integers, Sequences, FiniteSets

CONSTANTS
  Kernels,     \* the root graphs explored; see Kernel for their fields
  MaxTrips,    \* bound on the trip count of a loop of a kernel
  MaxExtent,   \* bound on the extent of a dimension of a tensor
  MaxRank      \* bound on the rank of a tensor

(***************************************************************************)
(* The integer arithmetic that places one tile of a device loop: how many  *)
(* trips a loop makes, where a tile starts, how much of it is real, and    *)
(* which slice of a tensor dimension it selects.  Every operator is the    *)
(* value the emitted MLIR computes at run time; whether the compiler folds *)
(* it to a constant is kept only where it changes which formula is used.   *)
(***************************************************************************)
\* Span of a loop when the compiler does not know it.
NoSpan == -1

LeastOf(a, b) == IF a <= b THEN a ELSE b

CeilDiv(a, b) == -((-a) \div b)

(***************************************************************************)
(* A loop: begin, end, step (the block size), kind, and whether begin and  *)
(* end are compile-time integers.                                          *)
(***************************************************************************)
Loop == [begin: Int, end: Int, step: Nat \ {0},
         kind: {"tile", "grid"}, static: BOOLEAN]

TripCount(loop) == CeilDiv(loop.end - loop.begin, loop.step)

TileOffset(loop, trip) == loop.begin + trip * loop.step

\* The block size, or a shorter static span: one tile then covers the loop.
TileExtent(loop) ==
  IF loop.static THEN LeastOf(loop.step, loop.end - loop.begin) ELSE loop.step

\* The compiler proves every tile full and keeps no "valid" size for the loop.
AllTilesFull(loop, span) ==
  \/ loop.kind = "grid"
  \/ span # NoSpan /\ span % TileExtent(loop) = 0
  \/ loop.static /\ \/ loop.end <= loop.begin
                    \/ (loop.end - loop.begin) % TileExtent(loop) = 0

ValidSize(loop, offset, span) ==
  IF AllTilesFull(loop, span) THEN TileExtent(loop)
  ELSE LeastOf(TileExtent(loop), loop.end - offset)

\* The loop provably ends inside the dimension, so no clamp is emitted.
EndsInside(loop, bias, extent) == loop.static /\ loop.end + bias <= extent

\* Mutant of TileWindow: the bound is checked on the size only.
UnclampedWindow(outermost, offset, valid, bias, extent) ==
  [offset |-> offset + bias,
   size |-> IF EndsInside(outermost, bias, extent) THEN valid
            ELSE LeastOf(valid, extent - LeastOf(offset + bias, extent))]

(***************************************************************************)
(* The slice of a dimension of `extent` elements that a tile at `offset`   *)
(* with `valid` real elements selects, shifted by `bias`.  `outermost` is  *)
(* the loop the tile belongs to, or the one enclosing it when the tile's   *)
(* loop runs over a single tile.                                           *)
(***************************************************************************)
TileWindow(outermost, offset, valid, bias, extent) ==
  LET start == LeastOf(offset + bias, extent)
  IN  IF EndsInside(outermost, bias, extent)
      THEN [offset |-> offset + bias, size |-> valid]
      ELSE [offset |-> start, size |-> LeastOf(valid, extent - start)]

InnerTile(inner, offset, valid, origin, region, fixed) ==
  LET start == offset - origin
  IN  IF fixed /\ region % TileExtent(inner) = 0 /\ valid = TileExtent(inner)
      THEN [offset |-> start, size |-> valid]
      ELSE [offset |-> start, size |-> LeastOf(region - start, valid)]

\* A negative shift is only accepted when the loop provably starts far enough in.
MayIndexBeforeStart(loop, bias) ==
  bias < 0 /\ ~(loop.static /\ loop.begin + bias >= 0)

\* tile.id is the trip when the loop starts at a static 0, else offset // step.
TileId(loop, trip) ==
  IF loop.static /\ loop.begin = 0 THEN trip
  ELSE TileOffset(loop, trip) \div loop.step

-----------------------------------------------------------------------------
(***************************************************************************)
(* A subscript of one dimension.  Block 0 is the nested loop, blocks 1..n  *)
(* are the grid.  "tile" is a tile of the block shifted by bias, "tile_id" *)
(* and the like are scalar positions of its current tile, "const" is the   *)
(* literal position bias and "slice" is the whole dimension.               *)
(***************************************************************************)
Forms == {"slice", "const", "tile", "grid", "tile_begin", "tile_id", "tile_end"}

Subscript == [form: Forms, block: Nat, bias: Int]

WholeDim == [form |-> "slice", block |-> 0, bias |-> 0]

Access == [op: {"load", "store"}, tensor: STRING, index: Seq(Subscript)]

(***************************************************************************)
(* grid[b] is the loop of grid block b, inner the block size of the nested *)
(* loop, shape[n] the extents of tensor n, outer and nested the statements *)
(* before and inside the nested loop.                                      *)
(***************************************************************************)
GridIds(k) == DOMAIN k.grid

Tensors(k) == DOMAIN k.shape

Written(k) ==
  {n \in Tensors(k) :
     \/ \E s \in 1..Len(k.outer) : k.outer[s].op = "store" /\ k.outer[s].tensor = n
     \/ \E s \in 1..Len(k.nested) : k.nested[s].op = "store" /\ k.nested[s].tensor = n}

\* Every load and store of tensor n, the nested loop's included.
Accesses(k, n) ==
  {a \in {k.outer[s] : s \in 1..Len(k.outer)} \union
         {k.nested[s] : s \in 1..Len(k.nested)} : a.tensor = n}

Rank(k, n) == Len(k.shape[n])

SubscriptOf(access, d) ==
  IF d <= Len(access.index) THEN access.index[d] ELSE WholeDim

Iterations(k) ==
  {i \in [GridIds(k) -> 0..MaxTrips] :
     \A b \in GridIds(k) : i[b] < TripCount(k.grid[b])}

\* The elements of a box, as tuples of positions.
Cells(size) == {c \in [DOMAIN size -> 0..MaxExtent] : \A d \in DOMAIN size : c[d] < size[d]}

\* Iteration j precedes i in the nest: the first grid dim is the outermost loop.
Precedes(j, i) ==
  \E b \in DOMAIN i : j[b] < i[b] /\ \A a \in DOMAIN i : a < b => j[a] = i[a]

\* Statement p of an iteration: those before the nested loop, then its trips.
StatementAt(k, p) ==
  IF p <= Len(k.outer) THEN k.outer[p]
  ELSE k.nested[((p - Len(k.outer) - 1) % Len(k.nested)) + 1]

NestedTripAt(k, p) ==
  IF p <= Len(k.outer) THEN 0 ELSE (p - Len(k.outer) - 1) \div Len(k.nested)

\* Contents of a cell of tensor n before the loop, and of a padded position.
Old(n, c) == <<n, c>>
Zero == <<"zero">>

\* Mutant of Blank: only the written tensors are threaded.
BlankWritten(k) == [n \in Written(k) |-> [c \in Cells(k.shape[n]) |-> Old(n, c)]]

Blank(k) == [n \in Tensors(k) |-> [c \in Cells(k.shape[n]) |-> Old(n, c)]]

Kernel(k) ==
  /\ k.grid \in Seq(Loop) /\ Len(k.grid) > 0
  /\ k.inner \in Nat \ {0}
  /\ k.outer \in Seq(Access) /\ k.nested \in Seq(Access)
  /\ DOMAIN k.shape \subseteq STRING
  /\ \A n \in DOMAIN k.shape : k.shape[n] \in Seq(0..MaxExtent) /\ Len(k.shape[n]) <= MaxRank
  /\ \A a \in {k.outer[s] : s \in 1..Len(k.outer)} \union
              {k.nested[s] : s \in 1..Len(k.nested)} : a.tensor \in DOMAIN k.shape
  /\ \A b \in 1..Len(k.grid) : TripCount(k.grid[b]) <= MaxTrips

ASSUME KernelAssumption ==
  /\ MaxTrips \in Nat /\ MaxExtent \in Nat /\ MaxRank \in Nat
  /\ \A k \in Kernels : Kernel(k)
=============================================================================
