------------------------------ MODULE RootLoop ------------------------------
(***************************************************************************)
(* One root graph (a top-level device loop nest) as the backend lowers it. *)
(*                                                                         *)
(* The compiler asks whether every tensor the graph stores into is         *)
(* partitioned by every grid dimension.  If so the iterations become an    *)
(* scf.forall: each one extracts the region it owns of every written       *)
(* tensor, runs its loads and stores on that region, and inserts it back,  *)
(* in any order and concurrently with the others.  Otherwise the nest runs *)
(* one iteration after the other on the whole tensors.                     *)
(*                                                                         *)
(* An iteration's body is a list of loads and stores, then a nested loop   *)
(* over exactly the first grid tile (hl.tile(t.begin, t.end)) with loads   *)
(* and stores of its own.  A stored tile is stamped with the iteration and *)
(* the statement that stored it; every loaded tile is logged, so the data  *)
(* flow between loads and stores is visible.                               *)
(***************************************************************************)
EXTENDS KernelBody

(***************************************************************************)
(* Ownership: the dims of a tensor that every access subscripts with the   *)
(* same grid block, in the same form.                                      *)
(***************************************************************************)
NoOwner == [block |-> 0, point |-> FALSE, kind |-> "none"]

Owner(k, subscript) ==
  CASE subscript.form = "tile" /\ subscript.bias = 0 ->
         [block |-> IF subscript.block = 0 THEN 1 ELSE subscript.block,
          point |-> FALSE, kind |-> "none"]
    [] subscript.form \in {"grid", "tile_begin", "tile_id"} /\ subscript.block \in GridIds(k) ->
         [block |-> subscript.block, point |-> TRUE, kind |-> subscript.form]
    [] OTHER -> NoOwner

OwnedDim(k, n, d) ==
  LET owners == {Owner(k, SubscriptOf(a, d)) : a \in Accesses(k, n)}
  IN  IF \E o \in owners : owners = {o} THEN CHOOSE o \in owners : TRUE ELSE NoOwner

\* Mutants of Partitioned: one grid dim is enough, or only the outermost counts.
PartitionedBySome(k) ==
  \A n \in Written(k) :
    \E b \in GridIds(k), d \in 1..Rank(k, n) : OwnedDim(k, n, d).block = b

PartitionedByOutermost(k) ==
  \A n \in Written(k) : \E d \in 1..Rank(k, n) : OwnedDim(k, n, d).block = 1

Partitioned(k) ==
  \A n \in Written(k), b \in GridIds(k) :
    \E d \in 1..Rank(k, n) : OwnedDim(k, n, d).block = b

(***************************************************************************)
(* The region of tensor n iteration i owns: the real part of its tile      *)
(* along owned dims, the point it covers along dims owned by a position,   *)
(* everything elsewhere.  Under a sequential nest nothing is owned.        *)
(***************************************************************************)
ScalarTileValue(k, i, b, kind) ==
  LET loop == k.grid[b]
      offset == TileOffset(loop, i[b])
  IN  CASE kind = "tile_id" -> TileId(loop, i[b])
        [] kind = "tile_end" -> offset + ValidSize(loop, offset, NoSpan)
        [] OTHER -> offset

GridWindow(k, i, b, bias, extent) ==
  LET loop == k.grid[b]
      offset == TileOffset(loop, i[b])
  IN  TileWindow(loop, offset, ValidSize(loop, offset, NoSpan), bias, extent)

RegionDim(k, i, owner, extent) ==
  CASE owner = NoOwner -> [offset |-> 0, size |-> extent]
    [] owner # NoOwner /\ owner.point ->
         [offset |-> ScalarTileValue(k, i, owner.block, owner.kind), size |-> 1]
    [] OTHER -> GridWindow(k, i, owner.block, 0, extent)

OwnerIn(k, m, n, d) ==
  IF m = "forall" /\ n \in Written(k) THEN OwnedDim(k, n, d) ELSE NoOwner

Region(k, m, n, i) ==
  [d \in 1..Rank(k, n) |-> RegionDim(k, i, OwnerIn(k, m, n, d), k.shape[n][d])]

InRegion(region, c) ==
  \A d \in DOMAIN region : region[d].offset <= c[d] /\ c[d] < region[d].offset + region[d].size

RegionSize(region) == [d \in DOMAIN region |-> region[d].size]

\* Positions of a box relative to another's origin, and back.
Inside(slice, c) == [d \in DOMAIN slice |-> c[d] - slice[d].offset]
Outside(slice, c) == [d \in DOMAIN slice |-> c[d] + slice[d].offset]

(***************************************************************************)
(* The nested loop of iteration i.  A forall iteration whose tile is full  *)
(* takes the version lowered with the tile's static span.                  *)
(***************************************************************************)
NestedLoop(k, i) ==
  LET loop == k.grid[1]
      offset == TileOffset(loop, i[1])
  IN  [begin |-> offset, end |-> offset + ValidSize(loop, offset, NoSpan),
       step |-> k.inner, kind |-> "tile", static |-> FALSE]

FullVersion(k, m, i) ==
  LET loop == k.grid[1]
  IN  \/ AllTilesFull(loop, NoSpan)
      \/ m = "forall" /\ ValidSize(loop, TileOffset(loop, i[1]), NoSpan) = TileExtent(loop)

EnclosingSpan(k, m, i) ==
  IF FullVersion(k, m, i) THEN TileExtent(k.grid[1]) ELSE NoSpan

NestedTrips(k, i) == IF k.nested = <<>> THEN 0 ELSE TripCount(NestedLoop(k, i))

\* Statement p of an iteration: those before the nested loop, then its trips.
Steps(k, i) == Len(k.outer) + NestedTrips(k, i) * Len(k.nested)

NestedOffset(k, i, p) == TileOffset(NestedLoop(k, i), NestedTripAt(k, p))

NestedValid(k, m, i, p) ==
  ValidSize(NestedLoop(k, i), NestedOffset(k, i, p), EnclosingSpan(k, m, i))

(***************************************************************************)
(* The slice statement p takes of one dimension of the value it works on:  *)
(* of the iteration's region along an owned dim (region elements of an     *)
(* extent-wide dimension), of the tensor otherwise.                        *)
(***************************************************************************)
OwnedSlice(k, m, i, p, subscript, owner, region, extent) ==
  LET loop == k.grid[owner.block]
      fixed == AllTilesFull(loop, NoSpan) /\ EndsInside(loop, 0, extent)
  IN  CASE owner.point -> [offset |-> 0, size |-> 1]
        [] ~owner.point /\ subscript.block = 0 ->
             InnerTile(NestedLoop(k, i), NestedOffset(k, i, p), NestedValid(k, m, i, p),
                       TileOffset(loop, i[owner.block]), region, fixed)
        [] OTHER -> [offset |-> 0, size |-> region]

UnownedSlice(k, m, i, p, subscript, extent) ==
  CASE subscript.form = "slice" -> [offset |-> 0, size |-> extent]
    [] subscript.form = "const" -> [offset |-> subscript.bias, size |-> 1]
    [] subscript.form = "tile" /\ subscript.block = 0 ->
         TileWindow(k.grid[1], NestedOffset(k, i, p), NestedValid(k, m, i, p),
                    subscript.bias, extent)
    [] subscript.form = "tile" /\ subscript.block # 0 ->
         GridWindow(k, i, subscript.block, subscript.bias, extent)
    [] OTHER -> [offset |-> ScalarTileValue(k, i, subscript.block, subscript.form),
                 size |-> 1]

PlanSlice(k, m, i, p) ==
  LET access == StatementAt(k, p)
      n == access.tensor
  IN  [d \in 1..Rank(k, n) |->
         LET owner == OwnerIn(k, m, n, d)
             extent == k.shape[n][d]
         IN  IF owner = NoOwner
             THEN UnownedSlice(k, m, i, p, SubscriptOf(access, d), extent)
             ELSE OwnedSlice(k, m, i, p, SubscriptOf(access, d), owner,
                             RegionDim(k, i, owner, extent).size, extent)]

\* Width of the tile a slice is padded to; a position is one element wide.
TileWidth(k, i, subscript, extent) ==
  CASE subscript.form = "slice" -> extent
    [] subscript.form = "tile" /\ subscript.block = 0 -> TileExtent(NestedLoop(k, i))
    [] subscript.form = "tile" /\ subscript.block # 0 -> TileExtent(k.grid[subscript.block])
    [] OTHER -> 1

TileShape(k, i, access) ==
  [d \in 1..Rank(k, access.tensor) |->
     TileWidth(k, i, SubscriptOf(access, d), k.shape[access.tensor][d])]

\* A subscript the lowering refuses: it may point before the tensor's start.
Refused(k) ==
  \E n \in Tensors(k), d \in 1..MaxRank : \E a \in Accesses(k, n) :
    LET subscript == SubscriptOf(a, d)
    IN  /\ subscript.form = "tile"
        /\ subscript.bias # 0
        /\ \/ subscript.block = 0 /\ subscript.bias < 0
           \/ subscript.block # 0 /\ MayIndexBeforeStart(k.grid[subscript.block], subscript.bias)

-----------------------------------------------------------------------------
VARIABLES
  kernel,   \* the root graph, fixed
  mode,     \* "new", then "refused", or "forall" or "sequential", then "done"
  memory,   \* tensor -> cell -> stamp: the shared tensors
  phase,    \* iteration -> "waiting", "running" or "done"
  pc,       \* iteration -> its next statement
  local,    \* iteration -> written tensor -> its region's cells, from the origin
  seen      \* iteration -> load statement -> the tile it loaded

vars == <<kernel, mode, memory, phase, pc, local, seen>>

Init ==
  /\ kernel \in Kernels
  /\ mode = "new"
  /\ memory = Blank(kernel)
  /\ phase = [i \in Iterations(kernel) |-> "waiting"]
  /\ pc = [i \in Iterations(kernel) |-> 1]
  /\ local = [i \in Iterations(kernel) |-> <<>>]
  /\ seen = [i \in Iterations(kernel) |-> [p \in {} |-> Zero]]

\* Choose how the root graph runs.
LowerRoot ==
  /\ mode = "new"
  /\ mode' = IF Refused(kernel) THEN "refused"
             ELSE IF Partitioned(kernel) THEN "forall" ELSE "sequential"
  /\ UNCHANGED <<kernel, memory, phase, pc, local, seen>>

MayStart(i) ==
  \/ mode = "forall"
  \/ /\ mode = "sequential"
     /\ \A j \in Iterations(kernel) : Precedes(j, i) => phase[j] = "done"

\* Take the owned regions (the whole tensors in a sequential nest) out.
Start(i) ==
  /\ phase[i] = "waiting"
  /\ MayStart(i)
  /\ local' = [local EXCEPT ![i] =
       [n \in Written(kernel) |->
          LET region == Region(kernel, mode, n, i)
          IN  [c \in Cells(RegionSize(region)) |-> memory[n][Outside(region, c)]]]]
  /\ phase' = [phase EXCEPT ![i] = "running"]
  /\ UNCHANGED <<kernel, mode, memory, pc, seen>>

\* Mutant of Value: loads read the tensor the loop started from.
ValueBefore(i, n) == memory[n]

\* The value a statement of iteration i works on.
Value(i, n) == IF n \in Written(kernel) THEN local[i][n] ELSE memory[n]

Real(slice, c) == \A d \in DOMAIN slice : c[d] < slice[d].size

Load(i) ==
  LET access == StatementAt(kernel, pc[i])
      slice == PlanSlice(kernel, mode, i, pc[i])
  IN  /\ phase[i] = "running"
      /\ pc[i] <= Steps(kernel, i)
      /\ access.op = "load"
      /\ LET tile == [c \in Cells(TileShape(kernel, i, access)) |->
                        IF Real(slice, c) THEN Value(i, access.tensor)[Outside(slice, c)]
                        ELSE Zero]
         IN  seen' = [seen EXCEPT ![i] = [p \in DOMAIN @ \union {pc[i]} |->
                        IF p = pc[i] THEN tile ELSE @[p]]]
      /\ pc' = [pc EXCEPT ![i] = @ + 1]
      /\ UNCHANGED <<kernel, mode, memory, phase, local>>

Store(i) ==
  LET access == StatementAt(kernel, pc[i])
      n == access.tensor
      slice == PlanSlice(kernel, mode, i, pc[i])
  IN  /\ phase[i] = "running"
      /\ pc[i] <= Steps(kernel, i)
      /\ access.op = "store"
      /\ local' = [local EXCEPT ![i][n] =
           [c \in DOMAIN @ |->
              IF InRegion(slice, c) THEN <<i, pc[i], Inside(slice, c)>> ELSE @[c]]]
      /\ pc' = [pc EXCEPT ![i] = @ + 1]
      /\ UNCHANGED <<kernel, mode, memory, phase, seen>>

\* Insert the iteration's regions back into the shared tensors.
Finish(i) ==
  /\ phase[i] = "running"
  /\ pc[i] > Steps(kernel, i)
  /\ memory' = [n \in Tensors(kernel) |->
       IF n \in Written(kernel)
       THEN LET region == Region(kernel, mode, n, i)
            IN  [c \in Cells(kernel.shape[n]) |->
                   IF InRegion(region, c) THEN local[i][n][Inside(region, c)]
                   ELSE memory[n][c]]
       ELSE memory[n]]
  /\ phase' = [phase EXCEPT ![i] = "done"]
  /\ UNCHANGED <<kernel, mode, pc, local, seen>>

\* Every iteration is over: the loop's results are the shared tensors.
Join ==
  /\ mode \in {"forall", "sequential"}
  /\ \A i \in Iterations(kernel) : phase[i] = "done"
  /\ mode' = "done"
  /\ UNCHANGED <<kernel, memory, phase, pc, local, seen>>

Terminated == mode \in {"done", "refused"} /\ UNCHANGED vars

Next ==
  \/ LowerRoot
  \/ \E i \in Iterations(kernel) : Start(i) \/ Load(i) \/ Store(i) \/ Finish(i)
  \/ Join
  \/ Terminated

Spec == Init /\ [][Next]_vars

-----------------------------------------------------------------------------
\* The shape of every variable.
TypeOK ==
  /\ Kernel(kernel)
  /\ mode \in {"new", "refused", "forall", "sequential", "done"}
  /\ DOMAIN memory = Tensors(kernel)
  /\ \A n \in Tensors(kernel) : DOMAIN memory[n] = Cells(kernel.shape[n])
  /\ phase \in [Iterations(kernel) -> {"waiting", "running", "done"}]
  /\ pc \in [Iterations(kernel) -> Nat \ {0}]
  /\ DOMAIN local = Iterations(kernel)
  /\ DOMAIN seen = Iterations(kernel)

Owns(i, n, c) == InRegion(Region(kernel, mode, n, i), c)

\* Two iterations of a parallel loop never own the same element of a written
\* tensor (loops.py, _lower_root: "each iteration writes disjoint regions").
RegionsDisjoint ==
  mode = "forall" =>
    \A n \in Written(kernel), i, j \in Iterations(kernel) :
      i # j => \A c \in Cells(kernel.shape[n]) : ~(Owns(i, n, c) /\ Owns(j, n, c))

\* Whatever the other iterations did meanwhile, the elements an iteration owns are
\* as before the loop until it finishes, and afterwards hold what it left in its
\* region: no iteration reads or overwrites another's result.
NoLostUpdate ==
  mode = "forall" =>
    \A n \in Written(kernel), i \in Iterations(kernel) :
      \A c \in Cells(kernel.shape[n]) :
        Owns(i, n, c) =>
          /\ phase[i] # "done" => memory[n][c] = Old(n, c)
          /\ phase[i] = "done" =>
               memory[n][c] = local[i][n][Inside(Region(kernel, mode, n, i), c)]

\* What the next property needs of the kernels, which the backend emits no checks for:
\* loops start inside tensors, positions are elements of the dimensions they index, only
\* tile loops have tiles, and a written tensor that is indexed by the tiles of the nested
\* loop does not end before the loop around it.
IsTileLoop(k, b) == b \in GridIds(k) /\ k.grid[b].kind = "tile"

PositionInside(k, subscript, extent) ==
  /\ subscript.block \in GridIds(k)
  /\ subscript.form = "tile_end" => IsTileLoop(k, subscript.block)
  /\ \A i \in Iterations(k) :
       ScalarTileValue(k, i, subscript.block, subscript.form) \in 0..(extent - 1)

TilesInside(k, n, subscript, extent) ==
  IF subscript.block = 0
  THEN IsTileLoop(k, 1) /\ (n \in Written(k) => k.grid[1].end <= extent)
  ELSE IsTileLoop(k, subscript.block)

SubscriptInside(k, n, subscript, extent) ==
  CASE subscript.form = "slice" -> TRUE
    [] subscript.form = "const" -> subscript.bias \in 0..(extent - 1)
    [] subscript.form = "tile" -> TilesInside(k, n, subscript, extent)
    [] OTHER -> PositionInside(k, subscript, extent)

IndexesInside(k) ==
  /\ \A b \in GridIds(k) : k.grid[b].begin >= 0
  /\ k.nested # <<>> => IsTileLoop(k, 1)
  /\ \A n \in Tensors(k) : \A d \in 1..Rank(k, n) : \A a \in Accesses(k, n) :
       SubscriptInside(k, n, SubscriptOf(a, d), k.shape[n][d])

\* Every statement's slice lies inside the value it works on, the iteration's
\* region or the tensor, has a size that is not negative (slice_plan.py), and fits
\* in the tile it is padded to (emit.py, pad_high): an extract_slice or
\* insert_slice outside its value, or a pad of negative width, is undefined.
SlicesInside ==
  \A i \in Iterations(kernel) :
    phase[i] = "running" /\ pc[i] <= Steps(kernel, i) =>
      LET access == StatementAt(kernel, pc[i])
          n == access.tensor
          slice == PlanSlice(kernel, mode, i, pc[i])
          size == IF n \in Written(kernel) THEN RegionSize(Region(kernel, mode, n, i))
                  ELSE kernel.shape[n]
      IN  \A d \in DOMAIN slice : /\ 0 <= slice[d].offset
                                  /\ 0 <= slice[d].size
                                  /\ slice[d].offset + slice[d].size <= size[d]
                                  /\ slice[d].size <= TileShape(kernel, i, access)[d]

\* The real part of a nested tile is clamped to the region of the iteration's tile
\* that encloses it (slice_plan.py, _inner_tile: "inside the region of ``owner``'s
\* tile that encloses it: offset from the region's origin, real part clamped to the
\* region"), so it is never a negative number of elements.
NestedTilesInsideRegion ==
  \A i \in Iterations(kernel) :
    phase[i] = "running" /\ Len(kernel.outer) < pc[i] /\ pc[i] <= Steps(kernel, i) =>
      LET slice == PlanSlice(kernel, mode, i, pc[i])
      IN  \A d \in DOMAIN slice : slice[d].size >= 0

-----------------------------------------------------------------------------
\* What a finished root graph leaves, or that it was refused, is its outcome.
Abstract == INSTANCE DeviceLoop WITH
  outcome <- CASE mode = "done" -> [memory |-> memory, seen |-> seen]
               [] mode = "refused" -> [memory |-> <<"refused">>, seen |-> <<>>]
               [] OTHER -> [memory |-> <<>>, seen |-> <<>>]

\* However the iterations of a root graph interleave, the tensors they leave and
\* every tile they loaded are those of the sequential program (loops.py,
\* _lower_root: parallel "if each iteration writes disjoint regions").
RunsAsSequentialProgram == Abstract!Spec
=============================================================================
