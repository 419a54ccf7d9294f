---------------------------- MODULE RootLoopProofs ----------------------------
(***************************************************************************)
(* For every kernel, every grid and every extent: the iterations of a      *)
(* parallel root loop own disjoint regions, none loses an update, no       *)
(* statement reaches outside what it works on, and the loop leaves and     *)
(* loads what the sequential program does (it implements DeviceLoop).      *)
(***************************************************************************)
EXTENDS RootLoop, WellFoundedInduction, TLAPS

\* Consecutive multiples of a block size are at least a block apart.
LEMMA Spacing ==
  ASSUME NEW s \in Nat \ {0}, NEW a \in Int, NEW b \in Int, a < b
  PROVE  /\ a * s \in Int /\ b * s \in Int
         /\ a * s + s <= b * s
PROOF
<1>1. \A x \in Int : x >= 0 => x * s >= 0
  OBVIOUS
<1>2. (b - a - 1) * s >= 0
  BY <1>1
<1>3. (b - a - 1) * s = b * s - a * s - s
  OBVIOUS
<1> QED
  BY <1>2, <1>3

\* Dividing numbers at least a block apart by the block size keeps them apart.
LEMMA Quotients ==
  ASSUME NEW s \in Nat \ {0}, NEW x \in Int, NEW y \in Int, x + s <= y
  PROVE  x \div s < y \div s
PROOF
<1> DEFINE p == x \div s
           q == y \div s
<1>1. p \in Int /\ q \in Int
  OBVIOUS
<1>2. s * p <= x /\ x < s * p + s
  OBVIOUS
<1>3. s * q <= y /\ y < s * q + s
  OBVIOUS
<1>4. s * p < s * q
  BY <1>1, <1>2, <1>3
<1>5. ASSUME q <= p PROVE FALSE
  <2>1. \A z \in Int : z >= 0 => s * z >= 0
    OBVIOUS
  <2>2. s * (p - q) >= 0
    BY <1>1, <1>5, <2>1
  <2>3. s * (p - q) = s * p - s * q
    BY <1>1
  <2> QED
    BY <1>1, <1>4, <2>2, <2>3
<1> QED
  BY <1>1, <1>5

\* Dividing a multiple of a block size by it gives the factor.
LEMMA QuotientOfMultiple ==
  ASSUME NEW s \in Nat \ {0}, NEW t \in Int
  PROVE  (t * s) \div s = t
PROOF
<1>1. PICK x : x = t * s
  OBVIOUS
<1>2. x \in Int
  BY <1>1
<1>3. PICK q \in Int : q = x \div s
  BY <1>2
<1>4. s * q <= x /\ x < s * q + s
  BY <1>2, <1>3
<1>5. \A z \in Int : z >= 0 => z * s >= 0
  OBVIOUS
<1>6. ASSUME q < t PROVE FALSE
  <2>1. (t - q - 1) * s >= 0
    BY <1>5, <1>6
  <2>2. (t - q - 1) * s = t * s - s * q - s
    OBVIOUS
  <2> QED
    BY <1>1, <1>2, <1>4, <2>1, <2>2
<1>7. ASSUME t < q PROVE FALSE
  <2>1. (q - t - 1) * s >= 0
    BY <1>5, <1>7
  <2>2. (q - t - 1) * s = s * q - t * s - s
    OBVIOUS
  <2> QED
    BY <1>1, <1>2, <1>4, <2>1, <2>2
<1>8. q = t
  BY <1>6, <1>7
<1> QED
  BY <1>1, <1>3, <1>8, Zenon

-----------------------------------------------------------------------------
\* The real part of a grid tile is at most a block wide, wherever it is clamped.
LEMMA WindowWithinTile ==
  ASSUME NEW loop \in Loop, NEW offset \in Int, NEW extent \in Int, NEW x \in Int,
         NEW window,
         window = TileWindow(loop, offset, ValidSize(loop, offset, NoSpan), 0, extent),
         window.offset <= x, x < window.offset + window.size
  PROVE  offset <= x /\ x < offset + loop.step
PROOF
<1> DEFINE valid == ValidSize(loop, offset, NoSpan)
<1>1. loop.begin \in Int /\ loop.end \in Int /\ loop.step \in Nat \ {0}
  BY DEF Loop
<1>2. TileExtent(loop) \in Int /\ TileExtent(loop) <= loop.step
  BY <1>1 DEF TileExtent, LeastOf
<1>3. valid \in Int /\ valid <= loop.step
  BY <1>1, <1>2 DEF ValidSize, LeastOf
<1>4. CASE EndsInside(loop, 0, extent)
  BY <1>1, <1>3, <1>4 DEF TileWindow
<1>5. CASE ~EndsInside(loop, 0, extent)
  <2>1. /\ window.offset = LeastOf(offset, extent)
        /\ window.size = LeastOf(valid, extent - LeastOf(offset, extent))
    BY <1>5 DEF TileWindow
  <2> QED
    BY <1>1, <1>3, <2>1 DEF LeastOf
<1> QED
  BY <1>4, <1>5

\* The tiles of different trips of one loop start at least a block size apart
\* (loops.py, _tile_offset).
LEMMA OffsetSpacing ==
  ASSUME NEW loop \in Loop, NEW a \in Nat, NEW b \in Nat, a < b
  PROVE  /\ TileOffset(loop, a) \in Int /\ TileOffset(loop, b) \in Int
         /\ TileOffset(loop, a) + loop.step <= TileOffset(loop, b)
PROOF
<1>1. loop.begin \in Int /\ loop.step \in Nat \ {0}
  BY DEF Loop
<1>2. a * loop.step + loop.step <= b * loop.step
  BY <1>1, Spacing
<1>3. a * loop.step \in Int /\ b * loop.step \in Int
  BY <1>1
<1> QED
  BY <1>1, <1>2, <1>3 DEF TileOffset

\* tile.id is different in every iteration, wherever the loop begins.
LEMMA TileIdsGrow ==
  ASSUME NEW loop \in Loop, NEW a \in Nat, NEW b \in Nat, a < b
  PROVE  TileId(loop, a) < TileId(loop, b)
PROOF
<1>1. loop.step \in Nat \ {0}
  BY DEF Loop
<1>2. TileOffset(loop, a) \div loop.step < TileOffset(loop, b) \div loop.step
  BY <1>1, OffsetSpacing, Quotients
<1> QED
  BY <1>2 DEF TileId

-----------------------------------------------------------------------------
\* An owned dim is owned by a tile, or by one of the three distinct positions.
LEMMA OwnedForms ==
  ASSUME NEW k, NEW n, NEW d, OwnedDim(k, n, d) # NoOwner
  PROVE  \/ ~OwnedDim(k, n, d).point
         \/ OwnedDim(k, n, d).point /\ OwnedDim(k, n, d).kind \in {"grid", "tile_begin", "tile_id"}
PROOF
<1> DEFINE owners == {Owner(k, SubscriptOf(a, d)) : a \in Accesses(k, n)}
<1>1. OwnedDim(k, n, d) \in owners
  BY DEF OwnedDim
<1>2. PICK a \in Accesses(k, n) : OwnedDim(k, n, d) = Owner(k, SubscriptOf(a, d))
  BY <1>1
<1> DEFINE s == SubscriptOf(a, d)
<1> HIDE DEF s
<1>3. OwnedDim(k, n, d) = Owner(k, s)
  BY <1>2 DEF s
<1>4. CASE s.form = "tile" /\ s.bias = 0
  BY <1>3, <1>4 DEF Owner
<1>5. CASE s.form \in {"grid", "tile_begin", "tile_id"} /\ s.block \in GridIds(k)
  BY <1>3, <1>5 DEF Owner
<1>6. CASE /\ ~(s.form = "tile" /\ s.bias = 0)
           /\ ~(s.form \in {"grid", "tile_begin", "tile_id"} /\ s.block \in GridIds(k))
  BY <1>3, <1>6 DEF Owner, NoOwner
<1> QED
  BY <1>4, <1>5, <1>6

\* The loops of a grid, the trips of an iteration and the block ids have their types.
LEMMA GridFacts ==
  ASSUME NEW k \in Kernels, NEW i \in Iterations(k), NEW b \in GridIds(k)
  PROVE  k.grid[b] \in Loop /\ i[b] \in Nat /\ b \in Nat \ {0}
PROOF
<1>1. k.grid \in Seq(Loop)
  BY KernelAssumption DEF Kernel
<1>2. i \in [GridIds(k) -> 0..MaxTrips]
  BY DEF Iterations
<1>3. MaxTrips \in Nat
  BY KernelAssumption
<1> QED
  BY <1>1, <1>2, <1>3 DEF GridIds

\* Along a dim owned by block b, iterations of different trips of b do not meet.
LEMMA OwnedDimsApart ==
  ASSUME NEW k \in Kernels, NEW i \in Iterations(k), NEW j \in Iterations(k),
         NEW b \in GridIds(k), i[b] < j[b],
         NEW n, NEW d, OwnedDim(k, n, d).block = b,
         NEW extent \in Int, NEW x \in Int,
         NEW mine, mine = RegionDim(k, i, OwnedDim(k, n, d), extent),
         NEW theirs, theirs = RegionDim(k, j, OwnedDim(k, n, d), extent),
         mine.offset <= x, x < mine.offset + mine.size,
         theirs.offset <= x, x < theirs.offset + theirs.size
  PROVE  FALSE
PROOF
<1> DEFINE loop == k.grid[b]
           owner == OwnedDim(k, n, d)
<1> HIDE DEF loop, owner
<1>1. loop \in Loop /\ i[b] \in Nat /\ j[b] \in Nat /\ b \in Nat \ {0}
  BY GridFacts DEF loop
<1>2. owner # NoOwner /\ owner.block = b
  BY <1>1 DEF NoOwner, owner
<1>3. /\ TileOffset(loop, i[b]) \in Int /\ TileOffset(loop, j[b]) \in Int
      /\ TileOffset(loop, i[b]) + loop.step <= TileOffset(loop, j[b])
  BY <1>1, OffsetSpacing
<1>4. loop.step \in Nat \ {0}
  BY <1>1 DEF Loop
<1>5. CASE ~owner.point
  <2>1. /\ mine = GridWindow(k, i, b, 0, extent)
        /\ theirs = GridWindow(k, j, b, 0, extent)
    BY <1>2, <1>5 DEF RegionDim, owner
  <2>2. x < TileOffset(loop, i[b]) + loop.step
    BY <1>1, <1>3, <2>1, WindowWithinTile DEF GridWindow, loop
  <2>3. TileOffset(loop, j[b]) <= x
    BY <1>1, <1>3, <2>1, WindowWithinTile DEF GridWindow, loop
  <2> QED
    BY <1>3, <1>4, <2>2, <2>3
<1>6. CASE owner.point
  <2>1. owner.kind \in {"grid", "tile_begin", "tile_id"}
    BY <1>2, <1>6, OwnedForms DEF owner
  <2>2. /\ mine.offset = ScalarTileValue(k, i, b, owner.kind) /\ mine.size = 1
        /\ theirs.offset = ScalarTileValue(k, j, b, owner.kind) /\ theirs.size = 1
    BY <1>2, <1>6 DEF RegionDim, owner
  <2>3. ScalarTileValue(k, i, b, owner.kind) < ScalarTileValue(k, j, b, owner.kind)
    <3>1. CASE owner.kind = "tile_id"
      BY <1>1, <3>1, TileIdsGrow DEF ScalarTileValue, loop
    <3>2. CASE owner.kind \in {"grid", "tile_begin"}
      BY <1>1, <1>3, <1>4, <3>2 DEF ScalarTileValue, loop
    <3> QED
      BY <2>1, <3>1, <3>2
  <2>4. /\ ScalarTileValue(k, i, b, owner.kind) \in Int
        /\ ScalarTileValue(k, j, b, owner.kind) \in Int
    <3>1. /\ TileId(loop, i[b]) \in Int /\ TileId(loop, j[b]) \in Int
      BY <1>1, <1>3, <1>4 DEF TileId
    <3>2. CASE owner.kind = "tile_id"
      BY <3>1, <3>2 DEF ScalarTileValue, loop
    <3>3. CASE owner.kind \in {"grid", "tile_begin"}
      BY <1>3, <3>3 DEF ScalarTileValue, loop
    <3> QED
      BY <2>1, <3>2, <3>3
  <2> QED
    BY <2>2, <2>3, <2>4
<1> QED
  BY <1>5, <1>6

\* If the compiler picks the parallel loop, no element belongs to two iterations.
LEMMA Apart ==
  ASSUME NEW k \in Kernels, Partitioned(k), NEW n \in Written(k),
         NEW i \in Iterations(k), NEW j \in Iterations(k), i # j,
         NEW c \in Cells(k.shape[n]),
         InRegion(Region(k, "forall", n, i), c), InRegion(Region(k, "forall", n, j), c)
  PROVE  FALSE
PROOF
<1>1. PICK b \in GridIds(k) : i[b] # j[b]
  BY DEF Iterations
<1>2. PICK d \in 1..Rank(k, n) : OwnedDim(k, n, d).block = b
  BY DEF Partitioned
<1>3. i[b] \in Nat /\ j[b] \in Nat
  BY GridFacts
<1> DEFINE extent == k.shape[n][d]
           region(t) == RegionDim(k, t, OwnedDim(k, n, d), extent)
<1>4. n \in Tensors(k) /\ MaxExtent \in Nat
  BY KernelAssumption DEF Written
<1>5. k.shape[n] \in Seq(0..MaxExtent)
  BY <1>4, KernelAssumption DEF Kernel, Tensors
<1>6. extent \in Int /\ c[d] \in Int
  <2>1. d \in DOMAIN k.shape[n] /\ extent \in 0..MaxExtent
    <3>1. \A S : \A q \in Seq(S) : \A e \in 1..Len(q) : e \in DOMAIN q /\ q[e] \in S
      OBVIOUS
    <3>2. d \in 1..Len(k.shape[n])
      BY DEF Rank
    <3> QED
      BY <1>5, <3>1, <3>2
  <2>2. c \in [DOMAIN k.shape[n] -> 0..MaxExtent]
    BY DEF Cells
  <2> QED
    BY <1>4, <2>1, <2>2
<1>7. /\ Region(k, "forall", n, i)[d] = region(i)
      /\ Region(k, "forall", n, j)[d] = region(j)
      /\ d \in DOMAIN Region(k, "forall", n, i)
      /\ d \in DOMAIN Region(k, "forall", n, j)
  BY DEF Region, OwnerIn
<1>8. /\ region(i).offset <= c[d] /\ c[d] < region(i).offset + region(i).size
      /\ region(j).offset <= c[d] /\ c[d] < region(j).offset + region(j).size
  BY <1>7 DEF InRegion
<1> HIDE DEF extent
<1>9. ASSUME i[b] < j[b] PROVE FALSE
  BY <1>2, <1>6, <1>8, <1>9, OwnedDimsApart
<1>10. ASSUME j[b] < i[b] PROVE FALSE
  BY <1>2, <1>6, <1>8, <1>10, OwnedDimsApart
<1> QED
  BY <1>1, <1>3, <1>9, <1>10

-----------------------------------------------------------------------------
\* Every reachable state has the shape TypeOK names: a tensor keeps its elements and
\* an iteration its own copy of what it owns, whatever the kernel and the order of
\* its iterations (loops.py, _emit_forall and _emit_sequential).
THEOREM TypeCorrect == Spec => []TypeOK
PROOF
<1>1. Init => TypeOK
  BY KernelAssumption DEF Init, TypeOK, Blank
<1>2. TypeOK /\ [Next]_vars => TypeOK'
  <2> SUFFICES ASSUME TypeOK, [Next]_vars PROVE TypeOK'
    OBVIOUS
  <2>1. CASE LowerRoot
    BY <2>1 DEF LowerRoot, TypeOK
  <2>2. ASSUME NEW i \in Iterations(kernel), Start(i) PROVE TypeOK'
    BY <2>2 DEF Start, TypeOK
  <2>3. ASSUME NEW i \in Iterations(kernel), Load(i) PROVE TypeOK'
    BY <2>3 DEF Load, TypeOK
  <2>4. ASSUME NEW i \in Iterations(kernel), Store(i) PROVE TypeOK'
    BY <2>4 DEF Store, TypeOK
  <2>5. ASSUME NEW i \in Iterations(kernel), Finish(i) PROVE TypeOK'
    BY <2>5 DEF Finish, TypeOK
  <2>6. CASE Join
    BY <2>6 DEF Join, TypeOK
  <2>7. CASE UNCHANGED vars
    BY <2>7 DEF vars, TypeOK
  <2> QED
    BY <2>1, <2>2, <2>3, <2>4, <2>5, <2>6, <2>7 DEF Next, Terminated
<1> QED
  BY <1>1, <1>2, PTL DEF Spec

\* The kernel is one of those given, and only a partitioned one runs in parallel.
Parallelism == kernel \in Kernels /\ (mode = "forall" => Partitioned(kernel))

\* Parallelism holds in every reachable state (loops.py, _lower_root).
LEMMA ParallelismHolds == Spec => []Parallelism
PROOF
<1>1. Init => Parallelism
  BY DEF Init, Parallelism
<1>2. Parallelism /\ [Next]_vars => Parallelism'
  BY DEF Parallelism, Next, vars, LowerRoot, Start, Load, Store, Finish, Join, Terminated
<1> QED
  BY <1>1, <1>2, PTL DEF Spec

\* Nothing has run before the compiler chose a loop.
Fresh ==
  mode = "new" => memory = Blank(kernel) /\ \A i \in Iterations(kernel) : phase[i] = "waiting"

\* Fresh holds in every reachable state.
LEMMA FreshHolds == Spec => []Fresh
PROOF
<1>1. Init => Fresh
  BY DEF Init, Fresh
<1>2. TypeOK /\ Fresh /\ [Next]_vars => Fresh'
  <2> SUFFICES ASSUME TypeOK, Fresh, [Next]_vars, mode' = "new" PROVE Fresh'
    BY DEF Fresh
  <2>1. CASE UNCHANGED vars
    BY <2>1 DEF Fresh, vars
  <2>2. CASE Next
    BY <2>2 DEF Next, LowerRoot, Start, Load, Store, Finish, Join, Terminated, MayStart,
                TypeOK, Fresh, vars
  <2> QED
    BY <2>1, <2>2
<1> QED
  BY <1>1, <1>2, TypeCorrect, PTL DEF Spec

\* Iterations of a parallel loop never own the same element of a written tensor,
\* whatever the kernel, the bounds of its loops and the extents of its tensors: the
\* inserts at the end of the forall never collide (loops.py, _lower_root and
\* _owned_region).
THEOREM DisjointRegions == Spec => []RegionsDisjoint
PROOF
<1>1. TypeOK /\ Parallelism => RegionsDisjoint
  BY Apart DEF TypeOK, Parallelism, RegionsDisjoint, Owns
<1> QED
  BY <1>1, TypeCorrect, ParallelismHolds, PTL

-----------------------------------------------------------------------------
(***************************************************************************)
(* NoLostUpdate is not inductive alone: finishing an iteration writes every *)
(* element of its region, and only the disjointness of the regions says    *)
(* that none of them belongs to another iteration.                         *)
(***************************************************************************)
IInv == TypeOK /\ Parallelism /\ Fresh /\ NoLostUpdate

\* Nothing is lost before the loop begins.
LEMMA NoLostUpdateInit == Init => NoLostUpdate
PROOF
  BY DEF Init, NoLostUpdate

\* No step of any iteration, nor the choice of the loop, loses an update.
LEMMA NoLostUpdateStep == IInv /\ [Next]_vars => NoLostUpdate'
PROOF
<1> SUFFICES ASSUME IInv, [Next]_vars, mode' = "forall",
                    NEW n \in Written(kernel)', NEW i \in Iterations(kernel)',
                    NEW c \in Cells(kernel.shape[n])', Owns(i, n, c)'
             PROVE  /\ phase'[i] # "done" => memory'[n][c] = Old(n, c)
                    /\ phase'[i] = "done" =>
                         memory'[n][c] = local'[i][n][Inside(Region(kernel', mode', n, i), c)]
  BY DEF NoLostUpdate
<1>1. kernel' = kernel /\ kernel \in Kernels
  BY DEF IInv, Parallelism, Next, vars, LowerRoot, Start, Load, Store, Finish, Join, Terminated
<1>2. n \in Written(kernel) /\ i \in Iterations(kernel) /\ c \in Cells(kernel.shape[n])
  BY <1>1
<1>3. n \in Tensors(kernel)
  BY <1>2 DEF Written
<1>4. InRegion(Region(kernel, "forall", n, i), c)
  BY <1>1 DEF Owns
<1> DEFINE at == Inside(Region(kernel, "forall", n, i), c)
<1>5. mode = "forall" =>
        /\ phase[i] # "done" => memory[n][c] = Old(n, c)
        /\ phase[i] = "done" => memory[n][c] = local[i][n][at]
  BY <1>2, <1>4 DEF IInv, NoLostUpdate, Owns
<1> SUFFICES /\ phase'[i] # "done" => memory'[n][c] = Old(n, c)
             /\ phase'[i] = "done" => memory'[n][c] = local'[i][n][at]
  BY <1>1
<1> HIDE DEF at
<1>6. CASE LowerRoot
  BY <1>2, <1>3, <1>6 DEF LowerRoot, IInv, Fresh, Blank
<1>7. ASSUME NEW j \in Iterations(kernel), Start(j) PROVE
        /\ phase'[i] # "done" => memory'[n][c] = Old(n, c)
        /\ phase'[i] = "done" => memory'[n][c] = local'[i][n][at]
  BY <1>2, <1>5, <1>7 DEF Start, IInv, TypeOK
<1>8. ASSUME NEW j \in Iterations(kernel), Load(j) PROVE
        /\ phase'[i] # "done" => memory'[n][c] = Old(n, c)
        /\ phase'[i] = "done" => memory'[n][c] = local'[i][n][at]
  BY <1>2, <1>5, <1>8 DEF Load
<1>9. ASSUME NEW j \in Iterations(kernel), Store(j) PROVE
        /\ phase'[i] # "done" => memory'[n][c] = Old(n, c)
        /\ phase'[i] = "done" => memory'[n][c] = local'[i][n][at]
  <2>1. mode = "forall" /\ phase[j] = "running" /\ phase' = phase /\ memory' = memory
    BY <1>9 DEF Store
  <2>2. i # j => local'[i] = local[i]
    BY <1>2, <1>9 DEF Store, IInv, TypeOK
  <2> QED
    BY <1>5, <2>1, <2>2
<1>10. ASSUME NEW j \in Iterations(kernel), Finish(j) PROVE
        /\ phase'[i] # "done" => memory'[n][c] = Old(n, c)
        /\ phase'[i] = "done" => memory'[n][c] = local'[i][n][at]
  <2>1. mode = "forall" /\ local' = local
    BY <1>10 DEF Finish
  <2>2. memory'[n][c] = IF InRegion(Region(kernel, "forall", n, j), c)
                        THEN local[j][n][Inside(Region(kernel, "forall", n, j), c)]
                        ELSE memory[n][c]
    BY <1>2, <1>3, <1>10, <2>1 DEF Finish
  <2>3. CASE i = j
    <3>1. phase'[i] = "done"
      BY <1>2, <1>10, <2>3 DEF Finish, IInv, TypeOK
    <3> QED
      BY <1>4, <2>1, <2>2, <2>3, <3>1 DEF at
  <2>4. CASE i # j
    <3>1. ~InRegion(Region(kernel, "forall", n, j), c)
      BY <1>1, <1>2, <1>4, <2>1, <2>4, Apart DEF IInv, Parallelism
    <3>2. phase'[i] = phase[i]
      BY <1>2, <1>10, <2>4 DEF Finish, IInv, TypeOK
    <3> QED
      BY <1>5, <2>1, <2>2, <3>1, <3>2
  <2> QED
    BY <2>3, <2>4
<1>11. CASE Join
  BY <1>11 DEF Join
<1>12. CASE UNCHANGED vars
  BY <1>5, <1>12 DEF vars
<1> QED
  BY <1>6, <1>7, <1>8, <1>9, <1>10, <1>11, <1>12 DEF Next, Terminated

\* No iteration of a parallel loop overwrites what another one stored, or reads it,
\* however the iterations interleave (loops.py, _emit_forall).
THEOREM UpdatesSurvive == Spec => []NoLostUpdate
PROOF
<1>1. TypeOK /\ Parallelism /\ Fresh /\ NoLostUpdate /\ [Next]_vars => NoLostUpdate'
  BY NoLostUpdateStep DEF IInv
<1> QED
  BY <1>1, NoLostUpdateInit, TypeCorrect, ParallelismHolds, FreshHolds, PTL DEF Spec

-----------------------------------------------------------------------------
\* A trip of a loop starts inside it.
LEMMA TripsInside ==
  ASSUME NEW loop \in Loop, NEW t \in Nat, t < TripCount(loop)
  PROVE  /\ TileOffset(loop, t) \in Int
         /\ loop.begin <= TileOffset(loop, t) /\ TileOffset(loop, t) < loop.end
PROOF
<1>1. loop.begin \in Int /\ loop.end \in Int /\ loop.step \in Nat \ {0}
  BY DEF Loop
<1>2. PICK b, e, s : b = loop.begin /\ e = loop.end /\ s = loop.step
  OBVIOUS
<1>3. b \in Int /\ e \in Int /\ s \in Nat \ {0}
  BY <1>1, <1>2
<1>4. PICK q \in Int : q = (-(e - b)) \div s
  BY <1>3
<1>5. s * q <= -(e - b) /\ -(e - b) < s * q + s
  BY <1>3, <1>4
<1>6. t <= -q - 1
  BY <1>2, <1>4 DEF TripCount, CeilDiv
<1>7. \A x, y \in Int : x <= y => x * s <= y * s
  <2>1. \A z \in Int : z >= 0 => z * s >= 0
    BY <1>3
  <2> SUFFICES ASSUME NEW x \in Int, NEW y \in Int, x <= y PROVE x * s <= y * s
    OBVIOUS
  <2>2. (y - x) * s >= 0
    BY <2>1
  <2>3. (y - x) * s = y * s - x * s
    BY <1>3
  <2>4. x * s \in Int /\ y * s \in Int
    BY <1>3
  <2> QED
    BY <2>2, <2>3, <2>4
<1>8. 0 * s <= t * s /\ t * s <= (-q - 1) * s
  BY <1>6, <1>7
<1>9. 0 * s = 0 /\ (-q - 1) * s = -(s * q) - s /\ t * s \in Int /\ s * q \in Int
  BY <1>3, <1>4
<1>10. b <= b + t * s /\ b + t * s < e
  BY <1>3, <1>5, <1>8, <1>9
<1> QED
  BY <1>2, <1>3, <1>9, <1>10 DEF TileOffset

\* Tiles of which whole ones fill a loop end inside it.
LEMMA WholeTiles ==
  ASSUME NEW s \in Nat \ {0}, NEW size \in Nat, size % s = 0,
         NEW t \in Nat, t * s < size
  PROVE  t * s + s <= size
PROOF
<1>1. PICK q \in Int : q = size \div s
  OBVIOUS
<1>2. size = s * q
  BY <1>1
<1>3. ASSUME q <= t PROVE FALSE
  <2>1. \A z \in Int : z >= 0 => z * s >= 0
    OBVIOUS
  <2>2. (t - q) * s >= 0
    BY <1>3, <2>1
  <2>3. (t - q) * s = t * s - s * q
    OBVIOUS
  <2>4. t * s \in Int /\ s * q \in Int
    OBVIOUS
  <2> QED
    BY <1>2, <2>2, <2>3, <2>4
<1>4. t + 1 <= q
  BY <1>3
<1>5. (q - (t + 1)) * s >= 0
  <2>1. \A z \in Int : z >= 0 => z * s >= 0
    OBVIOUS
  <2> QED
    BY <1>4, <2>1
<1>6. (q - (t + 1)) * s = s * q - (t * s + s)
  OBVIOUS
<1>7. t * s \in Int /\ s * q \in Int
  OBVIOUS
<1> QED
  BY <1>2, <1>5, <1>6, <1>7

\* The real part of a tile is not empty, and ends a block later or with its loop.
LEMMA TilesReal ==
  ASSUME NEW loop \in Loop, loop.kind = "tile", NEW t \in Nat, t < TripCount(loop),
         NEW valid, valid = ValidSize(loop, TileOffset(loop, t), NoSpan)
  PROVE  /\ TileExtent(loop) \in Nat \ {0}
         /\ valid \in Nat \ {0} /\ valid <= TileExtent(loop)
         /\ TileOffset(loop, t) + valid <= loop.end
         /\ TileOffset(loop, t) + valid = LeastOf(TileOffset(loop, t) + loop.step, loop.end)
PROOF
<1>1. /\ loop.begin \in Int /\ loop.end \in Int /\ loop.step \in Nat \ {0}
      /\ loop.static \in BOOLEAN
  BY DEF Loop
<1>2. /\ TileOffset(loop, t) \in Int
      /\ loop.begin <= TileOffset(loop, t) /\ TileOffset(loop, t) < loop.end
  BY TripsInside
<1>3. /\ TileExtent(loop) \in Nat \ {0}
      /\ \/ TileExtent(loop) = loop.step
         \/ TileExtent(loop) = loop.end - loop.begin /\ TileExtent(loop) <= loop.step
  BY <1>1, <1>2 DEF TileExtent, LeastOf
<1>4. CASE AllTilesFull(loop, NoSpan)
  <2>1. (loop.end - loop.begin) % TileExtent(loop) = 0 /\ valid = TileExtent(loop)
    BY <1>1, <1>2, <1>4 DEF AllTilesFull, ValidSize
  <2>2. TileOffset(loop, t) + TileExtent(loop) <= loop.end
    <3>1. TileOffset(loop, t) = loop.begin + t * loop.step /\ t * loop.step \in Int
      BY <1>1 DEF TileOffset
    <3>2. CASE TileExtent(loop) = loop.step
      <4>1. t * loop.step + loop.step <= loop.end - loop.begin
        <5>1. loop.end - loop.begin \in Nat /\ t * loop.step < loop.end - loop.begin
          BY <1>1, <1>2, <3>1
        <5> QED
          BY <1>1, <2>1, <3>2, <5>1, WholeTiles
      <4> QED
        BY <1>1, <3>1, <3>2, <4>1
    <3>3. CASE TileExtent(loop) = loop.end - loop.begin /\ TileExtent(loop) <= loop.step
      <4>1. t = 0
        <5>1. ASSUME t >= 1 PROVE t * loop.step >= loop.step
          <6>1. \A z \in Int : z >= 0 => z * loop.step >= 0
            BY <1>1
          <6>2. (t - 1) * loop.step >= 0
            BY <5>1, <6>1
          <6>3. (t - 1) * loop.step = t * loop.step - loop.step
            BY <1>1
          <6> QED
            BY <1>1, <3>1, <6>2, <6>3
        <5> QED
          BY <1>1, <1>2, <3>1, <3>3, <5>1
      <4>2. TileOffset(loop, t) = loop.begin
        BY <1>1, <3>1, <4>1
      <4> QED
        BY <1>1, <3>3, <4>2
    <3> QED
      BY <1>3, <3>2, <3>3
  <2> QED
    BY <1>1, <1>2, <1>3, <2>1, <2>2 DEF LeastOf
<1>5. CASE ~AllTilesFull(loop, NoSpan)
  <2>1. valid = LeastOf(TileExtent(loop), loop.end - TileOffset(loop, t))
    BY <1>5 DEF ValidSize
  <2> QED
    BY <1>1, <1>2, <1>3, <2>1 DEF LeastOf
<1> QED
  BY <1>4, <1>5

\* A slice selects the positions from first up to past: it starts there, or is empty if
\* there are none.
Selects(offset, size, first, past) ==
  \/ size = 0 /\ past <= first
  \/ size > 0 /\ offset = first /\ offset + size = past

\* The window of a tile that ends in its loop lies in the dimension, is no wider, and
\* selects what of the tile is in the dimension.
LEMMA WindowInside ==
  ASSUME NEW loop \in Loop, NEW offset \in Int, NEW valid \in Nat, offset + valid <= loop.end,
         NEW bias \in Int, 0 <= offset + bias, NEW extent \in Nat,
         NEW window, window = TileWindow(loop, offset, valid, bias, extent)
  PROVE  /\ window.offset \in Nat /\ window.size \in Nat
         /\ window.offset + window.size <= extent /\ window.size <= valid
         /\ Selects(window.offset, window.size, offset + bias,
                    LeastOf(offset + valid + bias, extent))
PROOF
<1>1. loop.end \in Int
  BY DEF Loop
<1>2. CASE EndsInside(loop, bias, extent)
  <2>1. window.offset = offset + bias /\ window.size = valid /\ loop.end + bias <= extent
    BY <1>2 DEF TileWindow, EndsInside
  <2> QED
    BY <1>1, <2>1 DEF Selects, LeastOf
<1>3. CASE ~EndsInside(loop, bias, extent)
  <2>1. /\ window.offset = LeastOf(offset + bias, extent)
        /\ window.size = LeastOf(valid, extent - LeastOf(offset + bias, extent))
    BY <1>3 DEF TileWindow
  <2> QED
    BY <2>1 DEF LeastOf, Selects
<1> QED
  BY <1>2, <1>3

\* Statement p of an iteration is one of the kernel, on a trip the nested loop makes.
LEMMA StatementsOf ==
  ASSUME NEW k \in Kernels, NEW trips \in Int, NEW p \in Nat \ {0},
         p <= Len(k.outer) + (IF k.nested = <<>> THEN 0 ELSE trips) * Len(k.nested)
  PROVE  /\ StatementAt(k, p).tensor \in Tensors(k)
         /\ StatementAt(k, p) \in Accesses(k, StatementAt(k, p).tensor)
         /\ NestedTripAt(k, p) \in Nat
         /\ p > Len(k.outer) => NestedTripAt(k, p) < trips
PROOF
<1>1. /\ k.outer \in Seq(Access) /\ k.nested \in Seq(Access)
      /\ \A a \in {k.outer[s] : s \in 1..Len(k.outer)} \union
                  {k.nested[s] : s \in 1..Len(k.nested)} : a.tensor \in DOMAIN k.shape
  BY KernelAssumption DEF Kernel
<1>2. CASE p <= Len(k.outer)
  <2>1. StatementAt(k, p) = k.outer[p] /\ NestedTripAt(k, p) = 0 /\ p \in 1..Len(k.outer)
    BY <1>1, <1>2 DEF StatementAt, NestedTripAt
  <2> QED
    BY <1>1, <1>2, <2>1 DEF Tensors, Accesses
<1>3. CASE p > Len(k.outer)
  <2>1. PICK r, n : r = p - Len(k.outer) - 1 /\ n = Len(k.nested)
    OBVIOUS
  <2>2. r \in Nat /\ n \in Nat
    BY <1>1, <1>3, <2>1
  <2>3. k.nested # <<>> /\ n > 0 /\ r < trips * n
    <3>1. CASE k.nested = <<>>
      <4>1. Len(k.nested) = 0 /\ (IF k.nested = <<>> THEN 0 ELSE trips) = 0
        BY <3>1
      <4>2. p <= Len(k.outer) + 0 * 0
        BY <4>1
      <4>3. Len(k.outer) \in Nat
        BY <1>1
      <4> QED
        BY <1>3, <4>2, <4>3
    <3>2. CASE k.nested # <<>>
      <4>1. n > 0
        BY <1>1, <2>1, <2>2, <3>2
      <4>2. trips * n \in Int
        BY <2>2
      <4>3. p <= Len(k.outer) + trips * n
        BY <2>1, <3>2
      <4>4. r < trips * n
        <5>1. PICK x \in Int : x = trips * n
          BY <4>2
        <5>2. p <= Len(k.outer) + x /\ Len(k.outer) \in Nat
          BY <1>1, <4>3, <5>1
        <5>3. r < x
          BY <2>1, <5>2
        <5> QED
          BY <5>1, <5>3
      <4> QED
        BY <3>2, <4>1, <4>4
    <3> QED
      BY <3>1, <3>2
  <2>4. (r % n) + 1 \in 1..n /\ r \div n \in Nat
    BY <2>2, <2>3
  <2>5. r \div n < trips
    <3>1. PICK q \in Nat : q = r \div n
      BY <2>4
    <3>2. n * q <= r
      BY <2>2, <2>3, <3>1
    <3>3. ASSUME trips <= q PROVE FALSE
      <4>1. \A z \in Int : z >= 0 => z * n >= 0
        BY <2>2
      <4>2. (q - trips) * n >= 0
        BY <3>3, <4>1
      <4>3. (q - trips) * n = n * q - trips * n /\ n * q \in Int /\ trips * n \in Int
        BY <2>2
      <4> QED
        BY <2>2, <2>3, <3>2, <4>2, <4>3
    <3> QED
      BY <3>1, <3>3
  <2>6. StatementAt(k, p) = k.nested[(r % n) + 1] /\ NestedTripAt(k, p) = r \div n
    <3>1. ~(p <= Len(k.outer))
      BY <1>1, <1>3
    <3>2. /\ StatementAt(k, p) = k.nested[((p - Len(k.outer) - 1) % Len(k.nested)) + 1]
          /\ NestedTripAt(k, p) = (p - Len(k.outer) - 1) \div Len(k.nested)
      BY <3>1, Zenon DEF StatementAt, NestedTripAt
    <3> QED
      BY <2>1, <3>2, Zenon
  <2> QED
    BY <1>1, <2>1, <2>4, <2>5, <2>6 DEF Tensors, Accesses
<1> QED
  BY <1>1, <1>2, <1>3

\* The nested loop covers exactly the real part of its grid tile.
LEMMA NestedIsLoop ==
  ASSUME NEW k \in Kernels, NEW i \in Iterations(k), 1 \in GridIds(k), k.grid[1].kind = "tile"
  PROVE  /\ NestedLoop(k, i) \in Loop
         /\ NestedLoop(k, i).begin = TileOffset(k.grid[1], i[1])
         /\ NestedLoop(k, i).end = TileOffset(k.grid[1], i[1])
                                   + ValidSize(k.grid[1], TileOffset(k.grid[1], i[1]), NoSpan)
         /\ NestedLoop(k, i).step = k.inner /\ k.inner \in Nat \ {0}
         /\ NestedLoop(k, i).kind = "tile" /\ NestedLoop(k, i).static = FALSE
         /\ TileExtent(NestedLoop(k, i)) = k.inner
         /\ 0 < TripCount(NestedLoop(k, i))
PROOF
<1>1. k.grid[1] \in Loop /\ i[1] \in Nat /\ i[1] < TripCount(k.grid[1]) /\ k.inner \in Nat \ {0}
  BY KernelAssumption, GridFacts DEF Kernel, Iterations
<1>2. PICK off, v : /\ off = TileOffset(k.grid[1], i[1])
                    /\ v = ValidSize(k.grid[1], TileOffset(k.grid[1], i[1]), NoSpan)
  OBVIOUS
<1>3. off \in Int /\ v \in Nat \ {0}
  BY <1>1, <1>2, TripsInside, TilesReal
<1>4. NestedLoop(k, i) = [begin |-> off, end |-> off + v, step |-> k.inner, kind |-> "tile",
                          static |-> FALSE]
  BY <1>2 DEF NestedLoop
<1>5. TileExtent(NestedLoop(k, i)) = k.inner
  BY <1>4 DEF TileExtent
<1>6. 0 < TripCount(NestedLoop(k, i))
  <2>1. PICK e, b, s : /\ e = NestedLoop(k, i).end /\ b = NestedLoop(k, i).begin
                       /\ s = NestedLoop(k, i).step
    OBVIOUS
  <2>2. e - b = v /\ e \in Int /\ b \in Int /\ s = k.inner
    BY <1>3, <1>4, <2>1
  <2>3. PICK q \in Int : q = (-(e - b)) \div s
    BY <1>1, <2>2
  <2>4. s * q <= -v /\ -v < 0
    BY <1>1, <1>3, <2>2, <2>3
  <2>5. ASSUME q >= 0 PROVE FALSE
    <3>1. \A z \in Int : z >= 0 => s * z >= 0
      BY <1>1, <2>2
    <3>2. s * q >= 0
      BY <2>5, <3>1
    <3>3. s * q \in Int
      BY <1>1, <2>2
    <3> QED
      BY <1>3, <2>4, <3>2, <3>3
  <2>6. 0 < -q
    BY <2>5
  <2>7. TripCount(NestedLoop(k, i)) = -((-(e - b)) \div s)
    BY <2>1 DEF TripCount, CeilDiv
  <2> QED
    BY <2>3, <2>6, <2>7
<1> QED
  BY <1>1, <1>2, <1>3, <1>4, <1>5, <1>6 DEF Loop

\* The tile of a trip of the nested loop is real, and ends with the grid tile.
LEMMA NestedTilesReal ==
  ASSUME NEW k \in Kernels, NEW i \in Iterations(k), 1 \in GridIds(k), k.grid[1].kind = "tile",
         NEW p, NestedTripAt(k, p) \in Nat, NestedTripAt(k, p) < TripCount(NestedLoop(k, i)),
         NEW m, NEW valid, valid = NestedValid(k, m, i, p)
  PROVE  /\ NestedOffset(k, i, p) \in Int
         /\ TileOffset(k.grid[1], i[1]) <= NestedOffset(k, i, p)
         /\ NestedOffset(k, i, p) < NestedLoop(k, i).end
         /\ valid \in Nat \ {0} /\ valid <= k.inner
         /\ NestedOffset(k, i, p) + valid <= NestedLoop(k, i).end
         /\ NestedOffset(k, i, p) + valid
              = LeastOf(NestedOffset(k, i, p) + k.inner, NestedLoop(k, i).end)
PROOF
<1>1. PICK loop, t, off : loop = NestedLoop(k, i) /\ t = NestedTripAt(k, p)
                          /\ off = NestedOffset(k, i, p)
  OBVIOUS
<1>2. /\ loop \in Loop /\ loop.step = k.inner /\ k.inner \in Nat \ {0}
      /\ loop.kind = "tile" /\ loop.static = FALSE /\ TileExtent(loop) = k.inner
      /\ loop.begin = TileOffset(k.grid[1], i[1])
      /\ loop.end = TileOffset(k.grid[1], i[1])
                    + ValidSize(k.grid[1], TileOffset(k.grid[1], i[1]), NoSpan)
      /\ t \in Nat /\ t < TripCount(loop) /\ off = TileOffset(loop, t)
  BY <1>1, NestedIsLoop DEF NestedOffset
<1>3. loop.begin \in Int /\ loop.end \in Int
  BY <1>2 DEF Loop
<1>4. off \in Int /\ loop.begin <= off /\ off < loop.end
  BY <1>2, TripsInside
<1>5. valid = ValidSize(loop, off, EnclosingSpan(k, m, i))
  BY <1>1 DEF NestedValid
<1>6. CASE AllTilesFull(loop, EnclosingSpan(k, m, i))
  <2>1. valid = k.inner
    BY <1>2, <1>5, <1>6 DEF ValidSize
  <2>2. EnclosingSpan(k, m, i) # NoSpan /\ EnclosingSpan(k, m, i) % k.inner = 0
    BY <1>2, <1>6 DEF AllTilesFull
  <2>3. /\ EnclosingSpan(k, m, i) = TileExtent(k.grid[1])
        /\ ValidSize(k.grid[1], TileOffset(k.grid[1], i[1]), NoSpan) = TileExtent(k.grid[1])
    BY <2>2 DEF EnclosingSpan, FullVersion, ValidSize
  <2>4. TileExtent(k.grid[1]) \in Nat
    BY TilesReal, GridFacts DEF Iterations
  <2>5. off = loop.begin + t * k.inner /\ t * k.inner \in Int
    BY <1>2 DEF TileOffset
  <2>6. t * k.inner + k.inner <= TileExtent(k.grid[1])
    <3>1. t * k.inner < TileExtent(k.grid[1])
      BY <1>2, <1>3, <1>4, <2>3, <2>4, <2>5
    <3> QED
      BY <1>2, <2>2, <2>3, <2>4, <3>1, WholeTiles
  <2> QED
    BY <1>1, <1>2, <1>3, <1>4, <2>1, <2>3, <2>4, <2>5, <2>6 DEF LeastOf
<1>7. CASE ~AllTilesFull(loop, EnclosingSpan(k, m, i))
  <2>1. valid = LeastOf(k.inner, loop.end - off)
    BY <1>2, <1>5, <1>7 DEF ValidSize
  <2> QED
    BY <1>1, <1>2, <1>3, <1>4, <2>1 DEF LeastOf
<1> QED
  BY <1>6, <1>7

-----------------------------------------------------------------------------
\* The subscripts of a kernel have their type.
LEMMA SubscriptTypes ==
  ASSUME NEW k \in Kernels, NEW n, NEW a \in Accesses(k, n), NEW d \in Nat \ {0},
         NEW s, s = SubscriptOf(a, d)
  PROVE  s \in Subscript /\ s.form \in Forms /\ s.bias \in Int /\ s.block \in Nat
PROOF
<1>1. a \in Access
  BY KernelAssumption DEF Accesses, Kernel
<1>2. a.index \in Seq(Subscript)
  BY <1>1 DEF Access
<1>3. CASE d <= Len(a.index)
  <2>1. \A q \in Seq(Subscript) : \A e \in 1..Len(q) : q[e] \in Subscript
    OBVIOUS
  <2>2. d \in 1..Len(a.index) /\ s = a.index[d]
    BY <1>2, <1>3 DEF SubscriptOf
  <2>3. s \in Subscript
    BY <1>2, <2>1, <2>2
  <2> QED
    BY <2>3 DEF Subscript
<1>4. CASE ~(d <= Len(a.index))
  BY <1>4 DEF SubscriptOf, WholeDim, Subscript, Forms
<1> QED
  BY <1>3, <1>4

\* An owned dim is subscripted by its owner in every access.
LEMMA OwnedByAll ==
  ASSUME NEW k, NEW n, NEW d, OwnedDim(k, n, d) # NoOwner, NEW a \in Accesses(k, n)
  PROVE  OwnedDim(k, n, d) = Owner(k, SubscriptOf(a, d))
PROOF
<1>1. PICK owners : owners = {Owner(k, SubscriptOf(x, d)) : x \in Accesses(k, n)}
  OBVIOUS
<1>2. PICK o \in owners : owners = {o} /\ OwnedDim(k, n, d) \in owners
  BY <1>1 DEF OwnedDim
<1>3. Owner(k, SubscriptOf(a, d)) \in owners
  BY <1>1
<1> QED
  BY <1>2, <1>3
\* The trips of the nested loop are counted by an integer, whatever loop is around it.
LEMMA NestedTripsAreInt ==
  ASSUME NEW k \in Kernels, NEW i \in Iterations(k)
  PROVE  TripCount(NestedLoop(k, i)) \in Int
PROOF
<1>1. 1 \in GridIds(k) /\ k.inner \in Nat \ {0}
  BY KernelAssumption DEF Kernel, GridIds
<1>2. k.grid[1] \in Loop /\ i[1] \in Nat
  BY <1>1, GridFacts
<1>3. PICK off, v : /\ off = TileOffset(k.grid[1], i[1])
                    /\ v = ValidSize(k.grid[1], TileOffset(k.grid[1], i[1]), NoSpan)
  OBVIOUS
<1>4. off \in Int
  <2>1. k.grid[1].begin \in Int /\ k.grid[1].step \in Int
    BY <1>2 DEF Loop
  <2> QED
    BY <1>2, <1>3, <2>1 DEF TileOffset
<1>5. v \in Int
  BY <1>2, <1>3, <1>4 DEF ValidSize, TileExtent, LeastOf, Loop
<1>6. PICK e, b, s : /\ e = NestedLoop(k, i).end /\ b = NestedLoop(k, i).begin
                     /\ s = NestedLoop(k, i).step
  OBVIOUS
<1>7. e \in Int /\ b \in Int /\ s \in Nat \ {0}
  BY <1>1, <1>3, <1>4, <1>5, <1>6 DEF NestedLoop
<1>8. PICK q \in Int : q = (-(e - b)) \div s
  BY <1>7
<1>9. TripCount(NestedLoop(k, i)) = -((-(e - b)) \div s)
  BY <1>6 DEF TripCount, CeilDiv
<1> QED
  BY <1>8, <1>9

\* A subscript the lowering accepts never shifts a tile before position 0.
LEMMA ShiftsAccepted ==
  ASSUME NEW k \in Kernels, ~Refused(k), NEW n \in Tensors(k), NEW d \in 1..Rank(k, n),
         NEW a \in Accesses(k, n), NEW s, s = SubscriptOf(a, d), s.form = "tile",
         NEW b, b = (IF s.block = 0 THEN 1 ELSE s.block), b \in GridIds(k),
         k.grid[b].begin >= 0
  PROVE  /\ s.bias \in Int /\ s.block \in Nat
         /\ k.grid[b].begin + s.bias >= 0
PROOF
<1>2. s.bias \in Int /\ s.block \in Nat
  <2>1. d \in Nat \ {0}
    OBVIOUS
  <2> QED
    BY <2>1, SubscriptTypes
<1>3. d \in 1..MaxRank
  <2>1. Len(k.shape[n]) <= MaxRank /\ MaxRank \in Nat /\ k.shape[n] \in Seq(0..MaxExtent)
    BY KernelAssumption DEF Kernel, Tensors
  <2> QED
    BY <2>1 DEF Rank
<1>4. /\ ~(s.block = 0 /\ s.bias < 0)
      /\ s.block # 0 /\ s.bias # 0 => ~MayIndexBeforeStart(k.grid[s.block], s.bias)
  BY <1>2, <1>3 DEF Refused
<1>5. k.grid[b].begin \in Int
  <2>1. k.grid \in Seq(Loop)
    BY KernelAssumption DEF Kernel
  <2>2. k.grid[b] \in Loop
    BY <2>1 DEF GridIds
  <2> QED
    BY <2>2 DEF Loop
<1>6. CASE s.bias >= 0
  BY <1>2, <1>5, <1>6
<1>7. CASE s.bias < 0
  <2>1. ~MayIndexBeforeStart(k.grid[b], s.bias)
    BY <1>2, <1>4, <1>7
  <2> QED
    BY <1>2, <1>5, <1>7, <2>1 DEF MayIndexBeforeStart
<1> QED
  BY <1>2, <1>6, <1>7

\* The program's words for the shape of a kernel are the loop's.
LEMMA SameWords ==
  /\ \A a, b : Abstract!LeastOf(a, b) = LeastOf(a, b)
  /\ \A a, b : Abstract!CeilDiv(a, b) = CeilDiv(a, b)
  /\ \A loop : Abstract!TileExtent(loop) = TileExtent(loop)
  /\ \A k, p : Abstract!StatementAt(k, p) = StatementAt(k, p)
  /\ \A k, p : Abstract!NestedTripAt(k, p) = NestedTripAt(k, p)
  /\ \A a, d : Abstract!SubscriptOf(a, d) = SubscriptOf(a, d)
  /\ \A k, n : Abstract!Rank(k, n) = Rank(k, n)
  /\ \A k : Abstract!Iterations(k) = Iterations(k)
  /\ \A k : Abstract!Tensors(k) = Tensors(k)
  /\ \A k, n : Abstract!Accesses(k, n) = Accesses(k, n)
  /\ \A size : Abstract!Cells(size) = Cells(size)
  /\ \A n, c : Abstract!Old(n, c) = Old(n, c)
  /\ \A i, j : Abstract!Precedes(i, j) = Precedes(i, j)
  /\ Abstract!Zero = Zero
PROOF
<1>1. \A a, b : Abstract!LeastOf(a, b) = LeastOf(a, b)
  BY DEF Abstract!LeastOf, LeastOf
<1>2. \A a, b : Abstract!CeilDiv(a, b) = CeilDiv(a, b)
  BY Zenon DEF Abstract!CeilDiv, CeilDiv
<1>3. \A loop : Abstract!TileExtent(loop) = TileExtent(loop)
  BY Zenon DEF Abstract!TileExtent, TileExtent, Abstract!LeastOf, LeastOf
<1>4. \A k, p : Abstract!StatementAt(k, p) = StatementAt(k, p)
  BY Zenon DEF Abstract!StatementAt, StatementAt
<1>5. \A k, p : Abstract!NestedTripAt(k, p) = NestedTripAt(k, p)
  BY Zenon DEF Abstract!NestedTripAt, NestedTripAt
<1>6. \A a, d : Abstract!SubscriptOf(a, d) = SubscriptOf(a, d)
  BY Zenon DEF Abstract!SubscriptOf, SubscriptOf, Abstract!WholeDim, WholeDim
<1>7. \A k, n : Abstract!Rank(k, n) = Rank(k, n)
  BY DEF Abstract!Rank, Rank
<1>8. \A k : Abstract!Iterations(k) = Iterations(k)
  BY Zenon DEF Abstract!Iterations, Iterations, Abstract!GridIds, GridIds, Abstract!TripCount,
               TripCount, Abstract!CeilDiv, CeilDiv
<1>9. \A k : Abstract!Tensors(k) = Tensors(k)
  BY DEF Abstract!Tensors, Tensors
<1>10. \A k, n : Abstract!Accesses(k, n) = Accesses(k, n)
  BY Zenon DEF Abstract!Accesses, Accesses
<1>11. \A size : Abstract!Cells(size) = Cells(size)
  BY Zenon DEF Abstract!Cells, Cells
<1>12. \A n, c : Abstract!Old(n, c) = Old(n, c)
  BY DEF Abstract!Old, Old
<1>13. \A i, j : Abstract!Precedes(i, j) = Precedes(i, j)
  BY Zenon DEF Abstract!Precedes, Precedes
<1>14. Abstract!Zero = Zero
  BY DEF Abstract!Zero, Zero
<1> QED
  BY <1>1, <1>2, <1>3, <1>4, <1>5, <1>6, <1>7, <1>8, <1>9, <1>10, <1>11, <1>12, <1>13, <1>14

\* A tile of the grid begins and ends where the program's does.
LEMMA TileEnds ==
  ASSUME NEW k \in Kernels, NEW i \in Iterations(k), NEW b \in GridIds(k)
  PROVE  /\ Abstract!TileBegin(k, i, b) = TileOffset(k.grid[b], i[b])
         /\ Abstract!TileBegin(k, i, b) \in Int
         /\ k.grid[b].kind = "tile" =>
              Abstract!TileEnd(k, i, b)
                = LeastOf(TileOffset(k.grid[b], i[b]) + k.grid[b].step, k.grid[b].end)
PROOF
<1>1. /\ k.grid[b] \in Loop /\ i[b] \in Nat /\ k.grid[b].begin \in Int
      /\ k.grid[b].end \in Int /\ k.grid[b].step \in Nat \ {0}
  BY GridFacts DEF Loop
<1>2. Abstract!TileBegin(k, i, b) = TileOffset(k.grid[b], i[b])
  BY DEF Abstract!TileBegin, TileOffset
<1>3. TileOffset(k.grid[b], i[b]) \in Int
  BY <1>1 DEF TileOffset
<1>4. ASSUME k.grid[b].kind = "tile"
      PROVE  Abstract!TileEnd(k, i, b)
               = LeastOf(TileOffset(k.grid[b], i[b]) + k.grid[b].step, k.grid[b].end)
  BY <1>1, <1>2, <1>3, <1>4 DEF Abstract!TileEnd, LeastOf
<1> QED
  BY <1>2, <1>3, <1>4

\* What a grid tile selects of a dimension lies in it, and is no wider than the tile.
LEMMA GridWindowInside ==
  ASSUME NEW k \in Kernels, NEW i \in Iterations(k), NEW b \in GridIds(k),
         k.grid[b].kind = "tile", NEW bias \in Int, k.grid[b].begin + bias >= 0,
         NEW extent \in Nat, NEW window, window = GridWindow(k, i, b, bias, extent)
  PROVE  /\ window.offset \in Nat /\ window.size \in Nat
         /\ window.offset + window.size <= extent
         /\ window.size <= TileExtent(k.grid[b]) /\ TileExtent(k.grid[b]) \in Nat
         /\ Selects(window.offset, window.size, Abstract!TileBegin(k, i, b) + bias,
                    LeastOf(Abstract!TileEnd(k, i, b) + bias, extent))
PROOF
<1>1. PICK loop, t, off, valid : /\ loop = k.grid[b] /\ t = i[b] /\ off = TileOffset(loop, t)
                                 /\ valid = ValidSize(loop, off, NoSpan)
  OBVIOUS
<1>2. loop \in Loop /\ loop.kind = "tile" /\ t \in Nat /\ t < TripCount(loop) /\ loop.begin \in Int
  BY <1>1, GridFacts DEF Iterations, Loop
<1>3. off \in Int /\ loop.begin <= off
  BY <1>1, <1>2, TripsInside
<1>4. /\ TileExtent(loop) \in Nat /\ valid \in Nat /\ valid <= TileExtent(loop)
      /\ off + valid <= loop.end /\ off + valid = LeastOf(off + loop.step, loop.end)
  BY <1>1, <1>2, TilesReal
<1>5. 0 <= off + bias
  BY <1>1, <1>2, <1>3
<1>6. window = TileWindow(loop, off, valid, bias, extent)
  BY <1>1 DEF GridWindow
<1>7. /\ window.offset \in Nat /\ window.size \in Nat
      /\ window.offset + window.size <= extent /\ window.size <= valid
      /\ Selects(window.offset, window.size, off + bias, LeastOf(off + valid + bias, extent))
  BY <1>2, <1>3, <1>4, <1>5, <1>6, WindowInside
<1>8. off = Abstract!TileBegin(k, i, b) /\ off + valid = Abstract!TileEnd(k, i, b)
  BY <1>1, <1>2, <1>4, TileEnds
<1> QED
  BY <1>1, <1>4, <1>7, <1>8

\* The same of a tile of the nested loop, shifted to the right or not at all.
LEMMA NestedWindowInside ==
  ASSUME NEW k \in Kernels, NEW i \in Iterations(k), 1 \in GridIds(k),
         k.grid[1].kind = "tile", k.grid[1].begin >= 0,
         NEW p, NestedTripAt(k, p) \in Nat, NestedTripAt(k, p) < TripCount(NestedLoop(k, i)),
         NEW m, NEW bias \in Int, k.grid[1].begin + bias >= 0, NEW extent \in Nat, NEW window,
         window = TileWindow(k.grid[1], NestedOffset(k, i, p), NestedValid(k, m, i, p),
                             bias, extent)
  PROVE  /\ window.offset \in Nat /\ window.size \in Nat
         /\ window.offset + window.size <= extent
         /\ window.size <= TileExtent(NestedLoop(k, i)) /\ TileExtent(NestedLoop(k, i)) \in Nat
         /\ Selects(window.offset, window.size, NestedOffset(k, i, p) + bias,
                    LeastOf(LeastOf(NestedOffset(k, i, p) + k.inner, NestedLoop(k, i).end)
                            + bias, extent))
PROOF
<1>1. PICK loop, t, off, valid : /\ loop = k.grid[1] /\ t = TileOffset(k.grid[1], i[1])
                                 /\ off = NestedOffset(k, i, p)
                                 /\ valid = NestedValid(k, m, i, p)
  OBVIOUS
<1>2. /\ loop \in Loop /\ loop.begin \in Int /\ loop.end \in Int
      /\ i[1] \in Nat /\ i[1] < TripCount(loop)
  BY <1>1, GridFacts DEF Iterations, Loop
<1>3. /\ off \in Int /\ t <= off /\ valid \in Nat \ {0} /\ valid <= k.inner
      /\ off + valid <= NestedLoop(k, i).end
      /\ off + valid = LeastOf(off + k.inner, NestedLoop(k, i).end)
  BY <1>1, NestedTilesReal
<1>4. TileExtent(NestedLoop(k, i)) = k.inner /\ k.inner \in Nat \ {0}
  BY NestedIsLoop
<1>5. /\ t \in Int /\ loop.begin <= t
      /\ NestedLoop(k, i).end = t + ValidSize(loop, t, NoSpan)
      /\ ValidSize(loop, t, NoSpan) \in Nat /\ t + ValidSize(loop, t, NoSpan) <= loop.end
  BY <1>1, <1>2, NestedIsLoop, TripsInside, TilesReal
<1>6. off + valid <= loop.end
  BY <1>2, <1>3, <1>5
<1>7. 0 <= off + bias
  BY <1>1, <1>2, <1>3, <1>5
<1>8. /\ window.offset \in Nat /\ window.size \in Nat
      /\ window.offset + window.size <= extent /\ window.size <= valid
      /\ Selects(window.offset, window.size, off + bias, LeastOf(off + valid + bias, extent))
  BY <1>1, <1>2, <1>3, <1>6, <1>7, WindowInside
<1> QED
  BY <1>1, <1>3, <1>4, <1>8

\* Inside the region of the grid tile around it, a nested tile is as wide as it is real.
LEMMA InnerTileInside ==
  ASSUME NEW k \in Kernels, NEW i \in Iterations(k), 1 \in GridIds(k),
         k.grid[1].kind = "tile", k.grid[1].begin >= 0,
         NEW p, NestedTripAt(k, p) \in Nat, NestedTripAt(k, p) < TripCount(NestedLoop(k, i)),
         NEW m, NEW extent \in Nat, k.grid[1].end <= extent,
         NEW window, window = GridWindow(k, i, 1, 0, extent),
         NEW region, region = window.size, NEW fixed \in BOOLEAN,
         NEW tile, tile = InnerTile(NestedLoop(k, i), NestedOffset(k, i, p),
                                    NestedValid(k, m, i, p), TileOffset(k.grid[1], i[1]),
                                    region, fixed)
  PROVE  /\ tile.offset \in Nat /\ tile.size \in Nat /\ region \in Nat
         /\ tile.offset + tile.size <= region
         /\ tile.size <= TileExtent(NestedLoop(k, i)) /\ TileExtent(NestedLoop(k, i)) \in Nat
         /\ Selects(window.offset + tile.offset, tile.size, NestedOffset(k, i, p),
                    LeastOf(LeastOf(NestedOffset(k, i, p) + k.inner, NestedLoop(k, i).end),
                            extent))
PROOF
<1>1. PICK loop, t, off, valid, whole :
        /\ loop = k.grid[1] /\ t = TileOffset(k.grid[1], i[1])
        /\ off = NestedOffset(k, i, p) /\ valid = NestedValid(k, m, i, p)
        /\ whole = ValidSize(k.grid[1], TileOffset(k.grid[1], i[1]), NoSpan)
  OBVIOUS
<1>2. /\ loop \in Loop /\ loop.begin \in Int /\ loop.end \in Int
      /\ i[1] \in Nat /\ i[1] < TripCount(loop)
  BY <1>1, GridFacts DEF Iterations, Loop
<1>3. /\ off \in Int /\ t <= off /\ valid \in Nat \ {0} /\ valid <= k.inner
      /\ off + valid <= NestedLoop(k, i).end
      /\ off + valid = LeastOf(off + k.inner, NestedLoop(k, i).end)
  BY <1>1, NestedTilesReal
<1>4. TileExtent(NestedLoop(k, i)) = k.inner /\ k.inner \in Nat \ {0}
  BY NestedIsLoop
<1>5. /\ t \in Int /\ loop.begin <= t /\ NestedLoop(k, i).end = t + whole
      /\ whole \in Nat \ {0} /\ t + whole <= loop.end
  BY <1>1, <1>2, NestedIsLoop, TripsInside, TilesReal
<1>6. region = whole /\ window.offset = t
  <2>1. window = TileWindow(loop, t, whole, 0, extent)
    BY <1>1 DEF GridWindow
  <2>2. CASE EndsInside(loop, 0, extent)
    BY <1>5, <2>1, <2>2 DEF TileWindow
  <2>3. CASE ~EndsInside(loop, 0, extent)
    <3>1. /\ region = LeastOf(whole, extent - LeastOf(t + 0, extent))
          /\ window.offset = LeastOf(t + 0, extent)
      BY <2>1, <2>3 DEF TileWindow
    <3> QED
      BY <1>1, <1>2, <1>5, <3>1 DEF LeastOf
  <2> QED
    BY <2>2, <2>3
<1>7. tile.offset = off - t /\ tile.size \in {valid, LeastOf(region - (off - t), valid)}
  BY <1>1 DEF InnerTile
<1>8. off - t + valid <= region
  BY <1>3, <1>5, <1>6
<1>9. LeastOf(region - (off - t), valid) = valid
  BY <1>3, <1>5, <1>6, <1>8 DEF LeastOf
<1>10. LeastOf(off + valid, extent) = off + valid
  BY <1>1, <1>2, <1>3, <1>5 DEF LeastOf
<1>11. tile.size = valid /\ window.offset + tile.offset = off
  BY <1>3, <1>5, <1>6, <1>7, <1>9
<1>12. Selects(window.offset + tile.offset, tile.size, off, LeastOf(off + valid, extent))
  BY <1>3, <1>10, <1>11 DEF Selects
<1> QED
  BY <1>1, <1>3, <1>4, <1>5, <1>6, <1>7, <1>8, <1>9, <1>12

\* A position is the one element the program names.
LEMMA PositionIsFirst ==
  ASSUME NEW k \in Kernels, NEW i \in Iterations(k), NEW q, NEW s,
         s.form \in {"grid", "tile_begin", "tile_id", "tile_end"}, s.block \in GridIds(k),
         s.form = "tile_end" => k.grid[s.block].kind = "tile"
  PROVE  /\ ScalarTileValue(k, i, s.block, s.form) \in Int
         /\ ScalarTileValue(k, i, s.block, s.form) = Abstract!First(k, i, q, s)
PROOF
<1>1. PICK b, loop, t, off : /\ b = s.block /\ loop = k.grid[b] /\ t = i[b]
                             /\ off = TileOffset(loop, t)
  OBVIOUS
<1>2. /\ b \in GridIds(k) /\ loop \in Loop /\ t \in Nat /\ loop.begin \in Int
      /\ loop.end \in Int /\ loop.step \in Nat \ {0} /\ t < TripCount(loop)
  BY <1>1, GridFacts DEF Loop, Iterations
<1>3. off \in Int /\ off = Abstract!TileBegin(k, i, b)
  BY <1>1, <1>2, TileEnds
<1>4. CASE s.form \in {"grid", "tile_begin"}
  <2>1. ScalarTileValue(k, i, s.block, s.form) = off
    BY <1>1, <1>4 DEF ScalarTileValue
  <2>2. Abstract!First(k, i, q, s) = Abstract!TileBegin(k, i, b)
    BY <1>1, <1>4 DEF Abstract!First
  <2> QED
    BY <1>3, <2>1, <2>2
<1>5. CASE s.form = "tile_id"
  <2>1. ScalarTileValue(k, i, s.block, s.form) = TileId(loop, t)
    BY <1>1, <1>5 DEF ScalarTileValue
  <2>2. Abstract!First(k, i, q, s) = off \div loop.step
    <3>1. Abstract!First(k, i, q, s) = Abstract!TileBegin(k, i, b) \div loop.step
      BY <1>1, <1>5, Zenon DEF Abstract!First
    <3> QED
      BY <1>3, <3>1, Zenon
  <2>3. TileId(loop, t) = off \div loop.step
    <3>1. CASE loop.static /\ loop.begin = 0
      <4>1. TileId(loop, t) = t
        BY <3>1 DEF TileId
      <4>2. off = t * loop.step
        BY <1>1, <1>2, <3>1 DEF TileOffset
      <4>3. (t * loop.step) \div loop.step = t
        BY <1>2, QuotientOfMultiple
      <4>4. off \div loop.step = (t * loop.step) \div loop.step
        BY <4>2, Zenon
      <4> QED
        BY <4>1, <4>3, <4>4, Zenon
    <3>2. CASE ~(loop.static /\ loop.begin = 0)
      BY <1>1, <3>2, Zenon DEF TileId
    <3> QED
      BY <3>1, <3>2
  <2>4. off \div loop.step \in Int
    BY <1>2, <1>3
  <2> QED
    BY <2>1, <2>2, <2>3, <2>4, Zenon
<1>6. CASE s.form = "tile_end"
  <2>1. ScalarTileValue(k, i, s.block, s.form) = off + ValidSize(loop, off, NoSpan)
    BY <1>1, <1>6 DEF ScalarTileValue
  <2>2. Abstract!First(k, i, q, s) = Abstract!TileEnd(k, i, b)
    BY <1>1, <1>6 DEF Abstract!First
  <2>3. off + ValidSize(loop, off, NoSpan) = LeastOf(off + loop.step, loop.end)
    BY <1>1, <1>2, <1>6, TilesReal
  <2>4. Abstract!TileEnd(k, i, b) = LeastOf(off + loop.step, loop.end)
    BY <1>1, <1>2, <1>6, TileEnds
  <2>5. LeastOf(off + loop.step, loop.end) \in Int
    BY <1>2, <1>3 DEF LeastOf
  <2> QED
    BY <2>1, <2>2, <2>3, <2>4, <2>5
<1> QED
  BY <1>4, <1>5, <1>6

\* A tile of the nested loop begins and ends where the program's does.
LEMMA NestedEnds ==
  ASSUME NEW k \in Kernels, NEW i \in Iterations(k), IsTileLoop(k, 1),
         NEW p, NestedTripAt(k, p) \in Nat
  PROVE  /\ NestedOffset(k, i, p) = Abstract!NestedBegin(k, i, NestedTripAt(k, p))
         /\ NestedLoop(k, i).end = Abstract!TileEnd(k, i, 1)
PROOF
<1>1. 1 \in GridIds(k) /\ k.grid[1].kind = "tile"
  BY DEF IsTileLoop
<1>2. PICK loop, t, off : loop = k.grid[1] /\ t = i[1] /\ off = TileOffset(loop, t)
  OBVIOUS
<1>3. loop \in Loop /\ loop.kind = "tile" /\ t \in Nat /\ t < TripCount(loop)
  BY <1>1, <1>2, GridFacts DEF Iterations
<1>4. /\ NestedLoop(k, i).begin = off /\ NestedLoop(k, i).step = k.inner
      /\ NestedLoop(k, i).end = off + ValidSize(loop, off, NoSpan)
  BY <1>1, <1>2, NestedIsLoop
<1>5. off = Abstract!TileBegin(k, i, 1)
  BY <1>1, <1>2, TileEnds
<1>6. off + ValidSize(loop, off, NoSpan) = LeastOf(off + loop.step, loop.end)
  BY <1>2, <1>3, TilesReal
<1>7. Abstract!TileEnd(k, i, 1) = LeastOf(off + loop.step, loop.end)
  BY <1>1, <1>2, TileEnds
<1> QED
  BY <1>4, <1>5, <1>6, <1>7 DEF NestedOffset, TileOffset, Abstract!NestedBegin

\* Extents are natural numbers.
LEMMA Extents ==
  ASSUME NEW k \in Kernels, NEW n \in Tensors(k), NEW d \in 1..Rank(k, n)
  PROVE  k.shape[n][d] \in 0..MaxExtent /\ k.shape[n][d] \in Nat /\ MaxExtent \in Nat
         /\ d \in DOMAIN k.shape[n] /\ DOMAIN k.shape[n] = 1..Rank(k, n)
PROOF
<1>1. k.shape[n] \in Seq(0..MaxExtent) /\ MaxExtent \in Nat
  BY KernelAssumption DEF Kernel, Tensors
<1>2. \A S : \A q \in Seq(S) : DOMAIN q = 1..Len(q) /\ \A e \in 1..Len(q) : q[e] \in S
  OBVIOUS
<1>3. d \in 1..Len(k.shape[n])
  BY DEF Rank
<1>4. k.shape[n][d] \in 0..MaxExtent /\ DOMAIN k.shape[n] = 1..Len(k.shape[n])
  BY <1>1, <1>2, <1>3
<1> QED
  BY <1>1, <1>3, <1>4 DEF Rank

\* What an iteration owns of a dimension lies in it.
LEMMA RegionDimInside ==
  ASSUME NEW k \in Kernels, IndexesInside(k), NEW i \in Iterations(k), NEW m,
         NEW n \in Tensors(k), NEW d \in 1..Rank(k, n),
         NEW region, region = RegionDim(k, i, OwnerIn(k, m, n, d), k.shape[n][d])
  PROVE  /\ region.offset \in Nat /\ region.size \in Nat
         /\ region.offset + region.size <= k.shape[n][d]
PROOF
<1>1. PICK extent, owner : extent = k.shape[n][d] /\ owner = OwnerIn(k, m, n, d)
  OBVIOUS
<1>2. extent \in Nat
  BY <1>1, Extents
<1>3. CASE owner = NoOwner
  BY <1>1, <1>2, <1>3 DEF RegionDim
<1>4. CASE owner # NoOwner
  <2>1. n \in Written(k) /\ owner = OwnedDim(k, n, d)
    BY <1>1, <1>4 DEF OwnerIn
  <2>2. PICK a \in Accesses(k, n) : TRUE
    BY <2>1 DEF Written, Accesses
  <2>3. PICK s : s = SubscriptOf(a, d)
    OBVIOUS
  <2>4. owner = Owner(k, s)
    BY <1>4, <2>1, <2>3, OwnedByAll
  <2>5. SubscriptInside(k, n, s, extent) /\ \A b \in GridIds(k) : k.grid[b].begin >= 0
    BY <1>1, <2>3 DEF IndexesInside
  <2>6. CASE owner.point
    <3>1. /\ s.form \in {"grid", "tile_begin", "tile_id"}
          /\ owner.block = s.block /\ owner.kind = s.form
      BY <1>4, <2>4, <2>6 DEF Owner
    <3>2. region = [offset |-> ScalarTileValue(k, i, s.block, s.form), size |-> 1]
      BY <1>1, <1>4, <2>6, <3>1 DEF RegionDim
    <3>3. ScalarTileValue(k, i, s.block, s.form) \in 0..(extent - 1)
      BY <2>5, <3>1 DEF SubscriptInside, PositionInside
    <3> QED
      BY <1>1, <1>2, <3>2, <3>3
  <2>7. CASE ~owner.point
    <3>1. s.form = "tile" /\ owner.block = (IF s.block = 0 THEN 1 ELSE s.block)
      BY <1>4, <2>4, <2>7 DEF Owner
    <3>2. owner.block \in GridIds(k) /\ k.grid[owner.block].kind = "tile"
      BY <2>5, <3>1 DEF SubscriptInside, TilesInside, IsTileLoop
    <3>3. region = GridWindow(k, i, owner.block, 0, extent)
      BY <1>1, <1>4, <2>7 DEF RegionDim
    <3>4. k.grid[owner.block].begin \in Int
      BY <3>2, GridFacts DEF Loop
    <3> QED
      BY <1>1, <1>2, <2>5, <3>2, <3>3, <3>4, GridWindowInside
  <2> QED
    BY <2>6, <2>7
<1> QED
  BY <1>3, <1>4

\* A statement of an iteration is one the program has, on a trip of its nested loop.
LEMMA StatementFacts ==
  ASSUME NEW k \in Kernels, NEW i \in Iterations(k), NEW p \in Nat \ {0}, p <= Steps(k, i)
  PROVE  /\ StatementAt(k, p).tensor \in Tensors(k)
         /\ StatementAt(k, p) \in Accesses(k, StatementAt(k, p).tensor)
         /\ NestedTripAt(k, p) \in Nat
         /\ IsTileLoop(k, 1) => NestedTripAt(k, p) < TripCount(NestedLoop(k, i))
PROOF
<1>1. PICK trips \in Int : trips = TripCount(NestedLoop(k, i))
  BY NestedTripsAreInt
<1>2. p <= Len(k.outer) + (IF k.nested = <<>> THEN 0 ELSE trips) * Len(k.nested)
  BY <1>1, Zenon DEF Steps, NestedTrips
<1>3. /\ StatementAt(k, p).tensor \in Tensors(k)
      /\ StatementAt(k, p) \in Accesses(k, StatementAt(k, p).tensor)
      /\ NestedTripAt(k, p) \in Nat
      /\ p > Len(k.outer) => NestedTripAt(k, p) < trips
  BY <1>2, StatementsOf
<1>4. ASSUME IsTileLoop(k, 1) PROVE NestedTripAt(k, p) < trips
  <2>1. 0 < trips
    BY <1>1, <1>4, NestedIsLoop DEF IsTileLoop
  <2>2. Len(k.outer) \in Nat
    BY KernelAssumption DEF Kernel
  <2>3. CASE p <= Len(k.outer)
    BY <2>1, <2>3 DEF NestedTripAt
  <2> QED
    BY <1>3, <2>2, <2>3
<1> QED
  BY <1>1, <1>3, <1>4

\* What a statement takes of one dimension, d of tensor n, lies inside what it works on
\* and is what the program names.
LEMMA DimensionInside ==
  ASSUME NEW k \in Kernels, IndexesInside(k), ~Refused(k), NEW i \in Iterations(k),
         NEW p \in Nat \ {0}, p <= Steps(k, i), NEW m,
         NEW access, access = StatementAt(k, p), NEW n, n = access.tensor,
         NEW d \in 1..Rank(k, n),
         NEW slice, slice = PlanSlice(k, m, i, p)[d],
         NEW region, region = RegionDim(k, i, OwnerIn(k, m, n, d), k.shape[n][d]),
         NEW first, first = Abstract!FirstOf(k, [iteration |-> i, at |-> p], d),
         NEW past, past = Abstract!EndOf(k, [iteration |-> i, at |-> p], d)
  PROVE  /\ slice.offset \in Nat /\ slice.size \in Nat
         /\ slice.offset + slice.size <= region.size
         /\ slice.size <= TileShape(k, i, access)[d]
         /\ first \in Int /\ past \in Int
         /\ Selects(region.offset + slice.offset, slice.size, first, past)
PROOF
<1>1. PICK s, extent, owner, width, q :
        /\ s = SubscriptOf(access, d) /\ extent = k.shape[n][d]
        /\ owner = OwnerIn(k, m, n, d) /\ width = TileWidth(k, i, s, extent)
        /\ q = NestedTripAt(k, p)
  OBVIOUS
<1>2. width = TileShape(k, i, access)[d]
  BY <1>1 DEF TileShape
<1>3. /\ n \in Tensors(k) /\ access \in Accesses(k, n) /\ q \in Nat /\ d \in Nat \ {0}
      /\ NestedTripAt(k, p) \in Nat
      /\ IsTileLoop(k, 1) => NestedTripAt(k, p) < TripCount(NestedLoop(k, i))
  BY <1>1, StatementFacts
<1>4. extent \in Nat
  BY <1>1, <1>3, Extents
<1>5. SubscriptInside(k, n, s, extent) /\ \A b \in GridIds(k) : k.grid[b].begin >= 0
  BY <1>1, <1>3 DEF IndexesInside
<1>6. region = RegionDim(k, i, owner, extent)
  BY <1>1
<1>7. slice = IF owner = NoOwner THEN UnownedSlice(k, m, i, p, s, extent)
              ELSE OwnedSlice(k, m, i, p, s, owner, region.size, extent)
  BY <1>1, <1>6 DEF PlanSlice
<1>8. /\ first = Abstract!First(k, i, q, s)
      /\ past = LeastOf(Abstract!Past(k, i, q, s, extent), extent)
  BY <1>1, SameWords DEF Abstract!FirstOf, Abstract!EndOf, Abstract!AccessOf
<1>9. s.form \in Forms /\ s.bias \in Int
  BY <1>1, <1>3, SubscriptTypes
<1>10. ASSUME s.form = "tile"
       PROVE  /\ s.block = 0 => IsTileLoop(k, 1) /\ k.grid[1].begin + s.bias >= 0
              /\ s.block # 0 => IsTileLoop(k, s.block) /\ k.grid[s.block].begin + s.bias >= 0
  <2>1. CASE s.block = 0
    <3>1. IsTileLoop(k, 1)
      BY <1>5, <1>10, <2>1 DEF SubscriptInside, TilesInside
    <3> QED
      BY <1>1, <1>3, <1>5, <1>10, <2>1, <3>1, ShiftsAccepted DEF IsTileLoop
  <2>2. CASE s.block # 0
    <3>1. IsTileLoop(k, s.block)
      BY <1>5, <1>10, <2>2 DEF SubscriptInside, TilesInside
    <3> QED
      BY <1>1, <1>3, <1>5, <1>10, <2>2, <3>1, ShiftsAccepted DEF IsTileLoop
  <2> QED
    BY <2>1, <2>2
\* The elements a tile names.
<1>11. ASSUME s.form = "tile", s.block = 0
       PROVE  /\ first = NestedOffset(k, i, p) + s.bias /\ NestedOffset(k, i, p) \in Int
              /\ past = LeastOf(LeastOf(NestedOffset(k, i, p) + k.inner, NestedLoop(k, i).end)
                                + s.bias, extent)
              /\ first \in Int /\ past \in Int
  <2>1. IsTileLoop(k, 1)
    BY <1>10, <1>11
  <2>2. PICK off, e, v : off = NestedOffset(k, i, p) /\ e = NestedLoop(k, i).end
                         /\ v = LeastOf(off + k.inner, e)
    OBVIOUS
  <2>3. off \in Int /\ v \in Int
    <3>1. /\ NestedOffset(k, i, p) \in Int /\ NestedValid(k, m, i, p) \in Nat \ {0}
          /\ NestedOffset(k, i, p) + NestedValid(k, m, i, p) = v
      BY <1>3, <2>1, <2>2, NestedTilesReal DEF IsTileLoop
    <3> QED
      BY <2>2, <3>1
  <2>4. off = Abstract!NestedBegin(k, i, q) /\ e = Abstract!TileEnd(k, i, 1)
    BY <1>1, <1>3, <2>1, <2>2, NestedEnds
  <2>5. first = s.bias + off
    BY <1>8, <1>11, <2>4 DEF Abstract!First
  <2>6. past = LeastOf(s.bias + v, extent)
    BY <1>8, <1>11, <2>2, <2>4, SameWords DEF Abstract!Past
  <2> QED
    BY <1>4, <1>9, <2>2, <2>3, <2>5, <2>6 DEF LeastOf
<1>12. ASSUME s.form = "tile", s.block # 0
       PROVE  /\ first = Abstract!TileBegin(k, i, s.block) + s.bias
              /\ past = LeastOf(Abstract!TileEnd(k, i, s.block) + s.bias, extent)
              /\ first \in Int /\ past \in Int
  <2>1. s.block \in GridIds(k) /\ k.grid[s.block].kind = "tile"
    BY <1>10, <1>12 DEF IsTileLoop
  <2>2. PICK off, e : off = Abstract!TileBegin(k, i, s.block) /\ e = Abstract!TileEnd(k, i, s.block)
    OBVIOUS
  <2>3. off \in Int /\ e \in Int
    <3>1. k.grid[s.block].step \in Int /\ k.grid[s.block].end \in Int
      BY <2>1, GridFacts DEF Loop
    <3> QED
      BY <2>1, <2>2, <3>1, TileEnds DEF LeastOf
  <2>4. first = s.bias + off
    BY <1>8, <1>12, <2>2 DEF Abstract!First
  <2>5. past = LeastOf(s.bias + e, extent)
    BY <1>8, <1>12, <2>2 DEF Abstract!Past
  <2> QED
    BY <1>4, <1>9, <2>2, <2>3, <2>4, <2>5 DEF LeastOf
\* The one element a position names.
<1>13. ASSUME s.form \in {"grid", "tile_begin", "tile_id", "tile_end"}
       PROVE  /\ ScalarTileValue(k, i, s.block, s.form) \in 0..(extent - 1)
              /\ first = ScalarTileValue(k, i, s.block, s.form) /\ past = first + 1
  <2>1. PositionInside(k, s, extent)
    BY <1>5, <1>13 DEF SubscriptInside
  <2>2. ScalarTileValue(k, i, s.block, s.form) \in 0..(extent - 1)
    BY <2>1 DEF PositionInside
  <2>3. first = ScalarTileValue(k, i, s.block, s.form)
    BY <1>8, <1>13, <2>1, PositionIsFirst DEF PositionInside, IsTileLoop
  <2>4. past = LeastOf(first + 1, extent)
    BY <1>8, <1>13 DEF Abstract!Past
  <2> QED
    BY <1>4, <2>2, <2>3, <2>4 DEF LeastOf
<1>14. CASE owner = NoOwner
  <2>1. /\ region = [offset |-> 0, size |-> extent]
        /\ slice = UnownedSlice(k, m, i, p, s, extent)
    BY <1>6, <1>7, <1>14 DEF RegionDim
  <2>2. CASE s.form = "slice"
    <3>1. first = 0 /\ past = LeastOf(extent, extent)
      BY <1>8, <2>2 DEF Abstract!First, Abstract!Past
    <3>2. slice = [offset |-> 0, size |-> extent] /\ width = extent
      BY <1>1, <2>1, <2>2 DEF UnownedSlice, TileWidth
    <3> QED
      BY <1>2, <1>4, <2>1, <3>1, <3>2 DEF LeastOf, Selects
  <2>3. CASE s.form = "const"
    <3>1. first = s.bias /\ past = LeastOf(first + 1, extent)
      BY <1>8, <2>3 DEF Abstract!First, Abstract!Past
    <3>2. slice = [offset |-> s.bias, size |-> 1] /\ width = 1
      BY <1>1, <2>1, <2>3 DEF UnownedSlice, TileWidth
    <3>3. s.bias \in 0..(extent - 1)
      BY <1>5, <2>3 DEF SubscriptInside
    <3> QED
      BY <1>2, <1>4, <2>1, <3>1, <3>2, <3>3 DEF LeastOf, Selects
  <2>4. CASE s.form \in {"grid", "tile_begin", "tile_id", "tile_end"}
    <3>1. slice = [offset |-> ScalarTileValue(k, i, s.block, s.form), size |-> 1]
      BY <2>1, <2>4 DEF UnownedSlice
    <3>2. width = 1
      BY <1>1, <2>4 DEF TileWidth
    <3> QED
      BY <1>2, <1>4, <1>13, <2>1, <2>4, <3>1, <3>2 DEF Selects
  <2>5. CASE s.form = "tile" /\ s.block = 0
    <3>1. slice = TileWindow(k.grid[1], NestedOffset(k, i, p), NestedValid(k, m, i, p),
                             s.bias, extent)
      BY <2>1, <2>5 DEF UnownedSlice
    <3>2. width = TileExtent(NestedLoop(k, i))
      BY <1>1, <2>5 DEF TileWidth
    <3>3. 1 \in GridIds(k) /\ k.grid[1].kind = "tile" /\ k.grid[1].begin >= 0
          /\ k.grid[1].begin + s.bias >= 0 /\ NestedTripAt(k, p) < TripCount(NestedLoop(k, i))
      BY <1>3, <1>5, <1>10, <2>5 DEF IsTileLoop
    <3>4. /\ slice.offset \in Nat /\ slice.size \in Nat
          /\ slice.offset + slice.size <= extent /\ slice.size <= width
          /\ Selects(slice.offset, slice.size, first, past)
      BY <1>3, <1>4, <1>9, <1>11, <2>5, <3>1, <3>2, <3>3, NestedWindowInside
    <3>5. region.offset + slice.offset = slice.offset /\ region.size = extent
      BY <2>1, <3>4
    <3> QED
      BY <1>2, <1>11, <2>5, <3>4, <3>5
  <2>6. CASE s.form = "tile" /\ s.block # 0
    <3>1. slice = GridWindow(k, i, s.block, s.bias, extent)
      BY <2>1, <2>6 DEF UnownedSlice
    <3>2. width = TileExtent(k.grid[s.block])
      BY <1>1, <2>6 DEF TileWidth
    <3>3. s.block \in GridIds(k) /\ k.grid[s.block].kind = "tile"
          /\ k.grid[s.block].begin + s.bias >= 0
      BY <1>10, <2>6 DEF IsTileLoop
    <3>4. /\ slice.offset \in Nat /\ slice.size \in Nat
          /\ slice.offset + slice.size <= extent /\ slice.size <= width
          /\ Selects(slice.offset, slice.size, first, past)
      BY <1>4, <1>9, <1>12, <2>6, <3>1, <3>2, <3>3, GridWindowInside
    <3>5. region.offset + slice.offset = slice.offset /\ region.size = extent
      BY <2>1, <3>4
    <3> QED
      BY <1>2, <1>12, <2>6, <3>4, <3>5
  <2> QED
    BY <1>9, <2>2, <2>3, <2>4, <2>5, <2>6 DEF Forms
<1>15. CASE owner # NoOwner
  <2>1. n \in Written(k) /\ owner = OwnedDim(k, n, d)
    BY <1>1, <1>15 DEF OwnerIn
  <2>2. owner = Owner(k, s)
    BY <1>1, <1>3, <1>15, <2>1, OwnedByAll
  <2>3. slice = OwnedSlice(k, m, i, p, s, owner, region.size, extent)
    BY <1>7, <1>15
  <2>4. CASE owner.point
    <3>1. /\ s.form \in {"grid", "tile_begin", "tile_id"}
          /\ owner.block = s.block /\ owner.kind = s.form
      BY <1>15, <2>2, <2>4 DEF Owner
    <3>2. /\ region = [offset |-> ScalarTileValue(k, i, s.block, s.form), size |-> 1]
          /\ slice = [offset |-> 0, size |-> 1]
      BY <1>6, <1>15, <2>3, <2>4, <3>1 DEF OwnedSlice, RegionDim
    <3>3. width = 1
      BY <1>1, <3>1 DEF TileWidth
    <3> QED
      BY <1>2, <1>4, <1>13, <3>1, <3>2, <3>3 DEF Selects
  <2>5. CASE ~owner.point
    <3>1. /\ s.form = "tile" /\ s.bias = 0
          /\ owner.block = IF s.block = 0 THEN 1 ELSE s.block
      BY <1>15, <2>2, <2>5 DEF Owner
    <3>2. region = GridWindow(k, i, owner.block, 0, extent)
      BY <1>6, <1>15, <2>5 DEF RegionDim
    <3>3. CASE s.block # 0
      <4>1. slice = [offset |-> 0, size |-> region.size]
        BY <2>3, <2>5, <3>3 DEF OwnedSlice
      <4>2. width = TileExtent(k.grid[s.block])
        BY <1>1, <3>1, <3>3 DEF TileWidth
      <4>3. s.block \in GridIds(k) /\ k.grid[s.block].kind = "tile"
            /\ k.grid[s.block].begin + 0 >= 0
        BY <1>9, <1>10, <3>1, <3>3 DEF IsTileLoop
      <4>4. /\ region.offset \in Nat /\ region.size \in Nat /\ region.size <= width
            /\ Selects(region.offset, region.size, Abstract!TileBegin(k, i, s.block) + 0,
                       LeastOf(Abstract!TileEnd(k, i, s.block) + 0, extent))
        BY <1>4, <3>1, <3>2, <3>3, <4>2, <4>3, GridWindowInside
      <4>5. Selects(region.offset, region.size, first, past)
        BY <1>12, <3>1, <3>3, <4>4
      <4>6. /\ region.offset + slice.offset = region.offset /\ slice.size = region.size
            /\ slice.offset \in Nat /\ slice.size \in Nat
            /\ slice.offset + slice.size <= region.size /\ slice.size <= width
        <5>1. PICK a, z, w, o, y : /\ a = region.offset /\ z = region.size /\ w = width
                                   /\ o = slice.offset /\ y = slice.size
          OBVIOUS
        <5>2. a \in Nat /\ z \in Nat /\ z <= w
          BY <4>4, <5>1, Zenon
        <5>3. o = 0 /\ y = z
          BY <4>1, <5>1
        <5>4. a + o = a /\ y = z /\ o \in Nat /\ y \in Nat /\ o + y <= z /\ y <= w
          BY <5>2, <5>3
        <5> QED
          BY <5>1, <5>4, Zenon
      <4>7. Selects(region.offset + slice.offset, slice.size, first, past)
        BY <4>5, <4>6, Zenon
      <4> QED
        BY <1>2, <1>12, <3>1, <3>3, <4>6, <4>7
    <3>4. CASE s.block = 0
      <4>1. PICK fixed \in BOOLEAN :
              slice = InnerTile(NestedLoop(k, i), NestedOffset(k, i, p),
                                NestedValid(k, m, i, p), TileOffset(k.grid[1], i[1]),
                                region.size, fixed)
        BY <2>3, <2>5, <3>1, <3>4 DEF OwnedSlice, AllTilesFull, EndsInside
      <4>2. width = TileExtent(NestedLoop(k, i))
        BY <1>1, <3>1, <3>4 DEF TileWidth
      <4>3. k.grid[1].end <= extent
        BY <1>5, <2>1, <3>1, <3>4 DEF SubscriptInside, TilesInside
      <4>4. region = GridWindow(k, i, 1, 0, extent)
        BY <3>1, <3>2, <3>4
      <4>5. 1 \in GridIds(k) /\ k.grid[1].kind = "tile" /\ k.grid[1].begin >= 0
            /\ NestedTripAt(k, p) < TripCount(NestedLoop(k, i))
        BY <1>3, <1>5, <1>10, <3>1, <3>4 DEF IsTileLoop
      <4>6. /\ slice.offset \in Nat /\ slice.size \in Nat
            /\ slice.offset + slice.size <= region.size /\ slice.size <= width
            /\ Selects(region.offset + slice.offset, slice.size, NestedOffset(k, i, p),
                       LeastOf(LeastOf(NestedOffset(k, i, p) + k.inner,
                                       NestedLoop(k, i).end), extent))
        BY <1>3, <1>4, <4>1, <4>2, <4>3, <4>4, <4>5, InnerTileInside
      <4>7. first = NestedOffset(k, i, p)
        BY <1>11, <3>1, <3>4
      <4>8. past = LeastOf(LeastOf(NestedOffset(k, i, p) + k.inner, NestedLoop(k, i).end),
                           extent)
        <5>1. PICK v : v = LeastOf(NestedOffset(k, i, p) + k.inner, NestedLoop(k, i).end)
          OBVIOUS
        <5>2. v + 0 = v
          <6>1. NestedOffset(k, i, p) + NestedValid(k, m, i, p) = v
                /\ NestedOffset(k, i, p) \in Int /\ NestedValid(k, m, i, p) \in Nat
            BY <1>3, <4>5, <5>1, NestedTilesReal
          <6> QED
            BY <6>1
        <5> QED
          BY <1>11, <3>1, <3>4, <5>1, <5>2
      <4> QED
        BY <1>2, <1>11, <3>1, <3>4, <4>6, <4>7, <4>8
    <3> QED
      BY <3>3, <3>4
  <2> QED
    BY <2>4, <2>5
<1> QED
  BY <1>14, <1>15

-----------------------------------------------------------------------------
\* A nest only runs after the compiler accepted every subscript.
Accepted ==
  /\ mode \in {"new", "refused"} => \A i \in Iterations(kernel) : phase[i] = "waiting"
  /\ mode \in {"forall", "sequential", "done"} => ~Refused(kernel)

\* Accepted holds in every reachable state (subscripts.py, index_bounds).
LEMMA AcceptedHolds == Spec => []Accepted
PROOF
<1>1. Init => Accepted
  BY DEF Init, Accepted
<1>2. TypeOK /\ Accepted /\ [Next]_vars => Accepted'
  <2> SUFFICES ASSUME TypeOK, Accepted, [Next]_vars PROVE Accepted'
    OBVIOUS
  <2>1. CASE LowerRoot
    BY <2>1 DEF LowerRoot, Accepted, TypeOK
  <2>2. ASSUME NEW i \in Iterations(kernel), Start(i) PROVE Accepted'
    BY <2>2 DEF Start, MayStart, Accepted, TypeOK
  <2>3. ASSUME NEW i \in Iterations(kernel), Load(i) PROVE Accepted'
    BY <2>3 DEF Load, Accepted, TypeOK
  <2>4. ASSUME NEW i \in Iterations(kernel), Store(i) PROVE Accepted'
    BY <2>4 DEF Store, Accepted, TypeOK
  <2>5. ASSUME NEW i \in Iterations(kernel), Finish(i) PROVE Accepted'
    BY <2>5 DEF Finish, Accepted, TypeOK
  <2>6. CASE Join
    BY <2>6 DEF Join, Accepted, TypeOK
  <2>7. CASE UNCHANGED vars
    BY <2>7 DEF vars, Accepted
  <2> QED
    BY <2>1, <2>2, <2>3, <2>4, <2>5, <2>6, <2>7 DEF Next, Terminated
<1> QED
  BY <1>1, <1>2, TypeCorrect, PTL DEF Spec

\* In kernels whose indexes lie inside the dimensions they index, no statement of any
\* iteration reads or writes outside the region or tensor it works on, nor pads a tile
\* by a negative width, whatever the bounds, block sizes, extents and biases
\* (slice_plan.py, _tile_window and _inner_tile; emit.py, pad_high).
THEOREM SlicesStayInside == (\A k \in Kernels : IndexesInside(k)) => (Spec => []SlicesInside)
PROOF
<1> SUFFICES ASSUME \A k \in Kernels : IndexesInside(k) PROVE Spec => []SlicesInside
  OBVIOUS
<1>1. TypeOK /\ Parallelism /\ Accepted => SlicesInside
  <2> SUFFICES ASSUME TypeOK, Parallelism, Accepted, NEW i \in Iterations(kernel),
                      phase[i] = "running", pc[i] <= Steps(kernel, i),
                      NEW access, access = StatementAt(kernel, pc[i]),
                      NEW n, n = access.tensor,
                      NEW slice, slice = PlanSlice(kernel, mode, i, pc[i]),
                      NEW size, size = (IF n \in Written(kernel)
                                        THEN RegionSize(Region(kernel, mode, n, i))
                                        ELSE kernel.shape[n]),
                      NEW d \in DOMAIN slice
               PROVE  /\ 0 <= slice[d].offset /\ 0 <= slice[d].size
                      /\ slice[d].offset + slice[d].size <= size[d]
                      /\ slice[d].size <= TileShape(kernel, i, access)[d]
    BY Zenon DEF SlicesInside
  <2>1. kernel \in Kernels /\ IndexesInside(kernel) /\ pc[i] \in Nat \ {0}
    BY DEF Parallelism, TypeOK
  <2>2. ~Refused(kernel)
    BY DEF TypeOK, Accepted
  <2>3. d \in 1..Rank(kernel, n)
    BY DEF PlanSlice
  <2>4. size[d] = RegionDim(kernel, i, OwnerIn(kernel, mode, n, d), kernel.shape[n][d]).size
    <3>1. CASE n \in Written(kernel)
      BY <2>3, <3>1 DEF RegionSize, Region
    <3>2. CASE n \notin Written(kernel)
      BY <2>3, <3>2 DEF OwnerIn, RegionDim
    <3> QED
      BY <3>1, <3>2
  <2> QED
    <3>1. /\ slice[d].offset \in Nat /\ slice[d].size \in Nat
          /\ slice[d].offset + slice[d].size <= size[d]
          /\ slice[d].size <= TileShape(kernel, i, access)[d]
      <4>1. PICK region, first, past :
              /\ region = RegionDim(kernel, i, OwnerIn(kernel, mode, n, d), kernel.shape[n][d])
              /\ first = Abstract!FirstOf(kernel, [iteration |-> i, at |-> pc[i]], d)
              /\ past = Abstract!EndOf(kernel, [iteration |-> i, at |-> pc[i]], d)
        OBVIOUS
      <4> QED
        BY <2>1, <2>2, <2>3, <2>4, <4>1, DimensionInside
    <3> QED
      BY <3>1
<1> QED
  BY <1>1, TypeCorrect, ParallelismHolds, AcceptedHolds, PTL

-----------------------------------------------------------------------------
\* A set of natural numbers with a member has a least one.
LEMMA LeastNatural ==
  ASSUME NEW S \in SUBSET Nat, S # {}
  PROVE  \E x \in S : \A y \in S : x <= y
PROOF
<1>1. PICK x \in S : \A y \in S : <<y, x>> \notin OpToRel(<, Nat)
  BY NatLessThanWellFounded, WFMin, Zenon
<1>2. \A y \in S : ~(y < x)
  BY <1>1, Zenon DEF OpToRel
<1> QED
  BY <1>2

\* The iterations of a nest are in one order, from the outermost loop in.
LEMMA NestOrder ==
  ASSUME NEW k \in Kernels, NEW i \in Iterations(k), NEW j \in Iterations(k)
  PROVE  /\ ~(Precedes(i, j) /\ Precedes(j, i))
         /\ ~Precedes(i, i)
         /\ i = j \/ Precedes(i, j) \/ Precedes(j, i)
PROOF
<1>1. /\ DOMAIN i = GridIds(k) /\ DOMAIN j = GridIds(k)
      /\ \A b \in GridIds(k) : b \in Nat /\ i[b] \in Nat /\ j[b] \in Nat
  <2>1. \A b \in GridIds(k) : b \in Nat /\ i[b] \in Nat /\ j[b] \in Nat
    BY GridFacts
  <2> QED
    BY <2>1 DEF Iterations
<1>2. ASSUME Precedes(i, j), Precedes(j, i) PROVE FALSE
  <2>1. PICK b \in GridIds(k) : i[b] < j[b] /\ \A a \in GridIds(k) : a < b => i[a] = j[a]
    BY <1>1, <1>2 DEF Precedes
  <2>2. PICK c \in GridIds(k) : j[c] < i[c] /\ \A a \in GridIds(k) : a < c => j[a] = i[a]
    BY <1>1, <1>2 DEF Precedes
  <2>3. b < c \/ c < b \/ b = c
    BY <1>1
  <2> QED
    BY <1>1, <2>1, <2>2, <2>3
<1>3. ASSUME Precedes(i, i) PROVE FALSE
  BY <1>1, <1>3 DEF Precedes
<1>4. ASSUME i # j PROVE Precedes(i, j) \/ Precedes(j, i)
  <2> DEFINE differ == {b \in GridIds(k) : i[b] # j[b]}
  <2>1. differ # {}
    BY <1>1, <1>4 DEF Iterations
  <2>2. differ \in SUBSET Nat
    BY <1>1
  <2>3. PICK b \in differ : \A a \in differ : b <= a
    <3> HIDE DEF differ
    <3> QED
      BY <2>1, <2>2, LeastNatural
  <2>4. \A a \in GridIds(k) : a < b => i[a] = j[a]
    BY <1>1, <2>3
  <2>5. i[b] < j[b] \/ j[b] < i[b]
    BY <1>1, <2>3
  <2> QED
    BY <1>1, <2>3, <2>4, <2>5 DEF Precedes
<1> QED
  BY <1>2, <1>3, <1>4

-----------------------------------------------------------------------------
\* The event of an iteration's statement.
Event(i, p) == [iteration |-> i, at |-> p]

\* A nest has as many steps as the program, of the same statements.
LEMMA StepsOfProgram ==
  ASSUME NEW k \in Kernels, IndexesInside(k), NEW i \in Iterations(k)
  PROVE  Abstract!Length(k, i) = Steps(k, i) /\ Steps(k, i) \in Nat
PROOF
<1>1. Len(k.outer) \in Nat /\ Len(k.nested) \in Nat
  BY KernelAssumption DEF Kernel
<1>2. NestedTrips(k, i) \in Nat
  <2>1. k.nested # <<>> => 0 < TripCount(NestedLoop(k, i))
    BY NestedIsLoop DEF IndexesInside, IsTileLoop
  <2> QED
    BY <2>1, NestedTripsAreInt DEF NestedTrips
<1>3. Abstract!Trips(k, i) = NestedTrips(k, i)
  <2>1. CASE k.nested = <<>>
    BY <2>1 DEF Abstract!Trips, NestedTrips
  <2>2. CASE k.nested # <<>>
    <3>1. 1 \in GridIds(k) /\ k.grid[1].kind = "tile"
      BY <2>2 DEF IndexesInside, IsTileLoop
    <3>2. PICK loop, t, off : loop = k.grid[1] /\ t = i[1] /\ off = TileOffset(loop, t)
      OBVIOUS
    <3>3. loop \in Loop /\ loop.kind = "tile" /\ t \in Nat /\ t < TripCount(loop)
      BY <3>1, <3>2, GridFacts DEF Iterations
    <3>4. /\ NestedLoop(k, i).begin = off /\ NestedLoop(k, i).step = k.inner
          /\ NestedLoop(k, i).end = off + ValidSize(loop, off, NoSpan)
      BY <3>1, <3>2, NestedIsLoop
    <3>5. off = Abstract!TileBegin(k, i, 1)
      BY <3>1, <3>2, TileEnds
    <3>6. off + ValidSize(loop, off, NoSpan) = LeastOf(off + loop.step, loop.end)
      BY <3>2, <3>3, TilesReal
    <3>7. Abstract!TileEnd(k, i, 1) = LeastOf(off + loop.step, loop.end)
      BY <3>1, <3>2, TileEnds
    <3>8. NestedLoop(k, i).end = Abstract!TileEnd(k, i, 1)
      BY <3>4, <3>6, <3>7, Zenon
    <3>9. NestedTrips(k, i)
            = CeilDiv(NestedLoop(k, i).end - NestedLoop(k, i).begin, NestedLoop(k, i).step)
      BY <2>2, Zenon DEF NestedTrips, TripCount
    <3>10. Abstract!Trips(k, i)
             = CeilDiv(Abstract!TileEnd(k, i, 1) - Abstract!TileBegin(k, i, 1), k.inner)
      BY <2>2, SameWords, Zenon DEF Abstract!Trips
    <3> QED
      BY <3>4, <3>5, <3>8, <3>9, <3>10, Zenon
  <2> QED
    BY <2>1, <2>2
<1>4. PICK t \in Nat : t = NestedTrips(k, i)
  BY <1>2
<1>5. t * Len(k.nested) \in Nat
  <2>1. PICK l \in Nat : l = Len(k.nested)
    BY <1>1
  <2>2. t * l \in Nat
    OBVIOUS
  <2> QED
    BY <2>1, <2>2
<1>6. Steps(k, i) = Len(k.outer) + t * Len(k.nested)
  BY <1>4, Zenon DEF Steps
<1>7. Abstract!Length(k, i) = Len(k.outer) + t * Len(k.nested)
  BY <1>3, <1>4, Zenon DEF Abstract!Length
<1>8. PICK x \in Nat : x = t * Len(k.nested)
  BY <1>5
<1>9. Len(k.outer) + x \in Nat
  BY <1>1
<1> QED
  BY <1>6, <1>7, <1>8, <1>9, Zenon

\* What the program's events are.
LEMMA EventsOf ==
  ASSUME NEW k \in Kernels, IndexesInside(k), NEW e
  PROVE  e \in Abstract!Events(k) <=>
           \E i \in Iterations(k) : \E p \in 1..Steps(k, i) : e = Event(i, p)
PROOF
<1>1. \A i \in Iterations(k) : Abstract!Length(k, i) = Steps(k, i)
  BY StepsOfProgram
<1>2. Abstract!Iterations(k) = Iterations(k)
  BY SameWords
<1>3. e \in Abstract!Events(k) <=>
        \E i \in Abstract!Iterations(k) : \E p \in 1..Abstract!Length(k, i) :
          e = [iteration |-> i, at |-> p]
  <2> DEFINE Of(i) == {[iteration |-> i, at |-> p] : p \in 1..Abstract!Length(k, i)}
  <2>1. Abstract!Events(k) = UNION {Of(i) : i \in Abstract!Iterations(k)}
    BY DEF Abstract!Events
  <2>2. \A i : e \in Of(i) <=>
          \E p \in 1..Abstract!Length(k, i) : e = [iteration |-> i, at |-> p]
    OBVIOUS
  <2> HIDE DEF Of
  <2>3. e \in UNION {Of(i) : i \in Abstract!Iterations(k)} <=>
          \E i \in Abstract!Iterations(k) : e \in Of(i)
    OBVIOUS
  <2> QED
    BY <2>1, <2>2, <2>3
<1>4. e \in Abstract!Events(k) <=>
        \E i \in Iterations(k) : \E p \in 1..Abstract!Length(k, i) : e = Event(i, p)
  BY <1>2, <1>3, Zenon DEF Event
<1> QED
  BY <1>1, <1>4

\* The order of events, in the words of the loop.
LEMMA BeforeMeans ==
  ASSUME NEW i, NEW j, NEW p, NEW q
  PROVE  Abstract!Before(Event(i, p), Event(j, q)) <=> Precedes(i, j) \/ (i = j /\ p < q)
PROOF
<1>1. /\ Event(i, p).iteration = i /\ Event(i, p).at = p
      /\ Event(j, q).iteration = j /\ Event(j, q).at = q
  BY DEF Event
<1>2. Abstract!Precedes(i, j) = Precedes(i, j)
  BY SameWords
<1> QED
  BY <1>1, <1>2, Zenon DEF Abstract!Before

\* Which events are before a statement.
LEMMA EarlierMeans ==
  ASSUME NEW k \in Kernels, IndexesInside(k), NEW i, NEW p, NEW e \in Abstract!Events(k)
  PROVE  /\ e.iteration \in Iterations(k) /\ e.at \in 1..Steps(k, e.iteration)
         /\ Steps(k, e.iteration) \in Nat /\ e = Event(e.iteration, e.at)
         /\ e \in Abstract!Earlier(k, Event(i, p)) <=>
              Precedes(e.iteration, i) \/ (e.iteration = i /\ e.at < p)
PROOF
<1>1. PICK j \in Iterations(k) : \E q \in 1..Steps(k, j) : e = Event(j, q)
  BY EventsOf
<1>2. PICK q \in 1..Steps(k, j) : e = Event(j, q)
  BY <1>1
<1>3. e.iteration = j /\ e.at = q
  BY <1>2 DEF Event
<1>4. Steps(k, j) \in Nat
  BY StepsOfProgram
<1>5. Abstract!Before(e, Event(i, p)) <=> Precedes(j, i) \/ (j = i /\ q < p)
  BY <1>2, BeforeMeans
<1>6. e \in Abstract!Earlier(k, Event(i, p)) <=> Abstract!Before(e, Event(i, p))
  BY DEF Abstract!Earlier
<1> QED
  BY <1>2, <1>3, <1>4, <1>5, <1>6

\* What happened before a statement, and after it.
LEMMA EarlierThan ==
  ASSUME NEW k \in Kernels, IndexesInside(k), NEW i \in Iterations(k), NEW p \in Nat \ {0},
         p <= Steps(k, i)
  PROVE  /\ Abstract!Earlier(k, Event(i, p + 1))
              = Abstract!Earlier(k, Event(i, p)) \union {Event(i, p)}
         /\ \A f \in Abstract!Earlier(k, Event(i, p)) : /\ Abstract!Before(f, Event(i, p))
                                                       /\ ~Abstract!Before(Event(i, p), f)
         /\ Event(i, p) \in Abstract!Events(k)
         /\ Event(i, p) \notin Abstract!Earlier(k, Event(i, p))
PROOF
<1>1. Steps(k, i) \in Int
  BY StepsOfProgram
<1>2. Event(i, p) \in Abstract!Events(k)
  BY <1>1, EventsOf
<1>3. ASSUME NEW f \in Abstract!Events(k)
      PROVE  /\ Abstract!Before(f, Event(i, p + 1)) <=>
                  Abstract!Before(f, Event(i, p)) \/ f = Event(i, p)
             /\ ~(Abstract!Before(f, Event(i, p)) /\ Abstract!Before(Event(i, p), f))
             /\ f = Event(i, p) => ~Abstract!Before(f, Event(i, p))
  <2>0. PICK j \in Iterations(k) : \E q \in 1..Steps(k, j) : f = Event(j, q)
    BY EventsOf
  <2>1. PICK q \in 1..Steps(k, j) : f = Event(j, q)
    BY <2>0
  <2>2. Steps(k, j) \in Int
    BY StepsOfProgram
  <2>3. q \in Int
    BY <2>2
  <2>4. f = Event(i, p) <=> j = i /\ q = p
    BY <2>1 DEF Event
  <2>5. /\ Abstract!Before(f, Event(i, p)) <=> Precedes(j, i) \/ (j = i /\ q < p)
        /\ Abstract!Before(f, Event(i, p + 1)) <=> Precedes(j, i) \/ (j = i /\ q < p + 1)
        /\ Abstract!Before(Event(i, p), f) <=> Precedes(i, j) \/ (i = j /\ p < q)
    BY <2>1, BeforeMeans
  <2>6. q < p + 1 <=> q < p \/ q = p
    BY <2>3
  <2>7. ~(q < p /\ p < q) /\ ~(q < p /\ q = p)
    BY <2>3
  <2> QED
    BY <2>4, <2>5, <2>6, <2>7, NestOrder
<1> QED
  BY <1>2, <1>3 DEF Abstract!Earlier

-----------------------------------------------------------------------------
\* What an element holds depends on the statements that stored it only.
LEMMA SameStores ==
  ASSUME NEW k, NEW S, NEW T, NEW n, NEW c,
         Abstract!Stores(k, S, n, c) = Abstract!Stores(k, T, n, c)
  PROVE  Abstract!Stored(k, S, n, c) = Abstract!Stored(k, T, n, c)
PROOF
  BY Zenon DEF Abstract!Stored

\* What nobody stored is what it was.
LEMMA NeverStored ==
  ASSUME NEW k, NEW S, NEW n, NEW c, Abstract!Stores(k, S, n, c) = {}
  PROVE  Abstract!Stored(k, S, n, c) = Old(n, c)
PROOF
<1>1. Abstract!Old(n, c) = Old(n, c)
  BY SameWords
<1> QED
  BY <1>1, Zenon DEF Abstract!Stored

\* The last statement that stores an element leaves its stamp.
LEMMA StoredLast ==
  ASSUME NEW k, NEW S, NEW e, NEW n, NEW c, e \notin S,
         \A f \in S : Abstract!Before(f, e) /\ ~Abstract!Before(e, f),
         e \in Abstract!Stores(k, S \union {e}, n, c)
  PROVE  Abstract!Stored(k, S \union {e}, n, c) = Abstract!Stamp(k, e, c)
PROOF
<1> DEFINE T == Abstract!Stores(k, S \union {e}, n, c)
<1>1. T \subseteq S \union {e} /\ e \in T
  BY DEF Abstract!Stores
<1> HIDE DEF T
<1>2. \A f \in T \ {e} : Abstract!Before(f, e)
  BY <1>1
<1>3. ASSUME NEW x \in T, \A f \in T \ {x} : Abstract!Before(f, x) PROVE x = e
  BY <1>1, <1>3
<1>4. Abstract!LastOf(T) = e
  BY <1>1, <1>2, <1>3 DEF Abstract!LastOf
<1>5. T # {}
  BY <1>1
<1> QED
  BY <1>4, <1>5 DEF Abstract!Stored, T

\* A statement that does not store an element leaves it alone.
LEMMA StoredBefore ==
  ASSUME NEW k, NEW S, NEW e, NEW n, NEW c, e \notin Abstract!Stores(k, S \union {e}, n, c)
  PROVE  Abstract!Stored(k, S \union {e}, n, c) = Abstract!Stored(k, S, n, c)
PROOF
<1>1. Abstract!Stores(k, S \union {e}, n, c) = Abstract!Stores(k, S, n, c)
  BY DEF Abstract!Stores
<1> QED
  BY <1>1, SameStores

-----------------------------------------------------------------------------
\* The positions of a region and of the tensor around it correspond.
LEMMA RegionCells ==
  ASSUME NEW k \in Kernels, IndexesInside(k), NEW i \in Iterations(k), NEW m,
         NEW n \in Tensors(k), NEW region, region = Region(k, m, n, i)
  PROVE  /\ DOMAIN region = 1..Rank(k, n) /\ DOMAIN k.shape[n] = 1..Rank(k, n)
         /\ \A d \in 1..Rank(k, n) :
              /\ region[d].offset \in Nat /\ region[d].size \in Nat
              /\ region[d].offset + region[d].size <= k.shape[n][d]
         /\ \A c \in Cells(RegionSize(region)) :
              /\ Outside(region, c) \in Cells(k.shape[n])
              /\ InRegion(region, Outside(region, c))
              /\ Inside(region, Outside(region, c)) = c
         /\ \A c \in Cells(k.shape[n]) : InRegion(region, c) =>
              /\ Inside(region, c) \in Cells(RegionSize(region))
              /\ Outside(region, Inside(region, c)) = c
PROOF
<1> DEFINE dims == 1..Rank(k, n)
<1>1. DOMAIN region = dims /\ DOMAIN k.shape[n] = dims
  <2>1. k.shape[n] \in Seq(0..MaxExtent)
    BY KernelAssumption DEF Kernel, Tensors
  <2>2. DOMAIN k.shape[n] = dims
    BY <2>1 DEF Rank
  <2> QED
    BY <2>2 DEF Region
<1>2. ASSUME NEW d \in dims
      PROVE  /\ region[d].offset \in Nat /\ region[d].size \in Nat
             /\ region[d].offset + region[d].size <= k.shape[n][d]
             /\ k.shape[n][d] \in 0..MaxExtent /\ MaxExtent \in Nat
  <2>1. PICK r : r = RegionDim(k, i, OwnerIn(k, m, n, d), k.shape[n][d])
    OBVIOUS
  <2>2. region[d] = r
    BY <2>1 DEF Region
  <2>3. /\ r.offset \in Nat /\ r.size \in Nat /\ r.offset + r.size <= k.shape[n][d]
    BY <2>1, RegionDimInside
  <2>4. k.shape[n][d] \in 0..MaxExtent /\ MaxExtent \in Nat
    BY Extents
  <2> QED
    BY <2>2, <2>3, <2>4
<1> DEFINE size == RegionSize(region)
<1>3. DOMAIN size = dims /\ \A d \in dims : size[d] = region[d].size
  BY <1>1 DEF RegionSize
<1> HIDE DEF size, dims
<1>4. ASSUME NEW c \in Cells(size)
      PROVE  /\ Outside(region, c) \in Cells(k.shape[n])
             /\ InRegion(region, Outside(region, c))
             /\ Inside(region, Outside(region, c)) = c
  <2>1. c \in [dims -> 0..MaxExtent] /\ \A d \in dims : c[d] < region[d].size
    BY <1>3 DEF Cells
  <2>2. Outside(region, c) = [d \in dims |-> c[d] + region[d].offset]
    BY <1>1 DEF Outside
  <2>3. \A d \in dims : /\ c[d] + region[d].offset \in 0..MaxExtent
                        /\ c[d] + region[d].offset < k.shape[n][d]
                        /\ region[d].offset <= c[d] + region[d].offset
                        /\ c[d] + region[d].offset < region[d].offset + region[d].size
                        /\ (c[d] + region[d].offset) - region[d].offset = c[d]
    <3> SUFFICES ASSUME NEW d \in dims
                 PROVE  /\ c[d] + region[d].offset \in 0..MaxExtent
                        /\ c[d] + region[d].offset < k.shape[n][d]
                        /\ region[d].offset <= c[d] + region[d].offset
                        /\ c[d] + region[d].offset < region[d].offset + region[d].size
                        /\ (c[d] + region[d].offset) - region[d].offset = c[d]
      OBVIOUS
    <3>1. MaxExtent \in Nat
      BY KernelAssumption
    <3>2. c[d] \in Nat /\ c[d] < region[d].size
      BY <2>1, <3>1
    <3> QED
      BY <1>2, <3>2
  <2>4. Outside(region, c) \in Cells(k.shape[n])
    BY <1>1, <2>2, <2>3 DEF Cells
  <2>5. InRegion(region, Outside(region, c))
    BY <1>1, <2>2, <2>3 DEF InRegion
  <2>6. Inside(region, Outside(region, c)) = [d \in dims |-> c[d]]
    BY <1>1, <2>2, <2>3 DEF Inside
  <2> QED
    BY <2>1, <2>4, <2>5, <2>6
<1>5. ASSUME NEW c \in Cells(k.shape[n]), InRegion(region, c)
      PROVE  /\ Inside(region, c) \in Cells(size)
             /\ Outside(region, Inside(region, c)) = c
  <2>1. c \in [dims -> 0..MaxExtent]
    BY <1>1 DEF Cells
  <2>2. Inside(region, c) = [d \in dims |-> c[d] - region[d].offset]
    BY <1>1 DEF Inside
  <2>3. \A d \in dims : /\ c[d] - region[d].offset \in 0..MaxExtent
                        /\ c[d] - region[d].offset < region[d].size
                        /\ (c[d] - region[d].offset) + region[d].offset = c[d]
    <3> SUFFICES ASSUME NEW d \in dims
                 PROVE  /\ c[d] - region[d].offset \in 0..MaxExtent
                        /\ c[d] - region[d].offset < region[d].size
                        /\ (c[d] - region[d].offset) + region[d].offset = c[d]
      OBVIOUS
    <3>1. c[d] \in 0..MaxExtent
      BY <2>1
    <3>2. region[d].offset <= c[d] /\ c[d] < region[d].offset + region[d].size
      BY <1>1, <1>5 DEF InRegion
    <3> QED
      BY <1>2, <3>1, <3>2
  <2>4. Inside(region, c) \in Cells(size)
    BY <1>3, <2>2, <2>3 DEF Cells
  <2>5. Outside(region, Inside(region, c)) = [d \in dims |-> c[d]]
    BY <1>1, <2>2, <2>3 DEF Outside
  <2> QED
    BY <2>1, <2>4, <2>5
<1> QED
  BY <1>1, <1>2, <1>4, <1>5 DEF dims, size

\* A slice of a region has the element x.
Reaches(region, slice, x) ==
  \A d \in DOMAIN slice : /\ region[d].offset + slice[d].offset <= x[d]
                          /\ x[d] < region[d].offset + slice[d].offset + slice[d].size

\* A statement reaches exactly the elements the program names, and these are its
\* iteration's.
LEMMA EventInside ==
  ASSUME NEW k \in Kernels, IndexesInside(k), ~Refused(k), NEW i \in Iterations(k), NEW m,
         NEW p \in Nat \ {0}, p <= Steps(k, i), NEW n, n = StatementAt(k, p).tensor,
         NEW region, region = Region(k, m, n, i),
         NEW slice, slice = PlanSlice(k, m, i, p),
         NEW e, e = Event(i, p), NEW x \in [1..Rank(k, n) -> Int]
  PROVE  /\ Abstract!AccessOf(k, e) = StatementAt(k, p) /\ Abstract!Dims(k, e) = 1..Rank(k, n)
         /\ \A d \in 1..Rank(k, n) :
              /\ slice[d].offset \in Nat /\ slice[d].size \in Nat
              /\ slice[d].offset + slice[d].size <= region[d].size
              /\ slice[d].size <= TileShape(k, i, StatementAt(k, p))[d]
              /\ region[d].offset \in Nat
              /\ Abstract!FirstOf(k, e, d) \in Int /\ Abstract!EndOf(k, e, d) \in Int
              /\ Selects(region[d].offset + slice[d].offset, slice[d].size,
                         Abstract!FirstOf(k, e, d), Abstract!EndOf(k, e, d))
         /\ DOMAIN slice = 1..Rank(k, n)
         /\ Abstract!Names(k, e, x) <=> Reaches(region, slice, x)
         /\ Abstract!Names(k, e, x) =>
              /\ InRegion(region, x)
              /\ \A d \in 1..Rank(k, n) :
                   Abstract!FirstOf(k, e, d) = region[d].offset + slice[d].offset
PROOF
<1>1. n \in Tensors(k)
  BY StatementFacts
<1>2. Abstract!AccessOf(k, e) = StatementAt(k, p) /\ Abstract!Dims(k, e) = 1..Rank(k, n)
  <2>1. e.at = p
    BY DEF Event
  <2>2. Abstract!AccessOf(k, e) = StatementAt(k, p)
    BY <2>1, SameWords DEF Abstract!AccessOf
  <2> QED
    BY <2>2, SameWords DEF Abstract!Dims
<1> DEFINE dims == 1..Rank(k, n)
<1>3. ASSUME NEW d \in dims
      PROVE  /\ slice[d].offset \in Nat /\ slice[d].size \in Nat
             /\ slice[d].offset + slice[d].size <= region[d].size
             /\ slice[d].size <= TileShape(k, i, StatementAt(k, p))[d]
             /\ region[d].offset \in Nat /\ region[d].size \in Nat
             /\ Abstract!FirstOf(k, e, d) \in Int /\ Abstract!EndOf(k, e, d) \in Int
             /\ Selects(region[d].offset + slice[d].offset, slice[d].size,
                        Abstract!FirstOf(k, e, d), Abstract!EndOf(k, e, d))
  <2>1. PICK access, s, r, first, past :
          /\ access = StatementAt(k, p) /\ s = PlanSlice(k, m, i, p)[d]
          /\ r = RegionDim(k, i, OwnerIn(k, m, n, d), k.shape[n][d])
          /\ first = Abstract!FirstOf(k, [iteration |-> i, at |-> p], d)
          /\ past = Abstract!EndOf(k, [iteration |-> i, at |-> p], d)
    OBVIOUS
  <2>2. /\ s.offset \in Nat /\ s.size \in Nat
        /\ s.offset + s.size <= r.size
        /\ s.size <= TileShape(k, i, access)[d]
        /\ first \in Int /\ past \in Int
        /\ Selects(r.offset + s.offset, s.size, first, past)
    BY <2>1, DimensionInside
  <2>3. r.offset \in Nat /\ r.size \in Nat
    BY <1>1, <2>1, RegionDimInside
  <2>4. region[d] = r
    BY <2>1 DEF Region
  <2>5. first = Abstract!FirstOf(k, e, d) /\ past = Abstract!EndOf(k, e, d)
    BY <2>1 DEF Event
  <2> QED
    BY <2>1, <2>2, <2>3, <2>4, <2>5
<1>4. ASSUME NEW d \in dims
      PROVE  (Abstract!FirstOf(k, e, d) <= x[d] /\ x[d] < Abstract!EndOf(k, e, d)) <=>
               /\ region[d].offset + slice[d].offset <= x[d]
               /\ x[d] < region[d].offset + slice[d].offset + slice[d].size
  <2>1. PICK o, z, f, g, y : /\ o = region[d].offset + slice[d].offset /\ z = slice[d].size
                             /\ f = Abstract!FirstOf(k, e, d) /\ g = Abstract!EndOf(k, e, d)
                             /\ y = x[d]
    OBVIOUS
  <2>2. o \in Int /\ z \in Nat /\ f \in Int /\ g \in Int /\ y \in Int /\ Selects(o, z, f, g)
    BY <1>3, <2>1, SMTT(30)
  <2>3. (f <= y /\ y < g) <=> (o <= y /\ y < o + z)
    BY <2>2 DEF Selects
  <2> QED
    BY <2>1, <2>3
<1>5. Abstract!Names(k, e, x) <=>
        \A d \in dims : Abstract!FirstOf(k, e, d) <= x[d] /\ x[d] < Abstract!EndOf(k, e, d)
  BY <1>2 DEF Abstract!Names
<1>6. Abstract!Names(k, e, x) <=>
        \A d \in dims : /\ region[d].offset + slice[d].offset <= x[d]
                        /\ x[d] < region[d].offset + slice[d].offset + slice[d].size
  BY <1>4, <1>5
<1>7. ASSUME Abstract!Names(k, e, x), NEW d \in dims
      PROVE  /\ region[d].offset <= x[d] /\ x[d] < region[d].offset + region[d].size
             /\ Abstract!FirstOf(k, e, d) = region[d].offset + slice[d].offset
  <2>1. /\ region[d].offset + slice[d].offset <= x[d]
        /\ x[d] < region[d].offset + slice[d].offset + slice[d].size
    BY <1>6, <1>7
  <2>2. x[d] \in Int
    OBVIOUS
  <2>3. /\ region[d].offset <= x[d] /\ x[d] < region[d].offset + region[d].size
        /\ slice[d].size > 0
    <3>1. PICK o, z, a, w, y :
            /\ o = slice[d].offset /\ z = slice[d].size /\ a = region[d].offset
            /\ w = region[d].size /\ y = x[d]
      OBVIOUS
    <3>2. o \in Nat /\ z \in Nat /\ a \in Nat /\ w \in Nat /\ y \in Int /\ o + z <= w
      BY <1>3, <2>2, <3>1
    <3>3. a + o <= y /\ y < a + o + z
      BY <2>1, <3>1
    <3>4. a <= y /\ y < a + w /\ z > 0
      BY <3>2, <3>3
    <3> QED
      BY <3>1, <3>4
  <2>4. Abstract!FirstOf(k, e, d) = region[d].offset + slice[d].offset
    BY <1>3, <2>3, SMTT(30) DEF Selects
  <2> QED
    BY <2>3, <2>4
<1>8. DOMAIN region = dims
  BY DEF Region
<1>9. Abstract!Names(k, e, x) => InRegion(region, x)
  BY <1>7, <1>8 DEF InRegion
<1>10. DOMAIN slice = dims
  BY DEF PlanSlice
<1>11. Abstract!Names(k, e, x) <=> Reaches(region, slice, x)
  BY <1>6, <1>10 DEF Reaches
<1> QED
  BY <1>2, <1>3, <1>7, <1>9, <1>10, <1>11

\* Who stores an element: an event of a tensor the kernel writes, in whose iteration's
\* region it is.
LEMMA StoresMeans ==
  ASSUME NEW k \in Kernels, IndexesInside(k), ~Refused(k), NEW m, NEW n \in Tensors(k),
         NEW S \in SUBSET Abstract!Events(k), NEW c \in Cells(k.shape[n]),
         NEW e \in Abstract!Stores(k, S, n, c)
  PROVE  /\ e \in S /\ n \in Written(k)
         /\ e.iteration \in Iterations(k) /\ InRegion(Region(k, m, n, e.iteration), c)
         /\ e.at \in 1..Steps(k, e.iteration) /\ e = Event(e.iteration, e.at)
PROOF
<1>1. /\ e \in S /\ Abstract!AccessOf(k, e).op = "store" /\ Abstract!AccessOf(k, e).tensor = n
      /\ Abstract!Names(k, e, c)
  BY DEF Abstract!Stores
<1>2. PICK i \in Iterations(k) : \E p \in 1..Steps(k, i) : e = Event(i, p)
  BY <1>1, EventsOf
<1>3. PICK p \in 1..Steps(k, i) : e = Event(i, p)
  BY <1>2
<1>4. e.iteration = i /\ e.at = p
  BY <1>3 DEF Event
<1>5. p \in Nat \ {0} /\ p <= Steps(k, i)
  BY StepsOfProgram
<1>6. Abstract!AccessOf(k, e) = StatementAt(k, p)
  BY <1>4, SameWords DEF Abstract!AccessOf
<1>7. n = StatementAt(k, p).tensor /\ StatementAt(k, p).op = "store"
  BY <1>1, <1>6
<1>8. StatementAt(k, p) \in Accesses(k, n)
  BY <1>5, <1>7, StatementFacts
<1>9. n \in Written(k)
  BY <1>7, <1>8 DEF Accesses, Written
<1>10. c \in [1..Rank(k, n) -> Int]
  <2>1. k.shape[n] \in Seq(0..MaxExtent)
    BY KernelAssumption DEF Kernel, Tensors
  <2>2. DOMAIN k.shape[n] = 1..Rank(k, n)
    BY <2>1 DEF Rank
  <2> QED
    BY <2>2 DEF Cells
<1>11. InRegion(Region(k, m, n, i), c)
  <2>1. PICK region, slice : region = Region(k, m, n, i) /\ slice = PlanSlice(k, m, i, p)
    OBVIOUS
  <2> QED
    BY <1>1, <1>3, <1>5, <1>7, <1>10, <2>1, EventInside
<1> QED
  BY <1>1, <1>3, <1>4, <1>9, <1>11

\* In a parallel loop, the statements that store an element all belong to its owner.
LEMMA StoredByOwner ==
  ASSUME NEW k \in Kernels, IndexesInside(k), ~Refused(k), Partitioned(k),
         NEW n \in Tensors(k), NEW S \in SUBSET Abstract!Events(k),
         NEW i \in Iterations(k), NEW c \in Cells(k.shape[n]),
         InRegion(Region(k, "forall", n, i), c), NEW e \in Abstract!Stores(k, S, n, c)
  PROVE  e.iteration = i
PROOF
<1>1. /\ n \in Written(k) /\ e.iteration \in Iterations(k)
      /\ InRegion(Region(k, "forall", n, e.iteration), c)
  BY StoresMeans
<1> QED
  BY <1>1, Apart

-----------------------------------------------------------------------------
\* Where the iterations are: those of a sequential nest start and finish in order, and
\* the nest is over when all of them are.
Places ==
  /\ \A i \in Iterations(kernel) :
       /\ phase[i] = "waiting" => pc[i] = 1
       /\ phase[i] = "running" => pc[i] <= Steps(kernel, i) + 1
       /\ phase[i] = "done" => pc[i] = Steps(kernel, i) + 1
  /\ mode = "done" => \A i \in Iterations(kernel) : phase[i] = "done"
  /\ mode = "sequential" =>
       \A i, j \in Iterations(kernel) :
         phase[i] # "waiting" /\ Precedes(j, i) => phase[j] = "done"

\* What an iteration that runs may rely on.
LEMMA Running ==
  ASSUME \A k \in Kernels : IndexesInside(k), TypeOK, Parallelism, Accepted, Places,
         NEW i \in Iterations(kernel), phase[i] = "running"
  PROVE  /\ kernel \in Kernels /\ IndexesInside(kernel) /\ ~Refused(kernel)
         /\ mode \in {"forall", "sequential"} /\ (mode = "forall" => Partitioned(kernel))
         /\ pc[i] \in Nat \ {0} /\ Steps(kernel, i) \in Nat
PROOF
<1>1. kernel \in Kernels /\ IndexesInside(kernel) /\ (mode = "forall" => Partitioned(kernel))
  BY DEF Parallelism
<1>2. mode \in {"forall", "sequential"} /\ ~Refused(kernel)
  BY DEF TypeOK, Accepted, Places
<1> QED
  BY <1>1, <1>2, StepsOfProgram DEF TypeOK

\* Places holds in every reachable state.
LEMMA PlacesHold == (\A k \in Kernels : IndexesInside(k)) => (Spec => []Places)
PROOF
<1> SUFFICES ASSUME \A k \in Kernels : IndexesInside(k) PROVE Spec => []Places
  OBVIOUS
<1>1. Init => Places
  BY DEF Init, Places
<1>2. TypeOK /\ Parallelism /\ Accepted /\ Places /\ [Next]_vars => Places'
  <2> SUFFICES ASSUME TypeOK, Parallelism, Accepted, Places, [Next]_vars PROVE Places'
    OBVIOUS
  <2>1. \A i \in Iterations(kernel) : Steps(kernel, i) \in Nat /\ pc[i] \in Nat \ {0}
    BY StepsOfProgram DEF Parallelism, TypeOK
  <2>2. CASE LowerRoot
    <3>1. \A i \in Iterations(kernel) : phase[i] = "waiting"
      BY <2>2 DEF LowerRoot, Accepted
    <3> QED
      BY <2>2, <3>1 DEF LowerRoot, Places
  <2>3. ASSUME NEW i \in Iterations(kernel), Start(i) PROVE Places'
    <3>1. /\ kernel' = kernel /\ mode' = mode /\ pc' = pc /\ phase[i] = "waiting"
          /\ phase' = [phase EXCEPT ![i] = "running"] /\ MayStart(i)
          /\ phase \in [Iterations(kernel) -> {"waiting", "running", "done"}]
      BY <2>3 DEF Start, TypeOK
    <3>2. pc[i] <= Steps(kernel, i) + 1
      BY <2>1, <3>1 DEF Places
    <3>3. mode # "done"
      BY <3>1 DEF MayStart
    <3>4. ASSUME mode = "sequential", NEW a \in Iterations(kernel), NEW b \in Iterations(kernel),
                 phase'[a] # "waiting", Precedes(b, a)
          PROVE  phase'[b] = "done"
      <4>1. kernel \in Kernels
        BY DEF Parallelism
      <4>2. CASE a = i
        <5>1. phase[b] = "done" /\ b # i
          BY <3>1, <3>4, <4>1, <4>2, NestOrder DEF MayStart
        <5> QED
          BY <3>1, <5>1
      <4>3. CASE a # i
        <5>1. phase[b] = "done"
          BY <3>1, <3>4, <4>3 DEF Places
        <5> QED
          BY <3>1, <5>1
      <4> QED
        BY <4>2, <4>3
    <3>5. \A j \in Iterations(kernel) :
            /\ phase'[j] = "waiting" => pc[j] = 1
            /\ phase'[j] = "running" => pc[j] <= Steps(kernel, j) + 1
            /\ phase'[j] = "done" => pc[j] = Steps(kernel, j) + 1
      BY <3>1, <3>2 DEF Places
    <3> QED
      BY <3>1, <3>3, <3>4, <3>5 DEF Places
  <2>4. ASSUME NEW i \in Iterations(kernel), Load(i) \/ Store(i) PROVE Places'
    <3>1. /\ kernel' = kernel /\ mode' = mode /\ phase' = phase /\ phase[i] = "running"
          /\ pc' = [pc EXCEPT ![i] = @ + 1] /\ pc[i] <= Steps(kernel, i)
          /\ pc \in [Iterations(kernel) -> Nat \ {0}]
      BY <2>4 DEF Load, Store, TypeOK
    <3>2. \A j \in Iterations(kernel) :
            /\ phase[j] = "waiting" => pc'[j] = 1
            /\ phase[j] = "running" => pc'[j] <= Steps(kernel, j) + 1
            /\ phase[j] = "done" => pc'[j] = Steps(kernel, j) + 1
      <4> SUFFICES ASSUME NEW j \in Iterations(kernel)
                   PROVE  /\ phase[j] = "waiting" => pc'[j] = 1
                          /\ phase[j] = "running" => pc'[j] <= Steps(kernel, j) + 1
                          /\ phase[j] = "done" => pc'[j] = Steps(kernel, j) + 1
        OBVIOUS
      <4>1. CASE j = i
        BY <2>1, <3>1, <4>1
      <4>2. CASE j # i
        BY <3>1, <4>2 DEF Places
      <4> QED
        BY <4>1, <4>2
    <3> QED
      BY <3>1, <3>2 DEF Places
  <2>5. ASSUME NEW i \in Iterations(kernel), Finish(i) PROVE Places'
    <3>1. /\ kernel' = kernel /\ mode' = mode /\ pc' = pc /\ phase[i] = "running"
          /\ pc[i] > Steps(kernel, i) /\ phase' = [phase EXCEPT ![i] = "done"]
          /\ phase \in [Iterations(kernel) -> {"waiting", "running", "done"}]
      BY <2>5 DEF Finish, TypeOK
    <3>2. pc[i] = Steps(kernel, i) + 1
      BY <2>1, <3>1 DEF Places
    <3>3. \A j \in Iterations(kernel) :
            /\ phase'[j] = "waiting" => pc[j] = 1
            /\ phase'[j] = "running" => pc[j] <= Steps(kernel, j) + 1
            /\ phase'[j] = "done" => pc[j] = Steps(kernel, j) + 1
      BY <3>1, <3>2 DEF Places
    <3>4. \A j \in Iterations(kernel) : phase[j] = "done" => phase'[j] = "done"
      BY <3>1
    <3>5. \A j \in Iterations(kernel) : phase'[j] # "waiting" => phase[j] # "waiting"
      BY <3>1
    <3> QED
      BY <3>1, <3>3, <3>4, <3>5 DEF Places
  <2>6. CASE Join
    BY <2>6 DEF Join, Places
  <2>7. CASE UNCHANGED vars
    BY <2>7 DEF vars, Places
  <2> QED
    BY <2>2, <2>3, <2>4, <2>5, <2>6, <2>7 DEF Next, Terminated
<1> QED
  BY <1>1, <1>2, TypeCorrect, ParallelismHolds, AcceptedHolds, PTL DEF Spec

-----------------------------------------------------------------------------
\* The statements of the iterations that are over.
Done == {e \in Abstract!Events(kernel) : phase[e.iteration] = "done"}

\* What the tensors hold after some events of the program.
TensorsAfter(k, events) ==
  [n \in Tensors(k) |-> [c \in Cells(k.shape[n]) |-> Abstract!Stored(k, events, n, c)]]

\* What the regions of iteration i hold, in the program, before its statement p.
RegionsBefore(k, m, i, p) ==
  [n \in Written(k) |->
     LET region == Region(k, m, n, i)
     IN  [c \in Cells(RegionSize(region)) |->
            Abstract!Stored(k, Abstract!Earlier(k, Event(i, p)), n, Outside(region, c))]]

\* The tiles the program has loaded in iteration i before its statement p.
TilesBefore(k, i, p) ==
  [q \in {l \in Abstract!Loads(k, i) : l < p} |-> Abstract!Loaded(k, Event(i, q))]

\* The tensors hold what the iterations that are over stored, the regions of one that
\* runs what the program would have left there by then, and the tiles it loaded are
\* those the program loads.
MemoryRight == memory = TensorsAfter(kernel, Done)

LocalRight ==
  \A i \in Iterations(kernel) :
    phase[i] = "running" => local[i] = RegionsBefore(kernel, mode, i, pc[i])

SeenRight == seen = [i \in Iterations(kernel) |-> TilesBefore(kernel, i, pc[i])]

Right == MemoryRight /\ LocalRight /\ SeenRight

\* In its own regions, an iteration that starts finds what the program left there.
LEMMA StartsRight ==
  ASSUME \A k \in Kernels : IndexesInside(k), TypeOK, Parallelism, Accepted, Places,
         NEW i \in Iterations(kernel), phase[i] = "waiting", MayStart(i),
         NEW n \in Tensors(kernel), NEW c \in Cells(kernel.shape[n]),
         InRegion(Region(kernel, mode, n, i), c)
  PROVE  Abstract!Stored(kernel, Done, n, c)
           = Abstract!Stored(kernel, Abstract!Earlier(kernel, Event(i, 1)), n, c)
PROOF
<1>1. /\ kernel \in Kernels /\ IndexesInside(kernel) /\ mode \in {"forall", "sequential"}
      /\ ~Refused(kernel) /\ (mode = "forall" => Partitioned(kernel))
  BY DEF Parallelism, Accepted, MayStart
<1>2. PICK earlier : earlier = Abstract!Earlier(kernel, Event(i, 1))
  OBVIOUS
<1>3. earlier \in SUBSET Abstract!Events(kernel) /\ Done \in SUBSET Abstract!Events(kernel)
  BY <1>2 DEF Abstract!Earlier, Done
<1>4. \A e \in Abstract!Events(kernel) :
        /\ e.iteration \in Iterations(kernel)
        /\ e \in earlier <=> Precedes(e.iteration, i)
  <2> SUFFICES ASSUME NEW e \in Abstract!Events(kernel)
               PROVE  /\ e.iteration \in Iterations(kernel)
                      /\ e \in earlier <=> Precedes(e.iteration, i)
    OBVIOUS
  <2>1. /\ e.iteration \in Iterations(kernel) /\ e.at \in 1..Steps(kernel, e.iteration)
        /\ e \in earlier <=> Precedes(e.iteration, i) \/ (e.iteration = i /\ e.at < 1)
    BY <1>1, <1>2, EarlierMeans
  <2>2. ~(e.at < 1)
    BY <1>1, <2>1, StepsOfProgram
  <2> QED
    BY <2>1, <2>2
<1>5. CASE mode = "forall"
  <2>1. ASSUME NEW e \in Abstract!Stores(kernel, Done, n, c) PROVE FALSE
    <3>1. e.iteration = i
      BY <1>1, <1>3, <1>5, StoredByOwner
    <3>2. e \in Done
      BY DEF Abstract!Stores
    <3> QED
      BY <3>1, <3>2 DEF Done
  <2>2. ASSUME NEW e \in Abstract!Stores(kernel, earlier, n, c) PROVE FALSE
    <3>1. e.iteration = i
      BY <1>1, <1>3, <1>5, StoredByOwner
    <3>2. e \in earlier
      BY DEF Abstract!Stores
    <3> QED
      BY <1>1, <1>3, <1>4, <3>1, <3>2, NestOrder
  <2>3. /\ Abstract!Stores(kernel, Done, n, c) = {}
        /\ Abstract!Stores(kernel, earlier, n, c) = {}
    BY <2>1, <2>2
  <2> QED
    BY <1>2, <2>3, SameStores
<1>6. CASE mode = "sequential"
  <2>1. ASSUME NEW e \in Abstract!Events(kernel)
        PROVE  phase[e.iteration] = "done" <=> Precedes(e.iteration, i)
    <3>1. e.iteration \in Iterations(kernel)
      BY <1>4
    <3>2. Precedes(e.iteration, i) => phase[e.iteration] = "done"
      BY <1>6, <3>1 DEF MayStart
    <3>3. ASSUME phase[e.iteration] = "done" PROVE Precedes(e.iteration, i)
      <4>1. e.iteration # i
        BY <3>3
      <4>2. ~Precedes(i, e.iteration)
        BY <1>6, <3>1, <3>3 DEF Places
      <4> QED
        BY <1>1, <3>1, <4>1, <4>2, NestOrder
    <3> QED
      BY <3>2, <3>3
  <2>2. Done = earlier
    BY <1>3, <1>4, <2>1 DEF Done
  <2> QED
    BY <1>2, <2>2
<1> QED
  BY <1>1, <1>5, <1>6

\* In its own regions, an iteration that ends leaves what the program has left by then.
LEMMA EndsRight ==
  ASSUME \A k \in Kernels : IndexesInside(k), TypeOK, Parallelism, Accepted, Places,
         NEW i \in Iterations(kernel), phase[i] = "running",
         NEW over, over = Done \union {e \in Abstract!Events(kernel) : e.iteration = i},
         NEW n \in Tensors(kernel), NEW c \in Cells(kernel.shape[n]),
         InRegion(Region(kernel, mode, n, i), c)
  PROVE  Abstract!Stored(kernel, over, n, c)
           = Abstract!Stored(kernel, Abstract!Earlier(kernel, Event(i, Steps(kernel, i) + 1)), n, c)
PROOF
<1>1. /\ kernel \in Kernels /\ IndexesInside(kernel) /\ mode \in {"forall", "sequential"}
      /\ ~Refused(kernel) /\ (mode = "forall" => Partitioned(kernel))
  BY Running
<1>2. PICK earlier : earlier = Abstract!Earlier(kernel, Event(i, Steps(kernel, i) + 1))
  OBVIOUS
<1>3. earlier \in SUBSET Abstract!Events(kernel) /\ over \in SUBSET Abstract!Events(kernel)
  BY <1>2 DEF Abstract!Earlier, Done
<1>4. \A e \in Abstract!Events(kernel) :
        /\ e.iteration \in Iterations(kernel)
        /\ e \in earlier <=> Precedes(e.iteration, i) \/ e.iteration = i
  <2> SUFFICES ASSUME NEW e \in Abstract!Events(kernel)
               PROVE  /\ e.iteration \in Iterations(kernel)
                      /\ e \in earlier <=> Precedes(e.iteration, i) \/ e.iteration = i
    OBVIOUS
  <2>1. /\ e.iteration \in Iterations(kernel) /\ e.at \in 1..Steps(kernel, e.iteration)
        /\ e \in earlier <=> \/ Precedes(e.iteration, i)
                             \/ e.iteration = i /\ e.at < Steps(kernel, i) + 1
    BY <1>1, <1>2, EarlierMeans
  <2>2. e.iteration = i => e.at < Steps(kernel, i) + 1
    BY <1>1, <2>1, StepsOfProgram
  <2> QED
    BY <2>1, <2>2
<1>5. CASE mode = "forall"
  <2>1. \A e : e \in Abstract!Stores(kernel, over, n, c) =>
                 e \in Abstract!Events(kernel) /\ e.iteration = i
    BY <1>1, <1>3, <1>5, StoredByOwner DEF Abstract!Stores
  <2>2. \A e : e \in Abstract!Stores(kernel, earlier, n, c) =>
                 e \in Abstract!Events(kernel) /\ e.iteration = i
    BY <1>1, <1>3, <1>5, StoredByOwner DEF Abstract!Stores
  <2>3. \A e \in Abstract!Events(kernel) : e.iteration = i => e \in over /\ e \in earlier
    BY <1>4
  <2>4. Abstract!Stores(kernel, over, n, c) = Abstract!Stores(kernel, earlier, n, c)
    BY <2>1, <2>2, <2>3 DEF Abstract!Stores
  <2> QED
    BY <1>2, <2>4, SameStores
<1>6. CASE mode = "sequential"
  <2>1. ASSUME NEW e \in Abstract!Events(kernel), e.iteration # i
        PROVE  phase[e.iteration] = "done" <=> Precedes(e.iteration, i)
    <3>1. e.iteration \in Iterations(kernel)
      BY <1>4
    <3>2. Precedes(e.iteration, i) => phase[e.iteration] = "done"
      BY <1>6, <3>1 DEF Places
    <3>3. ASSUME phase[e.iteration] = "done" PROVE Precedes(e.iteration, i)
      <4>1. ~Precedes(i, e.iteration)
        BY <1>6, <3>1, <3>3 DEF Places
      <4> QED
        BY <1>1, <2>1, <3>1, <4>1, NestOrder
    <3> QED
      BY <3>2, <3>3
  <2>2. over = earlier
    BY <1>3, <1>4, <2>1 DEF Done
  <2> QED
    BY <1>2, <2>2
<1> QED
  BY <1>1, <1>5, <1>6

\* A store changes the elements of its iteration's regions that the program's does.
LEMMA StoresRight ==
  ASSUME \A k \in Kernels : IndexesInside(k), TypeOK, Parallelism, Accepted, Places,
         NEW i \in Iterations(kernel), phase[i] = "running", pc[i] <= Steps(kernel, i),
         NEW access, access = StatementAt(kernel, pc[i]),
         NEW slice, slice = PlanSlice(kernel, mode, i, pc[i]),
         NEW n \in Tensors(kernel), NEW region, region = Region(kernel, mode, n, i),
         NEW c \in Cells(RegionSize(region)),
         NEW x, x = Outside(region, c)
  PROVE  Abstract!Stored(kernel, Abstract!Earlier(kernel, Event(i, pc[i] + 1)), n, x)
           = IF access.op = "store" /\ access.tensor = n /\ InRegion(slice, c)
             THEN <<i, pc[i], Inside(slice, c)>>
             ELSE Abstract!Stored(kernel, Abstract!Earlier(kernel, Event(i, pc[i])), n, x)
PROOF
<1>1. /\ kernel \in Kernels /\ IndexesInside(kernel) /\ ~Refused(kernel)
      /\ pc[i] \in Nat \ {0}
  BY Running
<1>2. PICK p, e, S : p = pc[i] /\ e = Event(i, pc[i]) /\ S = Abstract!Earlier(kernel, e)
  OBVIOUS
<1>3. p \in Nat \ {0} /\ p <= Steps(kernel, i) /\ e = Event(i, p)
  BY <1>1, <1>2
<1>4. /\ Abstract!Earlier(kernel, Event(i, p + 1)) = S \union {e}
      /\ \A f \in S : Abstract!Before(f, e) /\ ~Abstract!Before(e, f)
      /\ e \notin S
  BY <1>1, <1>2, <1>3, EarlierThan
<1>5. /\ Abstract!AccessOf(kernel, e) = access
      /\ e.iteration = i /\ e.at = p
  BY <1>2, SameWords DEF Abstract!AccessOf, Event
<1>6. CASE access.op = "store" /\ access.tensor = n
  <2>1. /\ DOMAIN region = 1..Rank(kernel, n)
        /\ \A d \in 1..Rank(kernel, n) : region[d].offset \in Nat /\ region[d].size \in Nat
        /\ x \in Cells(kernel.shape[n]) /\ DOMAIN kernel.shape[n] = 1..Rank(kernel, n)
    BY <1>1, RegionCells
  <2>2. x \in [1..Rank(kernel, n) -> Int]
    BY <2>1 DEF Cells
  <2>3. c \in [1..Rank(kernel, n) -> Int]
    BY <2>1 DEF Cells, RegionSize
  <2>4. /\ Abstract!Dims(kernel, e) = 1..Rank(kernel, n)
        /\ \A d \in 1..Rank(kernel, n) : slice[d].offset \in Nat /\ slice[d].size \in Nat
        /\ Abstract!Names(kernel, e, x) <=>
             \A d \in 1..Rank(kernel, n) :
               /\ region[d].offset + slice[d].offset <= x[d]
               /\ x[d] < region[d].offset + slice[d].offset + slice[d].size
        /\ Abstract!Names(kernel, e, x) =>
             \A d \in 1..Rank(kernel, n) :
               Abstract!FirstOf(kernel, e, d) = region[d].offset + slice[d].offset
    <3>1. PICK k, m, t, u : k = kernel /\ m = mode /\ t = region /\ u = slice
      OBVIOUS
    <3>2. /\ k \in Kernels /\ IndexesInside(k) /\ ~Refused(k) /\ i \in Iterations(k)
          /\ p \in Nat \ {0} /\ p <= Steps(k, i) /\ e = Event(i, p)
      BY <1>1, <1>3, <3>1
    <3>3. n = StatementAt(k, p).tensor /\ t = Region(k, m, n, i) /\ u = PlanSlice(k, m, i, p)
      BY <1>2, <1>6, <3>1
    <3>4. x \in [1..Rank(k, n) -> Int]
      BY <2>2, <3>1
    <3>5. /\ Abstract!Dims(k, e) = 1..Rank(k, n)
          /\ \A d \in 1..Rank(k, n) : u[d].offset \in Nat /\ u[d].size \in Nat
          /\ Abstract!Names(k, e, x) <=>
               \A d \in 1..Rank(k, n) : /\ t[d].offset + u[d].offset <= x[d]
                                        /\ x[d] < t[d].offset + u[d].offset + u[d].size
          /\ Abstract!Names(k, e, x) =>
               \A d \in 1..Rank(k, n) :
                 Abstract!FirstOf(k, e, d) = t[d].offset + u[d].offset
      <4>1. Abstract!Dims(k, e) = 1..Rank(k, n)
        BY ONLY <3>2, <3>3, <3>4, EventInside
      <4>2. ASSUME NEW d \in 1..Rank(k, n) PROVE u[d].offset \in Nat /\ u[d].size \in Nat
        BY ONLY <3>2, <3>3, <3>4, EventInside
      <4>3. DOMAIN u = 1..Rank(k, n) /\ (Abstract!Names(k, e, x) <=> Reaches(t, u, x))
        BY ONLY <3>2, <3>3, <3>4, EventInside
      <4>4. ASSUME Abstract!Names(k, e, x), NEW d \in 1..Rank(k, n)
            PROVE  Abstract!FirstOf(k, e, d) = t[d].offset + u[d].offset
        BY ONLY <3>2, <3>3, <3>4, <4>4, EventInside
      <4> QED
        BY <4>1, <4>2, <4>3, <4>4 DEF Reaches
    <3> QED
      BY <3>1, <3>5
  <2>5. DOMAIN slice = 1..Rank(kernel, n)
    BY <1>6 DEF PlanSlice
  <2>6. \A d \in 1..Rank(kernel, n) : x[d] = c[d] + region[d].offset
    BY <2>1 DEF Outside
  <2>7. ASSUME NEW d \in 1..Rank(kernel, n)
        PROVE  /\ (/\ region[d].offset + slice[d].offset <= x[d]
                   /\ x[d] < region[d].offset + slice[d].offset + slice[d].size) <=>
                    slice[d].offset <= c[d] /\ c[d] < slice[d].offset + slice[d].size
               /\ x[d] - (region[d].offset + slice[d].offset) = c[d] - slice[d].offset
    <3>1. PICK a, o, z, y, w : /\ a = region[d].offset /\ o = slice[d].offset
                               /\ z = slice[d].size /\ y = c[d] /\ w = x[d]
      OBVIOUS
    <3>2. a \in Nat /\ o \in Nat /\ z \in Nat /\ y \in Int /\ w = y + a
      BY <2>1, <2>3, <2>4, <2>6, <3>1
    <3>3. /\ (a + o <= w /\ w < a + o + z) <=> (o <= y /\ y < o + z)
          /\ w - (a + o) = y - o
      BY <3>2
    <3> QED
      BY <3>1, <3>3
  <2>8. Abstract!Names(kernel, e, x) <=> InRegion(slice, c)
    BY <2>4, <2>5, <2>7 DEF InRegion
  <2>9. e \in Abstract!Stores(kernel, S \union {e}, n, x) <=> InRegion(slice, c)
    BY <1>5, <1>6, <2>8 DEF Abstract!Stores
  <2>10. CASE InRegion(slice, c)
    <3>1. Abstract!Stored(kernel, S \union {e}, n, x) = Abstract!Stamp(kernel, e, x)
      BY <1>4, <2>9, <2>10, StoredLast
    <3>2. Abstract!Stamp(kernel, e, x)
            = <<i, p, [d \in 1..Rank(kernel, n) |-> x[d] - Abstract!FirstOf(kernel, e, d)]>>
      BY <1>5, <2>4 DEF Abstract!Stamp
    <3>3. \A d \in 1..Rank(kernel, n) :
            x[d] - Abstract!FirstOf(kernel, e, d) = c[d] - slice[d].offset
      BY <2>4, <2>7, <2>8, <2>10
    <3>4. [d \in 1..Rank(kernel, n) |-> x[d] - Abstract!FirstOf(kernel, e, d)]
            = Inside(slice, c)
      BY <2>5, <3>3 DEF Inside
    <3> QED
      BY <1>2, <1>4, <1>6, <2>10, <3>1, <3>2, <3>4
  <2>11. CASE ~InRegion(slice, c)
    BY <1>2, <1>4, <1>6, <2>9, <2>11, StoredBefore
  <2> QED
    BY <2>10, <2>11
<1>7. CASE ~(access.op = "store" /\ access.tensor = n)
  <2>1. e \notin Abstract!Stores(kernel, S \union {e}, n, x)
    BY <1>5, <1>7 DEF Abstract!Stores
  <2> QED
    BY <1>2, <1>4, <1>7, <2>1, StoredBefore
<1> QED
  BY <1>6, <1>7

-----------------------------------------------------------------------------
\* A load takes a tile of the program's shape.
LEMMA TileOfProgram ==
  ASSUME NEW k \in Kernels, IndexesInside(k), NEW i \in Iterations(k),
         NEW p \in Nat \ {0}, p <= Steps(k, i), NEW n, n = StatementAt(k, p).tensor,
         NEW e, e = Event(i, p), Abstract!AccessOf(k, e) = StatementAt(k, p),
         Abstract!Dims(k, e) = 1..Rank(k, n)
  PROVE  /\ Abstract!Tile(k, e) = TileShape(k, i, StatementAt(k, p))
         /\ DOMAIN TileShape(k, i, StatementAt(k, p)) = 1..Rank(k, n)
PROOF
<1>1. PICK access : access = StatementAt(k, p)
  OBVIOUS
<1>2. n \in Tensors(k) /\ access \in Accesses(k, n) /\ n = access.tensor
  BY <1>1, StatementFacts
<1>3. ASSUME NEW d \in 1..Rank(k, n)
      PROVE  TileWidth(k, i, SubscriptOf(access, d), k.shape[n][d])
               = Abstract!Width(k, SubscriptOf(access, d), k.shape[n][d])
  <2>1. PICK s : s = SubscriptOf(access, d)
    OBVIOUS
  <2>2. SubscriptInside(k, n, s, k.shape[n][d])
    BY <1>2, <2>1 DEF IndexesInside
  <2>3. CASE s.form = "tile" /\ s.block = 0
    <3>1. 1 \in GridIds(k) /\ k.grid[1].kind = "tile"
      BY <2>2, <2>3 DEF SubscriptInside, TilesInside, IsTileLoop
    <3>2. TileExtent(NestedLoop(k, i)) = k.inner
      BY <3>1, NestedIsLoop
    <3> QED
      BY <2>1, <2>3, <3>2 DEF TileWidth, Abstract!Width
  <2>4. CASE ~(s.form = "tile" /\ s.block = 0)
    BY <2>1, <2>4, SameWords DEF TileWidth, Abstract!Width
  <2> QED
    BY <2>3, <2>4
<1>4. TileShape(k, i, access)
        = [d \in 1..Rank(k, n) |-> TileWidth(k, i, SubscriptOf(access, d), k.shape[n][d])]
  BY <1>2 DEF TileShape
<1>5. Abstract!Tile(k, e)
        = [d \in 1..Rank(k, n) |-> Abstract!Width(k, SubscriptOf(access, d), k.shape[n][d])]
  BY <1>1, <1>2, SameWords DEF Abstract!Tile
<1>6. Abstract!Tile(k, e) = TileShape(k, i, access)
  BY <1>3, <1>4, <1>5
<1> QED
  BY <1>1, <1>4, <1>6

\* The real part of a loaded tile is what the program names, at the same elements.
LEMMA TileMeans ==
  ASSUME NEW k \in Kernels, IndexesInside(k), ~Refused(k), NEW i \in Iterations(k), NEW m,
         NEW p \in Nat \ {0}, p <= Steps(k, i), NEW n, n = StatementAt(k, p).tensor,
         NEW region, region = Region(k, m, n, i),
         NEW slice, slice = PlanSlice(k, m, i, p),
         NEW e, e = Event(i, p), NEW c \in Cells(TileShape(k, i, StatementAt(k, p))),
         NEW x, x = Abstract!ElementAt(k, e, c)
  PROVE  /\ Abstract!Names(k, e, x) <=> Real(slice, c)
         /\ Real(slice, c) => /\ Outside(slice, c) \in Cells(RegionSize(region))
                              /\ Outside(region, Outside(slice, c)) = x
PROOF
<1> DEFINE dims == 1..Rank(k, n)
<1>1. n \in Tensors(k) /\ MaxExtent \in Nat
  BY StatementFacts, KernelAssumption
<1>2. PICK z \in [1..Rank(k, n) -> Int] : TRUE
  <2>1. [d \in 1..Rank(k, n) |-> 0] \in [1..Rank(k, n) -> Int]
    OBVIOUS
  <2> QED
    BY <2>1
<1>3. /\ Abstract!AccessOf(k, e) = StatementAt(k, p) /\ Abstract!Dims(k, e) = dims
      /\ DOMAIN slice = dims
      /\ \A d \in dims :
           /\ slice[d].offset \in Nat /\ slice[d].size \in Nat
           /\ slice[d].offset + slice[d].size <= region[d].size
           /\ Abstract!FirstOf(k, e, d) \in Int /\ Abstract!EndOf(k, e, d) \in Int
           /\ Selects(region[d].offset + slice[d].offset, slice[d].size,
                      Abstract!FirstOf(k, e, d), Abstract!EndOf(k, e, d))
  BY <1>2, EventInside
<1>4. /\ DOMAIN region = dims
      /\ \A d \in dims : /\ region[d].offset \in Nat /\ region[d].size \in Nat
                         /\ region[d].offset + region[d].size <= k.shape[n][d]
  BY <1>1, RegionCells
<1>5. DOMAIN TileShape(k, i, StatementAt(k, p)) = dims
  BY <1>3, TileOfProgram
<1>6. c \in [dims -> 0..MaxExtent]
  BY <1>5 DEF Cells
<1>7. x = [d \in dims |-> Abstract!FirstOf(k, e, d) + c[d]]
  BY <1>3 DEF Abstract!ElementAt
<1> HIDE DEF dims
<1>8. ASSUME NEW d \in dims
      PROVE  /\ Abstract!FirstOf(k, e, d) <= x[d] /\ x[d] < Abstract!EndOf(k, e, d)
                  <=> c[d] < slice[d].size
             /\ c[d] < slice[d].size => /\ c[d] + slice[d].offset \in 0..MaxExtent
                                        /\ c[d] + slice[d].offset < region[d].size
                                        /\ (c[d] + slice[d].offset) + region[d].offset = x[d]
  <2>1. PICK a, w, o, y, f, g, j, q :
          /\ a = region[d].offset /\ w = region[d].size
          /\ o = slice[d].offset /\ y = slice[d].size
          /\ f = Abstract!FirstOf(k, e, d) /\ g = Abstract!EndOf(k, e, d)
          /\ j = c[d] /\ q = k.shape[n][d]
    OBVIOUS
  <2>2. q \in 0..MaxExtent
    BY <1>1, <2>1, Extents DEF dims
  <2>3. /\ a \in Nat /\ w \in Nat /\ o \in Nat /\ y \in Nat /\ f \in Int /\ g \in Int
        /\ o + y <= w /\ a + w <= q /\ Selects(a + o, y, f, g)
    BY <1>3, <1>4, <2>1
  <2>4. j \in Nat
    BY <1>1, <1>6, <2>1
  <2>5. x[d] = f + j
    BY <1>7, <2>1
  <2>6. (f <= f + j /\ f + j < g) <=> j < y
    BY <2>3, <2>4 DEF Selects
  <2>7. j < y => /\ j + o \in 0..MaxExtent /\ j + o < w /\ (j + o) + a = f + j
    BY <1>1, <2>2, <2>3, <2>4 DEF Selects
  <2> QED
    BY <2>1, <2>5, <2>6, <2>7
<1>9. Abstract!Names(k, e, x) <=>
        \A d \in dims : Abstract!FirstOf(k, e, d) <= x[d] /\ x[d] < Abstract!EndOf(k, e, d)
  BY <1>3 DEF Abstract!Names
<1>10. Abstract!Names(k, e, x) <=> Real(slice, c)
  BY <1>3, <1>8, <1>9 DEF Real
<1>11. ASSUME Real(slice, c)
       PROVE  /\ Outside(slice, c) \in Cells(RegionSize(region))
              /\ Outside(region, Outside(slice, c)) = x
  <2>1. \A d \in dims : c[d] < slice[d].size
    BY <1>3, <1>11 DEF Real
  <2>2. Outside(slice, c) = [d \in dims |-> c[d] + slice[d].offset]
    BY <1>3 DEF Outside
  <2>3. RegionSize(region) = [d \in dims |-> region[d].size]
    BY <1>4 DEF RegionSize
  <2>4. Outside(slice, c) \in Cells(RegionSize(region))
    BY <1>8, <2>1, <2>2, <2>3 DEF Cells
  <2>5. Outside(region, Outside(slice, c))
          = [d \in dims |-> (c[d] + slice[d].offset) + region[d].offset]
    BY <1>4, <2>2 DEF Outside
  <2>6. Outside(region, Outside(slice, c)) = [d \in dims |-> x[d]]
    BY <1>8, <2>1, <2>5
  <2> QED
    BY <1>7, <2>4, <2>6
<1> QED
  BY <1>10, <1>11

\* A tensor the kernel does not write is all its iterations', and stays as it was.
LEMMA UnwrittenTensors ==
  ASSUME NEW k \in Kernels, IndexesInside(k), ~Refused(k), NEW m, NEW n \in Tensors(k),
         n \notin Written(k)
  PROVE  /\ \A S \in SUBSET Abstract!Events(k) : \A c \in Cells(k.shape[n]) :
              Abstract!Stored(k, S, n, c) = Old(n, c)
         /\ \A i \in Iterations(k) : \A c \in Cells(RegionSize(Region(k, m, n, i))) :
              Outside(Region(k, m, n, i), c) = c /\ c \in Cells(k.shape[n])
PROOF
<1>1. ASSUME NEW S \in SUBSET Abstract!Events(k), NEW c \in Cells(k.shape[n])
      PROVE  Abstract!Stored(k, S, n, c) = Old(n, c)
  <2>1. ASSUME NEW e \in Abstract!Stores(k, S, n, c) PROVE FALSE
    BY <2>1, StoresMeans
  <2>2. Abstract!Stores(k, S, n, c) = {}
    BY <2>1
  <2> QED
    BY <2>2, NeverStored
<1>2. ASSUME NEW i \in Iterations(k), NEW region, region = Region(k, m, n, i),
             NEW c \in Cells(RegionSize(region))
      PROVE  Outside(region, c) = c /\ c \in Cells(k.shape[n])
  <2>1. region = [d \in 1..Rank(k, n) |-> [offset |-> 0, size |-> k.shape[n][d]]]
    BY <1>2 DEF Region, OwnerIn, RegionDim
  <2>2. c \in [1..Rank(k, n) -> 0..MaxExtent]
    BY <2>1 DEF Cells, RegionSize
  <2>3. \A d \in 1..Rank(k, n) : c[d] \in Int /\ c[d] + 0 = c[d]
    <3>1. MaxExtent \in Nat
      BY KernelAssumption
    <3> QED
      BY <2>2, <3>1
  <2>4. Outside(region, c) = [d \in 1..Rank(k, n) |-> c[d] + 0]
    BY <2>1 DEF Outside
  <2>5. Outside(region, c) = c
    BY <2>2, <2>3, <2>4
  <2>6. Outside(region, c) \in Cells(k.shape[n])
    BY <1>2, RegionCells
  <2> QED
    BY <2>5, <2>6
<1> QED
  BY <1>1, <1>2

\* A load reads what the program's does.
LEMMA LoadsRight ==
  ASSUME \A k \in Kernels : IndexesInside(k), TypeOK, Parallelism, Accepted, Places,
         MemoryRight, LocalRight,
         NEW i \in Iterations(kernel), phase[i] = "running", pc[i] <= Steps(kernel, i),
         NEW access, access = StatementAt(kernel, pc[i]),
         NEW slice, slice = PlanSlice(kernel, mode, i, pc[i])
  PROVE  [c \in Cells(TileShape(kernel, i, access)) |->
            IF Real(slice, c) THEN Value(i, access.tensor)[Outside(slice, c)] ELSE Zero]
           = Abstract!Loaded(kernel, Event(i, pc[i]))
PROOF
<1>1. /\ kernel \in Kernels /\ IndexesInside(kernel) /\ ~Refused(kernel)
      /\ pc[i] \in Nat \ {0}
  BY Running
<1>2. PICK k, m, p, e, S, n, region :
        /\ k = kernel /\ m = mode /\ p = pc[i] /\ e = Event(i, pc[i])
        /\ S = Abstract!Earlier(kernel, Event(i, pc[i]))
        /\ n = access.tensor /\ region = Region(kernel, mode, access.tensor, i)
  OBVIOUS
<1>3. /\ k \in Kernels /\ IndexesInside(k) /\ ~Refused(k) /\ i \in Iterations(k)
      /\ p \in Nat \ {0} /\ p <= Steps(k, i) /\ e = Event(i, p)
      /\ access = StatementAt(k, p) /\ n = StatementAt(k, p).tensor
      /\ region = Region(k, m, n, i) /\ slice = PlanSlice(k, m, i, p)
  BY <1>1, <1>2
<1>4. n \in Tensors(k)
  BY <1>3, StatementFacts
<1>5. /\ Abstract!AccessOf(k, e) = access /\ Abstract!Dims(k, e) = 1..Rank(k, n)
  <2>1. PICK z \in [1..Rank(k, n) -> Int] : TRUE
    <3>1. [d \in 1..Rank(k, n) |-> 0] \in [1..Rank(k, n) -> Int]
      OBVIOUS
    <3> QED
      BY <3>1
  <2> QED
    BY <1>3, <2>1, EventInside
<1>6. Abstract!Tile(k, e) = TileShape(k, i, access)
  BY <1>3, <1>5, TileOfProgram
<1>7. ASSUME NEW c \in Cells(TileShape(k, i, access)),
             NEW x, x = Abstract!ElementAt(k, e, c)
      PROVE  (IF Real(slice, c) THEN Value(i, n)[Outside(slice, c)] ELSE Zero)
               = IF Abstract!Names(k, e, x) THEN Abstract!Stored(k, S, n, x) ELSE Zero
  <2>1. /\ Abstract!Names(k, e, x) <=> Real(slice, c)
        /\ Real(slice, c) => /\ Outside(slice, c) \in Cells(RegionSize(region))
                             /\ Outside(region, Outside(slice, c)) = x
    BY <1>3, <1>7, TileMeans
  <2>2. ASSUME Real(slice, c) PROVE Value(i, n)[Outside(slice, c)] = Abstract!Stored(k, S, n, x)
    <3>1. PICK y : y = Outside(slice, c)
      OBVIOUS
    <3>2. y \in Cells(RegionSize(region)) /\ Outside(region, y) = x
      BY <2>1, <2>2, <3>1
    <3>3. CASE n \in Written(k)
      <4>1. local[i][n] = [y2 \in Cells(RegionSize(region)) |->
                             Abstract!Stored(k, S, n, Outside(region, y2))]
        <5>1. kernel = k /\ mode = m /\ n \in Written(kernel)
          BY <1>2, <3>3
        <5>2. local[i] = [n2 \in Written(kernel) |->
                LET area == Region(kernel, mode, n2, i)
                IN  [y2 \in Cells(RegionSize(area)) |->
                       Abstract!Stored(kernel, Abstract!Earlier(kernel, Event(i, pc[i])), n2,
                                       Outside(area, y2))]]
          BY DEF LocalRight, RegionsBefore
        <5>3. local[i][n] =
                LET area == Region(kernel, mode, n, i)
                IN  [y2 \in Cells(RegionSize(area)) |->
                       Abstract!Stored(kernel, Abstract!Earlier(kernel, Event(i, pc[i])), n,
                                       Outside(area, y2))]
          BY <5>1, <5>2
        <5>4. region = Region(kernel, mode, n, i)
          BY <1>2
        <5> QED
          BY <1>2, <5>1, <5>3, <5>4
      <4>2. Value(i, n) = local[i][n]
        BY <1>2, <3>3 DEF Value
      <4> QED
        BY <3>1, <3>2, <4>1, <4>2
    <3>4. CASE n \notin Written(k)
      <4>1. Outside(region, y) = y /\ y \in Cells(k.shape[n])
        <5>1. \A y2 \in Cells(RegionSize(Region(k, m, n, i))) :
                Outside(Region(k, m, n, i), y2) = y2 /\ y2 \in Cells(k.shape[n])
          BY <1>3, <1>4, <3>4, UnwrittenTensors
        <5> QED
          BY <1>3, <3>2, <5>1
      <4>2. Value(i, n) = memory[n]
        BY <1>2, <3>4 DEF Value
      <4>3. memory[n][y] = Abstract!Stored(k, Done, n, y)
        <5>1. memory[n] = [c2 \in Cells(kernel.shape[n]) |-> Abstract!Stored(kernel, Done, n, c2)]
          <6>1. n \in Tensors(kernel)
            BY <1>2, <1>4
          <6> QED
            BY <6>1 DEF MemoryRight, TensorsAfter
        <5>2. y \in Cells(kernel.shape[n]) /\ k = kernel
          BY <1>2, <4>1
        <5> QED
          BY <5>1, <5>2
      <4>4. Done \in SUBSET Abstract!Events(k) /\ S \in SUBSET Abstract!Events(k)
        BY <1>2 DEF Done, Abstract!Earlier
      <4>5. Abstract!Stored(k, Done, n, y) = Abstract!Stored(k, S, n, y)
        BY <1>3, <1>4, <3>4, <4>1, <4>4, UnwrittenTensors
      <4> QED
        BY <3>1, <3>2, <4>1, <4>2, <4>3, <4>5
    <3> QED
      BY <3>3, <3>4
  <2> QED
    BY <2>1, <2>2
<1>8. Abstract!Loaded(k, e)
        = [c \in Cells(TileShape(k, i, access)) |->
             IF Abstract!Names(k, e, Abstract!ElementAt(k, e, c))
             THEN Abstract!Stored(k, S, n, Abstract!ElementAt(k, e, c))
             ELSE Zero]
  <2>1. S = Abstract!Earlier(k, e)
    BY <1>2
  <2>2. Abstract!AccessOf(k, e).tensor = n
    BY <1>2, <1>5
  <2>3. Abstract!Cells(Abstract!Tile(k, e)) = Cells(TileShape(k, i, access))
    BY <1>6, SameWords
  <2> QED
    BY <2>1, <2>2, <2>3, SameWords DEF Abstract!Loaded
<1>9. ASSUME NEW c \in Cells(TileShape(k, i, access))
      PROVE  (IF Real(slice, c) THEN Value(i, n)[Outside(slice, c)] ELSE Zero)
               = IF Abstract!Names(k, e, Abstract!ElementAt(k, e, c))
                 THEN Abstract!Stored(k, S, n, Abstract!ElementAt(k, e, c)) ELSE Zero
  <2>1. PICK x : x = Abstract!ElementAt(k, e, c)
    OBVIOUS
  <2>2. (IF Real(slice, c) THEN Value(i, n)[Outside(slice, c)] ELSE Zero)
          = IF Abstract!Names(k, e, x) THEN Abstract!Stored(k, S, n, x) ELSE Zero
    BY <1>7, <2>1
  <2> QED
    BY <2>1, <2>2
<1>10. [c \in Cells(TileShape(k, i, access)) |->
          IF Real(slice, c) THEN Value(i, n)[Outside(slice, c)] ELSE Zero]
         = Abstract!Loaded(k, e)
  BY <1>8, <1>9
<1> QED
  BY <1>2, <1>10

-----------------------------------------------------------------------------
\* What one statement changes in its iteration's regions.
LEMMA RegionsStep ==
  ASSUME \A k \in Kernels : IndexesInside(k), TypeOK, Parallelism, Accepted, Places,
         NEW i \in Iterations(kernel), phase[i] = "running", pc[i] <= Steps(kernel, i),
         NEW access, access = StatementAt(kernel, pc[i]),
         NEW slice, slice = PlanSlice(kernel, mode, i, pc[i])
  PROVE  RegionsBefore(kernel, mode, i, pc[i] + 1)
           = [n \in Written(kernel) |->
                [c \in Cells(RegionSize(Region(kernel, mode, n, i))) |->
                   IF access.op = "store" /\ access.tensor = n /\ InRegion(slice, c)
                   THEN <<i, pc[i], Inside(slice, c)>>
                   ELSE RegionsBefore(kernel, mode, i, pc[i])[n][c]]]
PROOF
<1> DEFINE Held(p, n, c) ==
             Abstract!Stored(kernel, Abstract!Earlier(kernel, Event(i, p)), n,
                             Outside(Region(kernel, mode, n, i), c))
           Box(n) == Cells(RegionSize(Region(kernel, mode, n, i)))
<1>1. \A p : RegionsBefore(kernel, mode, i, p)
               = [n \in Written(kernel) |-> [c \in Box(n) |-> Held(p, n, c)]]
  BY DEF RegionsBefore
<1>2. ASSUME NEW n \in Written(kernel), NEW c \in Box(n)
      PROVE  Held(pc[i] + 1, n, c)
               = IF access.op = "store" /\ access.tensor = n /\ InRegion(slice, c)
                 THEN <<i, pc[i], Inside(slice, c)>> ELSE Held(pc[i], n, c)
  <2>1. PICK region : region = Region(kernel, mode, n, i)
    OBVIOUS
  <2>2. PICK x : x = Outside(region, c)
    OBVIOUS
  <2>3. n \in Tensors(kernel) /\ c \in Cells(RegionSize(region))
    BY <2>1 DEF Written
  <2>4. Abstract!Stored(kernel, Abstract!Earlier(kernel, Event(i, pc[i] + 1)), n, x)
          = IF access.op = "store" /\ access.tensor = n /\ InRegion(slice, c)
            THEN <<i, pc[i], Inside(slice, c)>>
            ELSE Abstract!Stored(kernel, Abstract!Earlier(kernel, Event(i, pc[i])), n, x)
    BY <2>1, <2>2, <2>3, StoresRight
  <2> QED
    BY <2>1, <2>2, <2>4
<1> DEFINE Then(n, c) == IF access.op = "store" /\ access.tensor = n /\ InRegion(slice, c)
                         THEN <<i, pc[i], Inside(slice, c)>>
                         ELSE RegionsBefore(kernel, mode, i, pc[i])[n][c]
           New(n) == [c \in Box(n) |-> Then(n, c)]
<1>3. \A n \in Written(kernel) : [c \in Box(n) |-> Held(pc[i] + 1, n, c)] = New(n)
  <2> SUFFICES ASSUME NEW n \in Written(kernel)
               PROVE  [c \in Box(n) |-> Held(pc[i] + 1, n, c)] = New(n)
    OBVIOUS
  <2>1. RegionsBefore(kernel, mode, i, pc[i])[n] = [c \in Box(n) |-> Held(pc[i], n, c)]
    BY <1>1
  <2> HIDE DEF Held, Box
  <2>2. \A c \in Box(n) : Held(pc[i] + 1, n, c) = Then(n, c)
    BY <1>2, <2>1
  <2> QED
    BY <2>2
<1>4. RegionsBefore(kernel, mode, i, pc[i] + 1)
        = [n \in Written(kernel) |-> [c \in Box(n) |-> Held(pc[i] + 1, n, c)]]
  BY <1>1
<1>5. RegionsBefore(kernel, mode, i, pc[i] + 1) = [n \in Written(kernel) |-> New(n)]
  <2> HIDE DEF New, Held
  <2> QED
    BY <1>3, <1>4
<1> QED
  BY <1>5, Zenon

\* A load adds its tile to those the program has loaded, another statement none.
LEMMA TilesStep ==
  ASSUME NEW k \in Kernels, IndexesInside(k), NEW i \in Iterations(k),
         NEW p \in Nat \ {0}, p <= Steps(k, i)
  PROVE  /\ StatementAt(k, p).op = "load" =>
              TilesBefore(k, i, p + 1)
                = [q \in DOMAIN TilesBefore(k, i, p) \union {p} |->
                     IF q = p THEN Abstract!Loaded(k, Event(i, p))
                     ELSE TilesBefore(k, i, p)[q]]
         /\ StatementAt(k, p).op # "load" => TilesBefore(k, i, p + 1) = TilesBefore(k, i, p)
PROOF
<1>1. Abstract!Length(k, i) = Steps(k, i) /\ Steps(k, i) \in Nat
  BY StepsOfProgram
<1>2. PICK loads : loads = Abstract!Loads(k, i)
  OBVIOUS
<1>3. /\ \A q \in loads : q \in Nat \ {0}
      /\ p \in loads <=> StatementAt(k, p).op = "load"
  BY <1>1, <1>2, SameWords DEF Abstract!Loads
<1>4. \A q \in loads : q < p + 1 <=> q < p \/ q = p
  BY <1>3
<1>5. \A r : TilesBefore(k, i, r)
               = [q \in {l \in loads : l < r} |-> Abstract!Loaded(k, Event(i, q))]
  BY <1>2 DEF TilesBefore
<1>6. CASE StatementAt(k, p).op = "load"
  <2>1. {l \in loads : l < p + 1} = {l \in loads : l < p} \union {p}
    BY <1>3, <1>4, <1>6
  <2>2. TilesBefore(k, i, p + 1)
          = [q \in {l \in loads : l < p} \union {p} |-> Abstract!Loaded(k, Event(i, q))]
    BY <1>5, <2>1
  <2>3. DOMAIN TilesBefore(k, i, p) = {l \in loads : l < p}
    BY <1>5
  <2>4. \A q \in {l \in loads : l < p} : TilesBefore(k, i, p)[q] = Abstract!Loaded(k, Event(i, q))
    BY <1>5
  <2> QED
    BY <1>6, <2>2, <2>3, <2>4
<1>7. CASE StatementAt(k, p).op # "load"
  <2>1. {l \in loads : l < p + 1} = {l \in loads : l < p}
    BY <1>3, <1>4, <1>7
  <2> QED
    BY <1>5, <1>7, <2>1
<1> QED
  BY <1>6, <1>7

-----------------------------------------------------------------------------
\* Right holds before the nest runs.
LEMMA RightInit ==
  ASSUME \A k \in Kernels : IndexesInside(k), Init
  PROVE  Right
PROOF
<1>1. kernel \in Kernels /\ IndexesInside(kernel) /\ memory = Blank(kernel)
  BY DEF Init
<1>2. \A i \in Iterations(kernel) : phase[i] = "waiting" /\ pc[i] = 1
  BY DEF Init
<1>3. Done = {}
  <2>1. ASSUME NEW e \in Done PROVE FALSE
    <3>1. PICK i \in Iterations(kernel) : \E p \in 1..Steps(kernel, i) : e = Event(i, p)
      BY <1>1, EventsOf DEF Done
    <3>2. e.iteration = i
      BY <3>1 DEF Event
    <3> QED
      BY <1>2, <3>2 DEF Done
  <2> QED
    BY <2>1
<1>4. MemoryRight
  <2>1. \A n, c : Abstract!Stored(kernel, {}, n, c) = Old(n, c)
    <3>1. \A n, c : Abstract!Stores(kernel, {}, n, c) = {}
      BY DEF Abstract!Stores
    <3> QED
      BY <3>1, NeverStored
  <2> QED
    BY <1>1, <1>3, <2>1 DEF MemoryRight, TensorsAfter, Blank
<1>5. LocalRight
  BY <1>2 DEF LocalRight
<1>6. SeenRight
  <2>1. ASSUME NEW i \in Iterations(kernel)
        PROVE  TilesBefore(kernel, i, pc[i]) = [p \in {} |-> Zero]
    <3>1. Abstract!Length(kernel, i) \in Nat
      BY <1>1, StepsOfProgram
    <3>2. {l \in Abstract!Loads(kernel, i) : l < 1} = {}
      BY <3>1 DEF Abstract!Loads
    <3> QED
      BY <1>2, <3>2 DEF TilesBefore
  <2>2. seen = [i \in Iterations(kernel) |-> [p \in {} |-> Zero]]
    BY DEF Init
  <2> QED
    BY <2>1, <2>2 DEF SeenRight
<1> QED
  BY <1>4, <1>5, <1>6 DEF Right

\* What an iteration takes out of the tensors is what the program left in its regions.
LEMMA RightStart ==
  ASSUME \A k \in Kernels : IndexesInside(k), TypeOK, Parallelism, Accepted, Places, Right,
         NEW i \in Iterations(kernel), Start(i)
  PROVE  Right'
PROOF
<1>1. /\ kernel' = kernel /\ mode' = mode /\ memory' = memory /\ pc' = pc /\ seen' = seen
      /\ phase' = [phase EXCEPT ![i] = "running"] /\ phase[i] = "waiting" /\ MayStart(i)
      /\ phase \in [Iterations(kernel) -> {"waiting", "running", "done"}]
      /\ DOMAIN local = Iterations(kernel) /\ pc[i] = 1
  BY DEF Start, TypeOK, Places
<1>2. kernel \in Kernels /\ IndexesInside(kernel)
  BY DEF Parallelism
<1>3. Done' = Done
  <2>1. \A e \in Abstract!Events(kernel) : e.iteration \in Iterations(kernel)
    BY <1>2, EarlierMeans
  <2> QED
    BY <1>1, <2>1 DEF Done
<1>4. MemoryRight'
  BY <1>1, <1>3 DEF Right, MemoryRight
<1>5. SeenRight'
  BY <1>1 DEF Right, SeenRight
<1>6. local' = [local EXCEPT ![i] = RegionsBefore(kernel, mode, i, pc[i])]
  <2>1. ASSUME NEW n \in Written(kernel), NEW region, region = Region(kernel, mode, n, i),
               NEW c \in Cells(RegionSize(region))
        PROVE  memory[n][Outside(region, c)]
                 = Abstract!Stored(kernel, Abstract!Earlier(kernel, Event(i, 1)), n,
                                   Outside(region, c))
    <3>1. n \in Tensors(kernel)
      BY DEF Written
    <3>2. PICK x : x = Outside(region, c)
      OBVIOUS
    <3>3. x \in Cells(kernel.shape[n]) /\ InRegion(Region(kernel, mode, n, i), x)
      BY <1>2, <2>1, <3>1, <3>2, RegionCells
    <3>4. memory[n][x] = Abstract!Stored(kernel, Done, n, x)
      BY <3>1, <3>3 DEF Right, MemoryRight, TensorsAfter
    <3>5. Abstract!Stored(kernel, Done, n, x)
            = Abstract!Stored(kernel, Abstract!Earlier(kernel, Event(i, 1)), n, x)
      BY <1>1, <3>1, <3>3, StartsRight
    <3> QED
      BY <3>2, <3>4, <3>5
  <2>2. ASSUME NEW n \in Written(kernel), NEW region, region = Region(kernel, mode, n, i)
        PROVE  [c \in Cells(RegionSize(region)) |-> memory[n][Outside(region, c)]]
                 = [c \in Cells(RegionSize(region)) |->
                      Abstract!Stored(kernel, Abstract!Earlier(kernel, Event(i, 1)), n,
                                      Outside(region, c))]
    BY <2>1, <2>2
  <2> DEFINE Taken(n) == LET region == Region(kernel, mode, n, i)
                         IN  [c \in Cells(RegionSize(region)) |-> memory[n][Outside(region, c)]]
             Left(n) == LET region == Region(kernel, mode, n, i)
                        IN  [c \in Cells(RegionSize(region)) |->
                               Abstract!Stored(kernel, Abstract!Earlier(kernel, Event(i, 1)), n,
                                               Outside(region, c))]
  <2>3. ASSUME NEW n \in Written(kernel) PROVE Taken(n) = Left(n)
    <3>1. PICK region : region = Region(kernel, mode, n, i)
      OBVIOUS
    <3> QED
      BY <2>2, <3>1
  <2>4. local' = [local EXCEPT ![i] = [n \in Written(kernel) |-> Taken(n)]]
    BY Zenon DEF Start
  <2>5. RegionsBefore(kernel, mode, i, 1) = [n \in Written(kernel) |-> Left(n)]
    BY Zenon DEF RegionsBefore
  <2> HIDE DEF Taken, Left
  <2> QED
    BY <1>1, <2>3, <2>4, <2>5
<1>7. LocalRight'
  <2> SUFFICES ASSUME NEW j \in Iterations(kernel), phase'[j] = "running"
               PROVE  local'[j] = RegionsBefore(kernel, mode, j, pc[j])
    BY <1>1 DEF LocalRight
  <2>1. CASE j = i
    BY <1>1, <1>6, <2>1
  <2>2. CASE j # i
    BY <1>1, <1>6, <2>2 DEF Right, LocalRight
  <2> QED
    BY <2>1, <2>2
<1> QED
  BY <1>4, <1>5, <1>7 DEF Right

\* A load takes the program's tile.
LEMMA RightLoad ==
  ASSUME \A k \in Kernels : IndexesInside(k), TypeOK, Parallelism, Accepted, Places, Right,
         NEW i \in Iterations(kernel), Load(i)
  PROVE  Right'
PROOF
<1>1. /\ kernel' = kernel /\ mode' = mode /\ memory' = memory /\ phase' = phase
      /\ local' = local /\ pc' = [pc EXCEPT ![i] = @ + 1]
      /\ phase[i] = "running" /\ pc[i] <= Steps(kernel, i)
      /\ DOMAIN seen = Iterations(kernel) /\ pc \in [Iterations(kernel) -> Nat \ {0}]
  BY DEF Load, TypeOK
<1>2. kernel \in Kernels /\ IndexesInside(kernel)
  BY DEF Parallelism
<1>3. PICK access, slice, p : /\ access = StatementAt(kernel, pc[i]) /\ p = pc[i]
                              /\ slice = PlanSlice(kernel, mode, i, pc[i])
  OBVIOUS
<1>4. access.op = "load"
  BY <1>3 DEF Load
<1>5. PICK tile : tile = [c \in Cells(TileShape(kernel, i, access)) |->
                            IF Real(slice, c) THEN Value(i, access.tensor)[Outside(slice, c)]
                            ELSE Zero]
  OBVIOUS
<1>6. tile = Abstract!Loaded(kernel, Event(i, p))
  BY <1>1, <1>3, <1>5, LoadsRight DEF Right
<1>7. seen' = [seen EXCEPT ![i] = [q \in DOMAIN @ \union {p} |-> IF q = p THEN tile ELSE @[q]]]
  BY <1>3, <1>5, Zenon DEF Load
<1>8. p \in Nat \ {0} /\ p <= Steps(kernel, i)
  BY <1>1, <1>3
<1>9. MemoryRight'
  BY <1>1 DEF Right, MemoryRight, Done
<1>10. LocalRight'
  <2>1. RegionsBefore(kernel, mode, i, p + 1) = RegionsBefore(kernel, mode, i, p)
    <3>1. RegionsBefore(kernel, mode, i, p + 1)
            = [n \in Written(kernel) |->
                 [c \in Cells(RegionSize(Region(kernel, mode, n, i))) |->
                    IF access.op = "store" /\ access.tensor = n /\ InRegion(slice, c)
                    THEN <<i, p, Inside(slice, c)>>
                    ELSE RegionsBefore(kernel, mode, i, p)[n][c]]]
      BY <1>1, <1>3, RegionsStep
    <3>2. RegionsBefore(kernel, mode, i, p + 1)
            = [n \in Written(kernel) |->
                 [c \in Cells(RegionSize(Region(kernel, mode, n, i))) |->
                    RegionsBefore(kernel, mode, i, p)[n][c]]]
      BY <1>4, <3>1
    <3> QED
      BY <3>2 DEF RegionsBefore
  <2> SUFFICES ASSUME NEW j \in Iterations(kernel), phase[j] = "running"
               PROVE  local[j] = RegionsBefore(kernel, mode, j, pc'[j])
    BY <1>1 DEF LocalRight
  <2>2. CASE j = i
    BY <1>1, <1>3, <2>1, <2>2 DEF Right, LocalRight
  <2>3. CASE j # i
    BY <1>1, <2>3 DEF Right, LocalRight
  <2> QED
    BY <2>2, <2>3
<1>11. SeenRight'
  <2>1. TilesBefore(kernel, i, p + 1)
          = [q \in DOMAIN TilesBefore(kernel, i, p) \union {p} |->
               IF q = p THEN tile ELSE TilesBefore(kernel, i, p)[q]]
    BY <1>2, <1>3, <1>4, <1>6, <1>8, TilesStep
  <2>2. seen[i] = TilesBefore(kernel, i, p)
    BY <1>3 DEF Right, SeenRight
  <2>3. seen'[i] = TilesBefore(kernel, i, p + 1)
    BY <1>1, <1>7, <2>1, <2>2
  <2>4. DOMAIN seen' = Iterations(kernel)
    BY <1>1, <1>7
  <2>5. ASSUME NEW j \in Iterations(kernel) PROVE seen'[j] = TilesBefore(kernel, j, pc'[j])
    <3>1. CASE j = i
      BY <1>1, <1>3, <2>3, <3>1
    <3>2. CASE j # i
      BY <1>1, <1>7, <3>2 DEF Right, SeenRight
    <3> QED
      BY <3>1, <3>2
  <2>6. seen' = [j \in Iterations(kernel) |-> seen'[j]]
    BY <1>7, <2>4
  <2> QED
    BY <1>1, <2>5, <2>6 DEF SeenRight
<1> QED
  BY <1>9, <1>10, <1>11 DEF Right

\* A store leaves the program's stamps in the iteration's regions.
LEMMA RightStore ==
  ASSUME \A k \in Kernels : IndexesInside(k), TypeOK, Parallelism, Accepted, Places, Right,
         NEW i \in Iterations(kernel), Store(i)
  PROVE  Right'
PROOF
<1>1. /\ kernel' = kernel /\ mode' = mode /\ memory' = memory /\ phase' = phase
      /\ seen' = seen /\ pc' = [pc EXCEPT ![i] = @ + 1]
      /\ phase[i] = "running" /\ pc[i] <= Steps(kernel, i)
      /\ DOMAIN local = Iterations(kernel) /\ pc \in [Iterations(kernel) -> Nat \ {0}]
  BY DEF Store, TypeOK
<1>2. kernel \in Kernels /\ IndexesInside(kernel)
  BY DEF Parallelism
<1>3. PICK access, slice, p, n : /\ access = StatementAt(kernel, pc[i]) /\ p = pc[i]
                                 /\ slice = PlanSlice(kernel, mode, i, pc[i])
                                 /\ n = access.tensor
  OBVIOUS
<1>4. p \in Nat \ {0} /\ p <= Steps(kernel, i) /\ access.op = "store"
  BY <1>1, <1>3 DEF Store
<1>5. n \in Written(kernel)
  <2>1. access \in Accesses(kernel, n) /\ n \in Tensors(kernel)
    BY <1>2, <1>3, <1>4, StatementFacts
  <2> QED
    BY <1>3, <1>4, <2>1 DEF Accesses, Written
<1>6. PICK old : old = local[i]
  OBVIOUS
<1>7. old = RegionsBefore(kernel, mode, i, p)
  BY <1>1, <1>3, <1>6 DEF Right, LocalRight
<1>8. local' = [local EXCEPT ![i] = [old EXCEPT ![n] =
                  [c \in DOMAIN old[n] |->
                     IF InRegion(slice, c) THEN <<i, p, Inside(slice, c)>> ELSE old[n][c]]]]
  <2>1. local' = [local EXCEPT ![i][n] =
           [c \in DOMAIN @ |->
              IF InRegion(slice, c) THEN <<i, p, Inside(slice, c)>> ELSE @[c]]]
    BY <1>3, Zenon DEF Store
  <2> QED
    BY <1>6, <2>1
<1>9. MemoryRight'
  BY <1>1 DEF Right, MemoryRight, Done
<1>10. LocalRight'
  <2> DEFINE Box(a) == Cells(RegionSize(Region(kernel, mode, a, i)))
  <2>1. RegionsBefore(kernel, mode, i, p + 1)
          = [a \in Written(kernel) |->
               [c \in Box(a) |->
                  IF access.op = "store" /\ access.tensor = a /\ InRegion(slice, c)
                  THEN <<i, p, Inside(slice, c)>>
                  ELSE RegionsBefore(kernel, mode, i, p)[a][c]]]
    BY <1>1, <1>3, RegionsStep
  <2>2. /\ DOMAIN old = Written(kernel)
        /\ \A a \in Written(kernel) : old[a] = [c \in Box(a) |-> old[a][c]]
    <3>1. \A a \in Written(kernel) :
            old[a] = [c \in Box(a) |->
                        Abstract!Stored(kernel, Abstract!Earlier(kernel, Event(i, p)), a,
                                        Outside(Region(kernel, mode, a, i), c))]
      BY <1>7 DEF RegionsBefore
    <3>2. DOMAIN old = Written(kernel)
      BY <1>7 DEF RegionsBefore
    <3> QED
      BY <3>1, <3>2
  <2> HIDE DEF Box
  <2>3. ASSUME NEW a \in Written(kernel)
        PROVE  [old EXCEPT ![n] =
                  [c \in DOMAIN old[n] |->
                     IF InRegion(slice, c) THEN <<i, p, Inside(slice, c)>> ELSE old[n][c]]][a]
                 = [c \in Box(a) |->
                      IF access.op = "store" /\ access.tensor = a /\ InRegion(slice, c)
                      THEN <<i, p, Inside(slice, c)>> ELSE old[a][c]]
    <3>1. CASE a = n
      <4>1. DOMAIN old[n] = Box(n)
        BY <1>5, <2>2
      <4> QED
        BY <1>3, <1>4, <1>5, <2>2, <3>1, <4>1
    <3>2. CASE a # n
      <4>1. old[a] = [c \in Box(a) |-> old[a][c]]
        BY <2>2
      <4> QED
        BY <1>3, <2>2, <3>2, <4>1
    <3> QED
      BY <3>1, <3>2
  <2>4. local'[i] = RegionsBefore(kernel, mode, i, p + 1)
    <3>1. local'[i] = [old EXCEPT ![n] =
                  [c \in DOMAIN old[n] |->
                     IF InRegion(slice, c) THEN <<i, p, Inside(slice, c)>> ELSE old[n][c]]]
      BY <1>1, <1>8
    <3>2. DOMAIN local'[i] = Written(kernel)
      BY <2>2, <3>1
    <3>3. local'[i] = [a \in Written(kernel) |-> local'[i][a]]
      BY <3>1, <3>2
    <3>4. ASSUME NEW a \in Written(kernel)
          PROVE  local'[i][a] = [c \in Box(a) |->
                   IF access.op = "store" /\ access.tensor = a /\ InRegion(slice, c)
                   THEN <<i, p, Inside(slice, c)>> ELSE old[a][c]]
      BY <2>3, <3>1
    <3>5. local'[i] = [a \in Written(kernel) |-> [c \in Box(a) |->
                   IF access.op = "store" /\ access.tensor = a /\ InRegion(slice, c)
                   THEN <<i, p, Inside(slice, c)>> ELSE old[a][c]]]
      BY <3>3, <3>4
    <3> QED
      BY <1>7, <2>1, <3>5
  <2>5. SUFFICES ASSUME NEW j \in Iterations(kernel), phase[j] = "running"
                 PROVE  local'[j] = RegionsBefore(kernel, mode, j, pc'[j])
    BY <1>1 DEF LocalRight
  <2>6. CASE j = i
    BY <1>1, <1>3, <2>4, <2>6
  <2>7. CASE j # i
    BY <1>1, <1>8, <2>5, <2>7 DEF Right, LocalRight
  <2> QED
    BY <2>6, <2>7
<1>11. SeenRight'
  <2>1. TilesBefore(kernel, i, p + 1) = TilesBefore(kernel, i, p)
    BY <1>2, <1>3, <1>4, TilesStep
  <2>2. ASSUME NEW j \in Iterations(kernel)
        PROVE  TilesBefore(kernel, j, pc'[j]) = TilesBefore(kernel, j, pc[j])
    BY <1>1, <1>3, <2>1
  <2> QED
    BY <1>1, <2>2 DEF Right, SeenRight
<1> QED
  BY <1>9, <1>10, <1>11 DEF Right

\* What an iteration puts back is what the program leaves in its regions.
LEMMA RightFinish ==
  ASSUME \A k \in Kernels : IndexesInside(k), TypeOK, Parallelism, Accepted, Places, Right,
         NEW i \in Iterations(kernel), Finish(i)
  PROVE  Right'
PROOF
<1>1. /\ kernel' = kernel /\ mode' = mode /\ pc' = pc /\ local' = local /\ seen' = seen
      /\ phase' = [phase EXCEPT ![i] = "done"] /\ phase[i] = "running"
      /\ pc[i] > Steps(kernel, i)
      /\ phase \in [Iterations(kernel) -> {"waiting", "running", "done"}]
  BY DEF Finish, TypeOK
<1>2. /\ kernel \in Kernels /\ IndexesInside(kernel) /\ ~Refused(kernel)
      /\ pc[i] \in Nat \ {0} /\ Steps(kernel, i) \in Nat
  BY <1>1, Running
<1>3. pc[i] = Steps(kernel, i) + 1
  BY <1>1, <1>2 DEF Places
<1>4. PICK over : over = Done \union {e \in Abstract!Events(kernel) : e.iteration = i}
  OBVIOUS
<1>5. Done' = over
  <2>1. \A e \in Abstract!Events(kernel) : e.iteration \in Iterations(kernel)
    BY <1>2, EarlierMeans
  <2> QED
    BY <1>1, <1>4, <2>1 DEF Done
<1>6. over \in SUBSET Abstract!Events(kernel) /\ Done \in SUBSET Abstract!Events(kernel)
  BY <1>4 DEF Done
<1>7. ASSUME NEW n \in Tensors(kernel), NEW c \in Cells(kernel.shape[n])
      PROVE  /\ memory[n][c] = Abstract!Stored(kernel, Done, n, c)
             /\ n \notin Written(kernel) =>
                  Abstract!Stored(kernel, over, n, c) = Abstract!Stored(kernel, Done, n, c)
  <2>1. memory[n][c] = Abstract!Stored(kernel, Done, n, c)
    BY DEF Right, MemoryRight, TensorsAfter
  <2>2. n \notin Written(kernel) =>
          /\ Abstract!Stored(kernel, over, n, c) = Old(n, c)
          /\ Abstract!Stored(kernel, Done, n, c) = Old(n, c)
    BY <1>2, <1>6, UnwrittenTensors
  <2> QED
    BY <2>1, <2>2
<1>8. ASSUME NEW n \in Written(kernel), NEW region, region = Region(kernel, mode, n, i),
             NEW c \in Cells(kernel.shape[n])
      PROVE  (IF InRegion(region, c) THEN local[i][n][Inside(region, c)] ELSE memory[n][c])
               = Abstract!Stored(kernel, over, n, c)
  <2>1. n \in Tensors(kernel)
    BY DEF Written
  <2>2. CASE InRegion(region, c)
    <3>1. PICK y : y = Inside(region, c)
      OBVIOUS
    <3>2. y \in Cells(RegionSize(region)) /\ Outside(region, y) = c
      BY <1>2, <1>8, <2>1, <2>2, <3>1, RegionCells
    <3>3. local[i][n] =
            [z \in Cells(RegionSize(region)) |->
               Abstract!Stored(kernel, Abstract!Earlier(kernel, Event(i, pc[i])), n,
                               Outside(region, z))]
      <4>1. local[i] = RegionsBefore(kernel, mode, i, pc[i])
        BY <1>1 DEF Right, LocalRight
      <4> QED
        BY <1>8, <4>1 DEF RegionsBefore
    <3>4. local[i][n][y]
            = Abstract!Stored(kernel, Abstract!Earlier(kernel, Event(i, pc[i])), n, c)
      BY <3>2, <3>3
    <3>5. Abstract!Stored(kernel, over, n, c)
            = Abstract!Stored(kernel, Abstract!Earlier(kernel, Event(i, Steps(kernel, i) + 1)),
                              n, c)
      BY <1>1, <1>4, <1>8, <2>1, <2>2, EndsRight
    <3> QED
      BY <1>3, <2>2, <3>1, <3>4, <3>5
  <2>3. CASE ~InRegion(region, c)
    <3>1. ASSUME NEW e \in Abstract!Stores(kernel, over, n, c) PROVE e.iteration # i
      <4>1. InRegion(Region(kernel, mode, n, e.iteration), c)
        BY <1>2, <1>6, <2>1, StoresMeans
      <4> QED
        BY <1>8, <2>3, <4>1
    <3>2. Abstract!Stores(kernel, over, n, c) = Abstract!Stores(kernel, Done, n, c)
      BY <1>4, <3>1 DEF Abstract!Stores
    <3>3. Abstract!Stored(kernel, over, n, c) = Abstract!Stored(kernel, Done, n, c)
      BY <3>2, SameStores
    <3> QED
      BY <1>7, <2>1, <2>3, <3>3
  <2> QED
    BY <2>2, <2>3
<1>9. MemoryRight'
  <2> DEFINE Back(n) ==
        IF n \in Written(kernel)
        THEN LET region == Region(kernel, mode, n, i)
             IN  [c \in Cells(kernel.shape[n]) |->
                    IF InRegion(region, c) THEN local[i][n][Inside(region, c)]
                    ELSE memory[n][c]]
        ELSE memory[n]
  <2>1. memory' = [n \in Tensors(kernel) |-> Back(n)]
    BY Zenon DEF Finish
  <2>2. ASSUME NEW n \in Tensors(kernel)
        PROVE  Back(n) = [c \in Cells(kernel.shape[n]) |-> Abstract!Stored(kernel, over, n, c)]
    <3>1. CASE n \in Written(kernel)
      <4>1. PICK region : region = Region(kernel, mode, n, i)
        OBVIOUS
      <4>2. \A c \in Cells(kernel.shape[n]) :
              (IF InRegion(region, c) THEN local[i][n][Inside(region, c)] ELSE memory[n][c])
                = Abstract!Stored(kernel, over, n, c)
        BY <1>8, <3>1, <4>1
      <4>3. Back(n) = [c \in Cells(kernel.shape[n]) |->
                         IF InRegion(region, c) THEN local[i][n][Inside(region, c)]
                         ELSE memory[n][c]]
        BY <3>1, <4>1
      <4> QED
        BY <4>2, <4>3
    <3>2. CASE n \notin Written(kernel)
      <4>1. memory[n] = [c \in Cells(kernel.shape[n]) |-> Abstract!Stored(kernel, Done, n, c)]
        BY DEF Right, MemoryRight, TensorsAfter
      <4>2. \A c \in Cells(kernel.shape[n]) :
              Abstract!Stored(kernel, over, n, c) = Abstract!Stored(kernel, Done, n, c)
        BY <1>7, <3>2
      <4> QED
        BY <3>2, <4>1, <4>2
    <3> QED
      BY <3>1, <3>2
  <2> HIDE DEF Back
  <2>3. memory' = TensorsAfter(kernel, over)
    BY <2>1, <2>2 DEF TensorsAfter
  <2> QED
    BY <1>1, <1>5, <2>3 DEF MemoryRight
<1>10. LocalRight'
  BY <1>1 DEF Right, LocalRight
<1>11. SeenRight'
  BY <1>1 DEF Right, SeenRight
<1> QED
  BY <1>9, <1>10, <1>11 DEF Right

\* Right holds in every reachable state.
LEMMA RightHolds == (\A k \in Kernels : IndexesInside(k)) => (Spec => []Right)
PROOF
<1> SUFFICES ASSUME \A k \in Kernels : IndexesInside(k) PROVE Spec => []Right
  OBVIOUS
<1>1. Init => Right
  BY RightInit
<1>2. TypeOK /\ Parallelism /\ Accepted /\ Places /\ Right /\ [Next]_vars => Right'
  <2> SUFFICES ASSUME TypeOK, Parallelism, Accepted, Places, Right, [Next]_vars PROVE Right'
    OBVIOUS
  <2>1. CASE LowerRoot
    <3>1. \A i \in Iterations(kernel) : phase[i] = "waiting"
      BY <2>1 DEF LowerRoot, Accepted
    <3> QED
      BY <2>1, <3>1 DEF LowerRoot, Right, MemoryRight, LocalRight, SeenRight, Done
  <2>2. CASE Join
    BY <2>2 DEF Join, Right, MemoryRight, LocalRight, SeenRight, Done
  <2>3. CASE UNCHANGED vars
    BY <2>3 DEF vars, Right, MemoryRight, LocalRight, SeenRight, Done
  <2> QED
    BY <2>1, <2>2, <2>3, RightStart, RightLoad, RightStore, RightFinish DEF Next, Terminated
<1> QED
  BY <1>1, <1>2, TypeCorrect, ParallelismHolds, AcceptedHolds, PlacesHold, PTL DEF Spec

-----------------------------------------------------------------------------
\* A nest that is over leaves the tensors and tiles of the sequential program.
LEMMA OverIsSequential ==
  ASSUME \A k \in Kernels : IndexesInside(k), TypeOK, Parallelism, Places, Right,
         \A i \in Iterations(kernel) : phase[i] = "done"
  PROVE  [memory |-> memory, seen |-> seen] = Abstract!Sequential(kernel)
PROOF
<1>1. kernel \in Kernels /\ IndexesInside(kernel)
  BY DEF Parallelism
<1>2. Done = Abstract!Events(kernel)
  <2>1. \A e \in Abstract!Events(kernel) : e.iteration \in Iterations(kernel)
    BY <1>1, EarlierMeans
  <2> QED
    BY <2>1 DEF Done
<1>3. memory = [n \in Abstract!Tensors(kernel) |->
                  [c \in Abstract!Cells(kernel.shape[n]) |->
                     Abstract!Stored(kernel, Abstract!Events(kernel), n, c)]]
  BY <1>2, SameWords DEF Right, MemoryRight, TensorsAfter
<1>4. ASSUME NEW i \in Iterations(kernel)
      PROVE  TilesBefore(kernel, i, pc[i])
               = [p \in Abstract!Loads(kernel, i) |->
                    Abstract!Loaded(kernel, [iteration |-> i, at |-> p])]
  <2>1. pc[i] = Steps(kernel, i) + 1
    BY DEF Places
  <2>2. Abstract!Length(kernel, i) = Steps(kernel, i) /\ Steps(kernel, i) \in Nat
    BY <1>1, StepsOfProgram
  <2>3. {l \in Abstract!Loads(kernel, i) : l < pc[i]} = Abstract!Loads(kernel, i)
    BY <2>1, <2>2 DEF Abstract!Loads
  <2> QED
    BY <2>3 DEF TilesBefore, Event
<1>5. seen = [i \in Abstract!Iterations(kernel) |->
                [p \in Abstract!Loads(kernel, i) |->
                   Abstract!Loaded(kernel, [iteration |-> i, at |-> p])]]
  BY <1>4, SameWords DEF Right, SeenRight
<1> QED
  BY <1>3, <1>5, Zenon DEF Abstract!Sequential

\* The compiler refuses a kernel only for a shift below zero.
LEMMA RefusedShiftsDown ==
  ASSUME NEW k, Refused(k)
  PROVE  Abstract!ShiftsDown(k)
PROOF
<1>1. PICK n \in Tensors(k), d \in 1..MaxRank : \E a \in Accesses(k, n) :
        LET subscript == SubscriptOf(a, d)
        IN  /\ subscript.form = "tile"
            /\ subscript.bias # 0
            /\ \/ subscript.block = 0 /\ subscript.bias < 0
               \/ /\ subscript.block # 0
                  /\ MayIndexBeforeStart(k.grid[subscript.block], subscript.bias)
  BY DEF Refused
<1>2. PICK a \in Accesses(k, n) :
        \/ SubscriptOf(a, d).bias < 0
        \/ MayIndexBeforeStart(k.grid[SubscriptOf(a, d).block], SubscriptOf(a, d).bias)
  BY <1>1
<1>3. SubscriptOf(a, d).bias < 0
  BY <1>2 DEF MayIndexBeforeStart
<1>4. /\ n \in Abstract!Tensors(k) /\ a \in Abstract!Accesses(k, n)
      /\ Abstract!SubscriptOf(a, d).bias < 0
  BY <1>3, SameWords
<1> QED
  BY <1>4 DEF Abstract!ShiftsDown

\* In kernels whose indexes lie inside the dimensions they index, whatever the loops, the
\* tensors and the statements of a root graph and however its iterations interleave, the
\* tensors it leaves and every tile it loads are those of the program run one statement
\* after the other; it is refused only for a shift below zero (loops.py, _lower_root).
THEOREM RunsSequentially ==
  (\A k \in Kernels : IndexesInside(k)) => (Spec => RunsAsSequentialProgram)
PROOF
<1> SUFFICES ASSUME \A k \in Kernels : IndexesInside(k) PROVE Spec => RunsAsSequentialProgram
  OBVIOUS
<1> DEFINE Outcome == CASE mode = "done" -> [memory |-> memory, seen |-> seen]
                        [] mode = "refused" -> [memory |-> <<"refused">>, seen |-> <<>>]
                        [] OTHER -> [memory |-> <<>>, seen |-> <<>>]
<1>1. Init => Abstract!Init
  BY DEF Init, Abstract!Init, Abstract!Pending
<1>2. TypeOK /\ Parallelism /\ Accepted /\ Places /\ Right /\ [Next]_vars
        => [Abstract!Complete]_<<kernel, Outcome>>
  <2> SUFFICES ASSUME TypeOK, Parallelism, Accepted, Places, Right, [Next]_vars
               PROVE  Abstract!Complete \/ UNCHANGED <<kernel, Outcome>>
    OBVIOUS
  <2>1. CASE LowerRoot
    <3>1. Outcome = Abstract!Pending /\ kernel' = kernel
      BY <2>1 DEF LowerRoot, Abstract!Pending
    <3>2. CASE Refused(kernel)
      <4>1. Outcome' = Abstract!Refusal
        BY <2>1, <3>2 DEF LowerRoot, Abstract!Refusal
      <4>2. Abstract!ShiftsDown(kernel)
        BY <3>2, RefusedShiftsDown
      <4> QED
        BY <3>1, <4>1, <4>2 DEF Abstract!Complete
    <3>3. CASE ~Refused(kernel)
      <4>1. Outcome' = Abstract!Pending
        BY <2>1, <3>3 DEF LowerRoot, Abstract!Pending
      <4> QED
        BY <3>1, <4>1
    <3> QED
      BY <3>2, <3>3
  <2>2. CASE Join
    <3>1. Outcome = Abstract!Pending /\ kernel' = kernel
      BY <2>2 DEF Join, Abstract!Pending
    <3>2. Outcome' = [memory |-> memory, seen |-> seen]
      BY <2>2 DEF Join
    <3>3. Outcome' = Abstract!Sequential(kernel)
      BY <2>2, <3>2, OverIsSequential DEF Join
    <3> QED
      BY <3>1, <3>3 DEF Abstract!Complete
  <2>3. ASSUME NEW i \in Iterations(kernel), Start(i) \/ Load(i) \/ Store(i) \/ Finish(i)
        PROVE  UNCHANGED <<kernel, Outcome>>
    <3>1. kernel' = kernel /\ mode' = mode
      BY <2>3 DEF Start, Load, Store, Finish
    <3>2. mode \in {"forall", "sequential"}
      <4>1. CASE Start(i)
        BY <4>1 DEF Start, MayStart
      <4>2. CASE Load(i) \/ Store(i) \/ Finish(i)
        BY <4>2, Running DEF Load, Store, Finish
      <4> QED
        BY <2>3, <4>1, <4>2
    <3> QED
      BY <3>1, <3>2
  <2>4. CASE UNCHANGED vars
    BY <2>4 DEF vars
  <2> QED
    BY <2>1, <2>2, <2>3, <2>4 DEF Next, Terminated
<1> QED
  BY <1>1, <1>2, TypeCorrect, ParallelismHolds, AcceptedHolds, PlacesHold, RightHolds, PTL
     DEF Spec, RunsAsSequentialProgram, Abstract!Spec
=============================================================================
