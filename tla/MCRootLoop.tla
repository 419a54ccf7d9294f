------------------------------ MODULE MCRootLoop ------------------------------
(***************************************************************************)
(* Root graphs that load from and store to one tensor (and may load an     *)
(* input shorter than the loop), over a grid of one or two dimensions.     *)
(***************************************************************************)
EXTENDS RootLoop

TileLoop(b, e, s, static) == [begin |-> b, end |-> e, step |-> s, kind |-> "tile", static |-> static]
GridLoop(b, e, s) == [begin |-> b, end |-> e, step |-> s, kind |-> "grid", static |-> TRUE]

Sub(form, block, bias) == [form |-> form, block |-> block, bias |-> bias]

Ld(n, index) == [op |-> "load", tensor |-> n, index |-> index]
St(n, index) == [op |-> "store", tensor |-> n, index |-> index]

TileSubs == {WholeDim, Sub("const", 0, 1), Sub("tile", 1, 0), Sub("tile", 1, 1),
             Sub("tile", 1, -1), Sub("tile_begin", 1, 0), Sub("tile_id", 1, 0)}
NestedSubs == {Sub("tile", 0, 0), Sub("tile", 0, 1), Sub("tile", 1, 0), Sub("tile_begin", 1, 0)}
GridSubs == {WholeDim, Sub("grid", 1, 0), Sub("const", 0, 1)}

TileLoops == {TileLoop(b, e, s, static) :
                b \in {0, 1}, e \in {4, 5}, s \in {2, 3}, static \in BOOLEAN}
             \union {TileLoop(0, 2, 4, TRUE), TileLoop(3, 3, 2, TRUE)}

K(loop, inner, out, outer, nested) ==
  [grid |-> <<loop>>, inner |-> inner, shape |-> [out |-> <<out>>, x |-> <<3>>],
   outer |-> outer, nested |-> nested]

FlatKernels ==
  {K(loop, 1, 6, body, <<>>) :
     loop \in TileLoops,
     body \in {<<St("out", <<s>>), Ld("out", <<t>>)>> : s, t \in TileSubs} \union
              {<<Ld("out", <<s>>), St("out", <<t>>)>> : s, t \in TileSubs}}

\* The written tensor ends before the loop does: only tiles may run past it.
ShortKernels ==
  {K(loop, 1, 3, body, <<>>) :
     loop \in TileLoops,
     body \in {<<St("out", <<s>>), Ld("out", <<t>>)>> :
                 s, t \in {WholeDim, Sub("tile", 1, 0), Sub("tile", 1, 1)}}}

GridKernels ==
  {K(loop, 1, 6, body, <<>>) :
     loop \in {GridLoop(0, 3, 1), GridLoop(1, 6, 2)},
     body \in {<<St("out", <<s>>), Ld("out", <<t>>)>> : s, t \in GridSubs}}

NestedKernels ==
  {K(loop, inner, 6, outer, nested) :
     loop \in TileLoops, inner \in {1, 2},
     outer \in {<<>>, <<St("out", <<Sub("tile", 1, 0)>>)>>},
     nested \in {<<Ld("out", <<s>>), St("out", <<t>>)>> : s, t \in NestedSubs} \union
                {<<Ld("x", <<Sub("tile", 0, 0)>>), St("out", <<t>>)>> : t \in NestedSubs}}

-----------------------------------------------------------------------------
\* Two grid dimensions and a matrix: ownership must cover both.
SquareSubs == {WholeDim, Sub("tile", 1, 0), Sub("tile", 2, 0), Sub("tile_begin", 2, 0),
               Sub("tile_id", 2, 0)}

SquareKernels ==
  {[grid |-> <<rows, TileLoop(0, 3, 2, static)>>, inner |-> 1,
    shape |-> [out |-> <<3, 4>>, x |-> <<1>>],
    outer |-> body, nested |-> <<>>] :
     rows \in {TileLoop(0, 3, 2, TRUE), TileLoop(1, 3, 1, FALSE)}, static \in BOOLEAN,
     body \in {<<St("out", <<s, t>>), Ld("out", index)>> :
                 s, t \in SquareSubs, index \in {<<Sub("tile", 1, 0)>>} \union
                   {<<Sub("tile", 1, 0), u>> : u \in SquareSubs}}}

RootKernels ==
  UNION {FlatKernels, ShortKernels, GridKernels, NestedKernels, SquareKernels}

\* The kernels meet what the theorem SlicesStayInside asks of them.
ASSUME MCIndexesInside == \A k \in RootKernels : IndexesInside(k)

-----------------------------------------------------------------------------
\* A nested loop over the tiles of a loop that runs past the tensor it writes.
PastTheEndKernels ==
  {K(loop, inner, 3, <<>>, <<Ld("out", <<Sub("tile", 0, 0)>>), St("out", <<Sub("tile", 0, 0)>>)>>) :
     loop \in TileLoops, inner \in {1, 2}}
=============================================================================
