----------------------------- MODULE MCCpuLinear -----------------------------
(***************************************************************************)
(* Shapes below, at and above one tile, ragged in every dimension, and      *)
(* short programs of calls that could share a bound kernel or a packed      *)
(* weight.  Block is 4 for the code's 32, and the other literals shrink     *)
(* with it.                                                                 *)
(***************************************************************************)
EXTENDS CpuLinear

Base == [fn |-> "matmul", m |-> 5, n |-> 4, k |-> 10, kb |-> 10, batch |-> 1,
         transA |-> FALSE, transB |-> FALSE, dtype |-> "bf16", bias |-> "none",
         scale |-> "none", shift |-> "none", tiles |-> <<>>, epilogue |-> "identity",
         biasType |-> "bf16"]

Sized(r, m, n, k) == [r EXCEPT !.m = m, !.n = n, !.k = k, !.kb = k]

Shapes == {<<3, 5, 9>>, <<6, 3, 10>>, <<5, 7, 11>>, <<9, 4, 17>>, <<4, 12, 16>>, <<13, 5, 8>>,
           <<16, 4, 12>>}

Affines == {<<"none", "none", "none">>, <<"full", "none", "none">>, <<"full", "one", "full">>}

WithVectors(r, w) == [r EXCEPT !.bias = w[1], !.scale = w[2], !.shift = w[3]]

Matmuls == {WithVectors([Sized(Base, s[1], s[2], s[3]) EXCEPT !.dtype = d, !.transA = t[1],
                                                              !.transB = t[2]], w) :
              s \in Shapes, d \in {"bf16", "f32"}, w \in Affines,
              t \in {<<FALSE, FALSE>>, <<TRUE, FALSE>>, <<FALSE, TRUE>>}}

Linears == {WithVectors([Sized(Base, s[1], s[2], s[3]) EXCEPT !.fn = f, !.dtype = d,
                                                              !.transB = TRUE], w) :
              f \in {"linear", "linear_affine", "prepacked"},
              s \in Shapes, d \in {"bf16", "f32"}, w \in Affines}

Proper(r) == r.fn \in {"linear", "linear_affine"} => (r.fn = "linear") = (r.scale = "none")

RowOps == {[Sized(Base, s[1], 1, s[3]) EXCEPT !.fn = "matvec"] : s \in Shapes}
     \cup {[Sized(Base, s[1], 1, s[3]) EXCEPT !.fn = "row_sum"] : s \in Shapes}
     \cup {[Sized(Base, s[1], s[2], s[3]) EXCEPT !.fn = "group_norm"] :
             s \in {<<3, 2, 6>>, <<4, 3, 9>>, <<2, 4, 6>>, <<5, 1, 4>>}}

Others == {[Base EXCEPT !.fn = "bmm", !.batch = 2], [Base EXCEPT !.kb = 4],
           [Sized(Base, 3, 1, 3) EXCEPT !.fn = "bmm", !.batch = 2],
           [Base EXCEPT !.tiles = <<4, 8, 16>>], [Base EXCEPT !.tiles = <<8, 4, 8>>],
           [Sized(Base, 5, 4, 17) EXCEPT !.tiles = <<4, 8, 12>>]}

Families ==
  LET tile == Sized(Base, 4, 4, 8)
      layer == [Sized(Base, 9, 3, 6) EXCEPT !.fn = "linear", !.transB = TRUE, !.bias = "full"]
      affine == [Sized(layer, 5, 3, 4) EXCEPT !.fn = "linear_affine", !.scale = "one"]
  IN  {{tile, [tile EXCEPT !.epilogue = "relu"], [tile EXCEPT !.fn = "bmm", !.batch = 2]},
       {tile, [tile EXCEPT !.bias = "full"], [tile EXCEPT !.bias = "full", !.biasType = "f32"]},
       {tile, [tile EXCEPT !.tiles = <<4, 8, 16>>], [Sized(tile, 8, 4, 8) EXCEPT !.scale = "full"]},
       {layer, [layer EXCEPT !.m = 4], [layer EXCEPT !.dtype = "f32"]},
       {affine, [affine EXCEPT !.epilogue = "relu"], [affine EXCEPT !.dtype = "f32"]}}

(* A layer whose weight is updated and replaced, twice between two calls.   *)
Layer == [Sized(Base, 4, 3, 4) EXCEPT !.fn = "linear", !.transB = TRUE]

Updated == {[requests |-> {Layer}, keeps |-> {TRUE}, calls |-> 2, changes |-> 2]}

(* With it a product of more rows than an accumulator of all columns holds. *)
Claimed == {[requests |-> {Layer, Sized(Base, 13, 8, 8)}, keeps |-> {TRUE}, calls |-> 3, changes |-> 1]}

MCPrograms ==
  Updated \cup
     {[requests |-> {r}, keeps |-> {TRUE}, calls |-> 1, changes |-> 0] :
        r \in {q \in Matmuls \cup Linears \cup RowOps \cup Others : Proper(q)}}
  \cup {[requests |-> f, keeps |-> BOOLEAN, calls |-> 2, changes |-> 1] : f \in Families}
=============================================================================
