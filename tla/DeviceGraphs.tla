---------------------------- MODULE DeviceGraphs ----------------------------
(***************************************************************************)
(* Traced device graphs: sequences of nodes that name the nodes they read,  *)
(* and what torch and Helion say each node computes.  A node is [op, args,  *)
(* shape, elem, info]; the argument 0 is the literal 2.                    *)
(***************************************************************************)
EXTENDS Tensors

CONSTANT Infinity       \* above every element

(***************************************************************************)
(* Einsum equations and the contractions linalg.contract can express        *)
(* (support/einsum_spec.py).  Subscripts are letters, numbered in           *)
(* alphabetical order; an extent is <<"static", n>> or a symbol.            *)
(***************************************************************************)
Ellipsis == 0

Dyn == -1       \* the extent MLIR gives a dimension of runtime size

Static(n) == <<"static", n>>

Occurrences(eq, c) ==
  {<<i, k>> \in (DOMAIN eq.ins) \X (1 .. 5) : k \in DOMAIN eq.ins[i] /\ eq.ins[i][k] = c}

Letters(eq) == UNION {Range(eq.ins[i]) : i \in DOMAIN eq.ins}

(* Without an arrow the output has the letters that occur once, in order.   *)
Output(eq) ==
  IF eq.arrow THEN eq.out
  ELSE SetToSortSeq({c \in Letters(eq) : Cardinality(Occurrences(eq, c)) = 1}, LAMBDA c, d : c < d)

Extents(eq, shapes, c) == {shapes[o[1]][o[2]] : o \in Occurrences(eq, c)}

(* Extents one contraction may not share.                                   *)
Disagree(extents) ==
  LET static == {e \in extents : e[1] = "static"}
  IN  \/ Cardinality(static) > 1
      \/ Cardinality(extents) > 1 /\ Static(1) \in static

ReducedOnce(eq, c) == \E i \in DOMAIN eq.ins : c \notin Range(eq.ins[i])

EinsumNotContractible(eq, shapes) ==
  LET out == Output(eq)
  IN  \/ Len(eq.ins) # Len(shapes)
      \/ Ellipsis \in Letters(eq) \cup Range(eq.out)
      \/ \E i \in DOMAIN eq.ins : Len(eq.ins[i]) # Len(shapes[i])
      \/ Len(eq.ins) # 2
      \/ \E s \in Range(eq.ins) \cup {out} : ~IsInjective(s)
      \/ ~(Range(out) \subseteq Letters(eq))
      \/ \E c \in Letters(eq) \ Range(out) : ReducedOnce(eq, c)
      \/ \E c \in Letters(eq) : Disagree(Extents(eq, shapes, c))

Contracted(eq) ==
  SelectSeq(eq.ins[1], LAMBDA c : c \notin Range(Output(eq)))
    \o SelectSeq(eq.ins[2], LAMBDA c : c \notin Range(Output(eq)) \cup Range(eq.ins[1]))

(* Output dims first, then contracted ones; each operand's map, and the     *)
(* extent of each dim: the first one known, or any.                         *)
BuildContractSpec(eq, shapes) ==
  LET dims == Output(eq) \o Contracted(eq)
      Positions(s) == [k \in DOMAIN s |-> CHOOSE p \in DOMAIN dims : dims[p] = s[k]]
      Size(c) == LET all == Extents(eq, shapes, c)
                     static == {e \in all : e[1] = "static"}
                 IN  CHOOSE e \in IF static # {} THEN static ELSE all : TRUE
  IN  [lhs |-> Positions(eq.ins[1]), rhs |-> Positions(eq.ins[2]), out |-> Positions(Output(eq)),
       sizes |-> [p \in DOMAIN dims |-> Size(dims[p])]]

OutShape(spec) == [d \in DOMAIN spec.out |-> spec.sizes[spec.out[d]]]

(* Equations that only multiply keep their elementwise lowering.            *)
ShouldCapture(eq, shapes) == ~EinsumNotContractible(eq, shapes) /\ Contracted(eq) # <<>>

(***************************************************************************)
(* What linalg.contract and torch.einsum compute.                           *)
(***************************************************************************)
Indices(sizes) == {p \in [DOMAIN sizes -> 0 .. Max(Range(sizes) \cup {1}) - 1] :
                     \A d \in DOMAIN sizes : p[d] < sizes[d]}

(* dest plus, for each element, the products along the dims it lacks.       *)
ContractValue(spec, lhs, rhs, dest) ==
  LET inner == {d \in DOMAIN spec.sizes : d \notin Range(spec.out)}
      Extent(d) == lhs.shape[CHOOSE k \in DOMAIN spec.lhs : spec.lhs[k] = d]
      At2(p, r, d) == IF d \in inner THEN r[d] ELSE p[CHOOSE k \in DOMAIN p : spec.out[k] = d]
      Pick(t, map, p, r) == At(t, [k \in DOMAIN map |-> At2(p, r, map[k])])
  IN  Build(dest.shape, LAMBDA p :
        At(dest, p) + MapThenSumSet(LAMBDA r : Pick(lhs, spec.lhs, p, r) * Pick(rhs, spec.rhs, p, r),
                                    Indices([d \in inner |-> Extent(d)])))

(* The definition of einsum: letters range over the longest extent they     *)
(* have, and a dimension of one element is read for all of them.            *)
EinsumValue(eq, ts) ==
  LET out == Output(eq)
      Size(c) == Max({ts[o[1]].shape[o[2]] : o \in Occurrences(eq, c)})
      inner == Letters(eq) \ Range(out)
      Pick(i, p, r) ==
        LET t == ts[i]
            Of(c) == IF c \in inner THEN r[c] ELSE p[CHOOSE k \in DOMAIN out : out[k] = c]
        IN  At(t, [k \in DOMAIN t.shape |-> IF t.shape[k] = 1 THEN 0 ELSE Of(eq.ins[i][k])])
  IN  Build([k \in DOMAIN out |-> Size(out[k])], LAMBDA p :
        MapThenSumSet(LAMBDA r : FoldLeft(LAMBDA x, i : x * Pick(i, p, r), 1, [i \in DOMAIN ts |-> i]),
                      Indices([c \in inner |-> Size(c)])))

-----------------------------------------------------------------------------
Users(graph, n) == {u \in DOMAIN graph : n \in Range(graph[u].args)}

(* A combine function [op, args, nodes, alpha]: an op of its arguments 1    *)
(* and 2, of a constant (0) or of their product (3), a node more; the       *)
(* second operand is scaled by alpha.                                       *)
Apply(op, x, y) ==
  CASE op = "add" -> x + y
    [] op \in {"mul", "and"} -> x * y
    [] op \in {"max", "or"} -> IF x > y THEN x ELSE y
    [] op = "first" -> x

Combined(combine, x, y) ==
  LET of == [k \in 0 .. 3 |-> CASE k = 0 -> 2 [] k = 1 -> x [] k = 2 -> y [] k = 3 -> x * y]
  IN  Apply(combine.op, of[combine.args[1]], combine.alpha * of[combine.args[2]])

(* p with position k at dimension dim.                                      *)
Inserted(p, dim, k) == SubSeq(p, 1, dim - 1) \o <<k>> \o SubSeq(p, dim, Len(p))

(* Dimensions count from the end when negative.                             *)
Dim(t, dim) == IF dim < 0 THEN Len(t.shape) + dim + 1 ELSE dim

Without(shape, dim) == SubSeq(shape, 1, dim - 1) \o SubSeq(shape, dim + 1, Len(shape))

FoldAlong(t, dim, Op(_, _)) ==
  Build(Without(t.shape, dim), LAMBDA p :
    FoldLeft(LAMBDA acc, k : Op(acc, At(t, Inserted(p, dim, k))), At(t, Inserted(p, dim, 0)),
             [k \in 1 .. t.shape[dim] - 1 |-> k]))

(* Inclusive scans: a reverse one combines an item with all that follow it. *)
ScanAlong(t, dim, reverse, Op(_, _)) ==
  LET last == t.shape[dim] - 1
      Item(p, k) == At(t, [p EXCEPT ![dim] = k])
  IN  Build(t.shape, LAMBDA p :
        IF reverse THEN FoldLeft(LAMBDA acc, k : Op(Item(p, last - k), acc), Item(p, last),
                                 [k \in 1 .. last - p[dim] |-> k])
        ELSE FoldLeft(LAMBDA acc, k : Op(acc, Item(p, k)), Item(p, 0), [k \in 1 .. p[dim] |-> k]))

(* t at p, where dims of one element are read for all.                      *)
AtWide(t, p) == At(t, [d \in DOMAIN p |-> IF t.shape[d] = 1 THEN 0 ELSE p[d]])

(* Elementwise: a shape against the last dims of a longer one.              *)
Broadcast(op, s, t) ==
  LET longest == IF Len(s.shape) > Len(t.shape) THEN s.shape ELSE t.shape
      Extent(u, d) == LET k == d - Len(longest) + Len(u.shape) IN IF k < 1 THEN 1 ELSE u.shape[k]
      shape == [d \in DOMAIN longest |-> IF Extent(s, d) = 1 THEN Extent(t, d) ELSE Extent(s, d)]
      Of(u, p) == AtWide(u, SubSeq(p, Len(p) - Len(u.shape) + 1, Len(p)))
  IN  Build(shape, LAMBDA p : Apply(op, Of(s, p), Of(t, p)))

Equation(ins, out) == [ins |-> ins, arrow |-> TRUE, out |-> out]

Matmul(rank) == IF rank = 2 THEN Equation(<<<<1, 2>>, <<2, 3>>>>, <<1, 3>>)
                ELSE Equation(<<<<1, 2, 3>>, <<1, 3, 4>>>>, <<1, 2, 4>>)

MatmulValue(s, t) ==
  LET ranks == <<Len(s.shape), Len(t.shape)>>
  IN  EinsumValue(CASE ranks = <<2, 1>> -> Equation(<<<<1, 2>>, <<2>>>>, <<1>>)
                    [] ranks = <<3, 2>> -> Equation(<<<<1, 2, 3>>, <<3, 4>>>>, <<1, 2, 4>>)
                    [] OTHER -> Matmul(ranks[1]), <<s, t>>)

Scaled(factor, t) == Build(t.shape, LAMBDA p : factor * At(t, p))

(* What node computes from the values of its arguments.                     *)
NodeValue(node, args, env) ==
  CASE node.op = "placeholder" -> env.args[node.info]
    [] node.op = "permute" -> Permute(args[1], node.info)
    [] node.op = "mm" -> MatmulValue(args[1], args[2])
    [] node.op = "dot" /\ Len(args) = 2 -> MatmulValue(args[1], args[2])
    [] node.op = "dot" /\ Len(args) = 3 -> Broadcast("add", args[3], MatmulValue(args[1], args[2]))
    [] node.op = "addmm" -> Broadcast("add", Scaled(node.info.beta, args[1]),
                                      Scaled(node.info.alpha, MatmulValue(args[2], args[3])))
    [] node.op \in {"torch.einsum", "decomposed"} -> EinsumValue(node.info, args)
    [] node.op = "add" -> Broadcast("add", args[1], Scaled(node.info, args[2]))
    [] node.op \in {"mul", "max"} -> Broadcast(node.op, args[1], args[2])
    [] node.op = "rescale" -> IF env.taken THEN Broadcast("mul", args[1], args[2]) ELSE args[1]
    [] node.op = "sum" -> FoldAlong(args[1], node.info, LAMBDA x, y : x + y)
    [] node.op = "reduce" ->
         LET dim == Dim(args[1], node.info.dim)
             all == FoldAlong(args[1], dim, LAMBDA x, y : Combined(node.info.combine, x, y))
         IN  IF node.info.keep THEN View(all, [args[1].shape EXCEPT ![dim] = 1]) ELSE all
    [] node.op = "scan" ->
         ScanAlong(args[1], Dim(args[1], node.info.dim), node.info.reverse,
                   LAMBDA x, y : Combined(node.info.combine, x, y))
    [] node.op = "output" -> args[1]

Argument(vals, arg) == IF arg = 0 THEN [shape |-> <<>>, data |-> <<2>>] ELSE vals[arg]

(* All elements at once, so that values are computed once.                  *)
Forced(t) == [t EXCEPT !.data = @ \o <<>>]

Meaning(graph, env) ==
  FoldLeft(LAMBDA vals, node :
             Append(vals, Forced(NodeValue(node, [k \in DOMAIN node.args |-> Argument(vals, node.args[k])], env))),
           <<>>, graph)
=============================================================================
