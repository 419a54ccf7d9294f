------------------------------ MODULE BodyOps ------------------------------
(***************************************************************************)
(* The linalg and scf operations lowerings emit into the body of a loop, in *)
(* order: an operation is [kind, type, elem, of, dest, uses, info, within], *)
(* with its operands and destination named by their places in the body.     *)
(* What an operation computes is that of its dialect.                       *)
(***************************************************************************)
EXTENDS DeviceGraphs

Op(kind, type, elem, of, info) ==
  [kind |-> kind, type |-> type, elem |-> elem, of |-> of, dest |-> 0, uses |-> <<>>,
   info |-> info, within |-> 0]

(* Destinations: each size is that of a dimension of some value.            *)
Filled(type, elem, sizes, constant) ==
  Op("fill", type, elem, <<>>, [sizes |-> sizes, constant |-> constant])
Empty(type, elem, sizes) == Op("empty", type, elem, <<>>, [sizes |-> sizes])

SizesOf(body, v) == [d \in DOMAIN body[v].type |-> <<v, d>>]

Into(op, dest) == [op EXCEPT !.dest = dest]

(* An elementwise op of two inputs, each read through its map.              *)
Generic(type, elem, ins, maps, op) ==
  [Op("generic", type, elem, ins, [maps |-> maps, op |-> op]) EXCEPT !.uses = <<1, 2>>]

RuntimeShape(vals, sizes) == [d \in DOMAIN sizes |-> vals[sizes[d][1]].shape[sizes[d][2]]]

(* An input of an elementwise op at p, or the destination's element.        *)
Operand(op, vals, k, p) ==
  IF op.uses[k] = 0 THEN At(vals[op.dest], p)
  ELSE LET map == op.info.maps[op.uses[k]]
       IN  AtWide(vals[op.of[op.uses[k]]], [d \in DOMAIN map |-> p[map[d]]])

(***************************************************************************)
(* Combine functions, lowered once per step on whole slices.                *)
(***************************************************************************)
Take(t, dim, position) ==
  Build(Without(t.shape, dim), LAMBDA p : At(t, Inserted(p, dim, position)))

Put(t, slice, dim, position) ==
  Build(t.shape, LAMBDA p : IF p[dim] = position THEN At(slice, Without(p, dim)) ELSE At(t, p))

CombineSlices(combine, x, y) ==
  Build(x.shape, LAMBDA p : Combined(combine, At(x, p), At(y, p)))

ReduceLoop(t, dim, combine) ==
  FoldLeft(LAMBDA acc, step : Forced(CombineSlices(combine, acc, Take(t, dim, step))),
           Take(t, dim, 0), [k \in 1 .. t.shape[dim] - 1 |-> k])

ScanStep(combine, reverse, item, acc) ==
  IF reverse THEN CombineSlices(combine, item, acc) ELSE CombineSlices(combine, acc, item)

ScanLoop(t, dim, reverse, combine) ==
  LET last == t.shape[dim] - 1
      first == IF reverse THEN last ELSE 0
      head == Take(t, dim, first)
      Step(s, step) ==
        LET position == IF reverse THEN last - step ELSE step
            acc == Forced(ScanStep(combine, reverse, Take(t, dim, position), s.acc))
        IN  [acc |-> acc, partial |-> Forced(Put(s.partial, acc, dim, position))]
      out == Build(t.shape, LAMBDA p : Infinity)
  IN  FoldLeft(Step, [acc |-> head, partial |-> Put(out, head, dim, first)],
               [k \in 1 .. last |-> k]).partial

OpValue(op, vals, env) ==
  CASE op.kind = "arg" -> env.args[op.info]
    [] op.kind = "literal" -> Argument(vals, 0)
    [] op.kind = "fill" -> Build(RuntimeShape(vals, op.info.sizes), LAMBDA p : op.info.constant)
    [] op.kind = "empty" -> Build(RuntimeShape(vals, op.info.sizes), LAMBDA p : Infinity)
    [] op.kind = "transpose" -> Permute(vals[op.of[1]], op.info)
    [] op.kind = "cast" -> vals[op.of[1]]
    [] op.kind = "contract" ->
         ContractValue(op.info.spec, vals[op.of[1]], vals[op.of[2]], vals[op.dest])
    [] op.kind = "generic" ->
         Build(vals[op.dest].shape,
               LAMBDA p : Apply(op.info.op, Operand(op, vals, 1, p), Operand(op, vals, 2, p)))
    [] op.kind \in {"reduce", "linalg reduce"} ->
         LET t == vals[op.of[1]]
         IN  Build(vals[op.dest].shape, LAMBDA p :
               FoldLeft(LAMBDA acc, k : Apply(op.info.op, acc, At(t, Inserted(p, op.info.dim, k))),
                        At(vals[op.dest], p), [k \in 1 .. t.shape[op.info.dim] |-> k - 1]))
    [] op.kind = "reshape" ->
         View(vals[op.of[1]], Inserted(vals[op.of[1]].shape, op.info, 1))
    [] op.kind = "reduce loop" -> ReduceLoop(vals[op.of[1]], op.info.dim, op.info.combine)
    [] op.kind = "scan loop" -> ScanLoop(vals[op.of[1]], op.info.dim, op.info.reverse, op.info.combine)
    [] op.kind = "if" -> vals[op.of[IF env.taken THEN 1 ELSE 2]]
    [] op.kind = "helper" ->
         NodeValue(op.info, [k \in DOMAIN op.of |-> vals[op.of[k]]], env)
    [] op.kind = "erased" -> Argument(vals, 0)

Computed(body, env) ==
  FoldLeft(LAMBDA vals, op : Append(vals, Forced(OpValue(op, vals, env))), <<>>, body)
=============================================================================
