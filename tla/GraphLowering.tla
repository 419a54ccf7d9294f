--------------------------- MODULE GraphLowering ---------------------------
(***************************************************************************)
(* The body of a device loop from its trace to the operations that run:     *)
(* einsums are captured while tracing, contractions are planned over the    *)
(* whole graph, nodes are lowered in order, and the updates of the carried  *)
(* values are made to happen in place.                                      *)
(***************************************************************************)
EXTENDS Contractions, InPlaceUpdates

CONSTANTS Kernels       \* [graph, types, carried, envs]

VARIABLES kernel,       \* the kernel, as written
          graph,        \* its traced graph
          phase,        \* "trace", "plan", "lower", "update", "done", or why it ended
          node,         \* the next node, or the next carried value
          plan,         \* contractions that will be emitted, and nodes they absorb
          body,         \* operations emitted
          valueOf,      \* the value of each node, None if it has none
          yields        \* the values the body yields

vars == <<kernel, graph, phase, node, plan, body, valueOf, yields>>

(* Block sizes known when compiling are static in MLIR, other sizes are not.*)
TypeIn(k, shape) == [d \in DOMAIN shape |-> IF shape[d][1] = "static" THEN shape[d][2]
                                            ELSE k.types[shape[d][2]]]

TypeOf(shape) == TypeIn(kernel, shape)

Placeholders(k) == {n \in DOMAIN k.graph : k.graph[n].op = "placeholder"}

Literal == Cardinality(Placeholders(kernel)) + 1    \* where the constant is

(* Scalars, and sizes and indices, are placeholders of type "index".        *)
Arguments(k) ==
  [n \in 1 .. Cardinality(Placeholders(k)) |->
     Op("arg", TypeIn(k, k.graph[n].shape), k.graph[n].elem, <<>>, k.graph[n].info)]

ArgumentOf(k) == [n \in DOMAIN k.graph |-> IF n \in Placeholders(k) THEN n ELSE None]

Init ==
  /\ kernel \in Kernels
  /\ graph = kernel.graph
  /\ phase = "trace"
  /\ node = 1
  /\ plan = [roots |-> {}, absorbed |-> {}]
  /\ body = Append(Arguments(kernel), Op("literal", <<>>, "f32", <<>>, 0))
  /\ valueOf = ArgumentOf(kernel)
  /\ yields = <<>>

Advance(n, next) == IF n = Len(graph) THEN phase' = next /\ node' = 1 ELSE phase' = phase /\ node' = n + 1

(* Mutant: the sizes of an equation are not looked at while tracing.        *)
CaptureByLetters(eq, shapes) == Len(shapes) = 2 /\ Contracted(eq) # <<>>

Capture(eq, shapes) == ShouldCapture(eq, shapes)

(* TraceMode: a contractible einsum is recorded as one op, another is what  *)
(* PyTorch decomposes it into.                                              *)
Trace ==
  /\ phase = "trace"
  /\ LET this == graph[node]
         shapes == [k \in DOMAIN this.args |-> graph[this.args[k]].shape]
     IN  graph' = IF this.op # "torch.einsum" THEN graph
                  ELSE IF Capture(this.info, shapes)
                  THEN [graph EXCEPT ![node].op = "einsum",
                                     ![node].shape = OutShape(BuildContractSpec(this.info, shapes))]
                  ELSE [graph EXCEPT ![node].op = "decomposed"]
  /\ Advance(node, "plan")
  /\ UNCHANGED <<kernel, plan, body, valueOf, yields>>

PlanNode ==
  /\ phase = "plan"
  /\ LET alone == Added(plan, MatchContraction(graph, node))
     IN  plan' = Added(alone, MatchAccumulate(graph, node, alone))
  /\ Advance(node, "lower")
  /\ UNCHANGED <<kernel, graph, body, valueOf, yields>>

-----------------------------------------------------------------------------
Lowering(ops) == phase = "lower" /\ graph[node].op \in ops

Give(ops) ==
  /\ body' = ops
  /\ valueOf' = [valueOf EXCEPT ![node] = Len(ops)]
  /\ Advance(node, "update")
  /\ UNCHANGED <<kernel, graph, plan, yields>>

Fail(why) == phase' = why /\ UNCHANGED <<kernel, graph, node, plan, body, valueOf, yields>>

Absorbed == node \in plan.absorbed

(* A placeholder has its value, and absorbed nodes are lowered with others. *)
LowerNothing ==
  /\ \/ Lowering({"placeholder"})
     \/ Lowering({"mm", "addmm", "dot", "einsum", "permute"}) /\ Absorbed
  /\ Advance(node, "update")
  /\ UNCHANGED <<kernel, graph, plan, body, valueOf, yields>>

LowerOutput ==
  /\ Lowering({"output"})
  /\ IF \E k \in DOMAIN graph[node].args : valueOf[graph[node].args[k]] = None THEN Fail("missing")
     ELSE /\ yields' = [k \in DOMAIN graph[node].args |-> valueOf[graph[node].args[k]]]
          /\ Advance(node, "update")
          /\ UNCHANGED <<kernel, graph, plan, body, valueOf>>

LowerTranspose ==
  /\ Lowering({"permute"})
  /\ ~Absorbed
  /\ LET source == valueOf[graph[node].args[1]]
         order == graph[node].info
         type  == [d \in DOMAIN order |-> body[source].type[order[d]]]
     IN  IF source = None THEN Fail("missing")
         ELSE Give(Append(body, Op("transpose", type, body[source].elem, <<source>>, order)))

LowerContraction ==
  /\ Lowering({"mm", "addmm", "dot", "einsum"})
  /\ ~Absorbed
  /\ \E c \in Root(plan, node) :
       LET result == EmitContraction(graph, body, valueOf, c)
       IN  CASE result.outcome = "emitted" -> Give(result.body)
             [] result.outcome = "not fusable" -> Fail("refused")
             [] OTHER -> Fail(result.outcome)

RefuseContraction ==
  /\ Lowering({"dot", "einsum"})
  /\ ~Absorbed /\ Root(plan, node) = {}
  /\ Fail("refused")

(***************************************************************************)
(* Elementwise ops and sums, through ATen helpers that are inlined later.   *)
(***************************************************************************)
ValueOf(valued, arg) == IF arg = None THEN Literal ELSE valued[arg]

Elementwise(this) ==
  \/ this.op \in {"mul", "max"}
  \/ /\ this.op = "add"
     /\ this.info = 1

HelperOps(ops, values) ==
  LET this == graph[node]
      type == TypeOf(this.shape)
      longest == IF ops[values[1]].type = type THEN values[1] ELSE values[2]
      TailMap(v) == [d \in DOMAIN ops[v].type |-> d + Len(type) - Len(ops[v].type)]
      maps == [k \in DOMAIN values |-> TailMap(values[k])]
      op == IF this.op = "rescale" THEN "mul" ELSE this.op
      empty == Append(ops, Empty(type, this.elem, SizesOf(ops, longest)))
      generic == Append(empty, Into(Generic(type, this.elem, values, maps, op), Len(empty)))
      rest == Without(SizesOf(ops, values[1]), this.info)
      zeros == Append(ops, Filled(type, this.elem, rest, 0))
  IN  CASE Elementwise(this) -> generic
        [] this.op = "rescale" ->
             Append([generic EXCEPT ![Len(generic)].within = Len(generic) + 1],
                    Op("if", type, this.elem, <<Len(generic), values[1]>>, 0))
        [] this.op = "sum" ->
             Append(zeros, Into(Op("reduce", type, this.elem, <<values[1]>>,
                                   [dim |-> this.info, op |-> "add"]), Len(zeros)))
        [] OTHER -> Append(ops, Op("helper", type, this.elem, values, this))

Helped(ops, valued) ==
  LET this == graph[node]
      values == [k \in DOMAIN this.args |-> ValueOf(valued, this.args[k])]
  IN  IF None \in Range(values) THEN Fail("missing")
      ELSE /\ body' = HelperOps(ops, values)
           /\ valueOf' = [valued EXCEPT ![node] = Len(HelperOps(ops, values))]
           /\ Advance(node, "update")
           /\ UNCHANGED <<kernel, graph, plan, yields>>

LowerHelper ==
  /\ Lowering({"mm", "addmm", "mul", "max", "sum", "rescale", "decomposed", "add"})
  /\ ~Absorbed /\ Root(plan, node) = {}
  /\ Helped(body, valueOf)

(* acc + contraction as one contraction into acc when types allow; when     *)
(* they do not, the contraction is emitted on its own and the add after it. *)
LowerAccumulatingAdd ==
  /\ Lowering({"add"})
  /\ \E c \in Root(plan, node) :
       LET fused == EmitContraction(graph, body, valueOf, c)
           inner == CHOOSE i \in c.unfused : TRUE
           alone == EmitContraction(graph, body, valueOf, inner)
       IN  CASE fused.outcome = "emitted" -> Give(fused.body)
             [] fused.outcome = "not fusable" ->
                  Helped(alone.body, [valueOf EXCEPT ![inner.root] = Len(alone.body)])
             [] OTHER -> Fail(fused.outcome)
-----------------------------------------------------------------------------
(* One known op of the two arguments, with its identity.                    *)
KnownCombiner(combine, elem) ==
  /\ combine.nodes = 4
  /\ Range(combine.args) = {1, 2}
  /\ combine.alpha = 1
  /\ combine.op \in (IF elem = "i1" THEN {"and", "or"} ELSE {"add", "mul", "max"})

ReducedTo(source, type, elem, info) ==
  LET dim == IF info.dim < 0 THEN Len(type) + info.dim + 1 ELSE info.dim
      rest == Without(SizesOf(body, source), dim)
      filled == Append(body, Filled(Without(type, dim), elem, rest, Identity(info.combine.op)))
      known == Append(filled, Into(Op("linalg reduce", Without(type, dim), elem, <<source>>,
                                      [dim |-> dim, op |-> info.combine.op]), Len(filled)))
      loop == Append(body, Op("reduce loop", Without(type, dim), elem, <<source>>,
                              [dim |-> dim, combine |-> info.combine]))
      reduced == IF KnownCombiner(info.combine, elem) THEN known ELSE loop
  IN  IF info.keep THEN Append(reduced, Op("reshape", [type EXCEPT ![dim] = 1], elem, <<Len(reduced)>>, dim))
      ELSE reduced

LowerReduce ==
  /\ Lowering({"reduce"})
  /\ LET source == valueOf[graph[node].args[1]]
     IN  IF source = None THEN Fail("missing")
         ELSE Give(ReducedTo(source, body[source].type, body[source].elem, graph[node].info))

LowerScan ==
  /\ Lowering({"scan"})
  /\ LET source == valueOf[graph[node].args[1]]
         type == body[source].type
         info == graph[node].info
         dim == IF info.dim < 0 THEN Len(type) + info.dim + 1 ELSE info.dim
     IN  IF source = None THEN Fail("missing")
         ELSE Give(Append(body, Op("scan loop", type, body[source].elem, <<source>>,
                                   [dim |-> dim, reverse |-> info.reverse, combine |-> info.combine])))

-----------------------------------------------------------------------------
UpdateInPlace ==
  /\ phase = "update"
  /\ IF node > Len(kernel.carried)
     THEN phase' = "done" /\ UNCHANGED <<node, body, yields>>
     ELSE LET updated == UpdateValue(body, yields, node, kernel.carried[node])
          IN  /\ body' = updated.body
              /\ yields' = updated.yields
              /\ node' = node + 1
              /\ UNCHANGED phase
  /\ UNCHANGED <<kernel, graph, plan, valueOf>>

Next ==
  \/ Trace \/ PlanNode
  \/ LowerNothing \/ LowerOutput \/ LowerTranspose \/ LowerContraction \/ RefuseContraction
  \/ LowerHelper \/ LowerAccumulatingAdd \/ LowerReduce \/ LowerScan
  \/ UpdateInPlace

Ended == phase \in {"done", "missing", "refused", "raised"} /\ UNCHANGED vars

Spec == Init /\ [][Next \/ Ended]_vars

-----------------------------------------------------------------------------
Emitted(v) == v \in DOMAIN body /\ body[v].kind # "erased"

(* Operations read what is above them, a body yields what it has, one       *)
(* contraction is planned for a node, and an absorbed node has none.        *)
TypeOK ==
  /\ phase \in {"trace", "plan", "lower", "update", "done", "missing", "refused", "raised"}
  /\ \A v \in DOMAIN body :
       /\ Range(body[v].of) \cup {body[v].dest} \subseteq 0 .. v - 1
       /\ body[v].kind # "erased" => \A u \in Range(body[v].of) : Emitted(u)
  /\ \A i \in DOMAIN yields : Emitted(yields[i])
  /\ \A c \in plan.roots : Root(plan, c.root) = {c} /\ c.root \notin plan.absorbed

(* Everything a node or the body's end computes is what the kernel says it  *)
(* computes: folding transposes and accumulators, falling back when types   *)
(* do not agree, recognising combine functions and updating in place change *)
(* where values are computed and never the values (contraction_ops.py,      *)
(* combine_ops.py, in_place.py).                                            *)
ValuesKept ==
  phase \in {"update", "done"} =>
    \A env \in kernel.envs :
      LET meant == Meaning(kernel.graph, env)
          computed == Computed(body, env)
          results == graph[Len(graph)].args
      IN  /\ phase = "update" /\ node = 1 =>
               \A n \in DOMAIN valueOf : valueOf[n] # None => computed[valueOf[n]] = meant[n]
          /\ \A i \in DOMAIN yields : computed[yields[i]] = meant[results[i]]

Same(n, m) == <<graph[n].elem, TypeOf(graph[n].shape)>> = <<graph[m].elem, TypeOf(graph[m].shape)>>

(* A contraction that other nodes see only through n.                       *)
Private(n, m) == graph[n].op \in {"mm", "dot", "einsum"} /\ Len(graph[n].args) = 2 /\ Users(graph, n) = {m}
                   /\ MatchContraction(graph, n) # {}

(* What a node accumulates into, when it is a contraction's accumulator.    *)
Accumulator(n) ==
  LET args == graph[n].args
      CanHold(acc, m) == acc # None /\ Same(acc, n) /\ IsValidAccumulator(graph[graph[m].args[1]].elem, graph[n].elem)
  IN  CASE graph[n].op = "add" /\ graph[n].info = 1 ->
             {args[k] : k \in {j \in 1 .. 2 : /\ args[3 - j] # None /\ args[j] # args[3 - j]
                                               /\ Private(args[3 - j], n) /\ CanHold(args[j], args[3 - j])}}
        [] graph[n].op = "dot" /\ Len(args) = 3 -> {args[3]}
        [] graph[n].op = "addmm" /\ graph[n].info = [beta |-> 1, alpha |-> 1] -> {args[1]}
        [] OTHER -> {}

RECURSIVE UpdateOf(_, _)
UpdateOf(n, arg) ==   \* n is arg, one elementwise op on it, or contractions added to that
  \/ n = arg
  \/ /\ (Elementwise(graph[n]) \/ graph[n].op = "rescale")
     /\ arg \in Range(graph[n].args) /\ Same(n, arg)
  \/ \E acc \in Accumulator(n) : UpdateOf(acc, arg)

RECURSIVE Buffers(_)
Buffers(v) ==   \* the values whose memory v is computed in
  CASE body[v].dest # 0 -> Buffers(body[v].dest)
    [] body[v].kind = "if" -> UNION {Buffers(u) : u \in Range(body[v].of)}
    [] OTHER -> {v}

(* A carried value that is updated elementwise, accumulated into or both,   *)
(* also under a condition, is computed in its own memory from one iteration *)
(* to the next, and a sum added to it is summed there (in_place.py).        *)
UpdatesInPlace ==
  phase = "done" =>
    \A i \in DOMAIN kernel.carried :
      LET arg == kernel.carried[i]
          n   == graph[Len(graph)].args[i]
          summed == {m \in Range(graph[n].args) \ {None, arg} :
                       graph[m].op = "sum" /\ Users(graph, m) = {n} /\ Same(m, n)}
      IN  /\ \A j \in 1 .. i - 1 : graph[Len(graph)].args[j] # n
          /\ UpdateOf(n, arg)
          => /\ Buffers(yields[i]) = {arg}
             /\ graph[n].op = "add" /\ Elementwise(graph[n]) /\ arg \in Range(graph[n].args) /\ summed # {} =>
                  body[yields[i]].kind = "reduce"

(* The two matrices that node n contracts, and what it adds them to.         *)
Operands(n) == LET first == IF graph[n].op = "addmm" THEN 2 ELSE 1
               IN  SubSeq(graph[n].args, first, first + 1)

AddedTo(n) == CASE graph[n].op = "addmm" -> graph[n].args[1]
                [] graph[n].op = "dot" /\ Len(graph[n].args) = 3 -> graph[n].args[3]
                [] OTHER -> None

(* An accumulator that would have to be converted or broadcast.             *)
Unfit(acc, n) ==
  \/ ~Same(acc, n)
  \/ ~IsValidAccumulator(graph[Operands(n)[1]].elem, graph[n].elem)
  \/ graph[n].op = "dot" /\ graph[n].info \notin {"none", graph[n].elem}

(* A letter one of whose extents MLIR knows while it does not know another. *)
HalfKnown(n) ==
  \E c \in Letters(graph[n].info) :
    LET extents == {TypeOf(graph[Operands(n)[o[1]]].shape)[o[2]] : o \in Occurrences(graph[n].info, c)}
    IN  Dyn \in extents /\ Cardinality(extents) > 1

(* How a lowering that does not reach the end of the body stops, and where. *)
(* A value is missing only of a transpose that a contraction both folds and *)
(* accumulates into: every other reader of an absorbed node was absorbed    *)
(* with it (ContractionPlan.absorbed).  Emission raises only for a scalar   *)
(* that a contraction is added to.  And it refuses a node just when element *)
(* types differ, an accumulator does not fit, hl.dot does not define the    *)
(* ranks, or one extent is known and another is not: an einsum that was     *)
(* captured has no other way to be lowered (trace_mode.py).                 *)
RefusalsExplained ==
  LET this == graph[node]
      acc == AddedTo(node)
  IN  /\ phase = "missing" =>
           acc # None /\ acc \in Range(Operands(node)) /\ SwapsLastTwo(graph, acc) /\ OnlyUse(graph, acc)
      /\ phase = "raised" =>
           this.op = "add" /\ \E k \in 1 .. 2 : this.args[k] # None /\ graph[this.args[k]].elem = "index"
      /\ phase = "refused" =>
           \/ graph[Operands(node)[1]].elem # graph[Operands(node)[2]].elem
           \/ this.op = "einsum" /\ HalfKnown(node)
           \/ acc # None /\ Unfit(acc, node)
           \/ this.op = "dot" /\ Rank(graph, Operands(node)[1]) # Rank(graph, Operands(node)[2])
=============================================================================
