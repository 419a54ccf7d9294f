---------------------------- MODULE Contractions ----------------------------
(***************************************************************************)
(* Which nodes of a device graph are contractions, what they fold and       *)
(* absorb (analysis/contractions.py), and the operation each becomes        *)
(* (lowering/contraction_ops.py).                                           *)
(***************************************************************************)
EXTENDS BodyOps

None == 0

Rank(graph, n) == IF n = None THEN -1 ELSE Len(graph[n].shape)

VnniFactor(elem) == CASE elem \in {"bf16", "f16"} -> 2 [] elem = "i8" -> 4 [] OTHER -> 0

(* A transpose that only swaps the last two dims.                           *)
SwapsLastTwo(graph, n) ==
  /\ n # None
  /\ graph[n].op = "permute"
  /\ LET order == graph[n].info
         rank  == Len(order)
     IN  rank >= 2 /\ order = [d \in 1 .. rank |-> CASE d = rank -> rank - 1
                                                    [] d = rank - 1 -> rank
                                                    [] OTHER -> d]

(* A transpose that makes the layout AMX reads is a pack, not a view.       *)
IsVnniOperand(graph, n, subscript, out) ==
  LET shape == graph[n].shape
  IN  /\ VnniFactor(graph[n].elem) # 0
      /\ shape[Len(shape)] = Static(VnniFactor(graph[n].elem))
      /\ subscript[Len(subscript)] \notin Range(out)

Folds(graph, eq, n, position) ==
  /\ SwapsLastTwo(graph, n)
  /\ Len(eq.ins[position]) >= 2
  /\ ~IsVnniOperand(graph, n, eq.ins[position], eq.out)

SwappedLast(s) == SubSeq(s, 1, Len(s) - 2) \o <<s[Len(s)], s[Len(s) - 1]>>

OnlyUse(graph, n) == Cardinality(Users(graph, n)) = 1

(* A contraction of n over lhs and rhs, transposes folded.                  *)
WithOperands(graph, n, eq, operands, acc, named) ==
  IF \E i \in 1 .. 2 : operands[i] = None THEN {}
  ELSE
  LET folded == {i \in 1 .. 2 : Folds(graph, eq, operands[i], i)}
  IN  {[root |-> n,
        eq |-> [eq EXCEPT !.ins = [i \in 1 .. 2 |-> IF i \in folded THEN SwappedLast(@[i]) ELSE @[i]]],
        of |-> [i \in 1 .. 2 |-> IF i \in folded THEN graph[operands[i]].args[1] ELSE operands[i]],
        acc |-> acc, named |-> named,
        absorbed |-> {operands[i] : i \in {j \in folded : OnlyUse(graph, operands[j])}},
        unfused |-> {}]}

Ranked(graph, n, operands, acc) ==
  LET rank == Rank(graph, operands[1])
  IN  IF rank \in {2, 3} /\ Rank(graph, operands[2]) = rank
      THEN WithOperands(graph, n, Matmul(rank), operands, acc, TRUE)
      ELSE {}

(* The contraction node n computes on its own, if any.                      *)
MatchContraction(graph, n) ==
  LET node == graph[n]
  IN  CASE node.op = "einsum" /\ Len(node.args) = 2 ->
             WithOperands(graph, n, node.info, node.args, None, FALSE)
        [] node.op = "mm" -> Ranked(graph, n, node.args, None)
        [] node.op = "addmm" /\ node.info.beta = 1 /\ node.info.alpha = 1 /\ node.args[1] # None ->
             Ranked(graph, n, SubSeq(node.args, 2, 3), node.args[1])
        [] node.op = "dot" ->
             Ranked(graph, n, SubSeq(node.args, 1, 2), IF Len(node.args) = 3 THEN node.args[3] ELSE None)
        [] OTHER -> {}

(* A root is fused into the one add that reads it.                          *)
Fusable(graph, inner, acc, operand) ==
  /\ inner.acc = None
  /\ acc # None /\ acc # operand
  /\ OnlyUse(graph, operand)

MatchAccumulate(graph, n, plan) ==
  IF graph[n].op # "add" \/ graph[n].info # 1 THEN {}
  ELSE LET args == graph[n].args
           Fused(a, o) == {[inner EXCEPT !.root = n, !.acc = a, !.absorbed = @ \cup {o},
                                         !.unfused = {inner}] :
                             inner \in {c \in plan.roots : c.root = o /\ Fusable(graph, c, a, o)}}
       IN  IF Fused(args[1], args[2]) # {} THEN Fused(args[1], args[2]) ELSE Fused(args[2], args[1])

(* Mutant: a contraction that another absorbs is planned all the same.      *)
AddedBeside(plan, contractions) ==
  [roots |-> plan.roots \cup contractions,
   absorbed |-> plan.absorbed \cup UNION {c.absorbed : c \in contractions}]

Added(plan, contractions) ==
  LET gone == UNION {c.absorbed : c \in contractions}
  IN  [roots |-> {c \in plan.roots : c.root \notin gone} \cup contractions,
       absorbed |-> plan.absorbed \cup gone]

Root(plan, n) == {c \in plan.roots : c.root = n}

(***************************************************************************)
Bits(elem) == CASE elem = "i1" -> 1 [] elem = "i8" -> 8 [] elem \in {"bf16", "f16"} -> 16 [] OTHER -> 32

IsFloat(elem) == elem \in {"bf16", "f16", "f32"}

AccumulationType(elem) == IF IsFloat(elem) /\ Bits(elem) < 32 THEN "f32" ELSE elem

IsValidAccumulator(elem, acc) ==
  \/ elem = acc
  \/ /\ IsFloat(elem) = IsFloat(acc)
     /\ Bits(acc) >= Bits(elem)

StaticType(op) == [d \in DOMAIN op.type |-> Static(op.type[d])]

(* Mutant: only the ranks of the accumulator and the result must agree.     *)
RankAccumulates(graph, body, c, spec, elem, acc) ==
  /\ Len(body[acc].type) = Len(spec.out)
  /\ body[acc].elem = graph[c.root].elem
  /\ IsValidAccumulator(elem, body[acc].elem)

(* Whether the accumulator can be the contraction's destination.            *)
Accumulates(graph, body, c, spec, elem, acc) ==
  /\ StaticType(body[acc]) = OutShape(spec)
  /\ body[acc].elem = graph[c.root].elem
  /\ IsValidAccumulator(elem, body[acc].elem)
  /\ graph[c.root].op = "dot" => graph[c.root].info \in {"none", body[acc].elem}

IsNamed(spec) ==
  \/ <<spec.lhs, spec.rhs, spec.out>> = <<<<1, 3>>, <<3, 2>>, <<1, 2>>>>
  \/ <<spec.lhs, spec.rhs, spec.out>> = <<<<1, 2, 4>>, <<1, 4, 3>>, <<1, 2, 3>>>>

Contract(c, spec, lhs, rhs, type, elem, dest) ==
  Into(Op("contract", type, elem, <<lhs, rhs>>,
          [spec |-> spec, named |-> c.named /\ IsNamed(spec)]), dest)

Answer(outcome, ops) == [outcome |-> outcome, body |-> ops]

(* The runtime size of each output dim, read from an operand that has it.   *)
OutSizes(spec, lhs, rhs) ==
  [d \in DOMAIN spec.out |->
     LET p == spec.out[d]
     IN  IF p \in Range(spec.lhs) THEN <<lhs, CHOOSE k \in DOMAIN spec.lhs : spec.lhs[k] = p>>
         ELSE <<rhs, CHOOSE k \in DOMAIN spec.rhs : spec.rhs[k] = p>>]

(* Into zeros of the accumulation type, cast back when that is wider.       *)
Summed(body, c, spec, lhs, rhs, type, elem, wide) ==
  LET summed == body \o <<Filled(type, wide, OutSizes(spec, lhs, rhs), 0),
                          Contract(c, spec, lhs, rhs, type, wide, Len(body) + 1)>>
  IN  IF wide = elem THEN summed
      ELSE Append(summed, Op("cast", type, elem, <<Len(summed)>>, 0))

EmitInto(graph, body, c, spec, lhs, rhs, acc, type) ==
  CASE c.acc = None ->
         Answer("emitted", Summed(body, c, spec, lhs, rhs, type, graph[c.root].elem,
                                  AccumulationType(graph[c.root].elem)))
    [] c.acc # None /\ acc = None -> Answer("missing", body)
    [] c.acc # None /\ acc # None ->
         IF body[acc].elem = "index" THEN Answer("raised", body)   \* it is no tensor
         ELSE IF Accumulates(graph, body, c, spec, body[lhs].elem, acc)
         THEN Answer("emitted", Append(body, Contract(c, spec, lhs, rhs, type, body[acc].elem, acc)))
         ELSE Answer("not fusable", body)

(* What emitting c does: [outcome, body]; its value is the last op.         *)
EmitContraction(graph, body, valueOf, c) ==
  LET lhs == valueOf[c.of[1]]
      rhs == valueOf[c.of[2]]
      spec == BuildContractSpec(c.eq, <<StaticType(body[lhs]), StaticType(body[rhs])>>)
  IN  IF lhs = None \/ rhs = None THEN Answer("missing", body)
      ELSE IF \/ body[lhs].elem # body[rhs].elem
              \/ EinsumNotContractible(c.eq, <<StaticType(body[lhs]), StaticType(body[rhs])>>)
      THEN Answer("refused", body)
      ELSE EmitInto(graph, body, c, spec, lhs, rhs, IF c.acc = None THEN None ELSE valueOf[c.acc],
                    [d \in DOMAIN spec.out |-> OutShape(spec)[d][2]])
=============================================================================
