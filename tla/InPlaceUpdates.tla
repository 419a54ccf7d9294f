--------------------------- MODULE InPlaceUpdates ---------------------------
(***************************************************************************)
(* Loop-carried updates that write into their iter arg instead of a fresh   *)
(* destination (in_place.py), as rewrites of a loop's body.                 *)
(***************************************************************************)
EXTENDS BodyOps

Identity(op) ==
  CASE op \in {"add", "or"} -> 0
    [] op \in {"mul", "and"} -> 1
    [] op = "max" -> -Infinity

OfBody(body, v, parent) == v # 0 /\ body[v].kind # "arg" /\ body[v].within = parent

(* Operations that combine their inputs into their destination's values;    *)
(* the linalg.reduce of a combine function is not looked at.                *)
AccumulatesInto(op) == op.kind \in {"contract", "reduce"}

IsIdentityMap(map) == map = [d \in DOMAIN map |-> d]

(* Mutant: only a first input is looked at.                                 *)
FirstReads(op, arg, k) == k = 1 /\ op.of[k] = arg /\ IsIdentityMap(op.info.maps[k])

(* Input k is the old value of the very element that is written.            *)
ReadsAtOutput(op, arg, k) == op.of[k] = arg /\ IsIdentityMap(op.info.maps[k])

(* Make op write into arg if it reads it there and its destination is       *)
(* unused.                                                                  *)
WriteInto(body, v, arg) ==
  LET op == body[v]
      reading == {k \in DOMAIN op.of : ReadsAtOutput(op, arg, k)}
  IN  IF \/ <<op.type, op.elem>> # <<body[arg].type, body[arg].elem>>
         \/ 0 \in Range(op.uses)
         \/ reading = {}
      THEN body
      ELSE [body EXCEPT ![v].dest = arg,
                        ![v].uses = [u \in DOMAIN @ |-> IF @[u] = Min(reading) THEN 0 ELSE @[u]]]

Sizes(op) == IF op.kind \in {"fill", "empty"} THEN op.info.sizes ELSE <<>>

(* Every use of v: by operations, their sizes included when they are not    *)
(* static, and by the end of the body.                                      *)
ReadBy(body, yields, v) ==
  UNION {{<<u, "of", k>> : k \in {i \in DOMAIN body[u].of : body[u].of[i] = v}} : u \in DOMAIN body}
    \cup UNION {{<<u, "size", d>> : d \in {e \in DOMAIN Sizes(body[u]) :
                                           Sizes(body[u])[e][1] = v /\ body[u].type[e] = Dyn}} : u \in DOMAIN body}
    \cup {<<u, "dest", 0>> : u \in {w \in DOMAIN body : body[w].dest = v}}
    \cup {<<0, "yield", i>> : i \in {j \in DOMAIN yields : yields[j] = v}}

(* The one input an op combines into its destination, if it is a combiner.  *)
CombinedInput(op) == {op.uses[u] : u \in DOMAIN op.uses} \ {0}

FillsWith(body, v, constant) == body[v].kind = "fill" /\ body[v].info.constant = constant

OneReader(body, yields, v) == Cardinality(ReadBy(body, yields, v)) = 1

(* dest op partial, where partial is a reduction by the same op from its    *)
(* identity that nothing else reads: the reduction starts from dest.        *)
Folding(body, yields, v) ==
  LET op == body[v]
  IN  {k \in CombinedInput(op) :
         /\ 0 \in Range(op.uses)
         /\ op.elem \in {"f32", "bf16", "f16"}
         /\ IsIdentityMap(op.info.maps[k])
         /\ LET partial == body[op.of[k]]
            IN  /\ partial.kind = "reduce"
                /\ partial.within = op.within
                /\ OneReader(body, yields, op.of[k])
                /\ <<partial.type, partial.elem>> = <<op.type, op.elem>>
                /\ partial.info.op = op.info.op
                /\ FillsWith(body, partial.dest, Identity(op.info.op))}

(* v's readers read w instead.                                              *)
Replaced(body, v, w) ==
  [u \in DOMAIN body |->
     [body[u] EXCEPT !.of = [k \in DOMAIN @ |-> IF @[k] = v THEN w ELSE @[k]],
                     !.dest = IF @ = v THEN w ELSE @,
                     !.info = IF Sizes(body[u]) = <<>> THEN @
                              ELSE [@ EXCEPT !.sizes = [d \in DOMAIN @ |->
                                      IF @[d][1] = v THEN <<w, @[d][2]>> ELSE @[d]]]]]

(* [body, yields] after the update v is folded into its reduction.          *)
StartReduction(body, yields, v) ==
  IF Folding(body, yields, v) = {} THEN [body |-> body, yields |-> yields]
  ELSE LET w == body[v].of[CHOOSE k \in Folding(body, yields, v) : TRUE]
           moved == [body EXCEPT ![w].dest = body[v].dest]
       IN  [body |-> [Replaced(moved, v, w) EXCEPT ![v] = Op("erased", @.type, @.elem, <<>>, 0)],
            yields |-> [i \in DOMAIN yields |-> IF yields[i] = v THEN w ELSE yields[i]]]

(* The value a yielded one is accumulated into, however often.              *)
RECURSIVE AccumulatedInto(_, _)
AccumulatedInto(body, v) ==
  IF OfBody(body, v, 0) /\ AccumulatesInto(body[v]) THEN AccumulatedInto(body, body[v].dest) ELSE v

WriteElementwise(body, v, parent, arg) ==
  IF OfBody(body, v, parent) /\ body[v].kind = "generic" THEN WriteInto(body, v, arg) ELSE body

(* One carried value: its update, then what the update accumulates into,    *)
(* in each branch of a condition.                                           *)
UpdateValue(body, yields, i, arg) ==
  LET first == IF OfBody(body, yields[i], 0) /\ body[yields[i]].kind = "generic"
               THEN StartReduction(WriteInto(body, yields[i], arg), yields, yields[i])
               ELSE [body |-> body, yields |-> yields]
      v == AccumulatedInto(first.body, first.yields[i])
  IN  IF OfBody(first.body, v, 0) /\ first.body[v].kind = "if"
      THEN [first EXCEPT !.body = FoldLeft(LAMBDA b, u : WriteElementwise(b, u, v, arg), @, @[v].of)]
      ELSE [first EXCEPT !.body = WriteElementwise(@, v, 0, arg)]
=============================================================================
