------------------------------ MODULE AmxLoads ------------------------------
(***************************************************************************)
(* schedule_amx_loads: the operand tile loads of a block interleaved with   *)
(* its dot-products.  A block is a sequence of ops; each defines at most    *)
(* one value and reads others, of the block or defined before it.           *)
(***************************************************************************)
EXTENDS Integers, Sequences, FiniteSetsExt, SequencesExt

CONSTANTS TileRegisters,   \* _AMX_TILE_REGISTERS
          Distance         \* dot-products a load is ahead of its first use

TileOps == {"load", "dot", "zero"}

PositionsOf(block, kind) == {i \in DOMAIN block : block[i].kind = kind}

Ordinals(s) == SetToSortSeq(s, LAMBDA x, y : x < y)

DotAt(block) == Ordinals(PositionsOf(block, "dot"))

Uses(block, value) ==
  UNION {{<<i, u>> : u \in {x \in DOMAIN block[i].reads : block[i].reads[x] = value}} :
         i \in DOMAIN block}

(* A load of a dot-product's operand, not of its accumulator, and of        *)
(* nothing else.                                                            *)
OperandLoad(block, i) ==
  LET uses == Uses(block, block[i].def)
  IN  /\ block[i].kind = "load"
      /\ uses # {}
      /\ \A use \in uses : block[use[1]].kind = "dot" /\ use[2] <= 2

(* The dot-product a load moves before. *)
TargetDot(block, i) ==
  LET dots  == DotAt(block)
      using == {n \in DOMAIN dots : \E u \in 1 .. 2 : block[dots[n]].reads[u] = block[i].def}
  IN  Max({Min(using) - Distance, 1})

IsTile(block, value) == \A i \in DOMAIN block : block[i].def = value => block[i].kind \in TileOps

LastUse(block, value) == Max({use[1] : use \in Uses(block, value)})

(* The most tile registers live at once: those live before an op, those it  *)
(* defines, less the accumulator a dot-product is the last to read.         *)
TileRegistersOf(order) ==
  LET read   == {v \in UNION {Range(order[i].reads) : i \in DOMAIN order} : IsTile(order, v)}
      defined == [i \in DOMAIN order |-> {order[i].def} \cap read]
      before == UNION {read} \ UNION {defined[i] : i \in DOMAIN order}
      live[i \in 0 .. Len(order)] ==
        IF i = 0 THEN before
        ELSE (live[i - 1] \ {v \in read : LastUse(order, v) = i}) \cup defined[i]
      Reused(i) == IF order[i].kind = "dot" /\ LastUse(order, order[i].reads[3]) = i THEN 1 ELSE 0
  IN  Max({Cardinality(before)} \cup
          {Cardinality(live[i - 1]) + Cardinality(defined[i]) - Reused(i) : i \in DOMAIN order})

(* The block with its operand loads moved, in their order, before the       *)
(* dot-products they are ahead of.                                          *)
Interleaved(block) ==
  LET loads == {i \in DOMAIN block : OperandLoad(block, i)}
      dots  == DotAt(block)
      Ahead(i) == SelectSeq(Ordinals(loads), LAMBDA l : dots[TargetDot(block, l)] = i)
      placed == [i \in DOMAIN block |->
                   IF i \in loads THEN <<>>
                   ELSE [n \in 1 .. Len(Ahead(i)) |-> block[Ahead(i)[n]]] \o <<block[i]>>]
  IN  FlattenSeq(placed)

PositionIn(order, value) == CHOOSE i \in DOMAIN order : order[i].def = value

Defined(order, value) == \E i \in DOMAIN order : order[i].def = value

Schedulable == {"load", "dot", "index"}

(* An op that may write memory between the first op moved over and the last *)
(* dot-product.                                                             *)
Crosses(block, loads) ==
  LET first == Min(PositionsOf(block, "dot") \cup loads)
  IN  \E i \in first .. Max(PositionsOf(block, "dot")) : block[i].kind \notin Schedulable

OperandsBefore(order, values) ==
  \A v \in values :
    LET load == PositionIn(order, v)
    IN  \A u \in Range(order[load].reads) : Defined(order, u) => PositionIn(order, u) <= load

(* Mutant of FitsRegisters: the registers are not counted. *)
AnyRegisters(order) == TRUE

FitsRegisters(order) == TileRegistersOf(order) <= TileRegisters

ScheduleAmxLoads(block) ==
  LET loads == {i \in DOMAIN block : OperandLoad(block, i)}
      order == Interleaved(block)
  IN  IF \/ Cardinality(PositionsOf(block, "dot")) < 2
         \/ loads = {}
         \/ Crosses(block, loads)
         \/ ~OperandsBefore(order, {block[i].def : i \in loads})
         \/ ~FitsRegisters(order)
      THEN block
      ELSE order

(***************************************************************************)
(* What a block computes: a load is worth what memory holds then.           *)
(***************************************************************************)
RECURSIVE Worth(_, _, _)
Worth(block, i, value) ==   \* of a value, read by op i
  LET at == {j \in 1 .. i - 1 : block[j].def = value}
      op == block[Max(at)]
      stores == Len(SelectSeq(SubSeq(block, 1, Max(at)), LAMBDA o : o.kind = "store"))
  IN  IF ~Defined(block, value) THEN <<"outside", value>>
      ELSE IF at = {} THEN <<"undefined", value>>
      ELSE <<op.kind, value, [u \in DOMAIN op.reads |-> Worth(block, Max(at), op.reads[u])],
             IF op.kind = "load" THEN stores ELSE 0>>

Results(block) ==
  {<<block[i].kind, block[i].def,
     [u \in DOMAIN block[i].reads |-> Worth(block, i, block[i].reads[u])]>> :
     i \in PositionsOf(block, "dot") \cup PositionsOf(block, "store")}

(***************************************************************************)
(* hoist_allocas: a stack buffer and what is around it, from the inside     *)
(* out; the buffer moves to the entry of a block of one of those.           *)
(***************************************************************************)
Scopes == {"memref.alloca_scope", "omp.parallel", "func.func"}
LoopOps == {"scf.for", "scf.while", "scf.parallel", "scf.forall"}

OutermostLoop(around, scope) == Max({i \in 1 .. scope : around[i] \in LoopOps})

(* What is around the buffer once it is hoisted. *)
HoistAlloca(around) ==
  LET scope == Min({i \in DOMAIN around : around[i] \in Scopes})
      loops == {i \in 1 .. scope : around[i] \in LoopOps}
  IN  IF loops = {} THEN SubSeq(around, scope, Len(around))
      ELSE SubSeq(around, OutermostLoop(around, scope) + 1, Len(around))
=============================================================================
