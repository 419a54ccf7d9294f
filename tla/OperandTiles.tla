----------------------------- MODULE OperandTiles -----------------------------
(***************************************************************************)
(* The tensors a schedule finds in a function, as expressions, and the      *)
(* passes that decide how a contraction reads them: in place, padded,       *)
(* packed or copied into a buffer of its own.  A type lists static sizes    *)
(* and Dyn; what a dynamic size is at run time depends on where the tile    *)
(* starts, which no pass knows: env gives the origin of every axis.         *)
(*                                                                          *)
(* A reader of such tensors is a contraction ("dot"), an elementwise op     *)
(* ("use") or the insertion of a tile ("insert").  The operands of a dot in *)
(* "outer" are defined in an enclosing block, where other copies of the dot *)
(* read them too.                                                           *)
(***************************************************************************)
EXTENDS Tensors, FiniteSetsExt

CONSTANTS Line,              \* elements of a cache line: _LINE_BYTES
          MaxVectorElements  \* MAX_VECTOR_ELEMENTS

Dyn == -1
Junk == <<"junk">>      \* what memory held before, or lies outside a tensor

IsStatic(type) == \A d \in DOMAIN type : type[d] # Dyn

SetOp(e, of) == [e EXCEPT !.of = of]

Reshapes == {"expand", "collapse"}
Views == Reshapes \cup {"wrap"}

(***************************************************************************)
(* What expressions are worth at run time.                                  *)
(***************************************************************************)
SliceSize(e, d, env) ==
  IF e.type[d] # Dyn THEN e.type[d]
  ELSE Max({0, Min({e.tile[d], e.source.shape[d] - env[e.axes[d]]})})

SliceValue(e, env) ==
  Build([d \in DOMAIN e.type |-> SliceSize(e, d, env)],
        LAMBDA p : LET at == [d \in DOMAIN p |-> env[e.axes[d]] + p[d]]
                   IN  IF \A d \in DOMAIN at : at[d] \in 0 .. e.source.shape[d] - 1
                       THEN <<e.source.name>> \o at
                       ELSE Junk)

PadSize(e, t, d) == IF e.high[d] = Dyn THEN e.type[d] ELSE t.shape[d] + e.high[d]

PadValue(e, t) ==
  Build([d \in DOMAIN e.type |-> PadSize(e, t, d)], LAMBDA p : AtOr(t, p, Zero))

(* A cast only states a shape: it must be the one the tensor has. *)
CastValue(e, t) ==
  IF \A d \in DOMAIN e.type : e.type[d] \in {Dyn, t.shape[d]} THEN t
  ELSE Build(e.type, LAMBDA p : Junk)

ReshapeValue(e, t) ==
  View(t, [d \in DOMAIN e.type |->
             IF e.type[d] # Dyn THEN e.type[d]
             ELSE Product(t.shape) \div
                  Product([c \in DOMAIN e.type |-> IF c = d THEN 1 ELSE e.type[c]])])

(* Copy t, of the given static or dynamic sizes, row by row into the corner *)
(* of a buffer; with padding, every row of the buffer is written: a row of  *)
(* t padded past its end, the other rows filled.                            *)
RowsCopied(t, sizes, type, padded) ==
  LET last == Len(type)
      Copied(p) == \A d \in 1 .. last - 1 : (padded /\ sizes[d] = type[d]) \/ p[d] < t.shape[d]
      Element(p) == IF p[last] < t.shape[last] THEN AtOr(t, p, Junk)
                    ELSE IF padded THEN Zero ELSE Junk
  IN  Build(type, LAMBDA p : IF Copied(p) THEN Element(p)
                             ELSE IF padded THEN Zero ELSE Junk)

(* The trailing dims past the last padded one are one row. *)
RowsMerged(type, sizes) ==
  LET last == Max({1} \cup {d \in DOMAIN type : sizes[d] # type[d]})
  IN  IF Len(type) - last <= 1 THEN Len(type) ELSE last + 1

MergedRows(shape, rank) ==
  SubSeq(shape, 1, rank - 1) \o <<Product(SubSeq(shape, rank, Len(shape)))>>

MaterializedValue(e, t) ==
  LET rank == RowsMerged(e.type, e.sizes)
      rows == RowsCopied(View(t, MergedRows(t.shape, rank)), MergedRows(e.sizes, rank),
                         MergedRows(e.type, rank), TRUE)
  IN  View(rows, e.type)

CopiedValue(e, t) ==
  RowsCopied(t, e.type, [d \in DOMAIN e.type |->
                           IF e.type[d] = Dyn THEN t.shape[d] ELSE e.type[d]], FALSE)

(* A vector read of a pad's source: a dim marked in bounds is not checked. *)
VectorValue(e, t) ==
  LET read == Build(e.vector,
                    LAMBDA p : IF Inside(t, p) THEN At(t, p)
                               ELSE IF \E d \in DOMAIN p : e.inBounds[d] /\ p[d] >= t.shape[d]
                               THEN Junk ELSE Zero)
  IN  Build([d \in DOMAIN e.type |-> PadSize(e, t, d)], LAMBDA p : AtOr(read, p, Junk))

(* Whether each of a pad's run-time amounts is zero. *)
PadsNothing(pad, t) == \A d \in DOMAIN pad.type : pad.high[d] = Dyn => t.shape[d] = pad.type[d]

(* Mutant of AllZero: the amounts are tested, but any of them may be zero. *)
SomeZero(pad, t) == \E d \in DOMAIN pad.type : pad.high[d] = Dyn /\ t.shape[d] = pad.type[d]

AllZero(pad, t) == PadsNothing(pad, t)

(* The tensor an expression is worth where tiles start at env. *)
RECURSIVE Value(_, _)

Holds(test, env) ==
  CASE test.kind = "empty"    -> SliceSize(test.slice, test.dim, env) = 0
    [] test.kind = "masked"   -> env[test.axis] = 0
    [] test.kind = "unpadded" -> AllZero(test.pad, Value(test.pad.of, env))

Value(e, env) ==
  CASE e.op = "slice"    -> SliceValue(e, env)
    [] e.op \in {"generate", "filled"} -> Build(e.type, LAMBDA p : Zero)
    [] e.op = "guard"    -> Value(e.of[IF Holds(e.test, env) THEN 1 ELSE 2], env)
    [] e.op = "pad"      -> PadValue(e, Value(e.of, env))
    [] e.op = "cast"     -> CastValue(e, Value(e.of, env))
    [] e.op \in Views    -> ReshapeValue(e, Value(e.of, env))
    [] e.op = "pack"     -> Permute(Value(e.of, env), e.order)
    [] e.op = "rows"     -> MaterializedValue(e, Value(e.of, env))
    [] e.op = "copied"   -> CopiedValue(e, Value(e.of, env))
    [] e.op = "vector"   -> VectorValue(e, Value(e.of, env))

(***************************************************************************)
(* What a pass can see of an expression.                                    *)
(***************************************************************************)
(* A constant upper bound of a dimension, if one is evident, else Dyn. *)
RECURSIVE Bound(_, _)
Bound(e, d) ==
  CASE e.op \in {"generate", "filled", "rows", "pack"} -> e.type[d]
    [] e.type[d] # Dyn -> e.type[d]
    [] e.op = "slice" -> IF e.bounded THEN e.tile[d] ELSE Dyn
    [] e.op = "cast"  -> Bound(e.of, d)
    [] e.op = "guard" -> LET both == {Bound(e.of[1], d), Bound(e.of[2], d)}
                         IN  IF Dyn \in both THEN Dyn ELSE Max(both)
    [] e.op = "pad"   -> IF Dyn \in {Bound(e.of, d), e.high[d]} THEN Dyn
                         ELSE Bound(e.of, d) + e.high[d]
    [] OTHER -> Dyn

(* What is reshaped. *)
RECURSIVE Beneath(_)
Beneath(e) == IF e.op \in Reshapes THEN Beneath(e.of) ELSE e

(* The same reshapes, reading another value. *)
RECURSIVE Rebuilt(_, _)
Rebuilt(e, value) == IF e.op \in Reshapes THEN SetOp(e, Rebuilt(e.of, value)) ELSE value

FoldedShape(shape, groups) == [g \in DOMAIN groups |-> Product([i \in DOMAIN groups[g] |-> shape[groups[g][i]]])]

(* The slice that e of a static shape is, through casts and expansions, and *)
(* the slice's static shape. *)
RECURSIVE ExpandedSlice(_, _)
ExpandedSlice(e, shape) ==
  CASE e.op = "slice"  -> <<e, shape>>
    [] e.op = "cast"   -> ExpandedSlice(e.of, shape)
    [] e.op = "expand" -> ExpandedSlice(e.of, FoldedShape(shape, e.groups))
    [] OTHER -> <<>>

(* Rows outside the contiguous inner run do not start at cache lines. *)
MisalignedRows(slice, sizes) ==
  LET shape == slice.source.shape
      run   == Max({1} \cup {d \in DOMAIN sizes : sizes[d] # shape[d]})
  IN  /\ slice.source.known
      /\ Len(shape) = Len(sizes)
      /\ \E d \in 1 .. run - 1 : sizes[d] > 1 /\ Strides(shape)[d] % Line # 0

PadsMisalignedRows(pad) ==
  LET found == ExpandedSlice(pad.of, pad.type)
  IN  found # <<>> /\ MisalignedRows(found[1], found[2])
=============================================================================
