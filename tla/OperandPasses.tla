---------------------------- MODULE OperandPasses ----------------------------
(***************************************************************************)
(* The passes of the opt pipeline that decide where a contraction reads its *)
(* operands from, over the expressions of OperandTiles.                     *)
(***************************************************************************)
EXTENDS OperandTiles

(* Code is one reader of tensors in as many versions as the branches around *)
(* it make: the tests each version runs under, with their answers.          *)
OnReaders(code, Pass(_)) == [v \in DOMAIN code |-> [code[v] EXCEPT !.reader = Pass(@)]]

OnDots(code, Operand(_, _)) ==
  OnReaders(code, LAMBDA reader :
    IF reader.op # "dot" THEN reader
    ELSE SetOp(reader, [i \in DOMAIN reader.of |-> Operand(reader.of[i], i \in reader.outer)]))

(***************************************************************************)
(* materialize_operand_pads                                                 *)
(***************************************************************************)
IsFull(pad) == \A d \in DOMAIN pad.type : pad.type[d] # Dyn

InRows(pad) == [op |-> "rows", type |-> pad.type, of |-> pad.of, sizes |-> pad.of.type]

(* Tiling's guard of a pad's empty slices: its condition is that a size of  *)
(* the slice is zero, and it yields the padding then.                       *)
IsEmptyGuard(guard) ==
  /\ guard.of[1].op = "generate"
  /\ guard.of[2].op = "pad"
  /\ guard.test.kind = "empty"
  /\ Beneath(guard.of[2].of) = guard.test.slice

(* A guard's pad in a buffer: every row is filled, so the guard of an empty *)
(* slice yields what its else branch does.                                  *)
GuardInRows(guard) ==
  LET else == guard.of[2]
  IN  IF ~(IsFull(else) /\ ~else.shared) THEN guard
      ELSE IF IsEmptyGuard(guard) THEN InRows(else)
      ELSE SetOp(guard, <<guard.of[1], InRows(else)>>)

(* Mutant of MaterializesPad: the pass that is to look only at packs takes *)
(* every pad.                                                              *)
EveryPad(e, packedOnly, packed) == IsFull(e) /\ ~e.shared

(* A pad of this operand gets a buffer of its own. *)
MaterializesPad(e, packedOnly, packed) == IsFull(e) /\ ~e.shared /\ (packedOnly => packed)

(* A contraction operand, packed if it is read through a pack. *)
RECURSIVE Materialized(_, _, _)
Materialized(e, packedOnly, packed) ==
  CASE e.op \in Reshapes -> SetOp(e, Materialized(e.of, packedOnly, packed))
    [] e.op = "pack" -> SetOp(e, Materialized(e.of, packedOnly, TRUE))
    [] e.op = "pad" /\ MaterializesPad(e, packedOnly, packed) -> InRows(e)
    [] e.op = "guard" /\ ~packedOnly /\ ~e.shared /\ e.of[2].op = "pad" -> GuardInRows(e)
    [] e.op = "generate" /\ ~packedOnly /\ Len(e.type) >= 2 -> [e EXCEPT !.op = "filled"]
    [] OTHER -> e

MaterializePads(code, packedOnly) ==
  OnDots(code, LAMBDA e, outer : Materialized(e, packedOnly, FALSE))

(***************************************************************************)
(* version_padded_operands                                                  *)
(***************************************************************************)
RuntimePadded(pad) ==
  /\ \A d \in DOMAIN pad.high : pad.high[d] \in {0, Dyn}
  /\ \E d \in DOMAIN pad.high : pad.high[d] = Dyn

VersionablePad(value) ==
  /\ value.op = "pad" /\ ~value.shared
  /\ IsFull(value)
  /\ RuntimePadded(value)
  /\ ~PadsMisalignedRows(value)

(* The guard is only read by the reader, and a branch yields a pad that     *)
(* could be read in place.                                                  *)
SinkableBranch(value) ==
  /\ value.op = "guard" /\ ~value.shared
  /\ \E b \in 1 .. 2 : value.of[b].op = "pad"
  /\ \A b \in 1 .. 2 : value.of[b].op = "pad" => ~PadsMisalignedRows(value.of[b])

(* A copy of the reader of operand i from another value; its other operands *)
(* stay in the block of the original.                                       *)
CopyReading(dot, i, value) ==
  [dot EXCEPT !.of[i] = Rebuilt(@, value), !.outer = DOMAIN dot.of \ {i}]

(* One version of a contraction, branched until no operand of its own block *)
(* can be read in place. *)
RECURSIVE Versioned(_, _)
Versioned(version, done) ==
  LET dot == version.reader
      value(i) == Beneath(dot.of[i])
      found == {i \in DOMAIN dot.of \ (done \cup dot.outer) :
                  SinkableBranch(value(i)) \/ VersionablePad(value(i))}
      i == Min(found)
      Case(test, answer, read, versioned) ==
        Versioned([when |-> Append(version.when, <<test, answer>>),
                   reader |-> CopyReading(dot, i, read)], versioned)
      Branch(test, then, else, versioned) ==
        Case(test, TRUE, then, versioned) \o Case(test, FALSE, else, versioned)
  IN  IF found = {} THEN <<version>>
      ELSE IF value(i).op = "guard"
      THEN Branch(value(i).test, value(i).of[1], value(i).of[2], done)
      ELSE Branch([kind |-> "unpadded", pad |-> value(i)],
                  [op |-> "cast", type |-> value(i).type, of |-> value(i).of], value(i),
                  done \cup {i})

VersionOperands(code) ==
  FlattenSeq([v \in DOMAIN code |->
                IF code[v].reader.op = "dot" THEN Versioned(code[v], {}) ELSE <<code[v]>>])

(***************************************************************************)
(* align_operand_rows                                                       *)
(***************************************************************************)
(* e, its slice of the given static shape copied into a buffer. *)
RECURSIVE SliceCopied(_, _)
SliceCopied(e, shape) ==
  IF e.op = "slice"
  THEN LET static == IF e.type = shape THEN e
                     ELSE [op |-> "cast", type |-> shape, of |-> e]
           copied == [op |-> "copied", type |-> shape, of |-> static]
       IN  IF e.type = shape THEN copied ELSE [op |-> "cast", type |-> e.type, of |-> copied]
  ELSE SetOp(e, SliceCopied(e.of, shape))

(* Reshapes of an operand in an outer block have other readers: the operand *)
(* is looked at from its last reshape, not from what they reshape.          *)
Aligned(e, outer) ==
  LET value == IF outer THEN e ELSE Beneath(e)
      found == IF IsStatic(value.type) THEN ExpandedSlice(value, value.type) ELSE <<>>
      copied == SliceCopied(value, found[2])
  IN  IF found = <<>> THEN e
      ELSE IF ~MisalignedRows(found[1], found[2]) THEN e
      ELSE IF outer THEN copied
      ELSE Rebuilt(e, copied)

AlignRows(code) ==
  OnDots(code, Aligned)

(***************************************************************************)
(* materialize_copies                                                       *)
(***************************************************************************)
NotOne(type) == SelectSeq(type, LAMBDA size : size # 1)

(* The slice e is, through inserts that fill a whole empty tensor. *)
RECURSIVE MovedSlice(_)
MovedSlice(e) == IF e.op = "wrap" THEN MovedSlice(e.of) ELSE e

MaterializeCopies(code) ==
  OnReaders(code, LAMBDA reader :
    LET moved == MovedSlice(reader.of[1])
        Copy == SetOp(reader, <<[op |-> "copied", type |-> moved.type, of |-> moved]>>)
    IN  IF reader.op # "insert" \/ reader.intoEmpty \/ moved.op # "slice" THEN reader
        ELSE IF IsStatic(moved.type)
        THEN IF /\ Product(moved.type) > MaxVectorElements
                /\ NotOne(reader.sizes) = NotOne(moved.type)
             THEN Copy
             ELSE reader
        ELSE IF reader.of[1] = moved /\ Len(moved.type) = Len(reader.sizes) THEN Copy
        ELSE reader)

(***************************************************************************)
(* vectorize_pads                                                           *)
(***************************************************************************)

CheckedDims(pad, shape) == [d \in DOMAIN shape |-> pad.of.type[d] = shape[d]]

PadVectorized(pad) ==
  LET shape == [d \in DOMAIN pad.type |-> Bound(pad, d)]
  IN  IF \/ ~IsStatic(shape)
         \/ ~IsStatic(pad.type) /\ Product(shape) > MaxVectorElements
      THEN pad
      ELSE [op |-> "vector", type |-> pad.type, high |-> pad.high, of |-> pad.of,
            vector |-> shape, inBounds |-> CheckedDims(pad, shape)]

(* Every pad of an expression as a vector read and a write. *)
RECURSIVE Vectorized(_)
Vectorized(e) ==
  CASE e.op = "pad" -> PadVectorized(e)
    [] e.op = "guard" -> SetOp(e, <<Vectorized(e.of[1]), Vectorized(e.of[2])>>)
    [] e.op \in Reshapes \cup {"pack", "cast", "rows", "copied", "wrap"} -> SetOp(e, Vectorized(e.of))
    [] OTHER -> e

VectorizePads(code) ==
  OnReaders(code, LAMBDA reader :
    SetOp(reader, [i \in DOMAIN reader.of |-> Vectorized(reader.of[i])]))
=============================================================================
