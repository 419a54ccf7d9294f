----------------------------- MODULE MCSchedules -----------------------------
(***************************************************************************)
(* Small code for every pass.  Tiles are 2 by 4 over tensors that end       *)
(* within a tile, rows of 8 are whole cache lines of 4 and rows of 6 are    *)
(* not; axis z stays where it starts.                                       *)
(***************************************************************************)
EXTENDS Schedules

Axes == {"i", "j", "z"}
Envs == {[a \in Axes |-> IF a = "i" THEN x ELSE IF a = "j" THEN y ELSE 0] :
           x \in {0, 2, 4, 6}, y \in {0, 4}}

Source(name, shape, known) == [name |-> name, shape |-> shape, known |-> known]

SliceIn(source, axes, type, tile) ==
  [op |-> "slice", source |-> source, axes |-> axes, type |-> type, tile |-> tile, bounded |-> TRUE]

PadOfSlice(of, type, high, shared) ==
  [op |-> "pad", of |-> of, type |-> type, high |-> high, shared |-> shared]

Expand(of, type, groups) == [op |-> "expand", of |-> of, type |-> type, groups |-> groups]
Collapse(of, type) == [op |-> "collapse", of |-> of, type |-> type]
Pack(of, type, order) == [op |-> "pack", of |-> of, type |-> type, order |-> order]
Zeros(type) == [op |-> "generate", type |-> type]

Guard(test, pad, shared) ==
  [op |-> "guard", type |-> pad.type, test |-> test, of |-> <<Zeros(pad.type), pad>>, shared |-> shared]

EmptyGuard(pad, slice, dim, shared) ==
  Guard([kind |-> "empty", slice |-> slice, dim |-> dim], pad, shared)

MaskGuard(pad, shared) == Guard([kind |-> "masked", axis |-> "i"], pad, shared)

(* Tiles of A: rows past the end padded at run time, columns statically. *)
RowTile(source) == SliceIn(source, <<"i", "z">>, <<Dyn, 4>>, <<2, 4>>)
ShortTile(source) == SliceIn(source, <<"i", "z">>, <<Dyn, 3>>, <<2, 3>>)
RowPad(source, shared) == PadOfSlice(RowTile(source), <<2, 4>>, <<Dyn, 0>>, shared)
ShortPad(source, shared) == PadOfSlice(ShortTile(source), <<2, 4>>, <<Dyn, 1>>, shared)
CornerPad(source, shared) ==
  PadOfSlice(SliceIn(source, <<"i", "j">>, <<Dyn, Dyn>>, <<2, 4>>), <<2, 4>>, <<Dyn, Dyn>>, shared)
PairPad(source, shared) ==
  PadOfSlice(Expand(RowTile(source), <<Dyn, 2, 2>>, <<<<1>>, <<2, 3>>>>), <<2, 2, 2>>,
             <<Dyn, 0, 0>>, shared)

InPairs(e) == Expand(e, <<2, 2, 2>>, <<<<1>>, <<2, 3>>>>)
Around(e) == IF Len(e.type) = 3 THEN {e, Collapse(e, <<2, 4>>)}
             ELSE {e, InPairs(e), Collapse(InPairs(e), <<2, 4>>), Collapse(e, <<8>>)}
Packed(e) == Pack(IF Len(e.type) = 3 THEN e ELSE InPairs(e), <<2, 2, 2>>, <<2, 1, 3>>)

Sources == {Source("A", <<5, 8>>, TRUE), Source("A", <<5, 6>>, TRUE), Source("A", <<5, 6>>, FALSE)}

ValuesOfA(source, shared) ==
  {SliceIn(source, <<"z", "z">>, <<2, 4>>, <<2, 4>>),
   RowPad(source, shared), CornerPad(source, shared), ShortPad(source, shared), PairPad(source, shared),
   PadOfSlice(SliceIn(source, <<"z", "z">>, <<2, 3>>, <<2, 3>>), <<2, 4>>, <<0, 1>>, shared),
   EmptyGuard(RowPad(source, FALSE), RowTile(source), 1, shared),
   EmptyGuard(PairPad(source, FALSE), RowTile(source), 1, shared),
   EmptyGuard(ShortPad(source, FALSE), ShortTile(source), 1, shared),
   MaskGuard(RowPad(source, FALSE), shared)}

OperandsA ==
  LET values == UNION {ValuesOfA(source, FALSE) : source \in Sources}
           \cup ValuesOfA(Source("A", <<5, 8>>, TRUE), TRUE)
  IN  UNION {Around(e) : e \in values} \cup {Packed(e) : e \in values}

SourceB == Source("B", <<4, 6>>, TRUE)
ColumnTile == SliceIn(SourceB, <<"z", "j">>, <<4, Dyn>>, <<4, 4>>)
ColumnPad == PadOfSlice(ColumnTile, <<4, 4>>, <<0, Dyn>>, FALSE)

OperandsB ==
  {SliceIn(Source("B", <<4, 8>>, TRUE), <<"z", "j">>, <<4, 4>>, <<4, 4>>),
   SliceIn(SourceB, <<"z", "z">>, <<4, 4>>, <<4, 4>>)}

PaddedB == {ColumnPad, EmptyGuard(ColumnPad, ColumnTile, 2, FALSE),
            [ColumnPad EXCEPT !.of.source.known = FALSE],
            EmptyGuard([ColumnPad EXCEPT !.of.source.shape = <<4, 8>>],
                       [ColumnTile EXCEPT !.source.shape = <<4, 8>>], 2, FALSE)}

Reader(op, operands) ==
  [kind |-> "reader", envs |-> Envs,
   code |-> <<[when |-> <<>>,
               reader |-> [op |-> op, of |-> operands, outer |-> {}, sizes |-> operands[1].type,
                           intoEmpty |-> FALSE]]>>]

Dots == {Reader("dot", <<a, b>>) : a \in OperandsA, b \in OperandsB}

TwoPaddedDots ==
  {Reader("dot", <<a, b>>) :
     a \in ValuesOfA(Source("A", <<5, 8>>, TRUE), FALSE)
        \cup {InPairs(RowPad(Source("A", <<5, 8>>, TRUE), FALSE)),
              Collapse(SliceIn(Source("A", <<5, 6>>, TRUE), <<"z", "z">>, <<2, 4>>, <<2, 4>>), <<8>>)},
     b \in PaddedB}

(* An elementwise op on tiles of a size only known at run time, padded by   *)
(* a constant, or without an evident bound.                                 *)
Uses1 ==
  LET source == Source("A", <<5, 8>>, TRUE)
      runtime == PadOfSlice(ShortTile(source), <<Dyn, 4>>, <<0, 1>>, TRUE)
  IN  {Reader("use", <<e>>) :
         e \in UNION {Around(v) : v \in ValuesOfA(source, TRUE)}
            \cup {runtime, [runtime EXCEPT !.of.bounded = FALSE],
                  PadOfSlice(RowTile(source), <<20, 4>>, <<Dyn, 0>>, TRUE),
                  PadOfSlice([RowTile(source) EXCEPT !.tile = <<10, 4>>], <<Dyn, 5>>, <<0, 1>>, TRUE)}}

Inserts ==
  LET source == Source("A", <<12, 8>>, TRUE)
      Insert(e, sizes, empty) ==
        LET r == Reader("insert", <<e>>)
        IN  [r EXCEPT !.code = <<[@[1] EXCEPT !.reader.sizes = sizes, !.reader.intoEmpty = empty]>>]
      large == SliceIn(source, <<"z", "z">>, <<10, 4>>, <<10, 4>>)
      Wrap(e, type) == [op |-> "wrap", of |-> e, type |-> type]
  IN  {Insert(RowTile(source), <<Dyn, 4>>, FALSE), Insert(RowTile(source), <<Dyn, 4>>, TRUE),
       Insert(Wrap(RowTile(source), <<Dyn, 1, 4>>), <<Dyn, 1, 4>>, FALSE),
       Insert(large, <<10, 4>>, FALSE), Insert(Wrap(large, <<10, 1, 4>>), <<10, 1, 4>>, FALSE),
       Insert(ColumnPad, <<4, 4>>, FALSE)}

(***************************************************************************)
Operand0(type, bound, map) == [type |-> type, bound |-> bound, map |-> map]

Op(operands, loops, moves, bits) ==
  [kind |-> "linalg", code |-> [operands |-> operands, loops |-> loops, moves |-> moves,
                                bits |-> bits, vector |-> <<>>]]

Bounded == {<<3, 3>>, <<6, 6>>, <<16, 16>>, <<Dyn, 3>>, <<Dyn, 6>>, <<Dyn, 8>>, <<Dyn, Dyn>>}

Elementwise ==
  {Op(<<Operand0(<<x[1], y[1]>>, <<x[2], y[2]>>, <<1, 2>>),
        Operand0(<<x[1], y[1]>>, <<Dyn, y[2]>>, <<1, 2>>)>>, 2, FALSE, 32) :
     x \in Bounded, y \in Bounded}

Products ==
  {Op(<<Operand0(<<x[1], z[1]>>, <<x[2], z[2]>>, <<1, 3>>),
        Operand0(<<z[1], y[1]>>, <<z[2], y[2]>>, <<3, 2>>),
        Operand0(<<x[1], y[1]>>, <<x[2], y[2]>>, <<1, 2>>)>>, 3, FALSE, 32) :
     x \in {<<3, 3>>, <<6, 6>>, <<Dyn, 6>>}, y \in {<<4, 4>>, <<Dyn, Dyn>>},
     z \in {<<6, 6>>, <<Dyn, 8>>, <<1, 1>>}}

Moves2 ==
  {Op(<<Operand0(shape, shape, [d \in DOMAIN shape |-> d]),
        Operand0([d \in DOMAIN shape |-> shape[order[d]]],
                 [d \in DOMAIN shape |-> shape[order[d]]], order)>>, Len(shape), TRUE, bits) :
     shape \in {<<4, 8>>, <<16, 2>>, <<16, 11>>, <<3, 9>>, <<24, 8>>, <<6, 10>>}, order \in {<<2, 1>>}, bits \in {16, 32}}
  \cup
  {Op(<<Operand0(shape, shape, <<1, 2, 3>>),
        Operand0([d \in 1 .. 3 |-> shape[order[d]]], [d \in 1 .. 3 |-> shape[order[d]]], order)>>,
      3, TRUE, bits) :
     shape \in {<<4, 2, 8>>, <<8, 4, 2>>, <<2, 16, 2>>, <<3, 16, 5>>},
     order \in {<<1, 3, 2>>, <<2, 3, 1>>, <<3, 1, 2>>, <<2, 1, 3>>}, bits \in {8, 16, 32}}

Linalgs ==
  {[Op(<<>>, 0, FALSE, 32) EXCEPT !.code.operands = <<Operand0(<<>>, <<>>, <<>>)>>],
   Op(<<Operand0(<<9, 6>>, <<9, 6>>, <<0, 1>>), Operand0(<<6>>, <<6>>, <<1>>)>>, 1, FALSE, 32)}
  \cup Elementwise \cup Products \cup Moves2

(***************************************************************************)
Loops == [1 .. 3 -> 0 .. 2]

Contraction(dims, result, mask, masked, kind, float, known) ==
  [kind |-> "contraction", loops |-> Loops,
   code |-> [dims |-> dims, result |-> result, mask |-> mask, masked |-> masked, kind |-> kind,
             float |-> float, maskKnown |-> known, zeroed |-> {}]]

Contractions ==
  {Contraction(<<{1, 3}, {3, 2}>>, {1, 2}, mask, TRUE, kind, float, known) :
     mask \in {<<3, 3, 3>>, <<2, 3, 1>>, <<1, 2, 2>>, <<0, 2, 3>>}, kind \in {"add", "max"},
     float \in BOOLEAN, known \in BOOLEAN}
  \cup {Contraction(<<{1, 2, 3}, {1, 3}>>, {1, 2}, mask, TRUE, "add", TRUE, TRUE) :
          mask \in {<<2, 3, 1>>, <<1, 2, 2>>}}

(***************************************************************************)
Vector1(shape) == [shape |-> shape, data |-> [o \in 1 .. Product(shape) |-> o]]

Transpose(shape, order, bits, widens) ==
  [kind |-> "transpose", widens |-> widens,
   code |-> [value |-> Vector1(shape), order |-> order, bits |-> bits]]

Transposes ==
  {Transpose(<<4, 4, 2>>, <<2, 1, 3>>, 16, TRUE), Transpose(<<4, 2, 3>>, <<3, 1, 2>>, 16, TRUE),
   Transpose(<<2, 4, 4>>, <<1, 3, 2>>, 16, TRUE), Transpose(<<6, 3>>, <<2, 1>>, 16, TRUE),
   Transpose(<<8, 3>>, <<2, 1>>, 8, TRUE), Transpose(<<4, 2, 4>>, <<2, 1, 3>>, 8, TRUE),
   Transpose(<<8, 4>>, <<2, 1>>, 32, TRUE), Transpose(<<8, 12>>, <<2, 1>>, 32, TRUE),
   Transpose(<<4, 2, 3>>, <<2, 3, 1>>, 16, TRUE), Transpose(<<4, 2, 3>>, <<2, 1, 3>>, 16, FALSE),
   Transpose(<<2, 5>>, <<2, 1>>, 16, FALSE), Transpose(<<3, 5>>, <<2, 1>>, 8, FALSE),
   Transpose(<<2, 3, 4>>, <<3, 2, 1>>, 32, FALSE), Transpose(<<1, 4, 2>>, <<1, 3, 2>>, 16, FALSE)}
  \cup {Transpose(<<2, 4, 2, 2>>, order, bits, FALSE) :
          order \in {<<1, 3, 2, 4>>, <<3, 2, 1, 4>>, <<4, 3, 2, 1>>, <<2, 1, 3, 4>>, <<3, 4, 1, 2>>,
                     <<1, 2, 4, 3>>, <<1, 2, 3, 4>>},
          bits \in {8, 16, 32}}

(***************************************************************************)
Index(terms, plus, applied) == [terms |-> terms, plus |-> plus, applied |-> applied]

IndexEnvs == [{"i", "iv"} -> {0, 1, 3}]

Transfer(kind, base, vector, indices, inBounds, envs) ==
  LET t == [kind |-> kind, base |-> base, vector |-> vector, indices |-> indices,
            inBounds |-> inBounds, mask |-> <<>>, minorIdentity |-> TRUE, bool |-> FALSE,
            inLoop |-> TRUE, subviews |-> <<>>, scalars |-> FALSE]
  IN  [kind |-> "transfer", envs |-> {e \in envs : \A d \in 1 .. 2 : IndexValue(indices[d], e) >= 0},
       code |-> [checks |-> {}, inside |-> t, other |-> t]]

IndexPairs ==
  {<<Index(<<"i">>, 0, FALSE), Index(<<>>, 1, FALSE)>>,
   <<Index(<<"i">>, 1, TRUE), Index(<<"iv">>, 0, FALSE)>>,
   <<Index(<<"i">>, 0, FALSE), Index(<<"i", "iv">>, 1, TRUE)>>,
   <<Index(<<"i", "iv">>, 0, TRUE), Index(<<"iv">>, 0, FALSE)>>,
   <<Index(<<>>, 0, FALSE), Index(<<"iv", "iv">>, 0, TRUE)>>,
   <<Index(<<"i">>, 0, FALSE), Index(<<"i", "iv">>, -1, TRUE)>>}

Inside2(base, vector, pair) ==
  {env \in IndexEnvs : \A d \in 1 .. 2 :
     IndexValue(pair[d], env) + LaneOffset(vector, d - (2 - Len(vector))) <= base[d]}

Transfers ==
  LET loose == {Transfer(kind, <<5, 6>>, vector, pair, [d \in DOMAIN vector |-> FALSE],
                         {e \in IndexEnvs : vector # <<4>> \/ IndexValue(pair[1], e) < 5}) :
                  kind \in {"read", "write"}, pair \in IndexPairs, vector \in {<<2, 4>>, <<4>>}}
      half  == {Transfer(kind, <<8, 6>>, <<2, 4>>, pair, <<TRUE, FALSE>>, Inside2(<<8, 100>>, <<2, 4>>, pair)) :
                  kind \in {"read", "write"}, pair \in IndexPairs}
      tight == {Transfer(kind, <<8, 9>>, vector, pair, [d \in DOMAIN vector |-> TRUE],
                         {e \in Inside2(<<8, 9>>, vector, pair) : IndexValue(pair[1], e) < 8}) :
                  kind \in {"read", "write"}, pair \in IndexPairs, vector \in {<<2, 4>>, <<4>>}}
      scalar == {Transfer(kind, <<8, 9>>, <<>>, pair, <<>>,
                          {e \in IndexEnvs : IndexValue(pair[1], e) < 8 /\ IndexValue(pair[2], e) < 9}) :
                   kind \in {"read", "write"}, pair \in IndexPairs}
      With(ts, Change(_)) == {[t EXCEPT !.code.inside = Change(@), !.code.other = Change(@)] : t \in ts}
      bools == loose \cup half \cup tight
  IN  loose \cup half \cup tight \cup scalar
      \cup With(bools, LAMBDA t : [t EXCEPT !.bool = TRUE])
      \cup With(bools, LAMBDA t : [t EXCEPT !.bool = TRUE, !.mask = [d \in DOMAIN @ |-> 1]])
      \cup With(loose, LAMBDA t : [t EXCEPT !.bool = TRUE,
                                            !.mask = [d \in DOMAIN t.vector |-> t.vector[d] - 1]])
      \cup With(loose, LAMBDA t : [t EXCEPT !.mask = [d \in DOMAIN t.vector |-> t.vector[d] - 1]])
      \cup With(tight, LAMBDA t : [t EXCEPT !.inLoop = FALSE])
      \cup With(loose, LAMBDA t : [t EXCEPT !.minorIdentity = FALSE])

(***************************************************************************)
BlockOp(kind, def, reads) == [kind |-> kind, def |-> def, reads |-> reads]
L(def) == BlockOp("load", def, <<>>)
D(def, x, y, acc) == BlockOp("dot", def, <<x, y, acc>>)
Yield(reads) == BlockOp("other", "end", reads)
Store(reads) == BlockOp("store", "none", reads)
I(def) == BlockOp("index", def, <<>>)

AmxCode(block) == [kind |-> "amx", code |-> block]

Loads4 == <<L("a0"), L("b0"), L("b1"), L("a1")>>
Dots4 == <<D("d0", "a0", "b0", "x0"), D("d1", "a0", "b1", "x1"),
           D("d2", "a1", "b0", "x2"), D("d3", "a1", "b1", "x3")>>
End4 == <<Yield(<<"d0", "d1", "d2", "d3">>)>>

AmxBlocks ==
  {AmxCode(block) : block \in
     {Loads4 \o Dots4 \o End4,
      Loads4 \o SubSeq(Dots4, 1, 2) \o <<Store(<<"d0">>)>> \o SubSeq(Dots4, 3, 4) \o End4,
      SubSeq(Loads4, 1, 2) \o <<Store(<<"x0">>)>> \o SubSeq(Loads4, 3, 4) \o Dots4 \o End4,
      <<D("e", "p", "q", "x4")>> \o Loads4 \o Dots4 \o End4,
      <<L("a0"), L("b0"), Dots4[1], I("m"), BlockOp("load", "b1", <<"m">>), Dots4[2], L("a1")>>
        \o SubSeq(Dots4, 3, 4) \o End4,
      <<L("a0"), L("b0"), Dots4[1], Store(<<"d0">>), L("b1"), Dots4[2], Yield(<<"d1">>)>>,
      <<L("a0"), L("b0"), Dots4[1], Yield(<<"d0">>)>>,
      <<L("x0"), L("b0"), D("d0", "x0", "b0", "x0"), D("d1", "b0", "b0", "d0"), Yield(<<"d1">>)>>,
      <<L("a0"), L("b0"), L("b1"), L("a1"), L("c0"), D("d0", "a0", "b0", "x0"),
        D("d1", "a1", "b1", "x1"), D("d2", "c0", "b0", "x2"), D("d3", "c0", "a0", "x3"),
        D("d4", "c0", "b1", "x4"), Yield(<<"d0", "d1", "d2", "d3", "d4">>)>>,
      <<BlockOp("zero", "x0", <<>>), L("a0"), L("b0"), D("d0", "a0", "b0", "x0"), L("a1"),
        D("d1", "a1", "b0", "d0"), Store(<<"d1">>)>>,
      <<D("d0", "p", "q", "x0"), D("d1", "p", "q", "d0"), L("a0"), L("b0"), L("b1"),
        D("d2", "a0", "b0", "x1"), D("d3", "a0", "b1", "x2"), D("d4", "a0", "q", "x3"),
        Yield(<<"d1", "d2", "d3", "d4">>)>>}}

Buffers ==
  {[kind |-> "buffer", code |-> around \o <<"func.func">>] :
     around \in UNION {[1 .. n -> {"scf.for", "scf.if", "omp.parallel", "memref.alloca_scope",
                                   "omp.loop_nest"}] : n \in 0 .. 4}}

MCPayloads == Dots \cup TwoPaddedDots \cup Uses1 \cup Inserts \cup Linalgs \cup Contractions
              \cup Transposes \cup Transfers \cup AmxBlocks \cup Buffers
=============================================================================
