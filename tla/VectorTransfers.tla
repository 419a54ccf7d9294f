--------------------------- MODULE VectorTransfers ---------------------------
(***************************************************************************)
(* Vector reads and writes of memory, and the passes between bufferization  *)
(* and LLVM that change how their bounds are checked and where they start.  *)
(* A transfer moves one element per lane; a lane is a position in its       *)
(* vector.  Indices are sums of values only known at run time.              *)
(***************************************************************************)
EXTENDS Integers, Sequences, FiniteSetsExt, SequencesExt, Functions

Lanes(vector) ==
  LET most == Max({0} \cup {vector[d] - 1 : d \in DOMAIN vector})
  IN  {lane \in [DOMAIN vector -> 0 .. most] : \A d \in DOMAIN vector : lane[d] < vector[d]}

Total(values) == FoldLeft(LAMBDA x, y : x + y, 0, values)

IndexValue(index, env) == index.plus + Total([t \in DOMAIN index.terms |-> env[index.terms[t]]])

NoIndex == [plus |-> 0, terms |-> <<>>, applied |-> FALSE]

(* Dimensions a vector does not have are leading ones of the memory. *)
Leading(t) == Len(t.base) - Len(t.vector)

LaneOffset(lane, d) == IF d \in DOMAIN lane THEN lane[d] ELSE 0

(* Where a lane is, for the checks: relative to the innermost subview. *)
Checked(t, lane, env) ==
  [d \in DOMAIN t.base |-> IndexValue(t.indices[d], env) + LaneOffset(lane, d - Leading(t))]

Moved(t, d, env) == Total([s \in DOMAIN t.subviews |-> IndexValue(t.subviews[s][d], env)])

Place(t, lane, env) ==
  LET at == Checked(t, lane, env)
  IN  [d \in DOMAIN t.base |-> at[d] + Moved(t, d, env)]

MaskedOn(t, lane) == \A d \in DOMAIN t.mask : lane[d] < t.mask[d]

InExtent(t, d, lane, env) ==
  Checked(t, lane, env)[d + Leading(t)] < t.base[d + Leading(t)]

(* Whether a lane is read or written at all: dims marked in bounds are not  *)
(* checked.                                                                 *)
LaneTaken(t, lane, env) ==
  /\ MaskedOn(t, lane)
  /\ \A d \in DOMAIN t.vector : t.inBounds[d] \/ InExtent(t, d, lane, env)

(* The guard of one scalar access of a transfer done element by element. *)
ScalarGuard(t, lane, env) ==
  /\ \A d \in DOMAIN t.vector :
       ~t.inBounds[d] => Checked(t, lane, env)[d + Leading(t)] < t.base[d + Leading(t)]
  /\ t.mask # <<>> => MaskedOn(t, lane)

(* What each lane moves: an element of the memory, padding, or what lies    *)
(* outside of it.                                                           *)
Moves(t, env) ==
  [lane \in Lanes(t.vector) |->
     IF ~(IF t.scalars THEN ScalarGuard(t, lane, env) ELSE LaneTaken(t, lane, env))
     THEN <<"padding">>
     ELSE LET at == Place(t, lane, env)
          IN  IF \A d \in DOMAIN at : at[d] \in 0 .. t.base[d] - 1 THEN <<"element", at>>
              ELSE <<"outside">>]

(***************************************************************************)
(* split_transfers                                                          *)
(***************************************************************************)
AllInBounds(t) == \A d \in DOMAIN t.inBounds : t.inBounds[d]

(* Mutant of Fits: one dimension in bounds is enough. *)
SomeDimFits(t, env) ==
  \E d \in DOMAIN t.vector :
    ~t.inBounds[d] /\ IndexValue(t.indices[d + Leading(t)], env) + t.vector[d] <= t.base[d + Leading(t)]

Fits(t, env) ==
  \A d \in DOMAIN t.vector :
    t.inBounds[d] \/ IndexValue(t.indices[d + Leading(t)], env) + t.vector[d] <= t.base[d + Leading(t)]

Unmasked(t) == t.mask = <<>>

(* Code is a transfer in two versions, and the checks that choose. *)
Split(t) ==
  IF ~Unmasked(t) \/ AllInBounds(t) \/ ~t.minorIdentity
  THEN [checks |-> {}, inside |-> t, other |-> t]
  ELSE [checks |-> {t}, other |-> t,
        inside |-> [t EXCEPT !.inBounds = [d \in DOMAIN t.vector |-> TRUE]]]

Version(code, env) == IF \A t \in code.checks : Fits(t, env) THEN code.inside ELSE code.other

EachVersion(code, Pass(_)) == [code EXCEPT !.inside = Pass(@), !.other = Pass(@)]

(***************************************************************************)
(* move_offsets_to_subview                                                  *)
(***************************************************************************)
IsConstant(index) == index.terms = <<>> /\ ~index.applied

(* A sum that adds a positive constant keeps it in the read's index, so     *)
(* that the tiles of one operand share a subview.                           *)
Constant(index) == IF IsConstant(index) \/ (index.applied /\ index.plus > 0) THEN index.plus ELSE 0

Rest(index) ==
  IF IsConstant(index) THEN NoIndex
  ELSE IF ~index.applied \/ index.plus <= 0 THEN index
  ELSE [index EXCEPT !.plus = 0, !.applied = Len(index.terms) > 1]

SumOf(terms) == [plus |-> 0, terms |-> terms, applied |-> Len(terms) > 1]

(* A sum of values one of which is the loop's induction variable. *)
SplitsLoop(offset) ==
  /\ offset.applied /\ offset.plus = 0
  /\ Len(SelectSeq(offset.terms, LAMBDA t : t = "iv")) = 1

OuterOffset(offset) ==
  IF SplitsLoop(offset) THEN SumOf(SelectSeq(offset.terms, LAMBDA t : t # "iv")) ELSE offset

InnerOffset(offset) == IF SplitsLoop(offset) THEN SumOf(<<"iv">>) ELSE NoIndex

Rewritable(t) == t.kind = "read" /\ Unmasked(t) /\ AllInBounds(t) /\ t.minorIdentity

(* The read starts at subviews of its memory, which keep its sizes. *)
MoveOffsets(t) ==
  LET offsets == [d \in DOMAIN t.indices |-> Rest(t.indices[d])]
      split   == t.inLoop /\ \E d \in DOMAIN offsets : SplitsLoop(offsets[d])
      Each(Part(_)) == [d \in DOMAIN offsets |-> Part(offsets[d])]
  IN  IF ~Rewritable(t) THEN t
      ELSE [t EXCEPT !.subviews = @ \o (IF split THEN <<Each(OuterOffset), Each(InnerOffset)>>
                                         ELSE <<offsets>>),
                     !.indices = [d \in DOMAIN @ |-> [NoIndex EXCEPT !.plus = Constant(t.indices[d])]]]

(***************************************************************************)
(* legalize_for_llvm                                                        *)
(***************************************************************************)
(* LLVM packs a vector of i1 into bits, memory holds a byte for each. *)
Legalize(t) ==
  IF t.minorIdentity /\ (t.vector = <<>> \/ t.bool) THEN [t EXCEPT !.scalars = TRUE] ELSE t

(***************************************************************************)
(* Contractions of vectors under a mask: the operands are dims of the loop  *)
(* nest, the mask sizes bound it.                                           *)
(***************************************************************************)

Zeroed(c) == [c EXCEPT !.masked = FALSE, !.zeroed = {1, 2}]

(* unmask_contractions *)
Unmask(c) ==
  IF c.masked /\ c.kind = "add" /\ c.float /\ c.maskKnown THEN Zeroed(c) ELSE c

Within(c, loops, dims) == \A d \in dims : loops[d] < c.mask[d]

Operand(c, o, loops) ==
  IF o \in c.zeroed /\ ~Within(c, loops, c.dims[o]) THEN "zero"
  ELSE IF Within(c, loops, c.dims[o]) THEN "value" ELSE "junk"

(* Whether an iteration adds a product of values, nothing, or something     *)
(* that is neither: zero times what a masked lane holds need not be zero.   *)
Adds(c, loops) ==
  LET both == {Operand(c, 1, loops), Operand(c, 2, loops)}
  IN  IF c.masked /\ ~Within(c, loops, DOMAIN c.mask) THEN "nothing"
      ELSE IF "junk" \in both THEN "junk"
      ELSE IF both = {"zero"} THEN "nothing"
      ELSE IF both = {"value"} THEN "product" ELSE "zero times value"
=============================================================================
