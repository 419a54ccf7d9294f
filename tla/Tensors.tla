------------------------------- MODULE Tensors -------------------------------
(***************************************************************************)
(* Row-major tensors and the operations kernels and lowerings apply to      *)
(* them.  Positions count from 0, as in the code; an element is whatever    *)
(* says where its value comes from, and Zero is the padding.                *)
(***************************************************************************)
EXTENDS Integers, Sequences, SequencesExt

Zero == <<>>

Product(sizes) == FoldLeft(LAMBDA x, y : x * y, 1, sizes)

(* Elements one step along each dimension of a row-major tensor skips. *)
Strides(shape) == [d \in DOMAIN shape |-> Product(SubSeq(shape, d + 1, Len(shape)))]

Offset(shape, p) ==
  CASE Len(shape) = 0 -> 0
    [] Len(shape) = 1 -> p[1]
    [] Len(shape) = 2 -> p[1] * shape[2] + p[2]
    [] Len(shape) = 3 -> (p[1] * shape[2] + p[2]) * shape[3] + p[3]
    [] Len(shape) = 4 -> ((p[1] * shape[2] + p[2]) * shape[3] + p[3]) * shape[4] + p[4]

Build(shape, Element(_)) ==
  LET strides == Strides(shape)
  IN  [shape |-> shape,
       data  |-> [o \in 1 .. Product(shape) |->
                    Element([d \in DOMAIN shape |-> ((o - 1) \div strides[d]) % shape[d]])]]

At(t, position) == t.data[Offset(t.shape, position) + 1]

Inside(t, position) == \A d \in DOMAIN t.shape : position[d] \in 0 .. t.shape[d] - 1

AtOr(t, position, other) == IF Inside(t, position) THEN At(t, position) ELSE other

(* The same elements in row-major order under another shape. *)
View(t, shape) == [t EXCEPT !.shape = shape]

(* Dimension d of the result is dimension order[d] of t. *)
Permute(t, order) ==
  LET from == [d \in DOMAIN order |-> CHOOSE e \in DOMAIN order : order[e] = d]
  IN  Build([d \in DOMAIN order |-> t.shape[order[d]]],
            LAMBDA p : At(t, [d \in DOMAIN order |-> p[from[d]]]))

(* A tile of the given sizes; elements past the end of t read padding. *)
Tile(t, from, sizes) ==
  Build(sizes, LAMBDA p : AtOr(t, [d \in DOMAIN p |-> from[d] + p[d]], Zero))

(* The first elements along every dimension: t[:m, :n]. *)
Head2(t, sizes) == Build(sizes, LAMBDA p : At(t, p))

(* An element of a contraction: the list of the products that are added up, *)
(* one for each of the n positions the operands share, but those of padding. *)
Dot(n, X(_), Y(_)) ==
  SelectSeq([o \in 1 .. n |-> <<X(o - 1), Y(o - 1)>>], LAMBDA t : t[1] # Zero /\ t[2] # Zero)
=============================================================================
