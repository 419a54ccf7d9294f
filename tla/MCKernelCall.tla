---------------------------- MODULE MCKernelCall ----------------------------
(***************************************************************************)
(* Calls with two or three arguments over five cells: contiguous, strided, *)
(* broadcast and empty tensors that may overlap one another.               *)
(***************************************************************************)
EXTENDS KernelCall

T(start, size, stride) == [start |-> start, size |-> size, stride |-> stride]

Dense == {T(0, 2, 1), T(1, 2, 1), T(3, 2, 1), T(1, 0, 1)}
Strided == {T(0, 2, 2), T(1, 2, 2)}
Broadcast == {T(1, 2, 0)}

Static(value) == [kind |-> "static", value |-> value]
Symbol(s) == [kind |-> "symbol", of |-> s]
Half(s) == [kind |-> "half", of |-> s]

A(role, size, t) == [role |-> role, size |-> size, tensor |-> t]

\* An input, a written tensor and a second one or another input, anywhere.
OverlapCalls ==
  {<<A("in", Static(x.size), x), A("inout", Static(o.size), o)>> :
     x \in Dense \union Strided \union Broadcast, o \in Dense \union Strided}
  \union
  {<<A("inout", Static(o.size), o), A("in", Static(x.size), x), A("inout", Static(p.size), p)>> :
     o \in Dense \union Strided, x \in {T(0, 2, 1), T(2, 1, 1), T(1, 2, 2)},
     p \in {T(2, 1, 1), T(3, 2, 1), T(2, 2, 2)}}

\* Sizes known when the kernel runs: equal for one symbol, half where computed.
SizeCalls ==
  {<<A("in", x, T(0, xs, 1)), A("in", y, T(2, ys, 1)), A("inout", o, T(4, os, 1))>> :
     x \in {Static(1), Symbol("n"), Half("n")}, y \in {Symbol("n"), Symbol("m")},
     o \in {Symbol("n"), Half("n"), Half("m")},
     xs, ys \in 0..2, os \in 0..1}

\* A written tensor that repeats one cell, next to one that does not.
BroadcastCalls ==
  {<<A("in", Static(x.size), x), A("inout", Static(2), T(3, 2, 1)), A("inout", Static(2), o)>> :
     x \in Dense \union Strided, o \in Broadcast}

MCCalls == OverlapCalls \union SizeCalls \union BroadcastCalls

MCCells == 0..4
=============================================================================
