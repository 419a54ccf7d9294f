-------------------------- MODULE MCTensorThreading --------------------------
(***************************************************************************)
(* Programs over two tensors x and y and a reshape v of x: every construct *)
(* with every short body, each inside another one, after a store and       *)
(* before a load; and several roots and phases.                            *)
(***************************************************************************)
EXTENDS TensorThreading

S(do) == <<[do |-> do, of |-> "none"]>>
Ld(n) == <<[do |-> "load", of |-> n]>>
St(n) == <<[do |-> "store", of |-> n]>>

Root(b) == S("root") \o b \o S("end")
For(b) == S("for") \o b \o S("end")
If(a, b) == S("if") \o a \o S("else") \o b \o S("end")
While(c, b) == S("while") \o c \o S("do") \o b \o S("end")

Short == {<<>>, St("x"), St("y"), Ld("x") \o St("x")}

Constructs ==
  {For(b) : b \in Short} \union {If(a, b) : a, b \in Short} \union {While(c, b) : c, b \in Short}

Around(c) == {For(c), If(c, Ld("x")), If(St("x"), c), While(St("y"), c), While(c, <<>>)}

NestedPrograms ==
  {<<Root(St("x") \o b \o Ld("x") \o Ld("y"))>> : b \in UNION {Around(c) : c \in Constructs}}

\* A view of x is only loaded in phases that do not store x.
PhasedPrograms ==
  {<<Root(a) \o Root(b), Root(c \o Ld("v")), Root(Ld("v") \o Ld("x") \o d)>> :
     a, b \in Short, c, d \in {<<>>, St("y"), Ld("y")}}

MCPrograms == NestedPrograms \union PhasedPrograms

Views == [v |-> "x"]

-----------------------------------------------------------------------------
\* x is stored and then loaded through the view, in one iteration.
ViewPrograms == {<<Root(b \o Ld("v"))>> : b \in Constructs}
=============================================================================
