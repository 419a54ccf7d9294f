-------------------------- MODULE MCGraphLowering --------------------------
(* Instances of GraphLowering: loop bodies around one contraction, einsums, *)
(* combine functions and updates of carried values.                         *)
EXTENDS GraphLowering

N(op, args, shape, elem, info) == [op |-> op, args |-> args, shape |-> shape, elem |-> elem, info |-> info]

S(sizes) == [d \in DOMAIN sizes |-> Static(sizes[d])]
Sym(s) == <<"symbol", s>>

(* The runtime extent of every symbol, and whether MLIR knows it.           *)
SizeOf == [k |-> 3, m |-> 2]
Extents1(shape) == [d \in DOMAIN shape |-> IF shape[d][1] = "static" THEN shape[d][2] ELSE SizeOf[shape[d][2]]]

Given(shape, n) == [shape |-> Extents1(shape), data |-> [o \in 1 .. Product(Extents1(shape)) |-> ((o * (n + 1)) % 7) - 2]]

Kernel(nodes, carried, types, taken) ==
  LET inputs == {n \in DOMAIN nodes : nodes[n].op = "placeholder"}
  IN  [graph |-> nodes, types |-> types, carried |-> carried,
       envs |-> {[args |-> [n \in 1 .. Cardinality(inputs) |-> Given(nodes[n].shape, n)], taken |-> t] :
                   t \in taken}]

Known == [k |-> 3, m |-> 2]
Unknown == [k |-> Dyn, m |-> Dyn]

In(shape, elem, n) == N("placeholder", <<>>, shape, elem, n)

(***************************************************************************)
(* acc, A and B; A and B transposed or not; a contraction of them; what is  *)
(* done with it.                                                            *)
Times(n, shape, elem) == N("mul", <<n, 0>>, shape, elem, 0)

Around(ta, tb, how, elem, accElem, accShape, extra) ==
  LET r == S(<<2, 2>>)
      A == IF ta THEN <<In(S(<<3, 2>>), elem, 1), N("permute", <<1>>, S(<<2, 3>>), elem, <<2, 1>>)>>
           ELSE <<In(S(<<2, 3>>), elem, 1), Times(1, S(<<2, 3>>), elem)>>
      B == IF tb THEN <<In(S(<<2, 3>>), elem, 2), N("permute", <<2>>, S(<<3, 2>>), elem, <<2, 1>>)>>
           ELSE <<In(S(<<3, 2>>), elem, 2), Times(2, S(<<3, 2>>), elem)>>
      mm == N("mm", <<4, 5>>, r, elem, 0)
      einsum == N("torch.einsum", <<4, 5>>, r, elem, Matmul(2))
      scaled == Times(6, r, accElem)
      Add(x, y) == N("add", <<x, y>>, r, accElem, 1)
      made == CASE how = "alone" -> <<mm, scaled>>
                [] how = "add" -> <<mm, Add(3, 6)>>
                [] how = "add to" -> <<mm, Add(6, 3)>>
                [] how = "add literal" -> <<mm, Add(6, 0)>>
                [] how = "subtract" -> <<mm, N("add", <<3, 6>>, r, accElem, -1)>>
                [] how = "addmm" -> <<N("addmm", <<3, 4, 5>>, r, accElem, [beta |-> 1, alpha |-> 1]), scaled>>
                [] how = "addmm scaled" ->
                     <<N("addmm", <<3, 4, 5>>, r, accElem, [beta |-> 1, alpha |-> 2]), scaled>>
                [] how = "dot" -> <<N("dot", <<4, 5>>, r, accElem, "none"), Add(3, 6)>>
                [] how = "dot acc" -> <<N("dot", <<4, 5, 3>>, r, accElem, "none"), scaled>>
                [] how = "dot out" -> <<N("dot", <<4, 5, 3>>, r, accElem, "f16"), scaled>>
                [] how = "einsum" -> <<einsum, scaled>>
                [] how = "einsum add" -> <<einsum, Add(3, 6)>>
                [] how = "add twice" -> <<mm, Add(6, 6)>>
                [] how = "addmm add" ->
                     <<N("addmm", <<3, 4, 5>>, r, accElem, [beta |-> 1, alpha |-> 1]), Add(3, 6)>>
      results == CASE extra = "none" -> <<7>>
                   [] extra = "transpose" -> <<7, 4>>
                   [] extra = "contraction" -> <<7, 6>>
  IN  Kernel(<<A[1], B[1], In(accShape, accElem, 3), A[2], B[2]>> \o made
               \o <<N("output", results, r, accElem, 0)>>,
             IF accShape = r THEN <<3>> ELSE <<>>, Known, {TRUE})

Hows == {"alone", "add", "add to", "add literal", "subtract", "addmm", "addmm scaled", "dot", "dot acc",
         "dot out", "einsum", "einsum add", "add twice", "addmm add"}

Contractions1 ==
  {Around(ta, tb, how, "f32", "f32", shape, extra) :
     ta \in BOOLEAN, tb \in BOOLEAN, how \in Hows, shape \in {S(<<2, 2>>), S(<<1, 2>>), S(<<2>>)},
     extra \in {"none", "transpose", "contraction"}}
  \cup {Around(FALSE, TRUE, how, e[1], e[2], S(<<2, 2>>), "none") :
          how \in Hows, e \in {<<"bf16", "f32">>, <<"bf16", "bf16">>, <<"i8", "i32">>, <<"f32", "bf16">>}}

(* Nodes that read the transpose they fold, sums of two contractions, other *)
(* ranks, and transposes that are packs.                                    *)
Square(nodes, results) ==
  Kernel(<<In(S(<<2, 2>>), "f32", 1), In(S(<<2, 2>>), "f32", 2), In(S(<<2, 2>>), "f32", 3),
           N("permute", <<1>>, S(<<2, 2>>), "f32", <<2, 1>>)>> \o nodes
           \o <<N("output", results, S(<<2, 2>>), "f32", 0)>>, <<3>>, Known, {TRUE})

Mm(x, y) == N("mm", <<x, y>>, S(<<2, 2>>), "f32", 0)
Add2(x, y) == N("add", <<x, y>>, S(<<2, 2>>), "f32", 1)

(* t is transposed and then both multiplied and added to: addmm(t, t, b).   *)
IntoTranspose == Square(<<N("addmm", <<4, 4, 2>>, S(<<2, 2>>), "f32", [beta |-> 1, alpha |-> 1])>>, <<5>>)

(* tile.begin + a @ b.                                                      *)
ScalarPlusProduct ==
  Kernel(<<In(S(<<2, 2>>), "f32", 1), In(S(<<2, 2>>), "f32", 2), In(<<>>, "index", 3), Mm(1, 2), Add2(3, 4),
           N("output", <<5>>, S(<<2, 2>>), "f32", 0)>>, <<>>, Known, {TRUE})

Squares ==
  {Square(<<Mm(4, 4), Add2(3, 5)>>, <<6>>),
   Square(<<Mm(4, 2), Mm(2, 4), Add2(5, 6)>>, <<7>>),
   Square(<<Mm(4, 2), Mm(2, 3), Add2(5, 6), Add2(3, 7)>>, <<8>>),
   Square(<<Mm(4, 2), Add2(3, 5), Mm(2, 6), Add2(6, 7)>>, <<8>>),
   Square(<<Mm(4, 2), Add2(4, 5)>>, <<6>>),
   Square(<<Mm(4, 2), Mm(5, 2), Add2(3, 6)>>, <<7>>),
   Square(<<Mm(4, 2), Add2(3, 5), Mm(1, 2), Add2(6, 7)>>, <<8>>),
   Square(<<N("permute", <<4>>, S(<<2, 2>>), "f32", <<2, 1>>), Mm(5, 2)>>, <<6>>),
   Square(<<N("addmm", <<3, 4, 4>>, S(<<2, 2>>), "f32", [beta |-> 1, alpha |-> 1])>>, <<5>>),
   Square(<<N("dot", <<4, 2, 4>>, S(<<2, 2>>), "f32", "none"), Add2(4, 5)>>, <<6>>),
   IntoTranspose, ScalarPlusProduct}

Ranks ==
  {Kernel(<<In(S(<<2, 3, 2>>), "bf16", 1), In(S(<<2, 2, 2>>), "bf16", 2),
            N("permute", <<1>>, S(<<2, 2, 3>>), "bf16", <<1, 3, 2>>),
            N("permute", <<1>>, S(<<3, 2, 2>>), "bf16", <<2, 1, 3>>),
            N("mm", <<1, 2>>, S(<<2, 3, 2>>), "bf16", 0), N("permute", <<2>>, S(<<2, 2, 2>>), "bf16", <<1, 3, 2>>),
            N("mm", <<1, 6>>, S(<<2, 3, 2>>), "bf16", 0),
            N("torch.einsum", <<1, 6>>, S(<<3, 2>>), "bf16", Equation(<<<<1, 2, 3>>, <<1, 4, 3>>>>, <<2, 4>>)),
            N("torch.einsum", <<3, 6>>, S(<<2, 3>>), "bf16", Equation(<<<<1, 3, 2>>, <<1, 4, 3>>>>, <<4, 2>>)),
            N("output", <<5, 7, 8, 9>>, S(<<2, 3, 2>>), "bf16", 0)>>, <<>>, Known, {TRUE}),
   Kernel(<<In(S(<<2, 3>>), "f32", 1), In(S(<<3>>), "f32", 2), N("mm", <<1, 2>>, S(<<2>>), "f32", 0),
            N("output", <<3>>, S(<<2>>), "f32", 0)>>, <<>>, Known, {TRUE}),
   Kernel(<<In(S(<<2, 2, 3>>), "f32", 1), In(S(<<3, 2>>), "f32", 2), N("mm", <<1, 2>>, S(<<2, 2, 2>>), "f32", 0),
            N("dot", <<1, 2>>, S(<<2, 2, 2>>), "f32", "none"),
            N("output", <<3>>, S(<<2>>), "f32", 0)>>, <<>>, Known, {TRUE})}

(***************************************************************************)
Einsum(shapes, elems, eq, out, types) ==
  Kernel([k \in DOMAIN shapes |-> In(shapes[k], elems[k], k)]
           \o <<N("torch.einsum", [k \in DOMAIN shapes |-> k], out, elems[1], eq),
                N("output", <<Len(shapes) + 1>>, out, elems[1], 0)>>, <<>>, types, {TRUE})

Pairs ==
  {<<Equation(<<<<1, 2>>, <<2, 3>>>>, <<1, 3>>), <<2, 3>>, <<3, 2>>, <<2, 2>>>>,
   <<Equation(<<<<1, 2>>, <<2, 3>>>>, <<3, 1>>), <<2, 3>>, <<3, 4>>, <<4, 2>>>>,
   <<[ins |-> <<<<3, 2>>, <<2, 1>>>>, arrow |-> FALSE, out |-> <<>>], <<2, 3>>, <<3, 4>>, <<4, 2>>>>,
   <<Equation(<<<<1, 2>>, <<1, 2>>>>, <<1, 2>>), <<2, 3>>, <<2, 3>>, <<2, 3>>>>,
   <<Equation(<<<<1, 2>>, <<1, 2>>>>, <<>>), <<2, 3>>, <<2, 3>>, <<>>>>,
   <<Equation(<<<<1, 2>>, <<2, 1>>>>, <<2>>), <<2, 3>>, <<3, 2>>, <<3>>>>,
   <<Equation(<<<<1, 2>>, <<3>>>>, <<1, 3>>), <<2, 3>>, <<2>>, <<2, 2>>>>,
   <<Equation(<<<<1, 1>>, <<1, 2>>>>, <<1, 2>>), <<2, 2>>, <<2, 3>>, <<2, 3>>>>,
   <<Equation(<<<<1, 2>>, <<2, 3>>>>, <<1, 3>>), <<2, 1>>, <<3, 2>>, <<2, 2>>>>,
   <<Equation(<<<<1, 2>>, <<1, 2>>>>, <<1>>), <<2, 3>>, <<1, 3>>, <<2>>>>,
   <<Equation(<<<<1, 2, 3>>, <<3, 4>>>>, <<1, 2, 4>>), <<2, 2, 3>>, <<3, 2>>, <<2, 2, 2>>>>,
   <<Equation(<<<<0, 1, 2>>, <<2, 3>>>>, <<0, 1, 3>>), <<2, 2, 3>>, <<3, 2>>, <<2, 2, 2>>>>,
   <<Equation(<<<<1, 2, 3>>, <<1, 3, 2>>>>, <<1>>), <<2, 2, 3>>, <<2, 3, 2>>, <<2>>>>}

Einsums ==
  {Einsum(<<S(p[2]), S(p[3])>>, <<"f32", "f32">>, p[1], S(p[4]), Known) : p \in Pairs}
  \cup {Einsum(<<S(<<2, 3>>)>>, <<"f32">>, Equation(<<<<1, 2>>>>, <<2, 1>>), S(<<3, 2>>), Known),
        Einsum(<<S(<<2, 3>>), S(<<3, 2>>), S(<<2, 2>>)>>, <<"f32", "f32", "f32">>,
               Equation(<<<<1, 2>>, <<2, 3>>, <<3, 4>>>>, <<1, 4>>), S(<<2, 2>>), Known),
        Einsum(<<S(<<2, 3>>), S(<<3, 2>>)>>, <<"f32", "bf16">>, Matmul(2), S(<<2, 2>>), Known)}
  \cup {Einsum(<<<<Sym("m"), left>>, <<right, Static(2)>>>>, <<"bf16", "bf16">>, Matmul(2),
               <<Sym("m"), Static(2)>>, types) :
          left \in {Sym("k"), Static(3), Static(1)}, right \in {Sym("k"), Static(3), Static(1)},
          types \in {Known, Unknown}}

(***************************************************************************)
Combine(op, args, nodes) == [op |-> op, args |-> args, nodes |-> nodes, alpha |-> 1]

Combines == {Combine("add", <<1, 2>>, 4), Combine("max", <<2, 1>>, 4), Combine("mul", <<1, 2>>, 4),
             Combine("max", <<1, 1>>, 4), Combine("first", <<1, 2>>, 3), Combine("first", <<2, 1>>, 3),
             Combine("add", <<1, 0>>, 4), Combine("add", <<2, 3>>, 5),
             [Combine("add", <<1, 2>>, 4) EXCEPT !.alpha = 2]}

Combined1(op, elem, shape, info) ==
  LET dim == IF info.dim < 0 THEN Len(shape) + info.dim + 1 ELSE info.dim
      out == IF op = "scan" THEN shape
             ELSE IF info.keep THEN [shape EXCEPT ![dim] = 1] ELSE Without(shape, dim)
  IN  Kernel(<<In(S(shape), elem, 1), N(op, <<1>>, S(out), elem, info), N("output", <<2>>, S(out), elem, 0)>>,
             <<>>, Known, {TRUE})

Reductions ==
  {Combined1("reduce", elem, shape, [combine |-> c, dim |-> dim, keep |-> keep]) :
     elem \in {"f32", "i8"}, shape \in {<<2, 3>>, <<3, 1>>}, c \in Combines, dim \in {1, 2, -1}, keep \in BOOLEAN}
  \cup {Combined1("scan", "f32", shape, [combine |-> c, dim |-> dim, reverse |-> reverse]) :
     shape \in {<<2, 3>>, <<3, 1>>}, c \in Combines, dim \in {1, -1}, reverse \in BOOLEAN}

(***************************************************************************)
(* Two carried values of two rows, x and y to update them with.             *)
Body2(nodes, results) ==
  Kernel(<<In(S(<<2, 2>>), "f32", 1), In(S(<<2, 2>>), "f32", 2), In(S(<<2, 2>>), "f32", 3),
           In(S(<<2, 2, 3>>), "f32", 4)>> \o nodes
           \o <<N("output", results, S(<<2, 2>>), "f32", 0)>>, <<1, 2>>, Known, BOOLEAN)

E2(op, x, y) == N(op, <<x, y>>, S(<<2, 2>>), "f32", IF op = "add" THEN 1 ELSE 0)
Sum4 == N("sum", <<4>>, S(<<2, 2>>), "f32", 3)
Swap(n) == N("permute", <<n>>, S(<<2, 2>>), "f32", <<2, 1>>)

Bodies ==
  {Body2(<<E2("mul", 1, 3), E2("max", 3, 2)>>, <<5, 6>>),
   Body2(<<E2("mul", 1, 3), E2("add", 2, 5)>>, <<5, 6>>),
   Body2(<<E2("mul", 2, 3), E2("mul", 1, 3)>>, <<5, 6>>),
   Body2(<<E2("mul", 1, 2)>>, <<5, 5>>),
   Body2(<<E2("add", 1, 1), Swap(2), E2("max", 2, 6)>>, <<5, 7>>),
   Body2(<<Swap(1), E2("mul", 5, 3), E2("add", 2, 0)>>, <<6, 7>>),
   Body2(<<Sum4, E2("add", 1, 5), E2("add", 5, 2)>>, <<6, 7>>),
   Body2(<<Sum4, E2("add", 5, 1)>>, <<6, 2>>),
   Body2(<<Sum4, E2("add", 1, 5)>>, <<6, 5>>),
   Body2(<<Sum4, E2("add", 1, 5), E2("mul", 6, 2)>>, <<6, 7>>),
   Body2(<<Sum4, E2("max", 1, 5), E2("mul", 2, 3)>>, <<6, 7>>),
   Body2(<<Sum4, E2("add", 3, 5), E2("add", 6, 2)>>, <<6, 7>>),
   Body2(<<E2("mul", 1, 3), E2("add", 5, 1)>>, <<6, 2>>),
   Body2(<<E2("mul", 1, 3), Mm(2, 3), Add2(5, 6)>>, <<7, 2>>),
   Body2(<<E2("mul", 1, 3), Mm(1, 3), Add2(6, 5)>>, <<7, 2>>),
   Body2(<<E2("rescale", 1, 3), Mm(2, 3), Add2(5, 6), Mm(1, 3), Add2(7, 8)>>, <<9, 2>>),
   Body2(<<E2("rescale", 1, 3), E2("rescale", 2, 1), Mm(1, 2), Add2(6, 7)>>, <<5, 8>>),
   Body2(<<Mm(1, 3), Add2(2, 5), Add2(1, 6)>>, <<7, 6>>),
   Body2(<<N("reduce", <<4>>, S(<<2, 2>>), "f32", [combine |-> Combine("max", <<1, 2>>, 4), dim |-> 3, keep |-> FALSE]),
           E2("max", 1, 5), N("scan", <<3>>, S(<<2, 2>>), "f32", [combine |-> Combine("add", <<1, 2>>, 4), dim |-> 2, reverse |-> FALSE]),
           E2("add", 2, 7)>>, <<6, 8>>)}

MCKernels == Contractions1 \cup Squares \cup Ranks \cup Einsums \cup Reductions \cup Bodies
=============================================================================
