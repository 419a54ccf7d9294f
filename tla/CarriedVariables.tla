--------------------------- MODULE CarriedVariables ---------------------------
(***************************************************************************)
(* The variables of a kernel's body that loops, whiles and ifs assign.     *)
(*                                                                         *)
(* Helion traces a body into graphs in which a variable is no more than    *)
(* the node that holds it: a construct takes nodes and returns outputs,    *)
(* and the lowering works out from the nodes around it which of the        *)
(* construct's inputs each output is the next value of.  A traced body is  *)
(* lowered one node after the other, every construct with the meaning of   *)
(* the scf operation it becomes.  A value is the term that computed it.    *)
(* ControlFlow composes this with the tensors that are threaded along.     *)
(***************************************************************************)
EXTENDS Naturals, Sequences, SequencesExt

CONSTANTS
  CopiesAliases,  \* whether Helion makes a node of its own for `y = x`
  MaxTrips        \* bound on the trips of a while

RECURSIVE Mentioned(_), Depth(_), Meaning(_, _), Again(_, _, _), Traced(_, _, _, _),
          LowerSubgraph(_, _, _), EmitLevel(_, _, _), LowerTrip(_, _, _)

\* The variables of statements; a statement is [do, var, fn, of, trips, body, other].
Mentioned(body) ==
  UNION {{s.var} \union ToSet(s.of) \union Mentioned(s.body) \union Mentioned(s.other) :
           s \in ToSet(body)}

\* What conditions depend on: the operations, one on the other, that made a value.
Depth(term) == 1 + Max({0} \union {Depth(term[i]) : i \in 2..Len(term)})
Taken(term) == IF Depth(term) % 2 = 0 THEN 1 ELSE 2

-----------------------------------------------------------------------------
(***************************************************************************)
(* The kernel: its variables are assigned.                                 *)
(***************************************************************************)
Term(fn, operands) == <<fn>> \o operands
Read(env, names) == [i \in DOMAIN names |-> env[names[i]]]
Trips(levels) == FoldLeft(LAMBDA a, b : a * b, 1, levels)

Again(s, env, trips) ==
  IF trips = 0 \/ (s.do = "while" /\ Depth(Term(s.fn, Read(env, s.of))) >= s.trips[1]) THEN env
  ELSE LET after == Meaning(s.body, env)
       IN  Again(s, [n \in DOMAIN env |-> after[n]], trips - 1)

Means(env, s) ==
  CASE s.do = "set" -> (s.var :> Term(s.fn, Read(env, s.of))) @@ env
    [] s.do = "copy" -> (s.var :> env[s.of[1]]) @@ env
    [] s.do = "for" -> Again(s, env, Trips(s.trips))
    [] s.do = "while" -> Again(s, env, MaxTrips)
    [] s.do = "if" -> Meaning(IF Taken(env[s.of[1]]) = 1 THEN s.body ELSE s.other, env)

Meaning(body, env) == FoldLeft(Means, env, body)

-----------------------------------------------------------------------------
(***************************************************************************)
(* The graphs Helion makes of it.  A node is named by its place; tracing   *)
(* keeps the nodes so far, the node of every variable and the graphs of    *)
(* the constructs met.                                                     *)
(***************************************************************************)
Node(id, op, of, info) == [id |-> id, op |-> op, of |-> of, info |-> info]
Holding(names, ids) ==
  [n \in ToSet(names) |-> ids[CHOOSE i \in DOMAIN names : names[i] = n]]

\* The graph of a construct's body, started from a placeholder of each variable.
Subgraph(body, names, graph, order) ==
  LET params == [i \in DOMAIN names |-> graph \o <<0, i>>]
      fresh == [i \in DOMAIN names |-> Node(graph \o <<0, i, 0>>, "new_var", <<params[i]>>, 0)]
      before == Holding(names, [i \in DOMAIN names |-> fresh[i].id])
      t == Traced(body, [nodes |-> fresh, scope |-> before, graphs |-> <<>>], graph, order)
      assigned == SelectSeq(order, LAMBDA n : n \in DOMAIN t.scope /\
                                     ~(n \in DOMAIN before /\ before[n] = t.scope[n]))
  IN  [params |-> params, nodes |-> t.nodes, scope |-> t.scope, assigned |-> assigned,
       graphs |-> t.graphs]

Graph(g, outputs) == [params |-> g.params, nodes |-> g.nodes, outputs |-> Read(g.scope, outputs)]

\* Output i, and the node that makes it its variable's value; `width` is the
\* distance between an if's then-side and else-side outputs.
Item(id, i) == Node(id \o <<0, i>>, "item", <<id>>, i)
Phi(id, i, of) == Node(id \o <<0, i, 0>>, "phi", of, 0)

Extended(t, node, items, phis, names, graphs) ==
  [nodes |-> t.nodes \o <<node>> \o items \o phis,
   scope |-> Holding(names, [i \in DOMAIN names |-> phis[i].id]) @@ t.scope,
   graphs |-> graphs @@ t.graphs]

TraceLoop(t, s, id, order) ==
  LET names == SelectSeq(order, LAMBDA n :
                 n \in DOMAIN t.scope \intersect (ToSet(s.of) \union Mentioned(s.body)))
      body == Subgraph(s.body, names, id \o <<1>>, order)
      test == Subgraph(<<[s EXCEPT !.do = "set", !.var = "test"]>>, names, id \o <<2>>, order)
      carried == SelectSeq(body.assigned, LAMBDA n : n \in ToSet(names))
      items == [i \in DOMAIN carried |-> Item(id, i)]
      phis == [i \in DOMAIN carried |-> Phi(id, i, <<t.scope[carried[i]], items[i].id>>)]
      info == [levels |-> s.trips, orelse |-> s.other # <<>>]
      graphs == (id \o <<1>> :> Graph(body, carried)) @@ body.graphs @@
                (IF s.do = "while" THEN id \o <<2>> :> Graph(test, <<"test">>) ELSE <<>>)
  IN  Extended(t, Node(id, s.do, Read(t.scope, names), info), items, phis, carried, graphs)

\* An output of each side, or the name of the variable the side leaves alone.
TraceIf(t, s, id, order) ==
  LET Names(body) == SelectSeq(order, LAMBDA n : n \in DOMAIN t.scope \intersect Mentioned(body))
      names == <<Names(s.body), Names(s.other)>>
      sides == <<Subgraph(s.body, names[1], id \o <<1>>, order),
                 Subgraph(s.other, names[2], id \o <<2>>, order)>>
      merged == SelectSeq(order, LAMBDA n :
                  \/ n \in DOMAIN t.scope /\ \E k \in 1..2 : n \in ToSet(sides[k].assigned)
                  \/ \A k \in 1..2 : n \in ToSet(sides[k].assigned))
      Pick(k, n) == IF n \in ToSet(sides[k].assigned)
                    THEN [output |-> IndexFirstSubSeq(<<n>>, sides[k].assigned), name |-> n]
                    ELSE [output |-> 0, name |-> n]
      picks == [i \in DOMAIN merged |-> <<Pick(1, merged[i]), Pick(2, merged[i])>>]
      items == [i \in 1..(2 * Len(merged)) |-> Item(id, i)]
      phis == [i \in DOMAIN merged |-> Phi(id, i, <<items[i].id, items[i + Len(merged)].id>>)]
      info == [names |-> names, args |-> [k \in 1..2 |-> Read(t.scope, names[k])], picks |-> picks,
               tensor |-> s.fn = "tensor"]
      graphs == (id \o <<1>> :> Graph(sides[1], sides[1].assigned)) @@
                (id \o <<2>> :> Graph(sides[2], sides[2].assigned)) @@
                sides[1].graphs @@ sides[2].graphs
  IN  Extended(t, Node(id, "if", Read(t.scope, s.of), info), items, phis, merged, graphs)

\* `y = x` makes another name for x's node, or a copy of it.
Bound(t, s, node) ==
  [t EXCEPT !.nodes = Append(@, node), !.scope = (s.var :> node.id) @@ @]

TraceStatement(t, s, id, order) ==
  CASE s.do = "set" -> Bound(t, s, Node(id, "compute", Read(t.scope, s.of), s.fn))
    [] s.do = "copy" /\ CopiesAliases -> Bound(t, s, Node(id, "new_var", Read(t.scope, s.of), 0))
    [] s.do = "copy" /\ ~CopiesAliases -> [t EXCEPT !.scope = (s.var :> @[s.of[1]]) @@ @]
    [] s.do = "if" -> TraceIf(t, s, id, order)
    [] OTHER -> TraceLoop(t, s, id, order)

Traced(body, t, graph, order) ==
  FoldLeftDomain(LAMBDA acc, i : TraceStatement(acc, body[i], graph \o <<i>>, order), t, body)

Trace(p) == Traced(p.body, [nodes |-> <<>>, scope |-> <<>>, graphs |-> <<>>], <<1>>, p.order)

-----------------------------------------------------------------------------
(***************************************************************************)
(* The lowering of a construct.                                            *)
(***************************************************************************)
NoPosition == 0

\* The node a loop's output is merged with, where it is.
MergedWith(node, nodes, i) ==
  {nodes[k].of[1] : k \in {k \in DOMAIN nodes : nodes[k].op = "phi" /\
     \E j \in DOMAIN nodes : nodes[j] = Item(node.id, i) /\ nodes[k].of[2] = nodes[j].id}}

\* Mutant of CarriedPositions: the last inputs are the carried ones.
LastPositions(node, nodes, outputs) ==
  [i \in DOMAIN outputs |-> Len(node.of) - Len(outputs) + i]

CarriedPositions(node, nodes, outputs) ==
  LET Found(positions, i) ==
        LET start == IF positions = <<>> THEN 1 ELSE Last(positions) + 1
            found == {p \in start..Len(node.of) : node.of[p] \in MergedWith(node, nodes, i)}
        IN  Append(positions, IF found = {} THEN NoPosition ELSE Min(found))
  IN  FoldLeftDomain(Found, <<>>, outputs)

WithCarried(inputs, positions, carried) ==
  [p \in DOMAIN inputs |->
     IF p \in ToSet(positions) THEN carried[IndexFirstSubSeq(<<p>>, positions)] ELSE inputs[p]]

\* What the levels of a loop, or a while, are lowered with.
Loop(graphs, node, nodes, vals) ==
  LET inputs == Read(vals, node.of)
      positions == CarriedPositions(node, nodes, graphs[node.id \o <<1>>].outputs)
  IN  [graphs |-> graphs, id |-> node.id, trips |-> node.info.levels, inputs |-> inputs,
       positions |-> positions, inits |-> Read(inputs, positions)]

LowerBody(loop, k, carried) ==
  LowerSubgraph(loop.graphs, loop.id \o <<k>>, WithCarried(loop.inputs, loop.positions, carried))

EmitLevel(loop, level, carried) ==
  IF level > Len(loop.trips) THEN LowerBody(loop, 1, carried)
  ELSE FoldLeft(LAMBDA acc, trip : EmitLevel(loop, level + 1, acc), carried,
                [trip \in 1..loop.trips[level] |-> trip])

LowerTrip(loop, carried, trips) ==
  LET test == LowerBody(loop, 2, carried)[1]
  IN  IF trips > 0 /\ Depth(test) < loop.trips[1]
      THEN LowerTrip(loop, LowerBody(loop, 1, carried), trips - 1) ELSE carried

LowerFor(loop) == EmitLevel(loop, 1, loop.inits)
LowerWhile(loop) == LowerTrip(loop, loop.inits, MaxTrips)

LowerIf(graphs, node, vals) ==
  LET side == Taken(vals[node.of[1]])
      args == Read(vals, node.info.args[side])
      outer == Holding(node.info.names[2], node.info.args[2])
                 @@ Holding(node.info.names[1], node.info.args[1])
      outputs == LowerSubgraph(graphs, node.id \o <<side>>, args)
      Picked(pick) == IF pick.output = 0 THEN vals[outer[pick.name]] ELSE outputs[pick.output]
      results == [i \in DOMAIN node.info.picks |-> Picked(node.info.picks[i][side])]
  IN  results \o results

LowerNewVar(node, vals) == vals[node.of[1]]
LowerPhi(node, vals) == vals[node.of[2]]

\* The values after a node; those of a construct are all its results.
LowerNode(graphs, nodes, vals, node) ==
  node.id :> (CASE node.op = "compute" -> Term(node.info, Read(vals, node.of))
                [] node.op = "new_var" -> LowerNewVar(node, vals)
                [] node.op = "phi" -> LowerPhi(node, vals)
                [] node.op = "item" -> vals[node.of[1]][node.info]
                [] node.op = "if" -> LowerIf(graphs, node, vals)
                [] node.op = "for" -> LowerFor(Loop(graphs, node, nodes, vals))
                [] node.op = "while" -> LowerWhile(Loop(graphs, node, nodes, vals))) @@ vals

LowerSubgraph(graphs, g, inputs) ==
  LET graph == graphs[g]
      params == [id \in ToSet(graph.params) |-> inputs[IndexFirstSubSeq(<<id>>, graph.params)]]
  IN  Read(FoldLeft(LAMBDA vals, node : LowerNode(graphs, graph.nodes, vals, node),
                    params, graph.nodes),
           graph.outputs)

\* What raises: a condition of many elements, a while's else clause, and a loop
\* that updates something other than one of its inputs.
Refused(graphs, nodes, node) ==
  \/ node.op = "if" /\ node.info.tensor
  \/ node.op \in {"for", "while"} /\
       \/ node.info.orelse
       \/ NoPosition \in ToSet(CarriedPositions(node, nodes, graphs[node.id \o <<1>>].outputs))

Raises(t, node) ==
  \/ Refused(t.graphs, t.nodes, node)
  \/ \E g \in {g \in DOMAIN t.graphs : IsPrefix(node.id, g)} :
       \E i \in DOMAIN t.graphs[g].nodes : Refused(t.graphs, t.graphs[g].nodes, t.graphs[g].nodes[i])

-----------------------------------------------------------------------------
VARIABLES
  program,  \* [order: the variables, body: statements], fixed
  traced,   \* its graphs, fixed
  at,       \* the nodes lowered
  values,   \* node -> its value (BuildContext.node_to_value)
  refused   \* whether the lowering raised

vars == <<program, traced, at, values, refused>>

Init ==
  /\ traced = Trace(program)
  /\ at = 0
  /\ values = <<>>
  /\ refused = FALSE

More == ~refused /\ at < Len(traced.nodes)
Current == traced.nodes[at + 1]

Lower ==
  /\ More /\ ~Raises(traced, Current)
  /\ values' = LowerNode(traced.graphs, traced.nodes, values, Current)
  /\ at' = at + 1
  /\ UNCHANGED <<program, traced, refused>>

Refuse ==
  /\ More /\ Raises(traced, Current)
  /\ refused' = TRUE
  /\ UNCHANGED <<program, traced, at, values>>

Next == Lower \/ Refuse

-----------------------------------------------------------------------------
RECURSIVE Inexpressible(_)

\* Many conditions at once, or an else clause of a loop, anywhere in a body.
Inexpressible(body) ==
  \E s \in ToSet(body) :
    \/ s.do = "if" /\ s.fn = "tensor"
    \/ s.do = "while" /\ s.other # <<>>
    \/ Inexpressible(s.body) \/ Inexpressible(s.other)

\* After the body every variable has the value the kernel gives it, whatever loops,
\* branches and names it went through, and whether or not it is read again; and a body
\* is refused only for what scf cannot express, never because a variable a loop
\* assigns is not found among its inputs (control_flow.py, carried_positions, lower_if).
VariablesKept ==
  /\ at = Len(traced.nodes) =>
       LET env == Meaning(program.body, <<>>)
       IN  \A n \in DOMAIN traced.scope : values[traced.scope[n]] = env[n]
  /\ refused => Inexpressible(program.body)
=============================================================================
