----------------------------- MODULE DeviceLoop -----------------------------
(***************************************************************************)
(* What a root graph promises: its stores and loads happen as if its       *)
(* iterations ran one after the other, each statement reading and writing  *)
(* exactly the tensor elements its subscripts name, those inside both the  *)
(* loops and the tensor: an element holds what the last statement that     *)
(* stores it stored.  An element read outside is zero.                     *)
(***************************************************************************)
EXTENDS KernelBody

VARIABLES kernel, outcome

\* Nothing observable yet, and the result of a kernel the compiler refuses.
Pending == [memory |-> <<>>, seen |-> <<>>]
Refusal == [memory |-> <<"refused">>, seen |-> <<>>]

TileBegin(k, i, b) == k.grid[b].begin + i[b] * k.grid[b].step

TileEnd(k, i, b) ==
  LET full == TileBegin(k, i, b) + k.grid[b].step
  IN  IF full < k.grid[b].end \/ k.grid[b].kind = "grid" THEN full ELSE k.grid[b].end

NestedBegin(k, i, q) == TileBegin(k, i, 1) + q * k.inner

\* The first element a subscript names, on trip q of the nested loop.
First(k, i, q, s) ==
  CASE s.form = "slice" -> 0
    [] s.form = "const" -> s.bias
    [] s.form = "tile" -> s.bias + IF s.block = 0 THEN NestedBegin(k, i, q)
                                                  ELSE TileBegin(k, i, s.block)
    [] s.form \in {"grid", "tile_begin"} -> TileBegin(k, i, s.block)
    [] s.form = "tile_id" -> TileBegin(k, i, s.block) \div k.grid[s.block].step
    [] s.form = "tile_end" -> TileEnd(k, i, s.block)

\* One past the last element it names inside its loops.
Past(k, i, q, s, extent) ==
  CASE s.form = "slice" -> extent
    [] s.form = "tile" /\ s.block # 0 -> s.bias + TileEnd(k, i, s.block)
    [] s.form = "tile" /\ s.block = 0 ->
         s.bias + LeastOf(NestedBegin(k, i, q) + k.inner, TileEnd(k, i, 1))
    [] OTHER -> First(k, i, q, s) + 1

Width(k, s, extent) ==
  CASE s.form = "slice" -> extent
    [] s.form = "tile" /\ s.block = 0 -> k.inner
    [] s.form = "tile" /\ s.block # 0 -> TileExtent(k.grid[s.block])
    [] OTHER -> 1

\* Every statement of every iteration, and the program's order of them.
Trips(k, i) ==
  IF k.nested = <<>> THEN 0 ELSE CeilDiv(TileEnd(k, i, 1) - TileBegin(k, i, 1), k.inner)

Length(k, i) == Len(k.outer) + Trips(k, i) * Len(k.nested)

Events(k) ==
  UNION {{[iteration |-> i, at |-> p] : p \in 1..Length(k, i)} : i \in Iterations(k)}

Before(e, f) ==
  \/ Precedes(e.iteration, f.iteration)
  \/ e.iteration = f.iteration /\ e.at < f.at

Earlier(k, e) == {f \in Events(k) : Before(f, e)}

LastOf(events) == CHOOSE e \in events : \A f \in events \ {e} : Before(f, e)

-----------------------------------------------------------------------------
\* The elements an event names, as far as they exist.
AccessOf(k, e) == StatementAt(k, e.at)

Dims(k, e) == 1..Rank(k, AccessOf(k, e).tensor)

FirstOf(k, e, d) ==
  First(k, e.iteration, NestedTripAt(k, e.at), SubscriptOf(AccessOf(k, e), d))

EndOf(k, e, d) ==
  LET extent == k.shape[AccessOf(k, e).tensor][d]
  IN  LeastOf(Past(k, e.iteration, NestedTripAt(k, e.at), SubscriptOf(AccessOf(k, e), d), extent),
              extent)

Names(k, e, c) == \A d \in Dims(k, e) : FirstOf(k, e, d) <= c[d] /\ c[d] < EndOf(k, e, d)

\* What an element holds after some events: the stamp of the last that stored it.
Stores(k, events, n, c) ==
  {e \in events : /\ AccessOf(k, e).op = "store" /\ AccessOf(k, e).tensor = n
                  /\ Names(k, e, c)}

Stamp(k, e, c) == <<e.iteration, e.at, [d \in Dims(k, e) |-> c[d] - FirstOf(k, e, d)]>>

Stored(k, events, n, c) ==
  LET stores == Stores(k, events, n, c)
  IN  IF stores = {} THEN Old(n, c) ELSE Stamp(k, LastOf(stores), c)

\* The tile a load takes, of what the earlier statements left.
Tile(k, e) ==
  [d \in Dims(k, e) |-> Width(k, SubscriptOf(AccessOf(k, e), d),
                                 k.shape[AccessOf(k, e).tensor][d])]

ElementAt(k, e, c) == [d \in Dims(k, e) |-> FirstOf(k, e, d) + c[d]]

Loaded(k, e) ==
  [c \in Cells(Tile(k, e)) |->
     IF Names(k, e, ElementAt(k, e, c))
     THEN Stored(k, Earlier(k, e), AccessOf(k, e).tensor, ElementAt(k, e, c))
     ELSE Zero]

Loads(k, i) == {p \in 1..Length(k, i) : StatementAt(k, p).op = "load"}

Sequential(k) ==
  [memory |-> [n \in Tensors(k) |->
                 [c \in Cells(k.shape[n]) |-> Stored(k, Events(k), n, c)]],
   seen |-> [i \in Iterations(k) |->
               [p \in Loads(k, i) |-> Loaded(k, [iteration |-> i, at |-> p])]]]

\* A shift below zero may name elements before the tensor: it may be refused.
ShiftsDown(k) ==
  \E n \in Tensors(k), d \in 1..MaxRank : \E a \in Accesses(k, n) : SubscriptOf(a, d).bias < 0

Init == outcome = Pending

Complete ==
  /\ outcome = Pending
  /\ \/ outcome' = Sequential(kernel)
     \/ ShiftsDown(kernel) /\ outcome' = Refusal
  /\ UNCHANGED kernel

Spec == Init /\ [][Complete]_<<kernel, outcome>>
=============================================================================
