----------------------------- MODULE SizeValues -----------------------------
(***************************************************************************)
(* The size values of the functions of a module.  A size is an expression  *)
(* over size symbols; its value is emitted once per function, among the    *)
(* first operations of the entry block, while body operations are appended *)
(* at its end.                                                             *)
(*                                                                         *)
(* Emitting a size recurses into its arguments: every level of the         *)
(* recursion is a frame with an insertion point of its own, chosen when    *)
(* the level begins and kept while deeper levels insert operations.        *)
(***************************************************************************)
EXTENDS Naturals, Sequences, FiniteSets, SequencesExt

CONSTANTS
  Sizes,      \* size -> its arguments: "int", or another size; none for a symbol
  Provided,   \* one set per function: the sizes a tensor or scalar of it has
  MaxBody     \* bound on the body operations of a function

ASSUME SizesAssumption ==
  /\ \A s \in DOMAIN Sizes : Sizes[s] \in Seq({"int"} \union DOMAIN Sizes)
  /\ DOMAIN Sizes \intersect {"int", "setup", "body"} = {}
  /\ Provided \in Seq(SUBSET DOMAIN Sizes) /\ Len(Provided) > 0
  /\ MaxBody \in Nat

VARIABLES
  function,   \* the function being built
  block,      \* its entry block: operations in order
  setup,      \* length of the prefix that new sizes go after
  anchor,     \* the operation new sizes go before, or NoOp
  values,     \* size -> the operation whose result it is
  frames,     \* the levels of the recursion under way, innermost last
  fresh,      \* the next operation's identity
  raised      \* a size that nothing provides was asked for

sizeVars == <<function, block, setup, anchor, values, frames, fresh, raised>>

NoOp == 0
AtEnd == 0

\* An operation: what it computes (a size, "int", "setup" or "body") and the
\* operations it uses, those in its regions included.
Op(id, of, uses) == [id |-> id, of |-> of, uses |-> uses]

NoValues == [s \in {} |-> NoOp]

\* A phase function starts by extracting its runtime scalars.
Setup(id) == <<Op(id, "setup", {})>>

SizesInit ==
  /\ function = 1
  /\ block = Setup(1)
  /\ setup = 1
  /\ anchor = NoOp
  /\ values = NoValues
  /\ frames = <<>>
  /\ fresh = 2
  /\ raised = FALSE

BeginFunction ==
  /\ frames = <<>> /\ ~raised /\ function < Len(Provided)
  /\ function' = function + 1
  /\ block' = Setup(fresh)
  /\ setup' = 1
  /\ anchor' = NoOp
  /\ values' = NoValues
  /\ fresh' = fresh + 1
  /\ UNCHANGED <<frames, raised>>

(***************************************************************************)
(* A level begins: it inserts at the end while only sizes have been added  *)
(* since the setup, and otherwise before the first operation after it,     *)
(* which every later level then uses.                                      *)
(***************************************************************************)
\* Mutant of Place: sizes are appended like any other operation.
PlaceAtEnd == AtEnd

Place ==
  IF anchor # NoOp THEN anchor
  ELSE IF Len(block) = setup THEN AtEnd ELSE block[setup + 1].id

Enter(s, below) ==
  /\ frames' = Append(below, [size |-> s, at |-> Place, left |-> Sizes[s], operands |-> {}])
  /\ anchor' = IF Place = AtEnd THEN anchor ELSE Place

Insert(at, op) ==
  IF at = AtEnd THEN Append(block, op)
  ELSE InsertAt(block, CHOOSE i \in DOMAIN block : block[i].id = at, op)

Top == Last(frames)

\* The argument is in hand: the level goes on to the next.
WithOperand(frame, id) ==
  [frame EXCEPT !.left = Tail(@), !.operands = @ \union {id}]

Known(s) == s \in DOMAIN values

\* The body asks for a size it has not asked for.
Request(s) ==
  /\ frames = <<>> /\ ~raised
  /\ ~Known(s)
  /\ Enter(s, <<>>)
  /\ UNCHANGED <<function, block, setup, values, fresh, raised>>

IsProvided(frame) == frame.size \in Provided[function]

IntegerArgument ==
  /\ frames # <<>> /\ ~raised /\ ~IsProvided(Top)
  /\ Top.left # <<>> /\ Head(Top.left) = "int"
  /\ block' = Insert(Top.at, Op(fresh, "int", {}))
  /\ frames' = Append(Front(frames), WithOperand(Top, fresh))
  /\ fresh' = fresh + 1
  /\ UNCHANGED <<function, setup, anchor, values, raised>>

SizeArgument ==
  /\ frames # <<>> /\ ~raised /\ ~IsProvided(Top)
  /\ Top.left # <<>> /\ Head(Top.left) # "int"
  /\ LET s == Head(Top.left)
     IN  IF Known(s)
         THEN /\ frames' = Append(Front(frames), WithOperand(Top, values[s]))
              /\ UNCHANGED anchor
         ELSE Enter(s, frames)
  /\ UNCHANGED <<function, block, setup, values, fresh, raised>>

\* Mutants of SetupAfter: sizes added at the end do not count as setup, or one
\* operation too many does.
SetupBefore == setup

SetupPastEnd == IF anchor = NoOp THEN Len(block) + 2 ELSE setup

SetupAfter == IF anchor = NoOp THEN Len(block) + 1 ELSE setup

(***************************************************************************)
(* A size that is provided is the dim of a tensor or a scalar; another is  *)
(* the arithmetic of its arguments.  Its value is known from then on.      *)
(***************************************************************************)
Emit ==
  /\ frames # <<>> /\ ~raised
  /\ \/ IsProvided(Top)
     \/ Top.left = <<>> /\ Top.operands # {}
  /\ block' = Insert(Top.at, Op(fresh, Top.size, Top.operands))
  /\ values' = [s \in DOMAIN values \union {Top.size} |->
       IF s = Top.size THEN fresh ELSE values[s]]
  /\ setup' = SetupAfter
  /\ frames' = IF Len(frames) = 1 THEN <<>>
               ELSE LET below == Front(frames)
                    IN  Append(Front(below), WithOperand(Last(below), fresh))
  /\ fresh' = fresh + 1
  /\ UNCHANGED <<function, anchor, raised>>

\* A symbol that no tensor and no scalar of the function has: DynamicShapeError.
NothingProvides ==
  /\ frames # <<>> /\ ~raised /\ ~IsProvided(Top)
  /\ Top.left = <<>> /\ Top.operands = {}
  /\ raised' = TRUE
  /\ UNCHANGED <<function, block, setup, anchor, values, frames, fresh>>

BodyOps == {i \in DOMAIN block : block[i].of = "body"}

\* The body appends an operation; while it is the last one, its regions are built.
AppendBody ==
  /\ frames = <<>> /\ ~raised
  /\ Cardinality(BodyOps) < MaxBody
  /\ block' = Append(block, Op(fresh, "body", {}))
  /\ fresh' = fresh + 1
  /\ UNCHANGED <<function, setup, anchor, values, frames, raised>>

UseInBody(s) ==
  /\ frames = <<>> /\ ~raised
  /\ Known(s)
  /\ Last(block).of = "body"
  /\ block' = [block EXCEPT ![Len(block)].uses = @ \union {values[s]}]
  /\ UNCHANGED <<function, setup, anchor, values, frames, fresh, raised>>

SizesTerminated == raised /\ UNCHANGED sizeVars

SizesNext ==
  \/ BeginFunction \/ IntegerArgument \/ SizeArgument \/ Emit \/ NothingProvides
  \/ AppendBody
  \/ \E s \in DOMAIN Sizes : Request(s) \/ UseInBody(s)
  \/ SizesTerminated

SizesSpec == SizesInit /\ [][SizesNext]_sizeVars

-----------------------------------------------------------------------------
\* The shape of every variable.
SizesTypeOK ==
  /\ function \in 1..Len(Provided)
  /\ \A i \in DOMAIN block :
       /\ block[i].id \in 1..(fresh - 1)
       /\ block[i].of \in {"int", "setup", "body"} \union DOMAIN Sizes
       /\ block[i].uses \subseteq 1..(fresh - 1)
  /\ setup \in 1..Len(block)
  /\ anchor \in {NoOp} \union {block[i].id : i \in DOMAIN block}
  /\ DOMAIN values \subseteq DOMAIN Sizes
  /\ \A f \in DOMAIN frames : frames[f].at \in {AtEnd} \union {block[i].id : i \in DOMAIN block}
  /\ raised \in BOOLEAN

\* "Values are emitted at the start of the function, so they dominate every use"
\* (sizes.py), uses by sizes included.  Not so for sizes that have an integer before
\* another argument, as sympy's sums and products do.
DefinedBeforeUse ==
  \A i \in DOMAIN block : \A u \in block[i].uses :
    \E j \in 1..(i - 1) : block[j].id = u

\* The integer an outer size began with has become the anchor: i is above it, the
\* outer size j ended below it.
AcrossInteger(i, j) ==
  /\ {block[i].of, block[j].of} \subseteq DOMAIN Sizes
  /\ \E k \in i + 1..j - 1 : block[k].id = anchor /\ block[k].of = "int"

\* Every operation uses operations above it, in the body, in the sizes' recursion and
\* in what was emitted for a size asked for before; only a size that goes above an
\* integer of another size may use that one below it (sizes.py, _insertion_point).
UsesInOrder ==
  \A i \in DOMAIN block : \A u \in block[i].uses :
    \E j \in DOMAIN block : block[j].id = u /\ (j < i \/ AcrossInteger(i, j))

\* No size is below a body operation, also when the body is already under way.
SizesBeforeBody ==
  \A i, j \in DOMAIN block : block[i].of = "body" /\ i < j => block[j].of = "body"
=============================================================================
