------------------------------- MODULE MCBodies -------------------------------
(***************************************************************************)
(* The bodies of kernels: what control flow passes on, what the nodes of a *)
(* loop's graph become, and what the schedules make of the operations.     *)
(* The parts share no state, so each is explored with the others at rest.  *)
(***************************************************************************)
EXTENDS ControlFlow, MCTensorThreading

CONSTANTS
  Infinity,
  GraphKernels,         \* the kernels whose graphs are lowered
  Payloads, Line, MaxVectorElements, TileSize, VectorBits, TransposeBlock, MaxLoops,
  TileRegisters, Distance,
  Parts

VARIABLES
  part,                 \* the part explored
  kernel, graph, lowerPhase, node, plan, operations, valueOf, yields,
  payload, scheduled, pending

controlVars == <<vars, carrying>>
graphVars == <<kernel, graph, lowerPhase, node, plan, operations, valueOf, yields>>
scheduleVars == <<payload, scheduled, pending>>

-----------------------------------------------------------------------------
(***************************************************************************)
(* Bodies over three variables, in every order of their names: a loop, a   *)
(* while or an if around every body of a list that updates one, two or     *)
(* three of them, reads others, swaps them, or has variables of its own;   *)
(* every pair of constructs, one inside the other; and bodies that hold    *)
(* what scf cannot express.  With them the programs of MCTensorThreading:  *)
(* the two do not depend on each other, so each is joined to an empty      *)
(* other.  TLC orders records by the fields it read first, which have to   *)
(* be kind and op here.                                                    *)
(***************************************************************************)
Step(kind, var, op, of, trips, body, other) ==
  [do |-> kind, var |-> var, fn |-> op, of |-> of, trips |-> trips, body |-> body, other |-> other]

SetVar(var, fn, of) == <<Step("set", var, fn, of, <<>>, <<>>, <<>>)>>
CopyVar(var, of) == <<Step("copy", var, "none", <<of>>, <<>>, <<>>, <<>>)>>
ForVars(trips, body) == <<Step("for", "none", "none", <<>>, trips, body, <<>>)>>
WhileVars(of, limit, body) == <<Step("while", "none", "test", <<of>>, <<limit>>, body, <<>>)>>
IfVars(of, body, other) == <<Step("if", "none", "none", <<of>>, <<>>, body, other)>>

Updates == {
  SetVar("x", "f", <<"x">>),
  SetVar("x", "f", <<"x", "y">>),
  SetVar("y", "f", <<"x", "z">>),
  SetVar("w", "f", <<"x", "z">>) \o SetVar("z", "g", <<"z", "x">>) \o SetVar("x", "h", <<"w">>),
  SetVar("x", "f", <<"y">>) \o SetVar("y", "g", <<"x", "z">>),
  CopyVar("w", "x") \o CopyVar("x", "y") \o CopyVar("y", "w"),
  SetVar("z", "f", <<"x", "y">>) \o CopyVar("x", "z"),
  <<>>}

SmallUpdates == {SetVar("x", "s", <<"x">>), SetVar("z", "s", <<"y", "z">>), CopyVar("y", "x"), <<>>}

VariableConstructs(bodies, others) ==
  {ForVars(t, b) : t \in {<<0>>, <<2>>, <<2, 2>>}, b \in bodies}
    \union {WhileVars(v, n, b) : v \in {"x", "y"}, n \in {3, 4}, b \in bodies}
    \union {IfVars(v, b, o) : v \in {"x", "z"}, b \in bodies, o \in others}

NestedConstructs ==
  {b \o c : b \in {<<>>, SetVar("x", "p", <<"x", "z">>)},
            c \in VariableConstructs(SmallUpdates, {<<>>})}

FirstSets == SetVar("x", "a", <<>>) \o SetVar("y", "b", <<>>) \o SetVar("z", "c", <<>>)
LastSet == SetVar("x", "e", <<"x", "y", "z">>)

Inexpressibles ==
  {<<Step("if", "none", "tensor", <<"x">>, <<>>, b, <<>>)>> : b \in SmallUpdates}
    \union {<<Step("while", "none", "test", <<"x">>, <<2>>, b, SetVar("y", "o", <<"x">>))>> :
              b \in SmallUpdates}

Within(constructs) == {FirstSets \o c \o LastSet : c \in constructs}

DefinedInBranches ==
  {FirstSets \o IfVars(v, SetVar("w", "f", <<"x">>) \o b, SetVar("w", "g", <<"y">>))
             \o SetVar("x", "e", <<"w", "x">>) : v \in {"x", "z"}, b \in Updates}

MCVariables ==
  [order : {<<"x", "y", "z", "w">>, <<"w", "z", "y", "x">>, <<"y", "x", "w", "z">>},
   body : Within(VariableConstructs(Updates \union NestedConstructs, SmallUpdates))
            \union DefinedInBranches
            \union Within(Inexpressibles \union {ForVars(<<1>>, c) : c \in Inexpressibles})
            \union Within({CopyVar("y", "x") \o c : c \in VariableConstructs(Updates, SmallUpdates)})]

NoTensors == <<Root(<<>>)>>
NoVariables == [order |-> <<>>, body |-> <<>>]

MCPhases == MCPrograms \union {NoTensors}

MCKernels ==
  [phases : {NoTensors}, variables : MCVariables]
    \union [phases : MCPrograms, variables : {NoVariables}]

\* The programs meet what the theorems of TensorThreadingProofs ask of them.
ASSUME MCViewsApart == ViewsApart

-----------------------------------------------------------------------------
Graph == INSTANCE MCGraphLowering WITH Kernels <- GraphKernels, phase <- lowerPhase, body <- operations

Schedule == INSTANCE MCSchedules WITH code <- scheduled

\* The instances of the two, which do not depend on the constants they are given for.
AnyGraph == INSTANCE MCGraphLowering WITH Kernels <- {}, phase <- lowerPhase, body <- operations

AnySchedule == INSTANCE MCSchedules WITH Payloads <- {}, code <- scheduled

MCGraphKernels == AnyGraph!MCKernels
MCPayloads == AnySchedule!MCPayloads

-----------------------------------------------------------------------------
\* At rest a part has nothing to do.
ControlAtRest ==
  /\ program = NoTensors /\ Init
  /\ variables = NoVariables /\ Carried!Init

GraphAtRest ==
  /\ kernel = <<>> /\ graph = <<>> /\ lowerPhase = "trace" /\ node = 1
  /\ plan = <<>> /\ operations = <<>> /\ valueOf = <<>> /\ yields = <<>>

ScheduleAtRest == payload = <<>> /\ scheduled = <<>> /\ pending = <<>>

BodiesInit ==
  /\ part \in Parts
  /\ IF part = "control" THEN KernelInit ELSE ControlAtRest
  /\ IF part = "graph" THEN Graph!Init ELSE GraphAtRest
  /\ IF part = "schedule" THEN Schedule!Init ELSE ScheduleAtRest

StepControl == part = "control" /\ KernelNext /\ UNCHANGED <<part, graphVars, scheduleVars>>

StepGraph ==
  /\ part = "graph"
  /\ Graph!Next \/ Graph!Ended
  /\ UNCHANGED <<part, controlVars, scheduleVars>>

StepSchedule ==
  /\ part = "schedule"
  /\ Schedule!Next \/ Schedule!Ended
  /\ UNCHANGED <<part, controlVars, graphVars>>

BodiesSpec ==
  BodiesInit /\ [][StepControl \/ StepGraph \/ StepSchedule]_<<part, controlVars, graphVars, scheduleVars>>

-----------------------------------------------------------------------------
(***************************************************************************)
(* The properties of GraphLowering, which see its part (its TypeOK is      *)
(* GraphTypeOK here), and those of Schedules.                              *)
(***************************************************************************)
GraphTypeOK == part = "graph" => Graph!TypeOK
ValuesKept == part = "graph" => Graph!ValuesKept
UpdatesInPlace == part = "graph" => Graph!UpdatesInPlace
RefusalsExplained == part = "graph" => Graph!RefusalsExplained

OperandsKept == part = "schedule" => Schedule!OperandsKept
OperandsPlaced == part = "schedule" => Schedule!OperandsPlaced
VectorsFit == part = "schedule" => Schedule!VectorsFit
VectorsKept == part = "schedule" => Schedule!VectorsKept
StorageFits == part = "schedule" => Schedule!StorageFits
=============================================================================
