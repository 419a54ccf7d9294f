------------------------------ MODULE ControlFlow ------------------------------
(***************************************************************************)
(* The body of a kernel as control flow passes it on: the variables its    *)
(* constructs carry (CarriedVariables), then the written tensors they      *)
(* thread (TensorThreading), which are two parts of the same results and   *)
(* are kept apart by their number alone.                                   *)
(***************************************************************************)
EXTENDS TensorThreading

CONSTANTS
  Kernels,        \* [phases: a program on tensors, variables: a body on variables]
  CopiesAliases   \* as in CarriedVariables

VARIABLES variables, traced, lowered, values, refused

carrying == <<variables, traced, lowered, values, refused>>

Carried == INSTANCE CarriedVariables WITH program <- variables, at <- lowered

KernelInit ==
  \E k \in Kernels :
    /\ program = k.phases /\ Init
    /\ variables = k.variables /\ Carried!Init

\* A body whose variables are refused is not run.
KernelNext ==
  \/ Carried!Next /\ UNCHANGED vars
  \/ ~Carried!More /\ ~refused /\ Next /\ UNCHANGED carrying
  \/ refused /\ UNCHANGED <<vars, carrying>>

KernelSpec == KernelInit /\ [][KernelNext]_<<vars, carrying>>

-----------------------------------------------------------------------------
\* See CarriedVariables.
VariablesKept == Carried!VariablesKept
=============================================================================
