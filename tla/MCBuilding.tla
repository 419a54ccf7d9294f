------------------------------ MODULE MCBuilding ------------------------------
(***************************************************************************)
(* What happens around the lowering of graphs: the sizes of functions, the *)
(* ATen helpers of modules, and the lowering of modules in processes.  The *)
(* parts share no state, so each is explored with the others at rest.      *)
(***************************************************************************)
EXTENDS SizeValues, HelperCache, LowerProcess

CONSTANT Parts

VARIABLE part

buildingVars == <<sizeVars, helperVars, loweringVars, part>>

BuildingInit == SizesInit /\ HelpersInit /\ LoweringInit /\ part \in Parts

StepSizes == part = "sizes" /\ SizesNext /\ UNCHANGED <<helperVars, loweringVars, part>>
StepHelpers == part = "helpers" /\ HelpersNext /\ UNCHANGED <<sizeVars, loweringVars, part>>
StepLowering == part = "lowering" /\ LoweringNext /\ UNCHANGED <<sizeVars, helperVars, part>>

\* The steps LowerProcess is fair to.
ThreadSteps(p) == part = "lowering" /\ Thread(p) /\ UNCHANGED <<sizeVars, helperVars, part>>
AnswerSteps(p) == part = "lowering" /\ Answer(p) /\ UNCHANGED <<sizeVars, helperVars, part>>

BuildingSpec ==
  /\ BuildingInit /\ [][StepSizes \/ StepHelpers \/ StepLowering]_buildingVars
  /\ \A p \in Threads : WF_buildingVars(ThreadSteps(p)) /\ WF_buildingVars(AnswerSteps(p))

-----------------------------------------------------------------------------
(***************************************************************************)
(* Two functions over sizes n, k and expressions of n.  Arguments are in   *)
(* sympy's order: the integer of a sum or a product comes first, that of a *)
(* floor division or a remainder last.                                     *)
(***************************************************************************)
\* n // 2, 1 + n, (1 + n) // 2, min(n // 2, 1 + n)
MCSizes ==
  [n |-> <<>>, k |-> <<>>, half |-> <<"n", "int">>, succ |-> <<"int", "n">>,
   ceil |-> <<"succ", "int">>, least |-> <<"half", "succ">>]

\* The second function has a tensor of size n // 2 by 1 + n, and none of size n.
TwoFunctions == <<{"n"}, {"half", "succ"}>>

-----------------------------------------------------------------------------
(***************************************************************************)
(* Four modules over five helpers: q cannot be lowered, r gets another     *)
(* type than its calls need, s and t clash in one run.                     *)
(***************************************************************************)
MCNeeded == [p |-> "T", q |-> "T", r |-> "U", s |-> "T", t |-> "T"]

MCLowered == [p |-> "T", q |-> "fails", r |-> "T", s |-> "T", t |-> "T"]

MCClashing == {{"s", "t"}, {"p", "s", "t"}}

MCCalls ==
  [clashing |-> <<"s", "p", "s", "t">>, failing |-> <<"p", "q", "r">>,
   mistyped |-> <<"t", "r">>, plain |-> <<"p", "t", "p">>]
=============================================================================
