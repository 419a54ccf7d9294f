---------------------------- MODULE TensorThreading ----------------------------
(***************************************************************************)
(* The host tensors a kernel writes, as values: every store makes a new    *)
(* value of its tensor, and loops, branches and phase functions pass on    *)
(* the values of the tensors stored in them.                               *)
(*                                                                         *)
(* A program is a list of phases, a phase a list of statements: loads and  *)
(* stores of named tensors, and loops, ifs and whiles around them.  It is  *)
(* lowered first, one statement after the other, and then run, with any    *)
(* number of trips and any outcome of its conditions, next to the program  *)
(* it was made of, which keeps one copy of every tensor in memory.  Which  *)
(* elements a store replaces is RootLoop's subject: here a tensor's        *)
(* contents are the stores it went through.                                *)
(***************************************************************************)
EXTENDS Naturals, Sequences, FiniteSets, SequencesExt

CONSTANTS
  Programs,   \* the programs explored
  ViewOf,     \* host reshape of a declared parameter -> that parameter
  MaxTrips    \* bound on the trips of a loop or while, each time it is entered

Opening == {"root", "for", "if", "while"}

Statement == [do: Opening \union {"else", "do", "end", "load", "store"}, of: STRING]

-----------------------------------------------------------------------------
(***************************************************************************)
(* The graphs of a phase: where a construct ends, where its else branch or *)
(* its body (after a while's condition) starts, and what is stored in it.  *)
(***************************************************************************)
Nesting(body, k, j) ==
  Cardinality({i \in k..j : body[i].do \in Opening}) - Cardinality({i \in k..j : body[i].do = "end"})

EndOf(body, k) ==
  CHOOSE j \in k..Len(body) : Nesting(body, k, j) = 0 /\ \A i \in k..(j - 1) : Nesting(body, k, i) > 0

MiddleOf(body, k) ==
  CHOOSE j \in k..EndOf(body, k) : body[j].do \in {"else", "do"} /\ Nesting(body, k, j) = 1

\* Statement m divides the construct at k: an if from its else branch, the condition
\* of a while from its body.
Divides(body, k, m) ==
  /\ <<body[k].do, body[m].do>> \in {<<"if", "else">>, <<"while", "do">>}
  /\ m \in k..EndOf(body, k) /\ Nesting(body, k, m) = 1

\* The graphs of a phase lie within each other: every construct ends, and the ones
\* with two graphs are divided once.
WellNested(body) ==
  /\ \A j \in DOMAIN body : Nesting(body, 1, j) >= 0
  /\ Nesting(body, 1, Len(body)) = 0
  /\ \A k \in DOMAIN body : body[k].do \in {"if", "while"} =>
       Cardinality({m \in DOMAIN body : Divides(body, k, m)}) = 1
  /\ \A m \in DOMAIN body : body[m].do \in {"else", "do"} =>
       \E k \in DOMAIN body : Divides(body, k, m)

ASSUME ProgramsAssumption ==
  /\ MaxTrips \in Nat
  /\ \A p \in Programs :
       /\ p \in Seq(Seq(Statement)) /\ Len(p) > 0
       /\ \A f \in DOMAIN p : WellNested(p[f])

Stored(body) == {body[i].of : i \in {j \in DOMAIN body : body[j].do = "store"}}
Used(body) == Stored(body) \union {body[i].of : i \in {j \in DOMAIN body : body[j].do = "load"}}

Writes(body, k) == Stored(SubSeq(body, k, EndOf(body, k)))

\* Tensors stored anywhere, and the views that are lowered as their parameter.
Written(p) == UNION {Stored(p[f]) : f \in DOMAIN p}
Aliases(p) == {v \in DOMAIN ViewOf : v \notin Written(p)}

Ref(p, n) == IF n \in Aliases(p) THEN ViewOf[n] ELSE n
Refs(p) == {Ref(p, n) : n \in UNION {Used(p[f]) : f \in DOMAIN p}}

Inouts(p, f) == Stored(p[f])
Ins(p, f) == {Ref(p, n) : n \in Used(p[f])} \ Stored(p[f])

\* The memory behind a name.
Storage(n) == IF n \in DOMAIN ViewOf THEN ViewOf[n] ELSE n

-----------------------------------------------------------------------------
VARIABLES
  program,  \* the program, fixed
  stage,    \* "lowering", "running" or "done"
  phase,    \* the phase being lowered or run
  at,       \* the statement of it; 0 before the first
  tensors,  \* written tensor -> its current value, while lowering
  open,     \* the constructs being lowered, innermost last
  code,     \* phase -> the operation of every statement, and the return
  held,     \* tensor -> its contents, in the entry function
  defined,  \* value -> its contents, where the run is
  frames,   \* the regions the run is in, innermost last
  memory    \* tensor -> its contents in the program, one copy each

lowering == <<tensors, open, code>>
running == <<held, defined, frames, memory>>
vars == <<program, stage, phase, at, lowering, running>>

\* A value is named by the statement and the tensor it is of.
Value(k, role, n) == <<k, role, n>>
Values(k, role, names) == [n \in names |-> Value(k, role, n)]
Param(n) == Value(0, "param", n)

Nothing == [n \in {} |-> Value(0, "none", n)]

\* What an operation reads, the values it makes (the arguments of the region it
\* opens), and the results of the construct it ends.
Operation(uses, args, results) == [uses |-> uses, args |-> args, results |-> results]

Before(n) == <<n>>

Init ==
  /\ program \in Programs
  /\ stage = "lowering"
  /\ phase = 1
  /\ at = 0
  /\ tensors = Nothing
  /\ open = <<>>
  /\ code = [f \in DOMAIN program |-> <<>>]
  /\ held = [n \in Refs(program) |-> Before(n)]
  /\ defined = [v \in {} |-> Before("none")]
  /\ frames = <<>>
  /\ memory = [n \in Refs(program) |-> Before(n)]

Body == program[phase]
Here == Body[at]
In(s, kinds) == stage = s /\ at \in DOMAIN Body /\ Here.do \in kinds

-----------------------------------------------------------------------------
(***************************************************************************)
(* Lowering.                                                               *)
(***************************************************************************)
Current(names) == [n \in names |-> tensors[n]]

Rebound(values) == [n \in DOMAIN tensors |-> IF n \in DOMAIN values THEN values[n] ELSE tensors[n]]

Emit(operation) ==
  /\ code' = [code EXCEPT ![phase] = Append(@, operation)]
  /\ at' = at + 1
  /\ UNCHANGED <<program, stage, phase, running>>

BuildPhase ==
  /\ stage = "lowering" /\ at = 0
  /\ tensors' = [n \in Inouts(program, phase) |-> Param(n)]
  /\ at' = 1
  /\ UNCHANGED <<program, stage, phase, open, code, running>>

\* The value a load of n reads: the current one of a tensor the phase writes, else
\* the argument.
Source(n) == IF n \in DOMAIN tensors THEN tensors[n] ELSE Param(Ref(program, n))

LowerLoad ==
  /\ In("lowering", {"load"})
  /\ Emit(Operation([n \in {Here.of} |-> Source(n)], Nothing, Nothing))
  /\ UNCHANGED <<tensors, open>>

LowerStore ==
  /\ In("lowering", {"store"})
  /\ LET stored == Values(at, "stored", {Here.of})
     IN  Emit(Operation(Current({Here.of}), stored, Nothing)) /\ tensors' = Rebound(stored)
  /\ UNCHANGED open

\* A loop or a while takes the tensors stored in it as arguments of its region.
LowerLoop ==
  /\ In("lowering", {"root", "for", "while"})
  /\ LET names == Writes(Body, at)
         args == Values(at, "arg", names)
     IN  /\ Emit(Operation(Current(names), args, Nothing))
         /\ tensors' = Rebound(args)
         /\ open' = Append(open, [at |-> at, names |-> names, before |-> Current(names)])

LowerIf ==
  /\ In("lowering", {"if"})
  /\ LET names == Writes(Body, at)
     IN  open' = Append(open, [at |-> at, names |-> names, before |-> Current(names)])
  /\ Emit(Operation(Nothing, Nothing, Nothing))
  /\ UNCHANGED tensors

\* Mutant of LowerElse: the else branch goes on from the then branch's values.
LowerElseOnward ==
  /\ In("lowering", {"else"})
  /\ Emit(Operation(Current(Last(open).names), Nothing, Nothing))
  /\ UNCHANGED <<tensors, open>>

\* The then branch yields; the else branch starts from the values before both.
LowerElse ==
  /\ In("lowering", {"else"})
  /\ Emit(Operation(Current(Last(open).names), Nothing, Nothing))
  /\ tensors' = Rebound(Last(open).before)
  /\ UNCHANGED open

\* The condition of a while is lowered: it hands the tensors to the body.
LowerCondition ==
  /\ In("lowering", {"do"})
  /\ LET args == Values(at, "arg", Last(open).names)
     IN  Emit(Operation(Current(Last(open).names), args, Nothing)) /\ tensors' = Rebound(args)
  /\ UNCHANGED open

\* Mutant of LowerEnd: the values of the last region are used from here on.
LowerEndInside ==
  /\ In("lowering", {"end"})
  /\ LET names == Last(open).names
         results == Values(Last(open).at, "result", names)
     IN  Emit(Operation(Current(names), Nothing, results))
  /\ open' = Front(open)
  /\ UNCHANGED tensors

\* The last region yields; the results are the tensors' values from here on.
LowerEnd ==
  /\ In("lowering", {"end"})
  /\ LET names == Last(open).names
         results == Values(Last(open).at, "result", names)
     IN  Emit(Operation(Current(names), Nothing, results)) /\ tensors' = Rebound(results)
  /\ open' = Front(open)

\* The function returns the written tensors; the next phase, or the run, begins.
BuildReturn ==
  /\ stage = "lowering" /\ at = Len(Body) + 1
  /\ code' = [code EXCEPT ![phase] =
       Append(@, Operation(Current(Inouts(program, phase)), Nothing, Nothing))]
  /\ IF phase < Len(program) THEN phase' = phase + 1 /\ UNCHANGED stage
     ELSE phase' = 1 /\ stage' = "running"
  /\ at' = 0
  /\ tensors' = Nothing
  /\ UNCHANGED <<program, open, running>>

-----------------------------------------------------------------------------
(***************************************************************************)
(* Running.                                                                *)
(***************************************************************************)
Op(k) == code[phase][k]

\* The values of a scope, and those of `to` with the contents of `from`.
Pass(from, to, scope) ==
  [v \in scope \union {to[n] : n \in DOMAIN to} |->
     IF \E n \in DOMAIN to : to[n] = v
     THEN defined[from[CHOOSE n \in DOMAIN to : to[n] = v]] ELSE defined[v]]

Scope == Last(frames).scope
Begin == Last(frames).at

Entered(trips) == Append(frames, [at |-> at, scope |-> DOMAIN defined, trips |-> trips])
AnotherTrip == [frames EXCEPT ![Len(frames)].trips = @ + 1]
MoreTrips == Last(frames).trips < MaxTrips

Go(place) == at' = place /\ UNCHANGED <<program, stage, phase, lowering, held, memory>>

\* The entry function calls the phase with the tensors' current contents.
CallPhase ==
  /\ stage = "running" /\ at = 0
  /\ defined' = [v \in {Param(n) : n \in Ins(program, phase) \union Inouts(program, phase)} |->
                   held[v[3]]]
  /\ Go(1)
  /\ UNCHANGED frames

RunLoad == In("running", {"load"}) /\ Go(at + 1) /\ UNCHANGED <<defined, frames>>

RunStore ==
  /\ In("running", {"store"})
  /\ LET made == Op(at).args[Here.of]
         stamp == <<phase, at>>
     IN  /\ defined' = [v \in DOMAIN defined \union {made} |->
              IF v = made THEN Append(defined[Op(at).uses[Here.of]], stamp) ELSE defined[v]]
         /\ memory' = [memory EXCEPT ![Storage(Here.of)] = Append(@, stamp)]
  /\ at' = at + 1
  /\ UNCHANGED <<program, stage, phase, lowering, held, frames>>

EnterLoop ==
  /\ In("running", {"root", "for"})
  /\ MaxTrips > 0
  /\ defined' = Pass(Op(at).uses, Op(at).args, DOMAIN defined)
  /\ frames' = Entered(1)
  /\ Go(at + 1)

SkipLoop ==
  /\ In("running", {"root", "for"})
  /\ LET last == EndOf(Body, at)
     IN  defined' = Pass(Op(at).uses, Op(last).results, DOMAIN defined) /\ Go(last + 1)
  /\ UNCHANGED frames

LoopAgain ==
  /\ In("running", {"end"}) /\ Body[Begin].do \in {"root", "for"}
  /\ MoreTrips
  /\ defined' = Pass(Op(at).uses, Op(Begin).args, Scope)
  /\ frames' = AnotherTrip
  /\ Go(Begin + 1)

\* A loop is over, or the else branch of an if.
Leave ==
  /\ In("running", {"end"}) /\ Body[Begin].do # "while"
  /\ defined' = Pass(Op(at).uses, Op(at).results, Scope)
  /\ frames' = Front(frames)
  /\ Go(at + 1)

Branch ==
  /\ In("running", {"if"})
  /\ frames' = Entered(1)
  /\ \/ Go(at + 1)
     \/ Go(MiddleOf(Body, at) + 1)
  /\ UNCHANGED defined

LeaveThen ==
  /\ In("running", {"else"})
  /\ LET last == EndOf(Body, Begin)
     IN  defined' = Pass(Op(at).uses, Op(last).results, Scope) /\ Go(last + 1)
  /\ frames' = Front(frames)

EnterWhile ==
  /\ In("running", {"while"})
  /\ defined' = Pass(Op(at).uses, Op(at).args, DOMAIN defined)
  /\ frames' = Entered(0)
  /\ Go(at + 1)

ConditionHolds ==
  /\ In("running", {"do"})
  /\ MoreTrips
  /\ defined' = Pass(Op(at).uses, Op(at).args, Scope)
  /\ frames' = AnotherTrip
  /\ Go(at + 1)

ConditionFails ==
  /\ In("running", {"do"})
  /\ LET last == EndOf(Body, Begin)
     IN  defined' = Pass(Op(at).uses, Op(last).results, Scope) /\ Go(last + 1)
  /\ frames' = Front(frames)

WhileAgain ==
  /\ In("running", {"end"}) /\ Body[Begin].do = "while"
  /\ defined' = Pass(Op(at).uses, Op(Begin).args, Scope)
  /\ Go(Begin + 1)
  /\ UNCHANGED frames

\* Mutant of Returned: the results do not reach the phases that follow.
ReturnedLast ==
  [n \in DOMAIN held |->
     IF n \in Inouts(program, phase) /\ phase = Len(program) THEN defined[Op(at).uses[n]] ELSE held[n]]

Returned ==
  [n \in DOMAIN held |-> IF n \in Inouts(program, phase) THEN defined[Op(at).uses[n]] ELSE held[n]]

ReturnPhase ==
  /\ stage = "running" /\ at = Len(Body) + 1
  /\ held' = Returned
  /\ defined' = [v \in {} |-> Before("none")]
  /\ IF phase < Len(program) THEN phase' = phase + 1 /\ at' = 0 /\ UNCHANGED stage
     ELSE stage' = "done" /\ UNCHANGED <<phase, at>>
  /\ UNCHANGED <<program, lowering, frames, memory>>

Terminated == stage = "done" /\ UNCHANGED vars

Lower ==
  \/ BuildPhase \/ LowerLoad \/ LowerStore \/ LowerLoop \/ LowerIf \/ LowerElse
  \/ LowerCondition \/ LowerEnd \/ BuildReturn

Run ==
  \/ CallPhase \/ RunLoad \/ RunStore \/ EnterLoop \/ SkipLoop \/ LoopAgain \/ Leave
  \/ Branch \/ LeaveThen \/ EnterWhile \/ ConditionHolds \/ ConditionFails \/ WhileAgain
  \/ ReturnPhase

Next == Lower \/ Run \/ Terminated

Spec == Init /\ [][Next]_vars

-----------------------------------------------------------------------------
\* What the last two properties need of the programs: every written tensor owns its
\* memory, and no phase reads a view of a tensor it writes.
WrittenOwnMemory == \A p \in Programs : Written(p) \intersect DOMAIN ViewOf = {}

ViewsApart ==
  /\ WrittenOwnMemory
  /\ \A p \in Programs : \A f \in DOMAIN p :
       \A v \in Used(p[f]) \intersect DOMAIN ViewOf : ViewOf[v] \notin Stored(p[f])

\* Every value an operation reads is defined where the operation is: by an operation
\* above it in its own region or in one around it, on every path through the program.
ValuesAreInScope ==
  stage = "running" /\ at # 0 =>
    \A n \in DOMAIN Op(at).uses : Op(at).uses[n] \in DOMAIN defined

\* A load sees every store before it in program order, on whichever branches and
\* trips they were, and no other (control_flow.py: "an scf.if or scf.while carries
\* the tensors its body writes").
LoadsSeeTheProgram ==
  In("running", {"load"}) =>
    /\ Op(at).uses[Here.of] \in DOMAIN defined
    /\ defined[Op(at).uses[Here.of]] = memory[Storage(Here.of)]

\* A phase starts from what the phases before it left, and at the end the entry
\* function holds every tensor as the program leaves it, so what it commits to the
\* written ones is their last value (codegen.py, _build_entry_function).
PhasesPassResults == stage = "done" \/ (stage = "running" /\ at = 0) => held = memory
=============================================================================
