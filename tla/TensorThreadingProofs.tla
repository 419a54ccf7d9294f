------------------------- MODULE TensorThreadingProofs -------------------------
(***************************************************************************)
(* For any programs of well nested phases, any trips and any outcomes of   *)
(* the conditions: the values the operations read are in scope; and, if    *)
(* every written tensor owns its memory, the phases pass on the tensors as *)
(* the program leaves them, and, if besides no phase reads a view of a     *)
(* tensor it writes, every load sees the program's memory.                 *)
(*                                                                         *)
(* Both the lowering and the run walk the same nested text with a stack of *)
(* the constructs they are in.  What connects them is the value every      *)
(* tensor has before every statement, in the order of the text: lowering   *)
(* a phase fixes it once, and the run, wherever it jumps, finds the values *)
(* of its place defined and holding the memory of the program.             *)
(***************************************************************************)
EXTENDS TensorThreading, FiniteSetTheorems, SequenceTheorems, WellFoundedInduction, TLAPS

-----------------------------------------------------------------------------
(***************************************************************************)
(* Places in the text.                                                     *)
(***************************************************************************)
Text(body) == body \in Seq(Statement) /\ WellNested(body)

Opens(body, k) == k \in DOMAIN body /\ body[k].do \in Opening

\* The constructs on the stack are the ones around statement j, outermost first.
Placed(body, stack, j) ==
  /\ \E S : stack \in Seq(S)
  /\ j \in 1..(Len(body) + 1)
  /\ Nesting(body, 1, j - 1) = Len(stack)
  /\ \A i \in DOMAIN stack :
       /\ Opens(body, stack[i].at) /\ stack[i].at < j
       /\ Nesting(body, stack[i].at, j - 1) = Len(stack) - i + 1
       /\ \A m \in stack[i].at..(j - 1) : Nesting(body, stack[i].at, m) > 0
  /\ \A i, l \in DOMAIN stack : i < l => stack[i].at < stack[l].at

-----------------------------------------------------------------------------
(***************************************************************************)
(* The values of the written tensors along the text: values[j] are the     *)
(* ones before statement j.                                                *)
(***************************************************************************)
Part(values, names) == [n \in names |-> values[n]]

Over(values, made) == [n \in DOMAIN values |-> IF n \in DOMAIN made THEN made[n] ELSE values[n]]

\* Operation op stands for statement j of phase f, with these values before and after it.
Lowered(p, f, j, op, here, next, values) ==
  LET body == p[f]
      do == body[j].do
  IN  /\ do = "load" =>
           /\ op.uses = [n \in {body[j].of} |-> IF n \in Inouts(p, f) THEN here[n] ELSE Param(Ref(p, n))]
           /\ next = here
      /\ do = "store" =>
           /\ op.uses = Part(here, {body[j].of})
           /\ op.args = Values(j, "stored", {body[j].of})
           /\ next = Over(here, op.args)
      /\ do \in {"root", "for", "while"} =>
           /\ op.uses = Part(here, Writes(body, j))
           /\ op.args = Values(j, "arg", Writes(body, j))
           /\ next = Over(here, op.args)
      /\ do = "if" => op.uses = Nothing /\ next = here
      /\ do \in {"else", "do"} => \E k \in DOMAIN body :
           /\ Divides(body, k, j)
           /\ op.uses = Part(here, Writes(body, k))
           /\ do = "else" => next = Over(here, Part(values[k], Writes(body, k)))
           /\ do = "do" => /\ op.args = Values(j, "arg", Writes(body, k))
                           /\ next = Over(here, op.args)
      /\ do = "end" => \E k \in DOMAIN body :
           /\ Opens(body, k) /\ EndOf(body, k) = j
           /\ op.uses = Part(here, Writes(body, k))
           /\ op.results = Values(k, "result", Writes(body, k))
           /\ next = Over(here, op.results)

\* The first statements of phase f are lowered, with these values before each.
LoweredTo(p, f, c, values, last) ==
  /\ values[1] = [n \in Inouts(p, f) |-> Param(n)]
  /\ \A j \in 1..(last + 1) :
       /\ values[j] = [n \in Inouts(p, f) |-> values[j][n]]
       /\ \A n \in Inouts(p, f) : values[j][n][3] = n
  /\ \A j \in 1..last : Lowered(p, f, j, c[j], values[j], values[j + 1], values)

BuiltWith(p, f, c, values) ==
  /\ LoweredTo(p, f, c, values, Len(p[f]))
  /\ c[Len(p[f]) + 1].uses = values[Len(p[f]) + 1]

-----------------------------------------------------------------------------
\* The phase being lowered, so far.
PartlyLowered(values) ==
  /\ LoweredTo(program, phase, code[phase], values, at - 1)
  /\ tensors = values[at]
  /\ Len(code[phase]) = at - 1
  /\ Placed(Body, open, at)
  /\ \A i \in DOMAIN open :
       /\ open[i].names = Writes(Body, open[i].at)
       /\ open[i].before = Part(values[open[i].at], open[i].names)

LoweringInv ==
  /\ frames = <<>>
  /\ \A f \in DOMAIN program :
       /\ \E S : code[f] \in Seq(S)
       /\ f < phase => \E values : BuiltWith(program, f, code[f], values)
       /\ f > phase => code[f] = <<>>
  /\ at = 0 => code[phase] = <<>> /\ open = <<>>
  /\ at # 0 => at \in 1..(Len(Body) + 1) /\ \E values : PartlyLowered(values)

\* The values and the arguments of the phase are in the scope.
Within(values, scope) ==
  /\ \A n \in Inouts(program, phase) : values[n] \in scope
  /\ \A n \in Ins(program, phase) \union Inouts(program, phase) : Param(n) \in scope

\* They hold the memory of the program.
HoldMemory(values, contents) ==
  /\ \A n \in Inouts(program, phase) : contents[values[n]] = memory[n]
  /\ \A n \in Ins(program, phase) : contents[Param(n)] = memory[n]

RunWith(values) ==
  /\ BuiltWith(program, phase, code[phase], values)
  /\ Placed(Body, frames, at)
  /\ Within(values[at], DOMAIN defined)
  /\ \A i \in DOMAIN frames :
       /\ DOMAIN frames[i] = {"at", "scope", "trips"}
       /\ Within(values[frames[i].at], frames[i].scope)
  /\ WrittenOwnMemory => HoldMemory(values[at], defined)

RunningInv ==
  /\ \A f \in DOMAIN program : \E values : BuiltWith(program, f, code[f], values)
  /\ at = 0 => frames = <<>>
  /\ at # 0 => at \in 1..(Len(Body) + 1) /\ \E values : RunWith(values)

HeldInv ==
  /\ DOMAIN held = Refs(program) /\ DOMAIN memory = Refs(program)
  /\ held = [n \in Refs(program) |-> held[n]] /\ memory = [n \in Refs(program) |-> memory[n]]
  /\ WrittenOwnMemory =>
       \A n \in Refs(program) :
         stage = "running" /\ at # 0 => n \in Inouts(program, phase) \/ held[n] = memory[n]
  /\ WrittenOwnMemory /\ ~(stage = "running" /\ at # 0) => held = memory

Inv ==
  /\ program \in Programs /\ phase \in DOMAIN program /\ at \in Nat
  /\ stage \in {"lowering", "running", "done"}
  /\ DOMAIN code = DOMAIN program
  /\ stage = "lowering" => LoweringInv
  /\ stage = "running" => RunningInv
  /\ HeldInv
-----------------------------------------------------------------------------
(***************************************************************************)
(* Nesting.                                                                *)
(***************************************************************************)
Openers(body, k, j) == {i \in k..j : body[i].do \in Opening}
Ends(body, k, j) == {i \in k..j : body[i].do = "end"}

\* Two parts that follow each other have the elements of both.
LEMMA Joined ==
  ASSUME NEW A, NEW B, NEW k \in Int, NEW m \in Int, NEW j \in Int, A \subseteq k..m, B \subseteq (m + 1)..j
  PROVE  /\ Cardinality(A) \in Int /\ Cardinality(B) \in Int
         /\ Cardinality(A \union B) = Cardinality(A) + Cardinality(B)
PROOF
<1>1. IsFiniteSet(k..m) /\ IsFiniteSet((m + 1)..j)
  BY FS_Interval
<1>2. IsFiniteSet(A) /\ IsFiniteSet(B)
  BY <1>1, FS_Subset
<1>3. Cardinality(A) \in Nat /\ Cardinality(B) \in Nat
  BY <1>2, FS_CardinalityType
<1>4. A \intersect B = {}
  OBVIOUS
<1>5. Cardinality(A \union B) = Cardinality(A) + Cardinality(B) - Cardinality(A \intersect B)
  BY <1>2, FS_Union
<1>6. Cardinality(A \intersect B) = 0
  BY <1>4, FS_EmptySet
<1> QED
  BY <1>3, <1>5, <1>6

\* The nesting of a text is that of a first part of it and that of the rest.
LEMMA NestingSplit ==
  ASSUME NEW body, NEW k \in Int, NEW m \in Int, NEW j \in Int, k - 1 <= m, m <= j
  PROVE  /\ Nesting(body, k, j) \in Int
         /\ Nesting(body, k, j) = Nesting(body, k, m) + Nesting(body, m + 1, j)
PROOF
<1>1. \A a, b : Nesting(body, a, b) = Cardinality(Openers(body, a, b)) - Cardinality(Ends(body, a, b))
  BY DEF Nesting, Openers, Ends
<1>2. /\ Openers(body, k, m) \subseteq k..m /\ Openers(body, m + 1, j) \subseteq (m + 1)..j
      /\ Openers(body, k, j) = Openers(body, k, m) \union Openers(body, m + 1, j)
  BY DEF Openers
<1>3. /\ Ends(body, k, m) \subseteq k..m /\ Ends(body, m + 1, j) \subseteq (m + 1)..j
      /\ Ends(body, k, j) = Ends(body, k, m) \union Ends(body, m + 1, j)
  BY DEF Ends
<1>4. /\ Cardinality(Openers(body, k, m)) \in Int /\ Cardinality(Openers(body, m + 1, j)) \in Int
      /\ Cardinality(Openers(body, k, j)) =
           Cardinality(Openers(body, k, m)) + Cardinality(Openers(body, m + 1, j))
  BY <1>2, Joined
<1>5. /\ Cardinality(Ends(body, k, m)) \in Int /\ Cardinality(Ends(body, m + 1, j)) \in Int
      /\ Cardinality(Ends(body, k, j)) = Cardinality(Ends(body, k, m)) + Cardinality(Ends(body, m + 1, j))
  BY <1>3, Joined
<1> QED
  BY <1>1, <1>4, <1>5

LEMMA NestingAround ==
  ASSUME NEW body, NEW h \in Int, NEW k \in Int, NEW j \in Int, h <= k, k - 1 <= j
  PROVE  /\ Nesting(body, h, k - 1) \in Int /\ Nesting(body, k, j) \in Int
         /\ Nesting(body, h, j) = Nesting(body, h, k - 1) + Nesting(body, k, j)
PROOF
<1>1. k - 1 \in Int /\ (k - 1) + 1 = k
  OBVIOUS
<1>2. /\ Nesting(body, h, k - 1) \in Int
      /\ Nesting(body, h, j) = Nesting(body, h, k - 1) + Nesting(body, (k - 1) + 1, j)
  BY <1>1, NestingSplit
<1>3. Nesting(body, k, j) \in Int
  BY NestingSplit
<1> QED
  BY <1>1, <1>2, <1>3

\* The nesting of no statement.
LEMMA NestingNone ==
  ASSUME NEW body, NEW k \in Int, NEW j \in Int, j < k
  PROVE  Nesting(body, k, j) = 0
PROOF
<1>1. Nesting(body, k, j) = Cardinality(Openers(body, k, j)) - Cardinality(Ends(body, k, j))
  BY DEF Nesting, Openers, Ends
<1>2. Openers(body, k, j) = {} /\ Ends(body, k, j) = {}
  BY DEF Openers, Ends
<1> QED
  BY <1>1, <1>2, FS_EmptySet

\* The nesting of one statement.
LEMMA NestingOne ==
  ASSUME NEW body, NEW k \in Int
  PROVE  Nesting(body, k, k) = IF body[k].do \in Opening THEN 1 ELSE IF body[k].do = "end" THEN -1 ELSE 0
PROOF
<1>1. Nesting(body, k, k) = Cardinality(Openers(body, k, k)) - Cardinality(Ends(body, k, k))
  BY DEF Nesting, Openers, Ends
<1>2. /\ Openers(body, k, k) = IF body[k].do \in Opening THEN {k} ELSE {}
      /\ Ends(body, k, k) = IF body[k].do = "end" THEN {k} ELSE {}
  BY DEF Openers, Ends
<1>3. Cardinality({k}) = 1 /\ Cardinality({}) = 0
  BY FS_Singleton, FS_EmptySet
<1>4. "end" \notin Opening
  BY DEF Opening
<1> QED
  BY <1>1, <1>2, <1>3, <1>4

\* The nesting of one statement more.
LEMMA NestingNext ==
  ASSUME NEW body, NEW k \in Int, NEW j \in Int, k <= j
  PROVE  Nesting(body, k, j) = Nesting(body, k, j - 1) + Nesting(body, j, j)
BY NestingSplit

\* A set of numbers that is not empty has a least one.
LEMMA LeastNumber ==
  ASSUME NEW S \in SUBSET Nat, S # {}
  PROVE  \E x \in S : \A y \in S : x <= y
PROOF
<1>1. PICK x \in S : \A y \in S : <<y, x>> \notin OpToRel(<, Nat)
  BY NatLessThanWellFounded, WFMin, Zenon
<1>2. \A y \in S : ~(y < x)
  BY <1>1, Zenon DEF OpToRel
<1> QED
  BY <1>2

\* A construct of a well nested text ends.
LEMMA EndFacts ==
  ASSUME NEW body, Text(body), NEW k, Opens(body, k)
  PROVE  /\ k \in Nat /\ EndOf(body, k) \in (k + 1)..Len(body)
         /\ Nesting(body, k, EndOf(body, k)) = 0
         /\ \A i \in k..(EndOf(body, k) - 1) : Nesting(body, k, i) > 0
         /\ body[EndOf(body, k)].do = "end"
PROOF
<1> DEFINE down == {j \in Nat : k <= j /\ j <= Len(body) /\ Nesting(body, k, j) <= 0}
           Closes(j) == Nesting(body, k, j) = 0 /\ \A i \in k..(j - 1) : Nesting(body, k, i) > 0
<1>1. k \in Nat /\ 1 <= k /\ k <= Len(body) /\ Len(body) \in Nat /\ body[k].do \in Opening
  BY DEF Opens, Text
<1>2. \A i \in Int : Nesting(body, i, i) \in {-1, 0, 1} /\ (Nesting(body, i, i) = -1 => body[i].do = "end")
  BY NestingOne, NestingNext
<1>3. Len(body) \in down
  <2>1. Nesting(body, 1, Len(body)) = 0
    BY DEF WellNested, Text
  <2>2. /\ Nesting(body, 1, Len(body)) = Nesting(body, 1, k - 1) + Nesting(body, k, Len(body))
        /\ Nesting(body, k, Len(body)) \in Int /\ Nesting(body, 1, k - 1) \in Int
    BY <1>1, NestingSplit
  <2>3. Nesting(body, 1, k - 1) >= 0
    <3>1. k - 1 = 0 \/ k - 1 \in DOMAIN body
      BY <1>1 DEF Text
    <3>2. Nesting(body, 1, 0) = 0
      BY NestingNone
    <3>3. \A j \in DOMAIN body : Nesting(body, 1, j) >= 0
      BY DEF WellNested, Text
    <3> QED
      BY <3>1, <3>2, <3>3
  <2> QED
    BY <1>1, <2>1, <2>2, <2>3
<1>4. PICK e \in down : \A j \in down : e <= j
  <2>1. down \in SUBSET Nat /\ down # {}
    BY <1>3
  <2> HIDE DEF down
  <2> QED
    BY <2>1, LeastNumber
<1>5. e \in Nat /\ k <= e /\ e <= Len(body) /\ Nesting(body, k, e) <= 0
  BY <1>4
<1>6. \A i \in k..(e - 1) : Nesting(body, k, i) > 0
  <2>1. SUFFICES ASSUME NEW i \in k..(e - 1) PROVE Nesting(body, k, i) > 0
    OBVIOUS
  <2>2. i \notin down /\ i \in Nat /\ k <= i /\ i <= Len(body)
    BY <1>1, <1>4, <1>5
  <2>3. Nesting(body, k, i) \in Int
    BY <1>1, <2>2, NestingSplit
  <2> QED
    BY <2>2, <2>3
<1>7. Nesting(body, k, k) = 1
  BY <1>1, NestingOne, NestingNext
<1>8. k < e
  BY <1>1, <1>5, <1>7
<1>9. /\ Nesting(body, k, e) = Nesting(body, k, e - 1) + Nesting(body, e, e)
      /\ Nesting(body, k, e - 1) > 0 /\ Nesting(body, k, e - 1) \in Int
  BY <1>1, <1>5, <1>6, <1>8, NestingOne, NestingNext, NestingSplit
<1>10. Closes(e) /\ e \in k..Len(body)
  BY <1>1, <1>2, <1>5, <1>6, <1>9
<1>11. Closes(EndOf(body, k)) /\ EndOf(body, k) \in k..Len(body)
  BY <1>10 DEF EndOf
<1>12. EndOf(body, k) = e
  BY <1>1, <1>7, <1>8, <1>10, <1>11
<1> QED
  BY <1>1, <1>2, <1>5, <1>6, <1>8, <1>9, <1>10, <1>12

\* Of two constructs around a statement, the one with less nesting is not outside the other.
LEMMA Ordered ==
  ASSUME NEW body, Text(body), NEW k, Opens(body, k), NEW h, Opens(body, h),
         NEW j, j \in k..EndOf(body, k), j \in h..EndOf(body, h),
         Nesting(body, h, j) <= Nesting(body, k, j)
  PROVE  k <= h
PROOF
<1>1. k \in Nat /\ h \in Nat /\ j \in Nat /\ EndOf(body, h) \in Nat
  BY EndFacts
<1>2. ASSUME h < k PROVE FALSE
  <2>1. Nesting(body, h, k - 1) > 0
    BY <1>1, <1>2, EndFacts
  <2>2. Nesting(body, h, j) = Nesting(body, h, k - 1) + Nesting(body, k, j)
    BY <1>1, <1>2, NestingSplit
  <2>3. Nesting(body, h, k - 1) \in Int /\ Nesting(body, k, j) \in Int
    BY <1>1, <1>2, NestingSplit
  <2> QED
    BY <1>1, <2>1, <2>2, <2>3
<1> QED
  BY <1>1, <1>2

\* A construct that starts inside another one ends inside it.
LEMMA Inside ==
  ASSUME NEW body, Text(body), NEW k, Opens(body, k), NEW h, Opens(body, h), h \in k..EndOf(body, k)
  PROVE  EndOf(body, h) <= EndOf(body, k)
PROOF
<1> DEFINE e == EndOf(body, k)
<1>1. k \in Nat /\ h \in Nat /\ e \in Nat /\ EndOf(body, h) \in Nat
  BY EndFacts
<1>2. ASSUME e < EndOf(body, h) PROVE FALSE
  <2>1. Nesting(body, h, e) > 0 /\ Nesting(body, k, e) = 0
    BY <1>1, <1>2, EndFacts
  <2>2. /\ Nesting(body, k, e) = Nesting(body, k, h - 1) + Nesting(body, h, e)
        /\ Nesting(body, k, h - 1) \in Int /\ Nesting(body, h, e) \in Int
    BY <1>1, NestingSplit
  <2>3. Nesting(body, k, k - 1) = 0
    BY <1>1, NestingNone
  <2>4. CASE h = k
    BY <2>1, <2>2, <2>3, <2>4
  <2>5. CASE h # k
    <3>1. h - 1 \in k..(e - 1)
      BY <1>1, <2>5
    <3>2. Nesting(body, k, h - 1) > 0
      BY <3>1, EndFacts
    <3> QED
      BY <2>1, <2>2, <3>2
  <2> QED
    BY <2>4, <2>5
<1> QED
  BY <1>1, <1>2

\* What is stored in a construct, by position.
LEMMA WritesAre ==
  ASSUME NEW body, Text(body), NEW k, Opens(body, k)
  PROVE  /\ Writes(body, k) = {body[i].of : i \in {j \in k..EndOf(body, k) : body[j].do = "store"}}
         /\ Writes(body, k) \subseteq Stored(body)
PROOF
<1> DEFINE part == SubSeq(body, k, EndOf(body, k))
           e == EndOf(body, k)
<1>1. k \in Nat /\ e \in (k + 1)..Len(body) /\ Len(body) \in Nat /\ DOMAIN body = 1..Len(body) /\ 1 <= k
  BY EndFacts DEF Text, Opens
<1>2. DOMAIN part = 1..(e - k + 1) /\ \A i \in 1..(e - k + 1) : part[i] = body[k + i - 1]
  BY <1>1 DEF Text
<1> HIDE DEF part, e
<1>3. Stored(part) = {body[i].of : i \in {j \in k..e : body[j].do = "store"}}
  <2>1. ASSUME NEW i \in k..e, body[i].do = "store" PROVE body[i].of \in Stored(part)
    <3>1. i - k + 1 \in 1..(e - k + 1) /\ part[i - k + 1] = body[i]
      BY <1>1, <1>2
    <3> QED
      BY <1>2, <2>1, <3>1 DEF Stored
  <2>2. ASSUME NEW i \in DOMAIN part, part[i].do = "store"
        PROVE  \E j \in k..e : body[j].do = "store" /\ body[j].of = part[i].of
    <3>1. k + i - 1 \in k..e /\ part[i] = body[k + i - 1]
      BY <1>1, <1>2
    <3> QED
      BY <2>2, <3>1
  <2> QED
    BY <2>1, <2>2 DEF Stored
<1>4. {body[i].of : i \in {j \in k..e : body[j].do = "store"}} \subseteq Stored(body)
  BY <1>1 DEF Stored
<1> QED
  BY <1>3, <1>4 DEF part, e, Writes

\* What is stored in a construct is stored in the ones around it.
LEMMA WritesInside ==
  ASSUME NEW body, Text(body), NEW k, Opens(body, k), NEW h, Opens(body, h), h \in k..EndOf(body, k)
  PROVE  Writes(body, h) \subseteq Writes(body, k)
PROOF
<1>1. EndOf(body, h) <= EndOf(body, k) /\ k <= h
  BY Inside
<1>2. k \in Nat /\ h \in Nat /\ EndOf(body, h) \in Nat /\ EndOf(body, k) \in Nat
  BY EndFacts
<1>3. h..EndOf(body, h) \subseteq k..EndOf(body, k)
  BY <1>1, <1>2
<1> QED
  BY <1>3, WritesAre
-----------------------------------------------------------------------------
(***************************************************************************)
(* The stack of constructs.                                                *)
(***************************************************************************)
\* The depth of a place is never negative.
LEMMA Depth ==
  ASSUME NEW body, Text(body), NEW j \in 1..(Len(body) + 1)
  PROVE  Nesting(body, 1, j - 1) \in Int /\ Nesting(body, 1, j - 1) >= 0
PROOF
<1>1. Len(body) \in Nat /\ DOMAIN body = 1..Len(body) /\ \A i \in DOMAIN body : Nesting(body, 1, i) >= 0
  BY DEF WellNested, Text
<1>2. j - 1 = 0 \/ j - 1 \in DOMAIN body
  BY <1>1
<1>3. Nesting(body, 1, 0) = 0
  BY NestingNone
<1>4. Nesting(body, 1, j - 1) \in Int
  BY <1>1, NestingSplit
<1> QED
  BY <1>1, <1>2, <1>3, <1>4

\* The innermost construct around a place.
LEMMA Innermost ==
  ASSUME NEW body, Text(body), NEW stack, NEW j, Placed(body, stack, j), stack # <<>>
  PROVE  /\ Len(stack) \in DOMAIN stack /\ Last(stack) = stack[Len(stack)]
         /\ Opens(body, Last(stack).at) /\ Last(stack).at \in Nat
         /\ Last(stack).at < j /\ j <= EndOf(body, Last(stack).at)
         /\ Nesting(body, Last(stack).at, j - 1) = 1
PROOF
<1> DEFINE k == Last(stack).at
<1>1. /\ Len(stack) \in DOMAIN stack /\ Last(stack) = stack[Len(stack)] /\ Len(stack) \in Nat
      /\ j \in Nat
  BY DEF Placed, Last, Text
<1>2. /\ Opens(body, k) /\ k < j /\ Nesting(body, k, j - 1) = 1
      /\ \A m \in k..(j - 1) : Nesting(body, k, m) > 0
  BY <1>1 DEF Placed
<1>3. k \in Nat /\ EndOf(body, k) \in Nat /\ Nesting(body, k, EndOf(body, k)) = 0 /\ k < EndOf(body, k)
  BY <1>2, EndFacts
<1>4. j <= EndOf(body, k)
  BY <1>1, <1>2, <1>3
<1> QED
  BY <1>1, <1>2, <1>3, <1>4

\* At an end the innermost construct is the one that ends.
LEMMA AtEnd ==
  ASSUME NEW body, Text(body), NEW stack, NEW j, Placed(body, stack, j), j <= Len(body), body[j].do = "end"
  PROVE  stack # <<>> /\ EndOf(body, Last(stack).at) = j
PROOF
<1>1. /\ j \in 1..(Len(body) + 1) /\ Len(body) \in Nat /\ Len(stack) \in Nat
      /\ Nesting(body, 1, j - 1) = Len(stack)
  BY DEF Placed, Text
<1>2. "end" \notin Opening
  BY DEF Opening
<1>3. Nesting(body, j, j) = -1
  BY <1>1, <1>2, NestingOne, NestingNext
<1>4. Nesting(body, 1, j) = Len(stack) - 1
  BY <1>1, <1>3, NestingOne, NestingNext
<1>5. Nesting(body, 1, j) >= 0
  <2>1. j + 1 \in 1..(Len(body) + 1) /\ (j + 1) - 1 = j
    BY <1>1
  <2> QED
    BY <2>1, Depth
<1>6. stack # <<>>
  BY <1>1, <1>4, <1>5
<1>7. PICK k : k = Last(stack).at
  OBVIOUS
<1>8. Opens(body, k) /\ k \in Nat /\ k < j /\ j <= EndOf(body, k) /\ Nesting(body, k, j - 1) = 1
  BY <1>6, <1>7, Innermost
<1>9. Nesting(body, k, j) = 0
  BY <1>1, <1>3, <1>8, NestingOne, NestingNext
<1>10. EndOf(body, k) \in Nat /\ \A i \in k..(EndOf(body, k) - 1) : Nesting(body, k, i) > 0
  BY <1>8, EndFacts
<1> QED
  BY <1>1, <1>6, <1>7, <1>8, <1>9, <1>10

\* At a division it is the one that is divided.
LEMMA AtDivision ==
  ASSUME NEW body, Text(body), NEW stack, NEW j, Placed(body, stack, j), j <= Len(body),
         body[j].do \in {"else", "do"}
  PROVE  stack # <<>> /\ Divides(body, Last(stack).at, j)
PROOF
<1>1. /\ j \in 1..(Len(body) + 1) /\ Len(body) \in Nat /\ Len(stack) \in Nat /\ j \in DOMAIN body
      /\ Nesting(body, 1, j - 1) = Len(stack)
  BY DEF Placed, Text
<1>2. body[j].do \notin Opening /\ body[j].do # "end" /\ "if" \in Opening /\ "while" \in Opening
  BY DEF Opening
<1>3. Nesting(body, j, j) = 0
  BY <1>1, <1>2, NestingOne, NestingNext
<1>4. Nesting(body, 1, j) = Len(stack)
  BY <1>1, <1>3, NestingOne, NestingNext
<1>5. PICK h \in DOMAIN body : Divides(body, h, j)
  BY <1>1 DEF Text, WellNested
<1>6. Opens(body, h) /\ j \in h..EndOf(body, h) /\ Nesting(body, h, j) = 1
  BY <1>2, <1>5 DEF Opens, Divides
<1>7. h \in 1..(Len(body) + 1) /\ h \in Nat
  BY <1>1, <1>5 DEF Text
<1>8. Nesting(body, 1, h - 1) \in Int /\ Nesting(body, 1, h - 1) >= 0
  BY <1>7, Depth
<1>9. Nesting(body, 1, j) = Nesting(body, 1, h - 1) + Nesting(body, h, j)
  BY <1>1, <1>6, <1>7, NestingSplit
<1>10. stack # <<>>
  BY <1>1, <1>4, <1>6, <1>8, <1>9
<1>11. PICK k : k = Last(stack).at
  OBVIOUS
<1>12. Opens(body, k) /\ k \in Nat /\ k < j /\ j <= EndOf(body, k) /\ Nesting(body, k, j - 1) = 1
  BY <1>10, <1>11, Innermost
<1>13. Nesting(body, k, j) = 1 /\ j \in k..EndOf(body, k)
  <2>1. Nesting(body, k, j) = Nesting(body, k, j - 1) + Nesting(body, j, j)
    BY <1>1, <1>12, NestingNext
  <2>2. EndOf(body, k) \in Nat
    BY <1>12, EndFacts
  <2> QED
    BY <1>1, <1>3, <1>12, <2>1, <2>2
<1>14. k <= h /\ h <= k
  <2>1. Nesting(body, h, j) <= Nesting(body, k, j) /\ Nesting(body, k, j) <= Nesting(body, h, j)
    BY <1>6, <1>13
  <2> QED
    BY <1>6, <1>12, <1>13, <2>1, Ordered
<1>15. k = h
  BY <1>7, <1>12, <1>14
<1> QED
  BY <1>5, <1>10, <1>11, <1>15

\* The constructs around the innermost one, where it starts.
LEMMA Around ==
  ASSUME NEW body, Text(body), NEW stack, NEW j, Placed(body, stack, j), stack # <<>>,
         NEW i \in DOMAIN stack, i < Len(stack)
  PROVE  /\ Opens(body, stack[i].at) /\ stack[i].at \in Nat /\ stack[i].at < Last(stack).at
         /\ Nesting(body, stack[i].at, Last(stack).at - 1) = Len(stack) - i
         /\ \A m \in stack[i].at..(Last(stack).at - 1) : Nesting(body, stack[i].at, m) > 0
PROOF
<1>1. PICK k : k = Last(stack).at
  OBVIOUS
<1>2. PICK h : h = stack[i].at
  OBVIOUS
<1>3. /\ Len(stack) \in DOMAIN stack /\ Last(stack) = stack[Len(stack)] /\ k \in Nat /\ k < j
      /\ Nesting(body, k, j - 1) = 1
  BY <1>1, Innermost
<1>4. /\ Opens(body, h) /\ h < k /\ j \in Nat /\ Len(stack) \in Nat /\ i \in Nat
      /\ Nesting(body, h, j - 1) = Len(stack) - i + 1
      /\ \A m \in h..(j - 1) : Nesting(body, h, m) > 0
  BY <1>1, <1>2, <1>3 DEF Placed, Text
<1>5. h \in Nat
  BY <1>4, EndFacts
<1>6. /\ Nesting(body, h, j - 1) = Nesting(body, h, k - 1) + Nesting(body, k, j - 1)
      /\ Nesting(body, h, k - 1) \in Int
  <2>1. PICK e \in Int : e = j - 1
    BY <1>4
  <2>2. h <= k /\ k - 1 <= e /\ h \in Int /\ k \in Int
    BY <1>3, <1>4, <1>5, <2>1
  <2>3. /\ Nesting(body, h, e) = Nesting(body, h, k - 1) + Nesting(body, k, e)
        /\ Nesting(body, h, k - 1) \in Int
    BY <2>2, NestingAround
  <2> QED
    BY <2>1, <2>3
<1>7. Nesting(body, h, k - 1) = Len(stack) - i
  <2>1. PICK d \in Nat : d = Len(stack)
    BY <1>4
  <2>2. d - i + 1 = Nesting(body, h, k - 1) + 1
    BY <1>3, <1>4, <1>6, <2>1
  <2> QED
    BY <1>4, <1>6, <2>1, <2>2
<1> QED
  BY <1>1, <1>2, <1>3, <1>4, <1>5, <1>7

\* The depth where the innermost construct starts.
LEMMA DepthAround ==
  ASSUME NEW body, Text(body), NEW stack, NEW j, Placed(body, stack, j), stack # <<>>
  PROVE  Nesting(body, 1, Last(stack).at - 1) = Len(stack) - 1
PROOF
<1>1. PICK k : k = Last(stack).at
  OBVIOUS
<1>2. Opens(body, k) /\ k \in Nat /\ k < j /\ Nesting(body, k, j - 1) = 1
  BY <1>1, Innermost
<1>3. j \in Nat /\ Len(stack) \in Nat /\ Nesting(body, 1, j - 1) = Len(stack) /\ k >= 1
  BY <1>2 DEF Placed, Text, Opens
<1>4. /\ Nesting(body, 1, j - 1) = Nesting(body, 1, k - 1) + Nesting(body, k, j - 1)
      /\ Nesting(body, 1, k - 1) \in Int
  <2>1. PICK e \in Int : e = j - 1
    BY <1>3
  <2>2. 1 <= k /\ k - 1 <= e /\ k \in Int
    BY <1>2, <1>3, <2>1
  <2>3. /\ Nesting(body, 1, e) = Nesting(body, 1, k - 1) + Nesting(body, k, e)
        /\ Nesting(body, 1, k - 1) \in Int
    BY <2>2, NestingAround
  <2> QED
    BY <2>1, <2>3
<1> QED
  BY <1>1, <1>2, <1>3, <1>4

\* Past a statement that neither starts nor ends a construct.
LEMMA Straight ==
  ASSUME NEW body, Text(body), NEW stack, NEW j, Placed(body, stack, j), j <= Len(body),
         body[j].do \notin Opening, body[j].do # "end"
  PROVE  Placed(body, stack, j + 1)
PROOF
<1>1. /\ j \in 1..(Len(body) + 1) /\ j \in Nat /\ Len(body) \in Nat /\ Len(stack) \in Nat
      /\ Nesting(body, 1, j - 1) = Len(stack) /\ DOMAIN stack = 1..Len(stack)
  BY DEF Placed, Text
<1>2. Nesting(body, j, j) = 0
  BY <1>1, NestingOne
<1>3. Nesting(body, 1, (j + 1) - 1) = Len(stack)
  BY <1>1, <1>2, NestingNext
<1>4. ASSUME NEW i \in DOMAIN stack
      PROVE  /\ Opens(body, stack[i].at) /\ stack[i].at < j + 1
             /\ Nesting(body, stack[i].at, (j + 1) - 1) = Len(stack) - i + 1
             /\ \A m \in stack[i].at..((j + 1) - 1) : Nesting(body, stack[i].at, m) > 0
  <2>1. PICK h : h = stack[i].at
    OBVIOUS
  <2>2. /\ Opens(body, h) /\ h < j /\ Nesting(body, h, j - 1) = Len(stack) - i + 1
        /\ \A m \in h..(j - 1) : Nesting(body, h, m) > 0
    BY <2>1 DEF Placed
  <2>3. h \in Nat
    BY <2>2, EndFacts
  <2>4. Nesting(body, h, j) = Nesting(body, h, j - 1) + Nesting(body, j, j)
    BY <1>1, <2>2, <2>3, NestingNext
  <2>5. Nesting(body, h, j) = Len(stack) - i + 1 /\ Nesting(body, h, j) > 0
    BY <1>1, <1>2, <2>2, <2>4
  <2> QED
    BY <1>1, <2>1, <2>2, <2>3, <2>5
<1> QED
  BY <1>1, <1>3, <1>4 DEF Placed

\* Into a construct.
LEMMA Pushed ==
  ASSUME NEW body, Text(body), NEW stack, NEW j, Placed(body, stack, j), j <= Len(body),
         body[j].do \in Opening, NEW x, x.at = j
  PROVE  Placed(body, Append(stack, x), j + 1)
PROOF
<1> DEFINE more == Append(stack, x)
           d == Len(stack)
<1>1. /\ j \in 1..(Len(body) + 1) /\ j \in Nat /\ Len(body) \in Nat /\ d \in Nat
      /\ Nesting(body, 1, j - 1) = d /\ DOMAIN stack = 1..d /\ DOMAIN body = 1..Len(body)
  BY DEF Placed, Text
<1>2. Nesting(body, j, j) = 1
  BY <1>1, NestingOne
<1>3. PICK S : stack \in Seq(S)
  BY DEF Placed
<1>4. /\ more \in Seq(S \union {x}) /\ Len(more) = d + 1 /\ DOMAIN more = 1..(d + 1)
      /\ more[d + 1] = x /\ \A i \in 1..d : more[i] = stack[i]
  BY <1>3
<1> HIDE DEF more
<1>5. Nesting(body, 1, (j + 1) - 1) = Len(more)
  BY <1>1, <1>2, <1>4, NestingNext
<1>6. ASSUME NEW i \in DOMAIN more
      PROVE  /\ Opens(body, more[i].at) /\ more[i].at < j + 1
             /\ Nesting(body, more[i].at, (j + 1) - 1) = Len(more) - i + 1
             /\ \A m \in more[i].at..((j + 1) - 1) : Nesting(body, more[i].at, m) > 0
  <2>1. PICK h : h = more[i].at
    OBVIOUS
  <2>2. CASE i = d + 1
    <3>1. h = j /\ Opens(body, j)
      BY <1>1, <1>4, <2>1, <2>2 DEF Opens
    <3> QED
      BY <1>1, <1>2, <1>4, <2>1, <2>2, <3>1
  <2>3. CASE i # d + 1
    <3>1. i \in 1..d /\ h = stack[i].at
      BY <1>1, <1>4, <2>1, <2>3
    <3>2. /\ Opens(body, h) /\ h < j /\ Nesting(body, h, j - 1) = d - i + 1
          /\ \A m \in h..(j - 1) : Nesting(body, h, m) > 0
      BY <1>1, <3>1 DEF Placed
    <3>3. h \in Nat
      BY <3>2, EndFacts
    <3>4. Nesting(body, h, j) = Nesting(body, h, j - 1) + Nesting(body, j, j)
      BY <1>1, <3>2, <3>3, NestingNext
    <3>5. Nesting(body, h, j) = d - i + 2 /\ Nesting(body, h, j) > 0
      BY <1>1, <1>2, <3>1, <3>2, <3>4
    <3>6. Len(more) - i + 1 = d - i + 2 /\ (j + 1) - 1 = j /\ h < j + 1
      <4>1. d \in Nat /\ i \in Nat /\ j \in Nat /\ h < j /\ Len(more) = d + 1
        BY <1>1, <1>4, <3>1, <3>2
      <4> HIDE DEF d
      <4> QED
        BY <3>3, <4>1
    <3>7. \A m \in h..j : Nesting(body, h, m) > 0
      BY <1>1, <3>2, <3>3, <3>5
    <3> QED
      BY <2>1, <3>2, <3>5, <3>6, <3>7
  <2> QED
    BY <2>2, <2>3
<1>7. \A i, l \in DOMAIN more : i < l => more[i].at < more[l].at
  <2> SUFFICES ASSUME NEW i \in DOMAIN more, NEW l \in DOMAIN more, i < l
               PROVE  more[i].at < more[l].at
    OBVIOUS
  <2>1. i \in 1..d /\ more[i] = stack[i] /\ stack[i].at < j
    BY <1>1, <1>4 DEF Placed
  <2>2. CASE l = d + 1
    BY <1>4, <2>1, <2>2
  <2>3. CASE l # d + 1
    <3>1. l \in 1..d /\ more[l] = stack[l]
      BY <1>1, <1>4, <2>3
    <3> QED
      BY <1>1, <2>1, <3>1 DEF Placed
  <2> QED
    BY <2>2, <2>3
<1>8. j + 1 \in 1..(Len(body) + 1) /\ \E Q : more \in Seq(Q)
  BY <1>1, <1>4
<1>9. Placed(body, more, j + 1)
  BY <1>5, <1>6, <1>7, <1>8 DEF Placed
<1> QED
  BY <1>9 DEF more

\* To another place inside the innermost construct.
LEMMA Moved ==
  ASSUME NEW body, Text(body), NEW stack, NEW j, Placed(body, stack, j), stack # <<>>,
         NEW m, m \in Last(stack).at..(EndOf(body, Last(stack).at) - 1),
         Nesting(body, Last(stack).at, m) = 1
  PROVE  Placed(body, stack, m + 1)
PROOF
<1> DEFINE d == Len(stack)
<1>1. PICK k : k = Last(stack).at
  OBVIOUS
<1>2. /\ d \in DOMAIN stack /\ stack[d].at = k /\ Opens(body, k) /\ k \in Nat
  BY <1>1, Innermost
<1>3. /\ EndOf(body, k) \in (k + 1)..Len(body) /\ Len(body) \in Nat /\ k >= 1 /\ m \in Nat /\ k <= m
      /\ \A i \in k..m : Nesting(body, k, i) > 0
  BY <1>1, <1>2, EndFacts DEF Text, Opens
<1>4. d \in Nat /\ DOMAIN stack = 1..d
  BY DEF Placed
<1>5. Nesting(body, 1, m) = d
  <2>1. Nesting(body, 1, m) = Nesting(body, 1, k - 1) + Nesting(body, k, m)
    BY <1>2, <1>3, NestingAround
  <2>2. Nesting(body, 1, k - 1) = d - 1
    BY <1>1, DepthAround
  <2> QED
    BY <1>1, <1>4, <2>1, <2>2
<1>6. ASSUME NEW i \in DOMAIN stack
      PROVE  /\ Opens(body, stack[i].at) /\ stack[i].at < m + 1
             /\ Nesting(body, stack[i].at, m) = d - i + 1
             /\ \A l \in stack[i].at..m : Nesting(body, stack[i].at, l) > 0
  <2>1. CASE i = d
    BY <1>1, <1>2, <1>3, <1>4, <2>1
  <2>2. CASE i # d
    <3>1. PICK h : h = stack[i].at
      OBVIOUS
    <3>2. i < d /\ i \in Nat
      BY <1>4, <2>2
    <3>3. /\ Opens(body, h) /\ h \in Nat /\ h < k /\ Nesting(body, h, k - 1) = d - i
          /\ \A l \in h..(k - 1) : Nesting(body, h, l) > 0
      BY <1>1, <3>1, <3>2, Around
    <3>4. ASSUME NEW l \in k..m
          PROVE  Nesting(body, h, l) = d - i + Nesting(body, k, l) /\ Nesting(body, k, l) \in Int
      <4>1. l \in Int /\ h \in Int /\ k \in Int /\ h <= k /\ k - 1 <= l
        BY <1>2, <1>3, <3>3
      <4>2. /\ Nesting(body, h, l) = Nesting(body, h, k - 1) + Nesting(body, k, l)
            /\ Nesting(body, k, l) \in Int
        BY <4>1, NestingAround
      <4> QED
        BY <3>3, <4>2
    <3>5. Nesting(body, h, m) = d - i + 1
      BY <1>1, <1>2, <1>3, <3>4
    <3>6. ASSUME NEW l \in h..m PROVE Nesting(body, h, l) > 0
      <4>1. CASE l < k
        BY <1>2, <3>3, <3>6, <4>1
      <4>2. CASE l >= k
        <5>1. l \in k..m
          BY <1>2, <1>3, <3>3, <4>2
        <5>2. Nesting(body, h, l) = d - i + Nesting(body, k, l) /\ Nesting(body, k, l) \in Int /\ Nesting(body, k, l) > 0
          BY <1>3, <3>4, <5>1
        <5> QED
          BY <1>4, <3>2, <5>2
      <4> QED
        BY <1>2, <1>3, <3>3, <4>1, <4>2
    <3> QED
      BY <1>2, <1>3, <3>1, <3>3, <3>5, <3>6
  <2> QED
    BY <2>1, <2>2
<1>7. m + 1 \in 1..(Len(body) + 1) /\ (m + 1) - 1 = m
  BY <1>1, <1>2, <1>3
<1> QED
  BY <1>5, <1>6, <1>7 DEF Placed

\* Out of the innermost construct.
LEMMA Left ==
  ASSUME NEW body, Text(body), NEW stack, NEW j, Placed(body, stack, j), stack # <<>>
  PROVE  Placed(body, Front(stack), EndOf(body, Last(stack).at) + 1)
PROOF
<1> DEFINE d == Len(stack)
           less == Front(stack)
<1>1. PICK k : k = Last(stack).at
  OBVIOUS
<1>2. PICK e : e = EndOf(body, k)
  OBVIOUS
<1>3. Opens(body, k) /\ k \in Nat
  BY <1>1, Innermost
<1>4. /\ e \in (k + 1)..Len(body) /\ Len(body) \in Nat /\ k >= 1 /\ e \in Nat
      /\ Nesting(body, k, e) = 0 /\ \A i \in k..(e - 1) : Nesting(body, k, i) > 0
  BY <1>2, <1>3, EndFacts DEF Text, Opens
<1>5. PICK S : stack \in Seq(S)
  BY DEF Placed
<1>6. d \in Nat /\ DOMAIN stack = 1..d /\ d >= 1
  BY <1>5
<1>7. /\ less \in Seq(S) /\ Len(less) = d - 1 /\ DOMAIN less = 1..(d - 1)
      /\ \A i \in 1..(d - 1) : less[i] = stack[i]
  BY <1>5, <1>6 DEF Front
<1> HIDE DEF less
<1>8. Nesting(body, 1, e) = d - 1
  <2>1. Nesting(body, 1, e) = Nesting(body, 1, k - 1) + Nesting(body, k, e)
    BY <1>3, <1>4, NestingAround
  <2>2. Nesting(body, 1, k - 1) = d - 1
    BY <1>1, DepthAround
  <2> QED
    BY <1>4, <1>6, <2>1, <2>2
<1>9. ASSUME NEW i \in DOMAIN less
      PROVE  /\ Opens(body, less[i].at) /\ less[i].at < e + 1
             /\ Nesting(body, less[i].at, e) = Len(less) - i + 1
             /\ \A l \in less[i].at..e : Nesting(body, less[i].at, l) > 0
  <2>1. PICK h : h = less[i].at
    OBVIOUS
  <2>2. i < d /\ i \in DOMAIN stack /\ i \in Nat /\ h = stack[i].at
    BY <1>6, <1>7, <2>1
  <2>3. /\ Opens(body, h) /\ h \in Nat /\ h < k /\ Nesting(body, h, k - 1) = d - i
        /\ \A l \in h..(k - 1) : Nesting(body, h, l) > 0
    BY <1>1, <2>2, Around
  <2>4. ASSUME NEW l \in k..e
        PROVE  Nesting(body, h, l) = d - i + Nesting(body, k, l) /\ Nesting(body, k, l) \in Int
    <3>1. l \in Int /\ h \in Int /\ k \in Int /\ h <= k /\ k - 1 <= l
      BY <1>3, <1>4, <2>3
    <3>2. /\ Nesting(body, h, l) = Nesting(body, h, k - 1) + Nesting(body, k, l)
          /\ Nesting(body, k, l) \in Int
      BY <3>1, NestingAround
    <3> QED
      BY <2>3, <3>2
  <2>5. Nesting(body, h, e) = d - i
    BY <1>3, <1>4, <1>6, <2>2, <2>4
  <2>6. ASSUME NEW l \in h..e PROVE Nesting(body, h, l) > 0
    <3>1. CASE l < k
      BY <1>3, <2>3, <2>6, <3>1
    <3>2. CASE l >= k
      <4>1. l \in k..e
        BY <1>3, <1>4, <2>3, <3>2
      <4>2. Nesting(body, k, l) >= 0
        <5>1. l = e \/ l \in k..(e - 1)
          BY <1>3, <1>4, <4>1
        <5>2. Nesting(body, k, l) \in Int
          BY <2>4, <4>1
        <5> QED
          BY <1>4, <5>1, <5>2
      <4>3. Nesting(body, h, l) = d - i + Nesting(body, k, l) /\ Nesting(body, k, l) \in Int
        BY <2>4, <4>1
      <4> QED
        BY <1>6, <2>2, <4>2, <4>3
    <3> QED
      BY <1>3, <1>4, <2>3, <3>1, <3>2
  <2>7. Len(less) - i + 1 = d - i /\ h < e + 1
    BY <1>3, <1>4, <1>6, <1>7, <2>2, <2>3
  <2> QED
    BY <2>1, <2>3, <2>5, <2>6, <2>7
<1>10. \A i, l \in DOMAIN less : i < l => less[i].at < less[l].at
  <2>1. \A i, l \in DOMAIN stack : i < l => stack[i].at < stack[l].at
    BY DEF Placed
  <2> QED
    BY <1>6, <1>7, <2>1
<1>11. e + 1 \in 1..(Len(body) + 1) /\ (e + 1) - 1 = e /\ \E Q : less \in Seq(Q)
  BY <1>4, <1>7
<1>12. Placed(body, less, e + 1)
  BY <1>7, <1>8, <1>9, <1>10, <1>11 DEF Placed
<1> QED
  BY <1>1, <1>2, <1>12 DEF less

\* Past a whole construct.
LEMMA Skipped ==
  ASSUME NEW body, Text(body), NEW stack, NEW j, Placed(body, stack, j), j <= Len(body),
         body[j].do \in Opening
  PROVE  Placed(body, stack, EndOf(body, j) + 1)
PROOF
<1> DEFINE more == Append(stack, [at |-> j])
<1>1. PICK S : stack \in Seq(S)
  BY DEF Placed
<1>2. more # <<>> /\ Last(more).at = j /\ Front(more) = stack
  BY <1>1 DEF Last, Front
<1>3. Placed(body, more, j + 1)
  BY Pushed
<1> QED
  BY <1>2, <1>3, Left

\* The places are all that matters in a stack.
LEMMA SamePlaces ==
  ASSUME NEW body, NEW stack, NEW other, NEW j, Placed(body, stack, j), \E S : other \in Seq(S),
         Len(other) = Len(stack), \A i \in DOMAIN stack : other[i].at = stack[i].at
  PROVE  Placed(body, other, j)
PROOF
<1>1. DOMAIN other = DOMAIN stack
  BY DEF Placed
<1>2. \A i, l \in DOMAIN other : i < l => other[i].at < other[l].at
  <2>1. \A i, l \in DOMAIN stack : i < l => stack[i].at < stack[l].at
    BY DEF Placed
  <2> QED
    BY <1>1, <2>1
<1>3. \A i \in DOMAIN other :
        /\ Opens(body, other[i].at) /\ other[i].at < j
        /\ Nesting(body, other[i].at, j - 1) = Len(other) - i + 1
        /\ \A m \in other[i].at..(j - 1) : Nesting(body, other[i].at, m) > 0
  BY <1>1 DEF Placed
<1>4. j \in 1..(Len(body) + 1) /\ Nesting(body, 1, j - 1) = Len(other)
  BY DEF Placed
<1> QED
  BY <1>2, <1>3, <1>4 DEF Placed

\* Before the first statement and after the last one the stack is empty.
LEMMA PlacedAtEnds ==
  ASSUME NEW body, Text(body)
  PROVE  /\ Placed(body, <<>>, 1)
         /\ \A stack : Placed(body, stack, Len(body) + 1) => stack = <<>>
PROOF
<1>1. Len(body) \in Nat
  BY DEF Text
<1>2. Placed(body, <<>>, 1)
  <2>1. Nesting(body, 1, 0) = 0
    BY NestingNone
  <2> QED
    BY <1>1, <2>1 DEF Placed
<1>3. ASSUME NEW stack, Placed(body, stack, Len(body) + 1) PROVE stack = <<>>
  <2>1. Len(stack) = 0
    <3>1. Nesting(body, 1, (Len(body) + 1) - 1) = Len(stack)
      BY <1>3 DEF Placed
    <3> QED
      BY <1>1, <3>1 DEF Text, WellNested
  <2> QED
    BY <1>3, <2>1 DEF Placed
<1> QED
  BY <1>2, <1>3

\* The middle of an if is where its else branch starts.
LEMMA MiddleFacts ==
  ASSUME NEW body, Text(body), NEW k, Opens(body, k), body[k].do = "if"
  PROVE  /\ Divides(body, k, MiddleOf(body, k)) /\ body[MiddleOf(body, k)].do = "else"
         /\ MiddleOf(body, k) \in k..(EndOf(body, k) - 1) /\ MiddleOf(body, k) \in DOMAIN body
PROOF
<1> DEFINE m == MiddleOf(body, k)
           Middle(j) == body[j].do \in {"else", "do"} /\ Nesting(body, k, j) = 1
<1>1. k \in DOMAIN body /\ DOMAIN body = 1..Len(body) /\ Len(body) \in Nat
  BY DEF Opens, Text
<1>2. Cardinality({j \in DOMAIN body : Divides(body, k, j)}) = 1
  BY <1>1 DEF Text, WellNested
<1>3. PICK j \in DOMAIN body : Divides(body, k, j)
  BY <1>2, FS_EmptySet
<1>4. Middle(j) /\ j \in k..EndOf(body, k)
  BY <1>3 DEF Divides
<1>5. Middle(m) /\ m \in k..EndOf(body, k)
  BY <1>4 DEF MiddleOf
<1>6. k \in Nat /\ EndOf(body, k) \in (k + 1)..Len(body) /\ body[EndOf(body, k)].do = "end"
  BY EndFacts
<1>7. m \in k..(EndOf(body, k) - 1) /\ m \in DOMAIN body /\ m \in Nat
  BY <1>1, <1>5, <1>6
<1>8. PICK h \in DOMAIN body : Divides(body, h, m)
  BY <1>5, <1>7 DEF Text, WellNested
<1>9. Opens(body, h) /\ m \in h..EndOf(body, h) /\ Nesting(body, h, m) = 1 /\ h \in Nat
  BY <1>1, <1>8 DEF Divides, Opens, Opening
<1>10. k <= h /\ h <= k
  <2>1. Nesting(body, h, m) <= Nesting(body, k, m) /\ Nesting(body, k, m) <= Nesting(body, h, m)
    BY <1>5, <1>9
  <2> QED
    BY <1>5, <1>9, <2>1, Ordered
<1>11. h = k
  BY <1>6, <1>9, <1>10
<1>12. Divides(body, k, m) /\ body[m].do = "else"
  BY <1>8, <1>11 DEF Divides
<1> QED
  BY <1>7, <1>12

-----------------------------------------------------------------------------
(***************************************************************************)
(* The values along the text.                                              *)
(***************************************************************************)
Programmed(p) == p \in Seq(Seq(Statement)) /\ \A f \in DOMAIN p : WellNested(p[f])

LEMMA PhaseText ==
  ASSUME NEW p, Programmed(p), NEW f \in DOMAIN p
  PROVE  Text(p[f]) /\ Len(p[f]) \in Nat /\ DOMAIN p[f] = 1..Len(p[f])
BY DEF Programmed, Text

\* A statement changes at most the tensors written by the constructs around it.
LEMMA KeptByOne ==
  ASSUME NEW p, Programmed(p), NEW f \in DOMAIN p, NEW c, NEW values, LoweredTo(p, f, c, values, Len(p[f])),
         NEW k, Opens(p[f], k), NEW j, j \in k..EndOf(p[f], k),
         NEW n \in Inouts(p, f), n \notin Writes(p[f], k), values[j][n] = values[k][n]
  PROVE  values[j + 1][n] = values[k][n]
PROOF
<1> DEFINE body == p[f]
<1>1. Text(body) /\ Len(body) \in Nat /\ DOMAIN body = 1..Len(body)
  BY PhaseText
<1>2. k \in DOMAIN body /\ j \in DOMAIN body /\ j \in Nat /\ k \in Nat /\ EndOf(body, k) \in Nat
  <2>1. k \in Nat /\ EndOf(body, k) \in (k + 1)..Len(body)
    BY <1>1, EndFacts
  <2> QED
    BY <1>1, <2>1 DEF Opens
<1>3. /\ Lowered(p, f, j, c[j], values[j], values[j + 1], values)
      /\ \A i \in 1..(Len(body) + 1) : DOMAIN values[i] = Inouts(p, f)
  BY <1>1, <1>2 DEF LoweredTo
<1>4. \A made : n \notin DOMAIN made => Over(values[j], made)[n] = values[j][n]
  BY <1>1, <1>2, <1>3 DEF Over
<1>5. \A h : Opens(body, h) /\ h \in k..EndOf(body, k) => n \notin Writes(body, h)
  BY <1>1, WritesInside
<1>6. ASSUME NEW h, Opens(body, h), j \in h..EndOf(body, h), Nesting(body, h, j) <= Nesting(body, k, j)
      PROVE  n \notin Writes(body, h)
  <2>1. k <= h /\ h \in Nat
    BY <1>1, <1>6, Ordered, EndFacts
  <2>2. h \in k..EndOf(body, k)
    BY <1>2, <1>6, <2>1
  <2> QED
    BY <1>5, <1>6, <2>2
<1>7. Nesting(body, k, j) \in Int /\ Nesting(body, k, j) >= 0 /\ (body[j].do # "end" => Nesting(body, k, j) >= 1)
  <2>1. /\ Nesting(body, k, EndOf(body, k)) = 0 /\ body[EndOf(body, k)].do = "end"
        /\ \A i \in k..(EndOf(body, k) - 1) : Nesting(body, k, i) > 0
    BY <1>1, EndFacts
  <2>2. Nesting(body, k, j) \in Int
    <3>1. k \in Int /\ j \in Int /\ k <= k /\ k - 1 <= j
      BY <1>2
    <3> QED
      BY <3>1, NestingAround
  <2>3. j = EndOf(body, k) \/ j \in k..(EndOf(body, k) - 1)
    BY <1>2
  <2> QED
    BY <2>1, <2>2, <2>3
<1>8. body[j].do \in Opening \union {"else", "do", "end", "load", "store"}
  <2>1. body[j] \in Statement
    BY <1>1, <1>2 DEF Text
  <2> QED
    BY <2>1 DEF Statement
<1>9. CASE body[j].do \in {"load", "if"}
  BY <1>3, <1>9 DEF Lowered
<1>10. CASE body[j].do = "store"
  <2>1. body[j].of \in Writes(body, k)
    BY <1>1, <1>10, WritesAre
  <2>2. c[j].args = Values(j, "stored", {body[j].of}) /\ values[j + 1] = Over(values[j], c[j].args)
    BY <1>3, <1>10 DEF Lowered
  <2>3. n \notin DOMAIN c[j].args
    BY <2>1, <2>2 DEF Values
  <2> QED
    BY <1>4, <2>2, <2>3
<1>11. CASE body[j].do \in {"root", "for", "while"}
  <2>1. Opens(body, j)
    BY <1>2, <1>11 DEF Opens, Opening
  <2>2. c[j].args = Values(j, "arg", Writes(body, j)) /\ values[j + 1] = Over(values[j], c[j].args)
    BY <1>3, <1>11 DEF Lowered
  <2>3. n \notin DOMAIN c[j].args
    BY <1>5, <2>1, <2>2 DEF Values
  <2> QED
    BY <1>4, <2>2, <2>3
<1>12. CASE body[j].do \in {"else", "do"}
  <2>1. PICK h \in DOMAIN body :
          /\ Divides(body, h, j)
          /\ body[j].do = "else" => values[j + 1] = Over(values[j], Part(values[h], Writes(body, h)))
          /\ body[j].do = "do" => /\ c[j].args = Values(j, "arg", Writes(body, h))
                                  /\ values[j + 1] = Over(values[j], c[j].args)
    BY <1>3, <1>12 DEF Lowered
  <2>2. Opens(body, h) /\ j \in h..EndOf(body, h) /\ Nesting(body, h, j) = 1
    BY <2>1 DEF Divides, Opens, Opening
  <2>3. n \notin Writes(body, h)
    BY <1>6, <1>7, <1>12, <2>2
  <2>4. n \notin DOMAIN Part(values[h], Writes(body, h)) /\ n \notin DOMAIN Values(j, "arg", Writes(body, h))
    BY <2>3 DEF Part, Values
  <2> QED
    BY <1>4, <1>12, <2>1, <2>4
<1>13. CASE body[j].do = "end"
  <2>1. PICK h \in DOMAIN body :
          /\ Opens(body, h) /\ EndOf(body, h) = j
          /\ c[j].results = Values(h, "result", Writes(body, h))
          /\ values[j + 1] = Over(values[j], c[j].results)
    BY <1>3, <1>13 DEF Lowered
  <2>2. Nesting(body, h, j) = 0 /\ j \in h..EndOf(body, h)
    BY <1>1, <1>2, <2>1, EndFacts
  <2>3. n \notin Writes(body, h)
    BY <1>6, <1>7, <2>1, <2>2
  <2> QED
    BY <1>4, <2>1, <2>3 DEF Values
<1> QED
  BY <1>8, <1>9, <1>10, <1>11, <1>12, <1>13 DEF Opening

\* Inside a construct and behind it, the tensors it does not write have the values they
\* had before it.
LEMMA Kept ==
  ASSUME NEW p, Programmed(p), NEW f \in DOMAIN p, NEW c, NEW values, LoweredTo(p, f, c, values, Len(p[f])),
         NEW k, Opens(p[f], k), NEW j, j \in k..(EndOf(p[f], k) + 1),
         NEW n \in Inouts(p, f), n \notin Writes(p[f], k)
  PROVE  values[j][n] = values[k][n]
PROOF
<1> DEFINE wrong == {i \in Nat : i \in k..(EndOf(p[f], k) + 1) /\ values[i][n] # values[k][n]}
<1>1. k \in Nat /\ EndOf(p[f], k) \in Nat
  BY PhaseText, EndFacts
<1>2. ASSUME wrong # {} PROVE FALSE
  <2>1. wrong \in SUBSET Nat
    OBVIOUS
  <2> HIDE DEF wrong
  <2>2. PICK i \in wrong : \A y \in wrong : i <= y
    BY <1>2, <2>1, LeastNumber
  <2> USE DEF wrong
  <2>3. i \in k..(EndOf(p[f], k) + 1) /\ i \in Nat /\ values[i][n] # values[k][n] /\ i # k
    BY <2>2
  <2>4. i - 1 \in k..EndOf(p[f], k) /\ i - 1 \in Nat /\ (i - 1) + 1 = i
    BY <1>1, <2>3
  <2>5. values[i - 1][n] = values[k][n]
    BY <1>1, <2>2, <2>4
  <2>6. values[(i - 1) + 1][n] = values[k][n]
    BY <2>4, <2>5, KeptByOne
  <2> QED
    BY <2>3, <2>4, <2>6
<1> QED
  BY <1>1, <1>2
-----------------------------------------------------------------------------
(***************************************************************************)
(* Lowering.                                                               *)
(***************************************************************************)
\* What an operation stands for depends on the values up to it only.
LEMMA LoweredSame ==
  ASSUME NEW p, Programmed(p), NEW f \in DOMAIN p, NEW j \in DOMAIN p[f], NEW op, NEW here, NEW next,
         NEW values, Lowered(p, f, j, op, here, next, values),
         NEW others, \A k \in 1..j : others[k] = values[k]
  PROVE  Lowered(p, f, j, op, here, next, others)
PROOF
<1>1. \A k \in DOMAIN p[f] : Divides(p[f], k, j) => others[k] = values[k]
  <2>1. SUFFICES ASSUME NEW k \in DOMAIN p[f], Divides(p[f], k, j) PROVE k \in 1..j
    OBVIOUS
  <2>2. Opens(p[f], k) /\ j \in k..EndOf(p[f], k)
    BY <2>1 DEF Divides, Opens, Opening
  <2> QED
    BY <2>2, PhaseText
<1> QED
  BY <1>1 DEF Lowered

More(values, last, next) == [j \in 1..(last + 1) |-> IF j <= last THEN values[j] ELSE next]

\* One more statement.
LEMMA Extended ==
  ASSUME NEW p, Programmed(p), NEW f \in DOMAIN p, NEW c, NEW S, c \in Seq(S), NEW values,
         NEW j \in DOMAIN p[f], Len(c) = j - 1, LoweredTo(p, f, c, values, j - 1),
         NEW op, NEW next, next = [n \in Inouts(p, f) |-> next[n]], \A n \in Inouts(p, f) : next[n][3] = n,
         Lowered(p, f, j, op, values[j], next, values)
  PROVE  LoweredTo(p, f, Append(c, op), More(values, j, next), j)
PROOF
<1> DEFINE more == More(values, j, next)
           longer == Append(c, op)
<1>1. j \in Nat /\ j >= 1 /\ DOMAIN p[f] = 1..Len(p[f]) /\ Len(p[f]) \in Nat
  BY PhaseText
<1>2. longer[j] = op /\ \A i \in 1..(j - 1) : longer[i] = c[i]
  BY <1>1
<1>3. more[j + 1] = next /\ \A i \in 1..j : more[i] = values[i]
  BY <1>1 DEF More
<1> HIDE DEF more, longer
<1>4. ASSUME NEW i \in 1..j PROVE Lowered(p, f, i, longer[i], more[i], more[i + 1], more)
  <2>1. i \in DOMAIN p[f] /\ \A k \in 1..i : more[k] = values[k]
    BY <1>1, <1>3
  <2>2. Lowered(p, f, i, longer[i], more[i], more[i + 1], values)
    <3>1. CASE i = j
      BY <1>1, <1>2, <1>3, <3>1
    <3>2. CASE i # j
      <4>1. i \in 1..(j - 1) /\ i + 1 \in 1..j
        BY <1>1, <3>2
      <4>2. Lowered(p, f, i, c[i], values[i], values[i + 1], values)
        BY <4>1 DEF LoweredTo
      <4> QED
        BY <1>2, <1>3, <4>1, <4>2
    <3> QED
      BY <3>1, <3>2
  <2> QED
    BY <2>1, <2>2, LoweredSame
<1>5. ASSUME NEW i \in 1..(j + 1)
      PROVE  more[i] = [n \in Inouts(p, f) |-> more[i][n]] /\ \A n \in Inouts(p, f) : more[i][n][3] = n
  <2>1. i = j + 1 \/ i \in 1..((j - 1) + 1)
    BY <1>1
  <2> QED
    BY <1>1, <1>3, <2>1 DEF LoweredTo
<1>6. more[1] = [n \in Inouts(p, f) |-> Param(n)]
  <2>1. values[1] = [n \in Inouts(p, f) |-> Param(n)]
    BY DEF LoweredTo
  <2>2. 1 \in 1..j
    BY <1>1
  <2> QED
    BY <1>3, <2>1, <2>2
<1>7. LoweredTo(p, f, longer, more, j)
  <2>1. \A i \in 1..(j + 1) : /\ more[i] = [n \in Inouts(p, f) |-> more[i][n]]
                              /\ \A n \in Inouts(p, f) : more[i][n][3] = n
    BY <1>5
  <2>2. \A i \in 1..j : Lowered(p, f, i, longer[i], more[i], more[i + 1], more)
    BY <1>4
  <2> QED
    BY <1>6, <2>1, <2>2, Zenon DEF LoweredTo
<1> QED
  BY <1>7 DEF longer, more

\* The phase at hand is a well nested text.
LEMMA PhaseFacts ==
  ASSUME Inv
  PROVE  /\ Programmed(program) /\ phase \in DOMAIN program /\ Body = program[phase]
         /\ Text(Body) /\ Len(Body) \in Nat /\ DOMAIN Body = 1..Len(Body) /\ at \in Nat
         /\ Len(program) \in Nat /\ DOMAIN program = 1..Len(program) /\ phase \in Nat
PROOF
<1>1. Programmed(program) /\ phase \in DOMAIN program /\ at \in Nat
  BY ProgramsAssumption DEF Inv, Programmed
<1>2. Len(program) \in Nat /\ DOMAIN program = 1..Len(program) /\ phase \in Nat
  BY <1>1 DEF Programmed
<1> QED
  BY <1>1, <1>2, PhaseText DEF Body

\* A step that emits the operation of the statement at hand.
LEMMA Emitted ==
  ASSUME Inv, stage = "lowering", at \in DOMAIN Body, NEW values, PartlyLowered(values),
         NEW op, Emit(op), NEW next, tensors' = next,
         next = [n \in Inouts(program, phase) |-> next[n]],
         \A n \in Inouts(program, phase) : next[n][3] = n,
         Lowered(program, phase, at, op, tensors, next, values),
         Placed(Body, open', at + 1),
         \A i \in DOMAIN open' : /\ open'[i].at \in 1..at
                                 /\ open'[i].names = Writes(Body, open'[i].at)
                                 /\ open'[i].before = Part(values[open'[i].at], open'[i].names)
  PROVE  Inv'
PROOF
<1> DEFINE c == code[phase]
<1> PICK j : j = at
  OBVIOUS
<1> PICK more : more = More(values, j, next)
  OBVIOUS
<1>1. /\ Programmed(program) /\ phase \in DOMAIN program /\ Body = program[phase]
      /\ Text(Body) /\ Len(Body) \in Nat /\ DOMAIN Body = 1..Len(Body) /\ at \in Nat
      /\ DOMAIN program = 1..Len(program) /\ phase \in Nat
  BY PhaseFacts
<1>2. at \in 1..Len(Body) /\ at' = at + 1
  BY <1>1 DEF Emit
<1>3. /\ UNCHANGED <<program, stage, phase, held, defined, frames, memory>>
      /\ code' = [code EXCEPT ![phase] = Append(@, op)]
  BY DEF Emit, running
<1>4. LoweringInv
  BY DEF Inv
<1>5. PICK S : c \in Seq(S)
  BY <1>1, <1>4 DEF LoweringInv
<1>6. Len(c) = at - 1 /\ tensors = values[at] /\ LoweredTo(program, phase, c, values, at - 1)
  BY DEF PartlyLowered
<1>7. LoweredTo(program, phase, Append(c, op), more, at)
  BY <1>1, <1>5, <1>6, Extended
<1>8. Append(c, op) \in Seq(S \union {op}) /\ Len(Append(c, op)) = at
  BY <1>2, <1>5, <1>6
<1>9. DOMAIN code = DOMAIN program /\ program \in Programs
  BY DEF Inv
<1>10. /\ DOMAIN code' = DOMAIN program /\ code'[phase] = Append(c, op)
       /\ \A f \in DOMAIN program : f # phase => code'[f] = code[f]
  BY <1>1, <1>3, <1>9
<1>11. PartlyLowered(more)'
  <2>1. LoweredTo(program, phase, code'[phase], more, at' - 1) /\ Len(code'[phase]) = at' - 1
    BY <1>1, <1>2, <1>7, <1>8, <1>10
  <2>2. more[at'] = tensors' /\ \A k \in 1..at : more[k] = values[k]
    BY <1>2 DEF More
  <2>3. Placed(Body', open', at')
    BY <1>2, <1>3 DEF Body
  <2>4. ASSUME NEW i \in DOMAIN open'
        PROVE  /\ open'[i].names = Writes(Body', open'[i].at)
               /\ open'[i].before = Part(more[open'[i].at], open'[i].names)
    BY <1>3, <2>2 DEF Body
  <2>5. LoweredTo(program', phase', code'[phase'], more, at' - 1) /\ Len(code'[phase']) = at' - 1
    BY <1>3, <2>1
  <2> QED
    BY <2>2, <2>3, <2>4, <2>5 DEF PartlyLowered
<1>12. LoweringInv'
  <2>1. ASSUME NEW f \in DOMAIN program
        PROVE  /\ \E Q : code'[f] \in Seq(Q)
               /\ f < phase => \E built : BuiltWith(program, f, code'[f], built)
               /\ f > phase => code'[f] = <<>>
    <3>1. CASE f = phase
      <4>1. \E Q : code'[f] \in Seq(Q)
        BY <1>8, <1>10, <3>1
      <4> QED
        BY <1>1, <3>1, <4>1
    <3>2. CASE f # phase
      BY <1>4, <1>10, <3>2 DEF LoweringInv
    <3> QED
      BY <3>1, <3>2
  <2>2. at' # 0 /\ at' \in 1..(Len(Body) + 1)
    BY <1>1, <1>2
  <2>3. \E built : PartlyLowered(built)'
    BY <1>11
  <2> QED
    BY <1>1, <1>3, <1>4, <2>1, <2>2, <2>3 DEF LoweringInv, Body
<1>13. HeldInv'
  BY <1>3 DEF Inv, HeldInv
<1> QED
  BY <1>1, <1>2, <1>3, <1>9, <1>10, <1>12, <1>13 DEF Inv
\* The values at hand, and the constructs being lowered.
AtHand(values) ==
  /\ PartlyLowered(values) /\ values[at] = tensors
  /\ DOMAIN tensors = Inouts(program, phase)
  /\ tensors = [n \in Inouts(program, phase) |-> tensors[n]]
  /\ \A n \in Inouts(program, phase) : tensors[n][3] = n
  /\ Placed(Body, open, at)
  /\ \A i \in DOMAIN open : /\ open[i].at \in 1..at
                            /\ open[i].names = Writes(Body, open[i].at)
                            /\ open[i].before = Part(values[open[i].at], open[i].names)

LEMMA AtStatement ==
  ASSUME Inv, stage = "lowering", at \in DOMAIN Body
  PROVE  \E values : AtHand(values)
PROOF
<1>1. at \in 1..Len(Body) /\ Len(Body) \in Nat /\ DOMAIN Body = 1..Len(Body) /\ Text(Body)
  BY PhaseFacts
<1>2. PICK values : PartlyLowered(values)
  BY <1>1 DEF Inv, LoweringInv
<1>3. values[at] = tensors /\ Placed(Body, open, at)
  BY <1>2 DEF PartlyLowered
<1>4. /\ tensors = [n \in Inouts(program, phase) |-> tensors[n]]
      /\ \A n \in Inouts(program, phase) : tensors[n][3] = n
  <2>1. at \in 1..((at - 1) + 1)
    BY <1>1
  <2> QED
    BY <1>2, <1>3, <2>1 DEF PartlyLowered, LoweredTo
<1>5. ASSUME NEW i \in DOMAIN open PROVE open[i].at \in 1..at
  <2>1. Opens(Body, open[i].at) /\ open[i].at < at
    BY <1>3 DEF Placed
  <2> QED
    BY <1>1, <2>1 DEF Opens
<1>6. DOMAIN tensors = Inouts(program, phase)
  BY <1>4
<1> QED
  BY <1>2, <1>3, <1>4, <1>5, <1>6 DEF PartlyLowered, AtHand

\* A step that emits an operation and stays in its construct.
LEMMA EmittedStraight ==
  ASSUME Inv, stage = "lowering", at \in DOMAIN Body, Body[at].do \in {"load", "store", "else", "do"},
         NEW values, AtHand(values), NEW op, Emit(op), UNCHANGED open, NEW next, tensors' = next,
         next = [n \in Inouts(program, phase) |-> next[n]],
         \A n \in Inouts(program, phase) : next[n][3] = n,
         Lowered(program, phase, at, op, tensors, next, values)
  PROVE  Inv'
PROOF
<1>1. Text(Body) /\ at <= Len(Body)
  BY PhaseFacts
<1>2. Placed(Body, open', at + 1)
  BY <1>1, Straight DEF Opening, AtHand
<1>3. \A i \in DOMAIN open' : /\ open'[i].at \in 1..at
                              /\ open'[i].names = Writes(Body, open'[i].at)
                              /\ open'[i].before = Part(values[open'[i].at], open'[i].names)
  BY DEF AtHand
<1>4. PartlyLowered(values)
  BY DEF AtHand
<1> QED
  BY <1>2, <1>3, <1>4, Emitted

\* New values of some tensors are values of all of them.
LEMMA OverNamed ==
  ASSUME NEW names, NEW here, DOMAIN here = names, \A n \in names : here[n][3] = n,
         NEW made, \A n \in DOMAIN made : made[n][3] = n
  PROVE  /\ Over(here, made) = [n \in names |-> Over(here, made)[n]]
         /\ \A n \in names : Over(here, made)[n][3] = n
BY DEF Over

LEMMA ValuesNamed ==
  ASSUME NEW k, NEW role, NEW names
  PROVE  /\ DOMAIN Values(k, role, names) = names
         /\ \A n \in names : Values(k, role, names)[n] = <<k, role, n>> /\ Values(k, role, names)[n][3] = n
BY DEF Values, Value

LEMMA LoadLowered == Inv /\ LowerLoad => Inv'
PROOF
<1> SUFFICES ASSUME Inv, LowerLoad PROVE Inv'
  OBVIOUS
<1>1. PICK op : op = Operation([n \in {Here.of} |-> Source(n)], Nothing, Nothing)
  OBVIOUS
<1>2. /\ stage = "lowering" /\ at \in DOMAIN Body /\ Body[at].do = "load"
      /\ Emit(op) /\ UNCHANGED <<tensors, open>>
  BY <1>1 DEF LowerLoad, In, Here
<1>3. PICK values : AtHand(values)
  BY <1>2, AtStatement
<1>4. PICK next : tensors' = next
  OBVIOUS
<1>5. Body = program[phase]
  BY DEF Body
<1>6. Lowered(program, phase, at, op, tensors, next, values)
  <2>1. op.uses = [n \in {Body[at].of} |->
                     IF n \in Inouts(program, phase) THEN tensors[n] ELSE Param(Ref(program, n))]
    BY <1>1, <1>3 DEF Operation, Source, Here, AtHand
  <2> QED
    BY <1>2, <1>4, <1>5, <2>1 DEF Lowered
<1> QED
  BY <1>2, <1>3, <1>4, <1>6, EmittedStraight DEF AtHand

LEMMA StoreLowered == Inv /\ LowerStore => Inv'
PROOF
<1> SUFFICES ASSUME Inv, LowerStore PROVE Inv'
  OBVIOUS
<1>1. PICK stored : stored = Values(at, "stored", {Here.of})
  OBVIOUS
<1>2. PICK op : op = Operation(Current({Here.of}), stored, Nothing)
  OBVIOUS
<1>3. /\ stage = "lowering" /\ at \in DOMAIN Body /\ Body[at].do = "store"
      /\ Emit(op) /\ tensors' = Over(tensors, stored) /\ UNCHANGED open
  BY <1>1, <1>2 DEF LowerStore, In, Here, Rebound, Over
<1>4. PICK values : AtHand(values)
  BY <1>3, AtStatement
<1>5. PICK next : tensors' = next
  OBVIOUS
<1>6. /\ next = [n \in Inouts(program, phase) |-> next[n]]
      /\ \A n \in Inouts(program, phase) : next[n][3] = n
  <2>1. \A n \in DOMAIN stored : stored[n][3] = n
    BY <1>1, ValuesNamed
  <2>2. /\ DOMAIN tensors = Inouts(program, phase)
        /\ \A n \in Inouts(program, phase) : tensors[n][3] = n
    BY <1>4 DEF AtHand
  <2>3. next = Over(tensors, stored)
    BY <1>3, <1>5
  <2> QED
    BY <2>1, <2>2, <2>3, OverNamed
<1>7. Body = program[phase]
  BY DEF Body
<1>8. Lowered(program, phase, at, op, tensors, next, values)
  BY <1>1, <1>2, <1>3, <1>5, <1>7 DEF Lowered, Operation, Current, Part, Here, Opening
<1> QED
  BY <1>3, <1>4, <1>5, <1>6, <1>8, EmittedStraight

\* The construct that a branch, a condition or an end belongs to.
LEMMA Belongs ==
  ASSUME Inv, stage = "lowering", at \in DOMAIN Body, Body[at].do \in {"else", "do", "end"},
         NEW values, AtHand(values)
  PROVE  LET k == Last(open).at
         IN  /\ open # <<>> /\ Opens(Body, k) /\ k \in DOMAIN Body
             /\ Last(open).names = Writes(Body, k)
             /\ Last(open).before = Part(values[k], Writes(Body, k))
             /\ Body[at].do # "end" => Divides(Body, k, at)
             /\ Body[at].do = "end" => EndOf(Body, k) = at
PROOF
<1>1. Text(Body) /\ at <= Len(Body) /\ Placed(Body, open, at)
  BY PhaseFacts DEF AtHand
<1>2. /\ open # <<>> /\ (Body[at].do # "end" => Divides(Body, Last(open).at, at))
      /\ (Body[at].do = "end" => EndOf(Body, Last(open).at) = at)
  BY <1>1, AtEnd, AtDivision
<1>3. Len(open) \in DOMAIN open /\ Last(open) = open[Len(open)] /\ Opens(Body, Last(open).at)
  BY <1>1, <1>2, Innermost
<1> QED
  BY <1>2, <1>3 DEF AtHand, Opens

LEMMA ElseLowered == Inv /\ LowerElse => Inv'
PROOF
<1> SUFFICES ASSUME Inv, LowerElse PROVE Inv'
  OBVIOUS
<1>1. PICK op : op = Operation(Current(Last(open).names), Nothing, Nothing)
  OBVIOUS
<1>2. /\ stage = "lowering" /\ at \in DOMAIN Body /\ Body[at].do = "else"
      /\ Emit(op) /\ tensors' = Over(tensors, Last(open).before) /\ UNCHANGED open
  BY <1>1 DEF LowerElse, In, Here, Rebound, Over
<1>3. PICK values : AtHand(values)
  BY <1>2, AtStatement
<1>4. PICK k : k = Last(open).at
  OBVIOUS
<1>5. PICK names : names = Writes(Body, k)
  OBVIOUS
<1>6. /\ k \in DOMAIN Body /\ Divides(Body, k, at) /\ Last(open).names = names
      /\ Last(open).before = Part(values[k], names) /\ Opens(Body, k)
  BY <1>2, <1>3, <1>4, <1>5, Belongs
<1>7. PICK next : tensors' = next
  OBVIOUS
<1>8. /\ next = [n \in Inouts(program, phase) |-> next[n]]
      /\ \A n \in Inouts(program, phase) : next[n][3] = n
  <2>1. names \subseteq Inouts(program, phase)
    BY <1>5, <1>6, PhaseFacts, WritesAre DEF Inouts
  <2>2. \A n \in Inouts(program, phase) : values[k][n][3] = n
    <3>1. k \in 1..at
      BY <1>6, PhaseFacts DEF Divides
    <3>2. k \in 1..((at - 1) + 1)
      BY <3>1, PhaseFacts
    <3>3. LoweredTo(program, phase, code[phase], values, at - 1)
      BY <1>3 DEF AtHand, PartlyLowered
    <3> QED
      BY <3>2, <3>3 DEF LoweredTo
  <2>3. \A n \in DOMAIN Last(open).before : Last(open).before[n][3] = n
    BY <1>6, <2>1, <2>2 DEF Part
  <2> QED
    BY <1>2, <1>3, <1>7, <2>3, OverNamed DEF AtHand
<1>9. Lowered(program, phase, at, op, tensors, next, values)
  <2>1. op.uses = Part(tensors, names) /\ next = Over(tensors, Part(values[k], names))
    BY <1>1, <1>2, <1>6, <1>7 DEF Operation, Current, Part
  <2>2. Body = program[phase]
    BY DEF Body
  <2> QED
    BY <1>2, <1>5, <1>6, <2>1, <2>2 DEF Lowered, Opening
<1> QED
  BY <1>2, <1>3, <1>7, <1>8, <1>9, EmittedStraight

LEMMA ConditionLowered == Inv /\ LowerCondition => Inv'
PROOF
<1> SUFFICES ASSUME Inv, LowerCondition PROVE Inv'
  OBVIOUS
<1>1. PICK args : args = Values(at, "arg", Last(open).names)
  OBVIOUS
<1>2. PICK op : op = Operation(Current(Last(open).names), args, Nothing)
  OBVIOUS
<1>3. /\ stage = "lowering" /\ at \in DOMAIN Body /\ Body[at].do = "do"
      /\ Emit(op) /\ tensors' = Over(tensors, args) /\ UNCHANGED open
  BY <1>1, <1>2 DEF LowerCondition, In, Here, Rebound, Over
<1>4. PICK values : AtHand(values)
  BY <1>3, AtStatement
<1>5. PICK k : k = Last(open).at
  OBVIOUS
<1>6. k \in DOMAIN Body /\ Divides(Body, k, at) /\ Last(open).names = Writes(Body, k)
  BY <1>3, <1>4, <1>5, Belongs
<1>7. PICK next : tensors' = next
  OBVIOUS
<1>8. /\ next = [n \in Inouts(program, phase) |-> next[n]]
      /\ \A n \in Inouts(program, phase) : next[n][3] = n
  <2>1. \A n \in DOMAIN args : args[n][3] = n
    BY <1>1, ValuesNamed
  <2>2. /\ DOMAIN tensors = Inouts(program, phase)
        /\ \A n \in Inouts(program, phase) : tensors[n][3] = n
    BY <1>4 DEF AtHand
  <2>3. next = Over(tensors, args)
    BY <1>3, <1>7
  <2> QED
    BY <2>1, <2>2, <2>3, OverNamed
<1>9. Lowered(program, phase, at, op, tensors, next, values)
  <2>1. op.uses = Part(tensors, Writes(Body, k)) /\ op.args = args /\ next = Over(tensors, args)
    BY <1>2, <1>3, <1>6, <1>7 DEF Operation, Current, Part
  <2>2. Body = program[phase]
    BY DEF Body
  <2> QED
    BY <1>1, <1>3, <1>6, <2>1, <2>2 DEF Lowered, Opening
<1> QED
  BY <1>3, <1>4, <1>7, <1>8, <1>9, EmittedStraight

\* The constructs once another one is entered.
LEMMA Opened ==
  ASSUME Inv, stage = "lowering", at \in DOMAIN Body, Body[at].do \in Opening,
         NEW values, AtHand(values), NEW entered, entered.at = at, entered.names = Writes(Body, at),
         entered.before = Current(entered.names), open' = Append(open, entered)
  PROVE  /\ Placed(Body, open', at + 1)
         /\ \A i \in DOMAIN open' : /\ open'[i].at \in 1..at
                                    /\ open'[i].names = Writes(Body, open'[i].at)
                                    /\ open'[i].before = Part(values[open'[i].at], open'[i].names)
PROOF
<1>1. Text(Body) /\ at <= Len(Body) /\ Placed(Body, open, at) /\ at \in 1..at
  BY PhaseFacts DEF AtHand
<1>2. Placed(Body, open', at + 1)
  BY <1>1, Pushed
<1>3. PICK S : open \in Seq(S)
  BY <1>1 DEF Placed
<1>4. /\ DOMAIN open' = 1..(Len(open) + 1) /\ Len(open) \in Nat /\ DOMAIN open = 1..Len(open)
      /\ open'[Len(open) + 1] = entered /\ \A i \in 1..Len(open) : open'[i] = open[i]
  BY <1>3
<1>5. entered.before = Part(values[entered.at], entered.names)
  BY DEF AtHand, Current, Part
<1>6. ASSUME NEW i \in DOMAIN open'
      PROVE  /\ open'[i].at \in 1..at
             /\ open'[i].names = Writes(Body, open'[i].at)
             /\ open'[i].before = Part(values[open'[i].at], open'[i].names)
  <2>1. CASE i = Len(open) + 1
    BY <1>1, <1>4, <1>5, <2>1
  <2>2. CASE i # Len(open) + 1
    <3>1. i \in DOMAIN open /\ open'[i] = open[i]
      BY <1>4, <2>2
    <3> QED
      BY <3>1 DEF AtHand
  <2> QED
    BY <2>1, <2>2
<1> QED
  BY <1>2, <1>6

LEMMA LoopLowered == Inv /\ LowerLoop => Inv'
PROOF
<1> SUFFICES ASSUME Inv, LowerLoop PROVE Inv'
  OBVIOUS
<1>1. PICK names : names = Writes(Body, at)
  OBVIOUS
<1>2. PICK args : args = Values(at, "arg", names)
  OBVIOUS
<1>3. PICK op : op = Operation(Current(names), args, Nothing)
  OBVIOUS
<1>4. PICK entered : entered = [at |-> at, names |-> names, before |-> Current(names)]
  OBVIOUS
<1>5. /\ stage = "lowering" /\ at \in DOMAIN Body /\ Body[at].do \in {"root", "for", "while"}
      /\ Emit(op) /\ tensors' = Over(tensors, args) /\ open' = Append(open, entered)
  BY <1>1, <1>2, <1>3, <1>4 DEF LowerLoop, In, Here, Rebound, Over
<1>6. PICK values : AtHand(values)
  BY <1>5, AtStatement
<1>7. /\ Placed(Body, open', at + 1)
      /\ \A i \in DOMAIN open' : /\ open'[i].at \in 1..at
                                 /\ open'[i].names = Writes(Body, open'[i].at)
                                 /\ open'[i].before = Part(values[open'[i].at], open'[i].names)
  <2>1. Body[at].do \in Opening
    BY <1>5 DEF Opening
  <2>2. entered.at = at /\ entered.names = Writes(Body, at) /\ entered.before = Current(entered.names)
    BY <1>1, <1>4
  <2> QED
    BY <1>5, <1>6, <2>1, <2>2, Opened
<1>8. PICK next : tensors' = next
  OBVIOUS
<1>9. /\ next = [n \in Inouts(program, phase) |-> next[n]]
      /\ \A n \in Inouts(program, phase) : next[n][3] = n
  <2>1. \A n \in DOMAIN args : args[n][3] = n
    BY <1>2, ValuesNamed
  <2>2. /\ DOMAIN tensors = Inouts(program, phase)
        /\ \A n \in Inouts(program, phase) : tensors[n][3] = n
    BY <1>6 DEF AtHand
  <2>3. next = Over(tensors, args)
    BY <1>5, <1>8
  <2> QED
    BY <2>1, <2>2, <2>3, OverNamed
<1>10. Lowered(program, phase, at, op, tensors, next, values)
  <2>1. op.uses = Part(tensors, names) /\ op.args = args /\ next = Over(tensors, args)
    BY <1>3, <1>5, <1>8 DEF Operation, Current, Part
  <2>2. Body = program[phase]
    BY DEF Body
  <2> QED
    BY <1>1, <1>2, <1>5, <2>1, <2>2 DEF Lowered
<1>11. PartlyLowered(values)
  BY <1>6 DEF AtHand
<1> QED
  BY <1>5, <1>7, <1>8, <1>9, <1>10, <1>11, Emitted

LEMMA IfLowered == Inv /\ LowerIf => Inv'
PROOF
<1> SUFFICES ASSUME Inv, LowerIf PROVE Inv'
  OBVIOUS
<1>1. PICK names : names = Writes(Body, at)
  OBVIOUS
<1>2. PICK op : op = Operation(Nothing, Nothing, Nothing)
  OBVIOUS
<1>3. PICK entered : entered = [at |-> at, names |-> names, before |-> Current(names)]
  OBVIOUS
<1>4. /\ stage = "lowering" /\ at \in DOMAIN Body /\ Body[at].do = "if"
      /\ Emit(op) /\ tensors' = tensors /\ open' = Append(open, entered)
  BY <1>1, <1>2, <1>3 DEF LowerIf, In, Here
<1>5. PICK values : AtHand(values)
  BY <1>4, AtStatement
<1>6. /\ Placed(Body, open', at + 1)
      /\ \A i \in DOMAIN open' : /\ open'[i].at \in 1..at
                                 /\ open'[i].names = Writes(Body, open'[i].at)
                                 /\ open'[i].before = Part(values[open'[i].at], open'[i].names)
  <2>1. Body[at].do \in Opening
    BY <1>4 DEF Opening
  <2>2. entered.at = at /\ entered.names = Writes(Body, at) /\ entered.before = Current(entered.names)
    BY <1>1, <1>3
  <2> QED
    BY <1>4, <1>5, <2>1, <2>2, Opened
<1>7. PICK next : tensors' = next
  OBVIOUS
<1>8. Lowered(program, phase, at, op, tensors, next, values)
  <2>1. op.uses = Nothing /\ next = tensors /\ Body = program[phase]
    BY <1>2, <1>4, <1>7 DEF Operation, Body
  <2> QED
    BY <1>4, <2>1 DEF Lowered
<1>9. PartlyLowered(values) /\ next = [n \in Inouts(program, phase) |-> next[n]]
      /\ \A n \in Inouts(program, phase) : next[n][3] = n
  BY <1>4, <1>5, <1>7 DEF AtHand
<1> QED
  BY <1>4, <1>6, <1>7, <1>8, <1>9, Emitted

LEMMA EndLowered == Inv /\ LowerEnd => Inv'
PROOF
<1> SUFFICES ASSUME Inv, LowerEnd PROVE Inv'
  OBVIOUS
<1>1. PICK k : k = Last(open).at
  OBVIOUS
<1>2. PICK names : names = Last(open).names
  OBVIOUS
<1>3. PICK results : results = Values(k, "result", names)
  OBVIOUS
<1>4. PICK op : op = Operation(Current(names), Nothing, results)
  OBVIOUS
<1>5. /\ stage = "lowering" /\ at \in DOMAIN Body /\ Body[at].do = "end"
      /\ Emit(op) /\ tensors' = Over(tensors, results) /\ open' = Front(open)
  BY <1>1, <1>2, <1>3, <1>4 DEF LowerEnd, In, Here, Rebound, Over
<1>6. PICK values : AtHand(values)
  BY <1>5, AtStatement
<1>7. open # <<>> /\ Opens(Body, k) /\ k \in DOMAIN Body /\ names = Writes(Body, k) /\ EndOf(Body, k) = at
  BY <1>1, <1>2, <1>5, <1>6, Belongs
<1>8. Text(Body) /\ Placed(Body, open, at) /\ PartlyLowered(values)
  BY <1>6, PhaseFacts DEF AtHand
<1>9. Placed(Body, open', at + 1)
  BY <1>1, <1>5, <1>7, <1>8, Left
<1>10. \A i \in DOMAIN open' : /\ open'[i].at \in 1..at
                               /\ open'[i].names = Writes(Body, open'[i].at)
                               /\ open'[i].before = Part(values[open'[i].at], open'[i].names)
  <2>1. PICK S : open \in Seq(S)
    BY <1>8 DEF Placed
  <2>2. \A i \in DOMAIN open' : i \in DOMAIN open /\ open'[i] = open[i]
    BY <1>5, <1>7, <2>1 DEF Front
  <2> QED
    BY <1>6, <2>2 DEF AtHand
<1>11. PICK next : tensors' = next
  OBVIOUS
<1>12. /\ next = [n \in Inouts(program, phase) |-> next[n]]
       /\ \A n \in Inouts(program, phase) : next[n][3] = n
  <2>1. \A n \in DOMAIN results : results[n][3] = n
    BY <1>3, ValuesNamed
  <2>2. /\ DOMAIN tensors = Inouts(program, phase)
        /\ \A n \in Inouts(program, phase) : tensors[n][3] = n
    BY <1>6 DEF AtHand
  <2>3. next = Over(tensors, results)
    BY <1>5, <1>11
  <2> QED
    BY <2>1, <2>2, <2>3, OverNamed
<1>13. Lowered(program, phase, at, op, tensors, next, values)
  <2>1. op.uses = Part(tensors, names) /\ op.results = results /\ next = Over(tensors, results)
    BY <1>4, <1>5, <1>11 DEF Operation, Current, Part
  <2>2. Body = program[phase]
    BY DEF Body
  <2> QED
    BY <1>3, <1>5, <1>7, <2>1, <2>2 DEF Lowered, Opening
<1> QED
  BY <1>5, <1>8, <1>9, <1>10, <1>11, <1>12, <1>13, Emitted
LEMMA PhaseBuilt == Inv /\ BuildPhase => Inv'
PROOF
<1> SUFFICES ASSUME Inv, BuildPhase PROVE Inv'
  OBVIOUS
<1>1. PICK first : first = [n \in Inouts(program, phase) |-> Param(n)]
  OBVIOUS
<1>2. PICK values : values = [j \in {1} |-> first]
  OBVIOUS
<1>3. /\ stage = "lowering" /\ at = 0 /\ at' = 1 /\ tensors' = first
      /\ UNCHANGED <<program, stage, phase, open, code, held, defined, frames, memory>>
  BY <1>1 DEF BuildPhase, running
<1>4. LoweringInv /\ code[phase] = <<>> /\ open = <<>>
  BY <1>3 DEF Inv, LoweringInv
<1>5. Text(Body) /\ Len(Body) \in Nat /\ phase \in DOMAIN program /\ Body' = Body
  BY <1>3, PhaseFacts DEF Body
<1>6. PartlyLowered(values)'
  <2>1. LoweredTo(program, phase, code[phase], values, 0)
    <3>1. values[1] = first /\ \A j \in 1..(0 + 1) : j = 1
      BY <1>2
    <3>2. \A n \in Inouts(program, phase) : first[n][3] = n
      BY <1>1 DEF Param, Value
    <3>3. first = [n \in Inouts(program, phase) |-> first[n]]
      BY <1>1
    <3>4. \A j \in 1..0 : FALSE
      OBVIOUS
    <3> QED
      BY <1>1, <3>1, <3>2, <3>3, <3>4 DEF LoweredTo
  <2>2. Placed(Body, <<>>, 1)
    BY <1>5, PlacedAtEnds
  <2>3. LoweredTo(program', phase', code'[phase'], values, at' - 1) /\ Len(code'[phase']) = at' - 1
    BY <1>3, <1>4, <2>1
  <2>4. tensors' = values[at'] /\ Placed(Body', open', at') /\ DOMAIN open' = {}
    BY <1>2, <1>3, <1>4, <1>5, <2>2
  <2> QED
    BY <2>3, <2>4 DEF PartlyLowered
<1>7. LoweringInv'
  <2>1. \E built : PartlyLowered(built)'
    BY <1>6
  <2>2. at' # 0 /\ at' \in 1..(Len(Body') + 1)
    BY <1>3, <1>5
  <2> QED
    BY <1>3, <1>4, <2>1, <2>2 DEF LoweringInv
<1>8. HeldInv'
  BY <1>3 DEF Inv, HeldInv
<1> QED
  BY <1>3, <1>5, <1>7, <1>8 DEF Inv

LEMMA ReturnBuilt == Inv /\ BuildReturn => Inv'
PROOF
<1> SUFFICES ASSUME Inv, BuildReturn PROVE Inv'
  OBVIOUS
<1> DEFINE c == code[phase]
<1>1. PICK op : op = Operation(Current(Inouts(program, phase)), Nothing, Nothing)
  OBVIOUS
<1>2. /\ stage = "lowering" /\ at = Len(Body) + 1 /\ at' = 0
      /\ code' = [code EXCEPT ![phase] = Append(@, op)]
      /\ phase < Len(program) => phase' = phase + 1 /\ stage' = stage
      /\ ~(phase < Len(program)) => phase' = 1 /\ stage' = "running"
      /\ UNCHANGED <<program, open, held, defined, frames, memory>>
  BY <1>1 DEF BuildReturn, running
<1>3. /\ Text(Body) /\ Len(Body) \in Nat /\ phase \in 1..Len(program) /\ Len(program) \in Nat
      /\ DOMAIN program = 1..Len(program) /\ Body = program[phase] /\ Programmed(program)
      /\ DOMAIN Body = 1..Len(Body)
  BY PhaseFacts
<1>4. LoweringInv /\ DOMAIN code = DOMAIN program /\ HeldInv /\ program \in Programs /\ frames = <<>>
  BY <1>2 DEF Inv, LoweringInv
<1>5. PICK values : PartlyLowered(values)
  BY <1>2, <1>3, <1>4 DEF LoweringInv
<1>6. LoweredTo(program, phase, c, values, Len(Body)) /\ Len(c) = Len(Body) /\ tensors = values[Len(Body) + 1]
  BY <1>2, <1>3, <1>5 DEF PartlyLowered
<1>7. open = <<>>
  BY <1>2, <1>3, <1>5, PlacedAtEnds DEF PartlyLowered
<1>8. PICK S : c \in Seq(S)
  BY <1>3, <1>4 DEF LoweringInv
<1>9. /\ Append(c, op) \in Seq(S \union {op}) /\ Append(c, op)[Len(Body) + 1] = op
      /\ \A j \in 1..Len(Body) : Append(c, op)[j] = c[j]
  BY <1>3, <1>6, <1>8
<1>10. BuiltWith(program, phase, Append(c, op), values)
  <2>1. LoweredTo(program, phase, Append(c, op), values, Len(Body))
    BY <1>6, <1>9 DEF LoweredTo
  <2>2. values[Len(Body) + 1] = [n \in Inouts(program, phase) |-> values[Len(Body) + 1][n]]
    <3>1. Len(Body) + 1 \in 1..(Len(Body) + 1)
      BY <1>3
    <3> QED
      BY <1>6, <3>1 DEF LoweredTo
  <2>3. op.uses = values[Len(Body) + 1]
    BY <1>1, <1>6, <2>2 DEF Operation, Current
  <2> QED
    BY <1>3, <1>9, <2>1, <2>3 DEF BuiltWith
<1>11. /\ DOMAIN code' = DOMAIN program /\ code'[phase] = Append(c, op)
       /\ \A f \in DOMAIN program : f # phase => code'[f] = code[f]
  BY <1>2, <1>3, <1>4
<1>12. \A f \in DOMAIN program :
         /\ \E Q : code'[f] \in Seq(Q)
         /\ f <= phase => \E built : BuiltWith(program, f, code'[f], built)
         /\ f > phase => code'[f] = <<>>
  <2>1. ASSUME NEW f \in DOMAIN program, f # phase
        PROVE  /\ \E Q : code'[f] \in Seq(Q)
               /\ f <= phase => \E built : BuiltWith(program, f, code'[f], built)
               /\ f > phase => code'[f] = <<>>
    BY <1>3, <1>4, <1>11, <2>1 DEF LoweringInv
  <2>2. /\ \E Q : code'[phase] \in Seq(Q)
        /\ \E built : BuiltWith(program, phase, code'[phase], built)
        /\ ~(phase > phase)
    BY <1>3, <1>9, <1>10, <1>11
  <2> QED
    BY <2>1, <2>2
<1>13. HeldInv'
  BY <1>2, <1>4 DEF HeldInv
<1>14. CASE phase < Len(program)
  <2>1. phase' = phase + 1 /\ stage' = stage /\ phase' \in DOMAIN program
    BY <1>2, <1>3, <1>14
  <2>2. LoweringInv'
    <3>1. \A f \in DOMAIN program :
            /\ \E Q : code'[f] \in Seq(Q)
            /\ f < phase' => \E built : BuiltWith(program, f, code'[f], built)
            /\ f >= phase' => code'[f] = <<>>
      BY <1>3, <1>12, <2>1
    <3>2. code'[phase'] = <<>>
      BY <1>3, <2>1, <3>1
    <3>3. \A f \in DOMAIN program : f > phase' => code'[f] = <<>>
      BY <1>3, <2>1, <3>1
    <3> QED
      BY <1>2, <1>4, <1>7, <3>1, <3>2, <3>3 DEF LoweringInv
  <2> QED
    BY <1>2, <1>4, <1>11, <1>13, <2>1, <2>2 DEF Inv
<1>15. CASE ~(phase < Len(program))
  <2>1. phase' = 1 /\ stage' = "running" /\ phase' \in DOMAIN program
    BY <1>2, <1>3, <1>15
  <2>2. RunningInv'
    <3>1. \A f \in DOMAIN program : f <= phase
      BY <1>3, <1>15
    <3> QED
      BY <1>2, <1>4, <1>12, <3>1 DEF RunningInv
  <2> QED
    BY <1>2, <1>4, <1>11, <1>13, <2>1, <2>2 DEF Inv
<1> QED
  BY <1>14, <1>15
-----------------------------------------------------------------------------
(***************************************************************************)
(* Running.                                                                *)
(***************************************************************************)
\* What a step passes on, and what stays in its scope.
LEMMA PassedOn ==
  ASSUME NEW k, NEW role, NEW names, NEW uses, NEW scope, NEW passed,
         passed = Pass(uses, Values(k, role, names), scope)
  PROVE  /\ scope \subseteq DOMAIN passed /\ \A n \in names : Value(k, role, n) \in DOMAIN passed
         /\ \A n \in names : passed[Value(k, role, n)] = defined[uses[n]]
         /\ \A v \in scope : (\A n \in names : v # Value(k, role, n)) => passed[v] = defined[v]
PROOF
<1> DEFINE to == Values(k, role, names)
<1>1. DOMAIN to = names /\ \A n \in names : to[n] = Value(k, role, n)
  BY DEF Values
<1> HIDE DEF to
<1>2. passed = [v \in scope \union {to[n] : n \in DOMAIN to} |->
                  IF \E n \in DOMAIN to : to[n] = v
                  THEN defined[uses[CHOOSE n \in DOMAIN to : to[n] = v]] ELSE defined[v]]
  BY DEF Pass, to
<1>3. {to[n] : n \in DOMAIN to} = {Value(k, role, n) : n \in names}
  BY <1>1
<1>4. DOMAIN passed = scope \union {Value(k, role, n) : n \in names}
  BY <1>2, <1>3
<1>5. ASSUME NEW n \in names PROVE passed[Value(k, role, n)] = defined[uses[n]]
  <2>1. n \in DOMAIN to /\ to[n] = Value(k, role, n)
    BY <1>1
  <2>2. \A m \in DOMAIN to : to[m] = Value(k, role, n) => m = n
    BY <1>1 DEF Value
  <2>3. (CHOOSE m \in DOMAIN to : to[m] = Value(k, role, n)) = n
    BY <2>1, <2>2
  <2> QED
    BY <1>2, <1>3, <2>1, <2>3
<1>6. ASSUME NEW v \in scope, \A n \in names : v # Value(k, role, n) PROVE passed[v] = defined[v]
  BY <1>1, <1>2, <1>6
<1>7. scope \subseteq DOMAIN passed /\ \A n \in names : Value(k, role, n) \in DOMAIN passed
  BY <1>4
<1> QED
  BY <1>5, <1>6, <1>7

\* A step that passes on the written tensors of a construct, and keeps the others.
LEMMA Transferred ==
  ASSUME NEW here, NEW next, NEW names, names \subseteq Inouts(program, phase),
         NEW k, NEW role, role # "param", NEW scope, NEW uses,
         \A n \in names : uses[n] = here[n] /\ next[n] = Value(k, role, n),
         \A n \in Inouts(program, phase) \ names : next[n] = here[n] /\ next[n] \in scope /\ next[n][3] = n,
         \A n \in Ins(program, phase) \union Inouts(program, phase) : Param(n) \in scope,
         NEW passed, passed = Pass(uses, Values(k, role, names), scope)
  PROVE  /\ Within(next, DOMAIN passed)
         /\ HoldMemory(here, defined) => HoldMemory(next, passed)
PROOF
<1>1. /\ scope \subseteq DOMAIN passed /\ \A n \in names : Value(k, role, n) \in DOMAIN passed
      /\ \A n \in names : passed[Value(k, role, n)] = defined[uses[n]]
      /\ \A v \in scope : (\A n \in names : v # Value(k, role, n)) => passed[v] = defined[v]
  BY PassedOn
<1>2. \A n, m : Param(m) # Value(k, role, n)
  BY DEF Param, Value
<1>3. \A n \in Inouts(program, phase) \ names : \A m \in names : next[n] # Value(k, role, m)
  BY DEF Value
<1>4. \A n \in Inouts(program, phase) \ names : passed[next[n]] = defined[here[n]]
  BY <1>1, <1>3
<1>5. \A n \in names : passed[next[n]] = defined[here[n]]
  BY <1>1
<1>6. \A n \in Ins(program, phase) : passed[Param(n)] = defined[Param(n)]
  BY <1>1, <1>2
<1>7. Within(next, DOMAIN passed)
  BY <1>1 DEF Within
<1>8. ASSUME HoldMemory(here, defined) PROVE HoldMemory(next, passed)
  BY <1>4, <1>5, <1>6, <1>8 DEF HoldMemory
<1> QED
  BY <1>7, <1>8

\* A step of the run that leaves the memory alone.
LEMMA Ran ==
  ASSUME Inv, stage = "running", at # 0, NEW values, RunWith(values),
         NEW place \in 1..(Len(Body) + 1), Go(place),
         Placed(Body, frames', place), Within(values[place], DOMAIN defined'),
         \A i \in DOMAIN frames' : /\ DOMAIN frames'[i] = {"at", "scope", "trips"}
                                   /\ Within(values[frames'[i].at], frames'[i].scope),
         WrittenOwnMemory => HoldMemory(values[place], defined')
  PROVE  Inv'
PROOF
<1>1. /\ at' = place /\ UNCHANGED <<program, stage, phase, tensors, open, code, held, memory>>
      /\ Body' = Body
  BY DEF Go, lowering, Body
<1>2. RunningInv /\ program \in Programs /\ phase \in DOMAIN program /\ DOMAIN code = DOMAIN program /\ HeldInv
  BY DEF Inv
<1>3. Len(Body) \in Nat
  BY PhaseFacts
<1>4. RunWith(values)'
  BY <1>1 DEF RunWith, Within, HoldMemory, WrittenOwnMemory
<1>5. at' # 0 /\ at' \in 1..(Len(Body') + 1) /\ \E v : RunWith(v)'
  BY <1>1, <1>3, <1>4
<1>6. RunningInv'
  BY <1>1, <1>2, <1>5 DEF RunningInv
<1>7. HeldInv'
  BY <1>1, <1>2, <1>5 DEF HeldInv, WrittenOwnMemory
<1> QED
  BY <1>1, <1>2, <1>5, <1>6, <1>7 DEF Inv

\* The operation of a statement, and the values around it.
LEMMA AtOperation ==
  ASSUME Inv, NEW values, RunWith(values), NEW j \in DOMAIN Body
  PROVE  /\ Lowered(program, phase, j, Op(j), values[j], values[j + 1], values)
         /\ LoweredTo(program, phase, code[phase], values, Len(Body))
         /\ \A i \in 1..(Len(Body) + 1) :
              DOMAIN values[i] = Inouts(program, phase) /\ \A n \in Inouts(program, phase) : values[i][n][3] = n
PROOF
<1>1. Body = program[phase] /\ DOMAIN Body = 1..Len(Body)
  BY PhaseFacts
<1>2. LoweredTo(program, phase, code[phase], values, Len(Body))
  BY <1>1 DEF RunWith, BuiltWith
<1>3. ASSUME NEW i \in 1..(Len(Body) + 1)
      PROVE  DOMAIN values[i] = Inouts(program, phase) /\ \A n \in Inouts(program, phase) : values[i][n][3] = n
  BY <1>2 DEF LoweredTo
<1> QED
  BY <1>1, <1>2, <1>3 DEF LoweredTo, Op

\* The tensors a construct writes are written by the phase.
LEMMA WritesAreInouts ==
  ASSUME Inv, NEW k, Opens(Body, k)
  PROVE  Writes(Body, k) \subseteq Inouts(program, phase)
BY PhaseFacts, WritesAre DEF Inouts

\* Behind the end of a construct its results are the values of the tensors it writes.
LEMMA BehindEnd ==
  ASSUME Inv, NEW values, RunWith(values), NEW k, Opens(Body, k)
  PROVE  LET e == EndOf(Body, k)
             names == Writes(Body, k)
         IN  /\ Op(e).results = Values(k, "result", names)
             /\ \A n \in names : values[e + 1][n] = Value(k, "result", n)
             /\ \A n \in Inouts(program, phase) \ names : values[e + 1][n] = values[k][n]
PROOF
<1>1. PICK e : e = EndOf(Body, k)
  OBVIOUS
<1>2. PICK names : names = Writes(Body, k)
  OBVIOUS
<1>3. /\ Text(Body) /\ Len(Body) \in Nat /\ DOMAIN Body = 1..Len(Body) /\ Programmed(program)
      /\ Body = program[phase] /\ phase \in DOMAIN program
  BY PhaseFacts
<1>4. k \in Nat /\ e \in (k + 1)..Len(Body) /\ e \in DOMAIN Body /\ Body[e].do = "end" /\ k >= 1
      /\ Nesting(Body, k, e) = 0
  BY <1>1, <1>3, EndFacts DEF Opens
<1>5. PICK h \in DOMAIN Body :
        /\ Opens(Body, h) /\ EndOf(Body, h) = e
        /\ Op(e).results = Values(h, "result", Writes(Body, h))
        /\ values[e + 1] = Over(values[e], Op(e).results)
  <2>1. Lowered(program, phase, e, Op(e), values[e], values[e + 1], values)
    BY <1>3, <1>4, AtOperation
  <2> QED
    BY <1>3, <1>4, <2>1 DEF Lowered, Opening
<1>6. h = k
  <2>1. h \in Nat /\ Nesting(Body, h, e) = 0 /\ e \in h..EndOf(Body, h) /\ e \in k..EndOf(Body, k)
    BY <1>1, <1>3, <1>4, <1>5, EndFacts
  <2>2. k <= h /\ h <= k
    <3>1. Nesting(Body, h, e) <= Nesting(Body, k, e) /\ Nesting(Body, k, e) <= Nesting(Body, h, e)
      BY <1>4, <2>1
    <3> QED
      BY <1>3, <1>5, <2>1, <3>1, Ordered
  <2> QED
    BY <1>4, <2>1, <2>2
<1>7. DOMAIN values[e] = Inouts(program, phase) /\ names \subseteq Inouts(program, phase)
  <2>1. e \in 1..(Len(Body) + 1)
    BY <1>3, <1>4
  <2> QED
    BY <1>2, <1>4, <2>1, AtOperation, WritesAreInouts
<1>8. \A n \in names : values[e + 1][n] = Value(k, "result", n)
  BY <1>2, <1>5, <1>6, <1>7 DEF Over, Values
<1>9. ASSUME NEW n \in Inouts(program, phase) \ names PROVE values[e + 1][n] = values[k][n]
  <2>1. e + 1 \in k..(EndOf(Body, k) + 1)
    BY <1>1, <1>4
  <2>2. LoweredTo(program, phase, code[phase], values, Len(Body))
    BY <1>4, AtOperation
  <2> QED
    BY <1>2, <1>3, <1>9, <2>1, <2>2, Kept
<1> QED
  BY <1>1, <1>2, <1>5, <1>6, <1>8, <1>9

\* Behind the start of a loop or a while, its arguments are.
LEMMA BehindStart ==
  ASSUME Inv, NEW values, RunWith(values), NEW k, Opens(Body, k), Body[k].do \in {"root", "for", "while"}
  PROVE  LET names == Writes(Body, k)
         IN  /\ Op(k).uses = Part(values[k], names) /\ Op(k).args = Values(k, "arg", names)
             /\ \A n \in names : values[k + 1][n] = Value(k, "arg", n)
             /\ \A n \in Inouts(program, phase) \ names : values[k + 1][n] = values[k][n]
PROOF
<1>1. PICK names : names = Writes(Body, k)
  OBVIOUS
<1>2. k \in DOMAIN Body /\ Len(Body) \in Nat /\ DOMAIN Body = 1..Len(Body) /\ Body = program[phase]
  BY PhaseFacts DEF Opens
<1>3. /\ Op(k).uses = Part(values[k], names) /\ Op(k).args = Values(k, "arg", names)
      /\ values[k + 1] = Over(values[k], Op(k).args)
  <2>1. Lowered(program, phase, k, Op(k), values[k], values[k + 1], values)
    BY <1>1, <1>2, AtOperation
  <2> QED
    BY <1>1, <1>2, <2>1 DEF Lowered, Opening
<1>4. DOMAIN values[k] = Inouts(program, phase) /\ names \subseteq Inouts(program, phase)
  <2>1. k \in 1..(Len(Body) + 1)
    BY <1>2
  <2> QED
    BY <1>1, <1>2, <2>1, AtOperation, WritesAreInouts
<1>5. \A n \in names : values[k + 1][n] = Value(k, "arg", n)
  BY <1>3, <1>4 DEF Over, Values
<1>6. \A n \in Inouts(program, phase) \ names : values[k + 1][n] = values[k][n]
  BY <1>3, <1>4 DEF Over, Values
<1> QED
  BY <1>1, <1>3, <1>5, <1>6

\* A region that ends yields the values at hand of the tensors its construct writes; the
\* other ones are as they were before the construct, and in the scope around it.
LEMMA Yields ==
  ASSUME Inv, stage = "running", at \in DOMAIN Body, Body[at].do \in {"else", "do", "end"},
         NEW values, RunWith(values), NEW k, k = Begin, NEW names, names = Writes(Body, k)
  PROVE  /\ frames # <<>> /\ Opens(Body, k) /\ at \in k..EndOf(Body, k)
         /\ Body[at].do # "end" => Divides(Body, k, at) /\ at < EndOf(Body, k)
         /\ Body[at].do = "end" => EndOf(Body, k) = at
         /\ Op(at).uses = Part(values[at], names) /\ names \subseteq Inouts(program, phase)
         /\ \A n \in Inouts(program, phase) \ names : values[at][n] = values[k][n] /\ values[k][n][3] = n
         /\ Within(values[k], Scope)
PROOF
<1>1. /\ Text(Body) /\ Len(Body) \in Nat /\ DOMAIN Body = 1..Len(Body) /\ Programmed(program)
      /\ Body = program[phase] /\ phase \in DOMAIN program /\ at <= Len(Body) /\ at \in Nat
  BY PhaseFacts
<1>2. Placed(Body, frames, at)
  BY DEF RunWith
<1>3. /\ frames # <<>> /\ (Body[at].do # "end" => Divides(Body, k, at))
      /\ (Body[at].do = "end" => EndOf(Body, k) = at)
  BY <1>1, <1>2, AtEnd, AtDivision DEF Begin
<1>4. /\ Len(frames) \in DOMAIN frames /\ Last(frames) = frames[Len(frames)] /\ Opens(Body, k) /\ k \in Nat
      /\ k < at /\ at <= EndOf(Body, k)
  BY <1>1, <1>2, <1>3, Innermost DEF Begin
<1>5. k \in DOMAIN Body /\ EndOf(Body, k) \in Nat /\ Body[EndOf(Body, k)].do = "end"
  BY <1>1, <1>4, EndFacts DEF Opens
<1>6. at \in k..EndOf(Body, k) /\ (Body[at].do # "end" => at < EndOf(Body, k))
  BY <1>1, <1>4, <1>5
<1>7. Op(at).uses = Part(values[at], names)
  <2>1. CASE Body[at].do \in {"else", "do"}
    <3>1. PICK h \in DOMAIN Body : Divides(Body, h, at) /\ Op(at).uses = Part(values[at], Writes(Body, h))
      <4>1. Lowered(program, phase, at, Op(at), values[at], values[at + 1], values)
        BY <1>1, <2>1, AtOperation
      <4> QED
        BY <1>1, <2>1, <4>1 DEF Lowered, Opening
    <3>2. /\ Opens(Body, h) /\ h \in Nat /\ at \in h..EndOf(Body, h) /\ Nesting(Body, h, at) = 1
          /\ Nesting(Body, k, at) = 1
      BY <1>1, <1>3, <2>1, <3>1 DEF Divides, Opens, Opening
    <3>3. h <= k /\ k <= h
      <4>1. Nesting(Body, h, at) <= Nesting(Body, k, at) /\ Nesting(Body, k, at) <= Nesting(Body, h, at)
        BY <3>2
      <4> QED
        BY <1>1, <1>4, <1>6, <3>2, <4>1, Ordered
    <3> QED
      BY <1>4, <3>1, <3>2, <3>3
  <2>2. CASE Body[at].do = "end"
    <3>1. PICK h \in DOMAIN Body : /\ Opens(Body, h) /\ EndOf(Body, h) = at
                                   /\ Op(at).uses = Part(values[at], Writes(Body, h))
      <4>1. Lowered(program, phase, at, Op(at), values[at], values[at + 1], values)
        BY <1>1, <2>2, AtOperation
      <4> QED
        BY <1>1, <2>2, <4>1 DEF Lowered, Opening
    <3>2. /\ h \in Nat /\ at \in h..EndOf(Body, h) /\ Nesting(Body, h, at) = 0 /\ Nesting(Body, k, at) = 0
      BY <1>1, <1>3, <1>4, <2>2, <3>1, EndFacts
    <3>3. h <= k /\ k <= h
      <4>1. Nesting(Body, h, at) <= Nesting(Body, k, at) /\ Nesting(Body, k, at) <= Nesting(Body, h, at)
        BY <3>2
      <4> QED
        BY <1>1, <1>4, <1>6, <3>1, <3>2, <4>1, Ordered
    <3> QED
      BY <1>4, <3>1, <3>2, <3>3
  <2> QED
    BY <2>1, <2>2
<1>8. names \subseteq Inouts(program, phase)
  BY <1>4, WritesAreInouts
<1>9. ASSUME NEW n \in Inouts(program, phase) \ names PROVE values[at][n] = values[k][n] /\ values[k][n][3] = n
  <2>1. at \in k..(EndOf(Body, k) + 1) /\ k \in 1..(Len(Body) + 1)
    BY <1>1, <1>5, <1>6
  <2>2. LoweredTo(program, phase, code[phase], values, Len(Body)) /\ values[k][n][3] = n
    BY <1>5, <2>1, AtOperation
  <2> QED
    BY <1>1, <1>4, <1>9, <2>1, <2>2, Kept
<1>10. Within(values[k], Scope)
  BY <1>4 DEF RunWith, Scope, Begin
<1> QED
  BY <1>3, <1>4, <1>6, <1>7, <1>8, <1>9, <1>10

\* The values the run is at.
LEMMA Running ==
  ASSUME Inv, stage = "running", at # 0
  PROVE  \E values : RunWith(values)
BY DEF Inv, RunningInv

\* Out of a construct, with its results.
LEMMA LeavesConstruct ==
  ASSUME Inv, stage = "running", at \in DOMAIN Body, Body[at].do \in {"else", "do", "end"},
         NEW place, place = EndOf(Body, Begin) + 1, Go(place), frames' = Front(frames),
         defined' = Pass(Op(at).uses, Op(EndOf(Body, Begin)).results, Scope)
  PROVE  Inv'
PROOF
<1>1. at # 0 /\ Text(Body) /\ Len(Body) \in Nat /\ DOMAIN Body = 1..Len(Body)
  BY PhaseFacts
<1>2. PICK values : RunWith(values)
  BY <1>1, Running
<1>3. PICK k : k = Begin
  OBVIOUS
<1>4. PICK names : names = Writes(Body, k)
  OBVIOUS
<1>5. PICK scope : scope = Scope
  OBVIOUS
<1>6. PICK uses : uses = Op(at).uses
  OBVIOUS
<1>7. /\ frames # <<>> /\ Opens(Body, k) /\ uses = Part(values[at], names)
      /\ names \subseteq Inouts(program, phase) /\ Within(values[k], scope)
      /\ \A n \in Inouts(program, phase) \ names : values[at][n] = values[k][n] /\ values[k][n][3] = n
  BY <1>2, <1>3, <1>4, <1>5, <1>6, Yields
<1>8. /\ Op(EndOf(Body, k)).results = Values(k, "result", names)
      /\ \A n \in names : values[place][n] = Value(k, "result", n)
      /\ \A n \in Inouts(program, phase) \ names : values[place][n] = values[k][n]
  BY <1>2, <1>3, <1>4, <1>7, BehindEnd
<1>9. PICK passed : passed = defined'
  OBVIOUS
<1>10. PICK here : here = values[at]
  OBVIOUS
<1>11. PICK next : next = values[place]
  OBVIOUS
<1>12. /\ \A n \in names : uses[n] = here[n] /\ next[n] = Value(k, "result", n)
       /\ \A n \in Inouts(program, phase) \ names : next[n] = here[n] /\ next[n] \in scope /\ next[n][3] = n
       /\ \A n \in Ins(program, phase) \union Inouts(program, phase) : Param(n) \in scope
  BY <1>7, <1>8, <1>10, <1>11 DEF Part, Within
<1>13. Within(next, DOMAIN passed) /\ (HoldMemory(here, defined) => HoldMemory(next, passed))
  <2>1. passed = Pass(uses, Values(k, "result", names), scope)
    BY <1>3, <1>5, <1>6, <1>8, <1>9
  <2>2. "result" # "param"
    OBVIOUS
  <2> QED
    BY <1>7, <1>12, <2>1, <2>2, Transferred
<1>14. Placed(Body, frames', place)
  BY <1>1, <1>2, <1>7, Left DEF RunWith, Begin
<1>15. \A i \in DOMAIN frames' : /\ DOMAIN frames'[i] = {"at", "scope", "trips"}
                                /\ Within(values[frames'[i].at], frames'[i].scope)
  <2>1. PICK S : frames \in Seq(S)
    BY <1>2 DEF RunWith, Placed
  <2>2. \A i \in DOMAIN frames' : i \in DOMAIN frames /\ frames'[i] = frames[i]
    BY <1>7, <2>1 DEF Front
  <2> QED
    BY <1>2, <2>2 DEF RunWith
<1>16. place \in 1..(Len(Body) + 1)
  BY <1>14 DEF Placed
<1>17. WrittenOwnMemory => HoldMemory(values[place], defined')
  BY <1>2, <1>9, <1>10, <1>11, <1>13 DEF RunWith
<1> QED
  BY <1>1, <1>2, <1>9, <1>11, <1>13, <1>14, <1>15, <1>16, <1>17, Ran

\* To the start of another region of the construct, or of the same one again, with its
\* arguments.
LEMMA RepeatsConstruct ==
  ASSUME Inv, stage = "running", at \in DOMAIN Body, Body[at].do \in {"else", "do", "end"},
         NEW values, RunWith(values),
         NEW m, m \in Begin..(EndOf(Body, Begin) - 1), Nesting(Body, Begin, m) = 1, Go(m + 1),
         Op(m).args = Values(m, "arg", Writes(Body, Begin)),
         \A n \in Writes(Body, Begin) : values[m + 1][n] = Value(m, "arg", n),
         \A n \in Inouts(program, phase) \ Writes(Body, Begin) : values[m + 1][n] = values[Begin][n],
         frames' = frames \/ frames' = AnotherTrip,
         defined' = Pass(Op(at).uses, Op(m).args, Scope)
  PROVE  Inv'
PROOF
<1>1. at # 0 /\ Text(Body) /\ Len(Body) \in Nat /\ DOMAIN Body = 1..Len(Body)
  BY PhaseFacts
<1>2. PICK k : k = Begin
  OBVIOUS
<1>3. PICK names : names = Writes(Body, k)
  OBVIOUS
<1>4. PICK scope : scope = Scope
  OBVIOUS
<1>5. PICK uses : uses = Op(at).uses
  OBVIOUS
<1>6. /\ frames # <<>> /\ Opens(Body, k) /\ uses = Part(values[at], names)
      /\ names \subseteq Inouts(program, phase) /\ Within(values[k], scope)
      /\ \A n \in Inouts(program, phase) \ names : values[at][n] = values[k][n] /\ values[k][n][3] = n
  BY <1>2, <1>3, <1>4, <1>5, Yields
<1>7. PICK passed : passed = defined'
  OBVIOUS
<1>8. PICK here : here = values[at]
  OBVIOUS
<1>9. PICK next : next = values[m + 1]
  OBVIOUS
<1>10. /\ \A n \in names : uses[n] = here[n] /\ next[n] = Value(m, "arg", n)
       /\ \A n \in Inouts(program, phase) \ names : next[n] = here[n] /\ next[n] \in scope /\ next[n][3] = n
       /\ \A n \in Ins(program, phase) \union Inouts(program, phase) : Param(n) \in scope
  BY <1>2, <1>3, <1>6, <1>8, <1>9 DEF Part, Within
<1>11. Within(next, DOMAIN passed) /\ (HoldMemory(here, defined) => HoldMemory(next, passed))
  <2>1. passed = Pass(uses, Values(m, "arg", names), scope)
    BY <1>2, <1>3, <1>4, <1>5, <1>7
  <2>2. "arg" # "param"
    OBVIOUS
  <2>3. names \subseteq Inouts(program, phase)
    BY <1>6
  <2> QED
    BY ONLY <1>10, <2>1, <2>2, <2>3, Transferred
<1>12. PICK S : frames \in Seq(S)
  BY DEF RunWith, Placed
<1>13. /\ \E Q : frames' \in Seq(Q)
       /\ Len(frames') = Len(frames) /\ DOMAIN frames' = DOMAIN frames
       /\ \A i \in DOMAIN frames : /\ frames'[i].at = frames[i].at /\ frames'[i].scope = frames[i].scope
                                   /\ DOMAIN frames'[i] = {"at", "scope", "trips"}
  <2>1. CASE frames' = frames
    BY <1>12, <2>1 DEF RunWith
  <2>2. CASE frames' = AnotherTrip
    <3>1. PICK last : last = [frames[Len(frames)] EXCEPT !.trips = @ + 1]
      OBVIOUS
    <3>2. Len(frames) \in DOMAIN frames /\ DOMAIN frames = 1..Len(frames)
      BY <1>6, <1>12
    <3>3. /\ DOMAIN last = {"at", "scope", "trips"}
          /\ last.at = frames[Len(frames)].at /\ last.scope = frames[Len(frames)].scope
      BY <3>1, <3>2 DEF RunWith
    <3>4. frames' = [frames EXCEPT ![Len(frames)] = last]
      BY <2>2, <3>1, <3>2 DEF AnotherTrip
    <3>5. frames' \in Seq(S \union {last}) /\ Len(frames') = Len(frames) /\ DOMAIN frames' = DOMAIN frames
      BY <1>12, <3>2, <3>4
    <3>6. \A i \in DOMAIN frames : frames'[i] = IF i = Len(frames) THEN last ELSE frames[i]
      BY <1>12, <3>4
    <3>7. \A i \in DOMAIN frames : DOMAIN frames[i] = {"at", "scope", "trips"}
      BY DEF RunWith
    <3> QED
      BY <3>3, <3>5, <3>6, <3>7
  <2> QED
    BY <2>1, <2>2
<1>14. Placed(Body, frames', m + 1)
  <2>1. Placed(Body, frames, m + 1)
    BY <1>1, <1>6, Moved DEF RunWith, Begin
  <2> QED
    BY <1>13, <2>1, SamePlaces
<1>15. \A i \in DOMAIN frames' : /\ DOMAIN frames'[i] = {"at", "scope", "trips"}
                                /\ Within(values[frames'[i].at], frames'[i].scope)
  BY <1>13 DEF RunWith
<1>16. m + 1 \in 1..(Len(Body) + 1)
  BY <1>14 DEF Placed
<1>17. WrittenOwnMemory => HoldMemory(values[m + 1], defined')
  BY <1>7, <1>8, <1>9, <1>11 DEF RunWith
<1> QED
  BY <1>1, <1>7, <1>9, <1>11, <1>14, <1>15, <1>16, <1>17, Ran

\* The regions once another one is entered.
LEMMA Inward ==
  ASSUME Inv, stage = "running", at \in DOMAIN Body, Body[at].do \in Opening, NEW values, RunWith(values),
         NEW trips, frames' = Entered(trips)
  PROVE  /\ Placed(Body, frames', at + 1) /\ Last(frames').at = at /\ frames' # <<>>
         /\ \A i \in DOMAIN frames' : /\ DOMAIN frames'[i] = {"at", "scope", "trips"}
                                      /\ Within(values[frames'[i].at], frames'[i].scope)
PROOF
<1>1. PICK entered : entered = [at |-> at, scope |-> DOMAIN defined, trips |-> trips]
  OBVIOUS
<1>2. /\ entered.at = at /\ entered.scope = DOMAIN defined
      /\ DOMAIN entered = {"at", "scope", "trips"} /\ frames' = Append(frames, entered)
  BY <1>1 DEF Entered
<1>3. Text(Body) /\ at <= Len(Body) /\ Placed(Body, frames, at)
  BY PhaseFacts DEF RunWith
<1>4. Placed(Body, frames', at + 1)
  BY <1>2, <1>3, Pushed
<1>5. PICK S : frames \in Seq(S)
  BY <1>3 DEF Placed
<1>6. /\ DOMAIN frames' = 1..(Len(frames) + 1) /\ Len(frames) \in Nat /\ DOMAIN frames = 1..Len(frames)
      /\ frames'[Len(frames) + 1] = entered /\ \A i \in 1..Len(frames) : frames'[i] = frames[i]
      /\ Last(frames') = entered /\ frames' # <<>>
  BY <1>2, <1>5 DEF Last
<1>7. ASSUME NEW i \in DOMAIN frames'
      PROVE  /\ DOMAIN frames'[i] = {"at", "scope", "trips"}
             /\ Within(values[frames'[i].at], frames'[i].scope)
  <2>1. CASE i = Len(frames) + 1
    BY <1>2, <1>6, <2>1 DEF RunWith
  <2>2. CASE i # Len(frames) + 1
    <3>1. i \in DOMAIN frames /\ frames'[i] = frames[i]
      BY <1>6, <2>2
    <3> QED
      BY <3>1 DEF RunWith
  <2> QED
    BY <2>1, <2>2
<1> QED
  BY <1>2, <1>4, <1>6, <1>7

\* From the start of a loop or a while, into it or past it: the tensors it writes are passed
\* on, and everything else stays in scope.
LEMMA Starts ==
  ASSUME Inv, stage = "running", at \in DOMAIN Body, Body[at].do \in {"root", "for", "while"},
         NEW values, RunWith(values), NEW role, role # "param", NEW place, NEW passed,
         passed = Pass(Op(at).uses, Values(at, role, Writes(Body, at)), DOMAIN defined),
         \A n \in Writes(Body, at) : values[place][n] = Value(at, role, n),
         \A n \in Inouts(program, phase) \ Writes(Body, at) : values[place][n] = values[at][n]
  PROVE  /\ Within(values[place], DOMAIN passed)
         /\ WrittenOwnMemory => HoldMemory(values[place], passed)
PROOF
<1>1. PICK names : names = Writes(Body, at)
  OBVIOUS
<1>2. PICK scope : scope = DOMAIN defined
  OBVIOUS
<1>3. PICK uses : uses = Op(at).uses
  OBVIOUS
<1>4. PICK k : k = at
  OBVIOUS
<1>5. Opens(Body, at) /\ at \in 1..(Len(Body) + 1)
  BY PhaseFacts DEF Opens, Opening
<1>6. uses = Part(values[at], names) /\ names \subseteq Inouts(program, phase)
  BY <1>1, <1>3, <1>5, BehindStart, WritesAreInouts
<1>7. \A n \in Inouts(program, phase) : values[at][n][3] = n
  BY <1>5, AtOperation
<1>8. PICK here : here = values[at]
  OBVIOUS
<1>9. PICK next : next = values[place]
  OBVIOUS
<1>10. Within(here, scope) /\ (WrittenOwnMemory => HoldMemory(here, defined))
  BY <1>2, <1>8 DEF RunWith
<1>11. /\ \A n \in names : uses[n] = here[n] /\ next[n] = Value(k, role, n)
       /\ \A n \in Inouts(program, phase) \ names : next[n] = here[n] /\ next[n] \in scope /\ next[n][3] = n
       /\ \A n \in Ins(program, phase) \union Inouts(program, phase) : Param(n) \in scope
  BY <1>1, <1>4, <1>6, <1>7, <1>8, <1>9, <1>10 DEF Part, Within
<1>12. passed = Pass(uses, Values(k, role, names), scope)
  BY <1>1, <1>2, <1>3, <1>4
<1>13. names \subseteq Inouts(program, phase) /\ role # "param"
  BY <1>6
<1>14. Within(next, DOMAIN passed) /\ (HoldMemory(here, defined) => HoldMemory(next, passed))
  BY ONLY <1>11, <1>12, <1>13, Transferred
<1> QED
  BY <1>9, <1>10, <1>14

LEMMA ConstructEntered == Inv /\ (EnterLoop \/ EnterWhile) => Inv'
PROOF
<1> SUFFICES ASSUME Inv, EnterLoop \/ EnterWhile PROVE Inv'
  OBVIOUS
<1>1. PICK trips : frames' = Entered(trips)
  BY DEF EnterLoop, EnterWhile
<1>2. /\ stage = "running" /\ at \in DOMAIN Body /\ Body[at].do \in {"root", "for", "while"}
      /\ defined' = Pass(Op(at).uses, Op(at).args, DOMAIN defined) /\ Go(at + 1)
  BY DEF EnterLoop, EnterWhile, In, Here
<1>3. at # 0 /\ at \in 1..Len(Body) /\ Len(Body) \in Nat
  BY <1>2, PhaseFacts
<1>4. PICK values : RunWith(values)
  BY <1>2, <1>3, Running
<1>5. Opens(Body, at) /\ Body[at].do \in Opening
  BY <1>2 DEF Opens, Opening
<1>6. /\ Op(at).args = Values(at, "arg", Writes(Body, at))
      /\ \A n \in Writes(Body, at) : values[at + 1][n] = Value(at, "arg", n)
      /\ \A n \in Inouts(program, phase) \ Writes(Body, at) : values[at + 1][n] = values[at][n]
  BY <1>2, <1>4, <1>5, BehindStart
<1>7. PICK passed : passed = defined'
  OBVIOUS
<1>8. PICK place : place = at + 1
  OBVIOUS
<1>9. /\ Within(values[place], DOMAIN passed)
      /\ WrittenOwnMemory => HoldMemory(values[place], passed)
  BY <1>2, <1>4, <1>6, <1>7, <1>8, Starts
<1>10. /\ Placed(Body, frames', place)
       /\ \A i \in DOMAIN frames' : /\ DOMAIN frames'[i] = {"at", "scope", "trips"}
                                    /\ Within(values[frames'[i].at], frames'[i].scope)
  BY <1>1, <1>2, <1>4, <1>5, <1>8, Inward
<1>11. place \in 1..(Len(Body) + 1) /\ Go(place)
  BY <1>2, <1>3, <1>8
<1> QED
  BY <1>2, <1>3, <1>4, <1>7, <1>9, <1>10, <1>11, Ran

LEMMA LoopSkipped == Inv /\ SkipLoop => Inv'
PROOF
<1> SUFFICES ASSUME Inv, SkipLoop PROVE Inv'
  OBVIOUS
<1>1. PICK place : place = EndOf(Body, at) + 1
  OBVIOUS
<1>2. /\ stage = "running" /\ at \in DOMAIN Body /\ Body[at].do \in {"root", "for"} /\ frames' = frames
      /\ defined' = Pass(Op(at).uses, Op(EndOf(Body, at)).results, DOMAIN defined) /\ Go(place)
  BY <1>1 DEF SkipLoop, In, Here
<1>3. at # 0 /\ at \in 1..Len(Body) /\ Len(Body) \in Nat /\ Text(Body)
  BY <1>2, PhaseFacts
<1>4. PICK values : RunWith(values)
  BY <1>2, <1>3, Running
<1>5. Opens(Body, at) /\ Body[at].do \in Opening
  BY <1>2 DEF Opens, Opening
<1>6. /\ Op(EndOf(Body, at)).results = Values(at, "result", Writes(Body, at))
      /\ \A n \in Writes(Body, at) : values[place][n] = Value(at, "result", n)
      /\ \A n \in Inouts(program, phase) \ Writes(Body, at) : values[place][n] = values[at][n]
  BY <1>1, <1>4, <1>5, BehindEnd
<1>7. PICK passed : passed = defined'
  OBVIOUS
<1>8. /\ Within(values[place], DOMAIN passed)
      /\ WrittenOwnMemory => HoldMemory(values[place], passed)
  BY <1>2, <1>4, <1>6, <1>7, Starts
<1>9. Placed(Body, frames', place)
  BY <1>1, <1>2, <1>3, <1>4, <1>5, Skipped DEF RunWith
<1>10. \A i \in DOMAIN frames' : /\ DOMAIN frames'[i] = {"at", "scope", "trips"}
                                 /\ Within(values[frames'[i].at], frames'[i].scope)
  BY <1>2, <1>4 DEF RunWith
<1>11. place \in 1..(Len(Body) + 1)
  BY <1>9 DEF Placed
<1> QED
  BY <1>2, <1>3, <1>4, <1>7, <1>8, <1>9, <1>10, <1>11, Ran

LEMMA Branched == Inv /\ Branch => Inv'
PROOF
<1> SUFFICES ASSUME Inv, Branch PROVE Inv'
  OBVIOUS
<1>1. /\ stage = "running" /\ at \in DOMAIN Body /\ Body[at].do = "if" /\ frames' = Entered(1)
      /\ Go(at + 1) \/ Go(MiddleOf(Body, at) + 1)
      /\ defined' = defined
  BY DEF Branch, In, Here
<1>2. /\ at # 0 /\ at \in 1..Len(Body) /\ Len(Body) \in Nat /\ Text(Body) /\ Body = program[phase]
      /\ DOMAIN Body = 1..Len(Body) /\ Programmed(program) /\ phase \in DOMAIN program
  BY <1>1, PhaseFacts
<1>3. PICK values : RunWith(values)
  BY <1>1, <1>2, Running
<1>4. Opens(Body, at) /\ Body[at].do \in Opening
  BY <1>1 DEF Opens, Opening
<1>5. /\ Placed(Body, frames', at + 1) /\ Last(frames').at = at /\ frames' # <<>>
      /\ \A i \in DOMAIN frames' : /\ DOMAIN frames'[i] = {"at", "scope", "trips"}
                                   /\ Within(values[frames'[i].at], frames'[i].scope)
  BY <1>1, <1>3, <1>4, Inward
<1>6. PICK m : m = MiddleOf(Body, at)
  OBVIOUS
<1>7. Divides(Body, at, m) /\ Body[m].do = "else" /\ m \in at..(EndOf(Body, at) - 1) /\ m \in DOMAIN Body
  BY <1>1, <1>2, <1>4, <1>6, MiddleFacts
<1>8. values[at + 1] = values[at]
  <2>1. Lowered(program, phase, at, Op(at), values[at], values[at + 1], values)
    BY <1>1, <1>3, AtOperation
  <2> QED
    BY <1>1, <1>2, <2>1 DEF Lowered
<1>9. \A n \in Inouts(program, phase) : values[m + 1][n] = values[at][n]
  <2>1. PICK h \in DOMAIN Body :
          Divides(Body, h, m) /\ values[m + 1] = Over(values[m], Part(values[h], Writes(Body, h)))
    <3>1. Lowered(program, phase, m, Op(m), values[m], values[m + 1], values)
      BY <1>3, <1>7, AtOperation
    <3> QED
      BY <1>2, <1>7, <3>1 DEF Lowered
  <2>2. h = at
    <3>1. /\ Opens(Body, h) /\ h \in Nat /\ at \in Nat /\ m \in h..EndOf(Body, h)
          /\ m \in at..EndOf(Body, at)
          /\ Nesting(Body, h, m) = 1 /\ Nesting(Body, at, m) = 1
      BY <1>2, <1>7, <2>1 DEF Divides, Opens, Opening
    <3>2. h <= at /\ at <= h
      <4>1. Nesting(Body, h, m) <= Nesting(Body, at, m) /\ Nesting(Body, at, m) <= Nesting(Body, h, m)
        BY <3>1
      <4> QED
        BY <1>2, <1>4, <3>1, <4>1, Ordered
    <3> QED
      BY <3>1, <3>2
  <2>3. DOMAIN values[m] = Inouts(program, phase)
    <3>1. m \in 1..(Len(Body) + 1)
      BY <1>2, <1>7
    <3> QED
      BY <1>3, <1>7, <3>1, AtOperation
  <2>4. ASSUME NEW n \in Inouts(program, phase) PROVE values[m + 1][n] = values[at][n]
    <3>1. CASE n \in Writes(Body, at)
      BY <2>1, <2>2, <2>3, <3>1 DEF Over, Part
    <3>2. CASE n \notin Writes(Body, at)
      <4>1. values[m + 1][n] = values[m][n]
        BY <2>1, <2>2, <2>3, <3>2 DEF Over, Part
      <4>2. m \in at..(EndOf(Body, at) + 1)
        BY <1>2, <1>4, <1>7, EndFacts
      <4>3. LoweredTo(program, phase, code[phase], values, Len(Body))
        BY <1>3, <1>7, AtOperation
      <4>4. values[m][n] = values[at][n]
        BY <1>2, <1>4, <3>2, <4>2, <4>3, Kept
      <4> QED
        BY <4>1, <4>4
    <3> QED
      BY <3>1, <3>2
  <2> QED
    BY <2>4
<1>10. Within(values[at], DOMAIN defined) /\ (WrittenOwnMemory => HoldMemory(values[at], defined))
  BY <1>3 DEF RunWith
<1>11. CASE Go(at + 1)
  <2>1. PICK place : place = at + 1
    OBVIOUS
  <2>2. place \in 1..(Len(Body) + 1) /\ Go(place) /\ Placed(Body, frames', place)
    BY <1>2, <1>5, <1>11, <2>1
  <2>3. Within(values[place], DOMAIN defined') /\ (WrittenOwnMemory => HoldMemory(values[place], defined'))
    BY <1>1, <1>8, <1>10, <2>1
  <2> QED
    BY <1>1, <1>2, <1>3, <1>5, <2>2, <2>3, Ran
<1>12. CASE Go(m + 1)
  <2>1. PICK place : place = m + 1
    OBVIOUS
  <2>2. Placed(Body, frames', place)
    <3>1. Nesting(Body, at, m) = 1
      BY <1>7 DEF Divides
    <3> QED
      BY <1>2, <1>5, <1>7, <2>1, <3>1, Moved
  <2>3. place \in 1..(Len(Body) + 1) /\ Go(place)
    BY <1>12, <2>1, <2>2 DEF Placed
  <2>4. Within(values[place], DOMAIN defined') /\ (WrittenOwnMemory => HoldMemory(values[place], defined'))
    BY <1>1, <1>9, <1>10, <2>1 DEF Within, HoldMemory
  <2> QED
    BY <1>1, <1>2, <1>3, <1>5, <2>2, <2>3, <2>4, Ran
<1> QED
  BY <1>1, <1>6, <1>11, <1>12

\* The innermost region of a loop or a while at its end.
LEMMA AtLoopEnd ==
  ASSUME Inv, stage = "running", at \in DOMAIN Body, Body[at].do = "end", NEW values, RunWith(values)
  PROVE  /\ Opens(Body, Begin) /\ Begin \in Nat /\ EndOf(Body, Begin) = at
         /\ Begin \in Begin..(EndOf(Body, Begin) - 1) /\ Nesting(Body, Begin, Begin) = 1
PROOF
<1>1. Text(Body)
  BY PhaseFacts
<1>2. PICK k : k = Begin
  OBVIOUS
<1>3. Opens(Body, k) /\ EndOf(Body, k) = at
  BY <1>2, Yields
<1>4. k \in Nat /\ EndOf(Body, k) \in (k + 1)..Len(Body)
  BY <1>1, <1>3, EndFacts
<1>5. Nesting(Body, k, k) = 1
  BY <1>3, <1>4, NestingOne DEF Opens
<1> QED
  BY <1>2, <1>3, <1>4, <1>5

LEMMA ConstructLeft == Inv /\ (Leave \/ LeaveThen \/ ConditionFails) => Inv'
PROOF
<1> SUFFICES ASSUME Inv, Leave \/ LeaveThen \/ ConditionFails PROVE Inv'
  OBVIOUS
<1>1. PICK last : last = EndOf(Body, Begin)
  OBVIOUS
<1>2. PICK place : place = last + 1
  OBVIOUS
<1>3. CASE Leave
  <2>1. /\ stage = "running" /\ at \in DOMAIN Body /\ Body[at].do = "end" /\ frames' = Front(frames)
        /\ defined' = Pass(Op(at).uses, Op(at).results, Scope) /\ Go(at + 1)
    BY <1>3 DEF Leave, In, Here
  <2>2. PICK values : RunWith(values)
    BY <2>1, Running, PhaseFacts
  <2>3. last = at
    BY <1>1, <2>1, <2>2, AtLoopEnd
  <2> QED
    BY <1>1, <1>2, <2>1, <2>3, LeavesConstruct
<1>4. CASE LeaveThen \/ ConditionFails
  <2>1. /\ stage = "running" /\ at \in DOMAIN Body /\ Body[at].do \in {"else", "do"}
        /\ frames' = Front(frames)
        /\ defined' = Pass(Op(at).uses, Op(last).results, Scope) /\ Go(place)
    BY <1>1, <1>2, <1>4 DEF LeaveThen, ConditionFails, In, Here
  <2> QED
    BY <1>1, <1>2, <2>1, LeavesConstruct
<1> QED
  BY <1>3, <1>4

LEMMA LoopRepeated == Inv /\ (LoopAgain \/ WhileAgain) => Inv'
PROOF
<1> SUFFICES ASSUME Inv, LoopAgain \/ WhileAgain PROVE Inv'
  OBVIOUS
<1>1. PICK m : m = Begin
  OBVIOUS
<1>2. /\ stage = "running" /\ at \in DOMAIN Body /\ Body[at].do = "end"
      /\ Body[m].do \in {"root", "for", "while"}
      /\ defined' = Pass(Op(at).uses, Op(m).args, Scope) /\ Go(m + 1)
      /\ frames' = frames \/ frames' = AnotherTrip
  BY <1>1 DEF LoopAgain, WhileAgain, In, Here
<1>3. PICK values : RunWith(values)
  BY <1>2, Running, PhaseFacts
<1>4. Opens(Body, m) /\ m \in Begin..(EndOf(Body, Begin) - 1) /\ Nesting(Body, Begin, m) = 1
  BY <1>1, <1>2, <1>3, AtLoopEnd
<1>5. /\ Op(m).args = Values(m, "arg", Writes(Body, m))
      /\ \A n \in Writes(Body, m) : values[m + 1][n] = Value(m, "arg", n)
      /\ \A n \in Inouts(program, phase) \ Writes(Body, m) : values[m + 1][n] = values[m][n]
  BY <1>2, <1>3, <1>4, BehindStart
<1> QED
  BY <1>1, <1>2, <1>3, <1>4, <1>5, RepeatsConstruct

LEMMA ConditionHeld == Inv /\ ConditionHolds => Inv'
PROOF
<1> SUFFICES ASSUME Inv, ConditionHolds PROVE Inv'
  OBVIOUS
<1>1. PICK k : k = Begin
  OBVIOUS
<1>2. PICK names : names = Writes(Body, k)
  OBVIOUS
<1>3. /\ stage = "running" /\ at \in DOMAIN Body /\ Body[at].do = "do" /\ frames' = AnotherTrip
      /\ defined' = Pass(Op(at).uses, Op(at).args, Scope) /\ Go(at + 1)
  BY DEF ConditionHolds, In, Here
<1>4. PICK values : RunWith(values)
  BY <1>3, Running, PhaseFacts
<1>5. /\ Text(Body) /\ Len(Body) \in Nat /\ DOMAIN Body = 1..Len(Body) /\ Body = program[phase]
      /\ Programmed(program) /\ phase \in DOMAIN program
  BY PhaseFacts
<1>6. /\ Opens(Body, k) /\ Divides(Body, k, at) /\ at \in k..EndOf(Body, k) /\ at < EndOf(Body, k)
      /\ names \subseteq Inouts(program, phase)
      /\ \A n \in Inouts(program, phase) \ names : values[at][n] = values[k][n]
  BY <1>1, <1>2, <1>3, <1>4, Yields
<1>7. k \in Nat /\ EndOf(Body, k) \in (k + 1)..Len(Body)
  BY <1>5, <1>6, EndFacts
<1>8. at \in k..(EndOf(Body, k) - 1) /\ Nesting(Body, k, at) = 1
  BY <1>6, <1>7 DEF Divides
<1>9. PICK h \in DOMAIN Body :
        /\ Divides(Body, h, at) /\ Op(at).args = Values(at, "arg", Writes(Body, h))
        /\ values[at + 1] = Over(values[at], Op(at).args)
  <2>1. Lowered(program, phase, at, Op(at), values[at], values[at + 1], values)
    BY <1>3, <1>4, AtOperation
  <2> QED
    BY <1>3, <1>5, <2>1 DEF Lowered
<1>10. h = k
  <2>1. Opens(Body, h) /\ h \in Nat /\ at \in h..EndOf(Body, h) /\ Nesting(Body, h, at) = 1
    BY <1>5, <1>9 DEF Divides, Opens, Opening
  <2>2. h <= k /\ k <= h
    <3>1. Nesting(Body, h, at) <= Nesting(Body, k, at) /\ Nesting(Body, k, at) <= Nesting(Body, h, at)
      BY <1>8, <2>1
    <3> QED
      BY <1>5, <1>6, <2>1, <3>1, Ordered
  <2> QED
    BY <1>7, <2>1, <2>2
<1>11. DOMAIN values[at] = Inouts(program, phase)
  <2>1. at \in 1..(Len(Body) + 1)
    BY <1>3, <1>5
  <2> QED
    BY <1>3, <1>4, <2>1, AtOperation
<1>12. /\ Op(at).args = Values(at, "arg", names)
       /\ \A n \in names : values[at + 1][n] = Value(at, "arg", n)
       /\ \A n \in Inouts(program, phase) \ names : values[at + 1][n] = values[k][n]
  BY <1>2, <1>6, <1>9, <1>10, <1>11 DEF Over, Values
<1>13. PICK m : m = at
  OBVIOUS
<1>14. /\ m \in Begin..(EndOf(Body, Begin) - 1) /\ Nesting(Body, Begin, m) = 1 /\ Go(m + 1)
       /\ Op(m).args = Values(m, "arg", Writes(Body, Begin))
       /\ \A n \in Writes(Body, Begin) : values[m + 1][n] = Value(m, "arg", n)
       /\ \A n \in Inouts(program, phase) \ Writes(Body, Begin) : values[m + 1][n] = values[Begin][n]
       /\ defined' = Pass(Op(at).uses, Op(m).args, Scope)
  BY <1>1, <1>2, <1>3, <1>8, <1>12, <1>13
<1> QED
  BY <1>3, <1>4, <1>14, RepeatsConstruct

LEMMA LoadRun == Inv /\ RunLoad => Inv'
PROOF
<1> SUFFICES ASSUME Inv, RunLoad PROVE Inv'
  OBVIOUS
<1>1. /\ stage = "running" /\ at \in DOMAIN Body /\ Body[at].do = "load" /\ Go(at + 1)
      /\ defined' = defined /\ frames' = frames
  BY DEF RunLoad, In, Here
<1>2. /\ at # 0 /\ at \in 1..Len(Body) /\ Len(Body) \in Nat /\ Text(Body) /\ Body = program[phase]
  BY <1>1, PhaseFacts
<1>3. PICK values : RunWith(values)
  BY <1>1, <1>2, Running
<1>4. PICK place : place = at + 1
  OBVIOUS
<1>5. values[place] = values[at]
  <2>1. Lowered(program, phase, at, Op(at), values[at], values[at + 1], values)
    BY <1>1, <1>3, AtOperation
  <2> QED
    BY <1>1, <1>2, <1>4, <2>1 DEF Lowered
<1>6. Placed(Body, frames', place)
  BY <1>1, <1>2, <1>3, <1>4, Straight DEF RunWith, Opening
<1>7. /\ Within(values[place], DOMAIN defined')
      /\ WrittenOwnMemory => HoldMemory(values[place], defined')
      /\ \A i \in DOMAIN frames' : /\ DOMAIN frames'[i] = {"at", "scope", "trips"}
                                   /\ Within(values[frames'[i].at], frames'[i].scope)
  BY <1>1, <1>3, <1>5 DEF RunWith
<1>8. place \in 1..(Len(Body) + 1) /\ Go(place)
  BY <1>1, <1>2, <1>4
<1> QED
  BY <1>1, <1>2, <1>3, <1>6, <1>7, <1>8, Ran

\* The tensors of a phase are tensors of the program; a written one that owns its memory
\* is its own storage.
LEMMA NamesOfPhase ==
  ASSUME Inv
  PROVE  /\ \A n \in Ins(program, phase) \union Inouts(program, phase) : n \in Refs(program)
         /\ \A n \in Ins(program, phase) : n \notin Inouts(program, phase)
         /\ \A n \in Inouts(program, phase) : n \in Written(program) /\ Ref(program, n) = n
         /\ WrittenOwnMemory => \A n \in Inouts(program, phase) : Storage(n) = n
PROOF
<1>1. phase \in DOMAIN program /\ program \in Programs
  BY DEF Inv
<1>2. ASSUME NEW n \in Inouts(program, phase) PROVE n \in Written(program) /\ Ref(program, n) = n
  <2>1. n \in Written(program)
    BY <1>1, <1>2 DEF Inouts, Written
  <2> QED
    BY <2>1 DEF Ref, Aliases
<1>3. ASSUME NEW n \in Used(program[phase]) PROVE Ref(program, n) \in Refs(program)
  BY <1>1, <1>3 DEF Refs
<1>4. ASSUME NEW n \in Inouts(program, phase) PROVE n \in Refs(program)
  <2>1. n \in Used(program[phase])
    BY <1>4 DEF Inouts, Used
  <2> QED
    BY <1>2, <1>3, <1>4, <2>1
<1>5. ASSUME NEW n \in Ins(program, phase) PROVE n \in Refs(program) /\ n \notin Inouts(program, phase)
  <2>1. n \notin Inouts(program, phase) /\ \E m \in Used(program[phase]) : n = Ref(program, m)
    BY <1>5 DEF Ins, Inouts
  <2> QED
    BY <1>3, <2>1
<1>6. ASSUME WrittenOwnMemory, NEW n \in Inouts(program, phase) PROVE Storage(n) = n
  BY <1>1, <1>2, <1>6 DEF WrittenOwnMemory, Storage
<1> QED
  BY <1>2, <1>4, <1>5, <1>6

LEMMA StoreRun == Inv /\ RunStore => Inv'
PROOF
<1> SUFFICES ASSUME Inv, RunStore PROVE Inv'
  OBVIOUS
<1>1. PICK of : of = Here.of
  OBVIOUS
<1>2. PICK made : made = Op(at).args[of]
  OBVIOUS
<1>3. PICK stamp : stamp = <<phase, at>>
  OBVIOUS
<1>4. /\ stage = "running" /\ at \in DOMAIN Body /\ Body[at].do = "store" /\ of = Body[at].of
      /\ defined' = [v \in DOMAIN defined \union {made} |->
           IF v = made THEN Append(defined[Op(at).uses[of]], stamp) ELSE defined[v]]
      /\ memory' = [memory EXCEPT ![Storage(of)] = Append(@, stamp)]
      /\ at' = at + 1
      /\ UNCHANGED <<program, stage, phase, tensors, open, code, held, frames>>
  BY <1>1, <1>2, <1>3 DEF RunStore, In, Here, lowering
<1>5. /\ at # 0 /\ at \in 1..Len(Body) /\ Len(Body) \in Nat /\ Text(Body) /\ Body = program[phase]
      /\ phase \in DOMAIN program /\ Body' = Body
  BY <1>4, PhaseFacts DEF Body
<1>6. PICK values : RunWith(values)
  BY <1>4, <1>5, Running
<1>7. PICK here : here = values[at]
  OBVIOUS
<1>8. PICK next : next = values[at + 1]
  OBVIOUS
<1>9. Op(at).uses = Part(here, {of}) /\ Op(at).args = Values(at, "stored", {of}) /\ next = Over(here, Op(at).args)
  <2>1. Lowered(program, phase, at, Op(at), here, next, values)
    BY <1>4, <1>6, <1>7, <1>8, AtOperation
  <2> QED
    BY <1>4, <1>5, <2>1 DEF Lowered
<1>10. DOMAIN here = Inouts(program, phase) /\ \A n \in Inouts(program, phase) : here[n][3] = n
  <2>1. at \in 1..(Len(Body) + 1)
    BY <1>5
  <2> QED
    BY <1>4, <1>6, <1>7, <2>1, AtOperation
<1>11. of \in Inouts(program, phase)
  BY <1>4, <1>5 DEF Inouts, Stored
<1>12. /\ made = Value(at, "stored", of) /\ Op(at).uses[of] = here[of] /\ next[of] = made
       /\ \A n \in Inouts(program, phase) : n # of => next[n] = here[n]
  BY <1>2, <1>9, <1>10, <1>11 DEF Part, Over, Values
<1>13. Within(here, DOMAIN defined) /\ (WrittenOwnMemory => HoldMemory(here, defined))
  BY <1>6, <1>7 DEF RunWith
<1>14. /\ made \in DOMAIN defined' /\ \A v \in DOMAIN defined : v \in DOMAIN defined'
       /\ defined'[made] = Append(defined[here[of]], stamp)
       /\ \A v \in DOMAIN defined : v # made => defined'[v] = defined[v]
  BY <1>4, <1>12
<1>15. Within(next, DOMAIN defined')
  BY <1>12, <1>13, <1>14 DEF Within
<1>16. /\ DOMAIN memory = Refs(program) /\ DOMAIN memory' = DOMAIN memory
       /\ memory' = [n \in Refs(program) |-> memory'[n]]
  BY <1>4 DEF Inv, HeldInv
<1>17. ASSUME WrittenOwnMemory
       PROVE  /\ memory'[of] = Append(memory[of], stamp)
              /\ \A n \in Refs(program) : n # of => memory'[n] = memory[n]
  BY <1>4, <1>11, <1>16, <1>17, NamesOfPhase
<1>18. ASSUME WrittenOwnMemory PROVE HoldMemory(next, defined)'
  <2>1. ASSUME NEW n \in Inouts(program, phase) PROVE defined'[next[n]] = memory'[n]
    <3>1. here[n] \in DOMAIN defined /\ defined[here[n]] = memory[n] /\ n \in Refs(program)
      BY <1>13, <1>18, NamesOfPhase DEF Within, HoldMemory
    <3>2. CASE n = of
      BY <1>12, <1>14, <1>17, <1>18, <3>1, <3>2
    <3>3. CASE n # of
      <4>1. here[n] # made
        BY <1>10, <1>12, <3>3 DEF Value
      <4> QED
        BY <1>12, <1>14, <1>17, <1>18, <3>1, <3>3, <4>1
    <3> QED
      BY <3>2, <3>3
  <2>2. ASSUME NEW n \in Ins(program, phase) PROVE defined'[Param(n)] = memory'[n]
    <3>1. Param(n) \in DOMAIN defined /\ defined[Param(n)] = memory[n] /\ n \in Refs(program) /\ n # of
      BY <1>11, <1>13, <1>18, NamesOfPhase DEF Within, HoldMemory
    <3>2. Param(n) # made
      BY <1>12 DEF Param, Value
    <3> QED
      BY <1>14, <1>17, <1>18, <3>1, <3>2
  <2> QED
    BY <1>4, <2>1, <2>2 DEF HoldMemory
<1>19. Placed(Body, frames, at + 1)
  BY <1>4, <1>5, <1>6, Straight DEF RunWith, Opening
<1>20. RunWith(values)'
  <2>1. BuiltWith(program, phase, code[phase], values)'
    BY <1>4, <1>6 DEF RunWith
  <2>2. Placed(Body, frames, at)' /\ Within(values[at], DOMAIN defined)'
    BY <1>4, <1>5, <1>8, <1>15, <1>19 DEF Within
  <2>3. (\A i \in DOMAIN frames : /\ DOMAIN frames[i] = {"at", "scope", "trips"}
                                  /\ Within(values[frames[i].at], frames[i].scope))'
    BY <1>4, <1>6 DEF RunWith, Within
  <2>4. (WrittenOwnMemory => HoldMemory(values[at], defined))'
    <3>1. values[at'] = next
      BY <1>4, <1>8
    <3>2. WrittenOwnMemory => HoldMemory(values[at], defined)'
      BY <1>18, <3>1 DEF HoldMemory
    <3> QED
      BY <3>2 DEF WrittenOwnMemory
  <2> QED
    BY <2>1, <2>2, <2>3, <2>4 DEF RunWith
<1>21. at' \in 1..(Len(Body') + 1) /\ at' # 0 /\ at' \in Nat
  BY <1>4, <1>5
<1>22. RunningInv'
  <2>1. \A f \in DOMAIN program : \E built : BuiltWith(program, f, code[f], built)
    BY <1>4 DEF Inv, RunningInv
  <2> QED
    BY <1>4, <1>20, <1>21, <2>1 DEF RunningInv
<1>23. HeldInv'
  <2>1. DOMAIN held = Refs(program) /\ held = [n \in Refs(program) |-> held[n]]
    BY DEF Inv, HeldInv
  <2>2. ASSUME WrittenOwnMemory, NEW n \in Refs(program)
        PROVE  n \in Inouts(program, phase) \/ held[n] = memory'[n]
    BY <1>4, <1>5, <1>11, <1>17, <2>2 DEF Inv, HeldInv
  <2> QED
    BY <1>4, <1>16, <1>21, <2>1, <2>2 DEF HeldInv, WrittenOwnMemory
<1> QED
  BY <1>4, <1>21, <1>22, <1>23 DEF Inv

LEMMA PhaseCalled == Inv /\ CallPhase => Inv'
PROOF
<1> SUFFICES ASSUME Inv, CallPhase PROVE Inv'
  OBVIOUS
<1> DEFINE names == Ins(program, phase) \union Inouts(program, phase)
<1>1. /\ stage = "running" /\ at = 0 /\ at' = 1
      /\ defined' = [v \in {Param(n) : n \in names} |-> held[v[3]]]
      /\ UNCHANGED <<program, stage, phase, tensors, open, code, held, memory, frames>>
  BY DEF CallPhase, Go, lowering
<1>2. /\ RunningInv /\ frames = <<>> /\ phase \in DOMAIN program
      /\ HeldInv /\ (WrittenOwnMemory => held = memory)
  BY <1>1 DEF Inv, RunningInv, HeldInv
<1>3. PICK values : BuiltWith(program, phase, code[phase], values)
  BY <1>2 DEF RunningInv
<1>4. values[1] = [n \in Inouts(program, phase) |-> Param(n)]
  BY <1>3 DEF BuiltWith, LoweredTo
<1>5. \A n \in names : Param(n) \in DOMAIN defined' /\ defined'[Param(n)] = held[n]
  BY <1>1 DEF Param, Value
<1>6. Within(values[1], DOMAIN defined')
  BY <1>4, <1>5 DEF Within
<1>7. WrittenOwnMemory => HoldMemory(values[1], defined')
  BY <1>2, <1>4, <1>5 DEF HoldMemory
<1>8. Placed(Body, <<>>, 1) /\ Len(Body) \in Nat /\ Body' = Body
  BY <1>1, PhaseFacts, PlacedAtEnds DEF Body
<1>9. RunWith(values)'
  <2>1. DOMAIN frames' = {}
    BY <1>1, <1>2
  <2> QED
    BY <1>1, <1>2, <1>3, <1>6, <1>7, <1>8, <2>1 DEF RunWith, Within, HoldMemory, WrittenOwnMemory
<1>10. at' # 0 /\ at' \in 1..(Len(Body') + 1)
  BY <1>1, <1>8
<1>11. RunningInv'
  BY <1>1, <1>2, <1>9, <1>10 DEF RunningInv
<1>12. HeldInv'
  BY <1>1, <1>2 DEF HeldInv, WrittenOwnMemory
<1> QED
  BY <1>1, <1>10, <1>11, <1>12 DEF Inv

LEMMA PhaseReturned == Inv /\ ReturnPhase => Inv'
PROOF
<1> SUFFICES ASSUME Inv, ReturnPhase PROVE Inv'
  OBVIOUS
<1>1. /\ stage = "running" /\ at = Len(Body) + 1 /\ held' = Returned
      /\ phase < Len(program) => phase' = phase + 1 /\ at' = 0 /\ stage' = stage
      /\ ~(phase < Len(program)) => stage' = "done" /\ phase' = phase /\ at' = at
      /\ UNCHANGED <<program, tensors, open, code, frames, memory>>
  BY DEF ReturnPhase, lowering
<1>2. /\ Text(Body) /\ Len(Body) \in Nat /\ at # 0 /\ Body = program[phase] /\ at \in Nat
      /\ phase \in 1..Len(program) /\ Len(program) \in Nat /\ DOMAIN program = 1..Len(program)
  BY <1>1, PhaseFacts
<1>3. PICK values : RunWith(values)
  BY <1>1, <1>2, Running
<1>4. frames = <<>>
  BY <1>1, <1>2, <1>3, PlacedAtEnds DEF RunWith
<1>5. Op(at).uses = values[at]
  BY <1>1, <1>2, <1>3 DEF RunWith, BuiltWith, Op
<1>6. /\ RunningInv /\ DOMAIN held = Refs(program) /\ DOMAIN memory = Refs(program)
      /\ memory = [n \in Refs(program) |-> memory[n]]
      /\ WrittenOwnMemory =>
           \A n \in Refs(program) : n \in Inouts(program, phase) \/ held[n] = memory[n]
  BY <1>1, <1>2 DEF Inv, HeldInv
<1>7. held' = [n \in Refs(program) |->
                IF n \in Inouts(program, phase) THEN defined[values[at][n]] ELSE held[n]]
  BY <1>1, <1>5, <1>6 DEF Returned
<1>8. ASSUME WrittenOwnMemory PROVE held' = memory
  <2>1. \A n \in Inouts(program, phase) : defined[values[at][n]] = memory[n]
    BY <1>3, <1>8 DEF RunWith, HoldMemory
  <2>2. \A n \in Refs(program) : held'[n] = memory[n]
    BY <1>6, <1>7, <1>8, <2>1
  <2>3. held' = [n \in Refs(program) |-> held'[n]]
    BY <1>7
  <2> QED
    BY <1>6, <2>2, <2>3
<1>9. HeldInv'
  <2>1. DOMAIN held' = Refs(program) /\ held' = [n \in Refs(program) |-> held'[n]]
    BY <1>7
  <2>2. ~(stage' = "running" /\ at' # 0)
    BY <1>1
  <2> QED
    BY <1>1, <1>6, <1>8, <2>1, <2>2 DEF HeldInv, WrittenOwnMemory
<1>10. /\ \A f \in DOMAIN program' : \E built : BuiltWith(program', f, code'[f], built)
       /\ program' \in Programs /\ DOMAIN code' = DOMAIN program'
  BY <1>1, <1>6 DEF Inv, RunningInv
<1>11. CASE phase < Len(program)
  BY <1>1, <1>2, <1>4, <1>9, <1>10, <1>11 DEF Inv, RunningInv
<1>12. CASE ~(phase < Len(program))
  BY <1>1, <1>2, <1>9, <1>10, <1>12 DEF Inv
<1> QED
  BY <1>11, <1>12

-----------------------------------------------------------------------------
(***************************************************************************)
(* The invariant, and what follows from it.                                *)
(***************************************************************************)
LEMMA InitInv == Init => Inv
PROOF
<1> SUFFICES ASSUME Init PROVE Inv
  OBVIOUS
<1>1. /\ program \in Programs /\ stage = "lowering" /\ phase = 1 /\ at = 0 /\ open = <<>> /\ frames = <<>>
      /\ code = [f \in DOMAIN program |-> <<>>]
      /\ held = [n \in Refs(program) |-> Before(n)] /\ memory = [n \in Refs(program) |-> Before(n)]
  BY DEF Init
<1>2. program \in Seq(Seq(Statement)) /\ Len(program) > 0
  BY <1>1, ProgramsAssumption
<1>3. phase \in DOMAIN program /\ DOMAIN program = 1..Len(program)
  BY <1>1, <1>2
<1>4. HeldInv
  <2>1. /\ DOMAIN held = Refs(program) /\ DOMAIN memory = Refs(program) /\ held = memory
        /\ held = [n \in Refs(program) |-> held[n]]
    BY <1>1
  <2> QED
    BY <1>1, <2>1 DEF HeldInv
<1>5. LoweringInv
  <2>1. \A f \in DOMAIN program : code[f] = <<>> /\ code[f] \in Seq({}) /\ ~(f < phase)
    BY <1>1, <1>3
  <2> QED
    BY <1>1, <1>3, <2>1 DEF LoweringInv
<1> QED
  BY <1>1, <1>3, <1>4, <1>5 DEF Inv

LEMMA StepInv == Inv /\ [Next]_vars => Inv'
PROOF
<1>1. Inv /\ Lower => Inv'
  BY PhaseBuilt, LoadLowered, StoreLowered, LoopLowered, IfLowered, ElseLowered, ConditionLowered,
     EndLowered, ReturnBuilt DEF Lower
<1>2. Inv /\ Run => Inv'
  BY PhaseCalled, LoadRun, StoreRun, ConstructEntered, LoopSkipped, LoopRepeated, ConstructLeft,
     Branched, ConditionHeld, PhaseReturned DEF Run
<1>3. Inv /\ UNCHANGED vars => Inv'
  <2>1. SUFFICES ASSUME Inv, UNCHANGED vars PROVE Inv'
    OBVIOUS
  <2>2. UNCHANGED <<program, stage, phase, at, tensors, open, code, held, defined, frames, memory>>
    BY <2>1 DEF vars, lowering, running
  <2>3. Body' = Body
    BY <2>2 DEF Body
  <2>4. LoweringInv => LoweringInv'
    BY <2>2, <2>3 DEF LoweringInv, PartlyLowered
  <2>5. RunningInv => RunningInv'
    BY <2>2, <2>3 DEF RunningInv, RunWith, Within, HoldMemory, WrittenOwnMemory
  <2>6. HeldInv => HeldInv'
    BY <2>2 DEF HeldInv, WrittenOwnMemory
  <2> QED
    BY <2>1, <2>2, <2>4, <2>5, <2>6 DEF Inv
<1> QED
  BY <1>1, <1>2, <1>3 DEF Next, Terminated

\* The invariant holds of every program.
THEOREM InvHolds == Spec => []Inv
PROOF
<1>1. Init => Inv
  BY InitInv
<1>2. Inv /\ [Next]_vars => Inv'
  BY StepInv
<1> QED
  BY <1>1, <1>2, PTL DEF Spec

\* What a load reads, as an argument or as the value of a written tensor.
LEMMA LoadReads ==
  ASSUME Inv, stage = "running", at \in DOMAIN Body, Body[at].do = "load", NEW values, RunWith(values)
  PROVE  LET of == Body[at].of
         IN  /\ Op(at).uses = [n \in {of} |-> IF n \in Inouts(program, phase) THEN values[at][n]
                                              ELSE Param(Ref(program, n))]
             /\ of \in Used(program[phase])
             /\ Ref(program, of) \in Ins(program, phase) \union Inouts(program, phase)
PROOF
<1>1. PICK of : of = Body[at].of
  OBVIOUS
<1>2. Lowered(program, phase, at, Op(at), values[at], values[at + 1], values) /\ Body = program[phase]
  BY AtOperation, PhaseFacts
<1>3. Op(at).uses = [n \in {of} |-> IF n \in Inouts(program, phase) THEN values[at][n]
                                    ELSE Param(Ref(program, n))]
  BY <1>1, <1>2 DEF Lowered
<1>4. of \in Used(program[phase])
  BY <1>1, <1>2 DEF Used
<1>5. Ref(program, of) \in Ins(program, phase) \union Inouts(program, phase)
  BY <1>4 DEF Ins, Inouts
<1> QED
  BY <1>1, <1>3, <1>4, <1>5

LEMMA InScope == Inv => ValuesAreInScope
PROOF
<1> SUFFICES ASSUME Inv, stage = "running", at # 0, NEW n \in DOMAIN Op(at).uses
             PROVE  Op(at).uses[n] \in DOMAIN defined
  BY DEF ValuesAreInScope
<1>1. PICK values : RunWith(values)
  BY Running
<1>2. PICK here : here = values[at]
  OBVIOUS
<1>3. /\ \A m \in Inouts(program, phase) : here[m] \in DOMAIN defined
      /\ \A m \in Ins(program, phase) \union Inouts(program, phase) : Param(m) \in DOMAIN defined
  BY <1>1, <1>2 DEF RunWith, Within
<1>4. /\ Body = program[phase] /\ DOMAIN Body = 1..Len(Body) /\ Len(Body) \in Nat
      /\ Text(Body) /\ at \in 1..(Len(Body) + 1)
  BY PhaseFacts DEF Inv, RunningInv
<1>5. \A names : names \subseteq Inouts(program, phase) /\ Op(at).uses = Part(here, names) =>
                   Op(at).uses[n] \in DOMAIN defined
  BY <1>3 DEF Part
<1>6. CASE at = Len(Body) + 1
  <2>1. Op(at).uses = here
    BY <1>1, <1>2, <1>4, <1>6 DEF RunWith, BuiltWith, Op
  <2>2. DOMAIN here = Inouts(program, phase)
    <3>1. LoweredTo(program, phase, code[phase], values, Len(Body))
      BY <1>1, <1>4 DEF RunWith, BuiltWith
    <3> QED
      BY <1>2, <1>4, <3>1 DEF LoweredTo
  <2> QED
    BY <1>3, <2>1, <2>2
<1>7. CASE at \in DOMAIN Body
  <2>1. Lowered(program, phase, at, Op(at), here, values[at + 1], values)
    BY <1>1, <1>2, <1>7, AtOperation
  <2>2. Body[at].do \in Opening \union {"else", "do", "end", "load", "store"}
    <3>1. Body[at] \in Statement
      BY <1>4, <1>7 DEF Text
    <3> QED
      BY <3>1 DEF Statement
  <2>3. CASE Body[at].do = "load"
    <3>1. PICK of : of = Body[at].of
      OBVIOUS
    <3>2. /\ Op(at).uses = [o \in {of} |-> IF o \in Inouts(program, phase) THEN values[at][o]
                                           ELSE Param(Ref(program, o))]
          /\ Ref(program, of) \in Ins(program, phase) \union Inouts(program, phase)
      BY <1>1, <1>7, <2>3, <3>1, LoadReads
    <3>3. /\ n = of
          /\ Op(at).uses[n] = IF of \in Inouts(program, phase) THEN here[of]
                              ELSE Param(Ref(program, of))
      BY <1>2, <3>2
    <3> QED
      BY <1>3, <3>2, <3>3
  <2>4. CASE Body[at].do = "store"
    <3>1. Body[at].of \in Inouts(program, phase)
      BY <1>4, <1>7, <2>4 DEF Inouts, Stored
    <3>2. {Body[at].of} \subseteq Inouts(program, phase) /\ Op(at).uses = Part(here, {Body[at].of})
      BY <1>4, <2>1, <2>4, <3>1 DEF Lowered
    <3> QED
      BY <1>5, <3>2
  <2>5. CASE Body[at].do \in {"root", "for", "while"}
    <3>1. Opens(Body, at) /\ Op(at).uses = Part(here, Writes(Body, at))
      BY <1>4, <1>7, <2>1, <2>5 DEF Lowered, Opens, Opening
    <3> QED
      BY <1>5, <3>1, WritesAreInouts
  <2>6. CASE Body[at].do = "if"
    <3>1. Op(at).uses = Nothing
      BY <1>4, <2>1, <2>6 DEF Lowered
    <3> QED
      BY <3>1 DEF Nothing
  <2>7. CASE Body[at].do \in {"else", "do", "end"}
    <3>1. PICK k \in DOMAIN Body : Opens(Body, k) /\ Op(at).uses = Part(here, Writes(Body, k))
      BY <1>4, <2>1, <2>7 DEF Lowered, Divides, Opens, Opening
    <3> QED
      BY <1>5, <3>1, WritesAreInouts
  <2> QED
    BY <2>2, <2>3, <2>4, <2>5, <2>6, <2>7 DEF Opening
<1> QED
  BY <1>4, <1>6, <1>7

LEMMA SeesTheProgram == Inv /\ ViewsApart => LoadsSeeTheProgram
PROOF
<1> SUFFICES ASSUME Inv, ViewsApart, In("running", {"load"})
             PROVE  /\ Op(at).uses[Here.of] \in DOMAIN defined
                    /\ defined[Op(at).uses[Here.of]] = memory[Storage(Here.of)]
  BY DEF LoadsSeeTheProgram
<1>1. PICK of : of = Here.of
  OBVIOUS
<1>2. stage = "running" /\ at \in DOMAIN Body /\ Body[at].do = "load" /\ of = Body[at].of
  BY <1>1 DEF In, Here
<1>3. at # 0 /\ program \in Programs /\ phase \in DOMAIN program
  BY <1>2, PhaseFacts DEF Inv
<1>4. PICK values : RunWith(values)
  BY <1>2, <1>3, Running
<1>5. WrittenOwnMemory
  BY DEF ViewsApart
<1>6. /\ Op(at).uses[of] = IF of \in Inouts(program, phase) THEN values[at][of] ELSE Param(Ref(program, of))
      /\ of \in Used(program[phase])
      /\ Ref(program, of) \in Ins(program, phase) \union Inouts(program, phase)
  BY <1>2, <1>4, LoadReads
<1>7. /\ \A n \in Inouts(program, phase) : values[at][n] \in DOMAIN defined /\ defined[values[at][n]] = memory[n]
      /\ \A n \in Ins(program, phase) : Param(n) \in DOMAIN defined /\ defined[Param(n)] = memory[n]
  BY <1>4, <1>5 DEF RunWith, Within, HoldMemory
<1>8. CASE of \in Inouts(program, phase)
  BY <1>1, <1>5, <1>6, <1>7, <1>8, NamesOfPhase
<1>9. CASE of \notin Inouts(program, phase)
  <2>1. Ref(program, of) = Storage(of)
    <3>1. of \in DOMAIN ViewOf => of \notin Written(program)
      BY <1>3, <1>5 DEF WrittenOwnMemory
    <3> QED
      BY <3>1 DEF Ref, Aliases, Storage
  <2>2. Storage(of) \notin Inouts(program, phase)
    BY <1>3, <1>6, <1>9 DEF ViewsApart, Storage, Inouts
  <2> QED
    BY <1>1, <1>6, <1>7, <1>9, <2>1, <2>2
<1> QED
  BY <1>8, <1>9

\* Every value an operation reads is in scope where it is read, on every path through any
\* program of well nested phases (ValuesAreInScope).
THEOREM ValuesAlwaysInScope == Spec => []ValuesAreInScope
BY InvHolds, InScope, PTL

\* If every written tensor owns its memory, then on any path and with any number of trips a
\* phase starts from what the phases before it left, and the entry function ends with every
\* tensor as the program leaves it (PhasesPassResults).
THEOREM ResultsReachLaterPhases == WrittenOwnMemory => (Spec => []PhasesPassResults)
PROOF
<1> SUFFICES ASSUME WrittenOwnMemory PROVE Spec => []PhasesPassResults
  OBVIOUS
<1>1. Inv => PhasesPassResults
  BY DEF Inv, HeldInv, PhasesPassResults
<1> QED
  BY <1>1, InvHolds, PTL

\* If besides no phase reads a view of a tensor it writes, every load finds the contents the
\* program has at that point, whatever branches and trips led to it (LoadsSeeTheProgram).
THEOREM LoadsAlwaysSeeTheProgram == ViewsApart => (Spec => []LoadsSeeTheProgram)
PROOF
<1> SUFFICES ASSUME ViewsApart PROVE Spec => []LoadsSeeTheProgram
  OBVIOUS
<1>1. Inv => LoadsSeeTheProgram
  BY SeesTheProgram
<1> QED
  BY <1>1, InvHolds, PTL
=============================================================================
