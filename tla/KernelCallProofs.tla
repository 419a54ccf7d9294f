-------------------------- MODULE KernelCallProofs --------------------------
(***************************************************************************)
(* For every argument list over any memory: the checks and the staging let *)
(* the entry treat its buffers as restrict, and the call is atomic for its *)
(* caller.                                                                 *)
(***************************************************************************)
EXTENDS KernelCall, SequenceTheorems, TLAPS

Checking == {"host", "tensors_checked", "sizes_checked"}
Running == {"staging", "entry", "copying_back"}

Copied(a) ==
  ~IsContiguous(call[a].tensor) \/ (call[a].role = "in" /\ OverlapsAny(a))

Place(e) == Address(call[e[1]].tensor, e[2])

\* The stored elements that are in memory: their buffer is the tensor, or was copied back.
Reached == {e \in stored : staged[e[1]] = "itself" \/ e[1] < next}

\* Nothing is loaded or stored before the entry runs, which starts at argument 1.
NothingYet ==
  /\ phase \in Checking \union {"staging"} => stored = {} /\ loaded = {}
  /\ phase \in Checking \union {"entry"} => next = 1

\* An argument staged so far is a copy exactly when the entry may not use the tensor.
StagedRight ==
  phase \in Running =>
    \A a \in Args : (phase = "staging" => a < next) =>
      staged[a] = IF Copied(a) THEN "copy" ELSE "itself"

\* A copy has the elements stored, and before the call's contents elsewhere.
CopiesFollow ==
  \A a \in Args : staged[a] = "copy" =>
    copies[a] = [j \in Elements(call[a].tensor) |->
                   IF <<a, j>> \in stored THEN Stored(a, j)
                   ELSE Before(Address(call[a].tensor, j))]

\* Only elements of written tensors are stored.
StoredElements ==
  \A e \in stored : \E a \in Inouts : \E j \in Elements(call[a].tensor) : e = <<a, j>>

\* Memory holds the stored elements that reached it, each in its place, and nothing else.
MemoryFollows ==
  phase # "raised" =>
    /\ \A e \in Reached : memory[Place(e)] = e
    /\ \A c \in Cells : (\A e \in Reached : Place(e) # c) => memory[c] = Before(c)

\* No two written tensors overlap once that was checked.
Separate ==
  phase \in Running => \A a, b \in InoutSpans : a < b => ~Overlap(a, b)

\* A tensor that was copied back has its elements in cells of their own.
CopiedBackOnce ==
  phase = "copying_back" =>
    \A a \in Inouts : a < next /\ Copied(a) => ~SelfOverlapping(call[a].tensor)

\* The sizes agree from their check on.
SizesChecked ==
  phase \in {"sizes_checked"} \union Running =>
    \A a, b \in Args :
      /\ call[a].size.kind = "symbol" /\ call[b].size.kind # "static"
      /\ call[a].size.of = call[b].size.of
      =>
        call[b].tensor.size = IF call[b].size.kind = "symbol" THEN call[a].tensor.size
                              ELSE call[a].tensor.size \div 2

Inv ==
  /\ TypeOK
  /\ NothingYet /\ StagedRight /\ CopiesFollow /\ StoredElements
  /\ MemoryFollows /\ Separate /\ CopiedBackOnce /\ SizesChecked
  /\ InputsReadAsBefore
-----------------------------------------------------------------------------
\* Products with the same natural number keep their order, and with a positive one
\* their difference.
LEMMA Products ==
  ASSUME NEW s \in Nat, NEW j \in Nat, NEW k \in Nat
  PROVE  /\ j * s \in Nat
         /\ j <= k => j * s <= k * s
         /\ s > 0 /\ j < k => j * s < k * s
PROOF
<1>1. j * s \in Nat /\ k * s \in Nat
  OBVIOUS
<1>2. k * s = j * s + (k - j) * s
  OBVIOUS
<1>3. j <= k => (k - j) * s >= 0
  OBVIOUS
<1>4. s > 0 /\ j < k => (k - j) * s > 0
  OBVIOUS
<1> QED
  OBVIOUS

\* Every element of a tensor lies in the range of cells the tensor spans.
LEMMA InSpan ==
  ASSUME NEW t \in Tensor, NEW j \in Elements(t)
  PROVE  /\ t.size > 0 /\ Address(t, j) \in Nat
         /\ ByteSpan(t).from \in Int /\ ByteSpan(t).to \in Int
         /\ ByteSpan(t).from <= Address(t, j) /\ Address(t, j) < ByteSpan(t).to
PROOF
<1>1. /\ t.start \in Nat /\ t.size \in Nat /\ t.stride \in Nat
      /\ j \in Nat /\ j <= t.size - 1 /\ t.size - 1 \in Nat
  BY DEF Tensor, Elements
<1>2. /\ j * t.stride \in Nat /\ (t.size - 1) * t.stride \in Nat
      /\ j * t.stride <= (t.size - 1) * t.stride
  BY <1>1
<1>3. CASE t.size <= 1
  <2>1. j = 0 /\ t.size = 1 /\ j * t.stride = 0
    BY <1>1, <1>3
  <2> QED
    BY <1>1, <2>1 DEF Address, ByteSpan
<1>4. CASE t.size > 1 /\ t.stride = 1
  <2>1. j * t.stride = j
    BY <1>1, <1>4
  <2> QED
    BY <1>1, <1>4 DEF Address, ByteSpan
<1>5. CASE t.size > 1 /\ t.stride # 1
  BY <1>1, <1>5 DEF Address, ByteSpan, IsContiguous
<1> QED
  BY <1>1, <1>3, <1>4, <1>5

\* Tensors whose spans do not overlap share no cell.
LEMMA ApartCells ==
  ASSUME NEW t \in Tensor, NEW u \in Tensor, ~SpansOverlap(ByteSpan(t), ByteSpan(u)),
         NEW j \in Elements(t), NEW k \in Elements(u)
  PROVE  Address(t, j) # Address(u, k)
PROOF
<1>1. /\ Address(t, j) \in Nat /\ ByteSpan(t).from \in Int /\ ByteSpan(t).to \in Int
      /\ ByteSpan(t).from <= Address(t, j) /\ Address(t, j) < ByteSpan(t).to
  BY InSpan
<1>2. /\ Address(u, k) \in Nat /\ ByteSpan(u).from \in Int /\ ByteSpan(u).to \in Int
      /\ ByteSpan(u).from <= Address(u, k) /\ Address(u, k) < ByteSpan(u).to
  BY InSpan
<1> QED
  BY <1>1, <1>2 DEF SpansOverlap

\* The elements of a tensor share a cell only if torch calls it self-overlapping.
LEMMA OneCellEach ==
  ASSUME NEW t \in Tensor, ~SelfOverlapping(t),
         NEW j \in Elements(t), NEW k \in Elements(t), Address(t, j) = Address(t, k)
  PROVE  j = k
PROOF
<1>1. /\ t.start \in Nat /\ t.size \in Nat /\ t.stride \in Nat
      /\ j \in 0..t.size - 1 /\ k \in 0..t.size - 1
  BY DEF Tensor, Elements
<1>2. CASE t.size <= 1
  BY <1>1, <1>2
<1>3. CASE t.size > 1
  <2>1. t.stride > 0
    BY <1>1, <1>3 DEF SelfOverlapping
  <2>2. j * t.stride \in Nat /\ k * t.stride \in Nat /\ j * t.stride = k * t.stride
    BY <1>1 DEF Address
  <2>3. ~(j < k) /\ ~(k < j)
    BY <1>1, <2>1, <2>2
  <2> QED
    BY <1>1, <2>3
<1> QED
  BY <1>1, <1>3

\* The elements of a contiguous tensor are where its buffer is addressed.
LEMMA ContiguousPlaces ==
  ASSUME NEW t \in Tensor, IsContiguous(t), NEW j \in Elements(t)
  PROVE  t.start + j = Address(t, j) /\ ~SelfOverlapping(t)
PROOF
<1>1. t.start \in Nat /\ t.size \in Nat /\ t.stride \in Nat /\ j \in 0..t.size - 1
  BY DEF Tensor, Elements
<1>2. CASE t.size <= 1
  <2>1. j = 0 /\ j * t.stride = 0
    BY <1>1, <1>2
  <2> QED
    BY <1>1, <1>2 DEF Address, SelfOverlapping
<1>3. CASE t.stride = 1
  BY <1>1, <1>3 DEF Address, SelfOverlapping
<1> QED
  BY <1>2, <1>3 DEF IsContiguous

\* What a typed state knows of an argument.
LEMMA ArgFacts ==
  ASSUME TypeOK, NEW a \in Args
  PROVE  /\ Args = 1..Len(call) /\ Len(call) \in Nat /\ a \in Nat
         /\ call[a] \in Arg /\ call[a].tensor \in Tensor
         /\ call[a].role \in {"in", "inout"}
         /\ \A j \in Elements(call[a].tensor) :
              j \in Nat /\ Address(call[a].tensor, j) \in Cells
PROOF
<1>1. call \in Seq(Arg) /\ Footprint(call[a].tensor) \subseteq Cells
  BY CallsAssumption DEF TypeOK, Args
<1>2. call[a] \in Arg /\ Args = 1..Len(call) /\ Len(call) \in Nat
  BY <1>1 DEF Args
<1> QED
  BY <1>1, <1>2 DEF Arg, Footprint, Elements

\* Written tensors that share a cell are one argument.
LEMMA WrittenApart ==
  ASSUME TypeOK, Separate, phase \in Running,
         NEW a \in Inouts, NEW j \in Elements(call[a].tensor),
         NEW b \in Inouts, NEW k \in Elements(call[b].tensor),
         Address(call[a].tensor, j) = Address(call[b].tensor, k)
  PROVE  a = b
PROOF
<1>1. a \in Args /\ b \in Args /\ a \in Nat /\ b \in Nat
  BY ArgFacts DEF Inouts
<1>2. call[a].tensor \in Tensor /\ call[b].tensor \in Tensor
  BY <1>1, ArgFacts
<1>3. a \in InoutSpans /\ b \in InoutSpans
  BY <1>2, InSpan DEF InoutSpans
<1>4. ~(a < b)
  BY <1>2, <1>3, ApartCells DEF Separate, Overlap
<1>5. ~(b < a)
  BY <1>2, <1>3, ApartCells DEF Separate, Overlap
<1> QED
  BY <1>1, <1>4, <1>5

\* An input that is not copied shares no cell with a written tensor.
LEMMA InputApart ==
  ASSUME TypeOK,
         NEW a \in Ins, ~Copied(a), NEW j \in Elements(call[a].tensor),
         NEW b \in Inouts, NEW k \in Elements(call[b].tensor)
  PROVE  Address(call[a].tensor, j) # Address(call[b].tensor, k)
PROOF
<1>1. a \in Args /\ b \in Args /\ call[a].role = "in"
  BY DEF Ins, Inouts
<1>2. call[a].tensor \in Tensor /\ call[b].tensor \in Tensor
  BY <1>1, ArgFacts
<1>3. call[a].tensor.size > 0 /\ call[b].tensor.size > 0
  BY <1>2, InSpan
<1>4. b \in InoutSpans
  BY <1>3 DEF InoutSpans
<1>5. ~Overlap(a, b)
  BY <1>1, <1>3, <1>4 DEF Copied, OverlapsAny
<1> QED
  BY <1>2, <1>5, ApartCells DEF Overlap

\* A stored element in a cell of a written tensor is the element of that cell.
LEMMA StoredAlone ==
  ASSUME TypeOK, Separate, StoredElements, phase \in Running,
         NEW a \in Inouts, ~SelfOverlapping(call[a].tensor),
         NEW j \in Elements(call[a].tensor),
         NEW e \in stored, Place(e) = Address(call[a].tensor, j)
  PROVE  e = <<a, j>>
PROOF
<1>1. PICK b \in Inouts : \E k \in Elements(call[b].tensor) : e = <<b, k>>
  BY DEF StoredElements
<1>2. PICK k \in Elements(call[b].tensor) : e = <<b, k>>
  BY <1>1
<1>3. Address(call[a].tensor, j) = Address(call[b].tensor, k)
  BY <1>2 DEF Place
<1>4. a = b
  BY <1>3, WrittenApart
<1>5. call[a].tensor \in Tensor
  BY ArgFacts DEF Inouts
<1>6. j = k
  BY <1>3, <1>4, <1>5, OneCellEach
<1> QED
  BY <1>2, <1>4, <1>6

\* A stored element is one of a written tensor, in a cell of memory.
LEMMA StoredPlaces ==
  ASSUME TypeOK, StoredElements, NEW e \in stored
  PROVE  /\ e[1] \in Inouts /\ e[1] \in Nat /\ e[2] \in Elements(call[e[1]].tensor)
         /\ e = <<e[1], e[2]>> /\ Place(e) \in Cells
PROOF
<1>1. PICK a \in Inouts : \E j \in Elements(call[a].tensor) : e = <<a, j>>
  BY DEF StoredElements
<1>2. PICK j \in Elements(call[a].tensor) : e = <<a, j>>
  BY <1>1
<1>3. a \in Nat /\ Address(call[a].tensor, j) \in Cells
  BY ArgFacts DEF Inouts
<1> QED
  BY <1>2, <1>3 DEF Place

\* What depends on the argument list only stays.
LEMMA SameCall ==
  ASSUME call' = call
  PROVE  /\ Args' = Args /\ Ins' = Ins /\ Inouts' = Inouts /\ InoutSpans' = InoutSpans
         /\ \A a : Copied(a)' <=> Copied(a)
         /\ \A a, b : Overlap(a, b)' <=> Overlap(a, b)
         /\ \A e : Place(e)' = Place(e)
PROOF
<1>1. Args' = Args /\ Ins' = Ins /\ Inouts' = Inouts
  BY DEF Args, Ins, Inouts
<1>2. InoutSpans' = InoutSpans
  BY <1>1 DEF InoutSpans
<1>3. \A a, b : Overlap(a, b)' <=> Overlap(a, b)
  BY DEF Overlap
<1>4. \A a : Copied(a)' <=> Copied(a)
  BY <1>2, <1>3 DEF Copied, OverlapsAny
<1>5. \A e : Place(e)' = Place(e)
  BY DEF Place
<1> QED
  BY <1>1, <1>2, <1>3, <1>4, <1>5

\* What a cell holds.
LEMMA ContentsTyped ==
  /\ \A c \in Cells : Before(c) \in Seq(Nat)
  /\ \A a, j \in Nat : Stored(a, j) \in Seq(Nat)
PROOF
<1>1. \A c \in Cells : c \in Nat
  BY CallsAssumption
<1>2. \A c \in Nat : <<c>> \in Seq(Nat)
  OBVIOUS
<1>3. \A a, j \in Nat : <<a, j>> \in Seq(Nat)
  OBVIOUS
<1> QED
  BY <1>1 DEF Before, Stored

LEMMA InitInv == Init => Inv
PROOF
<1> SUFFICES ASSUME Init PROVE Inv
  OBVIOUS
<1>1. Args = 1..Len(call) /\ call \in Seq(Arg)
  BY CallsAssumption DEF Init, Args
<1>2. TypeOK
  <2>1. memory \in [Cells -> Seq(Nat)]
    BY ContentsTyped DEF Init
  <2>2. next \in 1..Len(call) + 1
    BY DEF Init
  <2> QED
    BY <2>1 DEF Init, TypeOK
<1>3. NothingYet /\ StagedRight /\ CopiesFollow /\ StoredElements
  BY DEF Init, NothingYet, StagedRight, CopiesFollow, StoredElements, Running
<1>4. MemoryFollows
  BY DEF Init, MemoryFollows, Reached
<1>5. Separate /\ CopiedBackOnce /\ SizesChecked /\ InputsReadAsBefore
  BY DEF Init, Separate, CopiedBackOnce, SizesChecked, InputsReadAsBefore, Running
<1> QED
  BY <1>2, <1>3, <1>4, <1>5 DEF Inv

\* A step that changes the phase only keeps everything said about the tensors.
LEMMA OnlyPhase ==
  ASSUME Inv, UNCHANGED <<call, next, memory, staged, copies, loaded, stored>>,
         phase' \in Checking \union Running \union {"returned", "raised"}
  PROVE  /\ TypeOK' /\ CopiesFollow' /\ StoredElements' /\ InputsReadAsBefore'
         /\ Reached' = Reached
         /\ phase # "raised" => MemoryFollows'
PROOF
<1>1. TypeOK'
  BY SameCall DEF Inv, TypeOK, Checking, Running
<1>2. CopiesFollow' /\ StoredElements' /\ InputsReadAsBefore'
  BY SameCall DEF Inv, CopiesFollow, StoredElements, InputsReadAsBefore
<1>3. Reached' = Reached
  BY DEF Reached
<1>4. phase # "raised" => MemoryFollows'
  BY <1>3, SameCall DEF Inv, MemoryFollows
<1> QED
  BY <1>1, <1>2, <1>3, <1>4

LEMMA StepInv == Inv /\ [Next]_vars => Inv'
PROOF
<1> SUFFICES ASSUME Inv, [Next]_vars PROVE Inv'
  OBVIOUS
<1> USE DEF Inv
<1>1. ASSUME EarlyReturn PROVE Inv'
  <2>1. phase = "host" /\ phase' = "returned"
    BY <1>1 DEF EarlyReturn
  <2>2. TypeOK' /\ CopiesFollow' /\ StoredElements' /\ InputsReadAsBefore' /\ MemoryFollows'
    BY <1>1, OnlyPhase DEF EarlyReturn
  <2>3. NothingYet' /\ StagedRight' /\ Separate' /\ CopiedBackOnce' /\ SizesChecked'
    BY <2>1 DEF NothingYet, StagedRight, Separate, CopiedBackOnce, SizesChecked, Checking,
         Running
  <2> QED
    BY <2>2, <2>3
<1>2. ASSUME CheckTensors PROVE Inv'
  <2>1. phase = "host" /\ phase' \in {"raised", "tensors_checked"}
    BY <1>2 DEF CheckTensors
  <2>2. TypeOK' /\ CopiesFollow' /\ StoredElements' /\ InputsReadAsBefore' /\ MemoryFollows'
    BY <1>2, OnlyPhase DEF CheckTensors, Checking
  <2>3. NothingYet'
    BY <1>2 DEF CheckTensors, NothingYet, Checking
  <2>4. StagedRight' /\ Separate' /\ CopiedBackOnce' /\ SizesChecked'
    BY <2>1 DEF StagedRight, Separate, CopiedBackOnce, SizesChecked, Running
  <2> QED
    BY <2>2, <2>3, <2>4
<1>3. ASSUME CheckSizes PROVE Inv'
  <2>1. /\ phase = "tensors_checked" /\ phase' \in {"raised", "sizes_checked"}
        /\ phase' = "sizes_checked" => ~SizeMismatch
    BY <1>3 DEF CheckSizes
  <2>2. TypeOK' /\ CopiesFollow' /\ StoredElements' /\ InputsReadAsBefore' /\ MemoryFollows'
    BY <1>3, OnlyPhase DEF CheckSizes, Checking
  <2>3. NothingYet'
    BY <1>3 DEF CheckSizes, NothingYet, Checking
  <2>4. StagedRight' /\ Separate' /\ CopiedBackOnce'
    BY <2>1 DEF StagedRight, Separate, CopiedBackOnce, Running
  <2>5. SizesChecked'
    <3> SUFFICES ASSUME ~SizeMismatch, NEW a \in Args, NEW b \in Args,
                        call[a].size.kind = "symbol", call[b].size.kind # "static",
                        call[a].size.of = call[b].size.of
                 PROVE  call[b].tensor.size =
                          IF call[b].size.kind = "symbol" THEN call[a].tensor.size
                          ELSE call[a].tensor.size \div 2
      BY <1>3, SameCall DEF CheckSizes, SizesChecked, Running
    <3> DEFINE s == call[a].size.of
    <3>1. Binders(s) # {}
      BY DEF Binders
    <3>2. call[a].tensor.size = Bound(s)
      BY <3>1 DEF SizeMismatch
    <3>3. call[b].tensor.size = IF call[b].size.kind = "symbol" THEN Bound(s) ELSE Bound(s) \div 2
      BY <3>1 DEF SizeMismatch
    <3> QED
      BY <3>2, <3>3
  <2> QED
    BY <2>2, <2>3, <2>4, <2>5
<1>4. ASSUME CheckInouts PROVE Inv'
  <2>1. /\ phase = "sizes_checked" /\ phase' \in {"raised", "staging"}
        /\ phase' = "staging" => \A a, b \in InoutSpans : a < b => ~Overlap(a, b)
    BY <1>4 DEF CheckInouts
  <2>2. TypeOK' /\ CopiesFollow' /\ StoredElements' /\ InputsReadAsBefore' /\ MemoryFollows'
    BY <1>4, OnlyPhase DEF CheckInouts, Running
  <2>3. NothingYet'
    BY <1>4 DEF CheckInouts, NothingYet, Checking
  <2>4. StagedRight'
    <3>1. next' = 1 /\ \A a \in Args' : ~(a < next')
      BY <1>4, SameCall, ArgFacts DEF CheckInouts, NothingYet, Checking
    <3> QED
      BY <2>1, <3>1 DEF StagedRight, Running
  <2>5. Separate' /\ CopiedBackOnce'
    BY <1>4, SameCall DEF CheckInouts, Separate, CopiedBackOnce, Running
  <2>6. SizesChecked'
    BY <1>4, SameCall DEF CheckInouts, SizesChecked
  <2> QED
    BY <2>2, <2>3, <2>4, <2>5, <2>6
<1>5. ASSUME Stage PROVE Inv'
  <2> DEFINE t == call[next].tensor
  <2>1. /\ phase = "staging" /\ phase' = phase /\ next \in Args /\ next' = next + 1
        /\ call' = call /\ memory' = memory /\ loaded' = loaded /\ stored' = stored
        /\ staged' = [staged EXCEPT ![next] = IF Copied(next) THEN "copy" ELSE "itself"]
        /\ copies' = [copies EXCEPT ![next] =
             IF Copied(next) THEN [j \in Elements(t) |-> memory[Address(t, j)]] ELSE @]
    <3>1. next \in Args
      <4>1. call \in Seq(Arg) /\ next \in 1..Len(call) + 1 /\ next <= Len(call)
        BY <1>5, CallsAssumption DEF Stage, TypeOK
      <4> QED
        BY <4>1 DEF Args
    <3> QED
      BY <1>5, <3>1 DEF Stage, Copied
  <2>2. stored = {} /\ loaded = {} /\ Reached = {} /\ Reached' = {}
    BY <2>1 DEF NothingYet, Reached
  <2>3. \A c \in Cells : memory[c] = Before(c)
    BY <2>1, <2>2 DEF MemoryFollows
  <2>4. TypeOK'
    <3>1. next' \in 1..Len(call) + 1
      BY <2>1, ArgFacts
    <3>2. staged' \in [Args -> {"none", "itself", "copy"}] /\ DOMAIN copies' = Args
      BY <2>1 DEF TypeOK
    <3> QED
      BY <2>1, <3>1, SameCall DEF TypeOK
  <2>5. NothingYet'
    BY <2>1 DEF NothingYet, Checking
  <2>6. StagedRight'
    <3> SUFFICES ASSUME NEW a \in Args, a < next + 1
                 PROVE  staged'[a] = IF Copied(a) THEN "copy" ELSE "itself"
      BY <2>1, SameCall DEF StagedRight
    <3>1. CASE a = next
      BY <2>1, <3>1 DEF TypeOK
    <3>2. CASE a # next
      <4>1. a < next
        BY <2>1, <3>2, ArgFacts
      <4> QED
        BY <2>1 DEF StagedRight, TypeOK, Running
    <3> QED
      BY <3>1, <3>2
  <2>7. CopiesFollow'
    <3> SUFFICES ASSUME NEW a \in Args, staged'[a] = "copy"
                 PROVE  copies'[a] = [j \in Elements(call[a].tensor) |->
                                        Before(Address(call[a].tensor, j))]
      BY <2>1, <2>2, SameCall DEF CopiesFollow
    <3>1. CASE a = next
      <4>1. copies'[a] = [j \in Elements(t) |-> memory[Address(t, j)]]
        BY <2>1, <3>1 DEF TypeOK
      <4>2. \A j \in Elements(t) : memory[Address(t, j)] = Before(Address(t, j))
        BY <2>1, <2>3, ArgFacts
      <4> QED
        BY <3>1, <4>1, <4>2
    <3>2. CASE a # next
      BY <2>1, <2>2, <3>2 DEF CopiesFollow
    <3> QED
      BY <3>1, <3>2
  <2>8. StoredElements' /\ InputsReadAsBefore'
    BY <2>1, <2>2 DEF StoredElements, InputsReadAsBefore
  <2>9. MemoryFollows'
    BY <2>1, <2>2 DEF MemoryFollows
  <2>10. Separate' /\ CopiedBackOnce' /\ SizesChecked'
    BY <2>1, SameCall DEF Separate, CopiedBackOnce, SizesChecked
  <2> QED
    BY <2>4, <2>5, <2>6, <2>7, <2>8, <2>9, <2>10
<1>6. ASSUME CallEntry PROVE Inv'
  <2>1. /\ phase = "staging" /\ phase' = "entry" /\ next > Len(call) /\ next' = 1
        /\ UNCHANGED <<call, memory, staged, copies, loaded, stored>>
    BY <1>6 DEF CallEntry
  <2>2. stored = {} /\ Reached = {} /\ Reached' = {}
    BY <2>1 DEF NothingYet, Reached
  <2>3. TypeOK'
    BY <2>1, SameCall DEF TypeOK
  <2>4. NothingYet' /\ StoredElements'
    BY <2>1 DEF NothingYet, StoredElements
  <2>5. StagedRight'
    <3>1. \A a \in Args : a < next
      BY <2>1, ArgFacts DEF TypeOK
    <3> QED
      BY <2>1, <3>1, SameCall DEF StagedRight, Running
  <2>6. CopiesFollow' /\ InputsReadAsBefore'
    BY <2>1, SameCall DEF CopiesFollow, InputsReadAsBefore
  <2>7. MemoryFollows'
    BY <2>1, <2>2 DEF MemoryFollows
  <2>8. Separate' /\ CopiedBackOnce' /\ SizesChecked'
    BY <2>1, SameCall DEF Separate, CopiedBackOnce, SizesChecked, Running
  <2> QED
    BY <2>3, <2>4, <2>5, <2>6, <2>7, <2>8
<1>7. ASSUME NEW a \in Args, NEW j \in Elements(call[a].tensor), EntryLoad(a, j) PROVE Inv'
  <2> DEFINE t == call[a].tensor
  <2>1. /\ phase = "entry" /\ loaded' = loaded \union {<<a, j, Contents(a, j)>>}
        /\ UNCHANGED <<call, phase, next, memory, staged, copies, stored>>
    BY <1>7 DEF EntryLoad
  <2>2. t \in Tensor /\ j \in Nat /\ Address(t, j) \in Cells /\ a \in Nat
    BY ArgFacts
  <2>3. staged[a] = IF Copied(a) THEN "copy" ELSE "itself"
    BY <2>1 DEF StagedRight, Running
  <2>4. ASSUME Copied(a)
        PROVE  /\ Contents(a, j) \in Seq(Nat)
               /\ a \in Ins => Contents(a, j) = Before(Address(t, j))
    <3>1. Contents(a, j) = IF <<a, j>> \in stored THEN Stored(a, j) ELSE Before(Address(t, j))
      BY <2>3, <2>4 DEF Contents, CopiesFollow
    <3>2. a \in Ins => <<a, j>> \notin stored
      BY DEF StoredElements, Ins, Inouts
    <3>3. Contents(a, j) \in Seq(Nat)
      BY <2>2, <3>1, ContentsTyped
    <3> QED
      BY <3>1, <3>2, <3>3
  <2>5. ASSUME ~Copied(a)
        PROVE  /\ Contents(a, j) \in Seq(Nat)
               /\ a \in Ins => Contents(a, j) = Before(Address(t, j))
    <3>1. BufferAddress(a, j) = Address(t, j)
      BY <2>2, <2>5, ContiguousPlaces DEF Copied, BufferAddress
    <3>2. Contents(a, j) = memory[Address(t, j)]
      BY <2>3, <2>5, <3>1 DEF Contents
    <3>3. a \in Ins => memory[Address(t, j)] = Before(Address(t, j))
      <4> SUFFICES ASSUME a \in Ins PROVE memory[Address(t, j)] = Before(Address(t, j))
        OBVIOUS
      <4>1. \A e \in Reached : Place(e) # Address(t, j)
        BY <2>5, InputApart DEF Reached, StoredElements, Place
      <4> QED
        BY <2>1, <2>2, <4>1 DEF MemoryFollows
    <3> QED
      BY <2>2, <3>2, <3>3 DEF TypeOK
  <2>6. Contents(a, j) \in Seq(Nat) /\ (a \in Ins => Contents(a, j) = Before(Address(t, j)))
    BY <2>4, <2>5
  <2>7. TypeOK'
    <3>1. loaded' \subseteq Args \X Nat \X Seq(Nat)
      BY <2>1, <2>2, <2>6 DEF TypeOK
    <3> QED
      BY <2>1, <3>1, SameCall DEF TypeOK
  <2>8. InputsReadAsBefore'
    BY <2>1, <2>6 DEF InputsReadAsBefore, Ins
  <2>9. Reached' = Reached
    BY <2>1 DEF Reached
  <2>10. NothingYet' /\ StagedRight' /\ CopiesFollow' /\ StoredElements'
    BY <2>1, SameCall DEF NothingYet, StagedRight, CopiesFollow, StoredElements, Checking
  <2>11. MemoryFollows'
    BY <2>1, <2>9, SameCall DEF MemoryFollows
  <2>12. Separate' /\ CopiedBackOnce' /\ SizesChecked'
    BY <2>1, SameCall DEF Separate, CopiedBackOnce, SizesChecked
  <2> QED
    BY <2>7, <2>8, <2>10, <2>11, <2>12
<1>8. ASSUME NEW a \in Inouts, NEW j \in Elements(call[a].tensor), EntryStore(a, j) PROVE Inv'
  <2> DEFINE t == call[a].tensor
  <2>1. /\ phase = "entry" /\ next = 1 /\ stored' = stored \union {<<a, j>>}
        /\ UNCHANGED <<call, phase, next, staged, loaded>>
    BY <1>8 DEF EntryStore, NothingYet
  <2>2. t \in Tensor /\ j \in Nat /\ Address(t, j) \in Cells /\ a \in Nat /\ a \in Args /\ a >= 1
    BY ArgFacts DEF Inouts
  <2>3. staged[a] = IF Copied(a) THEN "copy" ELSE "itself"
    BY <2>1, <2>2 DEF StagedRight, Running
  <2>4. StoredElements' /\ InputsReadAsBefore' /\ NothingYet'
    BY <2>1, SameCall DEF StoredElements, InputsReadAsBefore, NothingYet, Checking
  <2>5. StagedRight' /\ Separate' /\ CopiedBackOnce' /\ SizesChecked'
    BY <2>1, SameCall DEF StagedRight, Separate, CopiedBackOnce, SizesChecked
  <2>6. stored' \subseteq Inouts' \X Nat
    BY <2>1, <2>2, SameCall DEF TypeOK
  <2>7. CASE Copied(a)
    <3>1. memory' = memory /\ copies' = [copies EXCEPT ![a][j] = Stored(a, j)]
      BY <1>8, <2>3, <2>7 DEF EntryStore
    <3>2. TypeOK'
      BY <2>1, <2>6, <3>1, SameCall DEF TypeOK
    <3>3. Reached' = Reached
      BY <2>1, <2>2, <2>3, <2>7 DEF Reached
    <3>4. MemoryFollows'
      BY <2>1, <3>1, <3>3, SameCall DEF MemoryFollows
    <3>5. CopiesFollow'
      <4> SUFFICES ASSUME NEW b \in Args, staged[b] = "copy"
                   PROVE  copies'[b] =
                            [k \in Elements(call[b].tensor) |->
                               IF <<b, k>> \in stored' THEN Stored(b, k)
                               ELSE Before(Address(call[b].tensor, k))]
        BY <2>1, SameCall DEF CopiesFollow
      <4>1. copies[b] = [k \in Elements(call[b].tensor) |->
                           IF <<b, k>> \in stored THEN Stored(b, k)
                           ELSE Before(Address(call[b].tensor, k))]
        BY DEF CopiesFollow
      <4>2. CASE b = a
        <5>1. copies'[b] = [copies[b] EXCEPT ![j] = Stored(b, j)]
          BY <3>1, <4>2 DEF TypeOK
        <5> QED
          BY <2>1, <4>1, <4>2, <5>1
      <4>3. CASE b # a
        <5>1. copies'[b] = copies[b]
          BY <3>1, <4>3
        <5> QED
          BY <2>1, <4>1, <4>3, <5>1
      <4> QED
        BY <4>2, <4>3
    <3> QED
      BY <2>4, <2>5, <3>2, <3>4, <3>5
  <2>8. CASE ~Copied(a)
    <3>1. BufferAddress(a, j) = Address(t, j) /\ ~SelfOverlapping(t)
      BY <2>2, <2>8, ContiguousPlaces DEF Copied, BufferAddress
    <3>2. copies' = copies /\ memory' = [memory EXCEPT ![Address(t, j)] = <<a, j>>]
      BY <1>8, <2>3, <2>8, <3>1 DEF EntryStore, Stored
    <3>3. TypeOK'
      <4>1. <<a, j>> \in Seq(Nat)
        BY <2>2
      <4> QED
        BY <2>1, <2>6, <3>2, <4>1, SameCall DEF TypeOK
    <3>4. Reached' = Reached \union {<<a, j>>}
      BY <2>1, <2>3, <2>8 DEF Reached
    <3>5. CopiesFollow'
      BY <2>1, <2>3, <2>8, <3>2, SameCall DEF CopiesFollow
    <3>6. Place(<<a, j>>) = Address(t, j)
      BY DEF Place
    <3>7. \A e \in Reached : Place(e) = Address(t, j) => e = <<a, j>>
      BY <2>1, <3>1, StoredAlone DEF Reached, Running
    <3>8. \A e \in Reached : Place(e) \in Cells
      BY StoredPlaces DEF Reached
    <3>9. MemoryFollows'
      <4>1. \A e \in Reached' : memory'[Place(e)] = e
        BY <2>1, <2>2, <3>2, <3>4, <3>6, <3>7, <3>8 DEF MemoryFollows, TypeOK
      <4>2. ASSUME NEW c \in Cells, \A e \in Reached' : Place(e) # c
            PROVE  memory'[c] = Before(c)
        BY <2>1, <3>2, <3>4, <3>6, <4>2 DEF MemoryFollows
      <4> QED
        BY <2>1, <4>1, <4>2, SameCall DEF MemoryFollows
    <3> QED
      BY <2>4, <2>5, <3>3, <3>5, <3>9
  <2> QED
    BY <2>7, <2>8
<1>9. ASSUME EntryReturns PROVE Inv'
  <2>1. phase = "entry" /\ phase' = "copying_back" /\ next = 1 /\ next' = 1
    BY <1>9 DEF EntryReturns, NothingYet
  <2>2. TypeOK' /\ CopiesFollow' /\ StoredElements' /\ InputsReadAsBefore' /\ MemoryFollows'
    BY <1>9, OnlyPhase DEF EntryReturns, Running
  <2>3. NothingYet'
    BY <2>1 DEF NothingYet, Checking
  <2>4. StagedRight' /\ Separate' /\ SizesChecked'
    BY <1>9, SameCall DEF EntryReturns, StagedRight, Separate, SizesChecked, Running
  <2>5. CopiedBackOnce'
    <3>1. \A a \in Inouts' : ~(a < next')
      BY <1>9, <2>1, SameCall, ArgFacts DEF EntryReturns, Inouts
    <3> QED
      BY <3>1 DEF CopiedBackOnce
  <2> QED
    BY <2>2, <2>3, <2>4, <2>5
<1>10. ASSUME CopyBack PROVE Inv'
  <2> DEFINE t == call[next].tensor
             needed == NeedsCopyBack(next)
  <2>1. /\ phase = "copying_back" /\ next \in Args /\ next' = next + 1
        /\ UNCHANGED <<call, staged, copies, loaded, stored>>
        /\ phase' = IF needed /\ SelfOverlapping(t) THEN "raised" ELSE phase
    BY <1>10 DEF CopyBack, TypeOK, Args
  <2>2. memory' = IF needed /\ ~SelfOverlapping(t)
                  THEN [c \in Cells |->
                          IF c \in Footprint(t)
                          THEN copies[next][CHOOSE j \in Elements(t) : Address(t, j) = c]
                          ELSE memory[c]]
                  ELSE memory
    BY <1>10 DEF CopyBack
  <2>3. t \in Tensor /\ next \in Nat /\ Len(call) \in Nat /\ next <= Len(call)
    BY <2>1, ArgFacts
  <2>4. staged[next] = IF Copied(next) THEN "copy" ELSE "itself"
    BY <2>1 DEF StagedRight, Running
  <2>5. needed <=> next \in Inouts /\ Copied(next)
    BY <2>1, <2>4 DEF NeedsCopyBack, Inouts
  <2>6. NothingYet' /\ CopiesFollow' /\ StoredElements' /\ InputsReadAsBefore'
    BY <2>1, SameCall DEF NothingYet, CopiesFollow, StoredElements, InputsReadAsBefore,
         Checking
  <2>7. StagedRight' /\ Separate' /\ SizesChecked'
    BY <2>1, SameCall DEF StagedRight, Separate, SizesChecked, Running
  <2>8. CopiedBackOnce'
    <3> SUFFICES ASSUME phase' = "copying_back", NEW a \in Inouts, a < next + 1, Copied(a)
                 PROVE  ~SelfOverlapping(call[a].tensor)
      BY <2>1, SameCall DEF CopiedBackOnce
    <3>1. CASE a = next
      BY <2>1, <2>5, <3>1
    <3>2. CASE a # next
      <4>1. a < next
        BY <2>3, <3>2, ArgFacts DEF Inouts
      <4> QED
        BY <2>1, <4>1 DEF CopiedBackOnce
    <3> QED
      BY <3>1, <3>2
  <2>9. \A e \in stored : /\ e[1] \in Inouts /\ e[1] \in Nat /\ e[2] \in Elements(call[e[1]].tensor)
                          /\ e = <<e[1], e[2]>> /\ Place(e) \in Cells
    BY StoredPlaces
  <2>10. next' \in 1..Len(call) + 1 /\ phase' \in {phase, "raised"}
    BY <2>1, <2>3
  <2>11. CASE ~(needed /\ ~SelfOverlapping(t))
    <3>1. memory' = memory
      BY <2>2, <2>11
    <3>2. TypeOK'
      BY <2>1, <2>10, <3>1, SameCall DEF TypeOK
    <3>3. phase' # "raised" => Reached' = Reached
      <4> SUFFICES ASSUME ~needed PROVE Reached' = Reached
        BY <2>1, <2>11
      <4>1. \A e \in stored : e[1] = next => staged[next] = "itself"
        BY <2>4, <2>5, <2>9
      <4> QED
        BY <2>1, <2>3, <2>9, <4>1 DEF Reached
    <3>4. MemoryFollows'
      BY <2>1, <3>1, <3>3, SameCall DEF MemoryFollows
    <3> QED
      BY <2>6, <2>7, <2>8, <3>2, <3>4
  <2>12. CASE needed /\ ~SelfOverlapping(t)
    <3>1. phase' = "copying_back" /\ next \in Inouts
      BY <2>1, <2>5, <2>12
    <3>2. \A j \in Elements(t) :
            /\ copies[next][j] = IF <<next, j>> \in stored THEN <<next, j>>
                                 ELSE Before(Address(t, j))
            /\ j \in Nat /\ Address(t, j) \in Cells
      BY <2>1, <2>4, <2>5, <2>12, ArgFacts DEF CopiesFollow, Stored
    <3>3. \A j \in Elements(t) : memory'[Address(t, j)] = copies[next][j]
      <4> SUFFICES ASSUME NEW j \in Elements(t) PROVE memory'[Address(t, j)] = copies[next][j]
        OBVIOUS
      <4>1. Address(t, j) \in Footprint(t) /\ Address(t, j) \in Cells
        BY <3>2 DEF Footprint
      <4>2. (CHOOSE k \in Elements(t) : Address(t, k) = Address(t, j)) = j
        OBVIOUS
      <4> QED
        BY <2>2, <2>12, <4>1
    <3>4. \A c \in Cells : (\A j \in Elements(t) : Address(t, j) # c) => memory'[c] = memory[c]
      BY <2>2 DEF Footprint
    <3>5. DOMAIN memory' = Cells /\ memory' = [c \in Cells |-> memory'[c]]
      BY <2>2, <2>12
    <3>6. TypeOK'
      <4>1. ASSUME NEW c \in Cells PROVE memory'[c] \in Seq(Nat)
        <5>1. CASE \A j \in Elements(t) : Address(t, j) # c
          BY <3>4, <5>1 DEF TypeOK
        <5>2. ASSUME NEW j \in Elements(t), Address(t, j) = c PROVE memory'[c] \in Seq(Nat)
          <6>1. <<next, j>> \in Seq(Nat) /\ Before(c) \in Seq(Nat)
            BY <2>3, <3>2, ContentsTyped DEF Stored
          <6> QED
            BY <3>2, <3>3, <5>2, <6>1
        <5> QED
          BY <5>1, <5>2
      <4>2. memory' \in [Cells -> Seq(Nat)]
        BY <3>5, <4>1
      <4> QED
        BY <2>1, <2>10, <4>2, SameCall DEF TypeOK
    <3>7. Reached' = Reached \union {e \in stored : e[1] = next}
      BY <2>1, <2>3, <2>9 DEF Reached
    <3>8. \A e \in stored : \A j \in Elements(t) : Place(e) = Address(t, j) => e = <<next, j>>
      BY <2>1, <2>12, <3>1, StoredAlone DEF Running
    <3>9. \A e \in Reached' : memory'[Place(e)] = e
      <4> SUFFICES ASSUME NEW e \in stored, e[1] = next \/ e \in Reached
                   PROVE  memory'[Place(e)] = e
        BY <3>7 DEF Reached
      <4>1. CASE e[1] = next
        <5>1. e[2] \in Elements(t) /\ Place(e) = Address(t, e[2]) /\ e = <<next, e[2]>>
          BY <2>9, <4>1 DEF Place
        <5> QED
          BY <3>2, <3>3, <5>1
      <4>2. CASE e[1] # next
        <5>1. \A j \in Elements(t) : Address(t, j) # Place(e)
          BY <3>8, <4>2
        <5> QED
          BY <2>1, <2>9, <3>4, <4>2, <5>1 DEF MemoryFollows
      <4> QED
        BY <4>1, <4>2
    <3>10. ASSUME NEW c \in Cells, \A e \in Reached' : Place(e) # c
           PROVE  memory'[c] = Before(c)
      <4>1. CASE \A j \in Elements(t) : Address(t, j) # c
        BY <2>1, <3>4, <3>7, <3>10, <4>1 DEF MemoryFollows
      <4>2. ASSUME NEW j \in Elements(t), Address(t, j) = c PROVE memory'[c] = Before(c)
        <5>1. <<next, j>> \notin stored
          BY <3>7, <3>10, <4>2 DEF Place
        <5> QED
          BY <3>2, <3>3, <4>2, <5>1
      <4> QED
        BY <4>1, <4>2
    <3>11. MemoryFollows'
      BY <2>1, <3>9, <3>10, SameCall DEF MemoryFollows
    <3> QED
      BY <2>6, <2>7, <2>8, <3>6, <3>11
  <2> QED
    BY <2>11, <2>12
<1>11. ASSUME HostReturns PROVE Inv'
  <2>1. phase = "copying_back" /\ phase' = "returned"
    BY <1>11 DEF HostReturns
  <2>2. TypeOK' /\ CopiesFollow' /\ StoredElements' /\ InputsReadAsBefore' /\ MemoryFollows'
    BY <1>11, OnlyPhase DEF HostReturns
  <2>3. NothingYet' /\ StagedRight' /\ Separate' /\ CopiedBackOnce' /\ SizesChecked'
    BY <2>1 DEF NothingYet, StagedRight, Separate, CopiedBackOnce, SizesChecked, Checking,
         Running
  <2> QED
    BY <2>2, <2>3
<1>12. ASSUME UNCHANGED vars PROVE Inv'
  <2>1. UNCHANGED <<call, next, memory, staged, copies, loaded, stored>> /\ phase' = phase
    BY <1>12 DEF vars
  <2>2. phase' \in Checking \union Running \union {"returned", "raised"}
    BY <2>1 DEF TypeOK, Checking, Running
  <2>3. TypeOK' /\ CopiesFollow' /\ StoredElements' /\ InputsReadAsBefore' /\ Reached' = Reached
    BY <2>1, <2>2, OnlyPhase
  <2>4. MemoryFollows'
    BY <2>1, <2>3, SameCall DEF MemoryFollows
  <2>5. NothingYet' /\ StagedRight' /\ Separate' /\ CopiedBackOnce' /\ SizesChecked'
    BY <2>1, SameCall DEF NothingYet, StagedRight, Separate, CopiedBackOnce, SizesChecked
  <2> QED
    BY <2>3, <2>4, <2>5
<1> QED
  BY <1>1, <1>2, <1>3, <1>4, <1>5, <1>6, <1>7, <1>8, <1>9, <1>10, <1>11, <1>12 DEF Next, Entry,
       Terminated

-----------------------------------------------------------------------------
\* Every reachable state satisfies the inductive invariant.
THEOREM InvHolds == Spec => []Inv
PROOF
  BY InitInv, StepInv, PTL DEF Spec

\* The shapes of the call's state hold for all calls.
THEOREM TypesHold == Spec => []TypeOK
PROOF
<1>1. Inv => TypeOK
  BY DEF Inv
<1> QED
  BY <1>1, InvHolds, PTL

\* No buffer the entry writes shares a cell with another argument's buffer, whatever
\* tensors overlap in the caller's memory: the checks and the copies of call_entry are
\* enough for the restrict the entry declares (driver.py, call_entry).
THEOREM RestrictAlwaysHolds == Spec => []RestrictHolds
PROOF
<1>1. Inv => RestrictHolds
  <2> SUFFICES ASSUME Inv, phase = "entry", NEW a \in Inouts, NEW b \in Args, a # b,
                      NEW c \in BufferCells(a), c \in BufferCells(b)
               PROVE  FALSE
    BY DEF RestrictHolds
  <2>1. a \in Args /\ call[a].tensor \in Tensor /\ call[b].tensor \in Tensor
        /\ (b \in Inouts \/ b \in Ins)
    BY ArgFacts DEF Inv, Inouts, Ins
  <2>2. ~Copied(a) /\ ~Copied(b)
    BY <2>1 DEF Inv, StagedRight, Running, BufferCells
  <2>3. PICK j \in Elements(call[a].tensor) : c = BufferAddress(a, j)
    BY DEF BufferCells
  <2>4. PICK k \in Elements(call[b].tensor) : c = BufferAddress(b, k)
    BY DEF BufferCells
  <2>5. Address(call[a].tensor, j) = Address(call[b].tensor, k)
    BY <2>1, <2>2, <2>3, <2>4, ContiguousPlaces DEF Copied, BufferAddress
  <2>6. CASE b \in Inouts
    BY <2>5, <2>6, WrittenApart DEF Inv, Running
  <2>7. CASE b \in Ins
    BY <2>2, <2>5, <2>7, InputApart DEF Inv
  <2> QED
    BY <2>1, <2>6, <2>7
<1> QED
  BY <1>1, InvHolds, PTL

\* In whatever order the entry loads and stores, every element it loads of an input is
\* the one the caller passed (driver.py, call_entry: an overlapping input is cloned).
THEOREM InputsAlwaysReadAsBefore == Spec => []InputsReadAsBefore
PROOF
<1>1. Inv => InputsReadAsBefore
  BY DEF Inv
<1> QED
  BY <1>1, InvHolds, PTL

\* The entry only runs on sizes that agree, however many symbols and computed sizes the
\* signature has (driver.py, _check_sizes).
THEOREM SizesAlwaysAgree == Spec => []SizesAgree
PROOF
<1>1. Inv => SizesAgree
  BY DEF Inv, SizesChecked, SizesAgree, Running
<1> QED
  BY <1>1, InvHolds, PTL

-----------------------------------------------------------------------------
\* Memory is as before the call but for the elements that reached it.
LEMMA MemoryReplaced ==
  ASSUME Inv, phase # "raised"
  PROVE  memory = [c \in Cells |-> IF \E e \in Reached : Place(e) = c
                                   THEN CHOOSE e \in Reached : Place(e) = c ELSE Before(c)]
PROOF
<1>1. ASSUME NEW c \in Cells, NEW e \in Reached, Place(e) = c
      PROVE  memory[c] = CHOOSE f \in Reached : Place(f) = c
  <2> DEFINE f == CHOOSE f \in Reached : Place(f) = c
  <2>1. f \in Reached /\ Place(f) = c
    BY <1>1
  <2> QED
    BY DEF Inv, MemoryFollows
<1>2. ASSUME NEW c \in Cells
      PROVE  memory[c] = IF \E e \in Reached : Place(e) = c
                         THEN CHOOSE e \in Reached : Place(e) = c ELSE Before(c)
  BY DEF Inv, MemoryFollows
<1>3. memory = [c \in Cells |-> memory[c]]
  BY DEF Inv, TypeOK
<1> QED
  BY <1>2, <1>3

\* A call that starts is pending for its caller.
LEMMA AbstractInit == Init => Abstract!Init
PROOF
  BY DEF Init, Abstract!Init, Result, Seen, Done, Finished, Before

\* Every step of a call is one of its caller's, or one the caller does not see.
LEMMA AbstractStep == Inv /\ [Next]_vars => [Abstract!Next]_(Abstract!vars)
PROOF
<1> SUFFICES ASSUME Inv, [Next]_vars PROVE [Abstract!Next]_(Abstract!vars)
  OBVIOUS
<1> USE DEF Inv
<1>1. call' = call
  BY DEF Next, vars, EarlyReturn, CheckTensors, CheckSizes, CheckInouts, Stage, CallEntry,
       Entry, EntryLoad, EntryStore, EntryReturns, CopyBack, HostReturns, Terminated
<1>2. Cells' = Cells /\ WrittenPlaces' = WrittenPlaces /\ Repeated' = Repeated
  BY <1>1, SameCall DEF WrittenPlaces, Repeated
<1>3. ASSUME NEW places, places = WrittenPlaces
      PROVE  \A e \in stored : e \in DOMAIN places /\ places[e] = Place(e)
  <2>1. ASSUME NEW e \in stored
        PROVE  e \in UNION {{a} \X Elements(call[a].tensor) : a \in Inouts}
    BY StoredPlaces
  <2> QED
    BY <1>3, <2>1 DEF WrittenPlaces, Place
<1>4. ASSUME ~Finished
      PROVE  Result = "pending" /\ Done = {} /\ Seen = [c \in Cells |-> Before(c)]
  BY <1>4 DEF Result, Done, Seen
<1>5. ASSUME Finished' PROVE Result' = phase' /\ Done' = stored' /\ Seen' = memory'
  BY <1>5 DEF Result, Done, Seen
<1>6. ASSUME ~Finished, phase # "raised", NEW S, S = Reached
      PROVE  Abstract!Replaced(S) = memory
  <2>1. \A c \in Cells : \A e \in S : WrittenPlaces[e] = Place(e)
    BY <1>3, <1>6 DEF Reached
  <2>2. \A c \in Cells : (CHOOSE e \in S : WrittenPlaces[e] = c) = (CHOOSE e \in S : Place(e) = c)
    BY <2>1
  <2>3. \A c \in Cells : (\E e \in S : WrittenPlaces[e] = c) <=> (\E e \in S : Place(e) = c)
    BY <2>1
  <2>4. \A c \in Cells : Seen[c] = Before(c)
    BY <1>4, <1>6
  <2>5. memory = [c \in Cells |-> IF \E e \in S : Place(e) = c
                                 THEN CHOOSE e \in S : Place(e) = c ELSE Before(c)]
    BY <1>6, MemoryReplaced
  <2>6. memory = [c \in Cells |-> IF \E e \in S : WrittenPlaces[e] = c
                                 THEN CHOOSE e \in S : WrittenPlaces[e] = c ELSE Seen[c]]
    BY <2>2, <2>3, <2>4, <2>5
  <2> QED
    BY <2>6 DEF Abstract!Replaced
<1>7. ASSUME ~Finished, ~Finished' PROVE UNCHANGED Abstract!vars
  BY <1>2, <1>7 DEF Abstract!vars, Result, Done, Seen
<1>8. ASSUME phase \in Checking, phase' = "raised", UNCHANGED <<memory, stored>>
      PROVE  Abstract!Raise
  <2>1. stored = {} /\ Reached = {} /\ ~Finished /\ Finished'
    BY <1>8 DEF NothingYet, Reached, Finished, Checking
  <2>2. memory = [c \in Cells |-> Before(c)]
    BY <1>8, <2>1, MemoryReplaced DEF Checking
  <2> QED
    BY <1>2, <1>4, <1>5, <1>8, <2>1, <2>2 DEF Abstract!Raise
<1>9. ASSUME phase \in {"host", "copying_back"}, phase' = "returned", Reached = stored,
             UNCHANGED <<memory, stored>>
      PROVE  Abstract!Return
  <2>1. ~Finished /\ Finished' /\ phase # "raised"
    BY <1>9 DEF Finished
  <2>2. Abstract!Replaced(stored) = memory
    BY <1>6, <1>9, <2>1
  <2>3. stored \in SUBSET DOMAIN WrittenPlaces
    BY <1>3
  <2> QED
    BY <1>2, <1>4, <1>5, <1>9, <2>1, <2>2, <2>3 DEF Abstract!Return
<1>10. ASSUME EarlyReturn PROVE Abstract!Return
  <2>1. stored = {} /\ Reached = stored
    BY <1>10 DEF EarlyReturn, NothingYet, Reached, Checking
  <2> QED
    BY <1>9, <1>10, <2>1 DEF EarlyReturn
<1>11. ASSUME CheckTensors \/ CheckSizes \/ CheckInouts
       PROVE  Abstract!Raise \/ UNCHANGED Abstract!vars
  <2>1. phase \in Checking /\ UNCHANGED <<memory, stored>>
        /\ (phase' = "raised" \/ (~Finished /\ ~Finished'))
    BY <1>11 DEF CheckTensors, CheckSizes, CheckInouts, Checking, Finished
  <2> QED
    BY <1>7, <1>8, <2>1
<1>12. ASSUME Stage \/ CallEntry \/ Entry PROVE UNCHANGED Abstract!vars
  <2>1. ~Finished /\ ~Finished'
    BY <1>12 DEF Stage, CallEntry, Entry, EntryLoad, EntryStore, EntryReturns, Finished
  <2> QED
    BY <1>7, <2>1
<1>13. ASSUME CopyBack PROVE Abstract!RaiseHalfway \/ UNCHANGED Abstract!vars
  <2>1. CASE phase' = phase
    <3>1. ~Finished /\ ~Finished'
      BY <1>13, <2>1 DEF CopyBack, Finished
    <3> QED
      BY <1>7, <3>1
  <2>2. CASE phase' # phase
    <3>1. /\ phase = "copying_back" /\ phase' = "raised" /\ memory' = memory /\ stored' = stored
          /\ next \in 1..Len(call) /\ NeedsCopyBack(next) /\ SelfOverlapping(call[next].tensor)
      BY <1>13, <2>2 DEF CopyBack, TypeOK
    <3>2. Repeated
      <4>1. Args = 1..Len(call)
        BY DEF Args
      <4> QED
        BY <3>1, <4>1 DEF Repeated, NeedsCopyBack, Inouts
    <3>3. ~Finished /\ Finished' /\ phase # "raised"
      BY <3>1 DEF Finished
    <3>4. Abstract!Replaced(Reached) = memory
      BY <1>6, <3>3
    <3>5. stored \in SUBSET DOMAIN WrittenPlaces /\ Reached \in SUBSET stored
      BY <1>3 DEF Reached
    <3> QED
      BY <1>2, <1>4, <1>5, <3>1, <3>2, <3>3, <3>4, <3>5 DEF Abstract!RaiseHalfway
  <2> QED
    BY <2>1, <2>2
<1>14. ASSUME HostReturns PROVE Abstract!Return
  <2>1. \A e \in stored : e[1] < next
    <3>1. Args = 1..Len(call) /\ Len(call) \in Nat
      BY DEF Args
    <3>2. \A e \in stored : e[1] \in Args
      BY StoredPlaces DEF Inouts
    <3> QED
      BY <1>14, <3>1, <3>2 DEF HostReturns, TypeOK
  <2>2. Reached = stored
    BY <2>1 DEF Reached
  <2> QED
    BY <1>9, <1>14, <2>2 DEF HostReturns
<1>15. ASSUME UNCHANGED vars PROVE UNCHANGED Abstract!vars
  BY <1>2, <1>15 DEF vars, Abstract!vars, Result, Done, Seen, Finished
<1> QED
  BY <1>10, <1>11, <1>12, <1>13, <1>14, <1>15 DEF Next, Terminated, Abstract!Next

\* For its caller a call is one step: it raises and leaves memory alone, or returns with
\* the elements the entry stored in their places and nothing else changed; only a call
\* given a self-overlapping tensor to write may raise after its stores
\* (driver.py, call_entry).
THEOREM CallsAreAtomic == Spec => CallIsAtomic
PROOF
  BY AbstractInit, AbstractStep, InvHolds, PTL DEF Spec, CallIsAtomic, Abstract!Spec
=============================================================================
