-------------------------- MODULE SizeValuesProofs --------------------------
(***************************************************************************)
(* For any sizes and functions: no size value is ever below a body         *)
(* operation, and every value is defined above its uses but for those that *)
(* one size has of another across the integer that is the anchor.          *)
(***************************************************************************)
EXTENDS SizeValues, SequenceTheorems, TLAPS

Operation == [id : Nat, of : {"int", "setup", "body"} \union DOMAIN Sizes, uses : SUBSET Nat]

Frame ==
  [size : DOMAIN Sizes, at : Nat, left : Seq({"int"} \union DOMAIN Sizes),
   operands : SUBSET Nat]

Shapes ==
  /\ function \in 1..Len(Provided) /\ raised \in BOOLEAN
  /\ block \in Seq(Operation) /\ frames \in Seq(Frame)
  /\ setup \in 1..Len(block) /\ anchor \in Nat /\ fresh \in Nat \ {0}
  /\ DOMAIN values \subseteq DOMAIN Sizes
  /\ values = [s \in DOMAIN values |-> values[s]]

\* Everything in the block and in hand has been emitted.
Emitted ==
  /\ \A i \in DOMAIN block : /\ block[i].id \in 1..(fresh - 1)
                             /\ block[i].uses \subseteq 1..(fresh - 1)
  /\ \A s \in DOMAIN values : values[s] \in 1..(fresh - 1)
  /\ \A f \in DOMAIN frames : frames[f].operands \subseteq 1..(fresh - 1)

\* A level that is not the innermost waits for its next argument.
Waiting == \A f \in DOMAIN frames : f < Len(frames) => frames[f].left # <<>>

\* An identity names one operation.
OnePlace == \A i, j \in DOMAIN block : block[i].id = block[j].id => i = j

Bodiless(n) == \A i \in 1..n : block[i].of # "body"

\* The anchor is below the setup, and no body operation is above it.
AnchorPlaced ==
  /\ Bodiless(setup)
  /\ anchor # NoOp =>
       \E i \in DOMAIN block : i > setup /\ block[i].id = anchor /\ Bodiless(i - 1)

\* A level inserts before the anchor, or at the end of a block that has no body yet.
FramesPlaced ==
  \A f \in DOMAIN frames :
    /\ frames[f].at \in {AtEnd, anchor}
    /\ frames[f].at = AtEnd => Bodiless(Len(block))

Inv ==
  /\ Shapes /\ Emitted /\ Waiting /\ OnePlace
  /\ AnchorPlaced /\ FramesPlaced /\ SizesBeforeBody

-----------------------------------------------------------------------------
IsIn(id) == \E j \in DOMAIN block : block[j].id = id

\* It computes a size.
OfSize(id) == \E j \in DOMAIN block : block[j].id = id /\ block[j].of \in DOMAIN Sizes

AboveAnchor(id) == \E j, k \in DOMAIN block : j < k /\ block[j].id = id /\ block[k].id = anchor

\* The anchor is an integer of a size or a body operation, and so is what could
\* become one.
AnchorIsNoSize ==
  /\ \A i \in DOMAIN block : block[i].id = anchor => block[i].of \in {"int", "body"}
  /\ anchor = NoOp => \A i \in DOMAIN block : i > setup => block[i].of \in {"int", "body"}

\* What is known is the value of a size.  What a level has in hand is in the block,
\* and above the anchor if the level inserts there, unless it is a size.
InHand ==
  /\ \A s \in DOMAIN values : OfSize(values[s])
  /\ \A f \in DOMAIN frames : \A u \in frames[f].operands :
       /\ IsIn(u)
       /\ frames[f].at = anchor /\ anchor # NoOp => OfSize(u) \/ AboveAnchor(u)

OrderInv == Inv /\ AnchorIsNoSize /\ InHand /\ UsesInOrder

-----------------------------------------------------------------------------
\* An element put in moves the ones from its place on a place back.
LEMMA Inserted ==
  ASSUME NEW T, NEW s \in Seq(T), NEW p \in 1..Len(s), NEW x \in T
  PROVE  /\ InsertAt(s, p, x) \in Seq(T) /\ Len(InsertAt(s, p, x)) = Len(s) + 1
         /\ \A j \in 1..p - 1 : InsertAt(s, p, x)[j] = s[j]
         /\ InsertAt(s, p, x)[p] = x
         /\ \A j \in p + 1..Len(s) + 1 : InsertAt(s, p, x)[j] = s[j - 1]
PROOF
<1> DEFINE before == SubSeq(s, 1, p - 1)
           behind == SubSeq(s, p, Len(s))
           upto == before \o <<x>>
<1>1. /\ before \in Seq(T) /\ Len(before) = p - 1
      /\ \A j \in 1..p - 1 : before[j] = s[j]
  OBVIOUS
<1>2. /\ behind \in Seq(T) /\ Len(behind) = Len(s) - p + 1
      /\ \A j \in 1..Len(s) - p + 1 : behind[j] = s[p + j - 1]
  OBVIOUS
<1>3. <<x>> \in Seq(T) /\ Len(<<x>>) = 1 /\ <<x>>[1] = x
  OBVIOUS
<1>4. InsertAt(s, p, x) = upto \o behind
  BY DEF InsertAt
<1> HIDE DEF before, behind
<1>5. /\ upto \in Seq(T) /\ Len(upto) = p
      /\ \A j \in 1..p : upto[j] = IF j < p THEN s[j] ELSE x
  <2>1. /\ upto \in Seq(T) /\ Len(upto) = Len(before) + 1
        /\ \A j \in 1..Len(before) + 1 : upto[j] =
             IF j <= Len(before) THEN before[j] ELSE <<x>>[j - Len(before)]
    BY <1>1, ConcatProperties
  <2>2. \A j \in 1..p : /\ j \in 1..Len(before) + 1 /\ (j <= Len(before) <=> j < p)
                        /\ (j < p \/ j - Len(before) = 1)
    BY <1>1
  <2> QED
    BY <1>1
<1> HIDE DEF upto
<1>6. /\ upto \o behind \in Seq(T) /\ Len(upto \o behind) = Len(upto) + Len(behind)
      /\ \A j \in 1..Len(upto) + Len(behind) : (upto \o behind)[j] =
           IF j <= Len(upto) THEN upto[j] ELSE behind[j - Len(upto)]
  BY <1>2, <1>5, ConcatProperties
<1>7. \A j \in 1..Len(s) + 1 : j \in 1..Len(upto) + Len(behind)
  BY <1>2, <1>5
<1>8. Len(upto) + Len(behind) = Len(s) + 1
  BY <1>2, <1>5
<1> HIDE DEF upto
<1>9. ASSUME NEW j \in 1..p - 1 PROVE (upto \o behind)[j] = s[j]
  <2>1. j \in 1..Len(upto) + Len(behind) /\ j <= Len(upto) /\ j \in 1..p /\ j < p
    BY <1>5, <1>7
  <2> QED
    BY <1>5, <1>6, <2>1
<1>11. (upto \o behind)[p] = x
  <2>1. p \in 1..Len(upto) + Len(behind) /\ p <= Len(upto) /\ p \in 1..p /\ ~(p < p)
    BY <1>5, <1>7
  <2> QED
    BY <1>5, <1>6, <2>1
<1>12. ASSUME NEW j \in p + 1..Len(s) + 1 PROVE (upto \o behind)[j] = s[j - 1]
  <2>1. /\ j \in 1..Len(upto) + Len(behind) /\ ~(j <= Len(upto))
        /\ j - Len(upto) = j - p
    BY <1>5, <1>7
  <2>2. j - p \in 1..Len(s) - p + 1 /\ p + (j - p) - 1 = j - 1
    OBVIOUS
  <2>3. behind[j - p] = s[j - 1]
    BY <1>2, <2>2
  <2> QED
    BY <1>6, <2>1, <2>3
<1>10. upto \o behind \in Seq(T) /\ Len(upto \o behind) = Len(s) + 1
  BY <1>6, <1>8
<1> QED
  BY <1>4, <1>9, <1>10, <1>11, <1>12, Zenon

\* The same of an operation put in the block.
LEMMA InsertedInBlock ==
  ASSUME block \in Seq(Operation), NEW p \in 1..Len(block), NEW op \in Operation
  PROVE  /\ InsertAt(block, p, op) \in Seq(Operation)
         /\ Len(InsertAt(block, p, op)) = Len(block) + 1
         /\ \A j \in 1..Len(block) + 1 :
              InsertAt(block, p, op)[j] =
                IF j < p THEN block[j] ELSE IF j = p THEN op ELSE block[j - 1]
PROOF
<1>1. /\ InsertAt(block, p, op) \in Seq(Operation)
      /\ Len(InsertAt(block, p, op)) = Len(block) + 1
      /\ \A j \in 1..p - 1 : InsertAt(block, p, op)[j] = block[j]
      /\ InsertAt(block, p, op)[p] = op
      /\ \A j \in p + 1..Len(block) + 1 : InsertAt(block, p, op)[j] = block[j - 1]
  BY Inserted
<1> QED
  BY <1>1

\* The levels without the innermost one.
LEMMA Popped ==
  ASSUME NEW T, NEW s \in Seq(T), s # <<>>
  PROVE  /\ Front(s) \in Seq(T) /\ Len(Front(s)) = Len(s) - 1
         /\ \A j \in 1..Len(s) - 1 : Front(s)[j] = s[j]
         /\ Len(s) \in 1..Len(s) /\ Last(s) = s[Len(s)] /\ Last(s) \in T
PROOF
<1> DEFINE front == SubSeq(s, 1, Len(s) - 1)
<1>1. Len(s) \in 1..Len(s) /\ Len(s) - 1 \in Nat /\ Len(s) - 1 - 1 + 1 = Len(s) - 1
  OBVIOUS
<1>2. /\ front \in Seq(T)
      /\ Len(front) = IF 1 <= Len(s) - 1 THEN Len(s) - 1 - 1 + 1 ELSE 0
      /\ \A j \in 1..Len(s) - 1 - 1 + 1 : front[j] = s[1 + j - 1]
  <2>1. \A j \in 1..Len(s) - 1 : s[j] \in T
    OBVIOUS
  <2> QED
    OBVIOUS
<1> HIDE DEF front
<1>3. Len(front) = Len(s) - 1 /\ \A j \in 1..Len(s) - 1 : front[j] = s[j]
  <2>1. Len(front) = Len(s) - 1
    <3>1. Len(front) = IF 1 <= Len(s) - 1 THEN Len(s) - 1 - 1 + 1 ELSE 0
      BY <1>2
    <3>2. Len(s) = 1 \/ Len(s) >= 2
      BY <1>1
    <3>3. CASE Len(s) = 1
      BY <3>1, <3>3
    <3>4. CASE Len(s) >= 2
      BY <3>1, <3>4
    <3> QED
      BY <3>2, <3>3, <3>4
  <2>2. ASSUME NEW j \in 1..Len(s) - 1 PROVE front[j] = s[j]
    <3>1. 1 + j - 1 = j
      OBVIOUS
    <3> QED
      BY <1>2
  <2> QED
    BY <2>1, <2>2
<1>4. s[Len(s)] \in T
  OBVIOUS
<1> QED
  BY <1>3 DEF Front, Last

\* The levels with another innermost one.
LEMMA TopReplaced ==
  ASSUME NEW T, NEW s \in Seq(T), s # <<>>, NEW x \in T
  PROVE  /\ Append(Front(s), x) \in Seq(T) /\ Len(Append(Front(s), x)) = Len(s)
         /\ \A j \in 1..Len(s) : Append(Front(s), x)[j] = IF j < Len(s) THEN s[j] ELSE x
PROOF
<1> DEFINE front == Front(s)
<1>1. /\ front \in Seq(T) /\ Len(front) = Len(s) - 1 /\ Len(s) \in 1..Len(s)
      /\ \A j \in 1..Len(s) - 1 : front[j] = s[j]
  BY Popped
<1> HIDE DEF front
<1>2. /\ Append(front, x) \in Seq(T) /\ Len(Append(front, x)) = Len(front) + 1
      /\ \A j \in 1..Len(front) : Append(front, x)[j] = front[j]
      /\ Append(front, x)[Len(front) + 1] = x
  BY <1>1
<1>3. \A j \in 1..Len(s) : Append(front, x)[j] = IF j < Len(s) THEN s[j] ELSE x
  BY <1>1
<1> QED
  BY <1>1 DEF front

\* A level that has its next argument.
LEMMA Supplied ==
  ASSUME NEW frame \in Frame, frame.left # <<>>, NEW id \in Nat
  PROVE  /\ WithOperand(frame, id) \in Frame
         /\ WithOperand(frame, id).at = frame.at
         /\ WithOperand(frame, id).size = frame.size
         /\ WithOperand(frame, id).left = Tail(frame.left)
         /\ WithOperand(frame, id).operands = frame.operands \union {id}
PROOF
<1>1. Tail(frame.left) \in Seq({"int"} \union DOMAIN Sizes)
  BY DEF Frame
<1> QED
  BY <1>1 DEF WithOperand, Frame

\* The block after an operation was put in at p.
Grown(p, op) ==
  /\ block' \in Seq(Operation) /\ Len(block') = Len(block) + 1 /\ block'[p] = op
  /\ \A j \in 1..Len(block) : block'[IF j < p THEN j ELSE j + 1] = block[j]
  /\ \A j \in 1..Len(block) + 1 : j # p => block'[j] = block[IF j < p THEN j ELSE j - 1]

\* A size or an integer goes below the setup, with no body operation above it.
LEMMA SizePlaced ==
  ASSUME Inv, frames # <<>>, NEW op \in Operation, block' = Insert(Top.at, op)
  PROVE  \E p \in 1..Len(block) + 1 :
           /\ Grown(p, op) /\ p > setup /\ Bodiless(p - 1)
           /\ \/ Top.at = AtEnd /\ p = Len(block) + 1
              \/ Top.at = anchor /\ anchor # NoOp /\ p <= Len(block) /\ block[p].id = anchor
PROOF
<1>1. Len(frames) \in DOMAIN frames /\ Top = frames[Len(frames)]
  <2>1. frames \in Seq(Frame)
    BY DEF Inv, Shapes
  <2>2. Len(frames) \in 1..Len(frames) /\ Last(frames) = frames[Len(frames)]
    BY <2>1, Popped
  <2> QED
    BY <2>2 DEF Top
<1>2. Top.at \in {AtEnd, anchor} /\ (Top.at = AtEnd => Bodiless(Len(block)))
  BY <1>1 DEF Inv, FramesPlaced
<1>3. /\ block \in Seq(Operation) /\ DOMAIN block = 1..Len(block) /\ Len(block) \in Nat
      /\ setup \in 1..Len(block)
  BY DEF Inv, Shapes
<1>4. CASE Top.at = AtEnd
  <2>1. block' = Append(block, op)
    BY <1>4 DEF Insert
  <2>2. Grown(Len(block) + 1, op)
    BY <1>3, <2>1 DEF Grown
  <2>3. Bodiless(Len(block) + 1 - 1) /\ Len(block) + 1 \in 1..Len(block) + 1
    BY <1>2, <1>4
  <2> QED
    BY <1>3, <1>4, <2>2, <2>3
<1>5. CASE Top.at # AtEnd
  <2>1. Top.at = anchor /\ anchor # NoOp
    BY <1>2, <1>5 DEF AtEnd, NoOp
  <2>2. PICK p \in DOMAIN block : p > setup /\ block[p].id = anchor /\ Bodiless(p - 1)
    BY <2>1 DEF Inv, AnchorPlaced
  <2>3. (CHOOSE i \in DOMAIN block : block[i].id = anchor) = p
    BY <2>2
  <2>4. block' = InsertAt(block, p, op)
    BY <1>5, <2>1, <2>3 DEF Insert
  <2>5. Grown(p, op)
    <3>1. p \in 1..Len(block)
      OBVIOUS
    <3>2. /\ block' \in Seq(Operation) /\ Len(block') = Len(block) + 1
          /\ \A j \in 1..Len(block) + 1 :
               block'[j] = IF j < p THEN block[j] ELSE IF j = p THEN op ELSE block[j - 1]
      <4>1. block \in Seq(Operation) /\ p \in 1..Len(block) /\ op \in Operation
        BY <1>3, <3>1
      <4> QED
        BY <2>4, <4>1, InsertedInBlock
    <3>3. ASSUME NEW j \in 1..Len(block)
          PROVE  block'[IF j < p THEN j ELSE j + 1] = block[j]
      BY <3>2
    <3>4. \A j \in 1..Len(block) + 1 : j # p => block'[j] = block[IF j < p THEN j ELSE j - 1]
      BY <3>2
    <3>5. block'[p] = op
      BY <3>2
    <3> QED
      BY <3>2, <3>4, <3>5 DEF Grown
  <2> QED
    BY <2>1, <2>2, <2>5
<1> QED
  BY <1>4, <1>5

\* What an emitted integer or size does to the block.
LEMMA SizeAdded ==
  ASSUME Inv, frames # <<>>,
         NEW op \in Operation, op.id = fresh, op.of # "body", op.uses \subseteq 1..(fresh - 1),
         block' = Insert(Top.at, op), fresh' = fresh + 1, anchor' = anchor,
         setup' \in {setup, SetupAfter}
  PROVE  /\ block' \in Seq(Operation) /\ Len(block') = Len(block) + 1
         /\ setup' \in 1..Len(block') /\ fresh' \in Nat \ {0}
         /\ \A i \in DOMAIN block' :
              block'[i].id \in 1..(fresh' - 1) /\ block'[i].uses \subseteq 1..(fresh' - 1)
         /\ OnePlace' /\ AnchorPlaced' /\ SizesBeforeBody'
         /\ Bodiless(Len(block)) => (Bodiless(Len(block)))'
PROOF
<1>1. PICK p \in 1..Len(block) + 1 :
        /\ Grown(p, op) /\ p > setup /\ Bodiless(p - 1)
        /\ \/ Top.at = AtEnd /\ p = Len(block) + 1
           \/ Top.at = anchor /\ anchor # NoOp /\ p <= Len(block) /\ block[p].id = anchor
  BY SizePlaced
<1>2. /\ block' \in Seq(Operation) /\ Len(block') = Len(block) + 1 /\ block'[p] = op
      /\ \A j \in 1..Len(block) : block'[IF j < p THEN j ELSE j + 1] = block[j]
      /\ \A j \in 1..Len(block) + 1 : j # p => block'[j] = block[IF j < p THEN j ELSE j - 1]
  BY <1>1 DEF Grown
<1>3. /\ block \in Seq(Operation) /\ Len(block) \in Nat /\ DOMAIN block = 1..Len(block)
      /\ DOMAIN block' = 1..Len(block) + 1 /\ setup \in 1..Len(block) /\ fresh \in Nat \ {0}
  BY <1>2 DEF Inv, Shapes
<1>4. \A i \in 1..Len(block) :
        /\ block[i].id \in 1..(fresh - 1) /\ block[i].id # fresh
        /\ block[i].uses \subseteq 1..(fresh - 1)
  BY DEF Inv, Emitted
<1>5. \A j \in 1..Len(block) + 1 : j # p =>
        /\ (IF j < p THEN j ELSE j - 1) \in 1..Len(block)
        /\ block'[j] = block[IF j < p THEN j ELSE j - 1]
  BY <1>2
<1>6. setup' \in 1..Len(block')
  BY <1>3 DEF SetupAfter
<1>7. ASSUME NEW i \in DOMAIN block'
      PROVE  block'[i].id \in 1..(fresh' - 1) /\ block'[i].uses \subseteq 1..(fresh' - 1)
  <2>1. CASE i = p
    BY <1>2, <1>3, <2>1
  <2>2. CASE i # p
    BY <1>3, <1>4, <1>5, <2>2
  <2> QED
    BY <2>1, <2>2
<1>8. OnePlace'
  <2> SUFFICES ASSUME NEW i \in DOMAIN block', NEW j \in DOMAIN block', block'[i].id = block'[j].id
               PROVE  i = j
    BY DEF OnePlace
  <2>1. CASE i = p \/ j = p
    BY <1>2, <1>3, <1>4, <1>5, <2>1
  <2>2. CASE i # p /\ j # p
    <3>1. (IF i < p THEN i ELSE i - 1) = (IF j < p THEN j ELSE j - 1)
      <4> DEFINE m == IF i < p THEN i ELSE i - 1
                 n == IF j < p THEN j ELSE j - 1
      <4>1. m \in DOMAIN block /\ n \in DOMAIN block /\ block[m].id = block[n].id
        BY <1>3, <1>5, <2>2
      <4> HIDE DEF m, n
      <4>2. m = n
        BY <4>1 DEF Inv, OnePlace
      <4> QED
        BY <4>2 DEF m, n
    <3> QED
      BY <1>3, <2>2, <3>1
  <2> QED
    BY <2>1, <2>2
<1>9. SizesBeforeBody'
  <2> SUFFICES ASSUME NEW i \in DOMAIN block', NEW j \in DOMAIN block',
                      block'[i].of = "body", i < j
               PROVE  block'[j].of = "body"
    BY DEF SizesBeforeBody
  <2>1. i # p
    BY <1>2
  <2>2. i > p
    BY <1>1, <1>3, <1>5, <2>1 DEF Bodiless
  <2>3. j # p /\ block'[i] = block[i - 1] /\ block'[j] = block[j - 1]
        /\ i - 1 \in 1..Len(block) /\ j - 1 \in 1..Len(block) /\ i - 1 < j - 1
    BY <1>3, <1>5, <2>1, <2>2
  <2> QED
    BY <2>3 DEF Inv, SizesBeforeBody
<1>10. \A n \in 0..p : \A i \in 1..n : block'[i].of # "body"
  BY <1>1, <1>2 DEF Bodiless
<1>11. AnchorPlaced'
  <2>1. CASE anchor = NoOp
    <3>1. p = Len(block) + 1
      BY <1>1, <2>1
    <3> QED
      BY <1>3, <1>10, <2>1, <3>1 DEF AnchorPlaced, Bodiless, SetupAfter
  <2>2. CASE anchor # NoOp
    <3>1. setup' = setup
      BY <2>2 DEF SetupAfter
    <3>2. \A i \in 1..setup : block'[i].of # "body"
      BY <1>1, <1>3, <1>10
    <3>3. PICK i \in 1..Len(block) : i > setup /\ block[i].id = anchor /\ Bodiless(i - 1)
      BY <2>2 DEF Inv, AnchorPlaced
    <3> DEFINE k == IF i < p THEN i ELSE i + 1
    <3>4. k \in 1..Len(block) + 1 /\ k > setup /\ block'[k].id = anchor
      BY <1>2, <1>3, <3>3
    <3>5. ASSUME NEW j \in 1..k - 1 PROVE block'[j].of # "body"
      <4>1. CASE j < p
        BY <1>1, <1>5, <4>1 DEF Bodiless
      <4>2. CASE j = p
        BY <1>2, <4>2
      <4>3. CASE j > p
        <5>1. j - 1 \in 1..i - 1 /\ j \in 1..Len(block) + 1
          BY <4>3
        <5> QED
          BY <1>5, <3>3, <4>3 DEF Bodiless
      <4> QED
        BY <4>1, <4>2, <4>3
    <3>6. (Bodiless(setup))'
      BY <3>1, <3>2 DEF Bodiless
    <3> HIDE DEF k
    <3>7. k \in DOMAIN block' /\ k > setup' /\ block'[k].id = anchor' /\ (Bodiless(k - 1))'
      BY <1>3, <3>1, <3>4, <3>5 DEF Bodiless
    <3> QED
      BY <3>6, <3>7 DEF AnchorPlaced
  <2> QED
    BY <2>1, <2>2
<1>12. Bodiless(Len(block)) => (Bodiless(Len(block)))'
  BY <1>2 DEF Bodiless
<1> QED
  BY <1>2, <1>6, <1>7, <1>8, <1>9, <1>11, <1>12

\* Where a level inserts, and what the anchor is from then on.
LEMMA PlaceChosen ==
  ASSUME Inv, NEW next, next = IF Place = AtEnd THEN anchor ELSE Place
  PROVE  /\ Place \in Nat /\ next \in Nat /\ Place \in {AtEnd, next}
         /\ anchor # NoOp => Place = anchor /\ next = anchor
         /\ Place = AtEnd => next = NoOp /\ Len(block) = setup
         /\ Place = AtEnd => Bodiless(Len(block))
         /\ next # NoOp =>
              \E i \in DOMAIN block : i > setup /\ block[i].id = next /\ Bodiless(i - 1)
PROOF
<1>1. /\ block \in Seq(Operation) /\ Len(block) \in Nat /\ DOMAIN block = 1..Len(block)
      /\ setup \in 1..Len(block) /\ anchor \in Nat /\ Bodiless(setup)
  BY DEF Inv, Shapes, AnchorPlaced
<1>2. \A i \in 1..Len(block) : block[i].id \in Nat /\ block[i].id # 0
  BY DEF Inv, Emitted
<1>3. CASE anchor # NoOp
  BY <1>1, <1>3 DEF Place, NoOp, AtEnd, Inv, AnchorPlaced
<1>4. CASE anchor = NoOp /\ Len(block) = setup
  BY <1>1, <1>4 DEF Place, AtEnd
<1>5. CASE anchor = NoOp /\ Len(block) # setup
  <2>1. setup + 1 \in 1..Len(block) /\ setup + 1 > setup /\ setup + 1 - 1 = setup
    <3>1. setup \in 1..Len(block) /\ Len(block) \in Nat
      BY DEF Inv, Shapes
    <3> QED
      BY <1>5, <3>1
  <2>2. Place = block[setup + 1].id /\ Place # AtEnd /\ Place \in Nat
    BY <1>2, <1>5, <2>1 DEF Place, AtEnd
  <2> QED
    BY <1>1, <1>5, <2>1, <2>2 DEF AtEnd
<1> QED
  BY <1>3, <1>4, <1>5

\* A level that begins.
LEMMA EnterKeeps ==
  ASSUME Inv, NEW s \in DOMAIN Sizes, Enter(s, frames), frames = <<>> \/ Top.left # <<>>,
         UNCHANGED <<function, block, setup, values, fresh, raised>>
  PROVE  Inv'
PROOF
<1> DEFINE level == [size |-> s, at |-> Place, left |-> Sizes[s], operands |-> {}]
<1>1. /\ anchor' = IF Place = AtEnd THEN anchor ELSE Place
      /\ frames' = Append(frames, level)
  BY DEF Enter
<1>2. /\ Place \in Nat /\ anchor' \in Nat /\ Place \in {AtEnd, anchor'}
      /\ anchor # NoOp => Place = anchor /\ anchor' = anchor
      /\ Place = AtEnd => Bodiless(Len(block))
      /\ anchor' # NoOp =>
           \E i \in DOMAIN block : i > setup /\ block[i].id = anchor' /\ Bodiless(i - 1)
  BY <1>1, PlaceChosen
<1>3. level \in Frame /\ level.at = Place /\ level.operands = {}
  BY <1>2, SizesAssumption DEF Frame
<1> HIDE DEF level
<1>4. /\ frames' \in Seq(Frame) /\ Len(frames') = Len(frames) + 1 /\ Len(frames) \in Nat
      /\ DOMAIN frames = 1..Len(frames) /\ DOMAIN frames' = 1..Len(frames) + 1
      /\ \A f \in 1..Len(frames) + 1 : frames'[f] = IF f <= Len(frames) THEN frames[f] ELSE level
  <2>1. frames \in Seq(Frame)
    BY DEF Inv, Shapes
  <2>2. /\ Append(frames, level) \in Seq(Frame) /\ Len(Append(frames, level)) = Len(frames) + 1
        /\ \A f \in 1..Len(frames) : Append(frames, level)[f] = frames[f]
        /\ Append(frames, level)[Len(frames) + 1] = level
    BY <1>3, <2>1
  <2> QED
    BY <1>1, <2>2
<1>5. Shapes'
  BY <1>2, <1>4 DEF Inv, Shapes
<1>6. Emitted'
  BY <1>3, <1>4 DEF Inv, Emitted
<1>7. Waiting'
  <2>1. frames # <<>> => Top = frames[Len(frames)]
    BY DEF Top, Last
  <2>2. ASSUME NEW f \in 1..Len(frames) PROVE frames[f].left # <<>>
    <3>1. Len(frames) \in Nat /\ DOMAIN frames = 1..Len(frames)
      OBVIOUS
    <3>2. f < Len(frames) \/ f = Len(frames)
      <4>1. Len(frames) \in Nat
        OBVIOUS
      <4> QED
        OBVIOUS
    <3>3. CASE f < Len(frames)
      BY <3>3 DEF Inv, Waiting
    <3>4. CASE f = Len(frames)
      BY <2>1, <3>4
    <3> QED
      BY <3>3, <3>4
  <2> QED
    BY <1>4, <2>2 DEF Waiting
<1>8. AnchorPlaced'
  BY <1>2 DEF Inv, AnchorPlaced, Bodiless
<1>9. FramesPlaced'
  <2> SUFFICES ASSUME NEW f \in 1..Len(frames) + 1
               PROVE  /\ frames'[f].at \in {AtEnd, anchor'}
                      /\ frames'[f].at = AtEnd => Bodiless(Len(block))
    BY <1>4 DEF FramesPlaced, Bodiless
  <2>1. CASE f <= Len(frames)
    BY <1>2, <1>4, <2>1 DEF Inv, FramesPlaced, AtEnd, NoOp
  <2>2. CASE ~(f <= Len(frames))
    BY <1>2, <1>3, <1>4, <2>2
  <2> QED
    BY <2>1, <2>2
<1>10. OnePlace' /\ SizesBeforeBody'
  BY DEF Inv, OnePlace, SizesBeforeBody
<1> QED
  BY <1>5, <1>6, <1>7, <1>8, <1>9, <1>10 DEF Inv

\* The innermost level goes on with an argument in hand, wherever operations stay.
LEMMA TopSupplied ==
  ASSUME frames \in Seq(Frame), frames # <<>>, Top.left # <<>>, NEW id \in Nat,
         frames' = Append(Front(frames), WithOperand(Top, id))
  PROVE  /\ frames' \in Seq(Frame) /\ Len(frames') = Len(frames)
         /\ Len(frames) \in 1..Len(frames)
         /\ DOMAIN frames = 1..Len(frames) /\ DOMAIN frames' = 1..Len(frames)
         /\ Top = frames[Len(frames)] /\ Top \in Frame
         /\ \A f \in 1..Len(frames) :
              /\ f < Len(frames) => frames'[f] = frames[f]
              /\ f = Len(frames) => frames'[f] = WithOperand(Top, id)
              /\ frames'[f].at = frames[f].at
              /\ frames'[f].operands \subseteq frames[f].operands \union {id}
PROOF
<1>1. Top = frames[Len(frames)] /\ Top \in Frame /\ Len(frames) \in 1..Len(frames)
  BY Popped DEF Top
<1>2. /\ WithOperand(Top, id) \in Frame /\ WithOperand(Top, id).at = Top.at
      /\ WithOperand(Top, id).operands = Top.operands \union {id}
  BY <1>1, Supplied
<1>3. /\ frames' \in Seq(Frame) /\ Len(frames') = Len(frames)
      /\ \A f \in 1..Len(frames) :
           frames'[f] = IF f < Len(frames) THEN frames[f] ELSE WithOperand(Top, id)
  BY <1>2, TopReplaced
<1>4. DOMAIN frames = 1..Len(frames) /\ DOMAIN frames' = 1..Len(frames)
  BY <1>3
<1>5. ASSUME NEW f \in 1..Len(frames) PROVE f < Len(frames) \/ f = Len(frames)
  OBVIOUS
<1> QED
  BY <1>1, <1>2, <1>3

LEMMA InitInv == SizesInit => Inv
PROOF
<1> SUFFICES ASSUME SizesInit PROVE Inv
  OBVIOUS
<1>1. /\ block = <<[id |-> 1, of |-> "setup", uses |-> {}]>> /\ Len(block) = 1
      /\ DOMAIN block = 1..1 /\ block[1] = [id |-> 1, of |-> "setup", uses |-> {}]
  BY DEF SizesInit, Setup, Op
<1>2. block \in Seq(Operation)
  BY <1>1 DEF Operation
<1>3. frames = <<>> /\ DOMAIN frames = {} /\ DOMAIN values = {}
  BY DEF SizesInit, NoValues
<1>4. Shapes
  <2>1. Len(Provided) \in Nat /\ function \in 1..Len(Provided)
    BY SizesAssumption DEF SizesInit
  <2>2. frames \in Seq(Frame) /\ values = [s \in DOMAIN values |-> values[s]]
    BY DEF SizesInit, NoValues
  <2>3. setup \in 1..Len(block) /\ anchor \in Nat /\ fresh \in Nat \ {0}
    BY <1>1 DEF SizesInit, NoOp
  <2> QED
    BY <1>2, <1>3, <2>1, <2>2, <2>3 DEF SizesInit, Shapes
<1>5. Emitted /\ Waiting /\ FramesPlaced
  BY <1>1, <1>3 DEF SizesInit, Emitted, Waiting, FramesPlaced
<1>6. OnePlace /\ AnchorPlaced /\ SizesBeforeBody
  BY <1>1 DEF SizesInit, OnePlace, AnchorPlaced, SizesBeforeBody, Bodiless
<1> QED
  BY <1>4, <1>5, <1>6 DEF Inv

\* The innermost level ends and hands its value to the one it was entered from.
LEMMA LevelEnds ==
  ASSUME frames \in Seq(Frame), frames # <<>>, Waiting, fresh \in Nat,
         frames' = IF Len(frames) = 1 THEN <<>>
                   ELSE Append(Front(Front(frames)), WithOperand(Last(Front(frames)), fresh))
  PROVE  /\ frames' \in Seq(Frame) /\ Len(frames') = Len(frames) - 1
         /\ DOMAIN frames = 1..Len(frames) /\ DOMAIN frames' = 1..Len(frames) - 1
         /\ \A f \in 1..Len(frames) - 1 :
              /\ f < Len(frames) - 1 => frames'[f] = frames[f]
              /\ f = Len(frames) - 1 =>
                   /\ frames[f].left # <<>> /\ frames[f] \in Frame
                   /\ frames'[f] = WithOperand(frames[f], fresh)
              /\ frames'[f].at = frames[f].at
              /\ frames'[f].operands \subseteq frames[f].operands \union {fresh}
PROOF
<1> DEFINE below == Front(frames)
           n == Len(frames) - 1
<1>1. /\ below \in Seq(Frame) /\ Len(below) = n /\ n \in Nat
      /\ \A f \in 1..n : below[f] = frames[f]
  <2>1. /\ Front(frames) \in Seq(Frame) /\ Len(Front(frames)) = Len(frames) - 1
        /\ \A f \in 1..Len(frames) - 1 : Front(frames)[f] = frames[f]
        /\ Len(frames) \in 1..Len(frames)
    BY Popped
  <2>2. Len(frames) - 1 \in Nat
    OBVIOUS
  <2> QED
    BY <2>1
<1>2. DOMAIN frames = 1..Len(frames) /\ DOMAIN below = 1..n
  BY <1>1
<1>3. CASE n = 0
  <2>1. Len(frames) = 1
    <3>1. Len(frames) \in Nat /\ Len(frames) - 1 = 0
      BY <1>3
    <3> QED
      BY <3>1
  <2>2. frames' = <<>> /\ Len(frames') = 0 /\ DOMAIN frames' = {} /\ frames' \in Seq(Frame)
    BY <2>1
  <2>3. 1..0 = {} /\ 1..Len(frames) - 1 = {} /\ Len(frames) - 1 = 0
    BY <2>1
  <2> QED
    BY <2>2, <2>3
<1>4. CASE n # 0
  <2>1. n \in 1..n /\ below # <<>> /\ n \in 1..Len(frames) /\ n < Len(frames)
    BY <1>1, <1>4
  <2>2. Last(below) = frames[n] /\ Last(below) \in Frame
    BY <1>1, <2>1, Popped
  <2>3. Last(below).left # <<>>
    BY <2>1, <2>2 DEF Waiting
  <2>4. frames' = Append(Front(below), WithOperand(Last(below), fresh))
    BY <1>4
  <2> DEFINE supplied == WithOperand(Last(below), fresh)
  <2>5. supplied \in Frame /\ supplied.at = Last(below).at
        /\ supplied.operands = Last(below).operands \union {fresh}
    BY <2>2, <2>3, Supplied
  <2> HIDE DEF below, n, supplied
  <2>6. /\ frames' \in Seq(Frame) /\ Len(frames') = n
        /\ \A f \in 1..n : frames'[f] = IF f < n THEN below[f] ELSE supplied
    <3>1. frames' = Append(Front(below), supplied)
      BY <2>4 DEF supplied
    <3> QED
      BY <1>1, <2>1, <2>5, <3>1, TopReplaced
  <2>7. DOMAIN frames' = 1..n
    BY <2>6
  <2>8. ASSUME NEW f \in 1..n PROVE f < n \/ f = n
    BY <2>1
  <2>9. ASSUME NEW f \in 1..n
        PROVE  /\ f < n => frames'[f] = frames[f]
               /\ f = n => frames[f].left # <<>> /\ frames[f] \in Frame /\ frames'[f] = supplied
               /\ frames'[f].at = frames[f].at
               /\ frames'[f].operands \subseteq frames[f].operands \union {fresh}
    BY <1>1, <2>2, <2>3, <2>5, <2>6, <2>8
  <2> QED
    BY <2>2, <2>6, <2>7, <2>9 DEF n, supplied
<1> QED
  BY <1>3, <1>4

LEMMA StepInv == Inv /\ [SizesNext]_sizeVars => Inv'
PROOF
<1> SUFFICES ASSUME Inv, [SizesNext]_sizeVars PROVE Inv'
  OBVIOUS
<1>1. ASSUME BeginFunction PROVE Inv'
  <2>1. /\ block' = <<[id |-> fresh, of |-> "setup", uses |-> {}]>> /\ setup' = 1
        /\ anchor' = 0 /\ values' = NoValues /\ fresh' = fresh + 1 /\ frames = <<>>
        /\ function' = function + 1 /\ function < Len(Provided) /\ raised' = raised
        /\ frames' = frames
    BY <1>1 DEF BeginFunction, Setup, Op, NoOp
  <2>2. /\ Len(block') = 1 /\ DOMAIN block' = 1..1
        /\ block'[1] = [id |-> fresh, of |-> "setup", uses |-> {}]
    BY <2>1
  <2>3. fresh \in Nat \ {0} /\ fresh' \in Nat \ {0} /\ block' \in Seq(Operation)
    BY <2>1 DEF Inv, Shapes, Operation
  <2>4. DOMAIN values' = {} /\ values' = [s \in DOMAIN values' |-> values'[s]]
    BY <2>1 DEF NoValues
  <2>5. function' \in 1..Len(Provided)
    BY <2>1 DEF Inv, Shapes
  <2>6. setup' \in 1..Len(block') /\ anchor' \in Nat
    BY <2>1
  <2>7. Shapes'
    BY <2>1, <2>3, <2>4 DEF Inv, Shapes
  <2>8. Emitted' /\ Waiting' /\ FramesPlaced'
    BY <2>1, <2>3, <2>4 DEF Emitted, Waiting, FramesPlaced
  <2>9. OnePlace' /\ AnchorPlaced' /\ SizesBeforeBody'
    BY <2>1 DEF OnePlace, AnchorPlaced, SizesBeforeBody, Bodiless, NoOp
  <2> QED
    BY <2>7, <2>8, <2>9 DEF Inv
<1>2. ASSUME NEW s \in DOMAIN Sizes, Request(s) PROVE Inv'
  <2>1. /\ frames = <<>> /\ Enter(s, frames)
        /\ UNCHANGED <<function, block, setup, values, fresh, raised>>
    BY <1>2 DEF Request
  <2> QED
    BY <2>1, EnterKeeps
<1>3. ASSUME IntegerArgument PROVE Inv'
  <2> DEFINE op == Op(fresh, "int", {})
  <2>1. /\ frames # <<>> /\ Top.left # <<>> /\ block' = Insert(Top.at, op)
        /\ frames' = Append(Front(frames), WithOperand(Top, fresh)) /\ fresh' = fresh + 1
        /\ UNCHANGED <<function, setup, anchor, values, raised>>
    BY <1>3 DEF IntegerArgument
  <2>2. fresh \in Nat \ {0} /\ frames \in Seq(Frame)
    BY DEF Inv, Shapes
  <2>3. op \in Operation /\ op.id = fresh /\ op.of # "body" /\ op.uses \subseteq 1..(fresh - 1)
    BY <2>2 DEF Op, Operation
  <2> HIDE DEF op
  <2>4. /\ block' \in Seq(Operation) /\ Len(block') = Len(block) + 1
        /\ setup' \in 1..Len(block') /\ fresh' \in Nat \ {0}
        /\ \A i \in DOMAIN block' :
             block'[i].id \in 1..(fresh' - 1) /\ block'[i].uses \subseteq 1..(fresh' - 1)
        /\ OnePlace' /\ AnchorPlaced' /\ SizesBeforeBody'
        /\ Bodiless(Len(block)) => (Bodiless(Len(block)))'
    BY <2>1, <2>3, SizeAdded
  <2>5. /\ frames' \in Seq(Frame) /\ Len(frames') = Len(frames)
        /\ DOMAIN frames = 1..Len(frames) /\ DOMAIN frames' = 1..Len(frames)
        /\ \A f \in 1..Len(frames) :
             /\ f < Len(frames) => frames'[f] = frames[f]
             /\ frames'[f].at = frames[f].at
             /\ frames'[f].operands \subseteq frames[f].operands \union {fresh}
    BY <2>1, <2>2, TopSupplied
  <2>6. Shapes'
    BY <2>1, <2>4, <2>5 DEF Inv, Shapes
  <2>7. Emitted'
    <3>1. \A s \in DOMAIN values : values[s] \in 1..(fresh' - 1)
      BY <2>1, <2>2 DEF Inv, Emitted
    <3>2. \A f \in 1..Len(frames) : frames'[f].operands \subseteq 1..(fresh' - 1)
      BY <2>1, <2>2, <2>5 DEF Inv, Emitted
    <3> QED
      BY <2>1, <2>4, <2>5, <3>1, <3>2 DEF Emitted
  <2>8. Waiting'
    BY <2>5 DEF Inv, Waiting
  <2>9. FramesPlaced'
    BY <2>1, <2>4, <2>5 DEF Inv, FramesPlaced
  <2> QED
    BY <2>4, <2>6, <2>7, <2>8, <2>9 DEF Inv
<1>4. ASSUME SizeArgument PROVE Inv'
  <2> DEFINE s == Head(Top.left)
  <2>1. /\ frames # <<>> /\ Top.left # <<>> /\ s # "int"
        /\ UNCHANGED <<function, block, setup, values, fresh, raised>>
    BY <1>4 DEF SizeArgument
  <2>2. frames \in Seq(Frame) /\ Top \in Frame
    BY <2>1, Popped DEF Inv, Shapes, Top
  <2>3. s \in DOMAIN Sizes
    BY <2>1, <2>2 DEF Frame
  <2>4. \/ ~Known(s) /\ Enter(s, frames)
        \/ /\ Known(s) /\ anchor' = anchor
           /\ frames' = Append(Front(frames), WithOperand(Top, values[s]))
    BY <1>4 DEF SizeArgument
  <2> HIDE DEF s
  <2>5. CASE Enter(s, frames)
    BY <2>1, <2>3, <2>5, EnterKeeps
  <2>6. CASE /\ Known(s) /\ anchor' = anchor
             /\ frames' = Append(Front(frames), WithOperand(Top, values[s]))
    <3>1. values[s] \in 1..(fresh - 1) /\ values[s] \in Nat
      BY <2>6 DEF Known, Inv, Emitted
    <3>2. /\ frames' \in Seq(Frame) /\ Len(frames') = Len(frames)
          /\ DOMAIN frames = 1..Len(frames) /\ DOMAIN frames' = 1..Len(frames)
          /\ \A f \in 1..Len(frames) :
               /\ f < Len(frames) => frames'[f] = frames[f]
               /\ frames'[f].at = frames[f].at
               /\ frames'[f].operands \subseteq frames[f].operands \union {values[s]}
      BY <2>1, <2>2, <2>6, <3>1, TopSupplied
    <3>3. Shapes'
      BY <2>1, <2>6, <3>2 DEF Inv, Shapes
    <3>4. Emitted'
      BY <2>1, <3>1, <3>2 DEF Inv, Emitted
    <3>5. Waiting'
      BY <3>2 DEF Inv, Waiting
    <3>6. FramesPlaced' /\ AnchorPlaced'
      BY <2>1, <2>6, <3>2 DEF Inv, FramesPlaced, AnchorPlaced, Bodiless
    <3>7. OnePlace' /\ SizesBeforeBody'
      BY <2>1 DEF Inv, OnePlace, SizesBeforeBody
    <3> QED
      BY <3>3, <3>4, <3>5, <3>6, <3>7 DEF Inv
  <2> QED
    BY <2>4, <2>5, <2>6
<1>5. ASSUME Emit PROVE Inv'
  <2> DEFINE op == Op(fresh, Top.size, Top.operands)
             below == Front(frames)
  <2>1. /\ frames # <<>> /\ block' = Insert(Top.at, op) /\ fresh' = fresh + 1
        /\ values' = [s \in DOMAIN values \union {Top.size} |->
                        IF s = Top.size THEN fresh ELSE values[s]]
        /\ setup' = SetupAfter
        /\ frames' = IF Len(frames) = 1 THEN <<>>
                     ELSE Append(Front(below), WithOperand(Last(below), fresh))
        /\ UNCHANGED <<function, anchor, raised>>
    BY <1>5 DEF Emit
  <2>2. /\ fresh \in Nat \ {0} /\ frames \in Seq(Frame) /\ Top \in Frame
        /\ Top = frames[Len(frames)] /\ Len(frames) \in 1..Len(frames)
    BY <2>1, Popped DEF Inv, Shapes, Top
  <2>3. op \in Operation /\ op.id = fresh /\ op.of # "body" /\ op.uses \subseteq 1..(fresh - 1)
    <3>1. Top.size \in DOMAIN Sizes /\ Top.size # "body" /\ Top.operands \in SUBSET Nat
      BY <2>2, SizesAssumption DEF Frame
    <3>2. Top.operands \subseteq 1..(fresh - 1)
      BY <2>2 DEF Inv, Emitted
    <3> QED
      BY <2>2, <3>1, <3>2 DEF Op, Operation
  <2> HIDE DEF op
  <2>4. /\ block' \in Seq(Operation) /\ Len(block') = Len(block) + 1
        /\ setup' \in 1..Len(block') /\ fresh' \in Nat \ {0}
        /\ \A i \in DOMAIN block' :
             block'[i].id \in 1..(fresh' - 1) /\ block'[i].uses \subseteq 1..(fresh' - 1)
        /\ OnePlace' /\ AnchorPlaced' /\ SizesBeforeBody'
        /\ Bodiless(Len(block)) => (Bodiless(Len(block)))'
    BY <2>1, <2>3, SizeAdded
  <2>5. /\ frames' \in Seq(Frame) /\ Len(frames') = Len(frames) - 1
        /\ DOMAIN frames = 1..Len(frames) /\ DOMAIN frames' = 1..Len(frames) - 1
        /\ \A f \in 1..Len(frames) - 1 :
             /\ f < Len(frames) - 1 => frames'[f] = frames[f]
             /\ frames'[f].at = frames[f].at
             /\ frames'[f].operands \subseteq frames[f].operands \union {fresh}
    BY <2>1, LevelEnds DEF Inv, Shapes
  <2>6. Shapes'
    <3>1. DOMAIN values' \subseteq DOMAIN Sizes /\ values' = [s \in DOMAIN values' |-> values'[s]]
      BY <2>1, <2>2 DEF Inv, Shapes, Frame
    <3> QED
      BY <2>1, <2>4, <2>5, <3>1 DEF Inv, Shapes
  <2>7. Emitted'
    <3>1. \A s \in DOMAIN values' : values'[s] \in 1..(fresh' - 1)
      BY <2>1, <2>2 DEF Inv, Emitted
    <3>2. ASSUME NEW f \in 1..Len(frames) - 1
          PROVE  frames'[f].operands \subseteq 1..(fresh' - 1)
      <4>1. f \in 1..Len(frames)
        OBVIOUS
      <4>2. frames[f].operands \subseteq 1..(fresh - 1)
        BY DEF Inv, Emitted
      <4>3. frames'[f].operands \subseteq frames[f].operands \union {fresh}
        BY <2>5
      <4>4. fresh' = fresh + 1 /\ fresh \in Nat \ {0}
        BY <2>1, <2>2
      <4>5. 1..(fresh - 1) \subseteq 1..(fresh' - 1) /\ fresh \in 1..(fresh' - 1)
        BY <4>4
      <4> QED
        BY <4>2, <4>3, <4>5
    <3> QED
      BY <2>4, <2>5, <3>1, <3>2 DEF Emitted
  <2>8. Waiting'
    <3>1. \A f \in 1..Len(frames) - 1 : f < Len(frames) /\ f \in 1..Len(frames)
      OBVIOUS
    <3> QED
      BY <2>5 DEF Inv, Waiting
  <2>9. FramesPlaced'
    <3>1. \A f \in 1..Len(frames) - 1 : f \in 1..Len(frames)
      OBVIOUS
    <3> QED
      BY <2>1, <2>4, <2>5, <3>1 DEF Inv, FramesPlaced
  <2> QED
    BY <2>4, <2>6, <2>7, <2>8, <2>9 DEF Inv
<1>6. ASSUME NothingProvides PROVE Inv'
  BY <1>6 DEF NothingProvides, Inv, Shapes, Emitted, Waiting, OnePlace, AnchorPlaced,
       FramesPlaced, SizesBeforeBody, Bodiless
<1>7. ASSUME AppendBody PROVE Inv'
  <2> DEFINE op == Op(fresh, "body", {})
  <2>1. /\ frames = <<>> /\ block' = Append(block, op) /\ fresh' = fresh + 1
        /\ UNCHANGED <<function, setup, anchor, values, frames, raised>>
    BY <1>7 DEF AppendBody
  <2>2. fresh \in Nat \ {0} /\ block \in Seq(Operation) /\ Len(block) \in Nat
        /\ DOMAIN block = 1..Len(block) /\ setup \in 1..Len(block)
    BY DEF Inv, Shapes
  <2>3. op \in Operation /\ op.id = fresh /\ op.of = "body" /\ op.uses = {}
    BY <2>2 DEF Op, Operation
  <2> HIDE DEF op
  <2>4. /\ block' \in Seq(Operation) /\ Len(block') = Len(block) + 1
        /\ DOMAIN block' = 1..Len(block) + 1 /\ block'[Len(block) + 1] = op
        /\ \A i \in 1..Len(block) : block'[i] = block[i]
    BY <2>1, <2>2, <2>3
  <2>5. ASSUME NEW i \in DOMAIN block'
        PROVE  \/ (i \in 1..Len(block) /\ block'[i] = block[i])
               \/ (i = Len(block) + 1 /\ block'[i] = op)
    <3>1. Len(block) \in Nat /\ i \in 1..Len(block) + 1
      BY <2>4
    <3>2. i \in 1..Len(block) \/ i = Len(block) + 1
      BY <3>1
    <3> QED
      BY <2>4
  <2>6. Shapes'
    <3>1. setup' \in 1..Len(block') /\ fresh' \in Nat \ {0}
      BY <2>1, <2>2
    <3> QED
      BY <2>1, <2>4 DEF Inv, Shapes
  <2>7. Emitted'
    <3>1. \A i \in DOMAIN block' :
            block'[i].id \in 1..(fresh' - 1) /\ block'[i].uses \subseteq 1..(fresh' - 1)
      BY <2>1, <2>2, <2>3, <2>5 DEF Inv, Emitted
    <3>2. \A s \in DOMAIN values' : values'[s] \in 1..(fresh' - 1)
      BY <2>1, <2>2 DEF Inv, Emitted
    <3> QED
      BY <2>1, <3>1, <3>2 DEF Emitted
  <2>8. Waiting' /\ FramesPlaced'
    BY <2>1 DEF Waiting, FramesPlaced
  <2>9. OnePlace'
    <3>1. \A i \in 1..Len(block) : block[i].id # fresh
      BY DEF Inv, Emitted
    <3> QED
      BY <2>3, <2>5, <3>1 DEF Inv, OnePlace
  <2>10. AnchorPlaced'
    <3>1. \A n \in 0..Len(block) : Bodiless(n) => (\A i \in 1..n : block'[i].of # "body")
      BY <2>4 DEF Bodiless
    <3>2. \A i \in 1..setup : block'[i].of # "body"
      BY <2>2, <3>1 DEF Inv, AnchorPlaced
    <3>3. ASSUME anchor # NoOp
          PROVE  \E i \in 1..Len(block) : /\ i > setup /\ block'[i].id = anchor
                                          /\ \A j \in 1..i - 1 : block'[j].of # "body"
      <4>1. PICK i \in 1..Len(block) : i > setup /\ block[i].id = anchor /\ Bodiless(i - 1)
        BY <3>3 DEF Inv, AnchorPlaced
      <4>2. i - 1 \in 0..Len(block)
        OBVIOUS
      <4> QED
        BY <2>4, <3>1, <4>1
    <3> QED
      BY <2>1, <2>2, <2>4, <3>2, <3>3 DEF AnchorPlaced, Bodiless
  <2>11. SizesBeforeBody'
    <3> SUFFICES ASSUME NEW i \in DOMAIN block', NEW j \in DOMAIN block',
                        block'[i].of = "body", i < j
                 PROVE  block'[j].of = "body"
      BY DEF SizesBeforeBody
    <3>1. i \in 1..Len(block) /\ block'[i] = block[i]
      BY <2>4
    <3> QED
      BY <2>3, <2>5 DEF Inv, SizesBeforeBody
  <2> QED
    BY <2>6, <2>7, <2>8, <2>9, <2>10, <2>11 DEF Inv
<1>8. ASSUME NEW s \in DOMAIN Sizes, UseInBody(s) PROVE Inv'
  <2>1. /\ Known(s) /\ block' = [block EXCEPT ![Len(block)].uses = @ \union {values[s]}]
        /\ UNCHANGED <<function, setup, anchor, values, frames, fresh, raised>>
    BY <1>8 DEF UseInBody
  <2>2. values[s] \in 1..(fresh - 1) /\ fresh \in Nat \ {0}
    BY <2>1 DEF Known, Inv, Emitted, Shapes
  <2>3. block \in Seq(Operation) /\ Len(block) \in 1..Len(block)
    BY DEF Inv, Shapes
  <2>4. /\ block' \in Seq(Operation) /\ Len(block') = Len(block) /\ DOMAIN block' = DOMAIN block
        /\ \A i \in DOMAIN block : /\ block'[i].id = block[i].id /\ block'[i].of = block[i].of
                                   /\ block'[i].uses \subseteq block[i].uses \union {values[s]}
    <3> DEFINE last == block[Len(block)]
               used == [last EXCEPT !.uses = @ \union {values[s]}]
    <3>1. values[s] \in Nat
      BY <2>2
    <3>2. last \in Operation
      BY <2>3
    <3>3. /\ used \in Operation /\ used.id = last.id /\ used.of = last.of
          /\ used.uses = last.uses \union {values[s]}
      BY <3>1, <3>2 DEF Operation
    <3>4. block' = [block EXCEPT ![Len(block)] = used]
      BY <2>1
    <3> HIDE DEF used
    <3>5. /\ block' \in Seq(Operation) /\ Len(block') = Len(block)
          /\ DOMAIN block' = DOMAIN block /\ block'[Len(block)] = used
          /\ \A i \in DOMAIN block : i # Len(block) => block'[i] = block[i]
      BY <2>3, <3>3, <3>4
    <3> QED
      BY <3>3, <3>5
  <2>5. Shapes'
    BY <2>1, <2>4 DEF Inv, Shapes
  <2>6. Emitted'
    BY <2>1, <2>2 DEF Inv, Emitted
  <2>7. DOMAIN block = 1..Len(block) /\ Len(block) \in Nat
    OBVIOUS
  <2>8. \A n \in 0..Len(block) : Bodiless(n) => (\A i \in 1..n : block'[i].of # "body")
    BY <2>4 DEF Bodiless
  <2>9. AnchorPlaced'
    <3>1. \A i \in 1..setup : block'[i].of # "body"
      BY <2>8 DEF Inv, AnchorPlaced, Shapes
    <3>2. ASSUME anchor # NoOp
          PROVE  \E i \in DOMAIN block : /\ i > setup /\ block'[i].id = anchor
                                         /\ \A j \in 1..i - 1 : block'[j].of # "body"
      <4>1. PICK i \in DOMAIN block : i > setup /\ block[i].id = anchor /\ Bodiless(i - 1)
        BY <3>2 DEF Inv, AnchorPlaced
      <4>2. i - 1 \in 0..Len(block)
        OBVIOUS
      <4> QED
        BY <2>4, <2>8, <4>1
    <3> QED
      BY <2>1, <3>1, <3>2 DEF AnchorPlaced, Bodiless
  <2>10. FramesPlaced'
    BY <2>1 DEF Inv, FramesPlaced, Bodiless
  <2>11. Waiting' /\ OnePlace' /\ SizesBeforeBody'
    BY <2>1 DEF Inv, Waiting, OnePlace, SizesBeforeBody
  <2> QED
    BY <2>5, <2>6, <2>9, <2>10, <2>11 DEF Inv
<1>9. ASSUME UNCHANGED sizeVars PROVE Inv'
  BY <1>9 DEF sizeVars, Inv, Shapes, Emitted, Waiting, OnePlace, AnchorPlaced, FramesPlaced,
       SizesBeforeBody, Bodiless
<1> QED
  BY <1>1, <1>2, <1>3, <1>4, <1>5, <1>6, <1>7, <1>8, <1>9 DEF SizesNext, SizesTerminated

\* Every reachable state satisfies the inductive invariant.
THEOREM InvHolds == SizesSpec => []Inv
PROOF
  BY InitInv, StepInv, PTL DEF SizesSpec

\* The shapes of the emission's state hold for all sizes and functions.
THEOREM TypesHold == SizesSpec => []SizesTypeOK
PROOF
<1>1. Inv => SizesTypeOK
  <2> SUFFICES ASSUME Inv PROVE SizesTypeOK
    OBVIOUS
  <2>1. anchor \in {NoOp} \union {block[i].id : i \in DOMAIN block}
    BY DEF Inv, AnchorPlaced
  <2>2. \A f \in DOMAIN frames :
          frames[f].at \in {AtEnd} \union {block[i].id : i \in DOMAIN block}
    BY <2>1 DEF Inv, FramesPlaced, NoOp, AtEnd
  <2>3. \A i \in DOMAIN block : block[i].of \in {"int", "setup", "body"} \union DOMAIN Sizes
    <3>1. block \in Seq(Operation) /\ \A i \in DOMAIN block : block[i] \in Operation
      BY DEF Inv, Shapes
    <3> QED
      BY <3>1 DEF Operation
  <2> QED
    BY <2>1, <2>2, <2>3 DEF Inv, Shapes, Emitted, SizesTypeOK
<1> QED
  BY <1>1, InvHolds, PTL

\* Whatever sizes are asked for, and whenever, none is emitted below a body operation:
\* a size first asked for within the body goes above all of it (sizes.py,
\* _insertion_point).
THEOREM SizesAlwaysBeforeBody == SizesSpec => []SizesBeforeBody
PROOF
<1>1. Inv => SizesBeforeBody
  BY DEF Inv
<1> QED
  BY <1>1, InvHolds, PTL

-----------------------------------------------------------------------------
\* What an emitted integer or size does to the order.
LEMMA OrderAdded ==
  ASSUME OrderInv, frames # <<>>, NEW op \in Operation, op.of # "body",
         op.uses \subseteq Top.operands, op.uses = {} \/ op.of \in DOMAIN Sizes,
         block' = Insert(Top.at, op), anchor' = anchor
  PROVE  /\ UsesInOrder'
         /\ \A id \in Nat : /\ IsIn(id) => (IsIn(id))'
                            /\ OfSize(id) => (OfSize(id))'
                            /\ AboveAnchor(id) => (AboveAnchor(id))'
         /\ (IsIn(op.id))' /\ (op.of \in DOMAIN Sizes => (OfSize(op.id))')
         /\ Top.at = anchor /\ anchor # NoOp => (AboveAnchor(op.id))'
         /\ op.id # anchor =>
              \A i \in DOMAIN block' : block'[i].id = anchor => block'[i].of \in {"int", "body"}
         /\ Len(block') = Len(block) + 1 /\ DOMAIN block' = 1..Len(block) + 1
         /\ anchor = NoOp => /\ block'[Len(block) + 1] = op
                             /\ \A i \in 1..Len(block) : block'[i] = block[i]
PROOF
<1>0. Inv /\ AnchorIsNoSize /\ InHand /\ UsesInOrder
  BY DEF OrderInv
<1>1. PICK p \in 1..Len(block) + 1 :
        /\ Grown(p, op) /\ p > setup /\ Bodiless(p - 1)
        /\ \/ Top.at = AtEnd /\ p = Len(block) + 1
           \/ Top.at = anchor /\ anchor # NoOp /\ p <= Len(block) /\ block[p].id = anchor
  BY <1>0, SizePlaced
<1>2. /\ block' \in Seq(Operation) /\ Len(block') = Len(block) + 1 /\ block'[p] = op
      /\ \A j \in 1..Len(block) : block'[IF j < p THEN j ELSE j + 1] = block[j]
      /\ \A j \in 1..Len(block) + 1 : j # p => block'[j] = block[IF j < p THEN j ELSE j - 1]
  BY <1>1 DEF Grown
<1>3. /\ block \in Seq(Operation) /\ Len(block) \in Nat /\ DOMAIN block = 1..Len(block)
      /\ DOMAIN block' = 1..Len(block) + 1
  BY <1>0, <1>2 DEF Inv, Shapes
<1> DEFINE moved(j) == IF j < p THEN j ELSE j + 1
<1>4. ASSUME NEW j \in 1..Len(block)
      PROVE  moved(j) \in 1..Len(block) + 1 /\ block'[moved(j)] = block[j]
  <2>1. Len(block) \in Nat
    OBVIOUS
  <2>2. moved(j) \in 1..Len(block) + 1
    OBVIOUS
  <2> QED
    BY <1>2
<1>5. ASSUME NEW i \in 1..Len(block), NEW j \in 1..Len(block), i < j PROVE moved(i) < moved(j)
  <2>1. i \in Int /\ j \in Int /\ p \in Int
    OBVIOUS
  <2> QED
    BY <1>5
<1>6. ASSUME NEW i \in 1..Len(block) + 1, i # p
      PROVE  \E old \in 1..Len(block) : moved(old) = i
  <2> DEFINE old == IF i < p THEN i ELSE i - 1
  <2>1. old \in 1..Len(block) /\ moved(old) = i
    BY <1>6
  <2> QED
    BY <2>1
<1>7. ASSUME NEW j \in 1..Len(block), j < p PROVE moved(j) = j
  BY <1>7
<1>8. ASSUME NEW j \in 1..Len(block), p <= j PROVE moved(j) = j + 1
  <2>1. ~(j < p)
    BY <1>8
  <2> QED
    BY <2>1
<1> HIDE DEF moved
<1>9. ASSUME NEW id \in Nat
      PROVE  /\ IsIn(id) => (IsIn(id))'
             /\ OfSize(id) => (OfSize(id))'
             /\ AboveAnchor(id) => (AboveAnchor(id))'
  <2>1. IsIn(id) => (IsIn(id))'
    BY <1>3, <1>4 DEF IsIn
  <2>2. OfSize(id) => (OfSize(id))'
    BY <1>3, <1>4 DEF OfSize
  <2>3. ASSUME AboveAnchor(id) PROVE (AboveAnchor(id))'
    <3>1. PICK j \in 1..Len(block), k \in 1..Len(block) :
            j < k /\ block[j].id = id /\ block[k].id = anchor
      BY <1>3, <2>3 DEF AboveAnchor
    <3>2. moved(j) < moved(k)
      BY <1>5, <3>1
    <3>3. /\ moved(j) \in DOMAIN block' /\ moved(k) \in DOMAIN block'
          /\ block'[moved(j)].id = id /\ block'[moved(k)].id = anchor'
      BY <1>3, <1>4, <3>1
    <3> QED
      BY <3>2, <3>3 DEF AboveAnchor
  <2> QED
    BY <2>1, <2>2, <2>3
<1>10. p \in DOMAIN block'
  BY <1>3
<1>11. (IsIn(op.id))' /\ (op.of \in DOMAIN Sizes => (OfSize(op.id))')
  BY <1>2, <1>10 DEF IsIn, OfSize
<1>12. ASSUME Top.at = anchor, anchor # NoOp
       PROVE  p \in 1..Len(block) /\ block[p].id = anchor
  <2>1. p <= Len(block) /\ block[p].id = anchor
    BY <1>1, <1>12 DEF AtEnd, NoOp
  <2> QED
    BY <2>1
<1>13. ASSUME Top.at = anchor, anchor # NoOp
       PROVE  /\ p + 1 \in DOMAIN block' /\ p < p + 1
              /\ block'[p + 1] = block[p] /\ block'[p + 1].id = anchor'
  <2>1. p \in 1..Len(block) /\ block[p].id = anchor
    BY <1>12, <1>13
  <2>2. moved(p) = p + 1
    BY <1>8, <2>1
  <2> QED
    BY <1>3, <1>4, <2>1, <2>2
<1>14. Top.at = anchor /\ anchor # NoOp => (AboveAnchor(op.id))'
  BY <1>2, <1>10, <1>13 DEF AboveAnchor
<1>15. ASSUME op.id # anchor, NEW i \in DOMAIN block', block'[i].id = anchor
       PROVE  block'[i].of \in {"int", "body"}
  <2>1. i # p
    BY <1>2, <1>15
  <2>2. PICK old \in 1..Len(block) : moved(old) = i
    BY <1>3, <1>6, <2>1
  <2>3. block[old].id = anchor /\ block'[i] = block[old]
    BY <1>4, <1>15, <2>2
  <2> QED
    BY <1>0, <1>3, <2>3 DEF AnchorIsNoSize
<1>16. ASSUME anchor = NoOp
       PROVE  /\ block'[Len(block) + 1] = op /\ \A i \in 1..Len(block) : block'[i] = block[i]
  <2>1. p = Len(block) + 1
    BY <1>1, <1>16
  <2>2. \A i \in 1..Len(block) : i < p
    BY <2>1
  <2> QED
    BY <1>2, <1>4, <1>7, <2>1, <2>2
<1>17. ASSUME NEW i \in 1..Len(block) + 1, i # p, NEW u \in block'[i].uses
       PROVE  \E j \in DOMAIN block' : block'[j].id = u /\ (j < i \/ (AcrossInteger(i, j))')
  <2>1. PICK old \in 1..Len(block) : moved(old) = i
    BY <1>6, <1>17
  <2>2. block'[i] = block[old] /\ u \in block[old].uses
    BY <1>4, <1>17, <2>1
  <2>3. PICK j \in 1..Len(block) : block[j].id = u /\ (j < old \/ AcrossInteger(old, j))
    BY <1>0, <1>3, <2>2 DEF UsesInOrder
  <2>4. PICK now \in DOMAIN block' : now = moved(j) /\ block'[now] = block[j]
    BY <1>3, <1>4
  <2>5. CASE j < old
    BY <1>5, <2>1, <2>3, <2>4, <2>5
  <2>6. CASE AcrossInteger(old, j)
    <3>1. PICK k \in old + 1..j - 1 : block[k].id = anchor /\ block[k].of = "int"
      BY <2>6 DEF AcrossInteger
    <3>2. k \in 1..Len(block) /\ old < k /\ k < j
      OBVIOUS
    <3>3. moved(old) < moved(k) /\ moved(k) < moved(j)
      BY <1>5, <3>2
    <3>4. PICK middle \in DOMAIN block' : middle = moved(k) /\ block'[middle] = block[k]
      BY <1>3, <1>4, <3>2
    <3>5. i < middle /\ middle < now
      BY <2>1, <2>4, <3>3, <3>4
    <3>6. middle \in i + 1..now - 1
      BY <1>3, <3>5
    <3>7. {block'[i].of, block'[now].of} \subseteq DOMAIN Sizes
      BY <2>2, <2>4, <2>6 DEF AcrossInteger
    <3>8. (AcrossInteger(i, now))'
      BY <3>1, <3>4, <3>6, <3>7 DEF AcrossInteger
    <3> QED
      BY <2>3, <2>4, <3>8
  <2> QED
    BY <2>3, <2>5, <2>6
<1>18. ASSUME NEW u \in op.uses
       PROVE  \E j \in DOMAIN block' : block'[j].id = u /\ (j < p \/ (AcrossInteger(p, j))')
  <2>1. /\ IsIn(u)
        /\ Top.at = anchor /\ anchor # NoOp => OfSize(u) \/ AboveAnchor(u)
    <3>1. frames \in Seq(Frame) /\ Len(frames) \in 1..Len(frames) /\ Top = frames[Len(frames)]
      BY <1>0, Popped DEF Inv, Shapes, Top
    <3> QED
      BY <1>0, <3>1 DEF InHand
  <2>2. ASSUME NEW j \in 1..Len(block), block[j].id = u, j < p
        PROVE  j \in DOMAIN block' /\ block'[j].id = u
    <3>1. moved(j) = j
      BY <1>7, <2>2
    <3> QED
      BY <1>3, <1>4, <2>2, <3>1
  <2>3. CASE p = Len(block) + 1
    <3>1. PICK j \in 1..Len(block) : block[j].id = u
      BY <1>3, <2>1 DEF IsIn
    <3>2. j < p
      BY <2>3
    <3> QED
      BY <2>2, <3>1, <3>2
  <2>4. CASE Top.at = anchor /\ anchor # NoOp
    <3>1. p \in 1..Len(block) /\ block[p].id = anchor
      BY <1>12, <2>4
    <3>2. CASE AboveAnchor(u)
      <4>1. PICK j \in 1..Len(block), k \in 1..Len(block) :
              j < k /\ block[j].id = u /\ block[k].id = anchor
        BY <1>3, <3>2 DEF AboveAnchor
      <4>2. k = p
        BY <1>0, <1>3, <3>1, <4>1 DEF Inv, OnePlace
      <4> QED
        BY <2>2, <4>1, <4>2
    <3>3. CASE OfSize(u)
      <4>1. PICK j \in 1..Len(block) : block[j].id = u /\ block[j].of \in DOMAIN Sizes
        BY <1>3, <3>3 DEF OfSize
      <4>2. block[j].of \notin {"int", "body"}
        BY <4>1, SizesAssumption
      <4>3. block[p].of \in {"int", "body"}
        BY <1>0, <1>3, <3>1 DEF AnchorIsNoSize
      <4>4. j # p
        BY <4>2, <4>3
      <4>5. CASE j < p
        BY <2>2, <4>1, <4>5
      <4>6. CASE p < j
        <5>1. block[p].of = "int"
          BY <1>0, <1>3, <3>1, <4>2, <4>3, <4>6 DEF Inv, SizesBeforeBody
        <5>2. moved(j) = j + 1
          BY <1>8, <4>6
        <5>3. j + 1 \in DOMAIN block' /\ block'[j + 1] = block[j]
          BY <1>3, <1>4, <5>2
        <5>4. p + 1 \in p + 1..j + 1 - 1
          BY <4>6
        <5>5. block'[p + 1].id = anchor' /\ block'[p + 1].of = "int"
          BY <1>13, <2>4, <5>1
        <5>6. {block'[p].of, block'[j + 1].of} \subseteq DOMAIN Sizes
          BY <1>2, <4>1, <5>3
        <5>7. (AcrossInteger(p, j + 1))'
          BY <5>4, <5>5, <5>6 DEF AcrossInteger
        <5> QED
          BY <4>1, <5>3, <5>7
      <4> QED
        BY <4>4, <4>5, <4>6
    <3> QED
      BY <2>1, <2>4, <3>2, <3>3
  <2> QED
    BY <1>1, <2>3, <2>4
<1>19. UsesInOrder'
  BY <1>2, <1>3, <1>17, <1>18 DEF UsesInOrder
<1> QED
  BY <1>2, <1>3, <1>9, <1>11, <1>14, <1>15, <1>16, <1>19

LEMMA InitOrder == SizesInit => OrderInv
PROOF
<1> SUFFICES ASSUME SizesInit PROVE OrderInv
  OBVIOUS
<1>1. Inv
  BY InitInv
<1>2. frames = <<>> /\ DOMAIN frames = {} /\ DOMAIN values = {}
  BY DEF SizesInit, NoValues
<1>3. InHand
  BY <1>2 DEF InHand
<1>4. block = <<[id |-> 1, of |-> "setup", uses |-> {}]>> /\ anchor = NoOp /\ setup = 1
  BY DEF SizesInit, Setup, Op
<1>5. UsesInOrder /\ AnchorIsNoSize
  BY <1>4 DEF UsesInOrder, AnchorIsNoSize, NoOp
<1> QED
  BY <1>1, <1>3, <1>5 DEF OrderInv

\* A level that begins: the levels there were insert elsewhere if it sets the anchor.
LEMMA EnterKeepsOrder ==
  ASSUME OrderInv, NEW s \in DOMAIN Sizes, Enter(s, frames),
         UNCHANGED <<function, block, setup, values, fresh, raised>>
  PROVE  AnchorIsNoSize' /\ InHand' /\ UsesInOrder'
PROOF
<1> DEFINE level == [size |-> s, at |-> Place, left |-> Sizes[s], operands |-> {}]
<1>0. Inv /\ AnchorIsNoSize /\ InHand /\ UsesInOrder
  BY DEF OrderInv
<1>1. /\ anchor' = IF Place = AtEnd THEN anchor ELSE Place
      /\ frames' = Append(frames, level)
  BY DEF Enter
<1>2. /\ Place \in Nat /\ Place \in {AtEnd, anchor'}
      /\ anchor # NoOp => Place = anchor /\ anchor' = anchor
      /\ anchor' # NoOp =>
           \E i \in DOMAIN block : i > setup /\ block[i].id = anchor'
  BY <1>0, <1>1, PlaceChosen
<1>3. level \in Frame /\ level.operands = {}
  BY <1>2, SizesAssumption DEF Frame
<1> HIDE DEF level
<1>4. /\ Len(frames) \in Nat /\ DOMAIN frames = 1..Len(frames)
      /\ DOMAIN frames' = 1..Len(frames) + 1
      /\ \A f \in 1..Len(frames) : frames'[f] = frames[f]
      /\ frames'[Len(frames) + 1] = level
  <2>1. frames \in Seq(Frame)
    BY <1>0 DEF Inv, Shapes
  <2> QED
    BY <1>1, <1>3, <2>1
<1>5. \A i \in DOMAIN block : block[i].id # NoOp
  BY <1>0 DEF Inv, Emitted, NoOp
<1>6. AnchorIsNoSize'
  <2>1. CASE anchor' = anchor
    BY <1>0, <2>1 DEF AnchorIsNoSize
  <2>2. CASE anchor' # anchor
    <3>1. anchor = NoOp /\ anchor' # NoOp
      BY <1>1, <1>2, <2>2 DEF NoOp, AtEnd
    <3>2. PICK k \in DOMAIN block : k > setup /\ block[k].id = anchor'
      BY <1>2, <3>1
    <3>3. block[k].of \in {"int", "body"}
      BY <1>0, <3>1, <3>2 DEF AnchorIsNoSize
    <3>4. \A i \in DOMAIN block : block[i].id = anchor' => i = k
      BY <1>0, <3>2 DEF Inv, OnePlace
    <3> QED
      BY <3>1, <3>3, <3>4 DEF AnchorIsNoSize
  <2> QED
    BY <2>1, <2>2
<1>7. InHand'
  <2>1. ASSUME NEW id PROVE (IsIn(id) => (IsIn(id))') /\ (OfSize(id) => (OfSize(id))')
    BY DEF IsIn, OfSize
  <2>2. \A t \in DOMAIN values' : (OfSize(values[t]))'
    BY <1>0, <2>1 DEF InHand
  <2>3. ASSUME NEW f \in 1..Len(frames), NEW u \in frames[f].operands
        PROVE  /\ (IsIn(u))'
               /\ frames[f].at = anchor' /\ anchor' # NoOp => (OfSize(u))' \/ (AboveAnchor(u))'
    <3>1. IsIn(u)
      BY <1>0, <1>4 DEF InHand
    <3>2. ASSUME frames[f].at = anchor', anchor' # NoOp
          PROVE  (OfSize(u))' \/ (AboveAnchor(u))'
      <4>1. anchor' = anchor
        BY <1>0, <1>2, <1>4, <3>2 DEF Inv, FramesPlaced, AtEnd, NoOp
      <4>2. OfSize(u) \/ AboveAnchor(u)
        BY <1>0, <1>4, <3>2, <4>1 DEF InHand
      <4> QED
        BY <4>1, <4>2 DEF OfSize, AboveAnchor
    <3> QED
      BY <2>1, <3>1, <3>2
  <2>4. \A f \in 1..Len(frames) + 1 : f \in 1..Len(frames) \/ f = Len(frames) + 1
    BY <1>4
  <2>5. ASSUME NEW f \in DOMAIN frames', NEW u \in frames'[f].operands
        PROVE  /\ (IsIn(u))'
               /\ frames'[f].at = anchor' /\ anchor' # NoOp => (OfSize(u))' \/ (AboveAnchor(u))'
    BY <1>3, <1>4, <2>3, <2>4
  <2> QED
    BY <2>2, <2>5 DEF InHand
<1>8. UsesInOrder'
  <2>1. ASSUME NEW i \in DOMAIN block, NEW j \in DOMAIN block, AcrossInteger(i, j)
        PROVE  (AcrossInteger(i, j))'
    <3>1. PICK k \in i + 1..j - 1 : block[k].id = anchor /\ block[k].of = "int"
      BY <2>1 DEF AcrossInteger
    <3>2. DOMAIN block = 1..Len(block) /\ Len(block) \in Nat
      BY <1>0 DEF Inv, Shapes
    <3>3. k \in DOMAIN block
      BY <3>2
    <3>4. anchor' = anchor
      BY <1>2, <1>5, <3>1, <3>3
    <3> QED
      BY <2>1, <3>4 DEF AcrossInteger
  <2> QED
    BY <1>0, <2>1 DEF UsesInOrder
<1> QED
  BY <1>6, <1>7, <1>8

LEMMA StepOrder ==
  ASSUME OrderInv, [SizesNext]_sizeVars
  PROVE  AnchorIsNoSize' /\ InHand' /\ UsesInOrder'
PROOF
<1> DEFINE Goal == AnchorIsNoSize' /\ InHand' /\ UsesInOrder'
<1>0. Inv /\ AnchorIsNoSize /\ InHand /\ UsesInOrder
  BY DEF OrderInv
<1>1. ASSUME BeginFunction PROVE Goal
  <2>1. /\ block' = <<[id |-> fresh, of |-> "setup", uses |-> {}]>> /\ setup' = 1
        /\ anchor' = 0 /\ values' = NoValues /\ frames' = <<>>
    BY <1>1 DEF BeginFunction, Setup, Op, NoOp
  <2>2. Len(block') = 1 /\ DOMAIN block' = 1..1 /\ block'[1].uses = {} /\ block'[1].id = fresh
    BY <2>1
  <2>3. DOMAIN values' = {} /\ DOMAIN frames' = {} /\ fresh # 0
    BY <1>0, <2>1 DEF NoValues, Inv, Shapes
  <2>4. AnchorIsNoSize'
    BY <2>1, <2>2, <2>3 DEF AnchorIsNoSize
  <2> QED
    BY <2>2, <2>3, <2>4 DEF InHand, UsesInOrder
<1>2. ASSUME NEW s \in DOMAIN Sizes, Request(s) PROVE Goal
  <2>1. /\ Enter(s, frames)
        /\ UNCHANGED <<function, block, setup, values, fresh, raised>>
    BY <1>2 DEF Request
  <2> QED
    BY <2>1, EnterKeepsOrder
<1>3. ASSUME IntegerArgument PROVE Goal
  <2>1. /\ frames # <<>> /\ Top.left # <<>> /\ block' = Insert(Top.at, Op(fresh, "int", {}))
        /\ frames' = Append(Front(frames), WithOperand(Top, fresh))
        /\ UNCHANGED <<setup, anchor, values>>
    BY <1>3 DEF IntegerArgument
  <2>2. fresh \in Nat \ {0} /\ frames \in Seq(Frame)
    BY <1>0 DEF Inv, Shapes
  <2>3. PICK op \in Operation :
          /\ op = Op(fresh, "int", {})
          /\ op.id = fresh /\ op.of = "int" /\ op.of # "body" /\ op.uses = {}
          /\ op.uses \subseteq Top.operands
    <3>1. Op(fresh, "int", {}) \in Operation
      BY <2>2 DEF Op, Operation
    <3> QED
      BY <3>1 DEF Op
  <2>4. /\ UsesInOrder'
        /\ \A id \in Nat : /\ IsIn(id) => (IsIn(id))'
                           /\ OfSize(id) => (OfSize(id))'
                           /\ AboveAnchor(id) => (AboveAnchor(id))'
        /\ (IsIn(op.id))'
        /\ Top.at = anchor /\ anchor # NoOp => (AboveAnchor(op.id))'
        /\ op.id # anchor =>
             \A i \in DOMAIN block' : block'[i].id = anchor => block'[i].of \in {"int", "body"}
        /\ DOMAIN block' = 1..Len(block) + 1
        /\ anchor = NoOp => /\ block'[Len(block) + 1] = op
                            /\ \A i \in 1..Len(block) : block'[i] = block[i]
    BY <2>1, <2>3, OrderAdded
  <2>5. /\ DOMAIN frames = 1..Len(frames) /\ DOMAIN frames' = 1..Len(frames)
        /\ Len(frames) \in 1..Len(frames) /\ Top = frames[Len(frames)]
        /\ \A f \in 1..Len(frames) :
             /\ f < Len(frames) => frames'[f] = frames[f]
             /\ frames'[f].at = frames[f].at
             /\ frames'[f].operands \subseteq frames[f].operands \union {fresh}
    BY <2>1, <2>2, TopSupplied
  <2>6. AnchorIsNoSize'
    <3>1. op.id # anchor
      BY <1>0, <2>2, <2>3 DEF Inv, AnchorPlaced, Emitted, NoOp
    <3>2. DOMAIN block = 1..Len(block) /\ Len(block) \in Nat
      BY <1>0 DEF Inv, Shapes
    <3>3. ASSUME anchor = NoOp, NEW i \in DOMAIN block', i > setup
          PROVE  block'[i].of \in {"int", "body"}
      <4>1. i \in 1..Len(block) \/ i = Len(block) + 1
        BY <2>4, <3>2
      <4> QED
        BY <1>0, <2>3, <2>4, <3>2, <3>3, <4>1 DEF AnchorIsNoSize
    <3> QED
      BY <2>1, <2>4, <3>1, <3>3 DEF AnchorIsNoSize
  <2>7. InHand'
    <3>1. ASSUME NEW s \in DOMAIN values' PROVE (OfSize(values[s]))'
      <4>1. OfSize(values[s]) /\ values[s] \in Nat
        BY <1>0, <2>1 DEF InHand, Inv, Emitted
      <4>2. ASSUME NEW id \in Nat, OfSize(id), id = values[s] PROVE (OfSize(values[s]))'
        <5>1. values' = values /\ (OfSize(id))'
          BY <2>1, <2>4, <4>2
        <5> QED
          BY <4>2, <5>1 DEF OfSize
      <4> QED
        BY <4>1, <4>2
    <3>2. ASSUME NEW f \in DOMAIN frames', NEW u \in frames'[f].operands
          PROVE  /\ (IsIn(u))'
                 /\ frames'[f].at = anchor' /\ anchor' # NoOp => (OfSize(u))' \/ (AboveAnchor(u))'
      <4>1. f \in DOMAIN frames /\ frames'[f].at = frames[f].at
        BY <2>5
      <4>2. CASE u \in frames[f].operands
        <5>1. u \in Nat
          BY <1>0, <4>1, <4>2 DEF Inv, Emitted
        <5>2. IsIn(u) /\ (frames[f].at = anchor /\ anchor # NoOp => OfSize(u) \/ AboveAnchor(u))
          BY <1>0, <4>1, <4>2 DEF InHand
        <5> QED
          BY <2>1, <2>4, <4>1, <5>1, <5>2
      <4>3. CASE u \notin frames[f].operands
        <5>1. u = op.id
          BY <2>3, <2>5, <4>1, <4>3
        <5>2. f = Len(frames)
          <6>1. Len(frames) \in Nat /\ f \in 1..Len(frames)
            BY <2>2, <2>5
          <6>2. ~(f < Len(frames))
            BY <2>5, <4>3
          <6> QED
            BY <6>1, <6>2
        <5>3. frames[f].at = Top.at
          BY <2>5, <5>2
        <5> QED
          BY <2>1, <2>4, <4>1, <5>1, <5>3
      <4> QED
        BY <4>2, <4>3
    <3> QED
      BY <3>1, <3>2 DEF InHand
  <2> QED
    BY <2>4, <2>6, <2>7
<1>4. ASSUME SizeArgument PROVE Goal
  <2> DEFINE s == Head(Top.left)
  <2>1. /\ frames # <<>> /\ Top.left # <<>> /\ s # "int"
        /\ UNCHANGED <<function, block, setup, values, fresh, raised>>
    BY <1>4 DEF SizeArgument
  <2>2. frames \in Seq(Frame) /\ Top \in Frame
    BY <1>0, <2>1, Popped DEF Inv, Shapes, Top
  <2>3. s \in DOMAIN Sizes
    BY <2>1, <2>2 DEF Frame
  <2>4. \/ ~Known(s) /\ Enter(s, frames)
        \/ /\ Known(s) /\ anchor' = anchor
           /\ frames' = Append(Front(frames), WithOperand(Top, values[s]))
    BY <1>4 DEF SizeArgument
  <2> HIDE DEF s
  <2>5. CASE Enter(s, frames)
    BY <2>1, <2>3, <2>5, EnterKeepsOrder
  <2>6. CASE /\ Known(s) /\ anchor' = anchor
             /\ frames' = Append(Front(frames), WithOperand(Top, values[s]))
    <3>1. values[s] \in Nat /\ OfSize(values[s])
      BY <1>0, <2>6 DEF Known, Inv, Emitted, InHand
    <3>2. /\ DOMAIN frames = 1..Len(frames) /\ DOMAIN frames' = 1..Len(frames)
          /\ \A f \in 1..Len(frames) :
               /\ frames'[f].at = frames[f].at
               /\ frames'[f].operands \subseteq frames[f].operands \union {values[s]}
      BY <2>1, <2>2, <2>6, <3>1, TopSupplied
    <3>3. UsesInOrder' /\ AnchorIsNoSize'
      BY <1>0, <2>1, <2>6 DEF UsesInOrder, AcrossInteger, AnchorIsNoSize
    <3>4. ASSUME NEW id PROVE /\ IsIn(id) => (IsIn(id))'
                              /\ OfSize(id) => (OfSize(id))' /\ IsIn(id)
                              /\ AboveAnchor(id) => (AboveAnchor(id))'
      BY <2>1, <2>6 DEF IsIn, OfSize, AboveAnchor
    <3>5. ASSUME NEW f \in DOMAIN frames', NEW u \in frames'[f].operands
          PROVE  /\ (IsIn(u))'
                 /\ frames'[f].at = anchor' /\ anchor' # NoOp => (OfSize(u))' \/ (AboveAnchor(u))'
      <4>1. f \in DOMAIN frames /\ frames'[f].at = frames[f].at
            /\ (u \in frames[f].operands \/ u = values[s])
        BY <3>2
      <4>2. IsIn(u) /\ (frames[f].at = anchor /\ anchor # NoOp => OfSize(u) \/ AboveAnchor(u))
        BY <1>0, <3>1, <3>4, <4>1 DEF InHand
      <4> QED
        BY <2>6, <3>4, <4>1, <4>2
    <3>6. \A t \in DOMAIN values' : (OfSize(values[t]))'
      BY <1>0, <2>1 DEF InHand, OfSize
    <3> QED
      BY <3>3, <3>5, <3>6 DEF InHand
  <2> QED
    BY <2>4, <2>5, <2>6
<1>5. ASSUME Emit PROVE Goal
  <2> DEFINE below == Front(frames)
  <2>1. /\ frames # <<>> /\ block' = Insert(Top.at, Op(fresh, Top.size, Top.operands))
        /\ values' = [s \in DOMAIN values \union {Top.size} |->
                        IF s = Top.size THEN fresh ELSE values[s]]
        /\ setup' = SetupAfter
        /\ frames' = IF Len(frames) = 1 THEN <<>>
                     ELSE Append(Front(below), WithOperand(Last(below), fresh))
        /\ anchor' = anchor
    BY <1>5 DEF Emit
  <2>2. /\ fresh \in Nat \ {0} /\ frames \in Seq(Frame) /\ Top \in Frame
    BY <1>0, <2>1, Popped DEF Inv, Shapes, Top
  <2>3. PICK op \in Operation :
          /\ op = Op(fresh, Top.size, Top.operands)
          /\ op.id = fresh /\ op.of # "body" /\ op.of \in DOMAIN Sizes
          /\ op.uses \subseteq Top.operands
    <3>1. Top.size \in DOMAIN Sizes /\ Top.size # "body" /\ Top.operands \in SUBSET Nat
      BY <2>2, SizesAssumption DEF Frame
    <3>2. Op(fresh, Top.size, Top.operands) \in Operation
      BY <2>2, <3>1 DEF Op, Operation
    <3> QED
      BY <3>1, <3>2 DEF Op
  <2>4. /\ UsesInOrder'
        /\ \A id \in Nat : /\ IsIn(id) => (IsIn(id))'
                           /\ OfSize(id) => (OfSize(id))'
                           /\ AboveAnchor(id) => (AboveAnchor(id))'
        /\ (IsIn(op.id))' /\ (OfSize(op.id))'
        /\ op.id # anchor =>
             \A i \in DOMAIN block' : block'[i].id = anchor => block'[i].of \in {"int", "body"}
        /\ DOMAIN block' = 1..Len(block) + 1
    BY <2>1, <2>3, OrderAdded
  <2>5. /\ DOMAIN frames = 1..Len(frames) /\ DOMAIN frames' = 1..Len(frames) - 1
        /\ \A f \in 1..Len(frames) - 1 :
             /\ frames'[f].at = frames[f].at
             /\ frames'[f].operands \subseteq frames[f].operands \union {fresh}
    BY <1>0, <2>1, LevelEnds DEF Inv, Shapes
  <2>6. AnchorIsNoSize'
    <3>1. op.id # anchor
      BY <1>0, <2>2, <2>3 DEF Inv, AnchorPlaced, Emitted, NoOp
    <3>2. anchor = NoOp => \A i \in DOMAIN block' : ~(i > setup')
      <4>1. Len(block) \in Nat
        BY <1>0 DEF Inv, Shapes
      <4> QED
        BY <2>1, <2>4, <4>1 DEF SetupAfter
    <3> QED
      BY <2>1, <2>4, <3>1, <3>2 DEF AnchorIsNoSize
  <2>7. InHand'
    <3>1. ASSUME NEW s \in DOMAIN values' PROVE (OfSize(values[s]))'
      <4>1. values'[s] = op.id \/ (values'[s] = values[s] /\ s \in DOMAIN values)
        BY <2>1, <2>3
      <4>2. \E id \in Nat : values'[s] = id /\ (OfSize(id))'
        <5>1. CASE values'[s] = op.id
          BY <2>2, <2>3, <2>4, <5>1
        <5>2. CASE values'[s] = values[s] /\ s \in DOMAIN values
          <6>1. values[s] \in Nat /\ OfSize(values[s])
            BY <1>0, <5>2 DEF InHand, Inv, Emitted
          <6> QED
            BY <2>4, <5>2, <6>1
        <5> QED
          BY <4>1, <5>1, <5>2
      <4> QED
        BY <4>2 DEF OfSize
    <3>2. ASSUME NEW f \in DOMAIN frames', NEW u \in frames'[f].operands
          PROVE  /\ (IsIn(u))'
                 /\ frames'[f].at = anchor' /\ anchor' # NoOp => (OfSize(u))' \/ (AboveAnchor(u))'
      <4>1. f \in DOMAIN frames /\ frames'[f].at = frames[f].at
        BY <2>5
      <4>2. CASE u \in frames[f].operands
        <5>1. u \in Nat
          BY <1>0, <4>1, <4>2 DEF Inv, Emitted
        <5>2. IsIn(u) /\ (frames[f].at = anchor /\ anchor # NoOp => OfSize(u) \/ AboveAnchor(u))
          BY <1>0, <4>1, <4>2 DEF InHand
        <5> QED
          BY <2>1, <2>4, <4>1, <5>1, <5>2
      <4>3. CASE u \notin frames[f].operands
        <5>1. u = op.id
          BY <2>3, <2>5, <4>3
        <5> QED
          BY <2>4, <5>1
      <4> QED
        BY <4>2, <4>3
    <3> QED
      BY <3>1, <3>2 DEF InHand
  <2> QED
    BY <2>4, <2>6, <2>7
<1>6. ASSUME NothingProvides PROVE Goal
  BY <1>0, <1>6 DEF NothingProvides, AnchorIsNoSize, InHand, UsesInOrder, AcrossInteger,
       IsIn, OfSize, AboveAnchor
<1>7. ASSUME AppendBody PROVE Goal
  <2> DEFINE op == Op(fresh, "body", {})
  <2>1. /\ frames = <<>> /\ block' = Append(block, op)
        /\ UNCHANGED <<setup, anchor, values, frames>>
    BY <1>7 DEF AppendBody
  <2>2. /\ fresh \in Nat \ {0} /\ block \in Seq(Operation) /\ Len(block) \in Nat
        /\ DOMAIN block = 1..Len(block)
    BY <1>0 DEF Inv, Shapes
  <2>3. op \in Operation /\ op.id = fresh /\ op.of = "body" /\ op.uses = {}
    BY <2>2 DEF Op, Operation
  <2> HIDE DEF op
  <2>4. /\ DOMAIN block' = 1..Len(block) + 1 /\ block'[Len(block) + 1] = op
        /\ \A i \in 1..Len(block) : block'[i] = block[i]
        /\ DOMAIN block \subseteq DOMAIN block'
    BY <2>1, <2>2, <2>3
  <2>5. \A i \in DOMAIN block' : i \in DOMAIN block \/ i = Len(block) + 1
    BY <2>2, <2>4
  <2>6. AnchorIsNoSize'
    BY <1>0, <2>1, <2>2, <2>3, <2>4, <2>5 DEF AnchorIsNoSize
  <2>7. InHand'
    <3>1. \A s \in DOMAIN values' : (OfSize(values[s]))'
      BY <1>0, <2>1, <2>2, <2>4 DEF InHand, OfSize
    <3> QED
      BY <2>1, <3>1 DEF InHand
  <2>8. ASSUME NEW i \in DOMAIN block', NEW u \in block'[i].uses
        PROVE  \E j \in DOMAIN block' : block'[j].id = u /\ (j < i \/ (AcrossInteger(i, j))')
    <3>1. i \in DOMAIN block /\ u \in block[i].uses
      BY <2>2, <2>3, <2>4, <2>5
    <3>2. PICK j \in DOMAIN block : block[j].id = u /\ (j < i \/ AcrossInteger(i, j))
      BY <1>0, <3>1 DEF UsesInOrder
    <3>3. ASSUME AcrossInteger(i, j) PROVE (AcrossInteger(i, j))'
      <4>1. \A k \in i + 1..j - 1 : k \in 1..Len(block)
        BY <2>2, <3>1
      <4> QED
        BY <2>1, <2>2, <2>4, <3>1, <3>3, <4>1 DEF AcrossInteger
    <3>4. j \in DOMAIN block' /\ block'[j] = block[j]
      BY <2>2, <2>4
    <3> QED
      BY <3>2, <3>3, <3>4
  <2> QED
    BY <2>6, <2>7, <2>8 DEF UsesInOrder
<1>8. ASSUME NEW s \in DOMAIN Sizes, UseInBody(s) PROVE Goal
  <2>1. /\ Known(s) /\ block' = [block EXCEPT ![Len(block)].uses = @ \union {values[s]}]
        /\ Last(block).of = "body"
        /\ UNCHANGED <<setup, anchor, values, frames>>
    BY <1>8 DEF UseInBody
  <2>2. block \in Seq(Operation) /\ Len(block) \in 1..Len(block) /\ DOMAIN block = 1..Len(block)
    BY <1>0 DEF Inv, Shapes
  <2>3. /\ DOMAIN block' = DOMAIN block
        /\ \A i \in DOMAIN block : /\ block'[i].id = block[i].id /\ block'[i].of = block[i].of
                                   /\ i # Len(block) => block'[i].uses = block[i].uses
        /\ block'[Len(block)].uses = block[Len(block)].uses \union {values[s]}
    BY <2>1, <2>2 DEF Operation
  <2>4. AnchorIsNoSize'
    BY <1>0, <2>1, <2>3 DEF AnchorIsNoSize
  <2>5. InHand'
    BY <1>0, <2>1, <2>3 DEF InHand, OfSize, IsIn, AboveAnchor
  <2>6. ASSUME NEW i \in DOMAIN block', NEW u \in block'[i].uses
        PROVE  \E j \in DOMAIN block' : block'[j].id = u /\ (j < i \/ (AcrossInteger(i, j))')
    <3>1. ASSUME NEW j \in DOMAIN block, AcrossInteger(i, j) PROVE (AcrossInteger(i, j))'
      <4>1. \A k \in i + 1..j - 1 : k \in DOMAIN block
        BY <2>2, <2>3
      <4> QED
        BY <2>1, <2>3, <3>1, <4>1 DEF AcrossInteger
    <3>2. CASE u \in block[i].uses
      <4>1. PICK j \in DOMAIN block : block[j].id = u /\ (j < i \/ AcrossInteger(i, j))
        BY <1>0, <2>3, <3>2 DEF UsesInOrder
      <4> QED
        BY <2>3, <3>1, <4>1
    <3>3. CASE u \notin block[i].uses
      <4>1. i = Len(block) /\ u = values[s]
        BY <2>3, <3>3
      <4>2. PICK j \in DOMAIN block : block[j].id = u /\ block[j].of \in DOMAIN Sizes
        BY <1>0, <2>1, <4>1 DEF Known, InHand, OfSize
      <4>3. j # Len(block)
        BY <2>1, <4>2, SizesAssumption DEF Last
      <4>4. j < i
        BY <2>2, <4>1, <4>3
      <4> QED
        BY <2>3, <4>2, <4>4
    <3> QED
      BY <3>2, <3>3
  <2> QED
    BY <2>4, <2>5, <2>6 DEF UsesInOrder
<1>9. ASSUME UNCHANGED sizeVars PROVE Goal
  BY <1>0, <1>9 DEF sizeVars, AnchorIsNoSize, InHand, UsesInOrder, AcrossInteger,
       IsIn, OfSize, AboveAnchor
<1> QED
  BY <1>1, <1>2, <1>3, <1>4, <1>5, <1>6, <1>7, <1>8, <1>9 DEF SizesNext, SizesTerminated

\* Whatever sizes are asked for, in whatever order, every operation uses operations
\* above it, except a size that goes above the integer another size began with and
\* uses that size, which ended below (sizes.py, _insertion_point).
THEOREM UsesAlwaysInOrder == SizesSpec => []UsesInOrder
PROOF
<1>1. OrderInv /\ [SizesNext]_sizeVars => OrderInv'
  BY StepInv, StepOrder DEF OrderInv
<1>2. OrderInv => UsesInOrder
  BY DEF OrderInv
<1> QED
  BY InitOrder, <1>1, <1>2, PTL DEF SizesSpec
=============================================================================
