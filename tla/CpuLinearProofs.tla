---------------------------- MODULE CpuLinearProofs ----------------------------
(***************************************************************************)
(* For any programs, shapes and numbers of threads: a launched kernel walks *)
(* its call by the tiles chosen for it, however long it has been bound;     *)
(* chosen tiles are whole blocks within the limits of the accumulator; each *)
(* index of K is met once; a packed weight always fits the call that reuses *)
(* it; and it is packed from the weight that had the address and version    *)
(* which the weight has now.                                                *)
(***************************************************************************)
EXTENDS CpuLinear, SequenceTheorems, WellFoundedInduction, TLAPS

-----------------------------------------------------------------------------
(***************************************************************************)
(* The K chunks a tile is contracted in.                                   *)
(***************************************************************************)
Meets(chunk, x) == chunk[1] <= x /\ x < chunk[1] + chunk[2]

(* Every index of K is met by one chunk and by no other.                    *)
EachOnce(chunks, k) ==
  \A x \in 0 .. k - 1 :
    \E i \in DOMAIN chunks :
      /\ Meets(chunks[i], x)
      /\ \A j \in DOMAIN chunks : Meets(chunks[j], x) => j = i

(* What the kernels rely on in a plan: whole chunks up to chunked, a rest   *)
(* that reaches even, and a tail that reaches k.                            *)
Sound(plan, k, tail) ==
  /\ plan.chunk \in Nat \ {0} /\ plan.rest \in Nat \ {0} /\ tail \in Nat
  /\ plan.even \in 0 .. k /\ k - plan.even <= tail
  /\ plan.chunked = RoundDown(plan.even, plan.chunk)
  /\ plan.even - plan.chunked <= plan.rest

\* Products of natural numbers are ordered as their factors are.
LEMMA Products ==
  ASSUME NEW s \in Nat \ {0}, NEW p \in Int, NEW q \in Int
  PROVE  /\ p * s \in Int /\ q * s \in Int
         /\ p < q => p * s + s <= q * s
         /\ p <= q => p * s <= q * s
         /\ (p + 1) * s = p * s + s
         /\ (p - 1) * s = p * s - s
PROOF
<1>1. \A x \in Int : x >= 0 => x * s >= 0
  OBVIOUS
<1>2. p * s \in Int /\ q * s \in Int
  OBVIOUS
<1>3. ASSUME p < q PROVE p * s + s <= q * s
  <2>1. (q - p - 1) * s >= 0
    BY <1>1, <1>3
  <2>2. (q - p - 1) * s = q * s - p * s - s
    OBVIOUS
  <2> QED
    BY <2>1, <2>2
<1>4. ASSUME p <= q PROVE p * s <= q * s
  <2>1. (q - p) * s >= 0
    BY <1>1, <1>4
  <2>2. (q - p) * s = q * s - p * s
    OBVIOUS
  <2> QED
    BY <2>1, <2>2
<1>5. (p + 1) * s = p * s + s /\ (p - 1) * s = p * s - s
  OBVIOUS
<1> QED
  BY <1>2, <1>3, <1>4, <1>5

\* Rounding down to a multiple of a block: how many blocks, and what is left.
LEMMA RoundedDown ==
  ASSUME NEW x \in Nat, NEW s \in Nat \ {0}
  PROVE  /\ x \div s \in Nat
         /\ RoundDown(x, s) = (x \div s) * s
         /\ RoundDown(x, s) \in 0 .. x
         /\ x < RoundDown(x, s) + s
PROOF
<1>1. x \div s \in Int /\ s * (x \div s) <= x /\ x < s * (x \div s) + s
  OBVIOUS
<1>2. x \div s >= 0
  BY <1>1, Products, x \div s \in Int, -1 \in Int
<1>3. (x \div s) * s = s * (x \div s) /\ (x \div s) * s >= 0
  BY <1>1, <1>2
<1> QED
  BY <1>1, <1>2, <1>3 DEF RoundDown

-----------------------------------------------------------------------------
\* Where the elements of three sequences are in their concatenation.
LEMMA ThreeJoined ==
  ASSUME NEW S, NEW A \in Seq(S), NEW B \in Seq(S), NEW C \in Seq(S)
  PROVE  /\ DOMAIN (A \o B \o C) = 1 .. Len(A) + Len(B) + Len(C)
         /\ \A i \in 1 .. Len(A) : (A \o B \o C)[i] = A[i]
         /\ \A i \in 1 .. Len(B) : (A \o B \o C)[Len(A) + i] = B[i]
         /\ \A i \in 1 .. Len(C) : (A \o B \o C)[Len(A) + Len(B) + i] = C[i]
PROOF
<1>1. PICK D : D = A \o B
  OBVIOUS
<1>2. /\ D \in Seq(S) /\ Len(D) = Len(A) + Len(B)
      /\ \A i \in 1 .. Len(A) + Len(B) : D[i] = IF i <= Len(A) THEN A[i] ELSE B[i - Len(A)]
  BY <1>1, ConcatProperties
<1>3. /\ D \o C \in Seq(S) /\ Len(D \o C) = Len(D) + Len(C)
      /\ \A i \in 1 .. Len(D) + Len(C) :
           (D \o C)[i] = IF i <= Len(D) THEN D[i] ELSE C[i - Len(D)]
  <2>1. D \in Seq(S)
    BY <1>2
  <2> QED
    BY <2>1
<1>4. Len(A) \in Nat /\ Len(B) \in Nat /\ Len(C) \in Nat
  OBVIOUS
<1>5. DOMAIN (D \o C) = 1 .. Len(A) + Len(B) + Len(C)
  BY <1>2, <1>3
<1>6. \A i \in 1 .. Len(A) : (D \o C)[i] = A[i]
  BY <1>2, <1>3, <1>4
<1>7. \A i \in 1 .. Len(B) : (D \o C)[Len(A) + i] = B[i]
  BY <1>2, <1>3, <1>4
<1>8. \A i \in 1 .. Len(C) : (D \o C)[Len(A) + Len(B) + i] = C[i]
  BY <1>2, <1>3, <1>4
<1> QED
  BY <1>1, <1>5, <1>6, <1>7, <1>8

(* Whole chunks of a size, then the rest up to even, then the tail.         *)
LaidOut(chunks, tail, size, chunked, even, whole, rests, tails) ==
  /\ chunked = whole * size
  /\ DOMAIN chunks = 1 .. whole + rests + tails
  /\ \A c \in 1 .. whole : chunks[c] = <<(c - 1) * size, size>>
  /\ rests = 1 => chunks[whole + 1] = <<chunked, even - chunked>>
  /\ tails = 1 => chunks[whole + rests + 1] = <<even, tail>>

\* The chunks of a sound plan, one by one.
LEMMA ChunkByChunk ==
  ASSUME NEW k \in Nat, NEW tail, NEW plan, Sound(plan, k, tail)
  PROVE  \E size \in Nat \ {0}, even \in 0 .. k :
         \E chunked \in 0 .. even, whole \in Nat, rests \in 0 .. 1, tails \in 0 .. 1 :
           /\ tail \in Nat /\ k <= even + tail
           /\ rests = 1 <=> even > chunked
           /\ tails = 1 <=> k > even
           /\ LaidOut(Chunks(plan, k, tail), tail, size, chunked, even, whole, rests, tails)
PROOF
<1>0. PICK size, even, chunked, rest, chunks :
         /\ size = plan.chunk /\ even = plan.even /\ chunked = plan.chunked
         /\ rest = plan.rest /\ chunks = Chunks(plan, k, tail)
  OBVIOUS
<1>a. PICK whole, rests, tails :
         /\ whole = chunked \div size
         /\ rests = IF even > chunked THEN 1 ELSE 0
         /\ tails = IF k > even THEN 1 ELSE 0
  OBVIOUS
<1> DEFINE blocks == even \div size
           A == [c \in 1 .. whole |-> <<(c - 1) * size, size>>]
           B == [c \in 1 .. rests |-> RestChunk(plan, chunked + (c - 1) * rest)]
           C == IF k > even THEN << <<even, tail>> >> ELSE <<>>
<1>1. /\ size \in Nat \ {0} /\ rest \in Nat \ {0} /\ tail \in Nat
      /\ even \in 0 .. k
      /\ even - chunked <= rest
  BY <1>0 DEF Sound
<1>2. blocks \in Nat /\ chunked = blocks * size /\ chunked \in 0 .. even
  <2>1. even \in Nat
    BY <1>1
  <2>2. /\ blocks \in Nat /\ RoundDown(even, size) = blocks * size
        /\ RoundDown(even, size) \in 0 .. even
    BY <1>1, <2>1, RoundedDown
  <2>3. chunked = RoundDown(even, size)
    BY <1>0 DEF Sound
  <2> QED
    BY <2>2, <2>3
<1>3. whole = blocks
  <2>1. whole \in Int /\ size * whole <= chunked
                      /\ chunked < size * whole + size
    BY <1>a, <1>1, <1>2
  <2>2. size * whole = whole * size
    BY <1>1, <2>1
  <2>3. ~ whole < blocks
    BY <1>1, <1>2, <2>1, <2>2, Products
  <2>4. ~ blocks < whole
    BY <1>1, <1>2, <2>1, <2>2, Products
  <2> QED
    BY <1>2, <2>1, <2>3, <2>4
<1>4. CeilDiv(even - chunked, rest) = rests
  <2>1. CASE even > chunked
    <3> DEFINE n == even - chunked
    <3>1. n \in Nat \ {0} /\ n <= rest /\ rest \in Nat \ {0}
      BY <1>1, <1>2, <2>1
    <3>2. (n + rest - 1) \div rest = 1
      BY <3>1
    <3> QED
      BY <1>a, <2>1, <3>1, <3>2 DEF CeilDiv
  <2>2. CASE ~ even > chunked
    <3>1. even - chunked = 0
      BY <1>1, <1>2, <2>2
    <3>2. (0 + rest - 1) \div rest = 0
      BY <1>1
    <3> QED
      BY <1>a, <2>2, <3>1, <3>2 DEF CeilDiv
  <2> QED
    BY <2>1, <2>2
<1>5. chunks = A \o B \o C
  BY <1>0, <1>a, <1>4 DEF Chunks
<1>6. whole \in Nat /\ rests \in 0 .. 1 /\ tails \in 0 .. 1
  BY <1>a, <1>2, <1>3
<1>7. /\ A \in Seq(Int \X Int) /\ Len(A) = whole
      /\ \A c \in 1 .. whole : A[c] = <<(c - 1) * size, size>>
  <2>1. \A c \in 1 .. whole : (c - 1) * size \in Int /\ size \in Int
    BY <1>1, <1>6, Products
  <2> QED
    BY <1>6, <2>1
<1>8. /\ B \in Seq(Int \X Int) /\ Len(B) = rests
      /\ rests = 1 => B[1] = <<chunked, even - chunked>>
  <2>1. CASE rests = 0
    BY <1>1, <1>2, <2>1
  <2>2. CASE rests = 1
    <3>1. even > chunked
      BY <1>a, <2>2
    <3>2. RestChunk(plan, chunked) = <<chunked, even - chunked>>
      BY <1>0, <1>1, <1>2, <3>1 DEF RestChunk, Least
    <3>3. \A c \in 1 .. 1 : chunked + (c - 1) * rest = chunked
      BY <1>1, <1>2
    <3>4. B = << <<chunked, even - chunked>> >>
      BY <1>1, <1>2, <2>2, <3>2, <3>3
    <3> QED
      BY <1>1, <1>2, <2>2, <3>4
  <2> QED
    BY <1>6, <2>1, <2>2
<1>9. /\ C \in Seq(Int \X Int) /\ Len(C) = tails
      /\ tails = 1 => C[1] = <<even, tail>>
  <2>1. CASE k > even
    <3>1. C = << <<even, tail>> >> /\ tails = 1
      BY <1>a, <2>1
    <3>2. even \in Int /\ tail \in Int
      BY <1>1
    <3> HIDE DEF C
    <3> QED
      BY <3>1, <3>2
  <2>2. CASE ~ k > even
    <3>1. C = <<>> /\ tails = 0
      BY <1>a, <2>2
    <3>2. <<>> \in Seq(Int \X Int) /\ Len(<<>>) = 0
      OBVIOUS
    <3>3. tails # 1
      BY <3>1
    <3> HIDE DEF C
    <3> QED
      BY <3>1, <3>2, <3>3
  <2> QED
    BY <2>1, <2>2
<1> HIDE DEF A, B, C
<1>10. /\ DOMAIN (A \o B \o C) = 1 .. Len(A) + Len(B) + Len(C)
       /\ \A i \in 1 .. Len(A) : (A \o B \o C)[i] = A[i]
       /\ \A i \in 1 .. Len(B) : (A \o B \o C)[Len(A) + i] = B[i]
       /\ \A i \in 1 .. Len(C) : (A \o B \o C)[Len(A) + Len(B) + i] = C[i]
  <2>1. A \in Seq(Int \X Int) /\ B \in Seq(Int \X Int) /\ C \in Seq(Int \X Int)
    BY <1>7, <1>8, <1>9
  <2> QED
    BY <2>1, ThreeJoined, SMTT(40)
<1>11. \A c \in 1 .. whole : chunks[c] = <<(c - 1) * size, size>>
  BY <1>5, <1>7, <1>10
<1>12. ASSUME rests = 1
       PROVE  chunks[whole + 1] = <<chunked, even - chunked>>
  <2>1. 1 \in 1 .. Len(B) /\ Len(A) = whole
    BY <1>7, <1>8, <1>12
  <2>2. (A \o B \o C)[whole + 1] = B[1]
    BY <1>10, <2>1, Zenon
  <2> QED
    BY <1>5, <1>8, <1>12, <2>2
<1>13. ASSUME tails = 1
       PROVE  chunks[whole + rests + 1] = <<even, tail>>
  <2>1. 1 \in 1 .. Len(C) /\ Len(A) = whole /\ Len(B) = rests
    BY <1>7, <1>8, <1>9, <1>13
  <2>2. (A \o B \o C)[whole + rests + 1] = C[1]
    BY <1>10, <2>1, Zenon
  <2> QED
    BY <1>5, <1>9, <1>13, <2>2
<1>14. DOMAIN chunks = 1 .. whole + rests + tails
  BY <1>5, <1>7, <1>8, <1>9, <1>10
<1>15. LaidOut(chunks, tail, size, chunked, even, whole, rests, tails)
  BY <1>2, <1>3, <1>11, <1>12, <1>13, <1>14 DEF LaidOut
<1>16. /\ tail \in Nat /\ k <= even + tail
       /\ rests = 1 <=> even > chunked
       /\ tails = 1 <=> k > even
  BY <1>0, <1>a, <1>1, <1>2 DEF Sound
<1> QED
  BY <1>0, <1>1, <1>2, <1>6, <1>15, <1>16

(***************************************************************************)
(* The kernels of matmul.py loop over whole chunks, over the rest and over  *)
(* a padded tail: whatever K, the sizes of the chunks and of the tail are,  *)
(* every index of K is contracted, and none is contracted twice.            *)
(***************************************************************************)
THEOREM ChunksMeetEachOnce ==
  ASSUME NEW k \in Nat, NEW tail, NEW plan, Sound(plan, k, tail)
  PROVE  EachOnce(Chunks(plan, k, tail), k)
PROOF
<1>0. PICK chunks : chunks = Chunks(plan, k, tail)
  OBVIOUS
<1>1. PICK size \in Nat \ {0}, even \in 0 .. k :
      \E chunked \in 0 .. even, whole \in Nat, rests \in 0 .. 1, tails \in 0 .. 1 :
        /\ tail \in Nat /\ k <= even + tail
        /\ rests = 1 <=> even > chunked
        /\ tails = 1 <=> k > even
        /\ LaidOut(chunks, tail, size, chunked, even, whole, rests, tails)
  BY <1>0, ChunkByChunk
<1>a. PICK chunked \in 0 .. even, whole \in Nat, rests \in 0 .. 1, tails \in 0 .. 1 :
        /\ tail \in Nat /\ k <= even + tail
        /\ rests = 1 <=> even > chunked
        /\ tails = 1 <=> k > even
        /\ LaidOut(chunks, tail, size, chunked, even, whole, rests, tails)
  BY <1>1
<1>2. /\ k <= even + tail
      /\ rests = 1 <=> even > chunked
      /\ tails = 1 <=> k > even
      /\ chunked = whole * size
      /\ DOMAIN chunks = 1 .. whole + rests + tails
      /\ \A c \in 1 .. whole : chunks[c] = <<(c - 1) * size, size>>
      /\ rests = 1 => chunks[whole + 1] = <<chunked, even - chunked>>
      /\ tails = 1 => chunks[whole + rests + 1] = <<even, tail>>
  BY <1>a DEF LaidOut
<1>3. size \in Nat \ {0} /\ even \in Int /\ chunked \in Int /\ whole \in Nat /\ tail \in Nat
  BY <1>a
<1>4. SUFFICES ASSUME NEW x \in 0 .. k - 1
               PROVE  \E i \in DOMAIN chunks :
                        /\ Meets(chunks[i], x)
                        /\ \A j \in DOMAIN chunks : Meets(chunks[j], x) => j = i
  BY <1>0 DEF EachOnce
\* A whole chunk ends where the chunks before it and itself do.
<1>5. ASSUME NEW c \in 1 .. whole
      PROVE  Meets(chunks[c], x) <=> (c - 1) * size <= x /\ x < c * size
  <2>1. (c - 1) * size + size = c * size
    BY <1>3, Products
  <2> QED
    BY <1>2, <2>1 DEF Meets
<1>6. ASSUME NEW c \in 1 .. whole PROVE c * size \in Int /\ c * size <= chunked
  BY <1>2, <1>3, Products
<1>7. ASSUME rests = 1
      PROVE  Meets(chunks[whole + 1], x) <=> chunked <= x /\ x < even
  <2>1. chunks[whole + 1] = <<chunked, even - chunked>>
    BY <1>2, <1>7
  <2> QED
    BY <1>3, <2>1 DEF Meets
<1>8. ASSUME tails = 1
      PROVE  Meets(chunks[whole + rests + 1], x) <=> even <= x
  <2>1. chunks[whole + rests + 1] = <<even, tail>> /\ k <= even + tail
    BY <1>2, <1>8
  <2> QED
    BY <1>3, <2>1 DEF Meets
<1>9. \A j \in DOMAIN chunks :
        \/ j \in 1 .. whole
        \/ rests = 1 /\ j = whole + 1
        \/ tails = 1 /\ j = whole + rests + 1
  <2>1. whole \in Nat /\ DOMAIN chunks = 1 .. whole + rests + tails
    BY <1>2
  <2>2. \/ rests = 0 /\ tails = 0
        \/ rests = 0 /\ tails = 1
        \/ rests = 1 /\ tails = 0
        \/ rests = 1 /\ tails = 1
    OBVIOUS
  <2> QED
    BY <2>1, <2>2
<1>10. CASE x < chunked
  <2> DEFINE i == x \div size + 1
  <2>1. /\ x \div size \in Nat /\ (x \div size) * size <= x
        /\ x < (x \div size) * size + size
    <3>1. x \in Nat
      OBVIOUS
    <3>2. /\ x \div size \in Nat /\ RoundDown(x, size) = (x \div size) * size
          /\ RoundDown(x, size) \in 0 .. x /\ x < RoundDown(x, size) + size
      BY <1>3, <3>1, RoundedDown
    <3> QED
      BY <3>1, <3>2
  <2>2. i \in Nat /\ (i - 1) * size <= x /\ x < i * size
    BY <1>3, <2>1, Products
  <2> HIDE DEF i
  <2>3. i \in 1 .. whole
    <3>1. ASSUME whole < i PROVE FALSE
      <4>1. /\ whole * size \in Int /\ (i - 1) * size \in Int
            /\ whole * size <= (i - 1) * size
        BY <1>3, <2>2, <3>1, Products
      <4> QED
        BY <1>2, <1>3, <1>10, <2>2, <4>1
    <3>2. ~ i < 1
      BY <1>3, <2>2, Products
    <3> QED
      BY <1>2, <2>2, <3>1, <3>2
  <2>4. Meets(chunks[i], x)
    BY <1>5, <2>2, <2>3
  <2>5. ASSUME NEW j \in DOMAIN chunks, Meets(chunks[j], x) PROVE j = i
    <3>1. j \in 1 .. whole
      BY <1>2, <1>3, <1>7, <1>8, <1>9, <1>10, <2>5
    <3>2. (j - 1) * size <= x /\ x < j * size
      BY <1>5, <2>5, <3>1
    <3>3. ~ j < i
      BY <1>3, <2>2, <3>1, <3>2, Products
    <3>4. ~ i < j
      BY <1>3, <2>2, <3>1, <3>2, Products
    <3> QED
      BY <2>2, <3>1, <3>3, <3>4
  <2>6. i \in DOMAIN chunks
    BY <1>2, <2>3
  <2> QED
    BY <2>4, <2>5, <2>6
<1>11. CASE chunked <= x /\ x < even
  <2>1. rests = 1 /\ whole + 1 \in DOMAIN chunks /\ Meets(chunks[whole + 1], x)
    BY <1>2, <1>3, <1>7, <1>11
  <2>2. ASSUME NEW j \in DOMAIN chunks, Meets(chunks[j], x) PROVE j = whole + 1
    <3>1. ASSUME j \in 1 .. whole PROVE FALSE
      <4>1. x < j * size
        BY <1>5, <2>2, <3>1
      <4>2. j * size \in Int /\ j * size <= chunked
        BY <1>6, <3>1
      <4> QED
        BY <1>3, <1>11, <4>1, <4>2
    <3> QED
      BY <1>3, <1>8, <1>9, <1>11, <2>2, <3>1
  <2> QED
    BY <2>1, <2>2
<1>12. CASE even <= x
  <2>1. tails = 1 /\ whole + rests + 1 \in DOMAIN chunks /\ Meets(chunks[whole + rests + 1], x)
    BY <1>2, <1>3, <1>8, <1>12
  <2>2. ASSUME NEW j \in DOMAIN chunks, Meets(chunks[j], x) PROVE j = whole + rests + 1
    <3>1. ASSUME j \in 1 .. whole PROVE FALSE
      <4>1. x < j * size
        BY <1>5, <2>2, <3>1
      <4>2. j * size \in Int /\ j * size <= chunked
        BY <1>6, <3>1
      <4> QED
        BY <1>3, <1>12, <4>1, <4>2
    <3> QED
      BY <1>3, <1>7, <1>9, <1>12, <2>2, <3>1
  <2> QED
    BY <2>1, <2>2
<1> QED
  BY <1>2, <1>3, <1>10, <1>11, <1>12

-----------------------------------------------------------------------------
\* A plan that rounds as the kernels do is sound, with a tail of one block.
LEMMA RoundedPlan ==
  ASSUME NEW block \in Nat \ {0}, NEW k \in Nat, NEW plan,
         plan.chunk \in Nat \ {0},
         plan.even = RoundDown(k, block),
         plan.chunked = RoundDown(plan.even, plan.chunk),
         plan.rest = Most(plan.even - plan.chunked, block)
  PROVE  Sound(plan, k, block)
PROOF
<1>1. plan.even \in 0 .. k /\ k < plan.even + block
  BY RoundedDown
<1>2. plan.chunked \in 0 .. plan.even
  <2>1. plan.even \in Nat
    BY <1>1
  <2> QED
    BY <2>1, RoundedDown
<1>3. plan.rest \in Nat \ {0} /\ plan.even - plan.chunked <= plan.rest
  BY <1>1, <1>2 DEF Most
<1> QED
  BY <1>1, <1>2, <1>3 DEF Sound

(***************************************************************************)
(* _matmul_fused_pack walks K as _fused_pack_tiles plans it: for every k    *)
(* and every chunk, chosen or given, each index of K is contracted once,    *)
(* also when k is no multiple of the chunk or of two blocks.                *)
(***************************************************************************)
THEOREM FusedPackContractsOnce ==
  ASSUME NEW m, NEW n, NEW k \in Nat, NEW transA, NEW tiles, NEW workers,
         FusedPlan(m, n, k, transA, tiles, workers).chunk \in Nat \ {0}
  PROVE  EachOnce(Chunks(FusedPlan(m, n, k, transA, tiles, workers), k, 2 * Block), k)
PROOF
<1>1. PICK plan : plan = FusedPlan(m, n, k, transA, tiles, workers)
  OBVIOUS
<1>2. 2 * Block \in Nat \ {0}
  BY BlockAssumption
<1>3. /\ plan.even = RoundDown(k, 2 * Block)
      /\ plan.chunked = RoundDown(plan.even, plan.chunk)
      /\ plan.rest = Most(plan.even - plan.chunked, 2 * Block)
  BY <1>1 DEF FusedPlan
<1> QED
  BY <1>1, <1>2, <1>3, RoundedPlan, ChunksMeetEachOnce

(***************************************************************************)
(* The prepacked kernel does the same over pairs of K: its chunk is at      *)
(* least a block, whatever the rows of a tile and the width of a panel.     *)
(***************************************************************************)
THEOREM PrepackedContractsOnce ==
  ASSUME NEW tileM \in Nat, NEW pairs \in Nat, NEW panel \in Nat \ {0}
  PROVE  EachOnce(Chunks(PrepackedPlan(tileM, pairs, panel), pairs, Block), pairs)
PROOF
<1>1. PICK plan : plan = PrepackedPlan(tileM, pairs, panel)
  OBVIOUS
<1>2. Block \in Nat \ {0}
  BY BlockAssumption
<1>3. /\ plan.even = RoundDown(pairs, Block)
      /\ plan.chunked = RoundDown(plan.even, plan.chunk)
      /\ plan.rest = Most(plan.even - plan.chunked, Block)
  BY <1>1 DEF PrepackedPlan
<1>4. plan.chunk \in Nat \ {0}
  <2> DEFINE budget == IF tileM < MinSharedRows THEN PanelPairs \div 2 ELSE PanelPairs
             most == Most(budget \div panel, Block)
             chunks == Most(1, CeilDiv(plan.even, most))
             each == RoundUp(CeilDiv(plan.even, chunks), Block)
  <2>1. plan.chunk = Most(each, Block)
    BY <1>1 DEF PrepackedPlan
  <2>2. \A x \in Int, y \in Nat \ {0} : CeilDiv(x, y) \in Int
    BY DEF CeilDiv
  <2>3. budget \in Int
    BY BlockAssumption
  <2>4. most \in Nat \ {0}
    BY <1>2, <2>3 DEF Most
  <2>5. plan.even \in Int
    BY <1>2, <1>3, RoundedDown
  <2> HIDE DEF most
  <2>6. chunks \in Nat \ {0}
    <3>1. CeilDiv(plan.even, most) \in Int
      BY <2>2, <2>4, <2>5
    <3> QED
      BY <3>1 DEF Most
  <2> HIDE DEF chunks
  <2>7. each \in Int
    BY <1>2, <2>2, <2>5, <2>6 DEF RoundUp
  <2> HIDE DEF each
  <2> QED
    BY <1>2, <2>1, <2>7 DEF Most
<1> QED
  BY <1>1, <1>2, <1>3, <1>4, RoundedPlan, ChunksMeetEachOnce
-----------------------------------------------------------------------------
(***************************************************************************)
(* Bound kernels and packed weights.                                       *)
(***************************************************************************)
\* The tiles a key stands for.
PlanOf(key) ==
  IF key[1] = "fused" THEN FusedPlan(key[2], key[3], key[4], key[5], key[9], key[10])
  ELSE PrepackedPlan(key[6], key[5], key[4])

\* Every bound kernel has the tiles its key stands for.
BoundByKey ==
  /\ bound \in Seq({bound[i] : i \in DOMAIN bound}) /\ Len(bound) <= BoundSize
  /\ \A i \in DOMAIN bound : bound[i].plan = PlanOf(bound[i].key)

\* The kernel about to be launched is a bound one, for this call.
Launched ==
  pc \in {"fused", "rows_of_tiles"} =>
    /\ kernel # NoKernel /\ bound[Len(bound)] = kernel
    /\ TilesChosenForThisCall

\* A packed weight of n rows and k columns: panels of pairs, or blocks.
Fits(t, n, k, dtype) ==
  \/ /\ t.shape[4] = 2 /\ dtype = "bf16" /\ k % 2 = 0 /\ t.shape[3] % Block = 0
     /\ 2 * t.shape[2] = RoundUp(k, Block)
     /\ t.shape[1] * t.shape[3] = RoundUp(n, t.shape[3])
  \/ /\ t.shape[4] = Block
     /\ t.shape[2] * Block = RoundUp(k, Block)
     /\ t.shape[1] * Block = RoundUp(n, Block)

\* The weight and the vectors of a call, with these contents, and as the parameters have them.
Weight(n, k, c) == Build(<<n, k>>, LAMBDA p : <<"b", 1, p[2], p[1], c>>)

VectorOf(kind, v, n, c) ==
  CASE kind = "none" -> NoTensor
    [] kind = "one"  -> Build(<<1>>, LAMBDA p : <<v, 0, c>>)
    [] kind = "full" -> Build(<<n>>, LAMBDA p : <<v, p[1], c>>)

CurrentWeight(r) == Weight(r.n, r.kb, params["weight"].contents)

VectorsOf(r, ps) == [v \in Vectors |-> VectorOf(r[v], v, r.n, ps[v].contents)]

\* The weight of a call that packs it is the current one; a packed one fits the call,
\* and one that is kept fits every call with its key.
Packing ==
  /\ pc # "idle" => request \in program.requests
  /\ pc = "pack" =>
       /\ IsLinear(request) \/ request.fn = "prepacked"
       /\ b = CurrentWeight(request) /\ vectors = VectorsOf(request, params)
  /\ pc = "prepacked" => Fits(b, request.n, request.kb, request.dtype)
  /\ cache # NoCache => Fits(cache.packed, cache.key[3], cache.key[4], cache.key[6])

Inv ==
  /\ program \in Programs /\ BoundByKey /\ Launched /\ Packing /\ RefusalsExplained

PackedFrom(t, w) ==
  t = PackB(w, TRUE) \/ \E panel \in {2 * Block, 4 * Block, 8 * Block} : t = PackPanels(w, panel)

\* A packed weight about to be used, and the vectors with it, are made from what the
\* parameters were at the addresses and versions they have now.
PreparedAsStamped ==
  pc = "prepacked" =>
    /\ \E c \in ContentsOf("weight") : PackedFrom(b, Weight(request.n, request.kb, c))
    /\ vectors = [v \in Vectors |-> vectors[v]]
    /\ \A v \in Vectors :
         \E c \in ContentsOf(v) : vectors[v] = VectorOf(request[v], v, request.n, c)

\* What is kept is made from what the parameters of its key were.
KeptAsStamped ==
  cache # NoCache =>
    LET key == cache.key
    IN  /\ \E c \in ContentsAt("weight", key[1], key[2]) :
             PackedFrom(cache.packed, Weight(key[3], key[4], c))
        /\ DOMAIN key[5] \subseteq Vectors
        /\ cache.vectors = [v \in Vectors |-> cache.vectors[v]]
        /\ \A v \in Vectors \ DOMAIN key[5] : cache.vectors[v] = NoTensor
        /\ \A v \in DOMAIN key[5] :
             \E c \in ContentsAt(v, key[5][v][1], key[5][v][2]) :
               cache.vectors[v] = VectorOf(key[5][v][3], v, key[3], c)

\* No tensor that a parameter was is forgotten.
Remembered ==
  /\ DOMAIN params = Vectors \cup {"weight"} /\ DOMAIN past = Vectors \cup {"weight"}
  /\ \A p \in Vectors \cup {"weight"} : params[p] \in past[p]

StampedInv == Inv /\ Remembered /\ KeptAsStamped /\ PreparedAsStamped

-----------------------------------------------------------------------------
\* A sequence is one of its own elements.
LEMMA OwnElements ==
  ASSUME NEW T, NEW s \in Seq(T)
  PROVE  s \in Seq({s[i] : i \in DOMAIN s})
PROOF
<1>1. Len(s) \in Nat /\ s \in [1..Len(s) -> {s[i] : i \in DOMAIN s}]
  OBVIOUS
<1> QED
  OBVIOUS

\* An element appended.
LEMMA Appended ==
  ASSUME NEW s, s \in Seq({s[i] : i \in DOMAIN s}), NEW x
  PROVE  /\ Append(s, x) \in Seq({s[i] : i \in DOMAIN s} \union {x})
         /\ Append(s, x) \in Seq({Append(s, x)[i] : i \in DOMAIN Append(s, x)})
         /\ Len(Append(s, x)) = Len(s) + 1 /\ Len(s) \in Nat
         /\ DOMAIN s = 1..Len(s) /\ DOMAIN Append(s, x) = 1..Len(s) + 1
         /\ \A i \in 1..Len(s) : Append(s, x)[i] = s[i]
         /\ Append(s, x)[Len(s) + 1] = x
PROOF
<1> DEFINE T == {s[i] : i \in DOMAIN s} \union {x}
<1>1. s \in Seq(T) /\ x \in T /\ Len(s) \in Nat /\ DOMAIN s = 1..Len(s)
  OBVIOUS
<1> HIDE DEF T
<1>2. /\ Append(s, x) \in Seq(T) /\ Len(Append(s, x)) = Len(s) + 1
      /\ \A i \in 1..Len(s) : Append(s, x)[i] = s[i]
      /\ Append(s, x)[Len(s) + 1] = x
  BY <1>1
<1>3. DOMAIN Append(s, x) = 1..Len(s) + 1
  OBVIOUS
<1>4. Append(s, x) \in Seq({Append(s, x)[i] : i \in DOMAIN Append(s, x)})
  BY <1>2
<1> QED
  OBVIOUS

\* Taking out an element moves the ones behind it a place forward.
LEMMA Removed ==
  ASSUME NEW T, NEW s \in Seq(T), NEW i \in 1..Len(s)
  PROVE  /\ RemoveAt(s, i) \in Seq(T) /\ Len(RemoveAt(s, i)) = Len(s) - 1
         /\ \A j \in 1..Len(s) - 1 : RemoveAt(s, i)[j] = IF j < i THEN s[j] ELSE s[j + 1]
PROOF
<1> DEFINE before == SubSeq(s, 1, i - 1)
           behind == SubSeq(s, i + 1, Len(s))
<1>1. /\ before \in Seq(T) /\ Len(before) = i - 1
      /\ \A j \in 1..i - 1 : before[j] = s[j]
  OBVIOUS
<1>2. /\ behind \in Seq(T) /\ Len(behind) = Len(s) - i
      /\ \A j \in 1..Len(s) - i : behind[j] = s[i + j]
  OBVIOUS
<1> HIDE DEF before, behind
<1>3. RemoveAt(s, i) = before \o behind
  BY DEF RemoveAt, before, behind
<1>4. /\ before \o behind \in Seq(T) /\ Len(before \o behind) = Len(s) - 1
      /\ \A j \in 1..Len(s) - 1 :
           (before \o behind)[j] = IF j < i THEN before[j] ELSE behind[j - i + 1]
  <2>1. /\ before \o behind \in Seq(T) /\ Len(before \o behind) = Len(before) + Len(behind)
        /\ \A j \in 1..Len(before) + Len(behind) : (before \o behind)[j] =
             IF j <= Len(before) THEN before[j] ELSE behind[j - Len(before)]
    BY <1>1, <1>2, ConcatProperties
  <2>2. \A j \in 1..Len(s) - 1 : /\ j \in 1..Len(before) + Len(behind)
                                /\ (j <= Len(before) <=> j < i)
                                /\ j - Len(before) = j - i + 1
    BY <1>1, <1>2
  <2>3. Len(before) + Len(behind) = Len(s) - 1
    BY <1>1, <1>2
  <2> QED
    BY <2>1, <2>2, <2>3
<1>5. ASSUME NEW j \in 1..Len(s) - 1
      PROVE  (before \o behind)[j] = IF j < i THEN s[j] ELSE s[j + 1]
  <2>1. CASE j < i
    BY <1>1, <2>1
  <2>2. CASE ~(j < i)
    <3>1. j - i + 1 \in 1..Len(s) - i /\ i + (j - i + 1) = j + 1
      BY <2>2
    <3> QED
      BY <1>2, <1>4, <3>1
  <2> QED
    BY <2>1, <2>2
<1> QED
  BY <1>3, <1>4, <1>5

\* The kernel a key binds, new or cached, has its tiles and is the last one kept.
LEMMA BindKeeps ==
  ASSUME BoundByKey, NEW key, NEW next, Bind(key, PlanOf(key), next)
  PROVE  /\ BoundByKey' /\ kernel'.key = key /\ kernel'.plan = PlanOf(key)
         /\ bound'[Len(bound')] = kernel' /\ pc' = next
         /\ UNCHANGED <<program, world, cache, request, a, b, vectors, part, out, outcome, calls>>
PROOF
<1> DEFINE new == [key |-> key, plan |-> PlanOf(key), epilogue |-> request.epilogue,
                   biasType |-> request.biasType, has |-> Present]
           hits == {i \in DOMAIN bound : bound[i].key = key}
           hit == CHOOSE i \in hits : TRUE
           longer == Append(bound, new)
           rest == RemoveAt(bound, hit)
<1>1. /\ hits # {} => kernel' = bound[hit] /\ bound' = Append(rest, bound[hit])
      /\ hits = {} => /\ kernel' = new
                      /\ bound' = IF Len(longer) > BoundSize THEN Tail(longer) ELSE longer
      /\ pc' = next
      /\ UNCHANGED <<program, world, cache, request, a, b, vectors, part, out, outcome, calls>>
  BY DEF Bind
<1>2. /\ bound \in Seq({bound[i] : i \in DOMAIN bound}) /\ Len(bound) <= BoundSize
      /\ Len(bound) \in Nat /\ DOMAIN bound = 1..Len(bound)
      /\ \A i \in DOMAIN bound : bound[i].plan = PlanOf(bound[i].key)
      /\ BoundSize \in Nat \ {0}
  BY CpuAssumption DEF BoundByKey
<1>3. new.key = key /\ new.plan = PlanOf(key)
  OBVIOUS
<1>4. CASE hits # {}
  <2>1. hit \in 1..Len(bound) /\ bound[hit].key = key
    <3>1. hit \in hits
      BY <1>4
    <3> QED
      BY <3>1
  <2>2. /\ rest \in Seq({bound[i] : i \in DOMAIN bound}) /\ Len(rest) = Len(bound) - 1
        /\ \A j \in 1..Len(bound) - 1 : rest[j] = IF j < hit THEN bound[j] ELSE bound[j + 1]
    BY <1>2, <2>1, Removed
  <2> HIDE DEF rest, hit
  <2>3. kernel' = bound[hit] /\ bound' = Append(rest, bound[hit])
    BY <1>1, <1>4
  <2>4. /\ Append(rest, bound[hit]) \in Seq({bound[i] : i \in DOMAIN bound})
        /\ Len(Append(rest, bound[hit])) = Len(rest) + 1
        /\ \A j \in 1..Len(rest) : Append(rest, bound[hit])[j] = rest[j]
        /\ Append(rest, bound[hit])[Len(rest) + 1] = bound[hit]
    <3>1. bound[hit] \in {bound[i] : i \in DOMAIN bound}
      BY <2>1
    <3> QED
      BY <2>2, <3>1
  <2>5. /\ bound' \in Seq({bound[i] : i \in DOMAIN bound}) /\ Len(bound') = Len(bound)
        /\ bound'[Len(bound)] = bound[hit]
    <3>1. Len(rest) + 1 = Len(bound)
      BY <2>2
    <3> QED
      BY <2>3, <2>4, <3>1
  <2>6. bound' \in Seq({bound'[i] : i \in DOMAIN bound'})
    BY <2>5
  <2>7. ASSUME NEW i \in DOMAIN bound' PROVE bound'[i].plan = PlanOf(bound'[i].key)
    <3>1. bound'[i] \in {bound[j] : j \in DOMAIN bound}
      BY <2>5
    <3> QED
      BY <1>2, <3>1
  <2>8. kernel'.key = key /\ kernel'.plan = PlanOf(key)
    BY <1>2, <2>1, <2>3
  <2> QED
    BY <1>1, <2>3, <2>5, <2>6, <2>7, <2>8 DEF BoundByKey
<1>5. CASE hits = {}
  <2>1. /\ longer \in Seq({longer[i] : i \in DOMAIN longer}) /\ Len(longer) = Len(bound) + 1
        /\ DOMAIN longer = 1..Len(bound) + 1
        /\ \A i \in 1..Len(bound) : longer[i] = bound[i]
        /\ longer[Len(bound) + 1] = new
    BY <1>2
  <2>2. \A i \in DOMAIN longer : longer[i].plan = PlanOf(longer[i].key)
    <3> SUFFICES ASSUME NEW i \in 1..Len(bound) + 1
                 PROVE  longer[i].plan = PlanOf(longer[i].key)
      OBVIOUS
    <3>1. i \in 1..Len(bound) \/ i = Len(bound) + 1
      OBVIOUS
    <3> HIDE DEF new, longer
    <3> QED
      BY <1>2, <1>3, <2>1, <3>1
  <2> HIDE DEF new, longer
  <2>3. kernel' = new /\ bound' = IF Len(longer) > BoundSize THEN Tail(longer) ELSE longer
    BY <1>1, <1>5
  <2>4. CASE Len(longer) > BoundSize
    <3>0. Len(longer) > 0 /\ Len(bound) = BoundSize /\ Len(longer) - 1 = Len(bound)
      <4>1. /\ Len(bound) <= BoundSize /\ Len(bound) \in Nat /\ BoundSize \in Nat
            /\ Len(longer) = Len(bound) + 1 /\ Len(longer) > BoundSize
        BY <1>2, <2>1, <2>4
      <4> QED
        BY <4>1
    <3>1. longer # <<>>
      BY <3>0
    <3>2. /\ Tail(longer) \in Seq({longer[i] : i \in DOMAIN longer})
          /\ Len(Tail(longer)) = Len(longer) - 1
          /\ \A i \in 1..Len(Tail(longer)) : Tail(longer)[i] = longer[i + 1]
      BY <2>1
    <3>3. bound' = Tail(longer) /\ Len(bound') = Len(bound)
      BY <2>3, <2>4, <3>0
    <3>4. bound' \in Seq({bound'[i] : i \in DOMAIN bound'})
      <4>1. PICK T : T = {longer[i] : i \in DOMAIN longer}
        OBVIOUS
      <4>2. bound' \in Seq(T)
        BY <3>2, <3>3, <4>1
      <4> QED
        BY <4>2
    <3>5. bound'[Len(bound')] = new
      <4>1. Len(bound) \in 1..Len(bound)
        BY <1>2, <3>0
      <4>2. Tail(longer)[Len(bound)] = longer[Len(bound) + 1]
        BY <3>0, <4>1
      <4> QED
        BY <2>1, <3>3, <4>2
    <3>6. ASSUME NEW i \in DOMAIN bound' PROVE bound'[i].plan = PlanOf(bound'[i].key)
      <4>1. bound'[i] \in {longer[j] : j \in DOMAIN longer}
        BY <3>3
      <4> QED
        BY <2>2, <4>1
    <3> QED
      BY <1>1, <1>3, <2>3, <3>3, <3>4, <3>5, <3>6 DEF BoundByKey
  <2>5. CASE ~(Len(longer) > BoundSize)
    <3>1. bound' = longer /\ longer[Len(longer)] = new
      BY <2>1, <2>3, <2>5
    <3>2. Len(longer) <= BoundSize
      <4>1. Len(bound) \in Nat /\ Len(longer) = Len(bound) + 1 /\ BoundSize \in Nat
        BY <1>2, <2>1
      <4> QED
        BY <2>5, <4>1
    <3>3. BoundByKey'
      <4>1. bound' \in Seq({bound'[i] : i \in DOMAIN bound'})
        BY <2>1, <3>1
      <4>2. \A i \in DOMAIN bound' : bound'[i].plan = PlanOf(bound'[i].key)
        BY <2>2, <3>1
      <4>3. Len(bound') <= BoundSize
        BY <3>1, <3>2
      <4> QED
        BY <4>1, <4>2, <4>3 DEF BoundByKey
    <3>4. bound'[Len(bound')] = kernel'
      BY <2>3, <3>1
    <3> QED
      BY <1>1, <1>3, <2>3, <3>3, <3>4
  <2> QED
    BY <2>4, <2>5
<1> QED
  BY <1>4, <1>5

-----------------------------------------------------------------------------
\* A whole number of blocks holds a size, and half of them are pairs.
LEMMA RoundedUp ==
  ASSUME NEW x \in Nat, NEW s \in Nat \ {0}
  PROVE  /\ RoundUp(x, s) \in Nat
         /\ (RoundUp(x, s) \div s) * s = RoundUp(x, s)
         /\ s % 2 = 0 => 2 * (RoundUp(x, s) \div 2) = RoundUp(x, s)
PROOF
<1> DEFINE q == (x + s - 1) \div s
<1>1. q \in Nat
  OBVIOUS
<1> HIDE DEF q
<1>2. RoundUp(x, s) = q * s /\ q * s \in Nat
  BY DEF RoundUp, CeilDiv, q
<1>3. (q * s) \div s = q
  BY <1>1
<1>4. ASSUME s % 2 = 0 PROVE 2 * ((q * s) \div 2) = q * s
  <2>1. PICK h \in Nat : s = 2 * h
    <3>1. s = 2 * (s \div 2) /\ s \div 2 \in Nat
      BY <1>4
    <3> QED
      BY <3>1
  <2>2. q * s = 2 * (q * h) /\ q * h \in Nat
    BY <1>1, <2>1
  <2>3. \A y \in Nat : (2 * y) \div 2 = y
    OBVIOUS
  <2> QED
    BY <2>2
<1> QED
  BY <1>2, <1>3

\* A panel is two, four or eight blocks wide.
LEMMA PanelWidth ==
  ASSUME NEW m, NEW n, NEW th
  PROVE  VnniPanel(m, n, th) \in {2 * Block, 4 * Block, 8 * Block}
PROOF
<1> DEFINE rowTiles == Most(1, m \div MinSharedRows)
           wide == {p \in {8 * Block, 4 * Block} : CeilDiv(n, p) * rowTiles >= th}
<1>1. VnniPanel(m, n, th) = IF wide = {} THEN 2 * Block ELSE Max(wide)
  BY DEF VnniPanel
<1>2. wide # {} => Max(wide) \in wide
  <2> HIDE DEF wide
  <2> SUFFICES ASSUME wide # {} PROVE Max(wide) \in wide
    OBVIOUS
  <2>1. wide \subseteq {8 * Block, 4 * Block} /\ Block \in Nat
    BY BlockAssumption DEF wide
  <2>2. \E x \in wide : \A y \in wide : x >= y
    <3>1. 8 * Block >= 4 * Block /\ 8 * Block >= 8 * Block /\ 4 * Block >= 4 * Block
      BY <2>1
    <3>2. CASE 8 * Block \in wide
      <4>1. ASSUME NEW y \in wide PROVE 8 * Block >= y
        <5>1. y = 8 * Block \/ y = 4 * Block
          BY <2>1
        <5> QED
          BY <3>1, <5>1
      <4> QED
        BY <3>2, <4>1
    <3>3. CASE 8 * Block \notin wide
      <4>1. \A y \in wide : y = 4 * Block
        BY <2>1, <3>3
      <4>2. 4 * Block \in wide
        BY <4>1
      <4> QED
        BY <3>1, <4>1
    <3> QED
      BY <3>2, <3>3
  <2> QED
    BY <2>2 DEF Max
<1> QED
  BY <1>1, <1>2

\* A weight packed into panels, or into blocks, fits.
LEMMA PanelsFit ==
  ASSUME NEW t, NEW n \in Nat \ {0}, NEW k \in Nat \ {0}, t.shape = <<n, k>>, k % 2 = 0,
         NEW m, NEW th
  PROVE  Fits(PackPanels(t, VnniPanel(m, n, th)), n, k, "bf16")
PROOF
<1>1. PICK panel : panel = VnniPanel(m, n, th)
  OBVIOUS
<1>2. panel \in Nat \ {0} /\ panel % Block = 0 /\ Block \in Nat \ {0} /\ Block % 2 = 0
  BY <1>1, PanelWidth, BlockAssumption
<1> DEFINE width == RoundUp(n, panel)
           depth == RoundUp(k, Block)
<1>3. PackPanels(t, panel).shape = <<width \div panel, depth \div 2, panel, 2>>
  BY DEF PackPanels, Build
<1>4. (width \div panel) * panel = width /\ 2 * (depth \div 2) = depth
  BY <1>2, RoundedUp
<1> HIDE DEF width, depth
<1> QED
  BY <1>1, <1>2, <1>3, <1>4 DEF Fits, width, depth

LEMMA BlocksFit ==
  ASSUME NEW t, NEW n \in Nat \ {0}, NEW k \in Nat \ {0}, t.shape = <<n, k>>, NEW dtype
  PROVE  Fits(PackB(t, TRUE), n, k, dtype)
PROOF
<1>1. PICK blocks : blocks = PackBlocks(t, TRUE)
  OBVIOUS
<1>2. blocks.shape = <<CeilDiv(k, Block), CeilDiv(n, Block), Block, Block>>
  BY <1>1 DEF PackBlocks, Build
<1>3. PackB(t, TRUE).shape = [d \in DOMAIN <<2, 1, 3, 4>> |-> blocks.shape[<<2, 1, 3, 4>>[d]]]
  BY <1>1 DEF PackB, Permute, Build
<1>4. DOMAIN <<2, 1, 3, 4>> = 1..4 /\ 1 \in 1..4 /\ 2 \in 1..4 /\ 4 \in 1..4
  OBVIOUS
<1>5. PackB(t, TRUE).shape = [d \in 1..4 |-> blocks.shape[<<2, 1, 3, 4>>[d]]]
  BY <1>3, <1>4
<1>6. PackB(t, TRUE).shape[1] = CeilDiv(n, Block)
  <2>1. PackB(t, TRUE).shape[1] = blocks.shape[<<2, 1, 3, 4>>[1]]
    BY <1>4, <1>5
  <2>2. <<2, 1, 3, 4>>[1] = 2
    OBVIOUS
  <2>3. blocks.shape[2] = CeilDiv(n, Block)
    BY <1>2
  <2> QED
    BY <2>1, <2>3
<1>7. PackB(t, TRUE).shape[2] = CeilDiv(k, Block)
  <2>1. PackB(t, TRUE).shape[2] = blocks.shape[<<2, 1, 3, 4>>[2]]
    BY <1>4, <1>5
  <2>2. <<2, 1, 3, 4>>[2] = 1
    OBVIOUS
  <2>3. blocks.shape[1] = CeilDiv(k, Block)
    BY <1>2
  <2> QED
    BY <2>1, <2>3
<1>8. PackB(t, TRUE).shape[4] = Block
  <2>1. PackB(t, TRUE).shape[4] = blocks.shape[<<2, 1, 3, 4>>[4]]
    BY <1>4, <1>5
  <2>2. <<2, 1, 3, 4>>[4] = 4
    OBVIOUS
  <2>3. blocks.shape[4] = Block
    BY <1>2
  <2> QED
    BY <2>1, <2>3
<1> QED
  BY <1>6, <1>7, <1>8 DEF Fits, RoundUp
-----------------------------------------------------------------------------
\* A step that binds nothing and packs nothing.
LEMMA Elsewhere ==
  ASSUME Inv, pc # "idle", UNCHANGED <<program, request, cache, bound>>,
         pc' \notin {"pack", "prepacked", "fused", "rows_of_tiles"}, RefusalsExplained'
  PROVE  Inv'
PROOF
<1>1. BoundByKey'
  BY DEF Inv, BoundByKey
<1>2. Launched'
  BY DEF Launched
<1>3. Packing'
  BY DEF Inv, Packing
<1> QED
  BY <1>1, <1>2, <1>3 DEF Inv

LEMMA InitInv == Init => Inv
PROOF
<1> SUFFICES ASSUME Init PROVE Inv
  OBVIOUS
<1>1. bound = <<>> /\ pc = "idle" /\ program \in Programs /\ cache = NoCache
  BY DEF Init
<1>2. BoundByKey
  <2>1. bound \in Seq({bound[i] : i \in DOMAIN bound}) /\ Len(bound) = 0 /\ DOMAIN bound = {}
    BY <1>1
  <2>2. Len(bound) <= BoundSize
    <3>1. BoundSize \in Nat
      BY CpuAssumption
    <3> QED
      BY <2>1, <3>1
  <2> QED
    BY <2>1, <2>2 DEF BoundByKey
<1>3. Launched /\ Packing /\ RefusalsExplained
  BY <1>1 DEF Launched, Packing, RefusalsExplained
<1> QED
  BY <1>1, <1>2, <1>3 DEF Inv

\* What the key of a kernel says.
LEMMA FusedPlanOf ==
  ASSUME NEW m, NEW n, NEW k
  PROVE  /\ PlanOf(FusedKey(m, n, k)) = FusedPlan(m, n, k, request.transA, request.tiles, threads)
         /\ FusedKey(m, n, k) # <<>>
PROOF
<1>1. /\ FusedKey(m, n, k)[1] = "fused" /\ FusedKey(m, n, k)[2] = m
      /\ FusedKey(m, n, k)[3] = n /\ FusedKey(m, n, k)[4] = k
      /\ FusedKey(m, n, k)[5] = request.transA /\ FusedKey(m, n, k)[9] = request.tiles
      /\ FusedKey(m, n, k)[10] = threads
  BY DEF FusedKey
<1>2. FusedKey(m, n, k) # <<>>
  BY DEF FusedKey
<1> QED
  BY <1>1, <1>2 DEF PlanOf

LEMMA FusedBound ==
  ASSUME Inv, BindFused
  PROVE  Inv'
PROOF
<1>1. PICK m, n, k : /\ m = IF request.transA THEN a.shape[2] ELSE a.shape[1]
                     /\ n = IF request.transB THEN b.shape[1] ELSE b.shape[2]
                     /\ k = IF request.transA THEN a.shape[1] ELSE a.shape[2]
  OBVIOUS
<1>2. PICK key : key = FusedKey(m, n, k)
  OBVIOUS
<1>3. pc = "bind" /\ Bind(key, PlanOf(key), "fused")
  BY <1>1, <1>2, FusedPlanOf DEF BindFused
<1>4. /\ BoundByKey' /\ kernel'.key = key /\ kernel'.plan = PlanOf(key)
      /\ bound'[Len(bound')] = kernel' /\ pc' = "fused"
      /\ UNCHANGED <<program, world, cache, request, a, b, vectors, part, out, outcome, calls>>
  BY <1>3, BindKeeps DEF Inv
<1>5. kernel'.plan = FusedPlan(m, n, k, request.transA, request.tiles, threads) /\ key # <<>>
  BY <1>2, <1>4, FusedPlanOf
<1>6. kernel' # NoKernel
  <2>1. NoKernel.key = <<>>
    BY DEF NoKernel
  <2> QED
    BY <1>4, <1>5, <2>1
<1>7. TilesChosenForThisCall'
  BY <1>1, <1>4, <1>5 DEF TilesChosenForThisCall, world
<1>8. Packing' /\ RefusalsExplained'
  BY <1>3, <1>4 DEF Inv, Packing, RefusalsExplained
<1> QED
  BY <1>4, <1>6, <1>7, <1>8 DEF Inv, Launched

LEMMA RowsBound ==
  ASSUME Inv, BindRows
  PROVE  Inv'
PROOF
<1> DEFINE key == <<"prepacked", part.rows, b.shape[1] * b.shape[3], b.shape[3], request.k \div 2,
                    part.tile, ~(part.from = 0 /\ part.rows = request.m), Present, threads,
                    request.epilogue>>
<1>1. /\ key[1] # "fused" /\ key[4] = b.shape[3] /\ key[5] = request.k \div 2
      /\ key[6] = part.tile /\ key # <<>>
  OBVIOUS
<1>2. pc = "bind_rows" /\ Bind(key, PrepackedPlan(part.tile, request.k \div 2, b.shape[3]),
                               "rows_of_tiles")
  BY DEF BindRows
<1> HIDE DEF key
<1>3. PlanOf(key) = PrepackedPlan(part.tile, request.k \div 2, b.shape[3])
  BY <1>1 DEF PlanOf
<1>4. /\ BoundByKey' /\ kernel'.key = key /\ kernel'.plan = PlanOf(key)
      /\ bound'[Len(bound')] = kernel' /\ pc' = "rows_of_tiles"
      /\ UNCHANGED <<program, world, cache, request, a, b, vectors, part, out, outcome, calls>>
  <2>1. Bind(key, PlanOf(key), "rows_of_tiles")
    BY <1>2, <1>3
  <2>2. PICK stamp : stamp = key
    OBVIOUS
  <2> QED
    BY <2>1, BindKeeps DEF Inv
<1>5. kernel' # NoKernel
  <2>1. NoKernel.key = <<>>
    BY DEF NoKernel
  <2> QED
    BY <1>1, <1>4, <2>1
<1>6. TilesChosenForThisCall'
  BY <1>3, <1>4 DEF TilesChosenForThisCall
<1>7. Packing' /\ RefusalsExplained'
  BY <1>2, <1>4 DEF Inv, Packing, RefusalsExplained
<1> QED
  BY <1>4, <1>5, <1>6, <1>7 DEF Inv, Launched

\* A finished item is followed by the next, or by the result.
LEMMA ItemFinished ==
  ASSUME NEW result, FinishItem(result)
  PROVE  pc' = "matmul" \/ (pc' = "done" /\ outcome' = "result")
BY DEF FinishItem, Return

\* A refused bias is of another type than the kernel's.
LEMMA BiasRefused ==
  ASSUME Inv, pc \in {"fused", "rows_of_tiles"}, ~Accepts, UNCHANGED <<request, kernel>>
  PROVE  RefusalsExplained'
PROOF
<1>1. kernel # NoKernel /\ kernel.biasType # request.biasType
  BY DEF Inv, Launched, Accepts
<1>2. kernel' # NoKernel' /\ kernel'.biasType # request'.biasType
  BY <1>1
<1> QED
  BY <1>2 DEF RefusalsExplained

\* A packed weight that fits its call is accepted.
LEMMA FittingAccepted ==
  ASSUME Fits(b, request.n, request.kb, request.dtype), Supports(request)
  PROVE  Compatible
PROOF
<1>1. request.k = request.kb
  BY DEF Supports
<1>2. Block # 2
  BY BlockAssumption
<1> QED
  BY <1>1, <1>2 DEF Fits, Compatible, InPanels

\* The operands of a call that takes its weight as [N, K].
LEMMA Operands ==
  ASSUME NEW r, r.transB = TRUE
  PROVE  /\ OperandB(r, 1) = CurrentWeight(r)
         /\ [v \in Vectors |-> Vector(r, v)] = VectorsOf(r, params)
PROOF
<1>1. OperandB(r, 1) = CurrentWeight(r)
  BY DEF OperandB, Matrix, CurrentWeight, Weight
<1>2. ASSUME NEW v \in Vectors
      PROVE  Vector(r, v) = VectorOf(r[v], v, r.n, params[v].contents)
  BY DEF Vector, VectorOf
<1> QED
  BY <1>1, <1>2 DEF VectorsOf

LEMMA CallKept ==
  ASSUME Inv, NEW r \in program.requests, Call(r)
  PROVE  Inv'
PROOF
<1>1. /\ pc = "idle" /\ request' = r /\ UNCHANGED <<program, world, bound>>
      /\ pc' \in {"rows", "matmul", "prepacked", "pack"} /\ cache' \in {cache, NoCache}
      /\ pc' = "pack" => /\ IsLinear(r) \/ r.fn = "prepacked"
                         /\ b' = OperandB(r, 1) /\ vectors' = [v \in Vectors |-> Vector(r, v)]
      /\ pc' = "prepacked" => Cached(r) /\ b' = cache.packed /\ vectors' = cache.vectors
  BY DEF Call, SetCall
<1>2. BoundByKey'
  BY <1>1 DEF Inv, BoundByKey
<1>3. Launched' /\ RefusalsExplained'
  BY <1>1 DEF Launched, RefusalsExplained
<1>4. cache # NoCache => Fits(cache.packed, cache.key[3], cache.key[4], cache.key[6])
  BY DEF Inv, Packing
<1>5. pc' = "prepacked" => Fits(b', r.n, r.kb, r.dtype)
  <2> SUFFICES ASSUME pc' = "prepacked" PROVE Fits(b', r.n, r.kb, r.dtype)
    OBVIOUS
  <2>1. cache # NoCache /\ cache.key = CacheKey(r)
    BY <1>1 DEF Cached
  <2>2. cache.key[3] = r.n /\ cache.key[4] = r.kb /\ cache.key[6] = r.dtype
    BY <2>1 DEF CacheKey
  <2> QED
    BY <1>1, <1>4, <2>1, <2>2
<1>6. cache' # NoCache => Fits(cache'.packed, cache'.key[3], cache'.key[4], cache'.key[6])
  <2>1. cache' = NoCache \/ cache' = cache
    BY <1>1
  <2> QED
    BY <1>4, <2>1
<1>7. pc' = "pack" => b' = CurrentWeight(request)' /\ vectors' = VectorsOf(request', params')
  <2> SUFFICES ASSUME pc' = "pack"
               PROVE  b' = CurrentWeight(request)' /\ vectors' = VectorsOf(request', params')
    OBVIOUS
  <2>1. r.transB = TRUE
    <3>1. program \in Programs /\ (IsLinear(r) \/ r.fn = "prepacked")
      BY <1>1 DEF Inv
    <3> QED
      BY <3>1, CpuAssumption
  <2>2. b' = CurrentWeight(r) /\ vectors' = VectorsOf(r, params)
    BY <1>1, <2>1, Operands
  <2>3. params' = params
    BY <1>1 DEF world
  <2> QED
    BY <1>1, <2>2, <2>3 DEF CurrentWeight
<1>8. Packing'
  BY <1>1, <1>5, <1>6, <1>7 DEF Packing
<1> QED
  BY <1>1, <1>2, <1>3, <1>8 DEF Inv

\* A weight that is packed fits its call, and later calls with the same key.
LEMMA WeightPacked ==
  ASSUME Inv, PackWeight
  PROVE  /\ Inv' /\ pc' = "prepacked"
         /\ UNCHANGED <<program, world, request, vectors>>
         /\ PackedFrom(b', CurrentWeight(request))
         /\ cache' # NoCache => \/ cache' = cache
                                \/ cache' = [key |-> CacheKey(request), packed |-> b',
                                             vectors |-> vectors]
PROOF
<1> DEFINE panel == VnniPanel(request.m, request.n, threads)
           vnni == request.dtype = "bf16" /\ request.kb % 2 = 0
<1>1. /\ pc = "pack" /\ pc' = "prepacked" /\ UNCHANGED <<program, world, bound, request, vectors>>
      /\ outcome' = outcome
      /\ b' = IF vnni THEN PackPanels(b, panel) ELSE PackB(b, TRUE)
      /\ \/ cache' = cache
         \/ cache' = NoCache
         \/ cache' = [key |-> CacheKey(request), packed |-> b', vectors |-> vectors]
  BY DEF PackWeight
<1>2. /\ program \in Programs /\ request \in program.requests
      /\ b = CurrentWeight(request)
  BY <1>1 DEF Inv, Packing
<1>3. request.n \in Nat \ {0} /\ request.kb \in Nat \ {0}
  BY <1>2, CpuAssumption
<1>4. b.shape = <<request.n, request.kb>>
  BY <1>2 DEF CurrentWeight, Weight, Build
<1> HIDE DEF panel
<1>5. Fits(b', request.n, request.kb, request.dtype)
  <2>1. CASE vnni
    BY <1>1, <1>3, <1>4, <2>1, PanelsFit DEF panel
  <2>2. CASE ~vnni
    BY <1>1, <1>3, <1>4, <2>2, BlocksFit
  <2> QED
    BY <2>1, <2>2
<1>6. PackedFrom(b', CurrentWeight(request))
  BY <1>1, <1>2, PanelWidth DEF PackedFrom, panel
<1>7. /\ CacheKey(request)[3] = request.n /\ CacheKey(request)[4] = request.kb
      /\ CacheKey(request)[6] = request.dtype
  BY DEF CacheKey
<1>8. cache' # NoCache => Fits(cache'.packed, cache'.key[3], cache'.key[4], cache'.key[6])
  <2>1. CASE cache' = cache
    BY <2>1 DEF Inv, Packing
  <2>2. CASE cache' = [key |-> CacheKey(request), packed |-> b', vectors |-> vectors]
    <3>1. cache'.key = CacheKey(request) /\ cache'.packed = b'
      BY <2>2
    <3> QED
      BY <1>5, <1>7, <3>1
  <2> QED
    BY <1>1, <2>1, <2>2
<1>9. Packing'
  BY <1>1, <1>2, <1>5, <1>8 DEF Packing
<1>10. BoundByKey' /\ Launched' /\ RefusalsExplained'
  BY <1>1 DEF Inv, BoundByKey, Launched, RefusalsExplained
<1> QED
  BY <1>1, <1>6, <1>9, <1>10 DEF Inv

LEMMA StepInv == Inv /\ [Next]_vars => Inv'
PROOF
<1> SUFFICES ASSUME Inv, [Next]_vars PROVE Inv'
  OBVIOUS
<1>1. ASSUME Meanwhile PROVE Inv'
  <2>1. pc = "idle" /\ UNCHANGED <<program, bound, cache, pc, call, calls>>
    BY <1>1 DEF Meanwhile
  <2> QED
    BY <2>1 DEF Inv, BoundByKey, Launched, Packing, RefusalsExplained
<1>2. ASSUME NEW r \in program.requests, Call(r) PROVE Inv'
  BY <1>2, CallKept
<1>3. CASE PackWeight
  BY <1>3, WeightPacked
<1>4. CASE Matmul
  <2>1. /\ pc = "matmul" /\ UNCHANGED <<program, request, cache, bound>>
        /\ pc' \in {"done", "blocks", "bind"} /\ (pc' = "done" => ~Supports(request))
    BY <1>4 DEF Matmul, Raise
  <2>2. RefusalsExplained'
    BY <2>1 DEF RefusalsExplained
  <2> QED
    BY <2>1, <2>2, Elsewhere
<1>5. CASE BindFused
  BY <1>5, FusedBound
<1>6. CASE LaunchFused
  <2>1. /\ pc = "fused" /\ UNCHANGED <<program, request, kernel, cache, bound>>
        /\ \/ ~Accepts /\ pc' = "done"
           \/ FinishItem(FusedPack(a, b, Traced, kernel, request.transA, request.transB))
    BY <1>6 DEF LaunchFused, Raise
  <2>2. CASE ~Accepts /\ pc' = "done"
    BY <2>1, <2>2, BiasRefused, Elsewhere
  <2>3. CASE FinishItem(FusedPack(a, b, Traced, kernel, request.transA, request.transB))
    <3>1. pc' = "matmul" \/ (pc' = "done" /\ outcome' = "result")
      BY <2>3, ItemFinished
    <3> QED
      BY <2>1, <3>1, Elsewhere DEF RefusalsExplained
  <2> QED
    BY <2>1, <2>2, <2>3
<1>7. CASE LaunchBlocked
  <2>1. /\ pc = "blocks" /\ UNCHANGED <<program, request, cache, bound>>
        /\ \E result : FinishItem(result)
    BY <1>7 DEF LaunchBlocked
  <2>2. pc' = "matmul" \/ (pc' = "done" /\ outcome' = "result")
    BY <2>1, ItemFinished
  <2> QED
    BY <2>1, <2>2, Elsewhere DEF RefusalsExplained
<1>8. CASE Prepacked
  <2>1. /\ pc = "prepacked" /\ UNCHANGED <<program, request, cache, bound>>
        /\ \/ ~Compatible /\ pc' = "done"
           \/ pc' \in {"bind_rows", "blocks"}
    BY <1>8 DEF Prepacked, PlanRows, Raise
  <2>2. pc' = "done" => ~Supports(request)
    <3>1. Fits(b, request.n, request.kb, request.dtype)
      BY <2>1 DEF Inv, Packing
    <3> QED
      BY <2>1, <3>1, FittingAccepted
  <2>3. RefusalsExplained'
    BY <2>1, <2>2 DEF RefusalsExplained
  <2> QED
    BY <2>1, <2>3, Elsewhere
<1>9. CASE BindRows
  BY <1>9, RowsBound
<1>10. CASE LaunchRows
  <2>1. /\ pc = "rows_of_tiles" /\ UNCHANGED <<program, request, kernel, cache, bound>>
        /\ \/ ~Accepts /\ pc' = "done"
           \/ pc' = "bind_rows"
           \/ pc' = "done" /\ outcome' = "result"
    BY <1>10 DEF LaunchRows, Raise, Return
  <2>2. CASE ~Accepts /\ pc' = "done"
    BY <2>1, <2>2, BiasRefused, Elsewhere
  <2>3. CASE pc' = "bind_rows" \/ (pc' = "done" /\ outcome' = "result")
    BY <2>1, <2>3, Elsewhere DEF RefusalsExplained
  <2> QED
    BY <2>1, <2>2, <2>3
<1>11. CASE LaunchRowWise
  <2>1. /\ pc = "rows" /\ UNCHANGED <<program, request, cache, bound>> /\ pc' = "done"
        /\ \/ outcome' = "result"
           \/ request.fn = "group_norm" /\ request.k % request.n # 0
    BY <1>11 DEF LaunchRowWise, Raise, Return
  <2> QED
    BY <2>1, Elsewhere DEF RefusalsExplained
<1>12. CASE Leave
  <2>1. pc = "done" /\ pc' = "idle" /\ UNCHANGED <<program, bound, cache, request>>
    BY <1>12 DEF Leave, call
  <2> QED
    BY <2>1, Elsewhere DEF RefusalsExplained
<1>13. CASE UNCHANGED vars
  <2>1. UNCHANGED <<program, params, bound, cache, pc, request, b, vectors, kernel, outcome>>
    BY <1>13 DEF vars, world, call
  <2>2. BoundByKey'
    BY <2>1 DEF Inv, BoundByKey
  <2>3. Launched'
    <3>1. UNCHANGED <<bound, pc, request, kernel, a, b, part, threads>>
      BY <1>13 DEF vars, world, call
    <3> QED
      BY <3>1 DEF Inv, Launched, TilesChosenForThisCall
  <2>4. Packing'
    BY <2>1 DEF Inv, Packing, CurrentWeight, VectorsOf
  <2>5. RefusalsExplained'
    BY <2>1 DEF Inv, RefusalsExplained, Supports
  <2> QED
    BY <2>1, <2>2, <2>3, <2>4, <2>5 DEF Inv
<1> QED
  BY <1>1, <1>2, <1>3, <1>4, <1>5, <1>6, <1>7, <1>8, <1>9, <1>10, <1>11, <1>12, <1>13
      DEF Next, Step

LEMMA SpecInv == Spec => []Inv
PROOF
<1>1. Init => Inv
  BY InitInv
<1>2. Inv /\ [Next]_vars => Inv'
  BY StepInv
<1> QED
  BY <1>1, <1>2, PTL DEF Spec

\* A supported call is only refused for the type of its bias: a packed weight, kept or
\* new, always fits (_prepacked_b_kernel's checks, linear.py's cache).
THEOREM RefusalsAlwaysExplained == Spec => []RefusalsExplained
PROOF
<1>1. Inv => RefusalsExplained
  BY DEF Inv
<1> QED
  BY <1>1, SpecInv, PTL

-----------------------------------------------------------------------------
(***************************************************************************)
(* Loops that narrow or widen a number.  A function with such a body exists, *)
(* and ends where its loop does, whatever the numbers: no induction over the *)
(* function is needed, only over the measure that each round lowers.       *)
(***************************************************************************)
\* A set of numbers that is not empty has a least one.
LEMMA LeastNumber ==
  ASSUME NEW S \in SUBSET Nat, S # {}
  PROVE  \E x \in S : \A y \in S : x <= y
PROOF
<1>1. PICK x \in S : \A y \in S : <<y, x>> \notin OpToRel(<, Nat)
  BY NatLessThanWellFounded, WFMin, Zenon
<1>2. \A y \in S : ~(y < x)
  BY <1>1, Zenon DEF OpToRel
<1> QED
  BY <1>2

(***************************************************************************)
(* A while loop over a number, written as a recursive function: the number *)
(* it ends with.                                                           *)
(***************************************************************************)
IsLoop(f, go, next) == f = [t \in Nat |-> IF go[t] THEN f[next[t]] ELSE t]

\* There is such a function: the end of a number is that of the number after it.
LEMMA LoopsExist ==
  ASSUME NEW go, NEW next \in [Nat -> Nat]
  PROVE  \E f : IsLoop(f, go, next)
PROOF
<1> DEFINE Closed(C) == \A s \in C : go[s] => next[s] \in C
           Ends(t) == {u \in Nat : ~go[u] /\ \A C \in SUBSET Nat : t \in C /\ Closed(C) => u \in C}
<1>1. ASSUME NEW t \in Nat, ~go[t] PROVE Ends(t) = {t}
  <2>1. t \in Ends(t)
    BY <1>1
  <2>2. ASSUME NEW u \in Ends(t) PROVE u = t
    <3>1. {t} \in SUBSET Nat /\ t \in {t} /\ Closed({t})
      BY <1>1
    <3>2. \A C \in SUBSET Nat : t \in C /\ Closed(C) => u \in C
      BY <2>2
    <3>3. u \in {t}
      BY <3>1, <3>2
    <3> QED
      BY <3>3
  <2> QED
    BY <2>1, <2>2
<1>2. ASSUME NEW t \in Nat, go[t] PROVE Ends(t) = Ends(next[t])
  <2>1. ASSUME NEW u \in Ends(t) PROVE u \in Ends(next[t])
    <3> SUFFICES ASSUME NEW C \in SUBSET Nat, next[t] \in C, Closed(C) PROVE u \in C
      BY <2>1
    <3>1. C \union {t} \in SUBSET Nat /\ t \in C \union {t} /\ Closed(C \union {t})
      OBVIOUS
    <3>2. u \in C \union {t} /\ ~go[u]
      BY <2>1, <3>1
    <3> QED
      BY <1>2, <3>2
  <2>2. ASSUME NEW u \in Ends(next[t]) PROVE u \in Ends(t)
    <3> SUFFICES ASSUME NEW C \in SUBSET Nat, t \in C, Closed(C) PROVE u \in C
      BY <2>2
    <3>1. next[t] \in C
      BY <1>2
    <3> QED
      BY <2>2, <3>1
  <2> QED
    BY <2>1, <2>2
<1> HIDE DEF Ends
<1>0. PICK f : f = [t \in Nat |-> CHOOSE u : u \in Ends(t)]
  OBVIOUS
<1>3. ASSUME NEW t \in Nat PROVE f[t] = IF go[t] THEN f[next[t]] ELSE t
  <2>1. CASE go[t]
    <3>1. next[t] \in Nat /\ Ends(t) = Ends(next[t])
      BY <1>2, <2>1
    <3> QED
      BY <1>0, <2>1, <3>1
  <2>2. CASE ~go[t]
    <3>1. Ends(t) = {t}
      BY <1>1, <2>2
    <3> QED
      BY <1>0, <2>2, <3>1
  <2> QED
    BY <2>1, <2>2
<1>4. f = [t \in Nat |-> IF go[t] THEN f[next[t]] ELSE t]
  <2>1. f = [t \in Nat |-> f[t]]
    BY <1>0
  <2>2. PICK g : g = [t \in Nat |-> IF go[t] THEN f[next[t]] ELSE t]
    OBVIOUS
  <2>3. \A t \in Nat : f[t] = g[t]
    BY <1>3, <2>2
  <2>4. g = [t \in Nat |-> g[t]]
    BY <2>2
  <2>5. f = g
    BY <2>1, <2>3, <2>4
  <2> QED
    BY <2>2, <2>5
<1> QED
  BY <1>4 DEF IsLoop

\* If every step of a loop lowers a measure, it ends, with what its steps keep.
LEMMA LoopsEnd ==
  ASSUME NEW f, NEW go, NEW next, NEW measure, IsLoop(f, go, next), NEW Kept \in SUBSET Nat,
         \A t \in Kept : measure[t] \in Nat,
         \A t \in Kept : go[t] => next[t] \in Kept /\ measure[next[t]] < measure[t]
  PROVE  \A t \in Kept : f[t] \in Kept /\ ~go[f[t]]
PROOF
<1> DEFINE Bad == {t \in Kept : ~(f[t] \in Kept /\ ~go[f[t]])}
           Sizes == {measure[t] : t \in Bad}
<1> SUFFICES ASSUME Bad # {} PROVE FALSE
  OBVIOUS
<1>1. Sizes \in SUBSET Nat /\ Sizes # {}
  OBVIOUS
<1>2. PICK t \in Bad : \A u \in Bad : measure[t] <= measure[u]
  <2>1. PICK x \in Sizes : \A y \in Sizes : x <= y
    BY <1>1, LeastNumber
  <2> QED
    BY <2>1
<1>3. f[t] = IF go[t] THEN f[next[t]] ELSE t
  BY DEF IsLoop
<1>4. go[t]
  BY <1>3
<1>5. next[t] \in Kept /\ measure[next[t]] < measure[t] /\ f[t] = f[next[t]]
  BY <1>3, <1>4
<1>6. next[t] \in Bad
  BY <1>5
<1>7. measure[t] \in Nat /\ measure[next[t]] \in Nat
  BY <1>5
<1>8. measure[t] <= measure[next[t]]
  BY <1>2, <1>6
<1> HIDE DEF Bad
<1> QED
  BY <1>5, <1>7, <1>8

-----------------------------------------------------------------------------
(***************************************************************************)
(* Whole multiples, and parts of a number.                                 *)
(***************************************************************************)
\* The least number of parts of a size that hold a number.
LEMMA Ceiling ==
  ASSUME NEW x \in Nat, NEW y \in Nat \ {0}
  PROVE  /\ CeilDiv(x, y) \in Nat
         /\ x <= CeilDiv(x, y) * y
         /\ x > 0 => CeilDiv(x, y) > 0
         /\ \A z \in Nat : x <= z * y => CeilDiv(x, y) <= z
PROOF
<1> DEFINE q == (x + y - 1) \div y
<1>1. q \in Nat /\ y * q <= x + y - 1 /\ x + y - 1 < y * q + y
  OBVIOUS
<1> HIDE DEF q
<1>2. CeilDiv(x, y) = q
  BY DEF CeilDiv, q
<1>3. q * y = y * q /\ q * y \in Nat
  BY <1>1
<1>4. x <= q * y /\ q * y <= x + y - 1
  BY <1>1, <1>3
<1>5. ASSUME x > 0 PROVE q > 0
  <2>1. q = 0 => q * y = 0
    BY <1>1
  <2> QED
    BY <1>1, <1>4, <1>5, <2>1
<1>6. ASSUME NEW z \in Nat, x <= z * y PROVE q <= z
  <2>1. z < q => z * y + y <= q * y
    BY <1>1, Products
  <2>2. z * y \in Nat
    OBVIOUS
  <2> QED
    BY <1>1, <1>3, <1>4, <1>6, <2>1, <2>2
<1> QED
  BY <1>1, <1>2, <1>4, <1>5, <1>6

\* Positive multiples of a block.
Multiples(s) == {x \in Nat \ {0} : x % s = 0}

LEMMA MultipleOf ==
  ASSUME NEW s \in Nat \ {0}, NEW x
  PROVE  x \in Multiples(s) <=> \E q \in Nat \ {0} : x = q * s
PROOF
<1>1. ASSUME NEW q \in Nat \ {0}, x = q * s PROVE x \in Multiples(s)
  <2>1. x \in Nat /\ (q * s) % s = 0
    BY <1>1
  <2>2. x # 0
    BY <1>1, q * s >= s, Products
  <2> QED
    BY <1>1, <2>1, <2>2 DEF Multiples
<1>2. ASSUME x \in Multiples(s) PROVE \E q \in Nat \ {0} : x = q * s
  <2>1. x \in Nat \ {0} /\ x % s = 0
    BY <1>2 DEF Multiples
  <2>2. x \div s \in Nat /\ x = (x \div s) * s
    BY <2>1
  <2>3. x \div s # 0
    <3>1. x \div s = 0 => (x \div s) * s = 0
      BY <2>2
    <3> QED
      BY <2>1, <2>2, <3>1
  <2> QED
    BY <2>2, <2>3
<1> QED
  BY <1>1, <1>2

\* Rounding a positive number up to a multiple of a block.
LEMMA RoundedToMultiple ==
  ASSUME NEW x \in Nat \ {0}, NEW s \in Nat \ {0}
  PROVE  /\ RoundUp(x, s) \in Multiples(s) /\ x <= RoundUp(x, s)
         /\ \A y \in Multiples(s) : x <= y => RoundUp(x, s) <= y
         /\ \A y \in Nat : x <= y => RoundUp(x, s) <= RoundUp(y, s)
PROOF
<1>1. PICK q : q = CeilDiv(x, s)
  OBVIOUS
<1>2. q \in Nat \ {0} /\ x <= q * s /\ \A z \in Nat : x <= z * s => q <= z
  <2>1. /\ CeilDiv(x, s) \in Nat /\ x <= CeilDiv(x, s) * s /\ CeilDiv(x, s) > 0
        /\ \A z \in Nat : x <= z * s => CeilDiv(x, s) <= z
    <3>1. x \in Nat /\ x > 0
      OBVIOUS
    <3> QED
      BY <3>1, Ceiling
  <2> QED
    BY <1>1, <2>1
<1>3. RoundUp(x, s) = q * s
  BY <1>1 DEF RoundUp
<1>4. ASSUME NEW y \in Multiples(s), x <= y PROVE q * s <= y
  <2>1. PICK z \in Nat \ {0} : y = z * s
    BY MultipleOf
  <2> QED
    BY <1>2, <1>4, <2>1, Products
<1>5. ASSUME NEW y \in Nat, x <= y PROVE q * s <= RoundUp(y, s)
  <2>1. PICK z : z = CeilDiv(y, s)
    OBVIOUS
  <2>2. z \in Nat /\ y <= z * s /\ RoundUp(y, s) = z * s
    BY <2>1, Ceiling DEF RoundUp
  <2>3. x <= z * s
    <3>1. z * s \in Nat
      BY <2>2
    <3> QED
      BY <1>5, <2>2, <3>1
  <2> QED
    BY <1>2, <2>2, <2>3, Products
<1> QED
  BY <1>2, <1>3, <1>4, <1>5, MultipleOf

\* Rounding a number that is not smaller than a block down to a multiple of it.
LEMMA RoundedDownToMultiple ==
  ASSUME NEW s \in Nat \ {0}, NEW x \in Nat, x >= s
  PROVE  RoundDown(x, s) \in Multiples(s) /\ RoundDown(x, s) <= x
PROOF
<1>1. /\ x \div s \in Nat /\ RoundDown(x, s) = (x \div s) * s
      /\ RoundDown(x, s) \in 0 .. x /\ x < RoundDown(x, s) + s
  BY RoundedDown
<1>2. x \div s # 0
  <2>1. x \div s = 0 => (x \div s) * s = 0
    OBVIOUS
  <2> QED
    BY <1>1, <2>1
<1>3. PICK q \in Nat \ {0} : RoundDown(x, s) = q * s
  BY <1>1, <1>2
<1>4. RoundDown(x, s) \in Multiples(s)
  BY <1>3, MultipleOf
<1> QED
  BY <1>1, <1>4

\* The least of three numbers is one of them and no greater than the others.
LEMMA LeastOfThree ==
  ASSUME NEW x \in Int, NEW y \in Int, NEW z \in Int
  PROVE  /\ Min({x, y, z}) \in {x, y, z}
         /\ Min({x, y, z}) <= x /\ Min({x, y, z}) <= y /\ Min({x, y, z}) <= z
PROOF
<1>1. \E v \in {x, y, z} : \A w \in {x, y, z} : v <= w
  <2>1. CASE x <= y /\ x <= z
    BY <2>1
  <2>2. CASE y <= x /\ y <= z
    BY <2>2
  <2>3. CASE z <= x /\ z <= y
    BY <2>3
  <2> QED
    BY <2>1, <2>2, <2>3
<1>2. PICK S : S = {x, y, z}
  OBVIOUS
<1>3. Min(S) \in S /\ \A w \in S : Min(S) <= w
  BY <1>1, <1>2 DEF Min
<1> QED
  BY <1>2, <1>3

\* A positive quotient.
LEMMA Quotient ==
  ASSUME NEW x \in Nat, NEW s \in Nat \ {0}
  PROVE  x \div s \in Nat /\ (x >= s => x \div s > 0) /\ (x \div s) * s <= x
PROOF
<1>1. /\ x \div s \in Nat /\ RoundDown(x, s) = (x \div s) * s
      /\ RoundDown(x, s) \in 0 .. x /\ x < RoundDown(x, s) + s
  BY RoundedDown
<1>2. x \div s = 0 => (x \div s) * s = 0
  OBVIOUS
<1> QED
  BY <1>1, <1>2

\* A tile is not empty and no taller than its accumulator allows.
LEMMA RowsOfTile ==
  ASSUME NEW m \in Nat, m >= Block, NEW n \in Nat \ {0}, NEW t \in Nat \ {0}, t <= Accumulator,
         NEW workers \in Nat \ {0}
  PROVE  /\ TileRows(m, n, t, workers) \in Nat \ {0}
         /\ TileRows(m, n, t, workers) <= Accumulator \div t
PROOF
<1>1. Block \in Nat \ {0} /\ Accumulator \in Nat \ {0} /\ m \in Nat \ {0}
  BY BlockAssumption
<1>2. Accumulator \div t \in Nat \ {0}
  <2>1. Accumulator \div t \in Nat /\ Accumulator \div t > 0
    BY <1>1, Quotient
  <2> QED
    BY <2>1
<1>3. TilesM(n, t, workers) \in Nat \ {0}
  <2>1. CeilDiv(n, t) \in Nat /\ CeilDiv(n, t) > 0
    BY Ceiling
  <2>2. workers \div CeilDiv(n, t) \in Nat
    BY <2>1, Quotient
  <2>3. PICK q : q = workers \div CeilDiv(n, t)
    OBVIOUS
  <2>4. TilesM(n, t, workers) = Most(1, q)
    BY <2>3, Zenon DEF TilesM
  <2>5. q \in Nat
    BY <2>2, <2>3
  <2> QED
    BY <2>4, <2>5 DEF Most
<1>4. CeilDiv(m, TilesM(n, t, workers)) \in Nat \ {0}
  <2>1. /\ CeilDiv(m, TilesM(n, t, workers)) \in Nat
        /\ CeilDiv(m, TilesM(n, t, workers)) > 0
    <3>1. \A p \in Nat \ {0} : CeilDiv(m, p) \in Nat /\ CeilDiv(m, p) > 0
      <4>1. m \in Nat /\ m > 0
        BY <1>1
      <4> QED
        BY <4>1, Ceiling
    <3> QED
      BY <1>3, <3>1
  <2> QED
    BY <2>1
<1>5. /\ RoundUp(CeilDiv(m, TilesM(n, t, workers)), Block) \in Nat \ {0}
      /\ RoundDown(m, Block) \in Nat \ {0}
  BY <1>1, <1>4, RoundedToMultiple, RoundedDownToMultiple DEF Multiples
<1>6. PICK x, y, z : /\ x = RoundUp(CeilDiv(m, TilesM(n, t, workers)), Block)
                     /\ y = RoundDown(m, Block) /\ z = Accumulator \div t
  OBVIOUS
<1>7. TileRows(m, n, t, workers) = Min({x, y, z})
  BY <1>6 DEF TileRows
<1>8. x \in Nat \ {0} /\ y \in Nat \ {0} /\ z \in Nat \ {0}
  BY <1>2, <1>5, <1>6
<1>9. Min({x, y, z}) \in {x, y, z} /\ Min({x, y, z}) <= z
  <2>1. x \in Int /\ y \in Int /\ z \in Int
    BY <1>8
  <2> QED
    BY <2>1, LeastOfThree, Zenon
<1> QED
  BY <1>6, <1>7, <1>8, <1>9

-----------------------------------------------------------------------------
(***************************************************************************)
(* The tiles chosen for a product are whole blocks, within their limits.   *)
(***************************************************************************)
\* Balanced rows are whole blocks, and at most a block taller than they may be.
LEMMA RowsBalanced ==
  ASSUME NEW m \in Nat \ {0}, NEW cols \in Nat, NEW tileM \in Nat \ {0}, NEW workers \in Nat \ {0}
  PROVE  /\ BalancedRows(m, cols, tileM, workers) \in Multiples(Block)
         /\ BalancedRows(m, cols, tileM, workers) <= RoundUp(tileM, Block)
PROOF
<1> DEFINE fewest == CeilDiv(m, tileM)
           Rows(count) == RoundUp(CeilDiv(m, count), Block)
           counts == {fewest} \cup {c \in fewest + 1 .. 4 * fewest :
                                      Rows(c) >= Least(MinSharedRows, tileM)}
           Busiest(count) == CeilDiv(count * cols, workers) * Rows(count)
           Best(c) == \A d \in counts : \/ Busiest(c) < Busiest(d)
                                        \/ Busiest(c) = Busiest(d) /\ c <= d
           best == CHOOSE c \in counts : Best(c)
<1>1. Block \in Nat \ {0}
  BY BlockAssumption
<1>2. fewest \in Nat \ {0} /\ m <= fewest * tileM
  <2>1. CeilDiv(m, tileM) \in Nat /\ CeilDiv(m, tileM) > 0 /\ m <= CeilDiv(m, tileM) * tileM
    BY Ceiling
  <2> QED
    BY <2>1
<1>3. BalancedRows(m, cols, tileM, workers) = Rows(best)
  BY DEF BalancedRows
<1> HIDE DEF fewest
<1>4. counts \subseteq Nat \ {0} /\ fewest \in counts /\ \A c \in counts : c >= fewest
  BY <1>2
<1>5. ASSUME NEW c \in Nat \ {0}, c >= fewest
      PROVE  Rows(c) \in Multiples(Block) /\ Rows(c) <= RoundUp(tileM, Block)
  <2>1. CeilDiv(m, c) \in Nat /\ CeilDiv(m, c) > 0 /\ (m <= tileM * c => CeilDiv(m, c) <= tileM)
    BY Ceiling
  <2>2. m <= tileM * c
    <3>1. fewest * tileM <= c * tileM /\ fewest * tileM \in Int /\ c * tileM \in Int
      BY <1>2, <1>5, Products
    <3>2. c * tileM = tileM * c
      OBVIOUS
    <3> QED
      BY <1>2, <3>1, <3>2
  <2>3. CeilDiv(m, c) \in Nat \ {0} /\ CeilDiv(m, c) <= tileM /\ tileM \in Nat
    BY <2>1, <2>2
  <2> QED
    BY <1>1, <2>3, RoundedToMultiple
<1>6. \A c \in counts : Busiest(c) \in Nat
  <2> SUFFICES ASSUME NEW c \in counts PROVE Busiest(c) \in Nat
    OBVIOUS
  <2>1. Rows(c) \in Nat
    BY <1>4, <1>5 DEF Multiples
  <2>2. CeilDiv(c * cols, workers) \in Nat
    <3>1. c * cols \in Nat
      BY <1>4
    <3> QED
      BY <3>1, Ceiling
  <2> HIDE DEF Rows
  <2> QED
    BY <2>1, <2>2
<1> HIDE DEF Busiest, counts
<1>7. \E c \in counts : Best(c)
  <2>1. PICK v \in {Busiest(c) : c \in counts} : \A w \in {Busiest(c) : c \in counts} : v <= w
    <3>1. {Busiest(c) : c \in counts} \in SUBSET Nat /\ {Busiest(c) : c \in counts} # {}
      BY <1>4, <1>6
    <3> QED
      BY <3>1, LeastNumber
  <2>2. PICK c \in {d \in counts : Busiest(d) = v} :
          \A d \in {e \in counts : Busiest(e) = v} : c <= d
    <3>1. {d \in counts : Busiest(d) = v} \in SUBSET Nat /\ {d \in counts : Busiest(d) = v} # {}
      BY <1>4, <2>1
    <3> QED
      BY <3>1, LeastNumber
  <2>3. \A d \in counts : (Busiest(d) = v /\ c <= d) \/ v < Busiest(d)
    BY <1>6, <2>1, <2>2
  <2> QED
    BY <2>2, <2>3
<1>8. best \in counts
  BY <1>7
<1> HIDE DEF best
<1> QED
  BY <1>3, <1>4, <1>5, <1>8

\* The narrowed columns are whole blocks, at most four.
LEMMA ColumnsNarrowed ==
  ASSUME NEW m, NEW n \in Nat, n >= Block, NEW workers
  PROVE  Narrowed(m, n, workers) \in Multiples(Block) /\ Narrowed(m, n, workers) <= 4 * Block
PROOF
<1> DEFINE Goes(t) == /\ TilesM(n, t, workers) > 1
                      /\ TileRows(m, n, t, workers) < MinSharedRows
                      /\ t > Block
           Half(t) == Most(RoundDown(t \div 2, Block), Block)
           go == [t \in Nat |-> Goes(t)]
           next == [t \in Nat |-> Half(t)]
           kept == {t \in Multiples(Block) : t <= 4 * Block}
<1>1. Block \in Nat \ {0}
  BY BlockAssumption
<1>2. PICK f : f = CHOOSE narrow : narrow = [t \in Nat |->
                     IF /\ TilesM(n, t, workers) > 1
                        /\ TileRows(m, n, t, workers) < MinSharedRows
                        /\ t > Block
                     THEN narrow[Most(RoundDown(t \div 2, Block), Block)] ELSE t]
  OBVIOUS
<1>3. Narrowed(m, n, workers) = f[Least(4 * Block, RoundDown(n, Block))]
  BY <1>2 DEF Narrowed
<1>4. ASSUME NEW t \in Nat
      PROVE  /\ Half(t) \in Nat
             /\ t \in kept /\ t > Block => Half(t) \in kept /\ Half(t) < t
  <2>1. PICK h : h = t \div 2
    OBVIOUS
  <2>2. h \in Nat /\ (t > 0 => h < t)
    BY <2>1
  <2>3. PICK r : r = RoundDown(h, Block)
    OBVIOUS
  <2>4. r \in Nat /\ r <= h /\ (h >= Block => r \in Multiples(Block))
    BY <1>1, <2>2, <2>3, RoundedDown, RoundedDownToMultiple
  <2>5. Half(t) = Most(r, Block)
    BY <2>1, <2>3
  <2>6. Block \in Multiples(Block)
    BY <1>1, Block = 1 * Block, MultipleOf
  <2>7. Half(t) = Block \/ (Half(t) = r /\ r > Block)
    BY <1>1, <2>4, <2>5 DEF Most
  <2> HIDE DEF Half
  <2>8. t \in Multiples(Block) => t > 0
    BY DEF Multiples
  <2> QED
    BY <1>1, <2>2, <2>4, <2>6, <2>7, <2>8
<1> HIDE DEF Half
<1>5. next \in [Nat -> Nat]
  BY <1>4
<1>6. PICK g : IsLoop(g, go, next)
  BY <1>5, LoopsExist
<1>7. ASSUME NEW g1
      PROVE  IsLoop(g1, go, next)
             <=> g1 = [t \in Nat |-> IF Goes(t) THEN g1[Half(t)] ELSE t]
  <2>1. [t \in Nat |-> IF go[t] THEN g1[next[t]] ELSE t]
          = [t \in Nat |-> IF Goes(t) THEN g1[Half(t)] ELSE t]
    OBVIOUS
  <2> QED
    BY <2>1 DEF IsLoop
<1>8. IsLoop(f, go, next)
  <2>1. g = [t \in Nat |-> IF Goes(t) THEN g[Half(t)] ELSE t]
    BY <1>6, <1>7
  <2>2. f = [t \in Nat |-> IF Goes(t) THEN f[Half(t)] ELSE t]
    BY <1>2, <2>1 DEF Half
  <2> QED
    BY <1>7, <2>2
<1>9. \A t \in kept : f[t] \in kept /\ ~go[f[t]]
  <2> DEFINE measure == [t \in Nat |-> t]
  <2>1. kept \in SUBSET Nat /\ \A t \in kept : measure[t] \in Nat
    BY DEF Multiples
  <2>2. \A t \in kept : go[t] => next[t] \in kept /\ measure[next[t]] < measure[t]
    BY <1>4, <2>1
  <2> HIDE DEF go, next, kept, measure
  <2> QED
    BY <1>8, <2>1, <2>2, LoopsEnd
<1>10. Least(4 * Block, RoundDown(n, Block)) \in kept
  <2>1. RoundDown(n, Block) \in Multiples(Block)
    BY <1>1, RoundedDownToMultiple
  <2>2. 4 * Block \in Multiples(Block)
    BY <1>1, MultipleOf
  <2> QED
    BY <1>1, <2>1, <2>2 DEF Least, Multiples
<1> QED
  BY <1>3, <1>9, <1>10

\* Columns a tile may have: whole blocks whose accumulator has a row, and of which a K
\* step can be packed.
Columns ==
  {t \in Multiples(Block) : t <= Accumulator /\ t <= MaxKChunk * 4 * Block}

LEMMA FourBlocks ==
  \A t \in Multiples(Block) : t <= 4 * Block => t \in Columns
PROOF
<1>1. /\ Block \in Nat \ {0} /\ Accumulator \in Nat /\ MaxKChunk \in Nat \ {0}
      /\ 4 * Block <= Accumulator
  BY BlockAssumption
<1>2. 4 * Block <= MaxKChunk * 4 * Block
  <2>1. 1 * (4 * Block) <= MaxKChunk * (4 * Block)
    BY <1>1, Products
  <2>2. MaxKChunk * (4 * Block) = MaxKChunk * 4 * Block
    BY <1>1
  <2> QED
    BY <1>1, <2>1, <2>2
<1>3. MaxKChunk * 4 * Block \in Nat
  BY <1>1
<1> QED
  BY <1>1, <1>2, <1>3 DEF Columns, Multiples

\* Twice the columns of a tile that is taller than wide are columns a tile may have.
LEMMA TwiceTheColumns ==
  ASSUME NEW t \in Columns, NEW rows \in Nat, t < rows, rows <= Accumulator \div t
  PROVE  2 * t \in Columns
PROOF
<1>1. /\ Block \in Nat \ {0} /\ Accumulator \in Nat \ {0} /\ MaxKChunk \in Nat \ {0} /\ Block > 2
      /\ 2 * (Accumulator \div Block) <= MaxKChunk * 4 * Block
  BY BlockAssumption
<1>2. t \in Nat \ {0} /\ t \in Multiples(Block)
  BY DEF Columns, Multiples
<1>3. PICK q \in Nat \ {0} : t = q * Block
  BY <1>1, <1>2, MultipleOf
<1>4. t >= Block
  <2>1. 1 * Block <= q * Block
    BY <1>1, Products
  <2> QED
    BY <1>1, <1>3, <2>1
<1>5. PICK z : z = Accumulator \div t
  OBVIOUS
<1>6. z \in Nat /\ z * t <= Accumulator /\ t < z
  BY <1>1, <1>2, <1>5, Quotient
<1>7. 2 * t <= z * t
  BY <1>1, <1>2, <1>4, <1>6, Products
<1>8. 2 * t <= Accumulator
  <2>1. z * t \in Nat
    BY <1>2, <1>6
  <2> QED
    BY <1>1, <1>2, <1>6, <1>7, <2>1
<1>9. t <= Accumulator \div Block
  <2>1. PICK y : y = Accumulator \div Block
    OBVIOUS
  <2>2. y \in Nat /\ Accumulator < y * Block + Block
    <3>1. RoundDown(Accumulator, Block) = y * Block
      BY <1>1, <2>1, RoundedDown
    <3> QED
      BY <1>1, <2>1, <3>1, RoundedDown
  <2>3. ASSUME y < t PROVE FALSE
    <3>1. y * Block + Block <= t * Block
      BY <1>1, <1>2, <2>2, <2>3, Products
    <3>2. Block * t <= z * t
      BY <1>1, <1>2, <1>4, <1>6, Products
    <3>3. t * Block = Block * t /\ t * Block \in Nat /\ z * t \in Nat /\ y * Block \in Nat
      BY <1>1, <1>2, <1>6, <2>2
    <3> QED
      BY <1>1, <1>6, <2>2, <3>1, <3>2, <3>3
  <2> QED
    BY <1>2, <2>1, <2>2, <2>3
<1>10. 2 * t <= MaxKChunk * 4 * Block
  <2>1. Accumulator \div Block \in Nat /\ MaxKChunk * 4 * Block \in Nat
    BY <1>1, Quotient
  <2> QED
    BY <1>1, <1>2, <1>9, <2>1
<1>11. 2 * t \in Multiples(Block)
  <2>1. 2 * t = (2 * q) * Block /\ 2 * q \in Nat \ {0}
    BY <1>1, <1>3
  <2> QED
    BY <1>1, <2>1, MultipleOf
<1> QED
  BY <1>8, <1>10, <1>11 DEF Columns

\* The widened columns are columns a tile may have.
LEMMA ColumnsWidened ==
  ASSUME NEW m \in Nat, m >= Block, NEW n \in Nat \ {0}, NEW workers \in Nat \ {0},
         NEW tileN \in Columns
  PROVE  Widened(m, n, workers, tileN) \in Columns
PROOF
<1> DEFINE Goes(t) == t < TileRows(m, n, t, workers) /\ 2 * t <= n
           go == [t \in Nat |-> Goes(t)]
           next == [t \in Nat |-> 2 * t]
           measure == [t \in Nat |-> IF t <= n THEN n - t ELSE 0]
<1>1. PICK f : f = CHOOSE widen : widen = [t \in Nat |->
                     IF t < TileRows(m, n, t, workers) /\ 2 * t <= n THEN widen[2 * t] ELSE t]
  OBVIOUS
<1>2. Widened(m, n, workers, tileN) = f[tileN]
  BY <1>1 DEF Widened
<1>3. PICK g : IsLoop(g, go, next)
  <2>1. next \in [Nat -> Nat]
    OBVIOUS
  <2> QED
    BY <2>1, LoopsExist
<1>4. ASSUME NEW g1
      PROVE  IsLoop(g1, go, next)
             <=> g1 = [t \in Nat |-> IF Goes(t) THEN g1[2 * t] ELSE t]
  <2>1. [t \in Nat |-> IF go[t] THEN g1[next[t]] ELSE t]
          = [t \in Nat |-> IF Goes(t) THEN g1[2 * t] ELSE t]
    OBVIOUS
  <2> QED
    BY <2>1 DEF IsLoop
<1>5. IsLoop(f, go, next)
  <2>1. g = [t \in Nat |-> IF Goes(t) THEN g[2 * t] ELSE t]
    BY <1>3, <1>4
  <2>2. f = [t \in Nat |-> IF Goes(t) THEN f[2 * t] ELSE t]
    BY <1>1, <2>1
  <2> QED
    BY <1>4, <2>2
<1>6. Columns \in SUBSET Nat /\ \A t \in Columns : t > 0 /\ t <= Accumulator
  BY DEF Columns, Multiples
<1>7. ASSUME NEW t \in Columns, go[t] PROVE next[t] \in Columns /\ measure[next[t]] < measure[t]
  <2>1. t \in Nat \ {0} /\ t <= Accumulator /\ Goes(t) /\ next[t] = 2 * t
    <3>1. t \in Nat \ {0} /\ t <= Accumulator
      BY <1>6
    <3>2. go[t] = Goes(t) /\ next[t] = 2 * t
      BY <3>1
    <3> QED
      BY <1>7, <3>1, <3>2
  <2>2. TileRows(m, n, t, workers) \in Nat /\ TileRows(m, n, t, workers) <= Accumulator \div t
    BY <2>1, RowsOfTile
  <2>3. 2 * t \in Columns
    BY <2>1, <2>2, TwiceTheColumns
  <2>4. t <= n /\ 2 * t <= n
    BY <2>1
  <2>5. measure[t] = n - t /\ measure[2 * t] = n - 2 * t
    BY <2>1, <2>4
  <2>6. n - 2 * t < n - t
    BY <2>1
  <2> QED
    BY <2>1, <2>3, <2>5, <2>6
<1>8. \A t \in Columns : measure[t] \in Nat
  BY <1>6
<1>9. f[tileN] \in Columns
  <2> HIDE DEF go, next, measure
  <2> QED
    BY <1>5, <1>6, <1>7, <1>8, LoopsEnd
<1> QED
  BY <1>2, <1>9

\* Rows of a tile of these columns: whole blocks, of which a K step can be packed.
LEMMA RowsOfColumns ==
  ASSUME NEW m \in Nat, m >= Block, NEW n \in Nat \ {0}, NEW workers \in Nat \ {0},
         NEW t \in Columns,
         NEW rows, rows = BalancedRows(m, CeilDiv(n, t), TileRows(m, n, t, workers), workers)
  PROVE  /\ rows \in Multiples(Block) /\ rows <= RoundUp(Accumulator \div t, Block)
         /\ rows <= MaxKChunk * 4 * Block
PROOF
<1>1. /\ Block \in Nat \ {0} /\ Accumulator \in Nat \ {0} /\ MaxKChunk \in Nat \ {0}
      /\ 2 * (Accumulator \div Block) <= MaxKChunk * 4 * Block
  BY BlockAssumption
<1>2. t \in Nat \ {0} /\ t <= Accumulator /\ t \in Multiples(Block) /\ m \in Nat \ {0}
  BY <1>1 DEF Columns, Multiples
<1>3. PICK tall : tall = TileRows(m, n, t, workers)
  OBVIOUS
<1>4. tall \in Nat \ {0} /\ tall <= Accumulator \div t
  BY <1>2, <1>3, RowsOfTile
<1>5. PICK z : z = Accumulator \div t
  OBVIOUS
<1>6. z \in Nat /\ z * t <= Accumulator
  BY <1>1, <1>2, <1>5, Quotient
<1>7. rows \in Multiples(Block) /\ rows <= RoundUp(tall, Block)
  <2>1. CeilDiv(n, t) \in Nat
    BY <1>2, Ceiling
  <2> QED
    BY <1>2, <1>3, <1>4, <2>1, RowsBalanced
<1>8. /\ RoundUp(tall, Block) <= RoundUp(z, Block)
      /\ \A y \in Multiples(Block) : tall <= y => RoundUp(tall, Block) <= y
      /\ RoundUp(tall, Block) \in Nat
  BY <1>1, <1>4, <1>5, <1>6, RoundedToMultiple DEF Multiples
<1>9. z <= Accumulator \div Block
  <2>1. PICK y : y = Accumulator \div Block
    OBVIOUS
  <2>2. y \in Nat /\ Accumulator < y * Block + Block
    <3>1. RoundDown(Accumulator, Block) = y * Block
      BY <1>1, <2>1, RoundedDown
    <3> QED
      BY <1>1, <2>1, <3>1, RoundedDown
  <2>3. z * Block <= z * t
    <3>1. PICK q \in Nat \ {0} : t = q * Block
      BY <1>1, <1>2, MultipleOf
    <3>2. Block <= t
      <4>1. 1 * Block <= q * Block
        BY <1>1, Products
      <4> QED
        BY <1>1, <3>1, <4>1
    <3>3. z = 0 \/ z \in Nat \ {0}
      BY <1>6
    <3>4. CASE z \in Nat \ {0}
      <4>1. Block * z <= t * z
        BY <1>1, <1>2, <3>2, <3>4, Products
      <4> QED
        BY <1>1, <1>2, <1>6, <4>1
    <3> QED
      BY <1>1, <1>2, <3>3, <3>4
  <2>4. y < z => y * Block + Block <= z * Block
    BY <1>1, <1>6, <2>2, Products
  <2>5. y * Block \in Nat /\ z * Block \in Nat /\ z * t \in Nat
    BY <1>1, <1>2, <1>6, <2>2
  <2> QED
    BY <1>1, <1>6, <2>1, <2>2, <2>3, <2>4, <2>5
<1>10. RoundUp(tall, Block) <= MaxKChunk * 4 * Block
  <2>1. MaxKChunk * 4 * Block \in Multiples(Block)
    <3>1. MaxKChunk * 4 \in Nat \ {0}
      BY <1>1
    <3> QED
      BY <1>1, <3>1, MultipleOf
  <2>2. Accumulator \div Block \in Nat /\ MaxKChunk * 4 * Block \in Nat
    BY <1>1, Quotient
  <2>3. tall <= MaxKChunk * 4 * Block
    BY <1>1, <1>4, <1>5, <1>6, <1>9, <2>2
  <2> QED
    BY <1>8, <2>1, <2>3
<1>11. rows \in Nat /\ RoundUp(z, Block) \in Nat /\ MaxKChunk * 4 * Block \in Nat
  BY <1>1, <1>6, <1>7, RoundedUp DEF Multiples
<1> QED
  BY <1>5, <1>7, <1>8, <1>10, <1>11

(***************************************************************************)
(* What _fused_pack_heuristic chooses, for every problem of at least a     *)
(* tile: whole blocks, an accumulator at most a block taller than its      *)
(* limit, and whole steps of two blocks of K.                              *)
(***************************************************************************)
LEMMA HeuristicFits ==
  ASSUME NEW m \in Nat, m >= Block, NEW n \in Nat, n >= Block, NEW k \in Nat, k >= 2 * Block,
         NEW transA, NEW workers \in Nat \ {0},
         NEW tile, tile = Heuristic(m, n, k, transA, workers)
  PROVE  /\ tile[1] \in Multiples(Block) /\ tile[2] \in Multiples(Block)
         /\ tile[1] <= RoundUp(Accumulator \div tile[2], Block)
         /\ tile[3] \in Multiples(2 * Block)
PROOF
<1> DEFINE kEven  == RoundDown(k, 2 * Block)
           narrow == Narrowed(m, n, workers)
           oneRow == /\ ~transA
                     /\ TilesM(n, narrow, workers) = 1
                     /\ TileRows(m, n, narrow, workers) < MinSharedRows
           tileN  == IF transA THEN Widened(m, n, workers, narrow)
                     ELSE IF oneRow THEN Least(narrow, 2 * Block)
                     ELSE narrow
           chunkCols == IF transA THEN tileN ELSE narrow
           tileM  == BalancedRows(m, CeilDiv(n, tileN), TileRows(m, n, tileN, workers), workers)
           packed == Most(chunkCols, IF transA THEN tileM ELSE 0)
           chunk  == (MaxKChunk * 4 * Block) \div packed
           single == /\ ~transA
                     /\ k % Line = 0
                     /\ kEven <= (MaxKSingle * 4 * Block) \div chunkCols
           most == IF single THEN Most(chunk, kEven) ELSE chunk
           chunks == CeilDiv(kEven, most)
<1>1. tile = <<tileM, tileN, RoundUp(CeilDiv(kEven, chunks), 2 * Block)>>
  BY DEF Heuristic
<1>2. /\ Block \in Nat \ {0} /\ MaxKChunk \in Nat \ {0} /\ MaxKChunk * 4 * Block \in Nat
      /\ n \in Nat \ {0} /\ 2 * Block \in Nat \ {0}
  BY BlockAssumption
<1>3. narrow \in Columns /\ narrow \in Multiples(Block) /\ narrow <= 4 * Block
  BY ColumnsNarrowed, FourBlocks
<1>4. kEven \in Multiples(2 * Block)
  BY <1>2, RoundedDownToMultiple
<1> HIDE DEF narrow, kEven
<1>5. tileN \in Columns
  <2>1. CASE transA
    BY <1>2, <1>3, <2>1, ColumnsWidened
  <2>2. CASE ~transA
    <3>1. 2 * Block \in Multiples(Block)
      BY <1>2, MultipleOf
    <3>2. Least(narrow, 2 * Block) \in Columns
      <4>1. Least(narrow, 2 * Block) \in {narrow, 2 * Block}
        BY DEF Least
      <4> QED
        BY <1>2, <1>3, <3>1, <4>1, FourBlocks
    <3> QED
      BY <1>3, <2>2, <3>2
  <2> QED
    BY <2>1, <2>2
<1>6. chunkCols \in Columns
  BY <1>3, <1>5
<1> HIDE DEF tileN, chunkCols
<1>7. /\ tileM \in Multiples(Block) /\ tileM <= RoundUp(Accumulator \div tileN, Block)
      /\ tileM <= MaxKChunk * 4 * Block
  BY <1>2, <1>5, RowsOfColumns
<1> HIDE DEF tileM
<1>8. packed \in Nat \ {0} /\ packed <= MaxKChunk * 4 * Block
  BY <1>6, <1>7 DEF Most, Columns, Multiples
<1> HIDE DEF packed
<1>9. chunk \in Nat \ {0}
  <2>1. chunk \in Nat /\ chunk > 0
    BY <1>2, <1>8, Quotient
  <2> QED
    BY <2>1
<1> HIDE DEF chunk, single
<1>10. most \in Nat \ {0}
  BY <1>4, <1>9 DEF Most, Multiples
<1> HIDE DEF most
<1>11. chunks \in Nat \ {0}
  <2>1. chunks \in Nat /\ chunks > 0
    <3>1. kEven \in Nat /\ kEven > 0
      BY <1>4 DEF Multiples
    <3> QED
      BY <1>10, <3>1, Ceiling
  <2> QED
    BY <2>1
<1> HIDE DEF chunks
<1>12. CeilDiv(kEven, chunks) \in Nat \ {0}
  <2>1. CeilDiv(kEven, chunks) \in Nat /\ CeilDiv(kEven, chunks) > 0
    <3>1. kEven \in Nat /\ kEven > 0
      BY <1>4 DEF Multiples
    <3> QED
      BY <1>11, <3>1, Ceiling
  <2> QED
    BY <2>1
<1>13. RoundUp(CeilDiv(kEven, chunks), 2 * Block) \in Multiples(2 * Block)
  BY <1>2, <1>12, RoundedToMultiple
<1>14. tile[1] = tileM /\ tile[2] = tileN /\ tile[3] = RoundUp(CeilDiv(kEven, chunks), 2 * Block)
  BY <1>1
<1>15. tileN \in Multiples(Block)
  BY <1>5 DEF Columns
<1> QED
  BY <1>7, <1>13, <1>14, <1>15

-----------------------------------------------------------------------------
(***************************************************************************)
(* The operands a matmul is bound with hold a tile, so the kernel that is  *)
(* launched has the plan of the tiles chosen for them.                     *)
(***************************************************************************)
\* The rows, columns and K of the operands of a product, as the kernel reads them.
RowsOfA == IF request.transA THEN a.shape[2] ELSE a.shape[1]
ColsOfB == IF request.transB THEN b.shape[1] ELSE b.shape[2]
DepthOfA == IF request.transA THEN a.shape[1] ELSE a.shape[2]

\* Operands are those of the request until they are padded, and then hold a tile.
HoldTile ==
  /\ RowsOfA \in Nat /\ RowsOfA >= Block
  /\ ColsOfB \in Nat /\ ColsOfB >= Block
  /\ DepthOfA \in Nat /\ DepthOfA >= 2 * Block

OperandSizes ==
  /\ threads \in Threads
  /\ pc = "matmul" => RowsOfA = request.m /\ ColsOfB = request.n /\ DepthOfA = request.k
  /\ pc \in {"bind", "fused"} => HoldTile

\* Every fused kernel that is launched meets each index of its K once.
ContractsOnce ==
  pc = "fused" => EachOnce(Chunks(kernel.plan, DepthOfA, 2 * Block), DepthOfA)

LEMMA InitSizes == Init => OperandSizes
BY DEF Init, OperandSizes

\* The operands of an item of a request.
LEMMA OperandsOf ==
  ASSUME NEW r, NEW item,
         request' = r, a' = OperandA(r, item), b' = OperandB(r, item)
  PROVE  RowsOfA' = r.m /\ ColsOfB' = r.n /\ DepthOfA' = r.k
PROOF
<1>1. a'.shape = IF r.transA THEN <<r.k, r.m>> ELSE <<r.m, r.k>>
  BY DEF OperandA, Matrix, Build
<1>2. b'.shape = IF r.transB THEN <<r.n, r.kb>> ELSE <<r.kb, r.n>>
  BY DEF OperandB, Matrix, Build
<1>3. RowsOfA' = r.m /\ DepthOfA' = r.k
  BY <1>1 DEF RowsOfA, DepthOfA
<1>4. ColsOfB' = r.n
  BY <1>2 DEF ColsOfB
<1> QED
  BY <1>3, <1>4

\* A multiple of a block is not smaller than it.
LEMMA NotSmaller ==
  ASSUME NEW s \in Nat \ {0}, NEW x \in Multiples(s)
  PROVE  x \in Nat /\ x >= s
PROOF
<1>1. PICK q \in Nat \ {0} : x = q * s
  BY MultipleOf
<1>2. 1 * s <= q * s
  BY Products
<1> QED
  BY <1>1, <1>2

\* Padding a product makes its operands hold a tile, and others hold one already.
LEMMA MatmulHolds ==
  ASSUME Inv, OperandSizes, Matmul, pc' = "bind"
  PROVE  HoldTile'
PROOF
<1> DEFINE m == RoundUp(request.m, Block)
           n == RoundUp(request.n, Block)
           k == RoundUp(request.k, 2 * Block)
<1>1. /\ pc = "matmul" /\ request' = request
      /\ SmallerThanTile(request) =>
           /\ a' = IF request.transA THEN Pad2(a, k, m) ELSE Pad2(a, m, k)
           /\ b' = IF request.transB THEN Pad2(b, n, k) ELSE Pad2(b, k, n)
      /\ ~SmallerThanTile(request) => UNCHANGED <<a, b>>
  BY DEF Matmul, Raise
<1>2. {request.m, request.n, request.k} \subseteq Nat \ {0} /\ Block \in Nat \ {0}
  <2>1. program \in Programs /\ request \in program.requests
    BY <1>1 DEF Inv, Packing
  <2> QED
    BY <2>1, CpuAssumption, BlockAssumption
<1>3. CASE SmallerThanTile(request)
  <2>1. /\ m \in Multiples(Block) /\ n \in Multiples(Block) /\ k \in Multiples(2 * Block)
        /\ 2 * Block \in Nat \ {0}
    BY <1>2, RoundedToMultiple
  <2> HIDE DEF m, n, k
  <2>2. m \in Nat /\ m >= Block /\ n \in Nat /\ n >= Block /\ k \in Nat /\ k >= 2 * Block
    BY <1>2, <2>1, NotSmaller
  <2>3. /\ a'.shape = IF request.transA THEN <<k, m>> ELSE <<m, k>>
        /\ b'.shape = IF request.transB THEN <<n, k>> ELSE <<k, n>>
    BY <1>1, <1>3 DEF Pad2, Tile, Build
  <2>4. RowsOfA' = m /\ DepthOfA' = k
    BY <1>1, <2>3 DEF RowsOfA, DepthOfA
  <2>5. ColsOfB' = n
    BY <1>1, <2>3 DEF ColsOfB
  <2> QED
    BY <2>2, <2>4, <2>5 DEF HoldTile
<1>4. CASE ~SmallerThanTile(request)
  <2>1. request.m >= Block /\ request.n >= Block /\ request.k >= 2 * Block
    BY <1>2, <1>4 DEF SmallerThanTile, Least
  <2>2. RowsOfA = request.m /\ ColsOfB = request.n /\ DepthOfA = request.k
    BY <1>1 DEF OperandSizes
  <2>3. RowsOfA' = RowsOfA /\ ColsOfB' = ColsOfB /\ DepthOfA' = DepthOfA
    BY <1>1, <1>4 DEF RowsOfA, ColsOfB, DepthOfA
  <2> QED
    BY <1>2, <2>1, <2>2, <2>3 DEF HoldTile
<1> QED
  BY <1>3, <1>4

\* A finished item is followed by the operands of the next one.
LEMMA NextItem ==
  ASSUME NEW result, FinishItem(result), UNCHANGED request, pc' = "matmul"
  PROVE  RowsOfA' = request.m /\ ColsOfB' = request.n /\ DepthOfA' = request.k
PROOF
<1>1. PICK item : a' = OperandA(request, item) /\ b' = OperandB(request, item)
  BY DEF FinishItem, Return
<1> QED
  BY <1>1, OperandsOf

LEMMA StepSizes == Inv /\ OperandSizes /\ [Next]_vars => OperandSizes'
PROOF
<1> SUFFICES ASSUME Inv, OperandSizes, [Next]_vars PROVE OperandSizes'
  OBVIOUS
<1>1. CASE Meanwhile
  <2>1. pc = "idle" /\ pc' = pc /\ threads' \in Threads
    BY <1>1 DEF Meanwhile, OperandSizes
  <2> QED
    BY <2>1 DEF OperandSizes
<1>2. ASSUME NEW pc2, pc' = pc2, pc2 \notin {"matmul", "bind", "fused"}, UNCHANGED world
      PROVE  OperandSizes'
  BY <1>2 DEF OperandSizes, world
<1>3. ASSUME NEW r \in program.requests, Call(r) PROVE OperandSizes'
  <2>1. /\ threads' = threads /\ pc' \in {"rows", "matmul", "prepacked", "pack"}
        /\ pc' = "matmul" => request' = r /\ a' = OperandA(r, 1) /\ b' = OperandB(r, 1)
    BY <1>3 DEF Call, SetCall, world
  <2>2. pc' = "matmul" => request' = r /\ RowsOfA' = r.m /\ ColsOfB' = r.n /\ DepthOfA' = r.k
    BY <2>1, OperandsOf
  <2> QED
    BY <2>1, <2>2 DEF OperandSizes
<1>4. CASE PackWeight
  BY <1>2, <1>4 DEF PackWeight
<1>5. CASE Matmul
  <2>1. threads' = threads /\ pc' \in {"done", "blocks", "bind"}
    BY <1>5 DEF Matmul, Raise, world
  <2> QED
    BY <1>5, <2>1, MatmulHolds DEF OperandSizes
<1>6. CASE BindFused
  <2>1. pc = "bind" /\ pc' = "fused" /\ UNCHANGED <<threads, request, a, b>>
    BY <1>6 DEF BindFused, Bind, world
  <2>2. HoldTile'
    BY <2>1 DEF OperandSizes, HoldTile, RowsOfA, ColsOfB, DepthOfA
  <2> QED
    BY <2>1, <2>2 DEF OperandSizes
<1>7. CASE LaunchFused \/ LaunchBlocked
  <2>1. /\ UNCHANGED <<threads, request>>
        /\ pc' = "done" \/ \E result : FinishItem(result)
    BY <1>7 DEF LaunchFused, LaunchBlocked, Raise, world
  <2>2. pc' \in {"done", "matmul"}
    BY <2>1, ItemFinished
  <2>3. pc' = "matmul" => RowsOfA' = request.m /\ ColsOfB' = request.n /\ DepthOfA' = request.k
    BY <2>1, NextItem
  <2> QED
    BY <2>1, <2>2, <2>3 DEF OperandSizes
<1>8. CASE Prepacked
  <2>1. UNCHANGED world /\ pc' \in {"done", "bind_rows", "blocks"}
    BY <1>8 DEF Prepacked, PlanRows, Raise
  <2> QED
    BY <1>2, <2>1
<1>9. CASE BindRows
  <2>1. UNCHANGED world /\ pc' = "rows_of_tiles"
    BY <1>9 DEF BindRows, Bind
  <2> QED
    BY <1>2, <2>1
<1>10. CASE LaunchRows
  <2>1. UNCHANGED world /\ pc' \in {"done", "bind_rows"}
    BY <1>10 DEF LaunchRows, Raise, Return
  <2> QED
    BY <1>2, <2>1
<1>11. CASE LaunchRowWise
  <2>1. UNCHANGED world /\ pc' = "done"
    BY <1>11 DEF LaunchRowWise, Raise, Return
  <2> QED
    BY <1>2, <2>1
<1>12. CASE Leave
  BY <1>2, <1>12 DEF Leave
<1>13. CASE UNCHANGED vars
  <2>1. UNCHANGED <<threads, pc, request, a, b>>
    BY <1>13 DEF vars, world, call
  <2>2. RowsOfA' = RowsOfA /\ ColsOfB' = ColsOfB /\ DepthOfA' = DepthOfA
    BY <2>1 DEF RowsOfA, ColsOfB, DepthOfA
  <2> QED
    BY <2>1, <2>2 DEF OperandSizes, HoldTile
<1> QED
  BY <1>1, <1>3, <1>4, <1>5, <1>6, <1>7, <1>8, <1>9, <1>10, <1>11, <1>12, <1>13 DEF Next, Step

\* The plan of a launched kernel, chosen or given.
LEMMA LaunchedPlan ==
  ASSUME Inv, OperandSizes, pc = "fused"
  PROVE  /\ kernel.plan =
               FusedPlan(RowsOfA, ColsOfB, DepthOfA, request.transA, request.tiles, threads)
         /\ kernel.plan.chunk \in Nat \ {0}
         /\ TilesFit
PROOF
<1>1. kernel.plan = FusedPlan(RowsOfA, ColsOfB, DepthOfA, request.transA, request.tiles, threads)
  BY DEF Inv, Launched, TilesChosenForThisCall, RowsOfA, ColsOfB, DepthOfA
<1>2. PICK tile : tile = IF request.tiles = <<>>
                         THEN Heuristic(RowsOfA, ColsOfB, DepthOfA, request.transA, threads)
                         ELSE request.tiles
  OBVIOUS
<1>3. kernel.plan.rows = tile[1] /\ kernel.plan.cols = tile[2] /\ kernel.plan.chunk = tile[3]
  BY <1>1, <1>2 DEF FusedPlan
<1>4. request.tiles = <<>> \/ request.tiles \in [1 .. 3 -> Nat \ {0}]
  <2>1. program \in Programs /\ request \in program.requests
    BY DEF Inv, Packing
  <2> QED
    BY <2>1, CpuAssumption
<1>5. CASE request.tiles = <<>>
  <2>1. HoldTile /\ threads \in Nat \ {0}
    BY CpuAssumption DEF OperandSizes
  <2>2. /\ tile[1] \in Multiples(Block) /\ tile[2] \in Multiples(Block)
        /\ tile[1] <= RoundUp(Accumulator \div tile[2], Block)
        /\ tile[3] \in Multiples(2 * Block)
    BY <1>2, <1>5, <2>1, HeuristicFits DEF HoldTile
  <2> QED
    BY <1>1, <1>3, <2>2 DEF TilesFit, Multiples
<1>6. CASE request.tiles # <<>>
  BY <1>1, <1>2, <1>3, <1>4, <1>6 DEF TilesFit
<1> QED
  BY <1>5, <1>6

LEMMA SpecSizes == Spec => [](Inv /\ OperandSizes)
PROOF
<1>1. Init => Inv /\ OperandSizes
  BY InitInv, InitSizes
<1>2. Inv /\ OperandSizes /\ [Next]_vars => (Inv /\ OperandSizes)'
  BY StepInv, StepSizes
<1> QED
  BY <1>1, <1>2, PTL DEF Spec

\* A kernel that is launched, cached or new, has the tiles that would be chosen for this
\* call; chosen tiles fit the registers and the accumulator, for every shape and number
\* of threads; and the cache of bound kernels stays bounded with the one in use last
\* (_fused_pack_heuristic, _balanced_rows and the bound-kernel cache of matmul.py).
THEOREM LaunchedKernelsAlwaysFit == Spec => []LaunchedKernelsFit
PROOF
<1>1. Inv => TilesChosenForThisCall /\ BoundKernels
  BY DEF Inv, BoundByKey, Launched, TilesChosenForThisCall, BoundKernels
<1>2. Inv /\ OperandSizes => TilesFit
  BY LaunchedPlan DEF TilesFit
<1>3. Inv /\ OperandSizes => LaunchedKernelsFit
  BY <1>1, <1>2 DEF LaunchedKernelsFit
<1> QED
  BY <1>3, SpecSizes, PTL

\* Every launch of the fused-pack kernel contracts each index of its K exactly once,
\* with whatever tiles it was bound to, chosen or given (_matmul_fused_pack).
THEOREM LaunchesContractOnce == Spec => []ContractsOnce
PROOF
<1>1. Inv /\ OperandSizes => ContractsOnce
  <2> SUFFICES ASSUME Inv, OperandSizes, pc = "fused"
               PROVE  EachOnce(Chunks(kernel.plan, DepthOfA, 2 * Block), DepthOfA)
    BY DEF ContractsOnce
  <2>1. DepthOfA \in Nat
    BY DEF OperandSizes, HoldTile
  <2> QED
    BY <2>1, LaunchedPlan, FusedPackContractsOnce
<1> QED
  BY <1>1, SpecSizes, PTL

-----------------------------------------------------------------------------
LEMMA InitStamped == Init => StampedInv
PROOF
<1> SUFFICES ASSUME Init PROVE StampedInv
  OBVIOUS
<1>1. Inv
  BY InitInv
<1>2. /\ cache = NoCache /\ pc = "idle" /\ DOMAIN params = Vectors \cup {"weight"}
      /\ past = [p \in DOMAIN params |-> {params[p]}]
  BY DEF Init
<1>3. Remembered
  BY <1>2 DEF Remembered
<1> QED
  BY <1>1, <1>2, <1>3 DEF StampedInv, KeptAsStamped, PreparedAsStamped

\* A change adds the new tensor to those that a parameter was.
LEMMA Remembering ==
  ASSUME Remembered, Meanwhile
  PROVE  /\ Remembered'
         /\ \A p \in Vectors \cup {"weight"} : past[p] \subseteq past'[p]
PROOF
<1>1. CASE UNCHANGED <<params, past>>
  BY <1>1 DEF Remembered
<1>2. ASSUME NEW p \in DOMAIN params, NEW new,
             params' = [params EXCEPT ![p] = new], past' = [past EXCEPT ![p] = @ \cup {new}]
      PROVE  /\ Remembered'
             /\ \A q \in Vectors \cup {"weight"} : past[q] \subseteq past'[q]
  BY <1>2 DEF Remembered
<1>3. ASSUME NEW p \in DOMAIN params, UpdateInPlace(p) \/ Replace(p)
      PROVE  \E new : /\ params' = [params EXCEPT ![p] = new]
                      /\ past' = [past EXCEPT ![p] = @ \cup {new}]
  BY <1>3 DEF UpdateInPlace, Replace, Change
<1>4. UNCHANGED <<params, past>> \/ \E p \in DOMAIN params : UpdateInPlace(p) \/ Replace(p)
  BY DEF Meanwhile, Used
<1> QED
  BY <1>1, <1>2, <1>3, <1>4

\* Contents at an address and version are never forgotten either.
LEMMA ContentsKept ==
  ASSUME NEW p, past[p] \subseteq past'[p], NEW address, NEW version
  PROVE  ContentsAt(p, address, version) \subseteq ContentsAt(p, address, version)'
  BY DEF ContentsAt

\* What is kept by its stamps stays made from what had those stamps.
LEMMA StepStamped ==
  ASSUME StampedInv, [Next]_vars
  PROVE  Remembered' /\ KeptAsStamped' /\ PreparedAsStamped'
PROOF
<1>1. Inv /\ Remembered /\ KeptAsStamped /\ PreparedAsStamped
  BY DEF StampedInv
<1>2. \/ Meanwhile
      \/ \E r \in program.requests : Call(r)
      \/ PackWeight
      \/ UNCHANGED <<params, past, cache>> /\ pc' # "prepacked"
      \/ UNCHANGED vars
  <2>1. ASSUME \/ Matmul \/ BindFused \/ LaunchFused \/ LaunchBlocked \/ Prepacked
               \/ BindRows \/ LaunchRows \/ LaunchRowWise \/ Leave
        PROVE  UNCHANGED <<params, past, cache>> /\ pc' # "prepacked"
    <3>1. CASE Matmul
      BY <3>1 DEF Matmul, Raise, world
    <3>2. CASE BindFused
      BY <3>2 DEF BindFused, Bind, world
    <3>3. CASE LaunchFused
      BY <3>3, ItemFinished DEF LaunchFused, Raise, world
    <3>4. CASE LaunchBlocked
      BY <3>4, ItemFinished DEF LaunchBlocked, world
    <3>5. CASE Prepacked
      BY <3>5 DEF Prepacked, PlanRows, Raise, world
    <3>6. CASE BindRows
      BY <3>6 DEF BindRows, Bind, world
    <3>7. CASE LaunchRows
      BY <3>7 DEF LaunchRows, Raise, Return, world
    <3>8. CASE LaunchRowWise
      BY <3>8 DEF LaunchRowWise, Raise, Return, world
    <3>9. CASE Leave
      BY <3>9 DEF Leave, world
    <3> QED
      BY <2>1, <3>1, <3>2, <3>3, <3>4, <3>5, <3>6, <3>7, <3>8, <3>9
  <2> QED
    BY <2>1 DEF Next, Step
<1>3. CASE Meanwhile
  <2>1. /\ cache' = cache /\ pc' = pc /\ pc = "idle" /\ Remembered'
        /\ \A p \in Vectors \cup {"weight"} : past[p] \subseteq past'[p]
    BY <1>1, <1>3, Remembering DEF Meanwhile
  <2>2. KeptAsStamped'
    <3> SUFFICES ASSUME cache # NoCache PROVE KeptAsStamped'
      BY <2>1 DEF KeptAsStamped
    <3>1. PICK key : key = cache.key
      OBVIOUS
    <3>2. /\ \E c \in ContentsAt("weight", key[1], key[2]) :
               PackedFrom(cache.packed, Weight(key[3], key[4], c))
          /\ DOMAIN key[5] \subseteq Vectors
          /\ cache.vectors = [v \in Vectors |-> cache.vectors[v]]
          /\ \A v \in Vectors \ DOMAIN key[5] : cache.vectors[v] = NoTensor
          /\ \A v \in DOMAIN key[5] :
               \E c \in ContentsAt(v, key[5][v][1], key[5][v][2]) :
                 cache.vectors[v] = VectorOf(key[5][v][3], v, key[3], c)
      BY <1>1, <3>1 DEF KeptAsStamped
    <3>3. \E c \in ContentsAt("weight", key[1], key[2])' :
            PackedFrom(cache.packed, Weight(key[3], key[4], c))
      <4>1. ContentsAt("weight", key[1], key[2]) \subseteq ContentsAt("weight", key[1], key[2])'
        BY <2>1, ContentsKept
      <4> QED
        BY <3>2, <4>1
    <3>4. ASSUME NEW v \in DOMAIN key[5]
          PROVE  \E c \in ContentsAt(v, key[5][v][1], key[5][v][2])' :
                   cache.vectors[v] = VectorOf(key[5][v][3], v, key[3], c)
      <4>1. past[v] \subseteq past'[v]
        BY <2>1, <3>2
      <4>2. ContentsAt(v, key[5][v][1], key[5][v][2])
              \subseteq ContentsAt(v, key[5][v][1], key[5][v][2])'
        BY <4>1, ContentsKept
      <4> QED
        BY <3>2, <4>2
    <3>5. cache'.key = key
      BY <2>1, <3>1
    <3> QED
      BY <2>1, <3>2, <3>3, <3>4, <3>5 DEF KeptAsStamped
  <2>3. PreparedAsStamped'
    BY <2>1 DEF PreparedAsStamped
  <2> QED
    BY <2>1, <2>2, <2>3
<1>4. ASSUME NEW r \in program.requests, Call(r)
      PROVE  Remembered' /\ KeptAsStamped' /\ PreparedAsStamped'
  <2>1. /\ request' = r /\ params' = params /\ past' = past
        /\ cache' \in {cache, NoCache}
        /\ pc' = "prepacked" => /\ IsLinear(r) /\ Cached(r)
                                /\ b' = cache.packed /\ vectors' = cache.vectors
    BY <1>4 DEF Call, SetCall, world
  <2>2. Remembered' /\ KeptAsStamped'
    BY <1>1, <2>1 DEF Remembered, KeptAsStamped, ContentsAt
  <2>3. PreparedAsStamped'
    <3> SUFFICES ASSUME pc' = "prepacked"
                 PROVE  /\ \E c \in ContentsOf("weight") : PackedFrom(b', Weight(r.n, r.kb, c))
                        /\ vectors' = [v \in Vectors |-> vectors'[v]]
                        /\ \A v \in Vectors :
                             \E c \in ContentsOf(v) : vectors'[v] = VectorOf(r[v], v, r.n, c)
      BY <2>1 DEF PreparedAsStamped, ContentsOf, ContentsAt
    <3>1. cache # NoCache /\ cache.key = CacheKey(r)
      BY <2>1 DEF Cached
    <3>2. PICK key : key = cache.key
      OBVIOUS
    <3>3. /\ key[1] = params["weight"].address /\ key[2] = params["weight"].version
          /\ key[3] = r.n /\ key[4] = r.kb
          /\ key[5] = [v \in {w \in Vectors : r[w] # "none"} |->
                         <<params[v].address, params[v].version, r[v]>>]
      BY <3>1, <3>2 DEF CacheKey
    <3>4. \E c \in ContentsOf("weight") : PackedFrom(cache.packed, Weight(r.n, r.kb, c))
      BY <1>1, <3>1, <3>2, <3>3 DEF KeptAsStamped, ContentsOf
    <3>5. ASSUME NEW v \in Vectors
          PROVE  \E c \in ContentsOf(v) : cache.vectors[v] = VectorOf(r[v], v, r.n, c)
      <4>1. CASE r[v] = "none"
        <5>1. v \notin DOMAIN key[5]
          BY <3>3, <4>1
        <5>2. cache.vectors[v] = NoTensor
          BY <1>1, <3>1, <3>2, <5>1 DEF KeptAsStamped
        <5>3. params[v] \in past[v]
          BY <1>1 DEF Remembered
        <5>4. params[v].contents \in ContentsOf(v)
          BY <5>3 DEF ContentsOf, ContentsAt
        <5> QED
          BY <4>1, <5>2, <5>4 DEF VectorOf
      <4>2. CASE r[v] # "none"
        <5>1. v \in DOMAIN key[5] /\ key[5][v] = <<params[v].address, params[v].version, r[v]>>
          BY <3>3, <4>2
        <5>2. /\ key[5][v][1] = params[v].address /\ key[5][v][2] = params[v].version
              /\ key[5][v][3] = r[v]
          BY <5>1
        <5>3. \E c \in ContentsAt(v, key[5][v][1], key[5][v][2]) :
                cache.vectors[v] = VectorOf(key[5][v][3], v, key[3], c)
          BY <1>1, <3>1, <3>2, <5>1 DEF KeptAsStamped
        <5> QED
          BY <3>3, <5>2, <5>3 DEF ContentsOf
      <4> QED
        BY <4>1, <4>2
    <3>6. cache.vectors = [v \in Vectors |-> cache.vectors[v]]
      BY <1>1, <3>1 DEF KeptAsStamped
    <3> QED
      BY <2>1, <3>4, <3>5, <3>6
  <2> QED
    BY <2>2, <2>3
<1>5. CASE PackWeight
  <2>1. /\ UNCHANGED <<program, world, request, vectors>> /\ pc = "pack"
        /\ PackedFrom(b', CurrentWeight(request))
        /\ cache' # NoCache => \/ cache' = cache
                               \/ cache' = [key |-> CacheKey(request), packed |-> b',
                                            vectors |-> vectors]
    BY <1>1, <1>5, WeightPacked DEF PackWeight
  <2>2. vectors = VectorsOf(request, params) /\ params' = params /\ past' = past
    BY <1>1, <2>1 DEF Inv, Packing, world
  <2>3. Remembered'
    BY <1>1, <2>2 DEF Remembered
  <2>4. \A p \in Vectors \cup {"weight"} : params[p].contents \in ContentsOf(p)
    BY <1>1 DEF Remembered, ContentsOf, ContentsAt
  <2>5. \A v \in Vectors : vectors[v] = VectorOf(request[v], v, request.n, params[v].contents)
    BY <2>2 DEF VectorsOf
  <2>6. vectors = [v \in Vectors |-> vectors[v]]
    BY <2>2 DEF VectorsOf
  <2>7. \E c \in ContentsOf("weight") : PackedFrom(b', Weight(request.n, request.kb, c))
    BY <2>1, <2>4 DEF CurrentWeight
  <2>8. PreparedAsStamped'
    BY <2>1, <2>2, <2>4, <2>5, <2>6, <2>7 DEF PreparedAsStamped, ContentsOf, ContentsAt
  <2>9. CASE cache' = cache \/ cache' = NoCache
    BY <1>1, <2>2, <2>3, <2>8, <2>9 DEF KeptAsStamped, ContentsAt
  <2>10. CASE cache' = [key |-> CacheKey(request), packed |-> b', vectors |-> vectors]
    <3>1. PICK key : key = CacheKey(request)
      OBVIOUS
    <3>2. cache'.key = key /\ cache'.packed = b' /\ cache'.vectors = vectors
      BY <2>10, <3>1
    <3>3. /\ key[1] = params["weight"].address /\ key[2] = params["weight"].version
          /\ key[3] = request.n /\ key[4] = request.kb
          /\ key[5] = [v \in {w \in Vectors : request[w] # "none"} |->
                         <<params[v].address, params[v].version, request[v]>>]
      BY <3>1 DEF CacheKey
    <3>4. \E c \in ContentsAt("weight", key[1], key[2])' :
            PackedFrom(cache'.packed, Weight(key[3], key[4], c))
      BY <2>2, <2>7, <3>2, <3>3 DEF ContentsOf, ContentsAt
    <3>5. DOMAIN key[5] = {w \in Vectors : request[w] # "none"}
      BY <3>3
    <3>6. ASSUME NEW v \in Vectors \ DOMAIN key[5] PROVE vectors[v] = NoTensor
      BY <2>5, <3>5 DEF VectorOf
    <3>7. ASSUME NEW v \in DOMAIN key[5]
          PROVE  \E c \in ContentsAt(v, key[5][v][1], key[5][v][2])' :
                   vectors[v] = VectorOf(key[5][v][3], v, key[3], c)
      <4>1. v \in Vectors
        BY <3>5
      <4>2. /\ key[5][v][1] = params[v].address /\ key[5][v][2] = params[v].version
            /\ key[5][v][3] = request[v]
        BY <3>3
      <4>3. params[v].contents \in ContentsAt(v, params[v].address, params[v].version)
        BY <2>4, <4>1 DEF ContentsOf
      <4>4. params[v].contents \in ContentsAt(v, key[5][v][1], key[5][v][2])'
        BY <2>2, <4>2, <4>3 DEF ContentsAt
      <4>5. vectors[v] = VectorOf(key[5][v][3], v, key[3], params[v].contents)
        BY <2>5, <3>3, <4>1, <4>2
      <4> QED
        BY <4>4, <4>5
    <3> QED
      BY <2>3, <2>6, <2>8, <3>2, <3>4, <3>5, <3>6, <3>7 DEF KeptAsStamped
  <2> QED
    BY <2>1, <2>9, <2>10
<1>6. CASE UNCHANGED <<params, past, cache>> /\ pc' # "prepacked"
  BY <1>1, <1>6 DEF Remembered, KeptAsStamped, PreparedAsStamped, ContentsAt
<1>7. CASE UNCHANGED vars
  BY <1>1, <1>7 DEF vars, world, call, Remembered, KeptAsStamped, PreparedAsStamped,
       ContentsOf, ContentsAt
<1> QED
  BY <1>2, <1>3, <1>4, <1>5, <1>6, <1>7

\* However often the parameters were written, replaced or moved meanwhile, and whether or
\* not memory is reused: a call that finds its packed weight kept, or packs it, uses the
\* weight, the bias, the scale and the shift as they once were at the address and version
\* they have now, each of them whole (linear.py, _parameter_key and LinearCache).  Where no
\* two tensors share an address and a version these are the parameters as they are.
THEOREM KeptWeightsAreOfTheirStamp == Spec => []PreparedAsStamped
PROOF
<1>1. Init => StampedInv
  BY InitStamped
<1>2. StampedInv /\ [Next]_vars => StampedInv'
  BY StepInv, StepStamped DEF StampedInv
<1>3. StampedInv => PreparedAsStamped
  BY DEF StampedInv
<1> QED
  BY <1>1, <1>2, <1>3, PTL DEF Spec
=============================================================================
