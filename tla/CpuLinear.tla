------------------------------ MODULE CpuLinear ------------------------------
(***************************************************************************)
(* A program that calls the CPU kernels: matmul, bmm, and linear layers     *)
(* whose packed weights it keeps from call to call.  Kernels bound to their *)
(* operands are cached in the process; parameters change, and so does the   *)
(* environment, between calls.  One step is one kernel launch, one lookup   *)
(* or one decision.                                                         *)
(***************************************************************************)
EXTENDS CpuMatmul

CONSTANTS Programs,        \* the requests a program makes, whether it keeps packed
                           \* weights, and bounds on its calls and on changes meanwhile
          Threads,         \* values of OMP_NUM_THREADS
          BoundSize,       \* _FUSED_PACK_BOUND_SIZE
          TileElements,    \* _TILE_ELEMENTS // 32
          RecyclesMemory   \* whether a new parameter may get a freed address

IsLinear(r) == r.fn \in {"linear", "linear_affine"}

(* Weights are given as [N, K], both to linear layers and to be packed.      *)
ASSUME CpuAssumption ==
  /\ \A p \in Programs : \A r \in p.requests :
       /\ {r.m, r.n, r.k, r.kb, r.batch} \subseteq Nat \ {0}
       /\ IsLinear(r) \/ r.fn = "prepacked" => r.transB = TRUE
       /\ r.tiles = <<>> \/ r.tiles \in [1 .. 3 -> Nat \ {0}]
  /\ Threads \subseteq Nat \ {0} /\ BoundSize \in Nat \ {0}
  /\ RecyclesMemory \in BOOLEAN

VARIABLES program, params, past, keeps, threads, bound, cache, pc, request, a, b, vectors,
          part, kernel, out, outcome, calls, changes

call == <<request, a, b, vectors, part, kernel, out, outcome>>
world == <<params, past, keeps, threads, changes>>
vars == <<program, world, bound, cache, pc, call, calls>>

Vectors == {"bias", "scale", "shift"}
NoVectors == [v \in Vectors |-> NoTensor]
NoCache == [key |-> <<>>, packed |-> NoTensor, vectors |-> NoVectors]
NoKernel == [key |-> <<>>, plan |-> <<>>, epilogue |-> "", biasType |-> "", has |-> {}]

Init ==
  /\ program \in Programs
  /\ params = [p \in Vectors \cup {"weight"} |-> [address |-> 1, version |-> 0, contents |-> 0]]
  /\ past = [p \in DOMAIN params |-> {params[p]}]
  /\ keeps \in program.keeps /\ threads \in Threads
  /\ bound = <<>> /\ cache = NoCache /\ pc = "idle" /\ request = (CHOOSE r \in program.requests : TRUE)
  /\ a = NoTensor /\ b = NoTensor /\ vectors = NoVectors
  /\ part = [item |-> 1, from |-> 0, rows |-> 0, tile |-> 0]
  /\ kernel = NoKernel /\ out = <<>> /\ outcome = "" /\ calls = 0 /\ changes = 0

(***************************************************************************)
(* Between calls: a parameter is written in place, which counts up its      *)
(* version, or replaced by another tensor; the environment changes.  The    *)
(* memory of a replaced tensor may be freed and reused, at once or later;   *)
(* past[p] holds the tensors that parameter p ever was.                     *)
(***************************************************************************)
Change(p, parameter) ==
  LET new == [parameter EXCEPT !.contents = changes + 1]
  IN  /\ params' = [params EXCEPT ![p] = new]
      /\ past' = [past EXCEPT ![p] = @ \cup {new}]

UpdateInPlace(p) == Change(p, [params[p] EXCEPT !.version = @ + 1])

Replace(p) ==
  \E address \in 1 .. changes + 2 :
    /\ RecyclesMemory \/ address = changes + 2
    /\ Change(p, [params[p] EXCEPT !.address = address, !.version = 0])

(* The parameters some request of the program reads. *)
Used == {p \in DOMAIN params : \E r \in program.requests :
           IF p = "weight" THEN IsLinear(r) ELSE r[p] # "none"}

Meanwhile ==
  /\ pc = "idle" /\ changes < program.changes /\ calls < program.calls
  /\ changes' = changes + 1
  /\ \/ /\ \E p \in Used : UpdateInPlace(p) \/ Replace(p)
        /\ UNCHANGED <<keeps, threads>>
     \/ /\ \/ keeps' = ~keeps /\ UNCHANGED threads
           \/ threads' \in Threads \ {threads} /\ UNCHANGED keeps
        /\ UNCHANGED <<params, past>>
  /\ UNCHANGED <<program, bound, cache, pc, call, calls>>

(***************************************************************************)
(* The operands of a request.  An element of A is <<"a", item, i, k>>, of B *)
(* <<"b", item, k, j, contents>>, of a vector <<name, j, contents>>.        *)
(***************************************************************************)
Matrix(rows, cols, transposed, Element2(_, _)) ==
  IF transposed THEN Build(<<cols, rows>>, LAMBDA p : Element2(p[2], p[1]))
  ELSE Build(<<rows, cols>>, LAMBDA p : Element2(p[1], p[2]))

OperandA(r, item) ==
  Matrix(r.m, r.k, r.transA, LAMBDA i, k : <<"a", item, i, k>>)

OperandB(r, item) ==
  Matrix(r.kb, r.n, r.transB, LAMBDA k, j : <<"b", item, k, j, params["weight"].contents>>)

Vector(r, v) ==
  CASE r[v] = "none" -> NoTensor
    [] r[v] = "one"  -> Build(<<1>>, LAMBDA p : <<v, 0, params[v].contents>>)
    [] r[v] = "full" -> Build(<<r.n>>, LAMBDA p : <<v, p[1], params[v].contents>>)

Supports(r) == r.k = r.kb

(* Mutant of CacheKey: the versions of the parameters are left out. *)
AddressKey(r) == <<params["weight"].address, r.n, r.kb,
                   [v \in {w \in Vectors : r[w] # "none"} |-> <<params[v].address, r[v]>>],
                   r.dtype, r.m>>

CacheKey(r) == <<params["weight"].address, params["weight"].version, r.n, r.kb,
                 [v \in {w \in Vectors : r[w] # "none"} |->
                    <<params[v].address, params[v].version, r[v]>>],
                 r.dtype, r.m>>

SetCall(r, step, operandB, vecs) ==
  /\ request' = r /\ pc' = step /\ calls' = calls + 1
  /\ a' = OperandA(r, 1) /\ b' = operandB /\ vectors' = vecs
  /\ part' = [item |-> 1, from |-> 0, rows |-> r.m, tile |-> 0]
  /\ kernel' = NoKernel /\ out' = <<>> /\ outcome' = ""

RowWise == {"matvec", "row_sum", "group_norm"}

(* linear() and linear_affine(): with a cache of the packed weight or not.   *)
UsesMatmul(r) == ~keeps /\ (r.fn = "linear" \/ r.dtype = "bf16")

Cached(r) == cache # NoCache /\ cache.key = CacheKey(r)

Call(r) ==
  /\ pc = "idle" /\ calls < program.calls
  /\ LET read == [v \in Vectors |-> Vector(r, v)]
     IN  \/ /\ r.fn \in RowWise /\ SetCall(r, "rows", OperandB(r, 1), read)
            /\ UNCHANGED cache
         \/ /\ r.fn \in {"matmul", "bmm"} /\ SetCall(r, "matmul", OperandB(r, 1), read)
            /\ UNCHANGED cache
         \/ /\ IsLinear(r) /\ UsesMatmul(r) /\ SetCall(r, "matmul", OperandB(r, 1), read)
            /\ cache' = NoCache
         \/ /\ IsLinear(r) /\ keeps /\ Cached(r)
            /\ SetCall(r, "prepacked", cache.packed, cache.vectors)
            /\ UNCHANGED cache
         \/ /\ \/ r.fn = "prepacked"
               \/ IsLinear(r) /\ ~UsesMatmul(r) /\ ~(keeps /\ Cached(r))
            /\ SetCall(r, "pack", OperandB(r, 1), read)
            /\ UNCHANGED cache
  /\ UNCHANGED <<program, world, bound>>

Raise(error) == outcome' = error /\ pc' = "done"

Return(result) == out' = result /\ outcome' = "result" /\ pc' = "done"

(* _pack_weight: VNNI panels for bf16 with an even K, else square blocks.    *)
PackWeight ==
  LET vnni == request.dtype = "bf16" /\ request.kb % 2 = 0
      packed == IF vnni THEN PackPanels(b, VnniPanel(request.m, request.n, threads))
                ELSE PackB(b, TRUE)
  IN  /\ pc = "pack"
      /\ b' = packed /\ pc' = "prepacked"
      /\ cache' = IF ~IsLinear(request) THEN cache
                  ELSE IF keeps THEN [key |-> CacheKey(request), packed |-> packed, vectors |-> vectors]
                  ELSE NoCache
      /\ UNCHANGED <<program, world, bound, request, a, vectors, part, kernel, out, outcome, calls>>

(***************************************************************************)
(* matmul(): bf16 runs the fused-pack kernel, on operands padded to a tile  *)
(* if they are smaller than one; anything else is packed into blocks.       *)
(***************************************************************************)
SmallerThanTile(r) == Least(r.m, r.n) < Block \/ r.k < 2 * Block

Matmul ==
  /\ pc = "matmul"
  /\ UNCHANGED <<program, world, bound, cache, request, part, kernel, out, calls>>
  /\ \/ ~Supports(request) /\ Raise("ValueError") /\ UNCHANGED <<a, b, vectors>>
     \/ /\ Supports(request) /\ request.dtype # "bf16"
        /\ pc' = "blocks" /\ a' = PackA(a, request.transA) /\ b' = PackB(b, request.transB)
        /\ vectors' = IF request.scale # "none" \/ request.shift # "none"
                      THEN FilledVectors(vectors, request.n, RoundUp(request.n, Block))
                      ELSE PaddedVectors(vectors, RoundUp(request.n, Block))
        /\ UNCHANGED outcome
     \/ /\ Supports(request) /\ request.dtype = "bf16" /\ pc' = "bind"
        /\ LET m == RoundUp(request.m, Block)
               n == RoundUp(request.n, Block)
               k == RoundUp(request.k, 2 * Block)
               full == [vectors EXCEPT
                          !.scale = AffineVector(@, request.n, request.n, NoTensor),
                          !.shift = AffineVector(@, request.n, request.n, NoTensor)]
           IN  IF SmallerThanTile(request)
               THEN /\ a' = IF request.transA THEN Pad2(a, k, m) ELSE Pad2(a, m, k)
                    /\ b' = IF request.transB THEN Pad2(b, n, k) ELSE Pad2(b, k, n)
                    /\ vectors' = PaddedVectors(full, n)
               ELSE vectors' = full /\ UNCHANGED <<a, b>>
        /\ UNCHANGED outcome

(***************************************************************************)
(* The process's cache of bound kernels, least recently used first.  Its    *)
(* key says all that the choice of tiles and the traced kernel depend on,   *)
(* but for the type of the bias.                                            *)
(***************************************************************************)
Present == {v \in Vectors : vectors[v] # NoTensor}

Bind(key, plan, next) ==
  LET hits == {i \in DOMAIN bound : bound[i].key = key}
      hit == CHOOSE i \in hits : TRUE
      new == [key |-> key, plan |-> plan, epilogue |-> request.epilogue,
              biasType |-> request.biasType, has |-> Present]
      longer == Append(bound, new)
  IN  /\ IF hits # {}
         THEN kernel' = bound[hit] /\ bound' = Append(RemoveAt(bound, hit), bound[hit])
         ELSE /\ kernel' = new
              /\ bound' = IF Len(longer) > BoundSize THEN Tail(longer) ELSE longer
      /\ pc' = next
      /\ UNCHANGED <<program, world, cache, request, a, b, vectors, part, out, outcome, calls>>

(* bmm() writes whole tiles in place into the batched result. *)
HasOut == request.fn = "bmm" /\ ~SmallerThanTile(request)

(* Mutant of FusedKey: the number of threads is left out. *)
ShapeKey(m, n, k) ==
  <<"fused", m, n, k, request.transA, request.transB, Present, HasOut, request.tiles,
    request.epilogue>>

FusedKey(m, n, k) ==
  <<"fused", m, n, k, request.transA, request.transB, Present, HasOut, request.tiles, threads,
    request.epilogue>>

BindFused ==
  /\ pc = "bind"
  /\ LET m == IF request.transA THEN a.shape[2] ELSE a.shape[1]
         n == IF request.transB THEN b.shape[1] ELSE b.shape[2]
         k == IF request.transA THEN a.shape[1] ELSE a.shape[2]
     IN  Bind(FusedKey(m, n, k),
              FusedPlan(m, n, k, request.transA, request.tiles, threads), "fused")

(* A bound kernel refuses a bias of another type than it was bound to. *)
Accepts == "bias" \notin Present \/ kernel.biasType = request.biasType

Traced == [v \in Vectors |-> IF v \in kernel.has THEN vectors[v] ELSE NoTensor]

(* A finished item of the batch: the next one, or the results stacked. *)
FinishItem(result) ==
  LET item == part.item
      cut == Head2(result, <<request.m, request.n>>)
  IN  IF item = request.batch
      THEN /\ Return(Append(out, cut)) /\ UNCHANGED <<a, b, vectors, part>>
      ELSE /\ out' = Append(out, cut) /\ pc' = "matmul" /\ UNCHANGED outcome
           /\ a' = OperandA(request, item + 1) /\ b' = OperandB(request, item + 1)
           /\ vectors' = [v \in Vectors |-> Vector(request, v)]
           /\ part' = [part EXCEPT !.item = item + 1]

LaunchFused ==
  /\ pc = "fused"
  /\ \/ ~Accepts /\ Raise("ValueError") /\ UNCHANGED <<a, b, vectors, part, out>>
     \/ Accepts /\ FinishItem(FusedPack(a, b, Traced, kernel, request.transA, request.transB))
  /\ UNCHANGED <<program, world, bound, cache, request, kernel, calls>>

LaunchBlocked ==
  /\ pc = "blocks"
  /\ LET c == Blocked(a, b, vectors, request.epilogue)
     IN  FinishItem(Reshape2(c, c.shape[1] * Block, c.shape[3] * Block))
  /\ UNCHANGED <<program, world, bound, cache, request, kernel, calls>>

(***************************************************************************)
(* matmul_prepacked_b(): B comes packed.  In panels, rows past the last     *)
(* whole tile run as a second call, padded; in blocks, A is packed.         *)
(***************************************************************************)
InPanels == b.shape[4] = 2

(* Mutant of Compatible: the padding of K is not counted. *)
CompatibleUnpadded ==
  IF InPanels
  THEN /\ request.dtype = "bf16" /\ b.shape[3] % Block = 0 /\ request.k % 2 = 0
       /\ 2 * b.shape[2] = request.k
       /\ b.shape[1] * b.shape[3] = RoundUp(request.n, b.shape[3])
  ELSE /\ b.shape[2] * Block = request.k
       /\ b.shape[1] * Block = RoundUp(request.n, Block)

Compatible ==
  IF InPanels
  THEN /\ request.dtype = "bf16" /\ b.shape[3] % Block = 0 /\ request.k % 2 = 0
       /\ 2 * b.shape[2] = RoundUp(request.k, Block)
       /\ b.shape[1] * b.shape[3] = RoundUp(request.n, b.shape[3])
  ELSE /\ b.shape[2] * Block = RoundUp(request.k, Block)
       /\ b.shape[1] * Block = RoundUp(request.n, Block)

PlanRows ==
  LET width == b.shape[1] * b.shape[3]
      tile == PrepackedRows(request.m, b.shape[1], b.shape[3], threads)
      bulk == RoundDown(request.m, tile)
      rest == RoundUp(request.m, Block)
      full == [vectors EXCEPT !.scale = AffineVector(@, request.n, request.n, NoTensor),
                              !.shift = AffineVector(@, request.n, request.n, NoTensor)]
  IN  /\ part' = [part EXCEPT !.rows = IF bulk = 0 THEN rest ELSE bulk,
                              !.tile = IF bulk = 0 THEN rest ELSE tile]
      /\ vectors' = PaddedVectors(full, width)
      /\ pc' = "bind_rows" /\ UNCHANGED <<a, b, outcome>>

Prepacked ==
  /\ pc = "prepacked"
  /\ \/ ~Compatible /\ Raise("ValueError") /\ UNCHANGED <<a, b, vectors, part>>
     \/ Compatible /\ InPanels /\ PlanRows
     \/ /\ Compatible /\ ~InPanels /\ pc' = "blocks" /\ a' = PackA(a, FALSE)
        /\ vectors' = IF request.scale # "none" \/ request.shift # "none"
                      THEN FilledVectors(vectors, request.n, b.shape[1] * Block)
                      ELSE PaddedVectors(vectors, b.shape[1] * Block)
        /\ UNCHANGED <<b, part, outcome>>
  /\ UNCHANGED <<program, world, bound, cache, request, kernel, out, calls>>

BindRows ==
  /\ pc = "bind_rows"
  /\ LET whole == part.from = 0 /\ part.rows = request.m
         key == <<"prepacked", part.rows, b.shape[1] * b.shape[3], b.shape[3], request.k \div 2,
                  part.tile, ~whole, Present, threads, request.epilogue>>
     IN  Bind(key, PrepackedPlan(part.tile, request.k \div 2, b.shape[3]), "rows_of_tiles")

LaunchRows ==
  /\ pc = "rows_of_tiles"
  /\ LET rows == Tile(a, <<part.from, 0>>, <<part.rows, request.k>>)
         c == PrepackedVnni(View(rows, <<part.rows, request.k \div 2, 2>>), b, Traced, kernel)
         upto == part.from + part.rows
         all == [shape |-> <<upto, b.shape[1] * b.shape[3]>>,
                 data |-> (IF out = <<>> THEN <<>> ELSE out[1].data) \o c.data]
         rest == RoundUp(request.m - upto, Block)
     IN  \/ ~Accepts /\ Raise("ValueError") /\ UNCHANGED <<out, part>>
         \/ /\ Accepts /\ upto >= request.m
            /\ Return(<<Head2(all, <<request.m, request.n>>)>>) /\ UNCHANGED part
         \/ /\ Accepts /\ upto < request.m /\ out' = <<all>> /\ pc' = "bind_rows"
            /\ part' = [part EXCEPT !.from = upto, !.rows = rest, !.tile = rest]
            /\ UNCHANGED outcome
  /\ UNCHANGED <<program, world, bound, cache, request, a, b, vectors, kernel, calls>>

(***************************************************************************)
(* Row-wise kernels: one launch each.                                       *)
(***************************************************************************)
LaunchRowWise ==
  /\ pc = "rows"
  /\ \/ request.fn = "matvec" /\ Return(<<MatVec(a, b, Block)>>)
     \/ request.fn = "row_sum" /\ Return(<<RowSum(a, Least(request.k, 2 * Block))>>)
     \/ /\ request.fn = "group_norm" /\ request.k % request.n # 0 /\ Raise("ValueError")
        /\ UNCHANGED out
     \/ /\ request.fn = "group_norm" /\ request.k % request.n = 0
        /\ LET size == request.k \div request.n
               perTile == GroupsPerTile(request.n, size, TileElements)
           IN  Return(<<GroupNorm(a, request.n,
                                  RowTile(request.m, perTile * size, request.n \div perTile,
                                          32 * TileElements, threads), perTile)>>)
  /\ UNCHANGED <<program, world, bound, cache, request, a, b, vectors, part, kernel, calls>>

Leave == /\ pc = "done" /\ pc' = "idle"
         /\ UNCHANGED <<program, world, bound, cache, call, calls>>

Step == \/ \E r \in program.requests : Call(r)
        \/ PackWeight \/ Matmul \/ BindFused \/ LaunchFused \/ LaunchBlocked
        \/ Prepacked \/ BindRows \/ LaunchRows \/ LaunchRowWise \/ Leave

Next == Meanwhile \/ Step

Spec == Init /\ [][Next]_vars
-----------------------------------------------------------------------------
(***************************************************************************)
(* Properties.                                                              *)
(***************************************************************************)

HasResult == pc = "done" /\ outcome = "result"

Anonymous(x) == IF x = Zero THEN x ELSE SubSeq(x, 1, 4)

(* Element (i, j) of every product is the sum of a[i, k] * b[k, j] over every
   k once, in order, with the bias, scale and shift of column j and the
   epilogue of this call, whatever tiles, K chunks, padding and packing were
   chosen (matmul, bmm, linear and the prepacked kernels). *)
ResultIsProduct ==
  HasResult /\ request.fn \notin RowWise =>
    \A item \in 1 .. request.batch :
      /\ out[item].shape = <<request.m, request.n>>
      /\ \A i \in 0 .. request.m - 1, j \in 0 .. request.n - 1 :
           LET e == At(out[item], <<i, j>>)
               Wanted(v, neutral) ==
                 CASE request[v] = "none" -> neutral
                   [] request[v] = "one"  -> <<v, 0>>
                   [] request[v] = "full" -> <<v, j>>
               Named(x) == IF Len(x) > 1 THEN SubSeq(x, 1, 2) ELSE x
           IN  /\ [t \in DOMAIN e.dot |-> <<e.dot[t][1], Anonymous(e.dot[t][2])>>]
                    = [k \in 1 .. request.k |->
                        << <<"a", item, i, k - 1>>, <<"b", item, k - 1, j>> >>]
               /\ Named(e.bias) = Wanted("bias", Zero)
               /\ Named(e.scale) = Wanted("scale", One)
               /\ Named(e.shift) = Wanted("shift", Zero)
               /\ e.epilogue = request.epilogue

(* The contents that the elements of a product were made of. *)
MadeOf(p) ==
  LET elements == UNION {ToSet(out[item].data) : item \in DOMAIN out}
  IN  IF p = "weight" THEN UNION {{term[2][5] : term \in ToSet(e.dot)} : e \in elements}
      ELSE {e[p][3] : e \in {d \in elements : Len(d[p]) = 3}}

(* The contents that parameter p ever had at an address and version.        *)
ContentsAt(p, address, version) ==
  {t.contents : t \in {u \in past[p] : u.address = address /\ u.version = version}}

ContentsOf(p) == ContentsAt(p, params[p].address, params[p].version)

(* Whatever was updated, replaced or moved between the calls, and whatever is
   kept packed: a layer that keeps its packed weight uses the parameters as
   they once were at the address and version they have now (linear.py,
   _parameter_key), the same contents throughout a call; every other product
   uses them as they are. *)
ParametersAsStamped ==
  HasResult /\ request.fn \notin RowWise =>
    \A p \in DOMAIN params :
      /\ MadeOf(p) \subseteq ContentsOf(p) /\ Cardinality(MadeOf(p)) <= 1
      /\ ~(IsLinear(request) /\ keeps) => MadeOf(p) \subseteq {params[p].contents}

(* matvec and row_sum reduce every element of a row exactly once; group_norm
   normalises a channel by exactly the channels of its group. *)
RowsReduced ==
  HasResult /\ request.fn \in RowWise =>
    \A i \in 0 .. request.m - 1 :
      LET row == {<<"a", 1, i, k>> : k \in 0 .. request.k - 1}
          size == request.k \div request.n
          sum == At(out[1], <<i, 0>>)
      IN  CASE request.fn = "row_sum" -> Len(sum) = request.k /\ ToSet(sum) = row
            [] request.fn = "matvec" ->
                 /\ Len(sum) = request.k
                 /\ \A t \in DOMAIN sum : Anonymous(sum[t][2]) = <<"b", 1, sum[t][1][4], 0>>
                 /\ {sum[t][1] : t \in DOMAIN sum} = row
            [] request.fn = "group_norm" ->
                 \A k \in 0 .. request.k - 1 :
                   LET e == At(out[1], <<i, k>>)
                   IN  /\ e.x = <<"a", 1, i, k>> /\ e.channel = k
                       /\ e.over = [c \in 1 .. size |->
                                      <<"a", 1, i, RoundDown(k, size) + c - 1>>]

(* A call that its function supports fails only when an earlier call bound
   the kernel it finds to a bias of another type. *)
RefusalsExplained ==
  pc = "done" /\ outcome = "ValueError" =>
    \/ ~Supports(request)
    \/ request.fn = "group_norm" /\ request.k % request.n # 0
    \/ kernel # NoKernel /\ kernel.biasType # request.biasType

(* A launched kernel walks the problem by the tiles that would be chosen for
   it now, although it may have been bound many calls ago. *)
TilesChosenForThisCall ==
  /\ pc = "fused" =>
       kernel.plan = FusedPlan(IF request.transA THEN a.shape[2] ELSE a.shape[1],
                               IF request.transB THEN b.shape[1] ELSE b.shape[2],
                               IF request.transA THEN a.shape[1] ELSE a.shape[2],
                               request.transA, request.tiles, threads)
  /\ pc = "rows_of_tiles" =>
       kernel.plan = PrepackedPlan(part.tile, request.k \div 2, b.shape[3])

(* Chosen tiles are whole register tiles, and K is walked in whole steps of two
   blocks.  Their accumulator keeps the limit but for the rounding of its rows
   to blocks, which happens after the limit was applied (_balanced_rows). *)
TilesFit ==
  pc = "fused" /\ request.tiles = <<>> =>
    LET plan == kernel.plan
    IN  /\ plan.rows % Block = 0 /\ plan.cols % Block = 0 /\ plan.chunk % (2 * Block) = 0
        /\ plan.rows > 0 /\ plan.cols > 0 /\ plan.chunk > 0
        /\ plan.rows <= RoundUp(Accumulator \div plan.cols, Block)

(* The cache of bound kernels stays bounded and keeps the one just used. *)
BoundKernels ==
  /\ Len(bound) <= BoundSize
  /\ pc \in {"fused", "rows_of_tiles"} => bound[Len(bound)] = kernel

-----------------------------------------------------------------------------
(* What the sources say and the code does not do.                           *)

(* linear.py:85-86: a weight is packed once "and reused until the source
   parameters, input dtype, or device change", so a product is made of the
   weight and the vectors as they are when the call is made. *)
ParametersCurrent ==
  HasResult /\ request.fn \notin RowWise =>
    \A p \in DOMAIN params : MadeOf(p) \subseteq {params[p].contents}

(* matmul.py:356: of tiles it chooses, "the f32 accumulator stays within" its
   limit, which the stack promotion of pipeline.yaml has too. *)
AccumulatorsStay ==
  \A i \in DOMAIN bound :
    LET key == bound[i].key
    IN  key[1] = "fused" /\ key[9] = <<>> => bound[i].plan.rows * bound[i].plan.cols <= Accumulator

(* linear.py:85-86 and matmul.py:356, the two claims above: in every state at
   least one of them holds. *)
SomeClaimHolds == ParametersCurrent \/ AccumulatorsStay

-----------------------------------------------------------------------------
(* Every result is the one its function defines, whatever was chosen for it. *)
ResultsRight == ResultIsProduct /\ RowsReduced

(* A kernel that is launched, cached or new, is the one for this call, and
   its tiles fit the registers and the accumulator. *)
LaunchedKernelsFit == TilesChosenForThisCall /\ TilesFit /\ BoundKernels
=============================================================================
