----------------------------- MODULE KernelCall -----------------------------
(***************************************************************************)
(* One call of a compiled kernel: the host code runs to the device loops,  *)
(* the arguments are checked, staged as contiguous buffers none of which   *)
(* the entry writes while another argument reads it, the entry runs on     *)
(* them, and the staged copies of the written tensors are copied back.     *)
(*                                                                         *)
(* Memory is a line of cells.  A tensor is a start, a size and a stride,   *)
(* its element j being cell start + j * stride.  The entry's loads and     *)
(* stores happen in any order, as the restrict arguments allow.            *)
(***************************************************************************)
EXTENDS Integers, Sequences, FiniteSets

CONSTANTS
  Calls,    \* the argument lists explored
  Cells     \* the cells of memory: 0..n

(***************************************************************************)
(* An argument: its role, the size the kernel was compiled for, and the    *)
(* tensor it is given.  A compiled size is a number, a symbol, or half of  *)
(* a symbol (a size expression the kernel computes, like n // 2).          *)
(***************************************************************************)
Tensor == [start: Nat, size: Nat, stride: Nat]

Symbols == {"n", "m"}

SizeExpr == [kind: {"static"}, value: Nat] \union [kind: {"symbol", "half"}, of: Symbols]

Arg == [role: {"in", "inout"}, size: SizeExpr, tensor: Tensor]

\* The cell of element j, and all of a tensor's cells.
Address(t, j) == t.start + j * t.stride
Elements(t) == 0..(t.size - 1)
Footprint(t) == {Address(t, j) : j \in Elements(t)}

ASSUME CallsAssumption ==
  /\ Cells \subseteq Nat
  /\ \A call \in Calls :
       /\ call \in Seq(Arg)
       /\ \A a \in DOMAIN call : Footprint(call[a].tensor) \subseteq Cells

IsContiguous(t) == t.size <= 1 \/ t.stride = 1

\* The half-open range of cells a tensor that is not empty spans.
ByteSpan(t) ==
  [from |-> t.start,
   to |-> IF IsContiguous(t) THEN t.start + t.size ELSE t.start + (t.size - 1) * t.stride + 1]

\* Mutant of SpansOverlap: only an overlap that starts in the second span.
StartsWithin(s, o) == o.from <= s.from /\ s.from < o.to

SpansOverlap(s, o) == s.from < o.to /\ o.from < s.to

\* Elements of one tensor sharing a cell: torch refuses to copy into it.
SelfOverlapping(t) == t.size > 1 /\ t.stride = 0

-----------------------------------------------------------------------------
VARIABLES
  call,     \* the argument list, fixed
  phase,    \* how far run() got
  next,     \* the argument the staging or the copy back is at
  memory,   \* cell -> contents
  staged,   \* argument -> "none", "itself" or "copy"
  copies,   \* argument -> element -> contents of its copy
  loaded,   \* <<argument, element, contents>> of every element the entry loaded
  stored    \* <<argument, element>> of every element the entry stored

vars == <<call, phase, next, memory, staged, copies, loaded, stored>>

Args == DOMAIN call
Ins == {a \in Args : call[a].role = "in"}
Inouts == {a \in Args : call[a].role = "inout"}

\* Contents of a cell before the call, and of an element the entry stored.
Before(c) == <<c>>
Stored(a, j) == <<a, j>>

Init ==
  /\ call \in Calls
  /\ phase = "host"
  /\ next = 1
  /\ memory = [c \in Cells |-> Before(c)]
  /\ staged = [a \in Args |-> "none"]
  /\ copies = [a \in Args |-> <<>>]
  /\ loaded = {}
  /\ stored = {}

\* The host code returns before the device loops.
EarlyReturn ==
  /\ phase = "host"
  /\ phase' = "returned"
  /\ UNCHANGED <<call, next, memory, staged, copies, loaded, stored>>

\* The host code reaches the device loops; a tensor of another static size raises.
CheckTensors ==
  /\ phase = "host"
  /\ phase' = IF \E a \in Args : /\ call[a].size.kind = "static"
                               /\ call[a].size.value # call[a].tensor.size
              THEN "raised" ELSE "tensors_checked"
  /\ UNCHANGED <<call, next, memory, staged, copies, loaded, stored>>

\* The first argument whose size is a symbol binds it.
Binders(s) == {a \in Args : call[a].size.kind = "symbol" /\ call[a].size.of = s}
Bound(s) == call[CHOOSE a \in Binders(s) : \A b \in Binders(s) : a <= b].tensor.size

\* Mutant of SizeMismatch: a computed size is not checked.
SymbolMismatch ==
  \E a \in Args :
    /\ call[a].size.kind = "symbol"
    /\ Binders(call[a].size.of) # {}
    /\ call[a].tensor.size # Bound(call[a].size.of)

SizeMismatch ==
  \E a \in Args :
    LET size == call[a].size
    IN  /\ size.kind # "static"
        /\ Binders(size.of) # {}
        /\ call[a].tensor.size #
             IF size.kind = "symbol" THEN Bound(size.of) ELSE Bound(size.of) \div 2

CheckSizes ==
  /\ phase = "tensors_checked"
  /\ phase' = IF SizeMismatch THEN "raised" ELSE "sizes_checked"
  /\ UNCHANGED <<call, next, memory, staged, copies, loaded, stored>>

InoutSpans == {a \in Inouts : call[a].tensor.size > 0}

Overlap(a, b) == SpansOverlap(ByteSpan(call[a].tensor), ByteSpan(call[b].tensor))

\* Two written tensors that share memory are refused.
CheckInouts ==
  /\ phase = "sizes_checked"
  /\ phase' = IF \E a, b \in InoutSpans : a < b /\ Overlap(a, b) THEN "raised" ELSE "staging"
  /\ UNCHANGED <<call, next, memory, staged, copies, loaded, stored>>

\* Mutant of OverlapsAny: compares only the tensors' starts.
SameStartAsAny(a) ==
  \E b \in InoutSpans : call[a].tensor.start = call[b].tensor.start

OverlapsAny(a) == call[a].tensor.size > 0 /\ \E b \in InoutSpans : Overlap(a, b)

\* An input that overlaps a written tensor, or a strided tensor, is copied.
Stage ==
  /\ phase = "staging"
  /\ next <= Len(call)
  /\ LET t == call[next].tensor
         copied == ~IsContiguous(t) \/ (call[next].role = "in" /\ OverlapsAny(next))
     IN  /\ staged' = [staged EXCEPT ![next] = IF copied THEN "copy" ELSE "itself"]
         /\ copies' = [copies EXCEPT ![next] =
              IF copied THEN [j \in Elements(t) |-> memory[Address(t, j)]] ELSE @]
  /\ next' = next + 1
  /\ UNCHANGED <<call, phase, memory, loaded, stored>>

\* Mutant of CallEntry: the copy back starts where the staging ended.
CallEntryKeepingNext ==
  /\ phase = "staging"
  /\ next > Len(call)
  /\ phase' = "entry"
  /\ next' = next + 1
  /\ UNCHANGED <<call, memory, staged, copies, loaded, stored>>

CallEntry ==
  /\ phase = "staging"
  /\ next > Len(call)
  /\ phase' = "entry"
  /\ next' = 1
  /\ UNCHANGED <<call, memory, staged, copies, loaded, stored>>

\* The entry addresses a buffer as contiguous from its start.
BufferAddress(a, j) == call[a].tensor.start + j

Contents(a, j) == IF staged[a] = "copy" THEN copies[a][j] ELSE memory[BufferAddress(a, j)]

EntryLoad(a, j) ==
  /\ phase = "entry"
  /\ loaded' = loaded \union {<<a, j, Contents(a, j)>>}
  /\ UNCHANGED <<call, phase, next, memory, staged, copies, stored>>

EntryStore(a, j) ==
  /\ phase = "entry"
  /\ IF staged[a] = "copy"
     THEN copies' = [copies EXCEPT ![a][j] = Stored(a, j)] /\ UNCHANGED memory
     ELSE memory' = [memory EXCEPT ![BufferAddress(a, j)] = Stored(a, j)] /\ UNCHANGED copies
  /\ stored' = stored \union {<<a, j>>}
  /\ UNCHANGED <<call, phase, next, staged, loaded>>

EntryReturns ==
  /\ phase = "entry"
  /\ phase' = "copying_back"
  /\ UNCHANGED <<call, next, memory, staged, copies, loaded, stored>>

\* Mutant of NeedsCopyBack: every staged copy goes back, an input's too.
WasCopied(a) == staged[a] = "copy"

NeedsCopyBack(a) == call[a].role = "inout" /\ staged[a] = "copy"

\* A written tensor whose buffer is not itself gets its copy's elements.
CopyBack ==
  /\ phase = "copying_back"
  /\ next <= Len(call)
  /\ LET t == call[next].tensor
         needed == NeedsCopyBack(next)
     IN  /\ phase' = IF needed /\ SelfOverlapping(t) THEN "raised" ELSE phase
         /\ memory' = IF needed /\ ~SelfOverlapping(t)
                      THEN [c \in Cells |->
                              IF c \in Footprint(t)
                              THEN copies[next][CHOOSE j \in Elements(t) : Address(t, j) = c]
                              ELSE memory[c]]
                      ELSE memory
  /\ next' = next + 1
  /\ UNCHANGED <<call, staged, copies, loaded, stored>>

\* The host code after the device loops runs to its return.
HostReturns ==
  /\ phase = "copying_back"
  /\ next > Len(call)
  /\ phase' = "returned"
  /\ UNCHANGED <<call, next, memory, staged, copies, loaded, stored>>

Terminated == phase \in {"returned", "raised"} /\ UNCHANGED vars

Entry ==
  \/ \E a \in Args : \E j \in Elements(call[a].tensor) : EntryLoad(a, j)
  \/ \E a \in Inouts : \E j \in Elements(call[a].tensor) : EntryStore(a, j)
  \/ EntryReturns

Next ==
  \/ EarlyReturn \/ CheckTensors \/ CheckSizes \/ CheckInouts
  \/ Stage \/ CallEntry \/ Entry \/ CopyBack \/ HostReturns
  \/ Terminated

Spec == Init /\ [][Next]_vars

-----------------------------------------------------------------------------
\* The shape of every variable.
TypeOK ==
  /\ call \in Calls
  /\ phase \in {"host", "tensors_checked", "sizes_checked", "staging", "entry",
                "copying_back", "returned", "raised"}
  /\ next \in 1..(Len(call) + 1)
  /\ memory \in [Cells -> Seq(Nat)]
  /\ staged \in [Args -> {"none", "itself", "copy"}]
  /\ DOMAIN copies = Args
  /\ loaded \subseteq Args \X Nat \X Seq(Nat)
  /\ stored \subseteq Inouts \X Nat

\* The cells the entry reaches through argument a's buffer.
BufferCells(a) ==
  IF staged[a] = "itself" THEN {BufferAddress(a, j) : j \in Elements(call[a].tensor)} ELSE {}

\* While the entry runs, no buffer it writes shares a cell with another argument's
\* buffer: the promise behind the restrict arguments (driver.py, call_entry).
RestrictHolds ==
  phase = "entry" =>
    \A a \in Inouts, b \in Args : a # b => BufferCells(a) \intersect BufferCells(b) = {}

\* However the entry orders its loads and stores, it sees every input as it was
\* before the call (docs/MLIR_DESIGN.md: an overlapping input "is cloned").
InputsReadAsBefore ==
  \A load \in loaded :
    call[load[1]].role = "in" => load[3] = Before(Address(call[load[1]].tensor, load[2]))

\* A call that runs the entry was given sizes that agree: one value per symbol, and
\* half of it where the kernel computes half (driver.py, _check_sizes).
SizesAgree ==
  phase \in {"staging", "entry", "copying_back"} =>
    \A a, b \in Args :
      /\ call[a].size.kind = "symbol" /\ call[b].size.kind # "static"
      /\ call[a].size.of = call[b].size.of
      =>
        call[b].tensor.size = IF call[b].size.kind = "symbol" THEN call[a].tensor.size
                              ELSE call[a].tensor.size \div 2

-----------------------------------------------------------------------------
(***************************************************************************)
(* What the caller sees: either an error and unchanged memory, or every    *)
(* stored element in its place and nothing else changed, unless a tensor   *)
(* it gave the kernel to write refuses the copy back.                      *)
(***************************************************************************)
Finished == phase \in {"returned", "raised"}

\* Each element of a written tensor, and its cell.
WrittenPlaces ==
  [e \in UNION {{a} \X Elements(call[a].tensor) : a \in Inouts} |->
     Address(call[e[1]].tensor, e[2])]

Repeated == \E a \in Inouts : SelfOverlapping(call[a].tensor)

Result == IF Finished THEN phase ELSE "pending"
Seen == IF Finished THEN memory ELSE [c \in Cells |-> Before(c)]
Done == IF Finished THEN stored ELSE {}

Abstract == INSTANCE AtomicCall WITH
  cells <- Cells, places <- WrittenPlaces, repeated <- Repeated,
  result <- Result, contents <- Seen, done <- Done

\* A finished call either raised and changed nothing, or returned with exactly the
\* elements the entry stored in their places, copied back where a tensor is strided;
\* only a call given a tensor to write whose elements share a cell may raise after its
\* stores, with some of them lost (driver.py, call_entry).
CallIsAtomic == Abstract!Spec
=============================================================================
