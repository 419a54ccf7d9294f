----------------------------- MODULE AtomicCall -----------------------------
(***************************************************************************)
(* A kernel call as its caller sees it: one step that either raises and    *)
(* leaves memory alone, or returns with some elements of the tensors the   *)
(* kernel writes replaced, each in its own place.  Given a tensor to write *)
(* whose elements share a cell, it may also raise halfway.                 *)
(***************************************************************************)
VARIABLES
  cells,      \* the cells of memory, fixed
  places,     \* element of a written tensor -> its cell, fixed
  repeated,   \* whether elements of one of these tensors share a cell, fixed
  result,     \* "pending", "returned" or "raised"
  contents,   \* cell -> what it holds
  done        \* the elements the call replaced

Init == result = "pending" /\ done = {} /\ contents = [c \in cells |-> <<c>>]

Raise ==
  /\ result = "pending"
  /\ result' = "raised"
  /\ UNCHANGED <<cells, places, repeated, contents, done>>

\* The contents of memory with these elements replaced.
Replaced(elements) ==
  [c \in cells |-> IF \E e \in elements : places[e] = c
                   THEN CHOOSE e \in elements : places[e] = c ELSE contents[c]]

Return ==
  /\ result = "pending"
  /\ result' = "returned"
  /\ done' \in SUBSET DOMAIN places
  /\ contents' = Replaced(done')
  /\ UNCHANGED <<cells, places, repeated>>

\* Some of the elements replaced did not reach their tensor.
RaiseHalfway ==
  /\ result = "pending"
  /\ repeated
  /\ result' = "raised"
  /\ done' \in SUBSET DOMAIN places
  /\ \E reached \in SUBSET done' : contents' = Replaced(reached)
  /\ UNCHANGED <<cells, places, repeated>>

Next == Raise \/ Return \/ RaiseHalfway

vars == <<cells, places, repeated, result, contents, done>>

Spec == Init /\ [][Next]_vars
=============================================================================
