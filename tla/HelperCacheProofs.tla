-------------------------- MODULE HelperCacheProofs --------------------------
(***************************************************************************)
(* For any modules, helpers and failures of torch-mlir: a module that is   *)
(* built defines what it calls, and whether it is built, or which helper   *)
(* its error names, depends on its own calls only.                         *)
(***************************************************************************)
EXTENDS HelperCache, WellFoundedInduction, TLAPS

\* The calls of m lowered so far.
Made(m) == 1..added[m]

\* The requests are the helpers called so far, each once, in order of first call.
RequestsInOrder(m) ==
  /\ added[m] <= Len(Calls[m])
  /\ stage[m] # "calls" => added[m] = Len(Calls[m])
  /\ \A k \in Made(m) : \E i \in DOMAIN requests[m] : requests[m][i] = Calls[m][k]
  /\ \A i \in DOMAIN requests[m] : \E k \in Made(m) : Calls[m][k] = requests[m][i]
  /\ \A i, j \in DOMAIN requests[m] : i < j =>
       \A k \in Made(m) : Calls[m][k] = requests[m][j] =>
         \E l \in Made(m) : l < k /\ Calls[m][l] = requests[m][i]

\* The requests that are not in the cache are among the missing ones while they are
\* lowered, and there are none once the module takes its copies.
MissingCovered(m) ==
  /\ stage[m] = "calls" => missing[m] = {}
  /\ missing[m] \subseteq ToSet(requests[m])
  /\ stage[m] \in {"lowering", "lowering_alone"} =>
       \A i \in DOMAIN requests[m] : requests[m][i] \in DOMAIN cache \union missing[m]
  /\ stage[m] \in {"cloning", "built"} => ToSet(requests[m]) \subseteq DOMAIN cache

\* A copy is one of a request, with the type of its calls, and is in the cache.
CopiesFit(m) ==
  /\ stage[m] \in {"calls", "lowering", "lowering_alone"} => DOMAIN defined[m] = {}
  /\ DOMAIN defined[m] \subseteq ToSet(requests[m])
  /\ \A h \in DOMAIN defined[m] :
       h \in DOMAIN cache /\ defined[m][h] = Needed[h] /\ Needed[h] = Lowered[h]
  /\ stage[m] = "built" => DOMAIN defined[m] = ToSet(requests[m])

\* An error names the verdict on the module's calls, and nothing is blamed without one.
BlameFits(m) ==
  /\ stage[m] # "raised" => blamed[m] = "none"
  /\ stage[m] = "raised" => blamed[m] \in Helpers /\ blamed[m] = Verdict(m)

Local(m) == RequestsInOrder(m) /\ MissingCovered(m) /\ CopiesFit(m) /\ BlameFits(m)

Inv == HelpersTypeOK /\ \A m \in Modules : Local(m)

-----------------------------------------------------------------------------
\* A set of numbers that is not empty has a least one.
LEMMA LeastNumber ==
  ASSUME NEW S \in SUBSET Nat, S # {}
  PROVE  \E x \in S : \A y \in S : x <= y
PROOF
<1>1. PICK x \in S : \A y \in S : <<y, x>> \notin OpToRel(<, Nat)
  BY NatLessThanWellFounded, WFMin, Zenon
<1>2. \A y \in S : ~(y < x)
  BY <1>1, Zenon DEF OpToRel
<1> QED
  BY <1>2

\* Earliest is an element in the set, at a position that is before all others.
LEMMA EarliestIs ==
  ASSUME NEW T, NEW s \in Seq(T), NEW set, \E i \in DOMAIN s : s[i] \in set
  PROVE  \E i \in DOMAIN s : /\ Earliest(s, set) = s[i] /\ s[i] \in set
                            /\ \A j \in DOMAIN s : s[j] \in set => i <= j
PROOF
<1> DEFINE at == {i \in DOMAIN s : s[i] \in set}
<1>1. at \in SUBSET Nat /\ at # {}
  OBVIOUS
<1>2. PICK i \in at : \A j \in at : i <= j
  BY <1>1, LeastNumber
<1>3. \E k \in DOMAIN s : s[k] \in set /\ \A j \in DOMAIN s : s[j] \in set => k <= j
  BY <1>2
<1> QED
  BY <1>3 DEF Earliest

\* Such a position is the only one.
LEMMA EarliestAt ==
  ASSUME NEW T, NEW s \in Seq(T), NEW set, NEW i \in DOMAIN s, s[i] \in set,
         \A j \in DOMAIN s : s[j] \in set => i <= j
  PROVE  Earliest(s, set) = s[i]
PROOF
<1>1. PICK k \in DOMAIN s : /\ Earliest(s, set) = s[k] /\ s[k] \in set
                           /\ \A j \in DOMAIN s : s[j] \in set => k <= j
  BY EarliestIs
<1>2. k = i
  BY <1>1
<1> QED
  BY <1>1, <1>2

\* Among the requests of a finished module, the first with a property is the first of
\* its calls with that property.
LEMMA FirstRequested ==
  ASSUME HelpersTypeOK, NEW m \in Modules, RequestsInOrder(m), added[m] = Len(Calls[m]), NEW set,
         NEW i \in DOMAIN requests[m], requests[m][i] \in set
  PROVE  FirstOf(m, set) = Earliest(requests[m], set)
PROOF
<1> DEFINE calls == Calls[m]
           asked == requests[m]
<1>1. calls \in Seq(Helpers) /\ asked \in Seq(Helpers)
  BY HelpersAssumption DEF HelpersTypeOK
<1>2. DOMAIN calls = Made(m)
  BY <1>1 DEF Made
<1>3. PICK j \in DOMAIN asked : /\ Earliest(asked, set) = asked[j] /\ asked[j] \in set
                               /\ \A n \in DOMAIN asked : asked[n] \in set => j <= n
  BY <1>1, EarliestIs
<1>4. PICK c \in DOMAIN calls : calls[c] = asked[i]
  BY <1>2 DEF RequestsInOrder
<1>5. PICK k \in DOMAIN calls : /\ Earliest(calls, set) = calls[k] /\ calls[k] \in set
                               /\ \A n \in DOMAIN calls : calls[n] \in set => k <= n
  BY <1>1, <1>4, EarliestIs
<1>6. PICK n \in DOMAIN asked : asked[n] = calls[k]
  BY <1>2 DEF RequestsInOrder
<1>7. j <= n
  BY <1>3, <1>5, <1>6
<1>8. ASSUME j < n PROVE FALSE
  <2>1. PICK l \in Made(m) : l < k /\ calls[l] = asked[j]
    BY <1>2, <1>6, <1>8 DEF RequestsInOrder
  <2> QED
    BY <1>1, <1>2, <1>3, <1>5, <2>1
<1>9. j = n
  BY <1>1, <1>7, <1>8
<1>10. Earliest(calls, set) = asked[j]
  BY <1>5, <1>6, <1>9
<1> QED
  BY <1>3, <1>4, <1>10 DEF FirstOf, ToSet

\* A finished module that requests nothing with a property calls nothing with it.
LEMMA NoneRequested ==
  ASSUME HelpersTypeOK, NEW m \in Modules, RequestsInOrder(m), added[m] = Len(Calls[m]), NEW set,
         \A i \in DOMAIN requests[m] : requests[m][i] \notin set
  PROVE  FirstOf(m, set) = "none"
PROOF
<1>1. DOMAIN Calls[m] = Made(m)
  BY HelpersAssumption DEF Made
<1> QED
  BY <1>1 DEF FirstOf, ToSet, RequestsInOrder

\* The helper a single run fails for is the first of the module's calls that
\* torch-mlir cannot lower: the ones before it are lowered or were in the cache.
LEMMA FailureIsVerdict ==
  ASSUME Inv, NEW m \in Modules, stage[m] = "lowering_alone", missing[m] # {},
         NEW h, h = Earliest(requests[m], missing[m])
  PROVE  /\ h \in missing[m] /\ h \in Helpers
         /\ Lowered[h] = "fails" => Verdict(m) = h
PROOF
<1> DEFINE asked == requests[m]
<1>1. asked \in Seq(Helpers)
  BY DEF Inv, HelpersTypeOK
<1>2. \E j \in DOMAIN asked : asked[j] \in missing[m]
  BY DEF Inv, Local, MissingCovered, ToSet
<1>3. PICK i \in DOMAIN asked : /\ h = asked[i] /\ h \in missing[m]
                               /\ \A j \in DOMAIN asked : asked[j] \in missing[m] => i <= j
  BY <1>1, <1>2, EarliestIs
<1>4. h \in Helpers
  BY <1>1, <1>3
<1>5. ASSUME Lowered[h] = "fails" PROVE Verdict(m) = h
  <2>1. h \in Unlowerable
    BY <1>4, <1>5 DEF Unlowerable
  <2>2. ASSUME NEW j \in DOMAIN asked, asked[j] \in Unlowerable PROVE i <= j
    <3>1. asked[j] \notin DOMAIN cache
      BY <2>2 DEF Inv, HelpersTypeOK, Unlowerable
    <3>2. asked[j] \in missing[m]
      BY <3>1 DEF Inv, Local, MissingCovered
    <3> QED
      BY <1>3, <3>2
  <2>3. Earliest(asked, Unlowerable) = h
    BY <1>1, <1>3, <2>1, <2>2, EarliestAt
  <2>4. FirstOf(m, Unlowerable) = h
    <3>1. added[m] = Len(Calls[m])
      BY DEF Inv, Local, RequestsInOrder
    <3> QED
      BY <1>3, <2>1, <2>3, <3>1, FirstRequested DEF Inv, Local
  <2> QED
    BY <1>4, <2>4, HelpersAssumption DEF Verdict
<1> QED
  BY <1>3, <1>4, <1>5

\* A module whose requests are all in the cache calls nothing torch-mlir cannot lower.
LEMMA AllLowerable ==
  ASSUME Inv, NEW m \in Modules, stage[m] \in {"cloning", "built"}
  PROVE  FirstOf(m, Unlowerable) = "none"
PROOF
<1>1. \A i \in DOMAIN requests[m] : requests[m][i] \notin Unlowerable
  BY DEF Inv, Local, MissingCovered, HelpersTypeOK, ToSet, Unlowerable
<1>2. added[m] = Len(Calls[m])
  BY DEF Inv, Local, RequestsInOrder
<1> QED
  BY <1>1, <1>2, NoneRequested DEF Inv, Local

\* The next request to copy is in the cache, and if it does not fit, it is the first of
\* the module's calls that would not: the ones before it have their copies.
LEMMA MisfitIsVerdict ==
  ASSUME Inv, NEW m \in Modules, stage[m] = "cloning", DOMAIN defined[m] # ToSet(requests[m]),
         NEW h, h = Earliest(requests[m], Helpers \ DOMAIN defined[m])
  PROVE  /\ h \in ToSet(requests[m]) \ DOMAIN defined[m]
         /\ h \in Helpers /\ h \in DOMAIN cache /\ cache[h] = Lowered[h]
         /\ ~Fits(h) => Verdict(m) = h
PROOF
<1> DEFINE asked == requests[m]
           undone == Helpers \ DOMAIN defined[m]
<1>1. asked \in Seq(Helpers)
  BY DEF Inv, HelpersTypeOK
<1>2. \E j \in DOMAIN asked : asked[j] \in undone
  BY <1>1 DEF Inv, Local, CopiesFit, ToSet
<1>3. PICK i \in DOMAIN asked : /\ h = asked[i] /\ h \in undone
                               /\ \A j \in DOMAIN asked : asked[j] \in undone => i <= j
  BY <1>1, <1>2, EarliestIs
<1>4. h \in DOMAIN cache /\ cache[h] = Lowered[h]
  BY <1>3 DEF Inv, Local, MissingCovered, HelpersTypeOK, ToSet
<1>5. ASSUME ~Fits(h) PROVE Verdict(m) = h
  <2>1. h \in Mistyped
    BY <1>3, <1>4, <1>5 DEF Fits, Mistyped
  <2>2. ASSUME NEW j \in DOMAIN asked, asked[j] \in Mistyped PROVE i <= j
    <3>1. asked[j] \in undone
      BY <1>1, <2>2 DEF Inv, Local, CopiesFit, Mistyped
    <3> QED
      BY <1>3, <3>1
  <2>3. Earliest(asked, Mistyped) = h
    BY <1>1, <1>3, <2>1, <2>2, EarliestAt
  <2>4. FirstOf(m, Mistyped) = h
    <3>1. added[m] = Len(Calls[m])
      BY DEF Inv, Local, RequestsInOrder
    <3> QED
      BY <1>3, <2>1, <2>3, <3>1, FirstRequested DEF Inv, Local
  <2> QED
    BY <2>4, AllLowerable DEF Verdict
<1> QED
  BY <1>3, <1>4, <1>5 DEF ToSet

\* The verdict on a module is the same in every state.
LEMMA VerdictFixed == \A m : Verdict(m)' = Verdict(m)
PROOF
  BY DEF Verdict, FirstOf, Earliest, Unlowerable, Mistyped, Helpers, ToSet

-----------------------------------------------------------------------------
\* What a run of torch-mlir adds to the cache is typed, and nothing is taken out.
LEMMA WithAdds ==
  ASSUME HelpersTypeOK, NEW helpers \in SUBSET Helpers, \A h \in helpers : Lowered[h] # "fails",
         cache' = With(helpers)
  PROVE  /\ DOMAIN cache' = DOMAIN cache \union helpers
         /\ DOMAIN cache' \subseteq Helpers
         /\ \A h \in DOMAIN cache' : cache'[h] = Lowered[h] /\ cache'[h] # "fails"
PROOF
  BY DEF HelpersTypeOK, With

\* A module is not disturbed by what others do, since the cache only grows.
LEMMA OthersKeep ==
  ASSUME Inv, NEW n \in Modules, DOMAIN cache \subseteq DOMAIN cache',
         stage'[n] = stage[n], added'[n] = added[n], requests'[n] = requests[n],
         missing'[n] = missing[n], defined'[n] = defined[n], blamed'[n] = blamed[n]
  PROVE  Local(n)'
PROOF
<1> USE DEF Inv, Local
<1>1. RequestsInOrder(n)'
  BY DEF RequestsInOrder, Made
<1>2. MissingCovered(n)'
  BY DEF MissingCovered, ToSet
<1>3. CopiesFit(n)'
  BY DEF CopiesFit, ToSet
<1>4. BlameFits(n)'
  BY VerdictFixed DEF BlameFits
<1> QED
  BY <1>1, <1>2, <1>3, <1>4

\* The requests stay in order while none is added.
LEMMA OrderKept ==
  ASSUME NEW m \in Modules, RequestsInOrder(m), added'[m] = added[m],
         requests'[m] = requests[m], stage'[m] # "calls" => added[m] = Len(Calls[m])
  PROVE  RequestsInOrder(m)'
PROOF
  BY DEF RequestsInOrder, Made

\* A call that asks for a helper adds it behind those the module has asked for.
LEMMA AddKeepsOrder ==
  ASSUME Inv, NEW m \in Modules, Add(m)
  PROVE  RequestsInOrder(m)'
PROOF
<1> DEFINE h == Calls[m][added[m] + 1]
           asked == requests[m]
<1>1. /\ added[m] \in Nat /\ added[m] < Len(Calls[m]) /\ Calls[m] \in Seq(Helpers)
      /\ asked \in Seq(Helpers) /\ stage'[m] = "calls"
  BY HelpersAssumption DEF Inv, HelpersTypeOK, Add
<1>2. added'[m] = added[m] + 1 /\ Made(m)' = Made(m) \union {added[m] + 1} /\ h \in Helpers
  BY <1>1 DEF Inv, HelpersTypeOK, Add, Made
<1>3. requests'[m] = IF Contains(asked, h) THEN asked ELSE Append(asked, h)
  BY DEF Inv, HelpersTypeOK, Add
<1>4. CASE Contains(asked, h)
  <2>1. requests'[m] = asked /\ \E i \in DOMAIN asked : asked[i] = h
    BY <1>1, <1>3, <1>4 DEF Contains
  <2>2. ASSUME NEW i \in DOMAIN asked, NEW j \in DOMAIN asked, i < j,
               NEW k \in Made(m)', Calls[m][k] = asked[j]
        PROVE  \E l \in Made(m)' : l < k /\ Calls[m][l] = asked[i]
    <3>1. PICK c \in Made(m) : Calls[m][c] = asked[j] /\ c <= k
      <4>1. CASE k \in Made(m)
        BY <2>2, <4>1 DEF Made
      <4>2. CASE k = added[m] + 1
        <5>1. PICK c \in Made(m) : Calls[m][c] = asked[j]
          BY DEF Inv, Local, RequestsInOrder
        <5> QED
          BY <1>1, <4>2, <5>1 DEF Made
      <4> QED
        BY <1>2, <4>1, <4>2
    <3>2. PICK l \in Made(m) : l < c /\ Calls[m][l] = asked[i]
      BY <2>2, <3>1 DEF Inv, Local, RequestsInOrder
    <3> QED
      BY <1>1, <1>2, <3>1, <3>2 DEF Made
  <2> QED
    BY <1>1, <1>2, <2>1, <2>2 DEF Inv, Local, RequestsInOrder
<1>5. CASE ~Contains(asked, h)
  <2>1. /\ requests'[m] = Append(asked, h) /\ DOMAIN requests'[m] = 1..Len(asked) + 1
        /\ \A i \in 1..Len(asked) : requests'[m][i] = asked[i]
        /\ requests'[m][Len(asked) + 1] = h /\ DOMAIN asked = 1..Len(asked)
    BY <1>1, <1>2, <1>3, <1>5
  <2>2. \A i \in DOMAIN asked : asked[i] # h
    BY <1>1, <1>5 DEF Contains
  <2>3. \A k \in Made(m) : Calls[m][k] # h
    BY <2>2 DEF Inv, Local, RequestsInOrder
  <2>4. \A k \in Made(m)' : \E i \in DOMAIN requests'[m] : requests'[m][i] = Calls[m][k]
    <3> SUFFICES ASSUME NEW k \in Made(m)'
                 PROVE  \E i \in DOMAIN requests'[m] : requests'[m][i] = Calls[m][k]
      OBVIOUS
    <3>1. CASE k \in Made(m)
      <4>1. PICK i \in DOMAIN asked : asked[i] = Calls[m][k]
        BY <3>1 DEF Inv, Local, RequestsInOrder
      <4> QED
        BY <1>1, <2>1, <4>1
    <3>2. CASE k = added[m] + 1
      BY <1>1, <2>1, <3>2
    <3> QED
      BY <1>2, <3>1, <3>2
  <2>5. \A i \in DOMAIN requests'[m] : \E k \in Made(m)' : Calls[m][k] = requests'[m][i]
    BY <1>1, <1>2, <2>1 DEF Inv, Local, RequestsInOrder
  <2>6. ASSUME NEW i \in DOMAIN requests'[m], NEW j \in DOMAIN requests'[m], i < j,
               NEW k \in Made(m)', Calls[m][k] = requests'[m][j]
        PROVE  \E l \in Made(m)' : l < k /\ Calls[m][l] = requests'[m][i]
    <3>1. i \in DOMAIN asked /\ requests'[m][i] = asked[i]
      BY <1>1, <2>1, <2>6
    <3>2. CASE j \in DOMAIN asked
      <4>1. k \in Made(m)
        BY <1>2, <2>1, <2>2, <2>6, <3>2
      <4>2. requests'[m][j] = asked[j]
        BY <2>1, <3>2
      <4>3. PICK l \in Made(m) : l < k /\ Calls[m][l] = asked[i]
        BY <2>6, <3>1, <3>2, <4>1, <4>2 DEF Inv, Local, RequestsInOrder
      <4> QED
        BY <1>2, <3>1, <4>3
    <3>3. CASE j = Len(asked) + 1
      <4>1. k = added[m] + 1
        BY <1>2, <2>1, <2>3, <2>6, <3>3
      <4>2. PICK l \in Made(m) : Calls[m][l] = asked[i]
        BY <3>1 DEF Inv, Local, RequestsInOrder
      <4> QED
        BY <1>1, <1>2, <3>1, <4>1, <4>2 DEF Made
    <3> QED
      BY <1>1, <2>1, <3>2, <3>3
  <2> QED
    BY <1>1, <1>2, <2>4, <2>5, <2>6 DEF RequestsInOrder
<1> QED
  BY <1>4, <1>5

\* No module has begun.
LEMMA InitInv == HelpersInit => Inv
PROOF
<1> SUFFICES ASSUME HelpersInit PROVE Inv
  OBVIOUS
<1>1. HelpersTypeOK
  BY DEF HelpersInit, Nothing, HelpersTypeOK
<1> SUFFICES ASSUME NEW m \in Modules PROVE Local(m)
  BY <1>1 DEF Inv
<1>2. RequestsInOrder(m)
  BY DEF HelpersInit, Made, RequestsInOrder
<1>3. MissingCovered(m)
  BY DEF HelpersInit, MissingCovered
<1>4. CopiesFit(m)
  BY DEF HelpersInit, Nothing, CopiesFit
<1>5. BlameFits(m)
  BY DEF HelpersInit, BlameFits
<1> QED
  BY <1>2, <1>3, <1>4, <1>5 DEF Local

\* Every step of a build keeps the invariant, for the module and for the others.
LEMMA StepInv == Inv /\ [HelpersNext]_helperVars => Inv'
PROOF
<1> SUFFICES ASSUME Inv, [HelpersNext]_helperVars PROVE Inv'
  OBVIOUS
<1>1. ASSUME NEW m \in Modules, Add(m) PROVE Inv'
  <2>1. requests'[m] \in Seq(Helpers) /\ Calls[m] \in Seq(Helpers)
    BY <1>1, HelpersAssumption DEF Add, Inv, HelpersTypeOK
  <2>2. HelpersTypeOK'
    BY <1>1, <2>1 DEF Add, Inv, HelpersTypeOK
  <2>3. ASSUME NEW n \in Modules, n # m PROVE Local(n)'
    BY <1>1, <2>3, OthersKeep DEF Add
  <2>4. RequestsInOrder(m)'
    BY <1>1, AddKeepsOrder
  <2>5. MissingCovered(m)'
    BY <1>1 DEF Add, Inv, Local, MissingCovered
  <2>6. CopiesFit(m)'
    BY <1>1 DEF Add, Inv, Local, CopiesFit
  <2>7. BlameFits(m)'
    BY <1>1 DEF Add, Inv, Local, BlameFits
  <2> QED
    BY <2>2, <2>3, <2>4, <2>5, <2>6, <2>7 DEF Inv, Local
<1>2. ASSUME NEW m \in Modules, Materialize(m) PROVE Inv'
  <2>1. ToSet(requests[m]) \subseteq Helpers
    BY DEF Inv, HelpersTypeOK, ToSet
  <2>2. HelpersTypeOK'
    BY <1>2, <2>1 DEF Materialize, Goto, Inv, HelpersTypeOK
  <2>3. ASSUME NEW n \in Modules, n # m PROVE Local(n)'
    BY <1>2, <2>3, OthersKeep DEF Materialize, Goto
  <2>4. RequestsInOrder(m)'
    <3>1. RequestsInOrder(m) /\ (stage[m] # "calls" => added[m] = Len(Calls[m]))
      BY DEF Inv, Local, RequestsInOrder
    <3> QED
      BY <1>2, <3>1, OrderKept DEF Materialize, Goto, HelpersTypeOK, Inv
  <2>5. MissingCovered(m)'
    BY <1>2 DEF Materialize, Goto, Inv, HelpersTypeOK, ToSet, MissingCovered
  <2>6. CopiesFit(m)'
    BY <1>2 DEF Materialize, Goto, Inv, Local, CopiesFit
  <2>7. BlameFits(m)'
    BY <1>2 DEF Materialize, Inv, Local, Goto, BlameFits
  <2> QED
    BY <2>2, <2>3, <2>4, <2>5, <2>6, <2>7 DEF Inv, Local
<1>3. ASSUME NEW m \in Modules, LowerTogether(m) PROVE Inv'
  <2>1. /\ DOMAIN cache' \subseteq Helpers /\ DOMAIN cache \subseteq DOMAIN cache'
        /\ \A h \in DOMAIN cache' : cache'[h] = Lowered[h] /\ cache'[h] # "fails"
        /\ stage'[m] = "cloning" => missing[m] \subseteq DOMAIN cache'
    <3>1. CASE LowersTogether(missing[m])
      <4>1. missing[m] \in SUBSET Helpers /\ \A h \in missing[m] : Lowered[h] # "fails"
        BY <3>1 DEF Inv, HelpersTypeOK, LowersTogether
      <4>2. cache' = With(missing[m])
        BY <1>3, <3>1 DEF LowerTogether
      <4>3. /\ DOMAIN cache' = DOMAIN cache \union missing[m] /\ DOMAIN cache' \subseteq Helpers
            /\ \A h \in DOMAIN cache' : cache'[h] = Lowered[h] /\ cache'[h] # "fails"
        BY <4>1, <4>2, WithAdds DEF Inv
      <4> QED
        BY <4>3
    <3>2. CASE ~LowersTogether(missing[m])
      BY <1>3, <3>2 DEF LowerTogether, Goto, Inv, HelpersTypeOK
    <3> QED
      BY <3>1, <3>2
  <2>2. HelpersTypeOK'
    BY <1>3, <2>1 DEF LowerTogether, Goto, Inv, HelpersTypeOK
  <2>3. ASSUME NEW n \in Modules, n # m PROVE Local(n)'
    BY <1>3, <2>3, <2>1, OthersKeep DEF LowerTogether, Goto, Inv, HelpersTypeOK
  <2>4. RequestsInOrder(m)'
    <3>1. RequestsInOrder(m) /\ (stage[m] # "calls" => added[m] = Len(Calls[m]))
      BY DEF Inv, Local, RequestsInOrder
    <3> QED
      BY <1>3, <3>1, OrderKept DEF LowerTogether, Goto, HelpersTypeOK, Inv
  <2>5. MissingCovered(m)'
    BY <1>3, <2>1 DEF LowerTogether, Goto, Inv, Local, HelpersTypeOK, ToSet, MissingCovered
  <2>6. CopiesFit(m)'
    BY <1>3 DEF LowerTogether, Goto, Inv, Local, HelpersTypeOK, CopiesFit
  <2>7. BlameFits(m)'
    BY <1>3 DEF LowerTogether, Inv, Local, HelpersTypeOK, Goto, BlameFits
  <2> QED
    BY <2>2, <2>3, <2>4, <2>5, <2>6, <2>7 DEF Inv, Local
<1>4. ASSUME NEW m \in Modules, LowerAlone(m) PROVE Inv'
  <2> DEFINE h == Earliest(requests[m], missing[m])
  <2>1. missing[m] \subseteq Helpers /\ HelpersTypeOK
    BY DEF Inv, HelpersTypeOK
  <2>2. missing[m] # {} => /\ h \in missing[m] /\ h \in Helpers
                           /\ Lowered[h] = "fails" => Verdict(m) = h
    BY <1>4, FailureIsVerdict DEF LowerAlone
  <2> HIDE DEF h
  <2>3. \/ /\ missing[m] = {} /\ stage' = [stage EXCEPT ![m] = "cloning"]
           /\ UNCHANGED <<cache, missing, blamed>>
        \/ /\ missing[m] # {} /\ Lowered[h] # "fails" /\ cache' = With({h})
           /\ missing' = [missing EXCEPT ![m] = @ \ {h}] /\ UNCHANGED <<stage, blamed>>
        \/ /\ missing[m] # {} /\ Lowered[h] = "fails"
           /\ blamed' = [blamed EXCEPT ![m] = h] /\ stage' = [stage EXCEPT ![m] = "raised"]
           /\ UNCHANGED <<cache, missing>>
    BY <1>4 DEF LowerAlone, Goto, h
  <2>4. /\ stage[m] = "lowering_alone" /\ added' = added /\ requests' = requests
        /\ defined' = defined
    BY <1>4 DEF LowerAlone
  <2>5. /\ DOMAIN cache \subseteq DOMAIN cache' /\ DOMAIN cache' \subseteq Helpers
        /\ \A g \in DOMAIN cache' : cache'[g] = Lowered[g] /\ cache'[g] # "fails"
        /\ \A g \in missing[m] : g \in DOMAIN cache' \union missing'[m]
    <3>1. CASE cache' = cache /\ missing' = missing
      BY <2>1, <3>1 DEF HelpersTypeOK
    <3>2. CASE /\ missing[m] # {} /\ Lowered[h] # "fails" /\ cache' = With({h})
               /\ missing' = [missing EXCEPT ![m] = @ \ {h}]
      <4>1. {h} \in SUBSET Helpers /\ \A g \in {h} : Lowered[g] # "fails"
        BY <2>2, <3>2
      <4>2. /\ DOMAIN cache' = DOMAIN cache \union {h} /\ DOMAIN cache' \subseteq Helpers
            /\ \A g \in DOMAIN cache' : cache'[g] = Lowered[g] /\ cache'[g] # "fails"
        BY <2>1, <3>2, <4>1, WithAdds
      <4>3. missing'[m] = missing[m] \ {h}
        BY <2>1, <3>2 DEF HelpersTypeOK
      <4> QED
        BY <4>2, <4>3
    <3> QED
      BY <2>3, <3>1, <3>2
  <2>6. HelpersTypeOK'
    <3>1. stage' \in [Modules -> {"calls", "lowering", "lowering_alone", "cloning", "built", "raised"}]
      BY <2>1, <2>3 DEF HelpersTypeOK
    <3>2. /\ missing' \in [Modules -> SUBSET Helpers]
          /\ blamed' \in [Modules -> Helpers \union {"none"}]
      BY <2>1, <2>2, <2>3 DEF HelpersTypeOK
    <3> QED
      BY <2>1, <2>4, <2>5, <3>1, <3>2 DEF HelpersTypeOK
  <2>7. ASSUME NEW n \in Modules, n # m PROVE Local(n)'
    BY <2>1, <2>3, <2>4, <2>5, <2>7, OthersKeep DEF HelpersTypeOK
  <2>8. RequestsInOrder(m)'
    BY <2>4, OrderKept DEF Inv, Local, RequestsInOrder
  <2>9. MissingCovered(m)'
    BY <2>3, <2>4, <2>5 DEF Inv, Local, HelpersTypeOK, ToSet, MissingCovered
  <2>10. CopiesFit(m)'
    BY <2>3, <2>4 DEF Inv, Local, HelpersTypeOK, CopiesFit
  <2>11. BlameFits(m)'
    BY <2>2, <2>3, <2>4 DEF Inv, Local, HelpersTypeOK, BlameFits
  <2> QED
    BY <2>6, <2>7, <2>8, <2>9, <2>10, <2>11 DEF Inv, Local
<1>5. ASSUME NEW m \in Modules, Clone(m) PROVE Inv'
  <2> DEFINE h == Earliest(requests[m], Helpers \ DOMAIN defined[m])
             copies == [g \in DOMAIN defined[m] \union {h} |->
                          IF g = h THEN cache[h] ELSE defined[m][g]]
  <2>1. /\ h \in ToSet(requests[m]) \ DOMAIN defined[m]
        /\ h \in Helpers /\ h \in DOMAIN cache /\ cache[h] = Lowered[h]
        /\ ~Fits(h) => Verdict(m) = h
    BY <1>5, MisfitIsVerdict DEF Clone
  <2> HIDE DEF h
  <2>2. \/ /\ Fits(h) /\ defined' = [defined EXCEPT ![m] = copies]
           /\ UNCHANGED <<stage, blamed>>
        \/ /\ ~Fits(h) /\ blamed' = [blamed EXCEPT ![m] = h]
           /\ stage' = [stage EXCEPT ![m] = "raised"] /\ UNCHANGED defined
    BY <1>5 DEF Clone, Goto, h
  <2>3. /\ stage[m] = "cloning" /\ cache' = cache /\ added' = added /\ requests' = requests
        /\ missing' = missing
    BY <1>5 DEF Clone
  <2>4. HelpersTypeOK
    BY DEF Inv
  <2>5. /\ DOMAIN copies = DOMAIN defined[m] \union {h} /\ copies[h] = cache[h]
        /\ \A g \in DOMAIN defined[m] : copies[g] = defined[m][g]
    BY <2>1
  <2> HIDE DEF copies
  <2>6. HelpersTypeOK'
    <3>1. /\ DOMAIN defined' = Modules
          /\ \A n \in Modules : defined'[n] = (IF n = m THEN defined'[m] ELSE defined[n])
          /\ defined'[m] \in {defined[m], copies}
      BY <2>2, <2>4 DEF HelpersTypeOK
    <3>2. stage' \in [Modules -> {"calls", "lowering", "lowering_alone", "cloning", "built", "raised"}]
      BY <2>2, <2>4 DEF HelpersTypeOK
    <3>3. blamed' \in [Modules -> Helpers \union {"none"}]
      BY <1>5, <2>1, <2>2, <2>4 DEF HelpersTypeOK, Clone
    <3>4. ASSUME NEW n \in Modules PROVE DOMAIN defined'[n] \subseteq Helpers
      <4>1. DOMAIN copies \subseteq Helpers /\ DOMAIN defined[n] \subseteq Helpers
        BY <2>1, <2>4, <2>5 DEF HelpersTypeOK
      <4> QED
        BY <3>1, <4>1
    <3> QED
      BY <2>3, <2>4, <3>1, <3>2, <3>3, <3>4 DEF HelpersTypeOK
  <2>7. ASSUME NEW n \in Modules, n # m PROVE Local(n)'
    BY <2>2, <2>3, <2>4, <2>7, OthersKeep DEF HelpersTypeOK
  <2>8. RequestsInOrder(m)'
    BY <2>3, OrderKept DEF Inv, Local, RequestsInOrder
  <2>9. MissingCovered(m)'
    BY <2>2, <2>3 DEF Inv, Local, HelpersTypeOK, MissingCovered
  <2>10. CopiesFit(m)'
    BY <2>1, <2>2, <2>3, <2>5 DEF Inv, Local, HelpersTypeOK, Fits, CopiesFit
  <2>11. BlameFits(m)'
    BY <2>1, <2>2 DEF Inv, Local, HelpersTypeOK, BlameFits
  <2> QED
    BY <2>6, <2>7, <2>8, <2>9, <2>10, <2>11 DEF Inv, Local
<1>6. ASSUME NEW m \in Modules, Built(m) PROVE Inv'
  <2>1. HelpersTypeOK'
    BY <1>6 DEF Built, Goto, Inv, HelpersTypeOK
  <2>2. ASSUME NEW n \in Modules, n # m PROVE Local(n)'
    BY <1>6, <2>2, OthersKeep DEF Built, Goto
  <2>3. RequestsInOrder(m)'
    <3>1. RequestsInOrder(m) /\ (stage[m] # "calls" => added[m] = Len(Calls[m]))
      BY DEF Inv, Local, RequestsInOrder
    <3> QED
      BY <1>6, <3>1, OrderKept DEF Built, Goto, HelpersTypeOK, Inv
  <2>4. MissingCovered(m)'
    BY <1>6 DEF Built, Goto, Inv, Local, MissingCovered
  <2>5. CopiesFit(m)'
    BY <1>6 DEF Built, Goto, Inv, Local, CopiesFit
  <2>6. BlameFits(m)'
    BY <1>6 DEF Built, Inv, Local, Goto, BlameFits
  <2> QED
    BY <2>1, <2>2, <2>3, <2>4, <2>5, <2>6 DEF Inv, Local
<1>7. ASSUME NEW m \in Modules, BuildAgain(m) PROVE Inv'
  <2>1. HelpersTypeOK'
    BY <1>7 DEF BuildAgain, Goto, Nothing, Inv, HelpersTypeOK
  <2>2. ASSUME NEW n \in Modules, n # m PROVE Local(n)'
    BY <1>7, <2>2, OthersKeep DEF BuildAgain, Goto
  <2>3. RequestsInOrder(m)'
    BY <1>7 DEF BuildAgain, Goto, Inv, HelpersTypeOK, Made, RequestsInOrder
  <2>4. MissingCovered(m)'
    BY <1>7 DEF BuildAgain, Inv, HelpersTypeOK, ToSet, MissingCovered
  <2>5. CopiesFit(m)'
    BY <1>7 DEF BuildAgain, Inv, HelpersTypeOK, Nothing, ToSet, CopiesFit
  <2>6. BlameFits(m)'
    BY <1>7 DEF BuildAgain, Inv, HelpersTypeOK, Goto, BlameFits
  <2> QED
    BY <2>1, <2>2, <2>3, <2>4, <2>5, <2>6 DEF Inv, Local
<1>8. CASE UNCHANGED helperVars
  <2>1. HelpersTypeOK'
    BY <1>8 DEF helperVars, Inv, HelpersTypeOK
  <2>2. ASSUME NEW n \in Modules PROVE Local(n)'
    BY <1>8, OthersKeep DEF helperVars
  <2> QED
    BY <2>1, <2>2 DEF Inv
<1> QED
  BY <1>1, <1>2, <1>3, <1>4, <1>5, <1>6, <1>7, <1>8 DEF HelpersNext

-----------------------------------------------------------------------------
\* The invariant holds for any modules, helpers and failures.
THEOREM InvHolds == HelpersSpec => []Inv
PROOF
  BY InitInv, StepInv, PTL DEF HelpersSpec

\* Every variable has its shape, and the cache holds only what torch-mlir lowered.
THEOREM TypesHold == HelpersSpec => []HelpersTypeOK
PROOF
<1>1. Inv => HelpersTypeOK
  BY DEF Inv
<1> QED
  BY <1>1, InvHolds, PTL

\* A module that is built defines every helper it calls, with the type of the call
\* (helpers.py, AtenHelperTable.materialize).
THEOREM CallsDefined == HelpersSpec => []CallsAreDefined
PROOF
<1>1. Inv => CallsAreDefined
  <2> SUFFICES ASSUME Inv, NEW m \in Modules, stage[m] = "built", NEW h \in ToSet(Calls[m])
               PROVE  h \in DOMAIN defined[m] /\ defined[m][h] = Needed[h]
    BY DEF CallsAreDefined
  <2>1. PICK k \in DOMAIN Calls[m] : Calls[m][k] = h
    BY DEF ToSet
  <2>2. k \in Made(m)
    BY HelpersAssumption DEF Inv, Local, RequestsInOrder, Made
  <2>3. h \in ToSet(requests[m])
    BY <2>1, <2>2 DEF Inv, Local, RequestsInOrder, ToSet
  <2> QED
    BY <2>3 DEF Inv, Local, CopiesFit
<1> QED
  BY <1>1, InvHolds, PTL

\* Whether a module is built, and the helper its error names, follow from its own calls:
\* from nothing that was built before or meanwhile, nothing a failed build left in the
\* cache and no clash of helpers in one run (helper_cache.py, HelperCache.lower).
THEOREM OutcomesAreTheModules == HelpersSpec => []OutcomeIsTheModules
PROOF
<1>1. Inv => OutcomeIsTheModules
  <2> SUFFICES ASSUME Inv, NEW m \in Modules
               PROVE  /\ stage[m] = "built" => Verdict(m) = "none" /\ blamed[m] = "none"
                      /\ stage[m] = "raised" => Verdict(m) # "none" /\ blamed[m] = Verdict(m)
    BY DEF OutcomeIsTheModules
  <2>1. ASSUME stage[m] = "built" PROVE Verdict(m) = "none"
    <3>1. \A i \in DOMAIN requests[m] : requests[m][i] \notin Mistyped
      BY <2>1 DEF Inv, Local, CopiesFit, Mistyped, ToSet
    <3>2. added[m] = Len(Calls[m])
      BY <2>1 DEF Inv, Local, RequestsInOrder
    <3>3. FirstOf(m, Mistyped) = "none"
      BY <3>1, <3>2, NoneRequested DEF Inv, Local
    <3> QED
      BY <2>1, <3>3, AllLowerable DEF Verdict
  <2> QED
    BY <2>1, HelpersAssumption DEF Inv, Local, BlameFits
<1> QED
  BY <1>1, InvHolds, PTL
=============================================================================
