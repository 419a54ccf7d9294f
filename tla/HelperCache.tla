----------------------------- MODULE HelperCache -----------------------------
(***************************************************************************)
(* ATen helpers of the modules a process builds.  A module's calls become  *)
(* requests, one per helper name; when its functions are built the helpers *)
(* that no earlier module needed are lowered by torch-mlir in one run, or  *)
(* each alone if that run fails, into a cache every module shares, and the *)
(* module gets its own copy of each.  Modules may be built concurrently    *)
(* and again after a failure.                                              *)
(***************************************************************************)
EXTENDS Naturals, Sequences, SequencesExt

CONSTANTS
  Calls,     \* module -> the helpers it calls, in order
  Needed,    \* helper -> its type at the call site, fixed by its name
  Lowered,   \* helper -> the type torch-mlir gives it alone, or "fails"
  Clashing   \* sets of helpers torch-mlir cannot lower in one run

Helpers == DOMAIN Needed
Modules == DOMAIN Calls

ASSUME HelpersAssumption ==
  /\ \A m \in Modules : Calls[m] \in Seq(Helpers)
  /\ DOMAIN Lowered = Helpers
  /\ Clashing \subseteq SUBSET Helpers
  /\ "none" \notin Helpers    \* every name begins with "_aten_"

VARIABLES
  cache,      \* helper -> type: the process-wide helper cache
  stage,      \* module -> where its build is
  added,      \* module -> how many of its calls are lowered
  requests,   \* module -> its requests, in order of first call
  missing,    \* module -> which requests to lower, in the order of requests
  defined,    \* module -> helper -> type: the copies it holds
  blamed      \* module -> the helper its error names, or "none"

helperVars == <<cache, stage, added, requests, missing, defined, blamed>>

Nothing == [h \in {} |-> "none"]

HelpersInit ==
  /\ cache = Nothing
  /\ stage = [m \in Modules |-> "calls"]
  /\ added = [m \in Modules |-> 0]
  /\ requests = [m \in Modules |-> <<>>]
  /\ missing = [m \in Modules |-> {}]
  /\ defined = [m \in Modules |-> Nothing]
  /\ blamed = [m \in Modules |-> "none"]

Goto(m, place) == stage' = [stage EXCEPT ![m] = place]

\* A call site requests its helper; the first request of a name stays.
Add(m) ==
  /\ stage[m] = "calls"
  /\ added[m] < Len(Calls[m])
  /\ LET h == Calls[m][added[m] + 1]
     IN  requests' = [requests EXCEPT ![m] = IF Contains(@, h) THEN @ ELSE Append(@, h)]
  /\ added' = [added EXCEPT ![m] = @ + 1]
  /\ UNCHANGED <<cache, stage, missing, defined, blamed>>

\* Every function is built: which helpers are not in the cache?
Materialize(m) ==
  /\ stage[m] = "calls"
  /\ added[m] = Len(Calls[m])
  /\ LET lacking == ToSet(requests[m]) \ DOMAIN cache
     IN  /\ missing' = [missing EXCEPT ![m] = lacking]
         /\ Goto(m, IF lacking = {} THEN "cloning" ELSE "lowering")
  /\ UNCHANGED <<cache, added, requests, defined, blamed>>

\* The first of a sequence's elements that is in a set.
Earliest(s, set) ==
  s[CHOOSE i \in DOMAIN s : s[i] \in set /\ \A j \in DOMAIN s : s[j] \in set => i <= j]

\* Mutant of LowersTogether: a run that fails leaves what it has.
LowersSomehow(set) == set # {}

LowersTogether(set) == (\A h \in set : Lowered[h] # "fails") /\ set \notin Clashing

With(helpers) ==
  [h \in DOMAIN cache \union helpers |-> IF h \in helpers THEN Lowered[h] ELSE cache[h]]

\* Mutant of LowerTogether: a failing run blames its first request.
LowerTogetherOrBlame(m) ==
  /\ stage[m] = "lowering"
  /\ IF LowersTogether(missing[m])
     THEN cache' = With(missing[m]) /\ Goto(m, "cloning") /\ UNCHANGED blamed
     ELSE /\ blamed' = [blamed EXCEPT ![m] = Earliest(requests[m], missing[m])]
          /\ Goto(m, "raised")
          /\ UNCHANGED cache
  /\ UNCHANGED <<added, requests, missing, defined>>

LowerTogether(m) ==
  /\ stage[m] = "lowering"
  /\ IF LowersTogether(missing[m])
     THEN cache' = With(missing[m]) /\ Goto(m, "cloning")
     ELSE Goto(m, "lowering_alone") /\ UNCHANGED cache
  /\ UNCHANGED <<added, requests, missing, defined, blamed>>

\* What lowered before the failing request stays in the cache.
LowerAlone(m) ==
  /\ stage[m] = "lowering_alone"
  /\ IF missing[m] = {} THEN Goto(m, "cloning") /\ UNCHANGED <<cache, missing, blamed>>
     ELSE LET h == Earliest(requests[m], missing[m])
          IN  IF Lowered[h] # "fails"
              THEN /\ cache' = With({h})
                   /\ missing' = [missing EXCEPT ![m] = @ \ {h}]
                   /\ UNCHANGED <<stage, blamed>>
              ELSE /\ blamed' = [blamed EXCEPT ![m] = h]
                   /\ Goto(m, "raised")
                   /\ UNCHANGED <<cache, missing>>
  /\ UNCHANGED <<added, requests, defined>>

\* Mutant of Fits: a copy is taken whatever its type.
FitsAnyway(h) == h \in DOMAIN cache

Fits(h) == cache[h] = Needed[h]

\* The next request gets its copy, if the call sites agree with its type.
Clone(m) ==
  /\ stage[m] = "cloning"
  /\ DOMAIN defined[m] # ToSet(requests[m])
  /\ LET h == Earliest(requests[m], Helpers \ DOMAIN defined[m])
     IN  IF Fits(h)
         THEN /\ defined' = [defined EXCEPT ![m] =
                   [g \in DOMAIN @ \union {h} |-> IF g = h THEN cache[h] ELSE @[g]]]
              /\ UNCHANGED <<stage, blamed>>
         ELSE /\ blamed' = [blamed EXCEPT ![m] = h]
              /\ Goto(m, "raised")
              /\ UNCHANGED defined
  /\ UNCHANGED <<cache, added, requests, missing>>

Built(m) ==
  /\ stage[m] = "cloning"
  /\ DOMAIN defined[m] = ToSet(requests[m])
  /\ Goto(m, "built")
  /\ UNCHANGED <<cache, added, requests, missing, defined, blamed>>

\* The kernel is compiled again: a new module with nothing in it.
BuildAgain(m) ==
  /\ stage[m] \in {"built", "raised"}
  /\ Goto(m, "calls")
  /\ added' = [added EXCEPT ![m] = 0]
  /\ requests' = [requests EXCEPT ![m] = <<>>]
  /\ missing' = [missing EXCEPT ![m] = {}]
  /\ defined' = [defined EXCEPT ![m] = Nothing]
  /\ blamed' = [blamed EXCEPT ![m] = "none"]
  /\ UNCHANGED cache

HelpersNext ==
  \E m \in Modules :
    \/ Add(m) \/ Materialize(m) \/ LowerTogether(m) \/ LowerAlone(m)
    \/ Clone(m) \/ Built(m) \/ BuildAgain(m)

HelpersSpec == HelpersInit /\ [][HelpersNext]_helperVars

-----------------------------------------------------------------------------
\* The shape of every variable; the cache holds only what torch-mlir lowered.
HelpersTypeOK ==
  /\ DOMAIN cache \subseteq Helpers
  /\ \A h \in DOMAIN cache : cache[h] = Lowered[h] /\ cache[h] # "fails"
  /\ stage \in [Modules -> {"calls", "lowering", "lowering_alone", "cloning", "built", "raised"}]
  /\ added \in [Modules -> Nat]
  /\ requests \in [Modules -> Seq(Helpers)] /\ missing \in [Modules -> SUBSET Helpers]
  /\ DOMAIN defined = Modules
  /\ \A m \in Modules : DOMAIN defined[m] \subseteq Helpers
  /\ blamed \in [Modules -> Helpers \union {"none"}]

\* A module that is built defines every helper it calls, with the type of the call
\* (helpers.py, materialize: "Define every requested helper in ``module``").
CallsAreDefined ==
  \A m \in Modules : stage[m] = "built" =>
    \A h \in ToSet(Calls[m]) : h \in DOMAIN defined[m] /\ defined[m][h] = Needed[h]

\* What becomes of a module, by its own calls alone: the first helper torch-mlir
\* cannot lower is named, else the first of another type than its calls need.
FirstOf(m, set) ==
  IF \E h \in ToSet(Calls[m]) : h \in set THEN Earliest(Calls[m], set) ELSE "none"

Unlowerable == {h \in Helpers : Lowered[h] = "fails"}
Mistyped == {h \in Helpers : Lowered[h] # Needed[h]}

Verdict(m) ==
  IF FirstOf(m, Unlowerable) # "none" THEN FirstOf(m, Unlowerable) ELSE FirstOf(m, Mistyped)

\* The outcome of a build does not depend on what was built before or meanwhile, on
\* what a failed build left in the cache, or on which helpers clash in one run: the
\* error names a helper that fails by itself (helper_cache.py: "each alone if that
\* run fails, to name the failing node").
OutcomeIsTheModules ==
  \A m \in Modules : stage[m] \in {"built", "raised"} =>
    /\ (stage[m] = "built") = (Verdict(m) = "none")
    /\ blamed[m] = Verdict(m)
=============================================================================
