---------------------------- MODULE CompileCaches ----------------------------
(***************************************************************************)
(* Compiling a config of a bound kernel, through two caches: the kernel's  *)
(* own, from a config to a callable, and the process's, from a module's    *)
(* text and pipeline to a compiled entry, which drops the entry used       *)
(* longest ago.  The environment names the default pipeline and the dumps, *)
(* and may change between any two steps.  Threads interleave at every read *)
(* and write of the caches.                                                *)
(***************************************************************************)
EXTENDS Naturals, Sequences, FiniteSets, SequencesExt

CONSTANTS
  Threads,
  Configs,    \* config of a kernel -> the module text it builds, and its pipeline
  JitSize     \* _JIT_CACHE_SIZE

Pipelines == {"opt", "scalar"}

Texts == {Configs[c].text : c \in DOMAIN Configs}

ASSUME CachesAssumption ==
  /\ \A c \in DOMAIN Configs : Configs[c].pipeline \in Pipelines \union {"unset"}
  /\ DOMAIN Configs # {}
  /\ JitSize \in Nat \ {0}
  /\ IsFiniteSet(Threads)

Keys == [text : Texts, pipeline : Pipelines]
NoKey == [text |-> "none", pipeline |-> "none"]

VARIABLES
  environ,   \* the pipeline HELION_MLIR_PIPELINE names, and whether a dump is on
  compiled,  \* config -> the entry its callable runs, or NoKey: _compile_cache
  jit,       \* keys of _JIT_CACHE, the one used longest ago first
  entry,     \* cached key -> the key its entry was compiled for
  pc,        \* thread -> where it is
  config,    \* thread -> the config it compiles
  key,       \* thread -> text and pipeline it looks for
  found,     \* thread -> the entry it has
  recent     \* every key compiled or found so far, the last one last (history)

vars == <<environ, compiled, jit, entry, pc, config, key, found, recent>>

Init ==
  /\ environ \in [pipeline : Pipelines, dump : BOOLEAN]
  /\ compiled = [c \in DOMAIN Configs |-> NoKey]
  /\ jit = <<>>
  /\ entry = [k \in {} |-> NoKey]
  /\ pc = [t \in Threads |-> "idle"]
  /\ config \in [Threads -> {CHOOSE c \in DOMAIN Configs : TRUE}]
  /\ key = [t \in Threads |-> NoKey]
  /\ found = [t \in Threads |-> NoKey]
  /\ recent = <<>>

Goto(t, place) == pc' = [pc EXCEPT ![t] = place]

\* The user sets environment variables.
SetEnviron ==
  /\ environ' \in [pipeline : Pipelines, dump : BOOLEAN]
  /\ UNCHANGED <<compiled, jit, entry, pc, config, key, found, recent>>

\* compile_config: the callable the kernel has for this config, or a new one.
CompileConfig(t, c) ==
  /\ pc[t] = "idle"
  /\ config' = [config EXCEPT ![t] = c]
  /\ IF compiled[c] # NoKey
     THEN Goto(t, "compiled") /\ found' = [found EXCEPT ![t] = compiled[c]]
     ELSE Goto(t, "built") /\ UNCHANGED found
  /\ UNCHANGED <<environ, compiled, jit, entry, key, recent>>

\* Mutant of PipelineOf: the environment overrides the config.
EnvironPipeline(c) == environ.pipeline

PipelineOf(c) ==
  IF Configs[c].pipeline = "unset" THEN environ.pipeline ELSE Configs[c].pipeline

\* The module is built; a dump compiles it without looking in the cache.
ReadEnviron(t) ==
  /\ pc[t] = "built"
  /\ key' = [key EXCEPT ![t] = [text |-> Configs[config[t]].text,
                                pipeline |-> PipelineOf(config[t])]]
  /\ Goto(t, IF environ.dump THEN "dumping" ELSE "looking_up")
  /\ UNCHANGED <<environ, compiled, jit, entry, config, found, recent>>

LookUp(t) ==
  /\ pc[t] = "looking_up"
  /\ IF Contains(jit, key[t])
     THEN Goto(t, "touching") /\ found' = [found EXCEPT ![t] = entry[key[t]]]
     ELSE Goto(t, "compiling") /\ UNCHANGED found
  /\ UNCHANGED <<environ, compiled, jit, entry, config, key, recent>>

Touched(s, k) ==
  Append(IF Contains(s, k) THEN RemoveAt(s, CHOOSE i \in DOMAIN s : s[i] = k) ELSE s, k)

\* Mutant of MovedToEnd: a hit does not count as a use.
LeftInPlace(k) == jit

MovedToEnd(k) == Touched(jit, k)

\* move_to_end: a KeyError when the key is gone.
Touch(t) ==
  /\ pc[t] = "touching"
  /\ IF Contains(jit, key[t])
     THEN /\ jit' = MovedToEnd(key[t])
          /\ recent' = Touched(recent, key[t])
          /\ Goto(t, "storing")
     ELSE Goto(t, "lookup_failed") /\ UNCHANGED <<jit, recent>>
  /\ UNCHANGED <<environ, compiled, entry, config, key, found>>

\* The module is inlined, lowered and compiled; any of it may raise.
Compile(t) ==
  /\ pc[t] \in {"compiling", "dumping"}
  /\ \/ /\ found' = [found EXCEPT ![t] = key[t]]
        /\ Goto(t, IF pc[t] = "dumping" THEN "storing" ELSE "inserting")
     \/ Goto(t, "failed") /\ UNCHANGED found
  /\ UNCHANGED <<environ, compiled, jit, entry, config, key, recent>>

\* An entry inserted again by another thread keeps its place.
Insert(t) ==
  /\ pc[t] = "inserting"
  /\ IF Contains(jit, key[t])
     THEN UNCHANGED <<jit, recent>>
     ELSE jit' = Append(jit, key[t]) /\ recent' = Touched(recent, key[t])
  /\ entry' = [k \in DOMAIN entry \union {key[t]} |-> IF k = key[t] THEN found[t] ELSE entry[k]]
  /\ Goto(t, "measuring")
  /\ UNCHANGED <<environ, compiled, config, key, found>>

TooLong == Len(jit) > JitSize

Measure(t) ==
  /\ pc[t] = "measuring"
  /\ Goto(t, IF TooLong THEN "evicting" ELSE "storing")
  /\ UNCHANGED <<environ, compiled, jit, entry, config, key, found, recent>>

\* Mutant of Evict: the evicted entry is not released.
EvictKeyOnly(t) ==
  /\ pc[t] = "evicting"
  /\ jit # <<>>
  /\ jit' = Tail(jit)
  /\ Goto(t, "storing")
  /\ UNCHANGED <<environ, compiled, entry, config, key, found, recent>>

\* popitem(last=False): a KeyError when other threads have emptied the cache.
Evict(t) ==
  /\ pc[t] = "evicting"
  /\ IF jit = <<>>
     THEN Goto(t, "eviction_failed") /\ UNCHANGED <<jit, entry>>
     ELSE /\ jit' = Tail(jit)
          /\ entry' = [k \in ToSet(Tail(jit)) |-> entry[k]]
          /\ Goto(t, "storing")
  /\ UNCHANGED <<environ, compiled, config, key, found, recent>>

StoreCompiled(t) ==
  /\ pc[t] = "storing"
  /\ compiled' = [compiled EXCEPT ![config[t]] = found[t]]
  /\ Goto(t, "compiled")
  /\ UNCHANGED <<environ, jit, entry, config, key, found, recent>>

\* The caller has its callable, or the exception.
Return(t) ==
  /\ pc[t] \in {"compiled", "failed", "lookup_failed", "eviction_failed"}
  /\ Goto(t, "idle")
  /\ key' = [key EXCEPT ![t] = NoKey]
  /\ found' = [found EXCEPT ![t] = NoKey]
  /\ UNCHANGED <<environ, compiled, jit, entry, config, recent>>

Step(t) ==
  \/ \E c \in DOMAIN Configs : CompileConfig(t, c)
  \/ ReadEnviron(t) \/ LookUp(t) \/ Touch(t) \/ Compile(t)
  \/ Insert(t) \/ Measure(t) \/ Evict(t) \/ StoreCompiled(t) \/ Return(t)

Next == SetEnviron \/ \E t \in Threads : Step(t)

Spec == Init /\ [][Next]_vars

-----------------------------------------------------------------------------
Places ==
  {"idle", "built", "looking_up", "touching", "compiling", "dumping", "inserting", "measuring",
   "evicting", "storing", "compiled", "failed", "lookup_failed", "eviction_failed"}

\* The shape of every variable.
TypeOK ==
  /\ environ \in [pipeline : Pipelines, dump : BOOLEAN]
  /\ compiled \in [DOMAIN Configs -> Keys \union {NoKey}]
  /\ jit \in Seq(Keys) /\ recent \in Seq(Keys)
  /\ DOMAIN entry = ToSet(jit)
  /\ pc \in [Threads -> Places] /\ config \in [Threads -> DOMAIN Configs]
  /\ key \in [Threads -> Keys \union {NoKey}] /\ found \in [Threads -> Keys \union {NoKey}]

\* Whatever is cached, evicted or replaced meanwhile, a config's callable runs the
\* module the config builds, on the config's own pipeline if it names one (driver.py,
\* compile_kernel), and a cached entry is the one of its text and pipeline.
EntriesMatch ==
  /\ \A k \in ToSet(jit) : entry[k] = k
  /\ \A t \in Threads : pc[t] = "compiled" =>
       /\ found[t].text = Configs[config[t]].text
       /\ Configs[config[t]].pipeline # "unset" => found[t].pipeline = Configs[config[t]].pipeline

\* The cache of entries exceeds its size only by what threads have put in and are
\* about to take out, and it always holds the entries used last, in order of use: an
\* eviction takes the entry used longest ago, whoever used it, an entry two threads
\* compiled at once counting from the first (execution.py, compile_entry: move_to_end,
\* popitem(last=False)).
MostRecentKept ==
  /\ Len(jit) <= JitSize + Cardinality({t \in Threads : pc[t] \in {"measuring", "evicting"}})
  /\ jit = SubSeq(recent, Len(recent) - Len(jit) + 1, Len(recent))
=============================================================================
