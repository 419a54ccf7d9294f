--------------------------- MODULE MCCompileCaches ---------------------------
(***************************************************************************)
(* Two configs, one of which names its pipeline, so three keys; a cache of *)
(* one entry, so that three threads may evict at once what two put in.     *)
(***************************************************************************)
EXTENDS CompileCaches

TwoConfigs ==
  [a |-> [text |-> "A", pipeline |-> "unset"],
   b |-> [text |-> "B", pipeline |-> "scalar"]]

ThreadsAlike == Permutations(Threads)
=============================================================================
