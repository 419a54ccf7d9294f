SPECIFICATION Spec
CONSTANTS
  Threads = {t1, t2, t3}
  Configs <- TwoConfigs
  JitSize = 1
SYMMETRY ThreadsAlike
INVARIANTS TypeOK EntriesMatch MostRecentKept
