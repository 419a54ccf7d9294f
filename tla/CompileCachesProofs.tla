------------------------- MODULE CompileCachesProofs -------------------------
(***************************************************************************)
(* For any threads, configs and cache size: a compiled config runs its own *)
(* module, and the cache of entries keeps the ones used last, within its   *)
(* size and what the threads are about to evict.                           *)
(***************************************************************************)
EXTENDS CompileCaches, FiniteSetTheorems, SequenceTheorems, TLAPS

Distinct(s) == \A i, j \in DOMAIN s : s[i] = s[j] => i = j

\* k is a key the module of config c is compiled for.
Matches(c, k) ==
  /\ k \in Keys /\ k.text = Configs[c].text
  /\ Configs[c].pipeline # "unset" => k.pipeline = Configs[c].pipeline

\* A thread looks for a key of its config, and has the entry of the key it looks for.
ThreadsMatch ==
  \A t \in Threads :
    /\ pc[t] \in {"looking_up", "touching", "compiling", "dumping", "inserting", "measuring",
                  "evicting", "storing"} => Matches(config[t], key[t])
    /\ pc[t] \in {"touching", "inserting", "measuring", "evicting", "storing"} =>
         found[t] = key[t]
    /\ pc[t] = "compiled" => Matches(config[t], found[t])

\* Both caches hold, under each name, what was compiled for it.
CachesMatch ==
  /\ \A k \in ToSet(jit) : entry[k] = k
  /\ \A c \in DOMAIN Configs : compiled[c] # NoKey => Matches(c, compiled[c])

\* The cache is the end of the history of uses, in which no key occurs twice.
RecentLast ==
  /\ Distinct(recent) /\ Len(jit) <= Len(recent)
  /\ \A i \in DOMAIN jit : jit[i] = recent[Len(recent) - Len(jit) + i]

\* The threads that have inserted a key and not yet made up for it.
Owing == {t \in Threads : pc[t] \in {"measuring", "evicting"}}

Bounded == Len(jit) <= JitSize + Cardinality(Owing)

Inv == TypeOK /\ ThreadsMatch /\ CachesMatch /\ RecentLast /\ Bounded

-----------------------------------------------------------------------------
\* Taking out an element moves the ones behind it a place forward.
LEMMA Removed ==
  ASSUME NEW T, NEW s \in Seq(T), NEW i \in 1..Len(s)
  PROVE  /\ RemoveAt(s, i) \in Seq(T) /\ Len(RemoveAt(s, i)) = Len(s) - 1
         /\ \A j \in 1..Len(s) - 1 : RemoveAt(s, i)[j] = IF j < i THEN s[j] ELSE s[j + 1]
PROOF
<1> DEFINE before == SubSeq(s, 1, i - 1)
           behind == SubSeq(s, i + 1, Len(s))
<1>1. /\ before \in Seq(T) /\ Len(before) = i - 1
      /\ \A j \in 1..i - 1 : before[j] = s[j]
  OBVIOUS
<1>2. /\ behind \in Seq(T) /\ Len(behind) = Len(s) - i
      /\ \A j \in 1..Len(s) - i : behind[j] = s[i + j]
  OBVIOUS
<1> HIDE DEF before, behind
<1>3. RemoveAt(s, i) = before \o behind
  BY DEF RemoveAt, before, behind
<1>4. /\ before \o behind \in Seq(T) /\ Len(before \o behind) = Len(s) - 1
      /\ \A j \in 1..Len(s) - 1 :
           (before \o behind)[j] = IF j < i THEN before[j] ELSE behind[j - i + 1]
  <2>1. /\ before \o behind \in Seq(T) /\ Len(before \o behind) = Len(before) + Len(behind)
        /\ \A j \in 1..Len(before) + Len(behind) : (before \o behind)[j] =
             IF j <= Len(before) THEN before[j] ELSE behind[j - Len(before)]
    BY <1>1, <1>2, ConcatProperties
  <2>2. \A j \in 1..Len(s) - 1 : /\ j \in 1..Len(before) + Len(behind)
                                /\ (j <= Len(before) <=> j < i)
                                /\ j - Len(before) = j - i + 1
    BY <1>1, <1>2
  <2>3. Len(before) + Len(behind) = Len(s) - 1
    BY <1>1, <1>2
  <2> QED
    BY <2>1, <2>2, <2>3
<1>5. ASSUME NEW j \in 1..Len(s) - 1
      PROVE  (before \o behind)[j] = IF j < i THEN s[j] ELSE s[j + 1]
  <2>1. CASE j < i
    BY <1>1, <1>4, <2>1
  <2>2. CASE ~(j < i)
    <3>1. j - i + 1 \in 1..Len(s) - i /\ i + (j - i + 1) = j + 1
      BY <2>2
    <3> QED
      BY <1>2, <1>4, <2>2, <3>1
  <2> QED
    BY <2>1, <2>2
<1> QED
  BY <1>3, <1>4, <1>5

\* A key that is used again goes behind all others.
LEMMA TouchedHit ==
  ASSUME NEW T, NEW s \in Seq(T), Distinct(s), NEW i \in 1..Len(s)
  PROVE  /\ Touched(s, s[i]) \in Seq(T) /\ Len(Touched(s, s[i])) = Len(s)
         /\ \A j \in 1..Len(s) : Touched(s, s[i])[j] =
              IF j < i THEN s[j] ELSE IF j < Len(s) THEN s[j + 1] ELSE s[i]
PROOF
<1> DEFINE k == s[i]
           rest == RemoveAt(s, i)
<1>1. Contains(s, k) /\ DOMAIN s = 1..Len(s) /\ k \in T
  BY DEF Contains
<1>2. (CHOOSE j \in DOMAIN s : s[j] = k) = i
  BY <1>1 DEF Distinct
<1>3. Touched(s, k) = Append(rest, k)
  BY <1>1, <1>2 DEF Touched
<1>4. /\ rest \in Seq(T) /\ Len(rest) = Len(s) - 1
      /\ \A j \in 1..Len(s) - 1 : rest[j] = IF j < i THEN s[j] ELSE s[j + 1]
  BY Removed
<1> HIDE DEF rest, k
<1>5. /\ Append(rest, k) \in Seq(T) /\ Len(Append(rest, k)) = Len(s)
      /\ \A j \in 1..Len(s) : Append(rest, k)[j] = IF j < Len(s) THEN rest[j] ELSE k
  <2>1. /\ Append(rest, k) \in Seq(T) /\ Len(Append(rest, k)) = Len(rest) + 1
        /\ \A j \in 1..Len(rest) : Append(rest, k)[j] = rest[j]
        /\ Append(rest, k)[Len(rest) + 1] = k
    <3>1. rest \in Seq(T) /\ k \in T
      BY <1>1, <1>4
    <3> QED
      BY <3>1, AppendProperties
  <2>2. \A j \in 1..Len(s) : IF j < Len(s) THEN j \in 1..Len(rest) ELSE j = Len(rest) + 1
    BY <1>4
  <2> QED
    BY <1>4, <2>1, <2>2
<1>6. ASSUME NEW j \in 1..Len(s)
      PROVE  Append(rest, k)[j] = IF j < i THEN s[j] ELSE IF j < Len(s) THEN s[j + 1] ELSE k
  BY <1>4, <1>5
<1> QED
  BY <1>3, <1>5, <1>6 DEF k

\* A key that is used for the first time goes behind all others.
LEMMA TouchedMiss ==
  ASSUME NEW T, NEW s \in Seq(T), NEW k \in T, ~Contains(s, k)
  PROVE  /\ Touched(s, k) = Append(s, k) /\ Touched(s, k) \in Seq(T)
         /\ Len(Touched(s, k)) = Len(s) + 1
         /\ \A j \in 1..Len(s) + 1 : Touched(s, k)[j] = IF j <= Len(s) THEN s[j] ELSE k
PROOF
  BY DEF Touched

\* Using a key makes it a member, and no key occurs twice.
LEMMA TouchedSet ==
  ASSUME NEW T, NEW s \in Seq(T), NEW k \in T, Distinct(s)
  PROVE  /\ Touched(s, k) \in Seq(T) /\ Distinct(Touched(s, k))
         /\ ToSet(Touched(s, k)) = ToSet(s) \union {k}
PROOF
<1>1. CASE Contains(s, k)
  <2>1. PICK i \in 1..Len(s) : s[i] = k
    BY <1>1 DEF Contains
  <2> DEFINE u == Touched(s, k)
  <2>2. /\ u \in Seq(T) /\ Len(u) = Len(s)
        /\ \A j \in 1..Len(s) : u[j] =
             IF j < i THEN s[j] ELSE IF j < Len(s) THEN s[j + 1] ELSE k
    BY <2>1, TouchedHit
  <2> HIDE DEF u
  <2>3. DOMAIN u = 1..Len(s) /\ DOMAIN s = 1..Len(s)
    BY <2>2
  <2> DEFINE from(j) == IF j < i THEN j ELSE IF j < Len(s) THEN j + 1 ELSE i
  <2>4. Distinct(u)
    <3>1. \A j \in DOMAIN u : from(j) \in DOMAIN s /\ u[j] = s[from(j)]
      BY <2>1, <2>2, <2>3
    <3>2. \A j, n \in DOMAIN u : from(j) = from(n) => j = n
      BY <2>3
    <3> HIDE DEF from
    <3> QED
      BY <3>1, <3>2 DEF Distinct
  <2>5. ASSUME NEW j \in DOMAIN s PROVE \E n \in DOMAIN u : u[n] = s[j]
    <3>1. CASE j < i
      BY <2>2, <2>3, <3>1
    <3>2. CASE j = i
      BY <2>1, <2>2, <2>3, <3>2
    <3>3. CASE j > i
      <4>1. j - 1 \in 1..Len(s) /\ j - 1 >= i /\ j - 1 < Len(s) /\ (j - 1) + 1 = j
        BY <2>3, <3>3
      <4> QED
        BY <2>2, <2>3, <4>1
    <3> QED
      BY <2>3, <3>1, <3>2, <3>3
  <2>6. ASSUME NEW n \in DOMAIN u PROVE \E j \in DOMAIN s : u[n] = s[j]
    BY <2>1, <2>2, <2>3
  <2>7. ToSet(u) = ToSet(s)
    BY <2>5, <2>6 DEF ToSet
  <2>8. k \in ToSet(s)
    BY <2>1, <2>3 DEF ToSet
  <2> QED
    BY <2>2, <2>4, <2>7, <2>8 DEF u
<1>2. CASE ~Contains(s, k)
  <2>1. DOMAIN s = 1..Len(s) /\ \A i \in 1..Len(s) : s[i] # k
    BY <1>2 DEF Contains
  <2> DEFINE u == Touched(s, k)
  <2>2. /\ u \in Seq(T) /\ Len(u) = Len(s) + 1
        /\ \A j \in 1..Len(s) + 1 : u[j] = IF j <= Len(s) THEN s[j] ELSE k
    BY <1>2, TouchedMiss
  <2> HIDE DEF u
  <2>3. DOMAIN u = 1..Len(s) + 1
    BY <2>2
  <2>4. Distinct(u)
    BY <2>1, <2>2, <2>3 DEF Distinct
  <2> QED
    BY <2>1, <2>2, <2>3, <2>4 DEF ToSet, u
<1> QED
  BY <1>1, <1>2

-----------------------------------------------------------------------------
\* The cached keys are distinct, as they are the last of distinct ones.
LEMMA CachedOnce == TypeOK /\ RecentLast => Distinct(jit)
PROOF
<1> SUFFICES ASSUME TypeOK, RecentLast, NEW i \in DOMAIN jit, NEW j \in DOMAIN jit,
                    jit[i] = jit[j]
             PROVE  i = j
  BY DEF Distinct
<1> DEFINE d == Len(recent) - Len(jit)
<1>1. d \in Nat /\ d + i \in DOMAIN recent /\ d + j \in DOMAIN recent
  BY DEF TypeOK, RecentLast
<1>2. recent[d + i] = recent[d + j]
  BY DEF RecentLast
<1>3. d + i = d + j
  BY <1>1, <1>2 DEF RecentLast, Distinct
<1> QED
  BY <1>1, <1>3 DEF TypeOK

\* jit' and recent' as parts of one history, when a key of the cache is used again.
LEMMA HitKeepsLast ==
  ASSUME TypeOK, RecentLast, NEW k, Contains(jit, k),
         jit' = Touched(jit, k), recent' = Touched(recent, k)
  PROVE  RecentLast'
PROOF
<1> DEFINE d == Len(recent) - Len(jit)
<1>1. /\ jit \in Seq(Keys) /\ recent \in Seq(Keys) /\ d \in Nat
      /\ DOMAIN jit = 1..Len(jit) /\ DOMAIN recent = 1..Len(recent)
      /\ \A i \in 1..Len(jit) : d + i \in 1..Len(recent) /\ jit[i] = recent[d + i]
  BY DEF TypeOK, RecentLast
<1>2. Distinct(jit)
  BY CachedOnce
<1>3. PICK i \in 1..Len(jit) : jit[i] = k
  BY DEF Contains
<1>4. d + i \in 1..Len(recent) /\ recent[d + i] = k
  BY <1>1, <1>3
<1>5. /\ jit' \in Seq(Keys) /\ Len(jit') = Len(jit)
      /\ \A j \in 1..Len(jit) : jit'[j] =
           IF j < i THEN jit[j] ELSE IF j < Len(jit) THEN jit[j + 1] ELSE k
  BY <1>1, <1>2, <1>3, TouchedHit
<1>6. /\ recent' \in Seq(Keys) /\ Len(recent') = Len(recent) /\ Distinct(recent')
      /\ \A j \in 1..Len(recent) : recent'[j] =
           IF j < d + i THEN recent[j] ELSE IF j < Len(recent) THEN recent[j + 1] ELSE k
  <2>1. Distinct(recent) /\ k \in Keys
    BY <1>1, <1>4 DEF RecentLast
  <2> QED
    BY <1>1, <1>4, <2>1, TouchedHit, TouchedSet
<1>7. DOMAIN jit' = 1..Len(jit)
  BY <1>5
<1>8. ASSUME NEW j \in 1..Len(jit) PROVE jit'[j] = recent'[d + j]
  <2>1. d + j \in 1..Len(recent) /\ (j < i <=> d + j < d + i)
        /\ (j < Len(jit) <=> d + j < Len(recent)) /\ d + (j + 1) = (d + j) + 1
    BY <1>1
  <2>2. CASE j < i
    BY <1>1, <1>5, <1>6, <2>1, <2>2
  <2>3. CASE ~(j < i) /\ j < Len(jit)
    <3>1. jit'[j] = jit[j + 1] /\ recent'[d + j] = recent[(d + j) + 1]
      BY <1>5, <1>6, <2>1, <2>3
    <3>2. j + 1 \in 1..Len(jit)
      BY <1>1, <2>3
    <3> QED
      BY <1>1, <2>1, <3>1, <3>2
  <2>4. CASE ~(j < i) /\ ~(j < Len(jit))
    BY <1>5, <1>6, <2>1, <2>4
  <2> QED
    BY <2>2, <2>3, <2>4
<1> QED
  BY <1>1, <1>5, <1>6, <1>7, <1>8 DEF RecentLast

\* The same when a key is inserted: an older use of it is before those in the cache.
LEMMA MissKeepsLast ==
  ASSUME TypeOK, RecentLast, NEW k \in Keys, ~Contains(jit, k),
         jit' = Append(jit, k), recent' = Touched(recent, k)
  PROVE  RecentLast'
PROOF
<1> DEFINE d == Len(recent) - Len(jit)
<1>1. /\ jit \in Seq(Keys) /\ recent \in Seq(Keys) /\ d \in Nat /\ Distinct(recent)
      /\ DOMAIN jit = 1..Len(jit) /\ DOMAIN recent = 1..Len(recent)
      /\ \A i \in 1..Len(jit) : d + i \in 1..Len(recent) /\ jit[i] = recent[d + i]
  BY DEF TypeOK, RecentLast
<1>2. /\ jit' \in Seq(Keys) /\ Len(jit') = Len(jit) + 1 /\ DOMAIN jit' = 1..Len(jit) + 1
      /\ \A j \in 1..Len(jit) + 1 : jit'[j] = IF j <= Len(jit) THEN jit[j] ELSE k
  BY <1>1
<1>3. recent' \in Seq(Keys) /\ Distinct(recent')
  BY <1>1, TouchedSet
<1>4. CASE Contains(recent, k)
  <2>1. PICK n \in 1..Len(recent) : recent[n] = k
    BY <1>4 DEF Contains
  <2>2. n <= d
    <3>1. ASSUME n > d PROVE FALSE
      <4>1. n - d \in 1..Len(jit) /\ d + (n - d) = n
        BY <1>1, <3>1
      <4>2. jit[n - d] = k
        BY <1>1, <2>1, <4>1
      <4> QED
        BY <4>1, <4>2 DEF Contains
    <3> QED
      BY <1>1, <3>1
  <2>3. /\ Len(recent') = Len(recent)
        /\ \A j \in 1..Len(recent) : recent'[j] =
             IF j < n THEN recent[j] ELSE IF j < Len(recent) THEN recent[j + 1] ELSE k
    BY <1>1, <2>1, TouchedHit
  <2>4. d - 1 = Len(recent') - Len(jit') /\ Len(jit') <= Len(recent')
    BY <1>1, <1>2, <2>2, <2>3
  <2>5. ASSUME NEW j \in 1..Len(jit) + 1 PROVE jit'[j] = recent'[(d - 1) + j]
    <3>1. CASE j <= Len(jit)
      <4>1. (d - 1) + j \in 1..Len(recent) /\ ~((d - 1) + j < n) /\ (d - 1) + j < Len(recent)
            /\ ((d - 1) + j) + 1 = d + j
        BY <1>1, <2>2, <3>1
      <4> QED
        BY <1>1, <1>2, <2>3, <3>1, <4>1
    <3>2. CASE j = Len(jit) + 1
      <4>1. (d - 1) + j = Len(recent) /\ ~(Len(recent) < n)
        BY <1>1, <2>2, <3>2
      <4>2. Len(recent) \in 1..Len(recent)
        BY <1>1, <2>1
      <4>3. recent'[Len(recent)] = k
        BY <2>3, <4>1, <4>2
      <4> QED
        BY <1>2, <3>2, <4>1, <4>3
    <3> QED
      BY <1>1, <3>1, <3>2
  <2> QED
    BY <1>2, <1>3, <2>4, <2>5 DEF RecentLast
<1>5. CASE ~Contains(recent, k)
  <2>1. /\ Len(recent') = Len(recent) + 1
        /\ \A j \in 1..Len(recent) + 1 : recent'[j] = IF j <= Len(recent) THEN recent[j] ELSE k
    BY <1>1, <1>5, TouchedMiss
  <2>2. d = Len(recent') - Len(jit') /\ Len(jit') <= Len(recent')
    BY <1>1, <1>2, <2>1
  <2>3. ASSUME NEW j \in 1..Len(jit) + 1 PROVE jit'[j] = recent'[d + j]
    <3>1. CASE j <= Len(jit)
      BY <1>1, <1>2, <2>1, <3>1
    <3>2. CASE j = Len(jit) + 1
      BY <1>1, <1>2, <2>1, <3>2
    <3> QED
      BY <1>1, <3>1, <3>2
  <2> QED
    BY <1>2, <1>3, <2>2, <2>3 DEF RecentLast
<1> QED
  BY <1>4, <1>5

\* The same when the first key is dropped.
LEMMA TailKeepsLast ==
  ASSUME TypeOK, RecentLast, jit # <<>>, jit' = Tail(jit), recent' = recent
  PROVE  RecentLast'
PROOF
<1>1. /\ jit \in Seq(Keys) /\ recent \in Seq(Keys) /\ Len(jit) \in Nat \ {0}
      /\ DOMAIN jit = 1..Len(jit) /\ Len(recent) \in Nat /\ Len(jit) <= Len(recent)
  BY DEF TypeOK, RecentLast
<1>2. /\ Len(jit') = Len(jit) - 1 /\ DOMAIN jit' = 1..Len(jit) - 1
      /\ \A j \in 1..Len(jit) - 1 : jit'[j] = jit[j + 1]
  BY <1>1
<1>3. ASSUME NEW j \in 1..Len(jit) - 1 PROVE jit'[j] = recent[Len(recent) - Len(jit') + j]
  <2>1. j + 1 \in 1..Len(jit) /\ Len(recent) - Len(jit) + (j + 1) = Len(recent) - Len(jit') + j
    BY <1>1, <1>2
  <2> QED
    BY <1>1, <1>2, <2>1 DEF RecentLast
<1> QED
  BY <1>1, <1>2, <1>3 DEF RecentLast
-----------------------------------------------------------------------------
\* A thread that inserts owes an eviction, and one that makes up for it does not.
LEMMA OwingCounted ==
  ASSUME TypeOK, TypeOK', NEW t \in Threads, \A u \in Threads \ {t} : pc'[u] = pc[u]
  PROVE  /\ Cardinality(Owing) \in Nat /\ Cardinality(Owing') \in Nat
         /\ t \in Owing' /\ t \notin Owing => Cardinality(Owing') = Cardinality(Owing) + 1
         /\ t \notin Owing' /\ t \in Owing => Cardinality(Owing') = Cardinality(Owing) - 1
         /\ (t \in Owing' <=> t \in Owing) => Owing' = Owing
PROOF
<1>1. IsFiniteSet(Owing) /\ IsFiniteSet(Owing')
  <2>1. Owing \subseteq Threads /\ Owing' \subseteq Threads
    BY DEF Owing
  <2> QED
    BY <2>1, CachesAssumption, FS_Subset
<1>2. Cardinality(Owing) \in Nat /\ Cardinality(Owing') \in Nat
  BY <1>1, FS_CardinalityType
<1>3. ASSUME t \in Owing', t \notin Owing PROVE Cardinality(Owing') = Cardinality(Owing) + 1
  <2>1. Owing' = Owing \union {t}
    BY <1>3 DEF Owing
  <2> QED
    BY <1>1, <1>3, <2>1, FS_AddElement
<1>4. ASSUME t \notin Owing', t \in Owing PROVE Cardinality(Owing') = Cardinality(Owing) - 1
  <2>1. Owing' = Owing \ {t}
    BY <1>4 DEF Owing
  <2> QED
    BY <1>1, <1>4, <2>1, FS_RemoveElement
<1>5. ASSUME t \in Owing' <=> t \in Owing PROVE Owing' = Owing
  BY <1>5 DEF Owing
<1> QED
  BY <1>2, <1>3, <1>4, <1>5

\* A step of a thread elsewhere leaves the account as it is.
LEMMA OwingKept ==
  ASSUME TypeOK, NEW t \in Threads, NEW place, pc' = [pc EXCEPT ![t] = place],
         {pc[t], place} \intersect {"measuring", "evicting"} = {}
  PROVE  Owing' = Owing
PROOF
  BY DEF TypeOK, Owing

\* A key is cached exactly if it has an entry, which is its own.
LEMMA CachedKeys ==
  ASSUME TypeOK, CachesMatch, NEW k
  PROVE  /\ Contains(jit, k) <=> k \in DOMAIN entry
         /\ Contains(jit, k) => k \in Keys /\ entry[k] = k
PROOF
<1>1. Contains(jit, k) <=> k \in ToSet(jit)
  BY DEF TypeOK, Contains, ToSet
<1>2. ToSet(jit) \subseteq Keys
  BY DEF TypeOK, ToSet
<1> QED
  BY <1>1, <1>2 DEF TypeOK, CachesMatch

\* NoKey is not a key, and the key of a module on its pipeline is one.
LEMMA KeyFacts ==
  /\ NoKey \notin Keys
  /\ \A c \in DOMAIN Configs : \A k : Matches(c, k) => k # NoKey
  /\ TypeOK => \A c \in DOMAIN Configs :
       Matches(c, [text |-> Configs[c].text, pipeline |-> PipelineOf(c)])
PROOF
<1>1. NoKey \notin Keys
  BY DEF NoKey, Keys, Pipelines
<1>2. \A c \in DOMAIN Configs : \A k : Matches(c, k) => k # NoKey
  BY <1>1 DEF Matches
<1>3. ASSUME TypeOK, NEW c \in DOMAIN Configs
      PROVE  Matches(c, [text |-> Configs[c].text, pipeline |-> PipelineOf(c)])
  <2>1. PipelineOf(c) \in Pipelines
    BY <1>3, CachesAssumption DEF TypeOK, PipelineOf
  <2>2. Configs[c].text \in Texts
    BY DEF Texts
  <2>3. Configs[c].pipeline # "unset" => PipelineOf(c) = Configs[c].pipeline
    BY DEF PipelineOf
  <2> QED
    BY <2>1, <2>2, <2>3 DEF Matches, Keys
<1> QED
  BY <1>1, <1>2, <1>3

\* Nothing is cached and no thread has begun.
LEMMA InitInv == Init => Inv
PROOF
<1> SUFFICES ASSUME Init PROVE Inv
  OBVIOUS
<1>1. TypeOK
  BY CachesAssumption DEF Init, TypeOK, Places, ToSet
<1>2. ThreadsMatch
  BY DEF Init, ThreadsMatch
<1>3. CachesMatch
  BY DEF Init, CachesMatch, ToSet
<1>4. RecentLast
  BY DEF Init, RecentLast, Distinct
<1>5. Bounded
  <2>1. Cardinality(Owing) = 0
    BY FS_EmptySet DEF Init, Owing
  <2> QED
    BY <2>1, CachesAssumption DEF Init, Bounded
<1> QED
  BY <1>1, <1>2, <1>3, <1>4, <1>5 DEF Inv

\* Every step of a thread, and a change of the environment, keeps the invariant.
LEMMA StepInv == Inv /\ [Next]_vars => Inv'
PROOF
<1> SUFFICES ASSUME Inv, [Next]_vars PROVE Inv'
  OBVIOUS
<1> USE DEF Inv
<1>1. CASE SetEnviron
  <2>1. TypeOK'
    BY <1>1 DEF SetEnviron, TypeOK
  <2>2. ThreadsMatch'
    BY <1>1 DEF SetEnviron, ThreadsMatch
  <2>3. CachesMatch'
    BY <1>1 DEF SetEnviron, CachesMatch
  <2>4. RecentLast'
    BY <1>1 DEF SetEnviron, RecentLast
  <2>5. Bounded'
    BY <1>1 DEF SetEnviron, Owing, Bounded
  <2> QED
    BY <2>1, <2>2, <2>3, <2>4, <2>5
<1>2. ASSUME NEW t \in Threads, NEW c \in DOMAIN Configs, CompileConfig(t, c) PROVE Inv'
  <2>1. TypeOK'
    BY <1>2 DEF CompileConfig, Goto, Places, TypeOK
  <2>2. ThreadsMatch'
    BY <1>2 DEF CompileConfig, Goto, TypeOK, CachesMatch, ThreadsMatch
  <2>3. CachesMatch'
    BY <1>2 DEF CompileConfig, CachesMatch
  <2>4. RecentLast'
    BY <1>2 DEF CompileConfig, RecentLast
  <2>5. Bounded'
    BY <1>2, OwingKept DEF CompileConfig, Goto, Bounded
  <2> QED
    BY <2>1, <2>2, <2>3, <2>4, <2>5
<1>3. ASSUME NEW t \in Threads, ReadEnviron(t) PROVE Inv'
  <2>1. TypeOK'
    BY <1>3, KeyFacts DEF ReadEnviron, Goto, Places, Matches, TypeOK
  <2>2. ThreadsMatch'
    BY <1>3, KeyFacts DEF ReadEnviron, Goto, TypeOK, ThreadsMatch
  <2>3. CachesMatch'
    BY <1>3 DEF ReadEnviron, CachesMatch
  <2>4. RecentLast'
    BY <1>3 DEF ReadEnviron, RecentLast
  <2>5. Bounded'
    BY <1>3, OwingKept DEF ReadEnviron, Goto, Bounded
  <2> QED
    BY <2>1, <2>2, <2>3, <2>4, <2>5
<1>4. ASSUME NEW t \in Threads, LookUp(t) PROVE Inv'
  <2>1. TypeOK'
    <3>1. \/ found' = found
          \/ Contains(jit, key[t]) /\ found' = [found EXCEPT ![t] = entry[key[t]]]
      BY <1>4 DEF LookUp
    <3>2. Contains(jit, key[t]) => entry[key[t]] \in Keys
      BY CachedKeys
    <3>3. found' \in [Threads -> Keys \union {NoKey}]
      BY <3>1, <3>2 DEF TypeOK
    <3> QED
      BY <1>4, <3>3 DEF LookUp, Goto, Places, TypeOK
  <2>2. ThreadsMatch'
    BY <1>4, CachedKeys, KeyFacts DEF LookUp, Goto, TypeOK, ThreadsMatch
  <2>3. CachesMatch'
    BY <1>4 DEF LookUp, CachesMatch
  <2>4. RecentLast'
    BY <1>4 DEF LookUp, RecentLast
  <2>5. Bounded'
    BY <1>4, OwingKept DEF LookUp, Goto, Bounded
  <2> QED
    BY <2>1, <2>2, <2>3, <2>4, <2>5
<1>5. ASSUME NEW t \in Threads, Touch(t) PROVE Inv'
  <2> DEFINE k == key[t]
  <2>1. \/ UNCHANGED <<jit, recent>>
        \/ Contains(jit, k) /\ jit' = Touched(jit, k) /\ recent' = Touched(recent, k)
    BY <1>5 DEF Touch, MovedToEnd
  <2>2. jit' \in Seq(Keys) /\ recent' \in Seq(Keys) /\ ToSet(jit') = ToSet(jit)
        /\ Len(jit') = Len(jit)
    <3>1. CASE UNCHANGED <<jit, recent>>
      BY <3>1 DEF TypeOK
    <3>2. CASE Contains(jit, k) /\ jit' = Touched(jit, k) /\ recent' = Touched(recent, k)
      <4>1. k \in Keys /\ k \in ToSet(jit) /\ \E i \in 1..Len(jit) : k = jit[i]
        BY <3>2, CachedKeys DEF Contains, TypeOK
      <4>2. Distinct(jit) /\ Distinct(recent) /\ jit \in Seq(Keys) /\ recent \in Seq(Keys)
        BY CachedOnce DEF RecentLast, TypeOK
      <4>3. Len(jit') = Len(jit)
        BY <3>2, <4>1, <4>2, TouchedHit
      <4>4. jit' \in Seq(Keys) /\ ToSet(jit') = ToSet(jit) \union {k}
        BY <3>2, <4>1, <4>2, TouchedSet
      <4>5. recent' \in Seq(Keys)
        BY <3>2, <4>1, <4>2, TouchedSet
      <4> QED
        BY <4>1, <4>3, <4>4, <4>5
    <3> QED
      BY <2>1, <3>1, <3>2
  <2>3. TypeOK'
    BY <1>5, <2>2 DEF Touch, Goto, Places, TypeOK
  <2>4. ThreadsMatch'
    BY <1>5 DEF Touch, Goto, TypeOK, ThreadsMatch
  <2>5. CachesMatch'
    BY <1>5, <2>2 DEF Touch, CachesMatch
  <2>6. RecentLast'
    BY <2>1, HitKeepsLast DEF RecentLast
  <2>7. Bounded'
    BY <1>5, <2>2, OwingKept DEF Touch, Goto, Bounded
  <2> QED
    BY <2>3, <2>4, <2>5, <2>6, <2>7
<1>6. ASSUME NEW t \in Threads, Compile(t) PROVE Inv'
  <2>1. TypeOK'
    <3>1. /\ \/ found' = [found EXCEPT ![t] = key[t]]
             \/ found' = found
          /\ \E place \in Places : pc' = [pc EXCEPT ![t] = place]
      BY <1>6 DEF Compile, Goto, Places
    <3>2. found' \in [Threads -> Keys \union {NoKey}] /\ pc' \in [Threads -> Places]
      BY <3>1 DEF TypeOK
    <3> QED
      BY <1>6, <3>2 DEF Compile, TypeOK
  <2>2. ThreadsMatch'
    BY <1>6 DEF Compile, Goto, TypeOK, ThreadsMatch
  <2>3. CachesMatch'
    BY <1>6 DEF Compile, CachesMatch
  <2>4. RecentLast'
    BY <1>6 DEF Compile, RecentLast
  <2>5. Bounded'
    BY <1>6, OwingKept DEF Compile, Goto, Bounded
  <2> QED
    BY <2>1, <2>2, <2>3, <2>4, <2>5
<1>7. ASSUME NEW t \in Threads, Insert(t) PROVE Inv'
  <2> DEFINE k == key[t]
  <2>1. k \in Keys /\ found[t] = k
    BY <1>7 DEF Insert, ThreadsMatch, Matches
  <2>2. \/ Contains(jit, k) /\ UNCHANGED <<jit, recent>>
        \/ ~Contains(jit, k) /\ jit' = Append(jit, k) /\ recent' = Touched(recent, k)
    BY <1>7 DEF Insert
  <2>3. /\ jit' \in Seq(Keys) /\ recent' \in Seq(Keys) /\ Len(jit') <= Len(jit) + 1
        /\ ToSet(jit') = ToSet(jit) \union {k}
    <3>1. jit \in Seq(Keys) /\ recent \in Seq(Keys) /\ Distinct(recent) /\ Distinct(jit)
      BY CachedOnce DEF TypeOK, RecentLast
    <3>2. CASE Contains(jit, k) /\ UNCHANGED <<jit, recent>>
      <4>1. k \in ToSet(jit)
        BY <3>1, <3>2 DEF Contains, ToSet
      <4> QED
        BY <3>1, <3>2, <4>1
    <3>3. CASE ~Contains(jit, k) /\ jit' = Append(jit, k) /\ recent' = Touched(recent, k)
      <4>1. jit' = Touched(jit, k)
        BY <2>1, <3>1, <3>3, TouchedMiss
      <4>2. Len(jit') = Len(jit) + 1
        BY <2>1, <3>1, <3>3, AppendProperties
      <4>3. jit' \in Seq(Keys) /\ ToSet(jit') = ToSet(jit) \union {k}
        BY <2>1, <3>1, <4>1, TouchedSet
      <4>4. recent' \in Seq(Keys)
        BY <2>1, <3>1, <3>3, TouchedSet
      <4> QED
        BY <3>1, <4>2, <4>3, <4>4
    <3> QED
      BY <2>2, <3>2, <3>3
  <2>4. /\ DOMAIN entry' = DOMAIN entry \union {k} /\ entry'[k] = k
        /\ \A g \in DOMAIN entry : entry'[g] = IF g = k THEN k ELSE entry[g]
    BY <1>7, <2>1 DEF Insert
  <2>5. TypeOK'
    BY <1>7, <2>3 DEF Insert, Goto, Places, TypeOK
  <2>6. ThreadsMatch'
    BY <1>7 DEF Insert, Goto, ThreadsMatch
  <2>7. CachesMatch'
    BY <1>7, <2>3, <2>4 DEF Insert, TypeOK, CachesMatch
  <2>8. RecentLast'
    BY <2>1, <2>2, MissKeepsLast DEF RecentLast
  <2>9. Bounded'
    <3>1. t \notin Owing /\ t \in Owing' /\ \A u \in Threads \ {t} : pc'[u] = pc[u]
      BY <1>7 DEF Insert, Goto, Owing, TypeOK
    <3>2. Cardinality(Owing') = Cardinality(Owing) + 1 /\ Cardinality(Owing) \in Nat
      BY <2>5, <3>1, OwingCounted
    <3>3. Len(jit) \in Nat /\ Len(jit') \in Nat /\ JitSize \in Nat
      BY <2>3, CachesAssumption DEF TypeOK
    <3> QED
      BY <2>3, <3>2, <3>3 DEF Bounded
  <2> QED
    BY <2>5, <2>6, <2>7, <2>8, <2>9
<1>8. ASSUME NEW t \in Threads, Measure(t) PROVE Inv'
  <2>1. TypeOK'
    BY <1>8 DEF Measure, Goto, Places, TypeOK
  <2>2. ThreadsMatch'
    BY <1>8 DEF Measure, Goto, ThreadsMatch
  <2>3. CachesMatch'
    BY <1>8 DEF Measure, CachesMatch
  <2>4. RecentLast'
    BY <1>8 DEF Measure, RecentLast
  <2>5. Bounded'
    <3>1. t \in Owing /\ \A u \in Threads \ {t} : pc'[u] = pc[u]
      BY <1>8 DEF Measure, Goto, Owing, TypeOK
    <3>2. jit' = jit /\ Len(jit) \in Nat /\ JitSize \in Nat
      BY <1>8, CachesAssumption DEF Measure, TypeOK
    <3>3. Cardinality(Owing) \in Nat /\ Cardinality(Owing') \in Nat
      BY <2>1, <3>1, OwingCounted
    <3>4. CASE TooLong
      <4>1. Owing' = Owing
        BY <1>8, <3>4 DEF Measure, Goto, Owing, TypeOK
      <4> QED
        BY <3>2, <4>1 DEF Bounded
    <3>5. CASE ~TooLong
      BY <3>2, <3>3, <3>5 DEF TooLong, Bounded
    <3> QED
      BY <3>4, <3>5
  <2> QED
    BY <2>1, <2>2, <2>3, <2>4, <2>5
<1>9. ASSUME NEW t \in Threads, Evict(t) PROVE Inv'
  <2>1. \/ jit = <<>> /\ UNCHANGED <<jit, entry>>
        \/ /\ jit # <<>> /\ jit' = Tail(jit)
           /\ entry' = [k \in ToSet(Tail(jit)) |-> entry[k]]
    BY <1>9 DEF Evict
  <2>2. /\ recent' = recent /\ compiled' = compiled
        /\ pc' = [pc EXCEPT ![t] = pc'[t]] /\ pc'[t] \in {"storing", "eviction_failed"}
    BY <1>9 DEF Evict, Goto, TypeOK
  <2>3. /\ jit' \in Seq(Keys) /\ ToSet(jit') \subseteq ToSet(jit) /\ DOMAIN entry' = ToSet(jit')
        /\ \A k \in ToSet(jit') : entry'[k] = entry[k]
        /\ jit # <<>> => Len(jit') = Len(jit) - 1
    <3>1. CASE jit = <<>> /\ UNCHANGED <<jit, entry>>
      BY <3>1 DEF TypeOK
    <3>2. CASE /\ jit # <<>> /\ jit' = Tail(jit)
               /\ entry' = [k \in ToSet(Tail(jit)) |-> entry[k]]
      <4>1. /\ jit' \in Seq(Keys) /\ Len(jit') = Len(jit) - 1 /\ Len(jit) \in Nat \ {0}
            /\ \A i \in 1..Len(jit) - 1 : jit'[i] = jit[i + 1]
        BY <3>2 DEF TypeOK
      <4>2. ToSet(jit') \subseteq ToSet(jit)
        <5>1. ASSUME NEW i \in DOMAIN jit' PROVE jit'[i] \in ToSet(jit)
          <6>1. i \in 1..Len(jit) - 1 /\ i + 1 \in DOMAIN jit
            BY <4>1 DEF TypeOK
          <6> QED
            BY <4>1, <6>1 DEF ToSet
        <5> QED
          BY <5>1 DEF ToSet
      <4> QED
        BY <3>2, <4>1, <4>2
    <3> QED
      BY <2>1, <3>1, <3>2
  <2>4. TypeOK'
    BY <1>9, <2>2, <2>3 DEF Evict, Places, TypeOK
  <2>5. ThreadsMatch'
    BY <1>9 DEF Evict, Goto, TypeOK, ThreadsMatch
  <2>6. CachesMatch'
    BY <2>2, <2>3 DEF CachesMatch
  <2>7. RecentLast'
    BY <2>1, <2>2, TailKeepsLast DEF RecentLast
  <2>8. Bounded'
    <3>1. t \in Owing /\ t \notin Owing' /\ \A u \in Threads \ {t} : pc'[u] = pc[u]
      BY <1>9, <2>2 DEF Evict, Owing, TypeOK
    <3>2. /\ Cardinality(Owing') = Cardinality(Owing) - 1
          /\ Cardinality(Owing) \in Nat /\ Cardinality(Owing') \in Nat
      BY <2>4, <3>1, OwingCounted
    <3>3. JitSize \in Nat /\ Len(jit) \in Nat
      BY CachesAssumption DEF TypeOK
    <3>4. CASE jit = <<>>
      BY <2>1, <3>2, <3>3, <3>4 DEF Bounded
    <3>5. CASE jit # <<>>
      BY <2>3, <3>2, <3>3, <3>5 DEF Bounded
    <3> QED
      BY <3>4, <3>5
  <2> QED
    BY <2>4, <2>5, <2>6, <2>7, <2>8
<1>10. ASSUME NEW t \in Threads, StoreCompiled(t) PROVE Inv'
  <2>1. TypeOK'
    BY <1>10 DEF StoreCompiled, Goto, Places, TypeOK
  <2>2. ThreadsMatch'
    BY <1>10 DEF StoreCompiled, Goto, ThreadsMatch
  <2>3. CachesMatch'
    BY <1>10 DEF StoreCompiled, ThreadsMatch, CachesMatch
  <2>4. RecentLast'
    BY <1>10 DEF StoreCompiled, RecentLast
  <2>5. Bounded'
    BY <1>10, OwingKept DEF StoreCompiled, Goto, Bounded
  <2> QED
    BY <2>1, <2>2, <2>3, <2>4, <2>5
<1>11. ASSUME NEW t \in Threads, Return(t) PROVE Inv'
  <2>1. TypeOK'
    BY <1>11 DEF Return, Goto, Places, TypeOK
  <2>2. ThreadsMatch'
    BY <1>11 DEF Return, Goto, TypeOK, ThreadsMatch
  <2>3. CachesMatch'
    BY <1>11 DEF Return, CachesMatch
  <2>4. RecentLast'
    BY <1>11 DEF Return, RecentLast
  <2>5. Bounded'
    BY <1>11, OwingKept DEF Return, Goto, Bounded
  <2> QED
    BY <2>1, <2>2, <2>3, <2>4, <2>5
<1>12. CASE UNCHANGED vars
  <2>1. TypeOK'
    BY <1>12 DEF vars, TypeOK
  <2>2. ThreadsMatch'
    BY <1>12 DEF vars, ThreadsMatch
  <2>3. CachesMatch'
    BY <1>12 DEF vars, CachesMatch
  <2>4. RecentLast'
    BY <1>12 DEF vars, RecentLast
  <2>5. Bounded'
    BY <1>12 DEF vars, Owing, Bounded
  <2> QED
    BY <2>1, <2>2, <2>3, <2>4, <2>5
<1> QED
  BY <1>1, <1>2, <1>3, <1>4, <1>5, <1>6, <1>7, <1>8, <1>9, <1>10, <1>11, <1>12
     DEF Next, Step

-----------------------------------------------------------------------------
\* The invariant holds for any threads, configs and cache size.
THEOREM InvHolds == Spec => []Inv
PROOF
  BY InitInv, StepInv, PTL DEF Spec

\* Every variable has its shape, and exactly the cached keys have an entry.
THEOREM TypesHold == Spec => []TypeOK
PROOF
<1>1. Inv => TypeOK
  BY DEF Inv
<1> QED
  BY <1>1, InvHolds, PTL

\* A callable runs the module of its config, on the pipeline the config names, and a
\* cached entry is the one of its text and pipeline (driver.py, compile_kernel).
THEOREM EntriesAlwaysMatch == Spec => []EntriesMatch
PROOF
<1>1. Inv => EntriesMatch
  BY DEF Inv, EntriesMatch, CachesMatch, ThreadsMatch, Matches
<1> QED
  BY <1>1, InvHolds, PTL

\* The cache holds the entries used last, in order of use, and no more than its size and
\* what threads are about to evict (execution.py, compile_entry).
THEOREM MostRecentAlwaysKept == Spec => []MostRecentKept
PROOF
<1>1. Inv => MostRecentKept
  <2> SUFFICES ASSUME Inv PROVE MostRecentKept
    OBVIOUS
  <2> DEFINE d == Len(recent) - Len(jit)
             end == SubSeq(recent, d + 1, Len(recent))
  <2>1. /\ jit \in Seq(Keys) /\ recent \in Seq(Keys) /\ d \in Nat
        /\ \A i \in 1..Len(jit) : jit[i] = recent[d + i]
    BY DEF Inv, TypeOK, RecentLast
  <2>2. end \in Seq(Keys) /\ Len(end) = Len(jit) /\ \A i \in 1..Len(jit) : end[i] = recent[d + i]
    BY <2>1
  <2>3. jit = end
    BY <2>1, <2>2, SeqEqual
  <2> QED
    BY <2>3 DEF Inv, Bounded, Owing, MostRecentKept
<1> QED
  BY <1>1, InvHolds, PTL
=============================================================================
